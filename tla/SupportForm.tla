------------------------------ MODULE SupportForm ------------------------------
(***************************************************************************)
(* The form "Ny melding" of the portal: the page aareg_contactSupportForm  *)
(* (LWC), the Apex controller AAREG_contactSupportController behind it,    *)
(* and the flow that deletes the drafts every night.                       *)
(*                                                                         *)
(* A draft of the inquiry is made when the first field changes, so that    *)
(* files can be uploaded to it before the inquiry is submitted.  Calls of  *)
(* the page are transactions that run in any order, may fail, and may      *)
(* succeed with an answer that is lost.  The texts of the fields are left  *)
(* out, except whether the e-mail address is valid.                        *)
(***************************************************************************)
EXTENDS Naturals, FiniteSets

CONSTANTS
    Inquiries, \* records Inquiry__c that may come to exist
    Files,     \* documents that may come to exist
    NoInquiry,
    MaxFiles,  \* 10 in the code
    MaxCalls, MaxSubmissions
               \* bounds of the model: calls under way, how often the form is sent

ASSUME SupportConstants ==
    /\ NoInquiry \notin Inquiries
    /\ MaxFiles \in Nat \ {0} /\ MaxCalls \in Nat \ {0} /\ MaxSubmissions \in Nat

VARIABLES
    status,          \* Status__c of an inquiry, or "none", or "deleted"
    threads,         \* threads made for the case workers
    documents,       \* documents that exist
    links,           \* <<document, inquiry>> of the ContentDocumentLinks
    cleaning,        \* inquiries the nightly flow has found and not dealt with
    isUploadEnabled, draftRecordId, uploadedFiles, isSubmitted,
    used,            \* documents uploaded so far
    calls,           \* calls of the page under way
    submissions      \* bounded by MaxSubmissions

serverVars == <<status, threads, documents, links>>
pageVars == <<isUploadEnabled, draftRecordId, uploadedFiles, isSubmitted, used>>
vars == <<serverVars, cleaning, pageVars, calls, submissions>>

Slots == 1..MaxCalls
NoCall == [kind |-> "none", inquiry |-> NoInquiry, files |-> {}, answer |-> "none"]
Call(kind, q, files) == [kind |-> kind, inquiry |-> q, files |-> files, answer |-> "pending"]

Exists(q) == q \in Inquiries /\ status[q] \in {"Draft", "New"}

\* A call takes the first free slot.
Begin(call) ==
    \E i \in Slots :
        /\ calls[i] = NoCall /\ \A j \in 1..(i - 1) : calls[j] # NoCall
        /\ calls' = [calls EXCEPT ![i] = call]

----------------------------------------------------------------------------
(* The page *)

\* Mutant: the upload is enabled when the draft is there.
FirstChangeEnabledLater ==
    /\ ~isUploadEnabled /\ isUploadEnabled' = (draftRecordId # NoInquiry)
    /\ Begin(Call("init", NoInquiry, {})) \/ UNCHANGED calls

\* The first change enables the upload, and then makes the draft, unless the
\* e-mail address is not valid; nothing makes it later.
FirstChange ==
    /\ ~isUploadEnabled /\ isUploadEnabled' = TRUE
    /\ Begin(Call("init", NoInquiry, {})) \/ UNCHANGED calls

\* Later changes are sent to the draft.
LaterChange ==
    /\ isUploadEnabled /\ draftRecordId # NoInquiry
    /\ Begin(Call("update", draftRecordId, {}))
    /\ UNCHANGED isUploadEnabled

HandleInputChange ==
    /\ ~isSubmitted /\ (FirstChange \/ LaterChange)
    /\ UNCHANGED <<serverVars, cleaning, draftRecordId, uploadedFiles, isSubmitted, used, submissions>>

\* Files are uploaded to the draft, or to nothing while the page does not have it.
\* What exceeds the limit is deleted, as far as that succeeds.
HandleFilesUploaded(new) ==
    /\ ~isSubmitted /\ isUploadEnabled /\ Cardinality(uploadedFiles) < MaxFiles
    /\ draftRecordId = NoInquiry \/ Exists(draftRecordId)
    /\ new # {} /\ new \cap used = {}
    /\ used' = used \cup new /\ documents' = documents \cup new
    /\ links' = links \cup (new \X ({draftRecordId} \ {NoInquiry}))
    /\ LET room == MaxFiles - Cardinality(uploadedFiles) IN
       IF Cardinality(new) <= room
       THEN uploadedFiles' = uploadedFiles \cup new /\ UNCHANGED calls
       ELSE \E kept \in SUBSET new :
                /\ Cardinality(kept) = room
                /\ uploadedFiles' = uploadedFiles \cup kept
                /\ Begin(Call("delete", NoInquiry, new \ kept))
    /\ UNCHANGED <<status, threads, cleaning, isUploadEnabled, draftRecordId, isSubmitted, submissions>>

HandleRemoveUploadedFile(f) ==
    /\ ~isSubmitted /\ f \in uploadedFiles /\ draftRecordId # NoInquiry
    /\ Begin(Call("delete", NoInquiry, {f}))
    /\ UNCHANGED <<serverVars, cleaning, pageVars, submissions>>

\* The required fields are filled in.  Nothing stops a second submission while
\* the first is under way; a question about an application takes no files along.
HandleSubmit ==
    /\ ~isSubmitted /\ isUploadEnabled
    /\ submissions < MaxSubmissions /\ submissions' = submissions + 1
    /\ \/ Begin(Call("final", draftRecordId, uploadedFiles))
       \/ Begin(Call("thread", NoInquiry, {}))
    /\ UNCHANGED <<serverVars, cleaning, pageVars>>

----------------------------------------------------------------------------
(* The controller *)

InitDraftRecord(q) ==
    /\ status[q] = "none" /\ status' = [status EXCEPT ![q] = "Draft"]
    /\ UNCHANGED <<threads, documents, links>>

\* Mutant: the status is written with the fields.
UpdateDraftRecordStatus(call) ==
    /\ Exists(call.inquiry)
    /\ status' = [status EXCEPT ![call.inquiry] = "Draft"]
    /\ UNCHANGED <<threads, documents, links>>

\* Only fields whose text is left out here.
UpdateDraftRecord(call) == Exists(call.inquiry) /\ UNCHANGED serverVars

\* Mutant: an inquiry that is not there is passed over.
CreateFinalInquiryIfThere(call) ==
    /\ status' = [q \in Inquiries |->
           IF q = call.inquiry /\ Exists(q) THEN "New" ELSE status[q]]
    /\ threads' = IF Exists(call.inquiry) THEN threads + 1 ELSE threads
    /\ UNCHANGED <<documents, links>>

\* The inquiry and its thread, whatever the status was before.
CreateFinalInquiry(call) ==
    /\ Exists(call.inquiry)
    /\ status' = [status EXCEPT ![call.inquiry] = "New"]
    /\ threads' = threads + 1
    /\ UNCHANGED <<documents, links>>

\* Mutant: the files are taken to be linked by the upload.
EnrichNothing(call) == call.files \subseteq documents /\ UNCHANGED serverVars

\* Adds the links that are missing; a document that is gone cannot be linked.
EnrichUploadedFiles(call) ==
    /\ Exists(call.inquiry) /\ call.files \subseteq documents
    /\ links' = links \cup (call.files \X {call.inquiry})
    /\ UNCHANGED <<status, threads, documents>>

WithoutDocuments(gone) ==
    /\ documents' = documents \ gone
    /\ links' = {l \in links : l[1] \notin gone}

\* Documents that are not there any more are passed over.
DeleteFiles(call) == WithoutDocuments(call.files) /\ UNCHANGED <<status, threads>>

CreateThreadForApplication == threads' = threads + 1 /\ UNCHANGED <<status, documents, links>>

\* One transaction; the page sees an error also when only the answer is lost.
Execute(i) ==
    LET call == calls[i]
        Answer(answer, q) == calls' = [calls EXCEPT ![i].answer = answer, ![i].inquiry = q]
    IN
    /\ call.answer = "pending"
    /\ \/ /\ \/ call.kind = "update" /\ UpdateDraftRecord(call)
             \/ call.kind = "final" /\ CreateFinalInquiry(call)
             \/ call.kind = "enrich" /\ EnrichUploadedFiles(call)
             \/ call.kind = "delete" /\ DeleteFiles(call)
             \/ call.kind = "thread" /\ CreateThreadForApplication
          /\ \E answer \in {"ok", "error"} : Answer(answer, call.inquiry)
       \/ \E q \in Inquiries, answer \in {"ok", "error"} :
             call.kind = "init" /\ InitDraftRecord(q) /\ Answer(answer, q)
       \/ Answer("error", call.inquiry) /\ UNCHANGED serverVars
    /\ UNCHANGED <<cleaning, pageVars, submissions>>

----------------------------------------------------------------------------
(* The answers *)

Free(i) == calls' = [calls EXCEPT ![i] = NoCall]
Continue(i, call) == calls' = [calls EXCEPT ![i] = call]

\* initializeDraftInquiry: the fields are sent after the draft, unless the e-mail
\* address is not valid by then.
DraftAnswered(i, q) ==
    /\ draftRecordId' = q
    /\ Continue(i, Call("update", q, {})) \/ Free(i)
    /\ UNCHANGED <<uploadedFiles, isSubmitted>>

\* The files follow the inquiry, and the form is submitted when they are linked.
FinalAnswered(i, call) ==
    /\ IF call.files = {} THEN isSubmitted' = TRUE /\ Free(i)
       ELSE UNCHANGED isSubmitted /\ Continue(i, Call("enrich", call.inquiry, call.files))
    /\ UNCHANGED <<draftRecordId, uploadedFiles>>

\* Every error is only logged, and the form stays as it is.
Receive(i) ==
    LET call == calls[i] IN
    /\ \/ /\ call.answer = "ok"
          /\ \/ call.kind = "init" /\ DraftAnswered(i, call.inquiry)
             \/ call.kind = "final" /\ FinalAnswered(i, call)
             \/ /\ call.kind \in {"enrich", "thread"} /\ isSubmitted' = TRUE
                /\ Free(i) /\ UNCHANGED <<draftRecordId, uploadedFiles>>
             \/ /\ call.kind \in {"update", "delete"}
                /\ uploadedFiles' = uploadedFiles \ call.files
                /\ Free(i) /\ UNCHANGED <<draftRecordId, isSubmitted>>
       \/ /\ call.answer = "error"
          /\ Free(i) /\ UNCHANGED <<draftRecordId, uploadedFiles, isSubmitted>>
    /\ UNCHANGED <<serverVars, cleaning, isUploadEnabled, used, submissions>>

----------------------------------------------------------------------------
(* AAREG_deleteDraftInquiriesANDrelatedDocuments *)

StartCleaning ==
    /\ cleaning = {} /\ cleaning' = {q \in Inquiries : status[q] = "Draft"}
    /\ UNCHANGED <<serverVars, pageVars, calls, submissions>>

\* Deletes what it has found, with the documents linked to it then, or fails.  The
\* status is not read again.
Clean(q) ==
    /\ q \in cleaning /\ cleaning' = cleaning \ {q}
    /\ \/ /\ status' = [status EXCEPT ![q] = "deleted"]
          /\ WithoutDocuments({f \in Files : <<f, q>> \in links}) /\ UNCHANGED threads
       \/ UNCHANGED serverVars
    /\ UNCHANGED <<pageVars, calls, submissions>>

----------------------------------------------------------------------------
Init ==
    /\ status = [q \in Inquiries |-> "none"] /\ threads = 0
    /\ documents = {} /\ links = {} /\ cleaning = {}
    /\ isUploadEnabled = FALSE /\ draftRecordId = NoInquiry
    /\ uploadedFiles = {} /\ isSubmitted = FALSE /\ used = {}
    /\ calls = [i \in Slots |-> NoCall] /\ submissions = 0

Page ==
    \/ HandleInputChange \/ HandleSubmit
    \/ \E new \in SUBSET Files : HandleFilesUploaded(new)
    \/ \E f \in Files : HandleRemoveUploadedFile(f)

Next ==
    \/ Page \/ StartCleaning
    \/ \E i \in Slots : Execute(i) \/ Receive(i)
    \/ \E q \in Inquiries : Clean(q)

Spec == Init /\ [][Next]_vars

----------------------------------------------------------------------------
(* Properties *)

\* A form makes one draft, however many fields change while the draft is being
\* made, and also when it fails or its answer is lost (handleInputChange).
OneDraftPerForm ==
    \A q, r \in Inquiries : status[q] # "none" /\ status[r] # "none" => q = r

\* What has been submitted before the nightly flow has found it as a draft stays
\* submitted and out of its reach, also when changes of the draft arrive after the
\* submission (updateDraftRecord, createFinalInquiry).
SubmittedSurvivesCleaning ==
    [][\A q \in Inquiries :
          status[q] = "New" /\ q \notin cleaning => status'[q] = "New" /\ q \notin cleaning']_vars

\* When the form learns that the inquiry and its links have been saved, the files it
\* shows belong to the inquiry, those too that were uploaded before the draft was there
\* or after the submission had begun; a file that is gone was removed meanwhile
\* (handleFilesUploaded, handleSubmit, enrichUploadedFiles).
SubmittedHasItsFiles ==
    [][\A i \in Slots :
          /\ Receive(i) /\ calls[i].kind \in {"final", "enrich"}
          /\ ~isSubmitted /\ isSubmitted' /\ status[calls[i].inquiry] = "New"
          => \A f \in uploadedFiles \cap documents : <<f, calls[i].inquiry>> \in links]_vars

\* The user is thanked only when the case workers have a thread to answer, be the
\* draft never made, deleted in the night or submitted twice (handleSubmit,
\* createFinalInquiry, createThreadForApplication).
ThanksAreEarned == isSubmitted => threads > 0

----------------------------------------------------------------------------
(* The inductive invariant behind the properties *)

Calls ==
    [kind : {"none", "init", "update", "delete", "final", "enrich", "thread"},
     inquiry : Inquiries \cup {NoInquiry}, files : SUBSET Files,
     answer : {"none", "pending", "ok", "error"}]

TypeOK ==
    /\ status \in [Inquiries -> {"none", "Draft", "New", "deleted"}]
    /\ threads \in Nat /\ submissions \in Nat /\ cleaning \subseteq Inquiries
    /\ documents \subseteq used /\ used \subseteq Files /\ links \subseteq Files \X Inquiries
    /\ isUploadEnabled \in BOOLEAN /\ isSubmitted \in BOOLEAN
    /\ draftRecordId \in Inquiries \cup {NoInquiry} /\ uploadedFiles \subseteq used
    /\ calls \in [Slots -> Calls]

\* While nothing has changed there is no draft; then one call makes one, and only
\* that call knows it until the page does.
DraftInv ==
    /\ ~isUploadEnabled =>
           /\ draftRecordId = NoInquiry /\ \A q \in Inquiries : status[q] = "none"
           /\ \A i \in Slots : calls[i].kind # "init"
    /\ draftRecordId # NoInquiry => status[draftRecordId] # "none"
    /\ \A q \in cleaning : status[q] # "none"
    /\ \A i \in Slots : calls[i].kind = "init" =>
           /\ draftRecordId = NoInquiry
           /\ \A j \in Slots : calls[j].kind = "init" => i = j
           /\ calls[i].answer = "pending" => \A q \in Inquiries : status[q] = "none"
           /\ calls[i].answer = "ok" =>
                  calls[i].inquiry \in Inquiries /\ status[calls[i].inquiry] # "none"
    /\ OneDraftPerForm

\* A thread precedes every answer that leads to the thanks.
Thanked(call) ==
    call.kind = "enrich" \/ (call.kind \in {"final", "thread"} /\ call.answer = "ok")
ThreadInv == ThanksAreEarned /\ \A i \in Slots : Thanked(calls[i]) => threads > 0

\* What is not linked to the draft was uploaded before the draft was there: every
\* submission under way has it in its list, until it has been linked.
Linked(fs, q) == \A f \in fs \cap documents : <<f, q>> \in links
FileInv ==
    \A i \in Slots : LET call == calls[i] IN
        /\ call.files \subseteq used
        /\ call.kind \in {"final", "enrich"} =>
               IF call.inquiry = NoInquiry THEN call.kind = "final" /\ call.answer # "ok"
               ELSE /\ call.inquiry = draftRecordId
                    /\ Linked(uploadedFiles \ call.files, call.inquiry)
                    /\ call.kind = "enrich" /\ call.answer = "ok" => Linked(call.files, call.inquiry)

SupportInv == TypeOK /\ DraftInv /\ ThreadInv /\ FileInv
=============================================================================
