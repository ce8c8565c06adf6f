--------------------------- MODULE SupportFormProofs ---------------------------
(***************************************************************************)
(* Proofs about SupportForm, for any number of inquiries, files, calls     *)
(* under way and submissions.                                              *)
(***************************************************************************)
EXTENDS SupportForm, TLAPS

LEMMA InitInv == Init => SupportInv
<1> SUFFICES ASSUME Init PROVE SupportInv
    OBVIOUS
<1> USE SupportConstants DEF Init
<1>1. \A i \in Slots : calls[i] = NoCall
    OBVIOUS
<1>2. NoCall \in Calls
    BY DEF NoCall, Calls
<1>3. TypeOK
    BY <1>1, <1>2 DEF TypeOK
<1>4. DraftInv
    BY <1>1 DEF DraftInv, OneDraftPerForm, NoCall
<1>5. ThreadInv
    BY <1>1 DEF ThreadInv, ThanksAreEarned, Thanked, NoCall
<1>6. FileInv
    BY <1>1 DEF FileInv, NoCall
<1> QED
    BY <1>3, <1>4, <1>5, <1>6 DEF SupportInv

\* Slot i gets call c, and the other slots keep theirs.
OnlySlot(i, c) ==
    /\ calls' \in [Slots -> Calls] /\ calls'[i] = c
    /\ \A j \in Slots : j # i => calls'[j] = calls[j]

LEMMA OneSlot ==
    ASSUME TypeOK, NEW i \in Slots, NEW c \in Calls, calls' = [calls EXCEPT ![i] = c]
    PROVE  OnlySlot(i, c)
BY DEF TypeOK, OnlySlot

LEMMA BeginSlot ==
    ASSUME TypeOK, NEW c \in Calls, Begin(c)
    PROVE  \E i \in Slots : calls[i] = NoCall /\ OnlySlot(i, c)
<1>1. PICK i \in Slots : calls[i] = NoCall /\ calls' = [calls EXCEPT ![i] = c]
    BY DEF Begin
<1> QED
    BY <1>1, OneSlot

\* The call of slot i is answered.
Answered(i, a, q) == calls' = [calls EXCEPT ![i].answer = a, ![i].inquiry = q]

LEMMA AnswerSlot ==
    ASSUME TypeOK, NEW i \in Slots, NEW a \in {"ok", "error"}, NEW q \in Inquiries \cup {NoInquiry},
           Answered(i, a, q)
    PROVE  \E c \in Calls : /\ OnlySlot(i, c) /\ c.kind = calls[i].kind
                            /\ c.files = calls[i].files /\ c.inquiry = q /\ c.answer = a
<1> DEFINE c == [calls[i] EXCEPT !.answer = a, !.inquiry = q]
<1>1. calls[i] \in Calls
    BY DEF TypeOK
<1>2. /\ c \in Calls /\ c.kind = calls[i].kind /\ c.files = calls[i].files
      /\ c.inquiry = q /\ c.answer = a
    BY <1>1 DEF Calls
<1>3. calls' = [calls EXCEPT ![i] = c]
    BY DEF TypeOK, Answered
<1> HIDE DEF c
<1> QED
    BY <1>2, <1>3, OneSlot

LEMMA NoCallType == NoCall \in Calls /\ NoCall.kind = "none" /\ NoCall.files = {}
BY DEF NoCall, Calls

LEMMA CallType ==
    ASSUME NEW kind \in {"init", "update", "delete", "final", "enrich", "thread"},
           NEW q \in Inquiries \cup {NoInquiry}, NEW fs, fs \subseteq Files
    PROVE  LET c == Call(kind, q, fs) IN
           c \in Calls /\ c.kind = kind /\ c.inquiry = q /\ c.files = fs /\ c.answer = "pending"
BY DEF Call, Calls

-----------------------------------------------------------------------------
(* The page *)

LEMMA InputInv == ASSUME SupportInv, HandleInputChange PROVE SupportInv'
<1> USE DEF SupportInv, HandleInputChange, serverVars
<1>1. CASE FirstChange /\ UNCHANGED calls
  <2> USE <1>1 DEF FirstChange
  <2>6. TypeOK'
      BY DEF TypeOK
  <2>7. DraftInv'
      BY DEF DraftInv, OneDraftPerForm, TypeOK
  <2>8. ThreadInv'
      BY DEF ThreadInv, ThanksAreEarned, Thanked
  <2>9. FileInv'
      BY DEF FileInv, Linked, TypeOK
  <2> QED
      BY <2>6, <2>7, <2>8, <2>9
<1>2. CASE FirstChange /\ Begin(Call("init", NoInquiry, {}))
  <2> USE <1>2 DEF FirstChange
  <2>0. NoInquiry \in Inquiries \cup {NoInquiry} /\ {} \subseteq Files
      BY DEF TypeOK
  <2> DEFINE c == Call("init", NoInquiry, {})
  <2>1. /\ c \in Calls /\ c.kind = "init" /\ c.inquiry = NoInquiry
        /\ c.files = {} /\ c.answer = "pending"
      BY <2>0, CallType
  <2>2. Begin(c)
      OBVIOUS
  <2> HIDE DEF c
  <2>3. PICK i \in Slots : calls[i] = NoCall /\ OnlySlot(i, c)
      BY <2>1, <2>2, BeginSlot
  <2>6. TypeOK'
      BY <2>1, <2>3 DEF TypeOK, OnlySlot
  <2>7. DraftInv'
      BY <2>1, <2>3 DEF DraftInv, OneDraftPerForm, TypeOK, OnlySlot
  <2>8. ThreadInv'
      BY <2>1, <2>3 DEF ThreadInv, ThanksAreEarned, Thanked, TypeOK, OnlySlot
  <2>9. FileInv'
      BY <2>1, <2>3 DEF FileInv, Linked, TypeOK, OnlySlot
  <2> QED
      BY <2>6, <2>7, <2>8, <2>9
<1>3. CASE LaterChange
  <2> USE <1>3 DEF LaterChange
  <2>0. draftRecordId \in Inquiries \cup {NoInquiry} /\ {} \subseteq Files
      BY DEF TypeOK
  <2> DEFINE c == Call("update", draftRecordId, {})
  <2>1. /\ c \in Calls /\ c.kind = "update" /\ c.inquiry = draftRecordId
        /\ c.files = {} /\ c.answer = "pending"
      BY <2>0, CallType
  <2>2. Begin(c)
      OBVIOUS
  <2> HIDE DEF c
  <2>3. PICK i \in Slots : calls[i] = NoCall /\ OnlySlot(i, c)
      BY <2>1, <2>2, BeginSlot
  <2>6. TypeOK'
      BY <2>1, <2>3 DEF TypeOK, OnlySlot
  <2>7. DraftInv'
      BY <2>1, <2>3 DEF DraftInv, OneDraftPerForm, TypeOK, OnlySlot
  <2>8. ThreadInv'
      BY <2>1, <2>3 DEF ThreadInv, ThanksAreEarned, Thanked, TypeOK, OnlySlot
  <2>9. FileInv'
      BY <2>1, <2>3 DEF FileInv, Linked, TypeOK, OnlySlot
  <2> QED
      BY <2>6, <2>7, <2>8, <2>9
<1> QED
    BY <1>1, <1>2, <1>3 DEF FirstChange

LEMMA SubmitInv == ASSUME SupportInv, HandleSubmit PROVE SupportInv'
<1> USE DEF SupportInv, HandleSubmit, serverVars, pageVars
<1>1. CASE Begin(Call("final", draftRecordId, uploadedFiles))
  <2> USE <1>1
  <2>0. draftRecordId \in Inquiries \cup {NoInquiry} /\ uploadedFiles \subseteq Files
      BY DEF TypeOK
  <2> DEFINE c == Call("final", draftRecordId, uploadedFiles)
  <2>1. /\ c \in Calls /\ c.kind = "final" /\ c.inquiry = draftRecordId
        /\ c.files = uploadedFiles /\ c.answer = "pending"
      BY <2>0, CallType
  <2>2. Begin(c)
      OBVIOUS
  <2> HIDE DEF c
  <2>3. PICK i \in Slots : calls[i] = NoCall /\ OnlySlot(i, c)
      BY <2>1, <2>2, BeginSlot
  <2>6. TypeOK'
      BY <2>1, <2>3 DEF TypeOK, OnlySlot
  <2>7. DraftInv'
      BY <2>1, <2>3 DEF DraftInv, OneDraftPerForm, TypeOK, OnlySlot
  <2>8. ThreadInv'
      BY <2>1, <2>3 DEF ThreadInv, ThanksAreEarned, Thanked, TypeOK, OnlySlot
  <2>9. FileInv'
      BY <2>1, <2>3 DEF FileInv, Linked, TypeOK, OnlySlot
  <2> QED
      BY <2>6, <2>7, <2>8, <2>9
<1>2. CASE Begin(Call("thread", NoInquiry, {}))
  <2> USE <1>2
  <2>0. NoInquiry \in Inquiries \cup {NoInquiry} /\ {} \subseteq Files
      BY DEF TypeOK
  <2> DEFINE c == Call("thread", NoInquiry, {})
  <2>1. /\ c \in Calls /\ c.kind = "thread" /\ c.inquiry = NoInquiry
        /\ c.files = {} /\ c.answer = "pending"
      BY <2>0, CallType
  <2>2. Begin(c)
      OBVIOUS
  <2> HIDE DEF c
  <2>3. PICK i \in Slots : calls[i] = NoCall /\ OnlySlot(i, c)
      BY <2>1, <2>2, BeginSlot
  <2>6. TypeOK'
      BY <2>1, <2>3 DEF TypeOK, OnlySlot
  <2>7. DraftInv'
      BY <2>1, <2>3 DEF DraftInv, OneDraftPerForm, TypeOK, OnlySlot
  <2>8. ThreadInv'
      BY <2>1, <2>3 DEF ThreadInv, ThanksAreEarned, Thanked, TypeOK, OnlySlot
  <2>9. FileInv'
      BY <2>1, <2>3 DEF FileInv, Linked, TypeOK, OnlySlot
  <2> QED
      BY <2>6, <2>7, <2>8, <2>9
<1> QED
    BY <1>1, <1>2

LEMMA RemoveInv ==
    ASSUME SupportInv, NEW f \in Files, HandleRemoveUploadedFile(f)
    PROVE  SupportInv'
<1> USE DEF SupportInv, HandleRemoveUploadedFile, serverVars, pageVars
<1>0. NoInquiry \in Inquiries \cup {NoInquiry} /\ {f} \subseteq Files
    BY DEF TypeOK
<1> DEFINE c == Call("delete", NoInquiry, {f})
<1>1. /\ c \in Calls /\ c.kind = "delete" /\ c.inquiry = NoInquiry
      /\ c.files = {f} /\ c.answer = "pending"
    BY <1>0, CallType
<1>2. Begin(c)
    OBVIOUS
<1> HIDE DEF c
<1>3. PICK i \in Slots : calls[i] = NoCall /\ OnlySlot(i, c)
    BY <1>1, <1>2, BeginSlot
<1>6. TypeOK'
    BY <1>1, <1>3 DEF TypeOK, OnlySlot
<1>7. DraftInv'
    BY <1>1, <1>3 DEF DraftInv, OneDraftPerForm, TypeOK, OnlySlot
<1>8. ThreadInv'
    BY <1>1, <1>3 DEF ThreadInv, ThanksAreEarned, Thanked, TypeOK, OnlySlot
<1>9. FileInv'
    BY <1>1, <1>3 DEF FileInv, Linked, TypeOK, OnlySlot
<1> QED
    BY <1>6, <1>7, <1>8, <1>9

\* What is uploaded is new, and linked to the draft if the page has it.
LEMMA UploadFiles ==
    ASSUME SupportInv, NEW new \in SUBSET Files, HandleFilesUploaded(new)
    PROVE  /\ documents' \subseteq used' /\ used' \subseteq Files /\ used \subseteq used'
           /\ links' \subseteq Files \X Inquiries /\ links \subseteq links'
           /\ uploadedFiles' \subseteq uploadedFiles \cup new
           /\ documents' = documents \cup new /\ new \cap used = {} /\ used' = used \cup new
           /\ draftRecordId # NoInquiry => \A f \in new : <<f, draftRecordId>> \in links'
BY DEF HandleFilesUploaded, SupportInv, TypeOK

LEMMA UploadInv ==
    ASSUME SupportInv, NEW new \in SUBSET Files, HandleFilesUploaded(new)
    PROVE  SupportInv'
<1> USE DEF SupportInv
<1>0. /\ documents' \subseteq used' /\ used' \subseteq Files /\ used \subseteq used'
      /\ links' \subseteq Files \X Inquiries /\ links \subseteq links'
      /\ uploadedFiles' \subseteq uploadedFiles \cup new
      /\ documents' = documents \cup new /\ new \cap used = {} /\ used' = used \cup new
      /\ draftRecordId # NoInquiry => \A f \in new : <<f, draftRecordId>> \in links'
    BY UploadFiles
<1>1. /\ UNCHANGED <<status, threads, cleaning, isUploadEnabled, draftRecordId, isSubmitted>>
      /\ submissions' = submissions
    BY DEF HandleFilesUploaded
<1>2. CASE UNCHANGED calls
  <2> USE <1>0, <1>1, <1>2
  <2>6. TypeOK'
      BY DEF TypeOK
  <2>7. DraftInv'
      BY DEF DraftInv, OneDraftPerForm, TypeOK
  <2>8. ThreadInv'
      BY DEF ThreadInv, ThanksAreEarned, Thanked
  <2>9. FileInv'
      BY DEF FileInv, Linked, TypeOK
  <2> QED
      BY <2>6, <2>7, <2>8, <2>9
<1>3. CASE \E kept \in SUBSET new : Begin(Call("delete", NoInquiry, new \ kept))
  <2>4. PICK kept \in SUBSET new : Begin(Call("delete", NoInquiry, new \ kept))
      BY <1>3
  <2> USE <1>0, <1>1, <2>4
  <2>0. NoInquiry \in Inquiries \cup {NoInquiry} /\ new \ kept \subseteq Files
      BY DEF TypeOK
  <2> DEFINE c == Call("delete", NoInquiry, new \ kept)
  <2>1. /\ c \in Calls /\ c.kind = "delete" /\ c.inquiry = NoInquiry
        /\ c.files = new \ kept /\ c.answer = "pending"
      BY <2>0, CallType
  <2>2. Begin(c)
      OBVIOUS
  <2> HIDE DEF c
  <2>3. PICK i \in Slots : calls[i] = NoCall /\ OnlySlot(i, c)
      BY <2>1, <2>2, BeginSlot
  <2>6. TypeOK'
      BY <2>1, <2>3 DEF TypeOK, OnlySlot
  <2>7. DraftInv'
      BY <2>1, <2>3 DEF DraftInv, OneDraftPerForm, TypeOK, OnlySlot
  <2>8. ThreadInv'
      BY <2>1, <2>3 DEF ThreadInv, ThanksAreEarned, Thanked, TypeOK, OnlySlot
  <2>9. FileInv'
      BY <2>1, <2>3 DEF FileInv, Linked, TypeOK, OnlySlot
  <2> QED
      BY <2>6, <2>7, <2>8, <2>9
<1> QED
    BY <1>2, <1>3 DEF HandleFilesUploaded

-----------------------------------------------------------------------------
(* The controller *)

LEMMA ExecuteInv == ASSUME SupportInv, NEW i \in Slots, Execute(i) PROVE SupportInv'
<1> DEFINE call == calls[i]
<1> USE SupportConstants DEF SupportInv
<1>0. call \in Calls /\ call.inquiry \in Inquiries \cup {NoInquiry} /\ call.files \subseteq Files
    BY DEF TypeOK, Calls
<1>1. call.answer = "pending" /\ UNCHANGED <<cleaning, pageVars, submissions>>
    BY DEF Execute
<1> USE DEF pageVars, Exists
<1>2. ASSUME NEW a \in {"ok", "error"}, call.kind = "update", UpdateDraftRecord(call),
             Answered(i, a, call.inquiry)
      PROVE  SupportInv'
  <2>1. PICK c \in Calls : /\ OnlySlot(i, c) /\ c.kind = call.kind
                           /\ c.files = call.files /\ c.inquiry = call.inquiry /\ c.answer = a
      BY <1>0, <1>2, AnswerSlot
  <2> USE <1>0, <1>1, <1>2 DEF UpdateDraftRecord, serverVars
  <2>6. TypeOK'
      BY <2>1 DEF TypeOK, OnlySlot
  <2>7. DraftInv'
      BY <2>1 DEF DraftInv, OneDraftPerForm, TypeOK, OnlySlot
  <2>8. ThreadInv'
      BY <2>1 DEF ThreadInv, ThanksAreEarned, Thanked, TypeOK, OnlySlot
  <2>9. FileInv'
      BY <2>1 DEF FileInv, Linked, TypeOK, OnlySlot
  <2> QED
      BY <2>6, <2>7, <2>8, <2>9
<1>3. ASSUME NEW a \in {"ok", "error"}, call.kind = "final", CreateFinalInquiry(call),
             Answered(i, a, call.inquiry)
      PROVE  SupportInv'
  <2>1. PICK c \in Calls : /\ OnlySlot(i, c) /\ c.kind = call.kind
                           /\ c.files = call.files /\ c.inquiry = call.inquiry /\ c.answer = a
      BY <1>0, <1>3, AnswerSlot
  <2> USE <1>0, <1>1, <1>3 DEF CreateFinalInquiry
  <2>6. TypeOK'
      BY <2>1 DEF TypeOK, OnlySlot
  <2>7. DraftInv'
      BY <2>1 DEF DraftInv, OneDraftPerForm, TypeOK, OnlySlot
  <2>8. ThreadInv'
      BY <2>1 DEF ThreadInv, ThanksAreEarned, Thanked, TypeOK, OnlySlot
  <2>9. FileInv'
      BY <2>1 DEF FileInv, Linked, TypeOK, OnlySlot
  <2> QED
      BY <2>6, <2>7, <2>8, <2>9
<1>4. ASSUME NEW a \in {"ok", "error"}, call.kind = "enrich", EnrichUploadedFiles(call),
             Answered(i, a, call.inquiry)
      PROVE  SupportInv'
  <2>1. PICK c \in Calls : /\ OnlySlot(i, c) /\ c.kind = call.kind
                           /\ c.files = call.files /\ c.inquiry = call.inquiry /\ c.answer = a
      BY <1>0, <1>4, AnswerSlot
  <2> USE <1>0, <1>1, <1>4 DEF EnrichUploadedFiles
  <2>6. TypeOK'
      BY <2>1 DEF TypeOK, OnlySlot
  <2>7. DraftInv'
      BY <2>1 DEF DraftInv, OneDraftPerForm, TypeOK, OnlySlot
  <2>8. ThreadInv'
      BY <2>1 DEF ThreadInv, ThanksAreEarned, Thanked, TypeOK, OnlySlot
  <2>9. FileInv'
      BY <2>1 DEF FileInv, Linked, TypeOK, OnlySlot
  <2> QED
      BY <2>6, <2>7, <2>8, <2>9
<1>5. ASSUME NEW a \in {"ok", "error"}, call.kind = "delete", DeleteFiles(call),
             Answered(i, a, call.inquiry)
      PROVE  SupportInv'
  <2>1. PICK c \in Calls : /\ OnlySlot(i, c) /\ c.kind = call.kind
                           /\ c.files = call.files /\ c.inquiry = call.inquiry /\ c.answer = a
      BY <1>0, <1>5, AnswerSlot
  <2> USE <1>0, <1>1, <1>5 DEF DeleteFiles, WithoutDocuments
  <2>6. TypeOK'
      BY <2>1 DEF TypeOK, OnlySlot
  <2>7. DraftInv'
      BY <2>1 DEF DraftInv, OneDraftPerForm, TypeOK, OnlySlot
  <2>8. ThreadInv'
      BY <2>1 DEF ThreadInv, ThanksAreEarned, Thanked, TypeOK, OnlySlot
  <2>9. FileInv'
      BY <2>1 DEF FileInv, Linked, TypeOK, OnlySlot
  <2> QED
      BY <2>6, <2>7, <2>8, <2>9
<1>6. ASSUME NEW a \in {"ok", "error"}, call.kind = "thread", CreateThreadForApplication,
             Answered(i, a, call.inquiry)
      PROVE  SupportInv'
  <2>1. PICK c \in Calls : /\ OnlySlot(i, c) /\ c.kind = call.kind
                           /\ c.files = call.files /\ c.inquiry = call.inquiry /\ c.answer = a
      BY <1>0, <1>6, AnswerSlot
  <2> USE <1>0, <1>1, <1>6 DEF CreateThreadForApplication
  <2>6. TypeOK'
      BY <2>1 DEF TypeOK, OnlySlot
  <2>7. DraftInv'
      BY <2>1 DEF DraftInv, OneDraftPerForm, TypeOK, OnlySlot
  <2>8. ThreadInv'
      BY <2>1 DEF ThreadInv, ThanksAreEarned, Thanked, TypeOK, OnlySlot
  <2>9. FileInv'
      BY <2>1 DEF FileInv, Linked, TypeOK, OnlySlot
  <2> QED
      BY <2>6, <2>7, <2>8, <2>9
<1>7. ASSUME NEW a \in {"ok", "error"}, NEW q \in Inquiries, call.kind = "init", InitDraftRecord(q),
             Answered(i, a, q)
      PROVE  SupportInv'
  <2>1. PICK c \in Calls : /\ OnlySlot(i, c) /\ c.kind = call.kind
                           /\ c.files = call.files /\ c.inquiry = q /\ c.answer = a
      BY <1>0, <1>7, AnswerSlot
  <2> USE <1>0, <1>1, <1>7 DEF InitDraftRecord
  <2>6. TypeOK'
      BY <2>1 DEF TypeOK, OnlySlot
  <2>7. DraftInv'
      BY <2>1 DEF DraftInv, OneDraftPerForm, TypeOK, OnlySlot
  <2>8. ThreadInv'
      BY <2>1 DEF ThreadInv, ThanksAreEarned, Thanked, TypeOK, OnlySlot
  <2>9. FileInv'
      BY <2>1 DEF FileInv, Linked, TypeOK, OnlySlot
  <2> QED
      BY <2>6, <2>7, <2>8, <2>9
<1>8. ASSUME NEW a \in {"ok", "error"}, a = "error", UNCHANGED serverVars,
             Answered(i, a, call.inquiry)
      PROVE  SupportInv'
  <2>1. PICK c \in Calls : /\ OnlySlot(i, c) /\ c.kind = call.kind
                           /\ c.files = call.files /\ c.inquiry = call.inquiry /\ c.answer = a
      BY <1>0, <1>8, AnswerSlot
  <2> USE <1>0, <1>1, <1>8 DEF serverVars
  <2>6. TypeOK'
      BY <2>1 DEF TypeOK, OnlySlot
  <2>7. DraftInv'
      BY <2>1 DEF DraftInv, OneDraftPerForm, TypeOK, OnlySlot
  <2>8. ThreadInv'
      BY <2>1 DEF ThreadInv, ThanksAreEarned, Thanked, TypeOK, OnlySlot
  <2>9. FileInv'
      BY <2>1 DEF FileInv, Linked, TypeOK, OnlySlot
  <2> QED
      BY <2>6, <2>7, <2>8, <2>9
<1> QED
    BY <1>2, <1>3, <1>4, <1>5, <1>6, <1>7, <1>8 DEF Execute, Answered

-----------------------------------------------------------------------------
(* The answers *)

LEMMA ReceiveInv == ASSUME SupportInv, NEW i \in Slots, Receive(i) PROVE SupportInv'
<1> DEFINE call == calls[i]
<1> USE SupportConstants DEF SupportInv, Free, Continue
<1>0. call \in Calls /\ call.inquiry \in Inquiries \cup {NoInquiry} /\ call.files \in SUBSET Files
    BY DEF TypeOK, Calls
<1>1. UNCHANGED <<serverVars, cleaning, isUploadEnabled, used, submissions>>
    BY DEF Receive
<1> USE DEF serverVars
<1>2. CASE call.answer = "ok" /\ call.kind = "init" /\ DraftAnswered(i, call.inquiry)
  <2>1. PICK c \in Calls : /\ OnlySlot(i, c) /\ c.kind \in {"update", "none"} /\ c.files = {}
      BY <1>0, <1>2, OneSlot, NoCallType, CallType DEF DraftAnswered
  <2>2. draftRecordId = NoInquiry
      BY <1>2 DEF DraftInv
  <2> USE <1>0, <1>1, <1>2, <2>2 DEF DraftAnswered
  <2>6. TypeOK'
      BY <2>1 DEF TypeOK, OnlySlot
  <2>7. DraftInv'
      BY <2>1 DEF DraftInv, OneDraftPerForm, TypeOK, OnlySlot
  <2>8. ThreadInv'
      BY <2>1 DEF ThreadInv, ThanksAreEarned, Thanked, TypeOK, OnlySlot
  <2>9. FileInv'
      BY <2>1 DEF FileInv, Linked, TypeOK, OnlySlot
  <2> QED
      BY <2>6, <2>7, <2>8, <2>9
<1>3. CASE call.answer = "ok" /\ call.kind = "final" /\ FinalAnswered(i, call)
  <2>1. PICK c \in Calls :
          /\ OnlySlot(i, c)
          /\ \/ c.kind = "none" /\ c.files = {}
             \/ /\ c.kind = "enrich" /\ c.files = call.files /\ c.inquiry = call.inquiry
                /\ c.answer = "pending"
      BY <1>0, <1>3, OneSlot, NoCallType, CallType DEF FinalAnswered
  <2> USE <1>0, <1>1, <1>3 DEF FinalAnswered
  <2>6. TypeOK'
      BY <2>1 DEF TypeOK, OnlySlot
  <2>7. DraftInv'
      BY <2>1 DEF DraftInv, OneDraftPerForm, TypeOK, OnlySlot
  <2>8. ThreadInv'
      BY <2>1 DEF ThreadInv, ThanksAreEarned, Thanked, TypeOK, OnlySlot
  <2>9. FileInv'
      BY <2>1 DEF FileInv, Linked, TypeOK, OnlySlot
  <2> QED
      BY <2>6, <2>7, <2>8, <2>9
<1>4. CASE /\ call.answer = "ok" /\ call.kind \in {"enrich", "thread"} /\ isSubmitted' = TRUE
           /\ Free(i) /\ UNCHANGED <<draftRecordId, uploadedFiles>>
  <2>1. OnlySlot(i, NoCall)
      BY <1>4, OneSlot, NoCallType
  <2> USE <1>0, <1>1, <1>4, NoCallType
  <2>6. TypeOK'
      BY <2>1 DEF TypeOK, OnlySlot
  <2>7. DraftInv'
      BY <2>1 DEF DraftInv, OneDraftPerForm, TypeOK, OnlySlot
  <2>8. ThreadInv'
      BY <2>1 DEF ThreadInv, ThanksAreEarned, Thanked, TypeOK, OnlySlot
  <2>9. FileInv'
      BY <2>1 DEF FileInv, Linked, TypeOK, OnlySlot
  <2> QED
      BY <2>6, <2>7, <2>8, <2>9
<1>5. CASE /\ uploadedFiles' = uploadedFiles \ call.files
           /\ Free(i) /\ UNCHANGED <<draftRecordId, isSubmitted>>
  <2>1. OnlySlot(i, NoCall)
      BY <1>5, OneSlot, NoCallType
  <2> USE <1>0, <1>1, <1>5, NoCallType
  <2>6. TypeOK'
      BY <2>1 DEF TypeOK, OnlySlot
  <2>7. DraftInv'
      BY <2>1 DEF DraftInv, OneDraftPerForm, TypeOK, OnlySlot
  <2>8. ThreadInv'
      BY <2>1 DEF ThreadInv, ThanksAreEarned, Thanked, TypeOK, OnlySlot
  <2>9. FileInv'
      BY <2>1 DEF FileInv, Linked, TypeOK, OnlySlot
  <2> QED
      BY <2>6, <2>7, <2>8, <2>9
<1>6. CASE Free(i) /\ UNCHANGED <<draftRecordId, uploadedFiles, isSubmitted>>
  <2>1. OnlySlot(i, NoCall)
      BY <1>6, OneSlot, NoCallType
  <2> USE <1>0, <1>1, <1>6, NoCallType
  <2>6. TypeOK'
      BY <2>1 DEF TypeOK, OnlySlot
  <2>7. DraftInv'
      BY <2>1 DEF DraftInv, OneDraftPerForm, TypeOK, OnlySlot
  <2>8. ThreadInv'
      BY <2>1 DEF ThreadInv, ThanksAreEarned, Thanked, TypeOK, OnlySlot
  <2>9. FileInv'
      BY <2>1 DEF FileInv, Linked, TypeOK, OnlySlot
  <2> QED
      BY <2>6, <2>7, <2>8, <2>9
<1> QED
    BY <1>2, <1>3, <1>4, <1>5, <1>6 DEF Receive

-----------------------------------------------------------------------------
(* The flow of the night *)

LEMMA StartCleaningInv == ASSUME SupportInv, StartCleaning PROVE SupportInv'
<1> USE DEF SupportInv, StartCleaning, serverVars, pageVars
<1>6. TypeOK'
    BY DEF TypeOK
<1>7. DraftInv'
    BY DEF DraftInv, OneDraftPerForm, TypeOK
<1>8. ThreadInv'
    BY DEF ThreadInv, ThanksAreEarned, Thanked
<1>9. FileInv'
    BY DEF FileInv, Linked, TypeOK
<1> QED
    BY <1>6, <1>7, <1>8, <1>9

LEMMA CleanInv == ASSUME SupportInv, NEW q \in Inquiries, Clean(q) PROVE SupportInv'
<1> USE DEF SupportInv, Clean, serverVars, pageVars, WithoutDocuments
<1>6. TypeOK'
    BY DEF TypeOK
<1>7. DraftInv'
    BY DEF DraftInv, OneDraftPerForm, TypeOK
<1>8. ThreadInv'
    BY DEF ThreadInv, ThanksAreEarned, Thanked
<1>9. FileInv'
    BY DEF FileInv, Linked, TypeOK
<1> QED
    BY <1>6, <1>7, <1>8, <1>9

LEMMA StutterInv == ASSUME SupportInv, UNCHANGED vars PROVE SupportInv'
<1> USE DEF SupportInv, vars, serverVars, pageVars
<1>6. TypeOK'
    BY DEF TypeOK
<1>7. DraftInv'
    BY DEF DraftInv, OneDraftPerForm, TypeOK
<1>8. ThreadInv'
    BY DEF ThreadInv, ThanksAreEarned, Thanked
<1>9. FileInv'
    BY DEF FileInv, Linked, TypeOK
<1> QED
    BY <1>6, <1>7, <1>8, <1>9

-----------------------------------------------------------------------------
(* The theorems *)

LEMMA StepInv == SupportInv /\ [Next]_vars => SupportInv'
<1> SUFFICES ASSUME SupportInv, [Next]_vars PROVE SupportInv'
    OBVIOUS
<1>1. CASE Page
    BY <1>1, InputInv, SubmitInv, UploadInv, RemoveInv DEF Page
<1>2. CASE StartCleaning
    BY <1>2, StartCleaningInv
<1>3. CASE \E i \in Slots : Execute(i) \/ Receive(i)
    BY <1>3, ExecuteInv, ReceiveInv
<1>4. CASE \E q \in Inquiries : Clean(q)
    BY <1>4, CleanInv
<1>5. CASE UNCHANGED vars
    BY <1>5, StutterInv
<1> QED
    BY <1>1, <1>2, <1>3, <1>4, <1>5 DEF Next

\* The inductive invariant: who may still make the draft, what a submission under
\* way knows of the files, and which answers have a thread behind them.
THEOREM SupportInvariant == Spec => []SupportInv
    BY InitInv, StepInv, PTL DEF Spec

\* A form makes one draft, whatever fails and however many fields change
\* (handleInputChange, initializeDraftInquiry).
THEOREM OneDraft == Spec => []OneDraftPerForm
<1>1. SupportInv => OneDraftPerForm
    BY DEF SupportInv, DraftInv
<1> QED
    BY <1>1, SupportInvariant, PTL

\* The user is thanked only when there is a thread to answer (handleSubmit,
\* createFinalInquiry, createThreadForApplication).
THEOREM Thanks == Spec => []ThanksAreEarned
<1>1. SupportInv => ThanksAreEarned
    BY DEF SupportInv, ThreadInv
<1> QED
    BY <1>1, SupportInvariant, PTL

\* When the form learns that everything is saved, the files it shows are linked to
\* the inquiry (handleFilesUploaded, enrichUploadedFiles).
THEOREM FilesSubmitted == Spec => SubmittedHasItsFiles
<1> DEFINE Has == \A i \in Slots :
          /\ Receive(i) /\ calls[i].kind \in {"final", "enrich"}
          /\ ~isSubmitted /\ isSubmitted' /\ status[calls[i].inquiry] = "New"
          => \A f \in uploadedFiles \cap documents : <<f, calls[i].inquiry>> \in links
<1>1. SupportInv => Has
  <2> SUFFICES ASSUME SupportInv, NEW i \in Slots, Receive(i),
                      calls[i].kind \in {"final", "enrich"}, ~isSubmitted, isSubmitted',
                      NEW f \in uploadedFiles \cap documents
               PROVE  <<f, calls[i].inquiry>> \in links
      OBVIOUS
  <2>1. calls[i].answer = "ok" /\ (calls[i].kind = "final" => calls[i].files = {})
      BY DEF Receive, FinalAnswered
  <2>2. calls[i].inquiry # NoInquiry
      BY <2>1 DEF SupportInv, FileInv
  <2>3. /\ Linked(uploadedFiles \ calls[i].files, calls[i].inquiry)
        /\ calls[i].kind = "enrich" => Linked(calls[i].files, calls[i].inquiry)
      BY <2>1, <2>2 DEF SupportInv, FileInv
  <2> QED
      BY <2>1, <2>3 DEF Linked
<1>2. SupportInv => [Has]_vars
    BY <1>1
<1> QED
    BY <1>2, SupportInvariant, PTL DEF SubmittedHasItsFiles

\* What has been submitted before the nightly flow has found it stays submitted
\* (updateDraftRecord, createFinalInquiry, the flow's query of the drafts).
THEOREM SubmittedStays == Spec => SubmittedSurvivesCleaning
<1> DEFINE Stays == \A q \in Inquiries :
          status[q] = "New" /\ q \notin cleaning => status'[q] = "New" /\ q \notin cleaning'
<1>1. SupportInv /\ [Next]_vars => [Stays]_vars
  <2> SUFFICES ASSUME SupportInv, Next, NEW q \in Inquiries, status[q] = "New", q \notin cleaning
               PROVE  status'[q] = "New" /\ q \notin cleaning'
      OBVIOUS
  <2> USE DEF SupportInv, TypeOK
  <2>1. CASE Page
      BY <2>1 DEF Page, HandleInputChange, HandleSubmit, HandleFilesUploaded,
                  HandleRemoveUploadedFile, serverVars
  <2>2. CASE StartCleaning
      BY <2>2 DEF StartCleaning, serverVars
  <2>3. ASSUME NEW i \in Slots, Execute(i)
        PROVE  status'[q] = "New" /\ q \notin cleaning'
      BY <2>3 DEF Execute, UpdateDraftRecord, CreateFinalInquiry, EnrichUploadedFiles,
                  DeleteFiles, WithoutDocuments, CreateThreadForApplication, InitDraftRecord,
                  serverVars
  <2>4. ASSUME NEW i \in Slots, Receive(i)
        PROVE  status'[q] = "New" /\ q \notin cleaning'
      BY <2>4 DEF Receive, serverVars
  <2>5. ASSUME NEW r \in Inquiries, Clean(r)
        PROVE  status'[q] = "New" /\ q \notin cleaning'
      BY <2>5 DEF Clean, WithoutDocuments, serverVars
  <2> QED
      BY <2>1, <2>2, <2>3, <2>4, <2>5 DEF Next
<1> QED
    BY <1>1, SupportInvariant, PTL DEF SubmittedSurvivesCleaning, Spec
=============================================================================
