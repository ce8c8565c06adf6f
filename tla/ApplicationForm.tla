---------------------------- MODULE ApplicationForm ----------------------------
(***************************************************************************)
(* The application form of the self-service portal: the page               *)
(* aareg_application (LWC) with its rows, and the Apex controller          *)
(* AAREG_ApplicationController behind it.                                  *)
(*                                                                         *)
(* Several pages (tabs) are open on the same applications.  A request is   *)
(* one transaction on the server; its answer comes later, or gets lost,    *)
(* and meanwhile other pages and the case workers go on.  Contacts and     *)
(* legal bases are handled alike; the rows here stand for either.          *)
(***************************************************************************)
EXTENDS Naturals, FiniteSets

CONSTANTS
    Pages,     \* open tabs
    Apps,      \* applications that may come to exist
    Records,   \* ids of saved rows
    NoApp, NoPage,
    MaxRows, MaxRequests, MaxOpenings
               \* bounds of the model: rows in a form, requests under way, pages opened

ASSUME FormConstants ==
    /\ NoApp \notin Apps /\ NoPage \notin Pages
    /\ MaxRows \in Nat \ {0} /\ MaxRequests \in Nat \ {0} /\ MaxOpenings \in Nat

VARIABLES
    status,    \* Status__c, "none" before the application exists; "In Progress"
               \* stands for every status the case workers keep to themselves
    child,     \* the application a saved row belongs to
    gone,      \* deleted rows
    document,  \* applications with a document
    stage,     \* what a page shows
    goingTo,   \* the application it is about to navigate to
    isLoaded,  \* the form is hidden while a request is under way
    app,       \* recordId: the application of a page, NoApp for a new one
    seen,      \* application.Status__c as the page has loaded it
    rows,      \* rows of the form: ids of the saved ones, number of the others
    file,      \* fileData has a file
    requests,  \* saveAsDraft and processApplication under way
    deletions, \* deleteDraftRecord under way, with the form that has asked for it
    openings   \* pages opened so far, bounded by MaxOpenings

serverVars == <<status, child, gone, document>>
formVars == <<app, seen, rows, file>>
pageVars == <<stage, goingTo, isLoaded, formVars>>
vars == <<serverVars, pageVars, requests, deletions, openings>>

Slots == 1..MaxRequests
NoRequest == [page |-> NoPage, kind |-> "none", app |-> NoApp, seen |-> "none", file |-> FALSE,
              rows |-> [saved |-> {}, fresh |-> 0], answer |-> "none", result |-> NoApp]

\* AA_isPortalUserEditable__c.
Editable == {"Draft", "Additional Information Required"}
Exists(a) == status[a] # "none"
Live(a) == {r \in Records : child[r] = a} \ gone
RowCount(f) == Cardinality(f.saved) + f.fresh

----------------------------------------------------------------------------
(* Opening a page *)

\* A tab is opened on a new application or on one of "Mine søknader", or leaves
\* another page for it; answers to that page are not heard any more.  Its list may
\* be old, but only says where to go.
Open(p, a) ==
    /\ a \in {NoApp} \cup {x \in Apps : Exists(x)}
    /\ stage' = [stage EXCEPT ![p] = "opening"]
    /\ goingTo' = [goingTo EXCEPT ![p] = NoApp]
    /\ isLoaded' = [isLoaded EXCEPT ![p] = FALSE]
    /\ app' = [app EXCEPT ![p] = a]
    /\ seen' = [seen EXCEPT ![p] = "none"]
    /\ rows' = [rows EXCEPT ![p] = [saved |-> {}, fresh |-> 0]]
    /\ file' = [file EXCEPT ![p] = FALSE]
    /\ requests' = [i \in Slots |->
           IF requests[i].page # p THEN requests[i]
           ELSE IF requests[i].answer = "pending" THEN [requests[i] EXCEPT !.page = NoPage]
           ELSE NoRequest]
    /\ deletions' = {[d EXCEPT !.page = IF @ = p THEN NoPage ELSE @] : d \in deletions}
    /\ openings < MaxOpenings /\ openings' = openings + 1
    /\ UNCHANGED serverVars

\* The saved rows, or an empty one when there are none.
RowsOf(a) == [saved |-> Live(a), fresh |-> IF Live(a) = {} THEN 1 ELSE 0]

\* init: the organization of the user, the rights and the application.  Without
\* the right the page stays empty, as `error` is never set, and when something
\* cannot be read there is nothing to fill in.
Load(p) ==
    /\ stage[p] = "opening"
    /\ isLoaded' = [isLoaded EXCEPT ![p] = TRUE]
    /\ \/ /\ stage' = [stage EXCEPT ![p] = "form"]
          /\ IF app[p] = NoApp
             THEN rows' = [rows EXCEPT ![p].fresh = 1] /\ UNCHANGED seen
             ELSE /\ rows' = [rows EXCEPT ![p] = RowsOf(app[p])]
                  /\ seen' = [seen EXCEPT ![p] = status[app[p]]]
       \/ stage' = [stage EXCEPT ![p] = "empty"] /\ UNCHANGED <<rows, seen>>
    /\ UNCHANGED <<serverVars, goingTo, app, file, requests, deletions, openings>>

----------------------------------------------------------------------------
(* The form *)

IsReadOnly(p) == app[p] # NoApp /\ seen[p] \notin Editable

\* After a save the form is there again until the navigation has happened.
Usable(p) == stage[p] = "form" /\ isLoaded[p] /\ ~IsReadOnly(p)

FormUnchanged ==
    UNCHANGED <<serverVars, stage, goingTo, isLoaded, app, seen, requests, openings>>

AddContactRow(p) ==
    /\ Usable(p) /\ RowCount(rows[p]) < MaxRows
    /\ rows' = [rows EXCEPT ![p].fresh = @ + 1]
    /\ UNCHANGED <<file, deletions>> /\ FormUnchanged

\* Mutant: the row goes when its deletion has succeeded.
DeleteRecordFirst(p, c) ==
    /\ rows' = [rows EXCEPT ![p].saved = @ \ (gone \cap {c})]
    /\ deletions' = deletions \cup {[page |-> p, record |-> c]}

\* The row goes at once: deleteRecord does not return its promise, and the
\* deletion of the record goes on, or fails, unseen.
DeleteRecord(p, c) ==
    /\ rows' = [rows EXCEPT ![p].saved = @ \ {c}]
    /\ deletions' = deletions \cup {[page |-> p, record |-> c]}

\* One row stays.
RemoveContactRow(p) ==
    /\ Usable(p) /\ RowCount(rows[p]) > 1
    /\ \/ \E c \in rows[p].saved : DeleteRecord(p, c)
       \/ /\ rows[p].fresh > 0 /\ rows' = [rows EXCEPT ![p].fresh = @ - 1]
          /\ UNCHANGED deletions
    /\ UNCHANGED file /\ FormUnchanged

\* A file is read in the background, and comes whatever has become of the form.
OnFileUpload(p) ==
    /\ stage[p] = "form" /\ ~IsReadOnly(p) /\ ~file[p]
    /\ file' = [file EXCEPT ![p] = TRUE]
    /\ UNCHANGED <<rows, deletions>> /\ FormUnchanged

----------------------------------------------------------------------------
(* Requests *)

Request(p, kind, sent) ==
    [page |-> p, kind |-> kind, app |-> app[p], seen |-> seen[p], file |-> file[p],
     rows |-> sent, answer |-> "pending", result |-> NoApp]

Begin(p, kind, sent) ==
    \E i \in Slots :
        /\ requests[i] = NoRequest /\ \A j \in 1..(i - 1) : requests[j] # NoRequest
        /\ requests' = [requests EXCEPT ![i] = Request(p, kind, sent)]

\* Mutant: the form stays there while the request is under way.
SendAndStay(p, kind, sent) ==
    /\ Begin(p, kind, sent)
    /\ UNCHANGED <<serverVars, pageVars, deletions, openings>>

Send(p, kind, sent) ==
    /\ Begin(p, kind, sent)
    /\ isLoaded' = [isLoaded EXCEPT ![p] = FALSE]
    /\ UNCHANGED <<serverVars, stage, goingTo, formVars, deletions, openings>>

\* The rows the user has filled in until then.  Legal bases are saved as they are,
\* contacts only with a name.
FilledIn(p) ==
    {[saved |-> s, fresh |-> n] : s \in SUBSET rows[p].saved, n \in 0..rows[p].fresh}

HandleSaveAsDraft(p) == Usable(p) /\ \E sent \in FilledIn(p) : Send(p, "save", sent)

\* Every row has to be valid, those too that a draft may leave out.
Valid(p, filled) == filled = rows[p]

HasDocument(p) ==
    \/ file[p]
    \/ seen[p] = "Additional Information Required"
    \/ app[p] \in {a \in Apps : document[a]}

HandleSubmit(p) ==
    /\ Usable(p) /\ HasDocument(p)
    /\ \E sent \in FilledIn(p) : Valid(p, sent) /\ Send(p, "submit", sent)

\* Mutant: a draft is a draft, also when more information was asked for.
StatusAlwaysDraft(r) ==
    IF r.kind = "save" THEN "Draft"
    ELSE IF r.seen = "Additional Information Required" THEN "In Progress" ELSE "New"

\* The status follows from the one the form had loaded, not from the saved one.
StatusAfter(r) ==
    IF r.seen = "Additional Information Required"
    THEN IF r.kind = "save" THEN r.seen ELSE "In Progress"
    ELSE IF r.kind = "save" THEN "Draft" ELSE "New"

\* A submission writes only the fields its user has the right to; without that to the
\* status an application keeps the one it has, and a new one gets the field's default.
SanitizedStatus(r, a, mayWrite) ==
    IF r.kind = "save" \/ mayWrite THEN StatusAfter(r)
    ELSE IF r.app = NoApp THEN "New" ELSE status[a]

\* upsert: rows with an id have to exist, those without get one.
UpsertRows(r, a) ==
    /\ r.rows.saved \cap gone = {}
    /\ \E new \in SUBSET {c \in Records : child[c] = NoApp} :
        /\ Cardinality(new) = r.rows.fresh
        /\ child' = [c \in Records |-> IF c \in r.rows.saved \cup new THEN a ELSE child[c]]

\* Mutant: the document is linked only by a draft.
InsertDocumentOfDraft(r, a) ==
    document' = [document EXCEPT ![a] = @ \/ (r.kind = "save" /\ r.file)]

InsertDocumentWithLink(r, a) == document' = [document EXCEPT ![a] = @ \/ r.file]

Navigates(r) == r.kind = "save" \/ r.seen = "Additional Information Required"

\* An answer to a page that has been left is not heard.
Answered(i, answer, a) ==
    LET r == requests[i] IN
    requests' = [requests EXCEPT ![i] =
        IF r.page = NoPage THEN NoRequest
        ELSE [NoRequest EXCEPT !.page = r.page, !.kind = r.kind, !.answer = answer,
                               !.result = IF Navigates(r) THEN a ELSE NoApp]]

\* One transaction, of a user with the right to the status, which the permission set of
\* the portal gives, or without.  Its answer may be lost, which the page sees as an error.
Execute(i) ==
    LET r == requests[i] IN
    /\ r.answer = "pending"
    /\ \/ \E a \in Apps :
            /\ a \in IF r.app = NoApp THEN {x \in Apps : ~Exists(x)} ELSE {r.app}
            /\ \E mayWrite \in BOOLEAN :
                   status' = [status EXCEPT ![a] = SanitizedStatus(r, a, mayWrite)]
            /\ UpsertRows(r, a) /\ InsertDocumentWithLink(r, a)
            /\ \E answer \in {"ok", "error"} : Answered(i, answer, a)
       \/ Answered(i, "error", NoApp) /\ UNCHANGED <<status, child, document>>
    /\ UNCHANGED <<gone, pageVars, deletions, openings>>

Ends(i) == requests[i].answer \in {"ok", "error"} /\ requests' = [requests EXCEPT ![i] = NoRequest]

\* Mutant: the form comes back only after a success.
ReceiveWithoutFinally(i) ==
    LET r == requests[i]  p == r.page IN
    /\ Ends(i)
    /\ IF r.answer = "error" THEN UNCHANGED <<stage, goingTo, isLoaded>>
       ELSE /\ isLoaded' = [isLoaded EXCEPT ![p] = TRUE]
            /\ stage' = [stage EXCEPT ![p] = IF r.kind = "submit" THEN "submitted" ELSE @]
            /\ goingTo' = [goingTo EXCEPT ![p] = r.result]
    /\ UNCHANGED <<serverVars, formVars, deletions, openings>>

\* then, catch, finally.  An error is only logged.  The form comes back, also
\* while the navigation is on its way.
Receive(i) ==
    LET r == requests[i]  p == r.page IN
    /\ Ends(i)
    /\ isLoaded' = [isLoaded EXCEPT ![p] = TRUE]
    /\ IF r.answer = "error" THEN UNCHANGED <<stage, goingTo>>
       ELSE /\ stage' = [stage EXCEPT ![p] = IF r.kind = "submit" THEN "submitted" ELSE @]
            /\ goingTo' = [goingTo EXCEPT ![p] = r.result]
    /\ UNCHANGED <<serverVars, formVars, deletions, openings>>

\* navigateToApplication: the saved application is loaded, and with it the ids
\* of the rows.
NavigateToApplication(p) == goingTo[p] # NoApp /\ Open(p, goingTo[p])

\* Any record, whatever the status of its application; a failure is only logged.
DeleteDraftRecord(d) ==
    /\ deletions' = deletions \ {d}
    /\ gone' = gone \cup {d.record} \/ gone' = gone
    /\ UNCHANGED <<status, child, document, pageVars, requests, openings>>

\* The case workers take up a new application, and may ask for more.
CaseHandler(a) ==
    /\ \/ status[a] = "New" /\ status' = [status EXCEPT ![a] = "In Progress"]
       \/ /\ status[a] = "In Progress"
          /\ status' = [status EXCEPT ![a] = "Additional Information Required"]
    /\ UNCHANGED <<child, gone, document, pageVars, requests, deletions, openings>>

----------------------------------------------------------------------------
\* Drafts may have been saved before, with rows or a document or without.
Init ==
    /\ status \in [Apps -> {"none", "Draft"}]
    /\ child \in [Records -> {NoApp} \cup {a \in Apps : Exists(a)}] /\ gone = {}
    /\ document \in {d \in [Apps -> BOOLEAN] : \A a \in Apps : d[a] => Exists(a)}
    /\ stage = [p \in Pages |-> "closed"] /\ goingTo = [p \in Pages |-> NoApp]
    /\ isLoaded = [p \in Pages |-> FALSE]
    /\ app = [p \in Pages |-> NoApp] /\ seen = [p \in Pages |-> "none"]
    /\ rows = [p \in Pages |-> [saved |-> {}, fresh |-> 0]] /\ file = [p \in Pages |-> FALSE]
    /\ requests = [i \in Slots |-> NoRequest] /\ deletions = {}
    /\ openings = 0

Page(p) ==
    \/ \E a \in Apps \cup {NoApp} : Open(p, a)
    \/ Load(p) \/ AddContactRow(p) \/ RemoveContactRow(p) \/ OnFileUpload(p)
    \/ HandleSaveAsDraft(p) \/ HandleSubmit(p) \/ NavigateToApplication(p)

Answering(i) == Execute(i) \/ Receive(i)

Next ==
    \/ \E p \in Pages : Page(p)
    \/ \E i \in Slots : Answering(i)
    \/ \E d \in deletions : DeleteDraftRecord(d)
    \/ \E a \in Apps : CaseHandler(a)

Spec == Init /\ [][Next]_vars

----------------------------------------------------------------------------
(* Properties *)

\* What the case workers see has a document, however the form was saved, failed,
\* loaded again or sent from several tabs before (checkApplicationInputs,
\* insertDocumentWithLink): a file that is still being read when the form is
\* sent does not count.
SubmittedHasDocument ==
    \A a \in Apps : status[a] \notin {"none", "Draft"} => document[a]

\* A form has one request under way: it is hidden meanwhile, so that pressing twice,
\* or saving and submitting, does not make two applications of a new one
\* (handleSaveAsDraft, handleSubmit).
OneRequestPerForm ==
    \A i, j \in Slots :
        requests[i].page = requests[j].page /\ requests[i].page # NoPage => i = j

\* A form does not send a record while it waits for its deletion: the record would
\* come back into the application, or be gone in the middle of the transaction
\* (removeContactRow, deleteRecord).
RemovedIsNotSentAgain ==
    \A i \in Slots, d \in deletions :
        d.page = requests[i].page /\ d.page # NoPage => d.record \notin requests[i].rows.saved

\* A form that knows the status of its application moves it forward or, when its user
\* may not write the status, leaves it: a draft goes to the case workers, and one they
\* have asked about back to the one who has it, never to the state of a draft or of a
\* new application (saveAsDraft, processApplication, sanitizeApplicationForDml).
\* AAREG_ApplicationControllerTest l.79-121 would have an answered application reset
\* to New, which the code does for nobody who was asked: it sends one without an id.
Forward == {<<"none", "Draft">>, <<"none", "New">>, <<"Draft", "New">>,
            <<"Additional Information Required", "In Progress">>,
            <<"New", "In Progress">>, <<"In Progress", "Additional Information Required">>}
UpToDateFormsMoveForward ==
    [][\A a \in Apps : status'[a] # status[a] =>
          \/ <<status[a], status'[a]>> \in Forward
          \/ \E i \in Slots : /\ Execute(i)
                              /\ requests[i].app = a /\ requests[i].seen # status[a]]_vars

\* A form is hidden only while a request of its own is under way, whatever becomes
\* of the request: it is never left hidden for good (the finally blocks).
HiddenFormsAwaitAnAnswer ==
    \A p \in Pages :
        stage[p] = "form" /\ ~isLoaded[p] => \E i \in Slots : requests[i].page = p

----------------------------------------------------------------------------
(* The inductive invariant behind the properties *)

Statuses == {"none", "Draft", "New", "In Progress", "Additional Information Required"}
Forms == [saved : SUBSET Records, fresh : Nat]
Requests ==
    [page : Pages \cup {NoPage}, kind : {"none", "save", "submit"}, app : Apps \cup {NoApp},
     seen : Statuses, file : BOOLEAN, rows : Forms,
     answer : {"none", "pending", "ok", "error"}, result : Apps \cup {NoApp}]

TypeOK ==
    /\ status \in [Apps -> Statuses] /\ child \in [Records -> Apps \cup {NoApp}]
    /\ gone \subseteq Records /\ document \in [Apps -> BOOLEAN]
    /\ stage \in [Pages -> {"closed", "opening", "form", "empty", "submitted"}]
    /\ goingTo \in [Pages -> Apps \cup {NoApp}] /\ isLoaded \in [Pages -> BOOLEAN]
    /\ app \in [Pages -> Apps \cup {NoApp}] /\ seen \in [Pages -> Statuses]
    /\ rows \in [Pages -> Forms] /\ file \in [Pages -> BOOLEAN]
    /\ requests \in [Slots -> Requests] /\ openings \in Nat
    /\ deletions \subseteq [page : Pages \cup {NoPage}, record : Records]

\* A request of a page and a hidden form are the same thing.
HiddenInv ==
    /\ OneRequestPerForm /\ HiddenFormsAwaitAnAnswer
    /\ \A i \in Slots : requests[i].page \in Pages =>
           stage[requests[i].page] = "form" /\ ~isLoaded[requests[i].page]

\* What is being deleted for a page is not in its form, nor in its request.
DeletionInv ==
    /\ RemovedIsNotSentAgain
    /\ \A d \in deletions : d.page \in Pages =>
           stage[d.page] # "opening" /\ d.record \notin rows[d.page].saved

\* What was once loaded of an application goes on to hold of its document; what was
\* sent has passed the checks of the form.
Asked(a, s) == s = "Additional Information Required" => a \in Apps /\ document[a]
Sendable(r) ==
    /\ r.app = NoApp \/ r.seen \in Editable
    /\ r.kind = "save" \/ r.file \/ r.app \in {a \in Apps : document[a]}
DocumentInv ==
    /\ SubmittedHasDocument
    /\ \A p \in Pages : Asked(app[p], seen[p]) /\ (app[p] = NoApp => seen[p] = "none")
    /\ \A i \in Slots : requests[i].answer = "pending" =>
           /\ Asked(requests[i].app, requests[i].seen) /\ Sendable(requests[i])
           /\ requests[i].app = NoApp => requests[i].seen = "none"

FormInv == TypeOK /\ HiddenInv /\ DeletionInv /\ DocumentInv
=============================================================================
