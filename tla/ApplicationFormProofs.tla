------------------------- MODULE ApplicationFormProofs -------------------------
(***************************************************************************)
(* Proofs about ApplicationForm, for any number of pages, applications,    *)
(* rows and requests under way.                                            *)
(***************************************************************************)
EXTENDS ApplicationForm, TLAPS

LEMMA NoRequestType ==
    /\ NoRequest \in Requests /\ NoRequest.page = NoPage /\ NoRequest.answer = "none"
    /\ NoRequest.rows.saved = {}
BY DEF NoRequest, Requests, Forms, Statuses

\* The request of a page that has been left.
LEMMA Forgotten ==
    ASSUME NEW r \in Requests
    PROVE  LET f == [r EXCEPT !.page = NoPage] IN
           /\ f \in Requests /\ f.page = NoPage /\ f.kind = r.kind /\ f.app = r.app
           /\ f.seen = r.seen /\ f.file = r.file /\ f.rows = r.rows /\ f.answer = r.answer
BY DEF Requests

LEMMA InitInv == Init => FormInv
<1> SUFFICES ASSUME Init PROVE FormInv
    OBVIOUS
<1> USE FormConstants, NoRequestType DEF Init
<1>1. \A i \in Slots : requests[i] = NoRequest
    OBVIOUS
<1> USE <1>1
<1>2. TypeOK
    BY DEF TypeOK, Statuses, Forms
<1>3. HiddenInv
    BY DEF HiddenInv, OneRequestPerForm, HiddenFormsAwaitAnAnswer
<1>4. DeletionInv
    BY DEF DeletionInv, RemovedIsNotSentAgain
<1>5. DocumentInv
    BY DEF DocumentInv, SubmittedHasDocument, Asked
<1> QED
    BY <1>2, <1>3, <1>4, <1>5 DEF FormInv

\* Slot i gets request r, and the other slots keep theirs.
OnlySlot(i, r) ==
    /\ requests' \in [Slots -> Requests] /\ requests'[i] = r
    /\ \A j \in Slots : j # i => requests'[j] = requests[j]

LEMMA OneSlot ==
    ASSUME TypeOK, NEW i \in Slots, NEW r \in Requests, requests' = [requests EXCEPT ![i] = r]
    PROVE  OnlySlot(i, r)
BY DEF TypeOK, OnlySlot

-----------------------------------------------------------------------------
(* Pages *)

LEMMA OpenInv ==
    ASSUME FormInv, NEW p \in Pages, NEW a, Open(p, a)
    PROVE  FormInv'
<1> USE FormConstants DEF FormInv, serverVars
<1>1. a \in Apps \cup {NoApp}
    BY DEF Open
<1>2. \A i \in Slots :
          /\ requests[i] \in Requests
          /\ requests[i].page # p => requests'[i] = requests[i]
          /\ requests[i].page = p =>
                \/ requests'[i] = NoRequest
                \/ requests[i].answer = "pending" /\ requests'[i] = [requests[i] EXCEPT !.page = NoPage]
    BY DEF Open, TypeOK
<1>3. \A i \in Slots :
          /\ requests'[i] \in Requests /\ requests'[i].page # p
          /\ requests'[i] = requests[i] \/ requests'[i].page = NoPage
  <2> SUFFICES ASSUME NEW i \in Slots
               PROVE  /\ requests'[i] \in Requests /\ requests'[i].page # p
                      /\ requests'[i] = requests[i] \/ requests'[i].page = NoPage
      OBVIOUS
  <2>1. CASE requests[i].page # p
      BY <1>2, <2>1
  <2>2. CASE requests'[i] = NoRequest
      BY <2>2, NoRequestType
  <2>3. CASE requests'[i] = [requests[i] EXCEPT !.page = NoPage]
      BY <1>2, <2>3, Forgotten
  <2> QED
      BY <1>2, <2>1, <2>2, <2>3
<1>4. \A i \in Slots :
          requests'[i].answer = "pending" =>
              /\ requests[i].answer = "pending" /\ requests'[i].app = requests[i].app
              /\ requests'[i].seen = requests[i].seen /\ requests'[i].file = requests[i].file
              /\ requests'[i].kind = requests[i].kind
  <2> SUFFICES ASSUME NEW i \in Slots, requests'[i].answer = "pending"
               PROVE  /\ requests[i].answer = "pending" /\ requests'[i].app = requests[i].app
                      /\ requests'[i].seen = requests[i].seen /\ requests'[i].file = requests[i].file
                      /\ requests'[i].kind = requests[i].kind
      OBVIOUS
  <2>1. CASE requests[i].page # p
      BY <1>2, <2>1
  <2>2. CASE requests'[i] = [requests[i] EXCEPT !.page = NoPage]
      BY <1>2, <2>2, Forgotten
  <2> QED
      BY <1>2, <2>1, <2>2, NoRequestType
<1>5. \A d \in deletions' : /\ d \in [page : Pages \cup {NoPage}, record : Records]
                            /\ d.page # p /\ (d \in deletions \/ d.page = NoPage)
    BY DEF Open, TypeOK
<1>10. \A q \in Pages : q # p => /\ stage'[q] = stage[q] /\ isLoaded'[q] = isLoaded[q]
                                 /\ app'[q] = app[q] /\ seen'[q] = seen[q] /\ rows'[q] = rows[q]
    BY DEF Open, TypeOK
<1>6. TypeOK'
  <2>1. requests' \in [Slots -> Requests]
      BY <1>3 DEF Open
  <2>2. deletions' \subseteq [page : Pages \cup {NoPage}, record : Records]
      BY <1>5
  <2>3. /\ stage' \in [Pages -> {"closed", "opening", "form", "empty", "submitted"}]
        /\ goingTo' \in [Pages -> Apps \cup {NoApp}] /\ isLoaded' \in [Pages -> BOOLEAN]
        /\ app' \in [Pages -> Apps \cup {NoApp}] /\ seen' \in [Pages -> Statuses]
        /\ file' \in [Pages -> BOOLEAN]
      BY <1>1 DEF TypeOK, Open, Statuses
  <2>4. rows' \in [Pages -> Forms]
    <3>1. [saved |-> {}, fresh |-> 0] \in Forms
        BY DEF Forms
    <3> QED
        BY <3>1 DEF TypeOK, Open
  <2>5. UNCHANGED serverVars /\ openings' \in Nat
      BY DEF TypeOK, Open
  <2> QED
      BY <2>1, <2>2, <2>3, <2>4, <2>5 DEF TypeOK
<1>7. HiddenInv'
  <2>1. stage'[p] # "form"
      BY DEF TypeOK, Open
  <2>2. OneRequestPerForm'
      BY <1>3 DEF HiddenInv, OneRequestPerForm
  <2>3. HiddenFormsAwaitAnAnswer'
    <3> SUFFICES ASSUME NEW q \in Pages, stage'[q] = "form", ~isLoaded'[q]
                 PROVE  \E i \in Slots : requests'[i].page = q
        BY DEF HiddenFormsAwaitAnAnswer
    <3>1. q # p
        BY <2>1
    <3>2. PICK i \in Slots : requests[i].page = q
        BY <1>10, <3>1 DEF HiddenInv, HiddenFormsAwaitAnAnswer
    <3> QED
        BY <1>2, <3>1, <3>2
  <2>4. \A i \in Slots : requests'[i].page \in Pages =>
            requests'[i].page # p /\ requests'[i] = requests[i]
      BY <1>3
  <2> QED
      BY <1>10, <2>2, <2>3, <2>4 DEF HiddenInv
<1>8. DeletionInv'
  <2>1. RemovedIsNotSentAgain'
      BY <1>3, <1>5 DEF DeletionInv, RemovedIsNotSentAgain
  <2> QED
      BY <2>1, <1>5, <1>10 DEF DeletionInv
<1>9. DocumentInv'
  <2>1. \A q \in Pages : (Asked(app[q], seen[q]) /\ (app[q] = NoApp => seen[q] = "none"))'
      BY <1>10 DEF DocumentInv, Asked, Open, TypeOK
  <2>2. SubmittedHasDocument'
      BY DEF DocumentInv, SubmittedHasDocument, Open
  <2>3. document' = document
      BY DEF Open
  <2> QED
      BY <2>1, <2>2, <2>3, <1>4 DEF DocumentInv, Asked, Sendable
<1> QED
    BY <1>6, <1>7, <1>8, <1>9

LEMMA LoadInv == ASSUME FormInv, NEW p \in Pages, Load(p) PROVE FormInv'
<1> USE FormConstants DEF FormInv, serverVars
<1>1. /\ stage[p] = "opening" /\ stage' = [stage EXCEPT ![p] = stage'[p]]
      /\ stage'[p] \in {"form", "empty"}
      /\ isLoaded' = [isLoaded EXCEPT ![p] = TRUE]
      /\ UNCHANGED <<serverVars, goingTo, app, file, requests, deletions, openings>>
    BY DEF Load, TypeOK
<1>2. rows' = [rows EXCEPT ![p] = rows'[p]] /\ rows'[p] \in Forms
  <2>1. RowsOf(app[p]) \in Forms
      BY DEF RowsOf, Live, Forms
  <2> QED
      BY <2>1 DEF Load, TypeOK, Forms
<1>3. /\ seen' = [seen EXCEPT ![p] = seen'[p]] /\ seen'[p] \in Statuses
      /\ seen'[p] # seen[p] => app[p] \in Apps /\ seen'[p] = status[app[p]]
    BY DEF Load, TypeOK
<1>6. TypeOK'
    BY <1>1, <1>2, <1>3 DEF TypeOK
<1>7. HiddenInv'
    BY <1>1 DEF HiddenInv, OneRequestPerForm, HiddenFormsAwaitAnAnswer, TypeOK
<1>8. DeletionInv'
    BY <1>1, <1>2 DEF DeletionInv, RemovedIsNotSentAgain, TypeOK
<1>9. DocumentInv'
  <2>1. Asked(app[p], seen'[p]) /\ (app[p] = NoApp => seen'[p] = "none")
      BY <1>3 DEF DocumentInv, SubmittedHasDocument, Asked
  <2>2. \A q \in Pages : q # p => seen'[q] = seen[q]
      BY <1>3 DEF TypeOK
  <2>3. seen'[p] = seen'[p] /\ UNCHANGED <<status, document, app, requests>>
      BY <1>1
  <2> QED
      BY <2>1, <2>2, <2>3 DEF DocumentInv, SubmittedHasDocument, Asked, Sendable
<1> QED
    BY <1>6, <1>7, <1>8, <1>9

LEMMA AddRowInv == ASSUME FormInv, NEW p \in Pages, AddContactRow(p) PROVE FormInv'
<1> USE DEF FormInv, FormUnchanged, serverVars
<1>1. UNCHANGED <<serverVars, stage, goingTo, isLoaded, app, seen, requests, openings, file, deletions>>
    BY DEF AddContactRow
<1>2. rows' \in [Pages -> Forms] /\ \A q \in Pages : rows'[q].saved = rows[q].saved
    BY DEF AddContactRow, TypeOK, Forms
<1> USE <1>1, <1>2
<1>6. TypeOK'
    BY DEF TypeOK
<1>7. HiddenInv'
    BY DEF HiddenInv, OneRequestPerForm, HiddenFormsAwaitAnAnswer, TypeOK
<1>8. DeletionInv'
    BY DEF DeletionInv, RemovedIsNotSentAgain, TypeOK
<1>9. DocumentInv'
    BY DEF DocumentInv, SubmittedHasDocument, Asked, Sendable, TypeOK
<1> QED
    BY <1>6, <1>7, <1>8, <1>9

LEMMA RemoveRowInv == ASSUME FormInv, NEW p \in Pages, RemoveContactRow(p) PROVE FormInv'
<1> USE FormConstants DEF FormInv, FormUnchanged, serverVars
<1>0. /\ UNCHANGED <<serverVars, stage, goingTo, isLoaded, app, seen, requests, openings, file>>
      /\ stage[p] = "form" /\ isLoaded[p]
    BY DEF RemoveContactRow, Usable
<1>1. CASE \E c \in rows[p].saved : DeleteRecord(p, c)
  <2>1. PICK c \in rows[p].saved : DeleteRecord(p, c)
      BY <1>1
  <2>2. c \in Records
      BY DEF TypeOK, Forms
  <2>3. /\ rows' \in [Pages -> Forms] /\ rows'[p].saved = rows[p].saved \ {c}
        /\ \A q \in Pages : q # p => rows'[q] = rows[q]
      BY <2>1 DEF DeleteRecord, TypeOK, Forms
  <2>4. deletions' = deletions \cup {[page |-> p, record |-> c]}
      BY <2>1 DEF DeleteRecord
  <2>6. TypeOK'
      BY <1>0, <2>2, <2>3, <2>4 DEF TypeOK
  <2>7. HiddenInv'
      BY <1>0 DEF HiddenInv, OneRequestPerForm, HiddenFormsAwaitAnAnswer
  <2>8. DeletionInv'
    <3>1. \A i \in Slots : requests[i].page # p
        BY <1>0 DEF HiddenInv
    <3> QED
        BY <1>0, <2>3, <2>4, <3>1 DEF DeletionInv, RemovedIsNotSentAgain
  <2>9. DocumentInv'
      BY <1>0 DEF DocumentInv, SubmittedHasDocument, Asked, Sendable
  <2> QED
      BY <2>6, <2>7, <2>8, <2>9
<1>2. CASE /\ rows[p].fresh > 0 /\ rows' = [rows EXCEPT ![p].fresh = @ - 1]
           /\ UNCHANGED deletions
  <2>1. /\ rows' \in [Pages -> Forms]
        /\ \A q \in Pages : rows'[q].saved = rows[q].saved
      BY <1>2 DEF TypeOK, Forms
  <2> USE <1>0, <1>2, <2>1
  <2> HIDE <1>2
  <2>2. UNCHANGED deletions
      BY <1>2
  <2>6. TypeOK'
      BY <2>2 DEF TypeOK
  <2>7. HiddenInv'
      BY <2>2 DEF HiddenInv, OneRequestPerForm, HiddenFormsAwaitAnAnswer, TypeOK
  <2>8. DeletionInv'
      BY <2>2 DEF DeletionInv, RemovedIsNotSentAgain, TypeOK
  <2>9. DocumentInv'
      BY <2>2 DEF DocumentInv, SubmittedHasDocument, Asked, Sendable, TypeOK
  <2> QED
      BY <2>6, <2>7, <2>8, <2>9
<1> QED
    BY <1>1, <1>2 DEF RemoveContactRow

LEMMA FileInv == ASSUME FormInv, NEW p \in Pages, OnFileUpload(p) PROVE FormInv'
<1> USE DEF FormInv, OnFileUpload, FormUnchanged, serverVars
<1>6. TypeOK'
    BY DEF TypeOK
<1>7. HiddenInv'
    BY DEF HiddenInv, OneRequestPerForm, HiddenFormsAwaitAnAnswer, TypeOK
<1>8. DeletionInv'
    BY DEF DeletionInv, RemovedIsNotSentAgain, TypeOK
<1>9. DocumentInv'
    BY DEF DocumentInv, SubmittedHasDocument, Asked, Sendable, TypeOK
<1> QED
    BY <1>6, <1>7, <1>8, <1>9

-----------------------------------------------------------------------------
(* Requests *)

LEMMA SendInv ==
    ASSUME FormInv, NEW p \in Pages, NEW kind \in {"save", "submit"}, Usable(p),
           NEW sent \in FilledIn(p), Send(p, kind, sent), kind = "submit" => HasDocument(p)
    PROVE  FormInv'
<1> USE FormConstants DEF FormInv, serverVars, formVars
<1>1. /\ UNCHANGED <<serverVars, stage, goingTo, formVars, deletions, openings>>
      /\ isLoaded' = [isLoaded EXCEPT ![p] = FALSE] /\ stage[p] = "form" /\ isLoaded[p]
      /\ app[p] = NoApp \/ seen[p] \in Editable
    BY DEF Send, Usable, IsReadOnly
<1>2. sent \in Forms /\ sent.saved \subseteq rows[p].saved
    BY DEF FilledIn, TypeOK, Forms
<1> DEFINE r == Request(p, kind, sent)
<1>3. /\ r \in Requests /\ r.page = p /\ r.kind = kind /\ r.app = app[p] /\ r.seen = seen[p]
      /\ r.file = file[p] /\ r.rows = sent /\ r.answer = "pending"
    BY <1>2 DEF Request, Requests, TypeOK
<1>4. PICK i \in Slots : requests[i] = NoRequest /\ requests' = [requests EXCEPT ![i] = r]
    BY DEF Send, Begin
<1> HIDE DEF r
<1>5. OnlySlot(i, r)
    BY <1>3, <1>4, OneSlot
<1>10. \A j \in Slots : requests[j].page # p
    BY <1>1 DEF HiddenInv
<1>6. TypeOK'
    BY <1>1, <1>5 DEF TypeOK, OnlySlot
<1>7. HiddenInv'
    BY <1>1, <1>3, <1>4, <1>5, <1>10, NoRequestType
    DEF HiddenInv, OneRequestPerForm, HiddenFormsAwaitAnAnswer, OnlySlot, TypeOK
<1>8. DeletionInv'
    BY <1>1, <1>2, <1>3, <1>5 DEF DeletionInv, RemovedIsNotSentAgain, OnlySlot
<1>9. DocumentInv'
  <2>1. Asked(r.app, r.seen) /\ Sendable(r) /\ (r.app = NoApp => r.seen = "none")
      BY <1>1, <1>3 DEF DocumentInv, Asked, Sendable, HasDocument, TypeOK
  <2>2. UNCHANGED <<status, document, app, seen>>
      BY <1>1
  <2> QED
      BY <2>1, <2>2, <1>5 DEF DocumentInv, SubmittedHasDocument, Asked, Sendable, OnlySlot
<1> QED
    BY <1>6, <1>7, <1>8, <1>9

\* An answered request keeps its page, or is forgotten with it.
LEMMA AnsweredSlot ==
    ASSUME FormInv, NEW i \in Slots, NEW answer \in {"ok", "error"}, NEW a \in Apps \cup {NoApp},
           Answered(i, answer, a)
    PROVE  \E r \in Requests : /\ OnlySlot(i, r) /\ r.page = requests[i].page
                               /\ r.answer # "pending" /\ r.rows.saved = {}
<1>1. requests[i] \in Requests
    BY DEF FormInv, TypeOK
<1> DEFINE r == IF requests[i].page = NoPage THEN NoRequest
                ELSE [NoRequest EXCEPT !.page = requests[i].page, !.kind = requests[i].kind,
                         !.answer = answer, !.result = IF Navigates(requests[i]) THEN a ELSE NoApp]
<1>2. /\ r \in Requests /\ r.page = requests[i].page /\ r.answer # "pending" /\ r.rows.saved = {}
  <2>1. CASE requests[i].page = NoPage
      BY <2>1, NoRequestType
  <2>2. CASE requests[i].page # NoPage
    <3> DEFINE n == IF Navigates(requests[i]) THEN a ELSE NoApp
    <3>1. n \in Apps \cup {NoApp}
        OBVIOUS
    <3>2. r = [NoRequest EXCEPT !.page = requests[i].page, !.kind = requests[i].kind,
                   !.answer = answer, !.result = n]
        BY <2>2
    <3> HIDE DEF n, r
    <3> QED
        BY <1>1, <3>1, <3>2, NoRequestType DEF Requests
  <2> QED
      BY <2>1, <2>2
<1>3. requests' = [requests EXCEPT ![i] = r]
    BY DEF Answered
<1> HIDE DEF r
<1> QED
    BY <1>2, <1>3, OneSlot DEF FormInv

\* A request that is carried out: the application it is about, and what becomes of it.
Carried(i, a) ==
    LET r == requests[i] IN
    /\ a \in IF r.app = NoApp THEN {x \in Apps : ~Exists(x)} ELSE {r.app}
    /\ \E mayWrite \in BOOLEAN :
           status' = [status EXCEPT ![a] = SanitizedStatus(r, a, mayWrite)]
    /\ UpsertRows(r, a) /\ InsertDocumentWithLink(r, a)

LEMMA CarriedInv ==
    ASSUME FormInv, NEW i \in Slots, requests[i].answer = "pending", NEW a \in Apps, Carried(i, a)
    PROVE  /\ status' \in [Apps -> Statuses] /\ child' \in [Records -> Apps \cup {NoApp}]
           /\ document' \in [Apps -> BOOLEAN]
           /\ \A b \in Apps : document[b] => document'[b]
           /\ SubmittedHasDocument'
<1> DEFINE r == requests[i]
<1> USE FormConstants DEF FormInv
<1>1. r \in Requests
    BY DEF TypeOK
<1>10. PICK mayWrite \in BOOLEAN : status' = [status EXCEPT ![a] = SanitizedStatus(r, a, mayWrite)]
    BY DEF Carried
<1>2. status' \in [Apps -> Statuses]
    BY <1>10 DEF SanitizedStatus, StatusAfter, TypeOK, Statuses
<1>3. child' \in [Records -> Apps \cup {NoApp}]
    BY DEF Carried, UpsertRows, TypeOK
<1>4. document' = [document EXCEPT ![a] = @ \/ r.file] /\ r.file \in BOOLEAN
    BY <1>1 DEF Carried, InsertDocumentWithLink, Requests
<1>5. /\ document' \in [Apps -> BOOLEAN] /\ \A b \in Apps : b # a => document'[b] = document[b]
      /\ document[a] => document'[a]
      /\ r.file => document'[a]
    BY <1>4 DEF TypeOK
<1>6. status'[a] \notin {"none", "Draft"} => document'[a]
  <2>1. CASE r.seen = "Additional Information Required"
    <3>1. r.app \in Apps /\ document[r.app]
        BY <2>1 DEF DocumentInv, Asked
    <3>2. r.app = a
        BY <3>1 DEF Carried
    <3> QED
        BY <3>1, <3>2, <1>5
  <2>2. CASE r.seen # "Additional Information Required" /\ r.kind = "save"
      BY <1>10, <2>2 DEF SanitizedStatus, StatusAfter, TypeOK
  <2>3. CASE r.kind # "save" /\ r.file
      BY <2>3, <1>5
  <2>4. CASE r.kind # "save" /\ r.app \in {b \in Apps : document[b]}
    <3>1. r.app = a
        BY <2>4 DEF Carried
    <3> QED
        BY <2>4, <3>1, <1>5
  <2> QED
      BY <2>1, <2>2, <2>3, <2>4 DEF DocumentInv, Sendable
<1>7. SubmittedHasDocument'
    BY <1>5, <1>6 DEF Carried, DocumentInv, SubmittedHasDocument, TypeOK
<1> QED
    BY <1>2, <1>3, <1>5, <1>7

LEMMA ExecuteInv == ASSUME FormInv, NEW i \in Slots, Execute(i) PROVE FormInv'
<1> USE DEF FormInv, pageVars, formVars
<1>1. requests[i].answer = "pending" /\ UNCHANGED <<gone, pageVars, deletions, openings>>
    BY DEF Execute
<1>2. /\ status' \in [Apps -> Statuses] /\ child' \in [Records -> Apps \cup {NoApp}]
      /\ document' \in [Apps -> BOOLEAN]
      /\ \A b \in Apps : document[b] => document'[b]
      /\ SubmittedHasDocument'
  <2>1. CASE \E a \in Apps : Carried(i, a)
      BY <1>1, <2>1, CarriedInv
  <2>2. CASE UNCHANGED <<status, child, document>>
      BY <2>2 DEF TypeOK, DocumentInv, SubmittedHasDocument
  <2> QED
      BY <2>1, <2>2 DEF Execute, Carried
<1>3. PICK r \in Requests : /\ OnlySlot(i, r) /\ r.page = requests[i].page
                            /\ r.answer # "pending" /\ r.rows.saved = {}
  <2>1. \E answer \in {"ok", "error"}, a \in Apps \cup {NoApp} : Answered(i, answer, a)
      BY DEF Execute
  <2> QED
      BY <2>1, AnsweredSlot
<1>4. \A j \in Slots : requests'[j].page = requests[j].page
    BY <1>3 DEF OnlySlot
<1>6. TypeOK'
    BY <1>1, <1>2, <1>3 DEF TypeOK, OnlySlot
<1>7. HiddenInv'
    BY <1>1, <1>4 DEF HiddenInv, OneRequestPerForm, HiddenFormsAwaitAnAnswer
<1>8. DeletionInv'
    BY <1>1, <1>3, <1>4 DEF DeletionInv, RemovedIsNotSentAgain, OnlySlot
<1>9. DocumentInv'
  <2>1. UNCHANGED <<app, seen>>
      BY <1>1
  <2>2. \A a, s : Asked(a, s) => Asked(a, s)'
      BY <1>2 DEF Asked
  <2>3. \A j \in Slots : requests'[j].answer = "pending" => requests'[j] = requests[j]
      BY <1>3 DEF OnlySlot
  <2>4. \A q : Sendable(q) => Sendable(q)'
      BY <1>2 DEF Sendable
  <2> QED
      BY <1>2, <2>1, <2>2, <2>3, <2>4 DEF DocumentInv
<1> QED
    BY <1>6, <1>7, <1>8, <1>9

LEMMA ReceiveInv == ASSUME FormInv, NEW i \in Slots, Receive(i) PROVE FormInv'
<1> USE DEF FormInv, serverVars, formVars
<1> DEFINE p == requests[i].page
<1>1. /\ UNCHANGED <<serverVars, formVars, deletions, openings>>
      /\ isLoaded' = [isLoaded EXCEPT ![p] = TRUE]
    BY DEF Receive
<1>2. OnlySlot(i, NoRequest)
    BY OneSlot, NoRequestType DEF Receive, Ends
<1>3. requests[i] \in Requests
    BY DEF TypeOK
<1>4. /\ stage' \in [Pages -> {"closed", "opening", "form", "empty", "submitted"}]
      /\ goingTo' \in [Pages -> Apps \cup {NoApp}] /\ isLoaded' \in [Pages -> BOOLEAN]
      /\ \A q \in Pages : stage'[q] # stage[q] => stage'[q] = "submitted"
      /\ \A q \in Pages : q # p => stage'[q] = stage[q] /\ isLoaded'[q] = isLoaded[q]
      /\ p \in Pages => isLoaded'[p]
    BY <1>3 DEF Receive, Requests, TypeOK
<1> HIDE DEF p
<1>6. TypeOK'
    BY <1>1, <1>2, <1>4 DEF TypeOK, OnlySlot
<1>7. HiddenInv'
    BY <1>2, <1>4, NoRequestType, FormConstants
    DEF HiddenInv, OneRequestPerForm, HiddenFormsAwaitAnAnswer, OnlySlot, p
<1>8. DeletionInv'
    BY <1>1, <1>2, <1>4, NoRequestType DEF DeletionInv, RemovedIsNotSentAgain, OnlySlot
<1>9. DocumentInv'
    BY <1>1, <1>2, NoRequestType DEF DocumentInv, SubmittedHasDocument, Asked, Sendable, OnlySlot
<1> QED
    BY <1>6, <1>7, <1>8, <1>9

LEMMA DeleteInv == ASSUME FormInv, NEW d \in deletions, DeleteDraftRecord(d) PROVE FormInv'
<1> USE DEF FormInv, DeleteDraftRecord, pageVars, formVars
<1>6. TypeOK'
    BY DEF TypeOK
<1>7. HiddenInv'
    BY DEF HiddenInv, OneRequestPerForm, HiddenFormsAwaitAnAnswer, TypeOK
<1>8. DeletionInv'
    BY DEF DeletionInv, RemovedIsNotSentAgain, TypeOK
<1>9. DocumentInv'
    BY DEF DocumentInv, SubmittedHasDocument, Asked, Sendable, TypeOK
<1> QED
    BY <1>6, <1>7, <1>8, <1>9

LEMMA CaseHandlerInv == ASSUME FormInv, NEW a \in Apps, CaseHandler(a) PROVE FormInv'
<1> USE DEF FormInv, CaseHandler, pageVars, formVars
<1>6. TypeOK'
    BY DEF TypeOK, Statuses
<1>7. HiddenInv'
    BY DEF HiddenInv, OneRequestPerForm, HiddenFormsAwaitAnAnswer, TypeOK
<1>8. DeletionInv'
    BY DEF DeletionInv, RemovedIsNotSentAgain, TypeOK
<1>9. DocumentInv'
    BY DEF DocumentInv, SubmittedHasDocument, Asked, Sendable, TypeOK
<1> QED
    BY <1>6, <1>7, <1>8, <1>9

LEMMA StutterInv == ASSUME FormInv, UNCHANGED vars PROVE FormInv'
<1> USE DEF FormInv, vars, serverVars, pageVars, formVars
<1>6. TypeOK'
    BY DEF TypeOK
<1>7. HiddenInv'
    BY DEF HiddenInv, OneRequestPerForm, HiddenFormsAwaitAnAnswer, TypeOK
<1>8. DeletionInv'
    BY DEF DeletionInv, RemovedIsNotSentAgain, TypeOK
<1>9. DocumentInv'
    BY DEF DocumentInv, SubmittedHasDocument, Asked, Sendable, TypeOK
<1> QED
    BY <1>6, <1>7, <1>8, <1>9

-----------------------------------------------------------------------------
(* The theorems *)

LEMMA PageInv == ASSUME FormInv, NEW p \in Pages, Page(p) PROVE FormInv'
<1>1. CASE HandleSaveAsDraft(p)
    BY <1>1, SendInv DEF HandleSaveAsDraft
<1>2. CASE HandleSubmit(p)
    BY <1>2, SendInv DEF HandleSubmit
<1> QED
    BY <1>1, <1>2, OpenInv, LoadInv, AddRowInv, RemoveRowInv, FileInv DEF Page, NavigateToApplication

LEMMA StepInv == FormInv /\ [Next]_vars => FormInv'
<1> SUFFICES ASSUME FormInv, [Next]_vars PROVE FormInv'
    OBVIOUS
<1>1. CASE \E p \in Pages : Page(p)
    BY <1>1, PageInv
<1>2. CASE \E i \in Slots : Answering(i)
    BY <1>2, ExecuteInv, ReceiveInv DEF Answering
<1>3. CASE \E d \in deletions : DeleteDraftRecord(d)
    BY <1>3, DeleteInv
<1>4. CASE \E a \in Apps : CaseHandler(a)
    BY <1>4, CaseHandlerInv
<1>5. CASE UNCHANGED vars
    BY <1>5, StutterInv
<1> QED
    BY <1>1, <1>2, <1>3, <1>4, <1>5 DEF Next

\* The inductive invariant: a request and a hidden form are the same thing, what is
\* being deleted is in no form, and what a form has loaded goes on to hold.
THEOREM FormInvariant == Spec => []FormInv
    BY InitInv, StepInv, PTL DEF Spec

\* What the case workers see has a document (checkApplicationInputs,
\* insertDocumentWithLink).
THEOREM DocumentsSubmitted == Spec => []SubmittedHasDocument
<1>1. FormInv => SubmittedHasDocument
    BY DEF FormInv, DocumentInv
<1> QED
    BY <1>1, FormInvariant, PTL

\* A form has one request under way (handleSaveAsDraft, handleSubmit).
THEOREM OneRequest == Spec => []OneRequestPerForm
<1>1. FormInv => OneRequestPerForm
    BY DEF FormInv, HiddenInv
<1> QED
    BY <1>1, FormInvariant, PTL

\* A form does not send a record whose deletion it has asked for (removeContactRow).
THEOREM RemovedStaysAway == Spec => []RemovedIsNotSentAgain
<1>1. FormInv => RemovedIsNotSentAgain
    BY DEF FormInv, DeletionInv
<1> QED
    BY <1>1, FormInvariant, PTL

\* A form is hidden only while a request of its own is under way (the finally blocks).
THEOREM HiddenAwaits == Spec => []HiddenFormsAwaitAnAnswer
<1>1. FormInv => HiddenFormsAwaitAnAnswer
    BY DEF FormInv, HiddenInv
<1> QED
    BY <1>1, FormInvariant, PTL

\* A request moves an application whose status its form knows forward, or leaves it
\* (saveAsDraft, processApplication).
LEMMA ExecuteForward ==
    ASSUME FormInv, NEW i \in Slots, Execute(i), NEW a \in Apps, status'[a] # status[a]
    PROVE  \/ <<status[a], status'[a]>> \in Forward
           \/ requests[i].app = a /\ requests[i].seen # status[a]
<1> DEFINE r == requests[i]
<1> USE FormConstants DEF FormInv
<1>1. PICK b \in Apps : Carried(i, b)
    BY DEF Execute, Carried
<1>2. /\ a = b
      /\ \/ status'[a] = StatusAfter(r)
         \/ r.kind # "save" /\ r.app = NoApp /\ status'[a] = "New"
  <2>1. PICK mayWrite \in BOOLEAN : status' = [status EXCEPT ![b] = SanitizedStatus(r, b, mayWrite)]
      BY <1>1 DEF Carried
  <2>2. a = b /\ status'[a] = SanitizedStatus(r, a, mayWrite)
      BY <2>1 DEF TypeOK
  <2>3. SanitizedStatus(r, a, mayWrite) # status[a]
      BY <2>2
  <2> QED
      BY <2>2, <2>3 DEF SanitizedStatus
<1>3. r.answer = "pending" /\ r \in Requests
    BY DEF Execute, TypeOK
<1>4. CASE r.app = NoApp
  <2>1. status[a] = "none" /\ r.seen = "none"
      BY <1>1, <1>2, <1>3, <1>4 DEF Carried, Exists, DocumentInv
  <2> QED
      BY <1>2, <2>1 DEF StatusAfter, Forward
<1>5. CASE r.app # NoApp /\ r.seen = status[a]
  <2>1. r.seen \in Editable
      BY <1>3, <1>5 DEF DocumentInv, Sendable
  <2> QED
      BY <1>2, <1>5, <2>1 DEF StatusAfter, Forward, Editable
<1>6. CASE r.app # NoApp /\ r.seen # status[a]
    BY <1>1, <1>2, <1>6 DEF Carried
<1> QED
    BY <1>4, <1>5, <1>6

\* A form that knows the status of its application moves it forward (saveAsDraft,
\* processApplication).
THEOREM MovesForward == Spec => UpToDateFormsMoveForward
<1> DEFINE Moves == \A a \in Apps : status'[a] # status[a] =>
          \/ <<status[a], status'[a]>> \in Forward
          \/ \E i \in Slots : /\ Execute(i)
                              /\ requests[i].app = a /\ requests[i].seen # status[a]
<1>1. FormInv /\ [Next]_vars => [Moves]_vars
  <2> SUFFICES ASSUME FormInv, Next, NEW a \in Apps, status'[a] # status[a]
               PROVE  \/ <<status[a], status'[a]>> \in Forward
                      \/ \E i \in Slots : /\ Execute(i) /\ requests[i].app = a
                                          /\ requests[i].seen # status[a]
      OBVIOUS
  <2>1. CASE \E p \in Pages : Page(p)
    <3>1. ASSUME NEW p \in Pages, Page(p) PROVE status' = status
        BY <3>1 DEF Page, Open, Load, AddContactRow, RemoveContactRow, OnFileUpload, FormUnchanged,
                    HandleSaveAsDraft, HandleSubmit, Send, NavigateToApplication, serverVars
    <3> QED
        BY <2>1, <3>1
  <2>2. CASE \E i \in Slots : Execute(i)
      BY <2>2, ExecuteForward
  <2>3. ASSUME NEW i \in Slots, Receive(i) PROVE status' = status
      BY <2>3 DEF Receive, serverVars
  <2>4. ASSUME NEW d \in deletions, DeleteDraftRecord(d) PROVE status' = status
      BY <2>4 DEF DeleteDraftRecord
  <2>5. CASE \E b \in Apps : CaseHandler(b)
      BY <2>5 DEF CaseHandler, Forward, FormInv, TypeOK
  <2> QED
      BY <2>1, <2>2, <2>3, <2>4, <2>5 DEF Next, Answering
<1> QED
    BY <1>1, FormInvariant, PTL DEF UpToDateFormsMoveForward, Spec
=============================================================================
