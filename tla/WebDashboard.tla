----------------------------- MODULE WebDashboard -----------------------------
(***************************************************************************)
(* The dashboard (web/src/App.tsx over web/src/api.ts) against the server  *)
(* of WebOperations.  The list of operations it shows is changed by three  *)
(* callbacks that know nothing of each other: the answer to a POST, an     *)
(* event of a stream, and a reload, whose answer may be old when it is put *)
(* in place.  Whenever the ids or states of the list have changed, an      *)
(* effect drops all streams and opens one for each running operation.      *)
(***************************************************************************)
EXTENDS WebOperations

CONSTANTS
    MaxReloads   \* bound: reloads of the list after it was first loaded

ASSUME DashboardConstants == MaxReloads \in Nat

VARIABLES
    view,      \* per operation: the state shown, "none" when not in the list
    keyed,     \* the list the effect last ran for
    answered,  \* the operations whose 202 has not reached the dashboard yet
    loading,   \* a reload has its list and waits for the orgs
    reloads,   \* reloads so far
    fetched,   \* the list as the server answered it
    unheard    \* observation: operations a stream of which was refused or ended

clientVars == <<view, keyed, answered, loading, reloads, fetched, unheard>>
vars == <<serverVars, clientVars>>

Nothing == [o \in Ops |-> "none"]

(* The first load is over: there was nothing to show.                      *)
Init ==
    /\ ServerInit
    /\ view = Nothing
    /\ keyed = Nothing
    /\ answered = {}
    /\ loading = FALSE
    /\ reloads = 0
    /\ fetched = Nothing
    /\ unheard = {}

-----------------------------------------------------------------------------
(* startCommand.                                                           *)

Answer(o) ==
    /\ BeginOperation(o)
    /\ answered' = answered \cup {o}
    /\ UNCHANGED <<view, keyed, loading, reloads, fetched, unheard>>

(* registerOperation: shown as running, whatever has happened since.       *)
Register(o) ==
    /\ o \in answered
    /\ answered' = answered \ {o}
    /\ view' = [view EXCEPT ![o] = "running"]
    /\ UNCHANGED <<serverVars, keyed, loading, reloads, fetched, unheard>>

-----------------------------------------------------------------------------
(* The effect.  A connection slot is free again once the server has seen   *)
(* the old stream close; the dashboard itself does not wait for that.      *)

Running == {o \in Ops : view[o] = "running"}
FreeSlots(o) == {c \in Connections : c[1] = o /\ conn[c] = "free"}

RunEffect ==
    /\ keyed # view
    /\ \A o \in Running : FreeSlots(o) # {}
    /\ LET new == {CHOOSE c \in FreeSlots(o) : TRUE : o \in Running}
       IN  /\ conn' = [c \in Connections |-> IF c \in new THEN "asked" ELSE conn[c]]
           /\ deaf' = {c \in Connections : conn[c] # "free"}
           /\ queue' = [c \in Connections |-> << >>]
    /\ keyed' = view
    /\ UNCHANGED <<status, kept, log, aborted,
                   view, answered, loading, reloads, fetched, unheard>>

(* Mutant of Receive: any ending is shown as a success.                    *)
ReceiveAsSuccess(c) ==
    LET o == c[1] IN
    /\ c \notin deaf
    /\ queue[c] # << >>
    /\ queue' = [queue EXCEPT ![c] = Tail(@)]
    /\ view' = IF Head(queue[c]).kind \in Terminal /\ view[o] # "none"
               THEN [view EXCEPT ![o] = "completed"]
               ELSE view
    /\ UNCHANGED <<status, kept, log, aborted, conn, deaf,
                   keyed, answered, loading, reloads, fetched, unheard>>

(* The callback of a stream: only a terminal event changes the state.      *)
Receive(c) ==
    LET o == c[1] IN
    /\ c \notin deaf
    /\ queue[c] # << >>
    /\ queue' = [queue EXCEPT ![c] = Tail(@)]
    /\ view' = IF Head(queue[c]).kind \in Terminal /\ view[o] # "none"
               THEN [view EXCEPT ![o] = Head(queue[c]).kind]
               ELSE view
    /\ UNCHANGED <<status, kept, log, aborted, conn, deaf,
                   keyed, answered, loading, reloads, fetched, unheard>>

(* The server answers 404 or 429, or has ended the stream and everything   *)
(* has been received: the dashboard at most logs it and never tries again. *)
StreamOver(c) ==
    /\ c \notin deaf
    /\ \/ conn[c] = "refused"
       \/ conn[c] = "ended" /\ queue[c] = << >>
    /\ unheard' = unheard \cup {c[1]}
    /\ Disconnect(c)
    /\ UNCHANGED <<view, keyed, answered, loading, reloads, fetched>>

(* The server notices that an aborted stream is closed.                    *)
Closed(c) ==
    /\ c \in deaf
    /\ Disconnect(c)
    /\ UNCHANGED <<view, keyed, answered, loading, reloads, fetched, unheard>>

-----------------------------------------------------------------------------
(* loadDashboard: the operations and the orgs are asked for together, and  *)
(* the slower of the two decides when the list is put in place.  What may  *)
(* have changed by then depends on when the server has read its list, not  *)
(* on when it was asked, so that a reload begins with its answer.          *)

ListOperations ==
    /\ reloads < MaxReloads
    /\ ~loading
    /\ loading' = TRUE
    /\ reloads' = reloads + 1
    /\ fetched' = [o \in Ops |-> IF o \in ToSet(kept) THEN status[o] ELSE "none"]
    /\ UNCHANGED <<serverVars, view, keyed, answered, unheard>>

ShowReloaded ==
    /\ loading
    /\ loading' = FALSE
    /\ view' = fetched
    /\ fetched' = Nothing
    /\ UNCHANGED <<serverVars, keyed, answered, reloads, unheard>>

ServerStep(o) ==
    \/ Emit(o) /\ UNCHANGED clientVars
    \/ Finish(o) /\ UNCHANGED clientVars
    \/ Cancel(o) /\ UNCHANGED clientVars

Stream(c) ==
    \/ Subscribe(c) /\ UNCHANGED clientVars
    \/ Receive(c)
    \/ StreamOver(c)
    \/ Closed(c)

Next ==
    \/ \E o \in Ops : Answer(o) \/ Register(o) \/ ServerStep(o)
    \/ \E c \in Connections : Stream(c)
    \/ RunEffect
    \/ ListOperations \/ ShowReloaded

Spec == Init /\ [][Next]_vars

(* An execution ends (commands have timeouts), answers and events arrive,  *)
(* closed connections are noticed and React runs its effects.              *)
Fairness ==
    /\ \A o \in Ops :
        /\ WF_vars(Finish(o) /\ UNCHANGED clientVars)
        /\ WF_vars(Register(o))
    /\ \A c \in Connections : WF_vars(Stream(c))
    /\ WF_vars(RunEffect)
    /\ WF_vars(ShowReloaded)

FairSpec == Spec /\ Fairness

-----------------------------------------------------------------------------
(* What the dashboard shows as ended has ended, and in that way, although  *)
(* streams are replayed and lists are reloaded while operations run        *)
(* (App.tsx l.202-215, l.165).                                             *)
ShownEndsAreTrue ==
    \A o \in Ops : view[o] \in Terminal => status[o] = view[o]

(* An operation shown as running is not shown so for ever, unless a stream *)
(* of it was refused or ended by the server: the replay makes up for every *)
(* terminal event that came before the stream (App.tsx l.196-224).  This   *)
(* is about a dashboard that is loaded once: a reload that puts an old     *)
(* "running" back before the effect has seen the end of the operation      *)
(* leaves the list as the effect last saw it, and no stream is opened.     *)
RunningSettles ==
    \A o \in Ops : view[o] = "running" ~> (view[o] # "running" \/ o \in unheard)

-----------------------------------------------------------------------------
(* The inductive invariant behind the safety properties.                   *)

States == {"none", "running"} \cup Terminal
Events == [n : Nat \ {0}, kind : Kinds]

WebTypes ==
    /\ status \in [Ops -> States] /\ kept \in Seq(Ops) /\ log \in [Ops -> Seq(Events)]
    /\ conn \in [Connections -> {"free", "asked", "open", "refused", "ended"}]
    /\ queue \in [Connections -> Seq(Events)] /\ deaf \subseteq Connections
    /\ view \in [Ops -> States] /\ fetched \in [Ops -> States]

Ordered(events) == \A i, j \in DOMAIN events : i < j => events[i].n < events[j].n
OneTick(events) == \A i, j \in DOMAIN events : IsTick(events[i]) /\ IsTick(events[j]) => i = j

(* The history of an operation: in order, one tick at most, and the end of *)
(* it when it has ended.                                                    *)
LogInv ==
    /\ \A o \in Ops : /\ status[o] = "none" <=> log[o] = << >>
                      /\ Ordered(log[o]) /\ OneTick(log[o])
    /\ OneTerminalEvent

(* What is on its way to a client was published, and tells the true end.   *)
QueueInv ==
    /\ \A c \in Connections :
        /\ Ordered(queue[c])
        /\ \A i \in DOMAIN queue[c] :
            /\ queue[c][i].n <= Published(c[1])
            /\ queue[c][i].kind \in Terminal => queue[c][i].kind = status[c[1]]
        /\ c \in deaf => queue[c] = << >>
    /\ StreamsMissNothing

LimitInv == IsFiniteSet(AllSubscribers) /\ WithinLimits

(* A list under way says as little that is untrue as the one shown.        *)
ClientInv ==
    /\ \A o \in Ops : fetched[o] \in Terminal => status[o] = fetched[o]
    /\ ShownEndsAreTrue

WebInv == WebTypes /\ LogInv /\ QueueInv /\ LimitInv /\ ClientInv
=============================================================================
