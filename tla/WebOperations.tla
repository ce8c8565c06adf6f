----------------------------- MODULE WebOperations -----------------------------
(***************************************************************************)
(* The operations of the local web server of sf-project (web/server.ts):   *)
(* a POST starts an operation of the application facade, whose events are  *)
(* kept, within a limit, and written to every subscriber; a subscriber is  *)
(* first given what is kept; an operation can be cancelled while it runs;  *)
(* and the oldest operation goes when there are too many.                  *)
(*                                                                         *)
(* The server is one event loop: a handler is atomic from one await to the *)
(* next.  The client side is WebDashboard, which composes with this module.*)
(***************************************************************************)
EXTENDS Naturals, Sequences, SequencesExt, FiniteSets

CONSTANTS
    Ops,             \* the operations, by the id each is given
    Streams,         \* per operation: connections that may exist at a time
    MaxOperations,   \* operations kept
    MaxEvents,       \* events kept per operation
    MaxSubscribers,  \* subscribers over all operations
    MaxSubscribersPerOperation,
    MaxEmits         \* bound: what one execution emits

ASSUME WebConstants ==
    /\ Streams \in Nat \ {0} /\ MaxEmits \in Nat
    /\ {MaxOperations, MaxEvents, MaxSubscribers,
        MaxSubscribersPerOperation} \subseteq Nat \ {0}

Connections == Ops \X (1 .. Streams)

VARIABLES
    status,   \* per operation: of the execution, whether it is kept or not
    kept,     \* the operations kept, oldest first: the map `operations`
    log,      \* per operation: the events kept
    aborted,  \* per operation: it is to stop, and has not ended yet
    conn,     \* per connection: its state, as the server sees it
    deaf,     \* connections the client has aborted, not seen by the server yet
    queue     \* per connection: events written and not yet received

streamVars == <<conn, deaf, queue>>
serverVars == <<status, kept, log, aborted, streamVars>>

Event(n, kind) == [n |-> n, kind |-> kind]
Terminal == {"completed", "failed"}
Kinds == Terminal \cup {"started", "step", "tick"}
Published(o) == IF log[o] = << >> THEN 0 ELSE Last(log[o]).n

ServerInit ==
    /\ status = [o \in Ops |-> "none"]
    /\ kept = << >>
    /\ log = [o \in Ops |-> << >>]
    /\ aborted = [o \in Ops |-> FALSE]
    /\ conn = [c \in Connections |-> "free"]
    /\ queue = [c \in Connections |-> << >>]
    /\ deaf = {}

Subscribers(o) == {c \in Connections : c[1] = o /\ conn[c] = "open"}
AllSubscribers == {c \in Connections : conn[c] = "open"}

-----------------------------------------------------------------------------
(* publish: an event joins the history, where a tick replaces the one       *)
(* before it and the oldest go beyond the limit, and every subscriber.      *)

Newest(events) ==
    SubSeq(events, IF Len(events) > MaxEvents THEN Len(events) - MaxEvents + 1 ELSE 1,
           Len(events))

(* findIndex and splice: the tick that is kept is taken out.               *)
IsTick(event) == event.kind = "tick"
WithoutTick(events) == RemoveFirstMatch(events, IsTick)

NewEvents(o, kinds) == [i \in DOMAIN kinds |-> Event(Published(o) + i, kinds[i])]

(* Mutant of PublishAll: ticks are kept but not written to subscribers.    *)
PublishAllQuietly(o, kinds) ==
    LET new == NewEvents(o, kinds)
        history == IF kinds = <<"tick">> THEN WithoutTick(log[o]) ELSE log[o]
        subs == IF kinds = <<"tick">> THEN {} ELSE Subscribers(o) \ deaf
    IN  /\ log' = [log EXCEPT ![o] = Newest(history \o new)]
        /\ queue' = [c \in Connections |-> IF c \in subs THEN queue[c] \o new ELSE queue[c]]

(* One event or two in one handler; of two, none is a tick, so that cutting *)
(* the history once at the end leaves what cutting it after each would.     *)
PublishAll(o, kinds) ==
    LET new == NewEvents(o, kinds)
        history == IF kinds = <<"tick">> THEN WithoutTick(log[o]) ELSE log[o]
        subs == Subscribers(o) \ deaf
    IN  /\ log' = [log EXCEPT ![o] = Newest(history \o new)]
        /\ queue' = [c \in Connections |-> IF c \in subs THEN queue[c] \o new ELSE queue[c]]

-----------------------------------------------------------------------------
(* The handlers.                                                           *)

(* POST /operations, once the policy has let it through: retain, which may *)
(* drop the oldest operation and end its streams, and publish the start;   *)
(* then execute runs on its own.                                           *)
BeginOperation(o) ==
    LET all == Append(kept, o)
        over == Len(all) > MaxOperations
        lost == IF over THEN {c \in AllSubscribers : c[1] = Head(all)} ELSE {}
        started == Event(1, "started")
    IN  /\ status[o] = "none"
        /\ status' = [status EXCEPT ![o] = "running"]
        /\ kept' = IF over THEN Tail(all) ELSE all
        /\ conn' = [c \in Connections |-> IF c \in lost THEN "ended" ELSE conn[c]]
        /\ log' = [log EXCEPT ![o] = <<started>>]
        /\ UNCHANGED <<aborted, deaf, queue>>

(* The execution emits an event of its own, never a terminal one.          *)
Emit(o) ==
    /\ status[o] = "running"
    /\ Published(o) <= MaxEmits
    /\ \E kind \in {"step", "tick"} : PublishAll(o, <<kind>>)
    /\ UNCHANGED <<status, kept, aborted, conn, deaf>>

(* execute resolves with an exit code, or rejects, which is an event of its *)
(* own; cancelled or not.  The terminal event carries the result.           *)
Finish(o) ==
    /\ status[o] = "running"
    /\ \/ \E result \in Terminal :
            /\ status' = [status EXCEPT ![o] = result]
            /\ PublishAll(o, <<result>>)
       \/ /\ status' = [status EXCEPT ![o] = "failed"]
          /\ PublishAll(o, <<"step", "failed">>)
    /\ aborted' = [aborted EXCEPT ![o] = FALSE]
    /\ UNCHANGED <<kept, conn, deaf>>

(* Mutant of Cancel: the handler ends the operation itself.                *)
CancelEnds(o) ==
    /\ o \in ToSet(kept) /\ status[o] = "running" /\ ~aborted[o]
    /\ aborted' = [aborted EXCEPT ![o] = TRUE]
    /\ PublishAll(o, <<"failed">>)
    /\ UNCHANGED <<status, kept, conn, deaf>>

(* POST cancel: only what is kept and running is aborted; what follows is  *)
(* up to the execution.                                                    *)
Cancel(o) ==
    /\ o \in ToSet(kept) /\ status[o] = "running" /\ ~aborted[o]
    /\ aborted' = [aborted EXCEPT ![o] = TRUE]
    /\ UNCHANGED <<status, kept, log, streamVars>>

(* What an event stream is admitted by.                                    *)
Admitted(o) ==
    /\ o \in ToSet(kept)
    /\ Cardinality(AllSubscribers) < MaxSubscribers
    /\ Cardinality(Subscribers(o)) < MaxSubscribersPerOperation

Refuse(c) == conn' = [conn EXCEPT ![c] = "refused"] /\ UNCHANGED queue

(* Mutant of Admit: live events only.                                      *)
AdmitLiveOnly(c) == conn' = [conn EXCEPT ![c] = "open"] /\ UNCHANGED queue

(* Replay what is kept and register, in one go.                            *)
Admit(c) ==
    /\ conn' = [conn EXCEPT ![c] = "open"]
    /\ queue' = [queue EXCEPT ![c] = IF c \in deaf THEN << >> ELSE log[c[1]]]

(* Mutant of Subscribe: the limits let one too many in.                    *)
SubscribeOffByOne(c) ==
    LET o == c[1]
        admitted == /\ o \in ToSet(kept)
                    /\ Cardinality(AllSubscribers) <= MaxSubscribers
                    /\ Cardinality(Subscribers(o)) <= MaxSubscribersPerOperation
    IN  /\ conn[c] = "asked"
        /\ IF admitted THEN Admit(c) ELSE Refuse(c)
        /\ UNCHANGED <<status, kept, log, aborted, deaf>>

(* GET events.                                                             *)
Subscribe(c) ==
    /\ conn[c] = "asked"
    /\ \/ Admitted(c[1]) /\ Admit(c)
       \/ ~Admitted(c[1]) /\ Refuse(c)
    /\ UNCHANGED <<status, kept, log, aborted, deaf>>

(* removeSubscriber: the connection has gone, for whatever reason.         *)
Disconnect(c) ==
    /\ conn[c] # "free"
    /\ conn' = [conn EXCEPT ![c] = "free"]
    /\ queue' = [queue EXCEPT ![c] = << >>]
    /\ deaf' = deaf \ {c}
    /\ UNCHANGED <<status, kept, log, aborted>>

-----------------------------------------------------------------------------
(* Retained is what may be replayed (web-api.md, Limits and retention).    *)

(* An operation publishes one terminal event and nothing after it, however *)
(* it ends and whether it was cancelled, so that what is kept of an ended  *)
(* operation says how it ended, whatever the limit has dropped (l.543-582).*)
OneTerminalEvent ==
    \A o \in Ops : \A i \in DOMAIN log[o] :
        /\ log[o][i].kind \in Terminal <=> status[o] \in Terminal /\ i = Len(log[o])
        /\ log[o][i].kind \in Terminal => log[o][i].kind = status[o]

(* The limits on memory hold in every order of starting, subscribing and   *)
(* disconnecting (l.494, l.507, l.670).                                    *)
WithinLimits ==
    /\ Len(kept) <= MaxOperations
    /\ \A o \in Ops : Len(log[o]) <= MaxEvents
    /\ Cardinality(AllSubscribers) <= MaxSubscribers
    /\ \A o \in Ops : Cardinality(Subscribers(o)) <= MaxSubscribersPerOperation

(* Replay and live events join without a gap: what is kept of an operation *)
(* and newer than something still on its way to a subscriber is on its way *)
(* as well, in the order of publication (l.495-497, l.682-687).            *)
StreamsMissNothing ==
    \A c \in AllSubscribers : \A i \in DOMAIN queue[c] :
        /\ \A e \in ToSet(log[c[1]]) :
            e.n >= queue[c][i].n => e \in ToSet(queue[c])
        /\ \A j \in 1 .. i - 1 : queue[c][j].n < queue[c][i].n
=============================================================================
