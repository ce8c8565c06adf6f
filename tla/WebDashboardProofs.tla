--------------------------- MODULE WebDashboardProofs ---------------------------
(***************************************************************************)
(* Proofs about WebOperations and WebDashboard, for any number of          *)
(* operations, connections and events and any limits.                      *)
(***************************************************************************)
EXTENDS WebDashboard, FiniteSetTheorems, SequenceTheorems, TLAPS

(***************************************************************************)
(* The history of one operation.                                           *)
(***************************************************************************)

\* Only the newest events stay: a suffix that is not too long.
LEMMA NewestIsSuffix ==
    ASSUME NEW S, NEW events \in Seq(S)
    PROVE  /\ Newest(events) \in Seq(S)
           /\ Len(Newest(events)) <= MaxEvents
           /\ events # << >> => Len(Newest(events)) >= 1
           /\ \E d \in 0 .. Len(events) :
                /\ Len(Newest(events)) = Len(events) - d
                /\ \A i \in 1 .. Len(events) - d : Newest(events)[i] = events[i + d]
<1> DEFINE d == IF Len(events) > MaxEvents THEN Len(events) - MaxEvents ELSE 0
<1>1. MaxEvents \in Nat \ {0} /\ Len(events) \in Nat
    BY WebConstants
<1>2. d \in 0 .. Len(events) /\ Len(events) - d <= MaxEvents
      /\ (Len(events) >= 1 => Len(events) - d >= 1)
    BY <1>1
<1>3. Newest(events) = SubSeq(events, d + 1, Len(events))
    BY <1>1 DEF Newest
<1>4. /\ Newest(events) \in Seq(S) /\ Len(Newest(events)) = Len(events) - d
      /\ \A i \in 1 .. Len(events) - d : Newest(events)[i] = events[i + d]
    <2> HIDE DEF d
    <2>1. \A i \in d + 1 .. Len(events) : events[i] \in S
        BY <1>1, <1>2
    <2> QED
        BY <1>1, <1>2, <1>3, <2>1
<1>5. events # << >> => Len(events) >= 1
    BY <1>1
<1> QED
    BY <1>1, <1>2, <1>4, <1>5

\* The one tick of a history is taken out, and the order stays.
LEMMA WithoutTickProperties ==
    ASSUME NEW events \in Seq(Events), Ordered(events), OneTick(events)
    PROVE  LET rest == WithoutTick(events)
           IN  /\ rest \in Seq(Events) /\ Ordered(rest)
               /\ \A i \in DOMAIN rest : ~IsTick(rest[i])
               /\ \A i \in DOMAIN rest : \E j \in DOMAIN events : rest[i] = events[j]
<1> DEFINE rest == WithoutTick(events)
<1>1. CASE ~\E i \in 1 .. Len(events) : IsTick(events[i])
    <2>1. rest = events
        BY <1>1 DEF WithoutTick, RemoveFirstMatch
    <2> QED
        BY <1>1, <2>1
<1>2. CASE \E i \in 1 .. Len(events) : IsTick(events[i])
    <2>1. PICK k \in 1 .. Len(events) : IsTick(events[k])
        BY <1>2
    <2>2. {i \in 1 .. Len(events) : IsTick(events[i])} = {k}
        BY <2>1 DEF OneTick
    <2>3. Min({k}) = k
        BY <2>1 DEF Min
    <2>4. SelectInSeq(events, IsTick) = k
        BY <2>2, <2>3 DEF SelectInSeq
    <2>5. rest = SubSeq(events, 1, k - 1) \o SubSeq(events, k + 1, Len(events))
        BY <1>2, <2>4 DEF WithoutTick, RemoveFirstMatch, RemoveAt
    <2> DEFINE front == SubSeq(events, 1, k - 1)
               back == SubSeq(events, k + 1, Len(events))
               at(i) == IF i < k THEN i ELSE i + 1
    <2>f. /\ front \in Seq(Events) /\ Len(front) = k - 1
          /\ \A i \in 1 .. k - 1 : front[i] = events[i]
        BY <2>1
    <2>b. /\ back \in Seq(Events) /\ Len(back) = Len(events) - k
          /\ \A i \in 1 .. Len(events) - k : back[i] = events[i + k]
        BY <2>1
    <2>6. /\ rest \in Seq(Events) /\ Len(rest) = Len(events) - 1
          /\ \A i \in 1 .. Len(events) - 1 : rest[i] = events[at(i)]
        <3> HIDE DEF front, back, rest
        <3>1. rest = front \o back
            BY <2>5 DEF front, back
        <3>2. rest \in Seq(Events) /\ Len(rest) = Len(events) - 1
            <4>1. front \o back \in Seq(Events) /\ Len(front \o back) = Len(front) + Len(back)
                BY <2>f, <2>b, ConcatProperties
            <4> QED
                BY <2>1, <2>f, <2>b, <3>1, <4>1
        <3>3. ASSUME NEW i \in 1 .. Len(events) - 1
              PROVE  rest[i] = events[at(i)]
            <4>1. rest[i] = IF i < k THEN front[i] ELSE back[i - (k - 1)]
                BY <2>1, <2>f, <2>b, <3>1
            <4>2. CASE i < k
                BY <4>1, <4>2, <2>f
            <4>3. CASE ~(i < k)
                <5>1. i - (k - 1) \in 1 .. Len(events) - k /\ i - (k - 1) + k = i + 1
                    BY <2>1, <4>3
                <5> QED
                    BY <4>1, <4>3, <5>1, <2>b
            <4> QED
                BY <4>2, <4>3
        <3> QED
            BY <3>2, <3>3
    <2> HIDE DEF rest
    <2>7. Ordered(rest)
        <3> SUFFICES ASSUME NEW i \in 1 .. Len(rest), NEW j \in 1 .. Len(rest), i < j
                     PROVE  rest[i].n < rest[j].n
            BY <2>6 DEF Ordered
        <3>1. at(i) \in DOMAIN events /\ at(j) \in DOMAIN events /\ at(i) < at(j)
            BY <2>1, <2>6
        <3>2. events[at(i)].n < events[at(j)].n
            BY <3>1 DEF Ordered
        <3> QED
            BY <2>6, <3>2
    <2>8. \A i \in DOMAIN rest : ~IsTick(rest[i])
        BY <2>1, <2>6 DEF OneTick
    <2>9. \A i \in DOMAIN rest : \E j \in DOMAIN events : rest[i] = events[j]
        BY <2>1, <2>6
    <2> QED
        BY <2>6, <2>7, <2>8, <2>9 DEF rest
<1> QED
    BY <1>1, <1>2

\* Cutting a history to its newest events keeps what is said of all of them.
LEMMA NewestKeeps ==
    ASSUME NEW events \in Seq(Events), Ordered(events), OneTick(events), events # << >>
    PROVE  LET cut == Newest(events)
           IN  /\ cut \in Seq(Events) /\ Len(cut) \in 1 .. MaxEvents
               /\ Ordered(cut) /\ OneTick(cut)
               /\ \A i \in DOMAIN cut : \E j \in DOMAIN events :
                    cut[i] = events[j] /\ (i = Len(cut) <=> j = Len(events))
<1> DEFINE cut == Newest(events)
<1>1. /\ cut \in Seq(Events) /\ Len(cut) \in 1 .. MaxEvents
    BY NewestIsSuffix, WebConstants
<1>2. PICK d \in 0 .. Len(events) :
        /\ Len(cut) = Len(events) - d
        /\ \A i \in 1 .. Len(events) - d : cut[i] = events[i + d]
    BY NewestIsSuffix
<1> HIDE DEF cut
<1>3. \A i \in DOMAIN cut : i + d \in DOMAIN events /\ cut[i] = events[i + d]
    BY <1>1, <1>2
<1>4. Ordered(cut)
    <2> SUFFICES ASSUME NEW i \in DOMAIN cut, NEW j \in DOMAIN cut, i < j
                 PROVE  cut[i].n < cut[j].n
        BY DEF Ordered
    <2>1. i + d < j + d
        BY <1>1
    <2> QED
        BY <1>3, <2>1 DEF Ordered
<1>5. OneTick(cut)
    <2> SUFFICES ASSUME NEW i \in DOMAIN cut, NEW j \in DOMAIN cut,
                        IsTick(cut[i]), IsTick(cut[j])
                 PROVE  i = j
        BY DEF OneTick
    <2>1. i + d = j + d
        BY <1>3 DEF OneTick
    <2> QED
        BY <1>1, <2>1
<1>6. ASSUME NEW i \in DOMAIN cut
      PROVE  \E j \in DOMAIN events : cut[i] = events[j] /\ (i = Len(cut) <=> j = Len(events))
    <2>1. i = Len(cut) <=> i + d = Len(events)
        BY <1>1, <1>2
    <2> QED
        BY <1>3, <2>1
<1> QED
    BY <1>1, <1>4, <1>5, <1>6 DEF cut

\* Events numbered from p on, behind events numbered up to p.
LEMMA JoinProperties ==
    ASSUME NEW base \in Seq(Events), NEW new \in Seq(Events), NEW p \in Nat, Ordered(base),
           \A i \in DOMAIN base : base[i].n <= p,
           \A i \in DOMAIN new : new[i].n = p + i
    PROVE  LET all == base \o new
           IN  /\ all \in Seq(Events) /\ Len(all) = Len(base) + Len(new) /\ Ordered(all)
               /\ \A i \in DOMAIN all :
                    \/ i <= Len(base) /\ i \in DOMAIN base /\ all[i] = base[i]
                    \/ /\ i > Len(base) /\ i - Len(base) \in DOMAIN new
                       /\ all[i] = new[i - Len(base)]
               /\ \A i \in DOMAIN base : i \in DOMAIN all /\ all[i] = base[i]
               /\ \A i \in DOMAIN new : /\ Len(base) + i \in DOMAIN all
                                        /\ all[Len(base) + i] = new[i]
<1> DEFINE all == base \o new
<1>1. /\ all \in Seq(Events) /\ Len(all) = Len(base) + Len(new)
      /\ \A i \in 1 .. Len(base) + Len(new) :
            all[i] = IF i <= Len(base) THEN base[i] ELSE new[i - Len(base)]
    BY ConcatProperties, Zenon
<1> HIDE DEF all
<1>2. /\ Len(base) \in Nat /\ Len(new) \in Nat /\ Len(all) \in Nat
      /\ DOMAIN base = 1 .. Len(base) /\ DOMAIN new = 1 .. Len(new) /\ DOMAIN all = 1 .. Len(all)
    BY <1>1
<1>3. ASSUME NEW i \in DOMAIN base PROVE i \in DOMAIN all /\ all[i] = base[i]
    BY <1>1, <1>2
<1>4. ASSUME NEW i \in DOMAIN new
      PROVE  Len(base) + i \in DOMAIN all /\ all[Len(base) + i] = new[i]
    <2>1. Len(base) + i \in 1 .. Len(base) + Len(new) /\ ~(Len(base) + i <= Len(base))
        BY <1>2
    <2>2. (Len(base) + i) - Len(base) = i
        BY <1>2
    <2> QED
        BY <1>1, <1>2, <2>1, <2>2
<1>5. ASSUME NEW i \in DOMAIN all
      PROVE  \/ i <= Len(base) /\ i \in DOMAIN base /\ all[i] = base[i]
             \/ /\ i > Len(base) /\ i - Len(base) \in DOMAIN new
                /\ all[i] = new[i - Len(base)]
    BY <1>1, <1>2
<1>6. \A i \in DOMAIN base : base[i].n \in Nat
    <2> SUFFICES ASSUME NEW i \in DOMAIN base PROVE base[i].n \in Nat
        OBVIOUS
    <2>1. base[i] \in Events
        BY <1>2
    <2> QED
        BY <2>1 DEF Events
<1>7. Ordered(all)
    <2> SUFFICES ASSUME NEW i \in DOMAIN all, NEW j \in DOMAIN all, i < j
                 PROVE  all[i].n < all[j].n
        BY DEF Ordered
    <2>1. CASE j <= Len(base)
        <3>1. i <= Len(base)
            BY <1>2, <2>1
        <3>2. i \in DOMAIN base /\ j \in DOMAIN base /\ all[i] = base[i] /\ all[j] = base[j]
            BY <1>2, <1>5, <2>1, <3>1
        <3> QED
            BY <3>2 DEF Ordered
    <2>2. CASE i <= Len(base) /\ ~(j <= Len(base))
        <3>1. i \in DOMAIN base /\ all[i] = base[i]
            BY <1>2, <1>5, <2>2
        <3>2. j - Len(base) \in DOMAIN new /\ all[j] = new[j - Len(base)]
            BY <1>2, <1>5, <2>2
        <3>3. all[i].n \in Nat /\ all[i].n <= p /\ all[j].n = p + (j - Len(base))
            BY <1>6, <3>1, <3>2
        <3> QED
            BY <1>2, <2>2, <3>3
    <2>3. CASE ~(i <= Len(base))
        <3>1. i - Len(base) \in DOMAIN new /\ all[i] = new[i - Len(base)]
            BY <1>2, <1>5, <2>3
        <3>2. j - Len(base) \in DOMAIN new /\ all[j] = new[j - Len(base)]
            BY <1>2, <1>5, <2>3
        <3>3. all[i].n = p + (i - Len(base)) /\ all[j].n = p + (j - Len(base))
            BY <3>1, <3>2
        <3> QED
            BY <1>2, <3>3
    <2> QED
        BY <2>1, <2>2, <2>3
<1> QED
    BY <1>1, <1>3, <1>4, <1>5, <1>7 DEF all

(***************************************************************************)
(* Publishing.                                                             *)
(***************************************************************************)

Batches == {<<"step">>, <<"tick">>, <<"completed">>, <<"failed">>, <<"step", "failed">>}

\* The new events are numbered from the last one on.
LEMMA NewEventsProperties ==
    ASSUME WebTypes, LogInv, NEW o \in Ops, status[o] # "none", NEW kinds \in Batches
    PROVE  LET new == NewEvents(o, kinds)
           IN  /\ Published(o) \in Nat \ {0} /\ Published(o) = log[o][Len(log[o])].n
               /\ \A i \in DOMAIN log[o] : log[o][i].n <= Published(o)
               /\ new \in Seq(Events) /\ Len(new) = Len(kinds) /\ Len(new) \in {1, 2}
               /\ \A i \in DOMAIN new :
                    new[i].n = Published(o) + i /\ new[i].kind = kinds[i]
<1> DEFINE new == NewEvents(o, kinds)
<1>1. /\ log[o] \in Seq(Events) /\ log[o] # << >> /\ Ordered(log[o])
    BY DEF WebTypes, LogInv
<1>2. Len(log[o]) \in Nat \ {0} /\ log[o][Len(log[o])] \in Events
    BY <1>1
<1>3. Published(o) = log[o][Len(log[o])].n /\ Published(o) \in Nat \ {0}
    BY <1>1, <1>2 DEF Published, Last, Events
<1>4. \A i \in DOMAIN log[o] : log[o][i].n <= Published(o)
    <2> SUFFICES ASSUME NEW i \in DOMAIN log[o] PROVE log[o][i].n <= Published(o)
        OBVIOUS
    <2>0. i \in 1 .. Len(log[o]) /\ log[o][i] \in Events
        BY <1>1
    <2>1. i \in 1 .. Len(log[o]) /\ log[o][i].n \in Nat
        BY <2>0 DEF Events
    <2>2. CASE i = Len(log[o])
        BY <1>3, <2>1, <2>2
    <2>3. CASE i < Len(log[o])
        BY <1>1, <1>2, <1>3, <2>1, <2>3 DEF Ordered
    <2> QED
        BY <1>2, <2>1, <2>2, <2>3
<1>5. /\ DOMAIN kinds = 1 .. Len(kinds) /\ Len(kinds) \in {1, 2}
      /\ \A i \in DOMAIN kinds : kinds[i] \in Kinds
    BY DEF Batches, Kinds, Terminal
<1>6. /\ DOMAIN new = 1 .. Len(kinds)
      /\ \A i \in 1 .. Len(kinds) : new[i] = [n |-> Published(o) + i, kind |-> kinds[i]]
    BY <1>5 DEF NewEvents, Event
<1>7. \A i \in 1 .. Len(kinds) : new[i] \in Events
    BY <1>3, <1>5, <1>6 DEF Events
<1> HIDE DEF new
<1>8. new \in Seq(Events) /\ Len(new) = Len(kinds)
    <2>0. Len(kinds) \in Nat
        BY <1>5
    <2>1. new = [i \in 1 .. Len(kinds) |-> new[i]]
        BY <1>6 DEF new, NewEvents
    <2>2. new \in [1 .. Len(kinds) -> Events]
        BY <1>7, <2>1
    <2> QED
        BY <2>0, <2>2
<1> QED
    BY <1>3, <1>4, <1>5, <1>6, <1>8 DEF new

\* What is kept of an operation after a batch.
Recorded(o, kinds) ==
    Newest((IF kinds = <<"tick">> THEN WithoutTick(log[o]) ELSE log[o]) \o NewEvents(o, kinds))

LEMMA RecordedProperties ==
    ASSUME WebTypes, LogInv, NEW o \in Ops, status[o] = "running", NEW kinds \in Batches
    PROVE  LET new == NewEvents(o, kinds)
               cut == Recorded(o, kinds)
           IN  /\ cut \in Seq(Events) /\ Len(cut) \in 1 .. MaxEvents
               /\ Ordered(cut) /\ OneTick(cut)
               /\ cut[Len(cut)] = new[Len(new)]
               /\ \A i \in DOMAIN cut : \/ \E j \in DOMAIN log[o] : cut[i] = log[o][j]
                                        \/ \E j \in DOMAIN new : cut[i] = new[j]
               /\ \A i \in DOMAIN cut :
                    cut[i].kind \in Terminal <=> i = Len(cut) /\ kinds[Len(kinds)] \in Terminal
<1> DEFINE new == NewEvents(o, kinds)
           base == IF kinds = <<"tick">> THEN WithoutTick(log[o]) ELSE log[o]
           all == base \o new
           cut == Newest(all)
<1>1. /\ log[o] \in Seq(Events) /\ Ordered(log[o]) /\ OneTick(log[o])
      /\ \A i \in DOMAIN log[o] : log[o][i].kind \notin Terminal
    BY DEF WebTypes, LogInv, OneTerminalEvent, Terminal
<1>2. /\ Published(o) \in Nat \ {0}
      /\ \A i \in DOMAIN log[o] : log[o][i].n <= Published(o)
      /\ new \in Seq(Events) /\ Len(new) = Len(kinds) /\ Len(new) \in {1, 2}
      /\ \A i \in DOMAIN new : new[i].n = Published(o) + i /\ new[i].kind = kinds[i]
    BY NewEventsProperties
<1>3. /\ base \in Seq(Events) /\ Ordered(base) /\ OneTick(base)
      /\ \A i \in DOMAIN base : \E j \in DOMAIN log[o] : base[i] = log[o][j]
      /\ kinds = <<"tick">> => \A i \in DOMAIN base : ~IsTick(base[i])
    <2>1. CASE kinds = <<"tick">>
        <3>1. base = WithoutTick(log[o])
            BY <2>1
        <3> QED
            BY <1>1, <2>1, <3>1, WithoutTickProperties DEF OneTick
    <2>2. CASE kinds # <<"tick">>
        BY <1>1, <2>2
    <2> QED
        BY <2>1, <2>2
<1> HIDE DEF base, new
<1>s. \A i \in DOMAIN base : base[i].n <= Published(o) /\ base[i].kind \notin Terminal
    BY <1>1, <1>2, <1>3
<1>4. /\ all \in Seq(Events) /\ Len(all) = Len(base) + Len(new) /\ Ordered(all)
      /\ \A i \in DOMAIN all :
            \/ i <= Len(base) /\ i \in DOMAIN base /\ all[i] = base[i]
            \/ i > Len(base) /\ i - Len(base) \in DOMAIN new /\ all[i] = new[i - Len(base)]
    <2>1. /\ base \in Seq(Events) /\ new \in Seq(Events) /\ Published(o) \in Nat
          /\ Ordered(base) /\ \A i \in DOMAIN base : base[i].n <= Published(o)
          /\ \A i \in DOMAIN new : new[i].n = Published(o) + i
        BY <1>2, <1>3, <1>s
    <2> QED
        BY <2>1, JoinProperties, Zenon
<1> HIDE DEF all
<1>5. /\ Len(base) \in Nat /\ Len(all) \in Nat
      /\ DOMAIN base = 1 .. Len(base) /\ DOMAIN new = 1 .. Len(new) /\ DOMAIN all = 1 .. Len(all)
    BY <1>2, <1>3, <1>4
\* A position of `all` is one of `base` or one of `new`.
<1>b. ASSUME NEW i \in DOMAIN all, i <= Len(base)
      PROVE  /\ i \in DOMAIN base /\ all[i] = base[i] /\ i < Len(all)
             /\ all[i].kind \notin Terminal
    BY <1>2, <1>4, <1>5, <1>b, <1>s
<1>n. ASSUME NEW i \in DOMAIN all, ~(i <= Len(base))
      PROVE  /\ i - Len(base) \in DOMAIN new /\ all[i] = new[i - Len(base)]
             /\ all[i].kind = kinds[i - Len(base)]
    <2>1. i - Len(base) \in DOMAIN new /\ all[i] = new[i - Len(base)]
        BY <1>4, <1>5, <1>n
    <2> QED
        BY <1>2, <2>1
<1>6. all # << >> /\ Ordered(all)
    BY <1>2, <1>4, <1>5
<1>7. OneTick(all)
    <2> SUFFICES ASSUME NEW i \in DOMAIN all, NEW j \in DOMAIN all,
                        IsTick(all[i]), IsTick(all[j])
                 PROVE  i = j
        BY DEF OneTick
    <2>1. CASE kinds = <<"tick">>
        <3>1. Len(new) = 1 /\ ~(i <= Len(base)) /\ ~(j <= Len(base))
            BY <1>2, <1>3, <1>b, <2>1
        <3>2. i - Len(base) = 1 /\ j - Len(base) = 1
            BY <1>5, <1>n, <3>1
        <3> QED
            BY <1>5, <3>2
    <2>2. CASE kinds # <<"tick">>
        <3>1. \A k \in DOMAIN new : kinds[k] # "tick"
            BY <1>2, <1>5, <2>2 DEF Batches
        <3>2. i <= Len(base) /\ j <= Len(base)
            BY <1>n, <3>1 DEF IsTick
        <3> QED
            BY <1>3, <1>b, <3>2 DEF OneTick
    <2> QED
        BY <2>1, <2>2
<1>8. \A i \in DOMAIN all :
         all[i].kind \in Terminal <=> i = Len(all) /\ kinds[Len(kinds)] \in Terminal
    <2> SUFFICES ASSUME NEW i \in DOMAIN all
                 PROVE  all[i].kind \in Terminal <=> i = Len(all) /\ kinds[Len(kinds)] \in Terminal
        OBVIOUS
    <2>1. CASE i <= Len(base)
        BY <1>5, <1>b, <2>1
    <2>2. CASE ~(i <= Len(base))
        <3>1. \A k \in DOMAIN new :
                 kinds[k] \in Terminal <=> k = Len(new) /\ kinds[Len(kinds)] \in Terminal
            BY <1>2, <1>5 DEF Batches, Terminal
        <3>2. i = Len(all) <=> i - Len(base) = Len(new)
            BY <1>2, <1>4, <1>5
        <3> QED
            BY <1>n, <2>2, <3>1, <3>2
    <2> QED
        BY <2>1, <2>2
<1>9. \A i \in DOMAIN all :
        \/ \E j \in DOMAIN log[o] : all[i] = log[o][j]
        \/ \E j \in DOMAIN new : all[i] = new[j]
    BY <1>3, <1>b, <1>n
<1>10. /\ cut \in Seq(Events) /\ Len(cut) \in 1 .. MaxEvents
       /\ Ordered(cut) /\ OneTick(cut)
       /\ \A i \in DOMAIN cut : \E j \in DOMAIN all :
            cut[i] = all[j] /\ (i = Len(cut) <=> j = Len(all))
    BY <1>4, <1>6, <1>7, NewestKeeps
<1> HIDE DEF cut
<1>11. all[Len(all)] = new[Len(new)]
    <2>1. Len(all) \in DOMAIN all /\ ~(Len(all) <= Len(base)) /\ Len(all) - Len(base) = Len(new)
        BY <1>2, <1>4, <1>5
    <2> QED
        BY <1>n, <2>1
<1>12. cut[Len(cut)] = new[Len(new)]
    <2>1. Len(cut) \in DOMAIN cut
        BY <1>10
    <2> QED
        BY <1>10, <1>11, <2>1
<1>13. \A i \in DOMAIN cut :
         \/ \E j \in DOMAIN log[o] : cut[i] = log[o][j]
         \/ \E j \in DOMAIN new : cut[i] = new[j]
    BY <1>9, <1>10
<1>14. \A i \in DOMAIN cut :
          cut[i].kind \in Terminal <=> i = Len(cut) /\ kinds[Len(kinds)] \in Terminal
    BY <1>8, <1>10
<1>15. cut = Recorded(o, kinds) /\ new = NewEvents(o, kinds)
    BY DEF cut, all, base, new, Recorded
<1> QED
    BY <1>10, <1>12, <1>13, <1>14, <1>15

\* A batch keeps the invariant, when the operation ends with its last event or
\* not at all.
LEMMA PublishStep ==
    ASSUME WebTypes, LogInv, QueueInv, LimitInv,
           NEW o \in Ops, status[o] = "running", NEW kinds \in Batches, PublishAll(o, kinds),
           status' = IF kinds[Len(kinds)] \in Terminal
                     THEN [status EXCEPT ![o] = kinds[Len(kinds)]] ELSE status,
           UNCHANGED <<kept, conn, deaf>>
    PROVE  /\ status' \in [Ops -> States] /\ log' \in [Ops -> Seq(Events)]
           /\ queue' \in [Connections -> Seq(Events)]
           /\ LogInv' /\ QueueInv' /\ LimitInv'
<1> DEFINE new == NewEvents(o, kinds)
           last == kinds[Len(kinds)]
           subs == Subscribers(o) \ deaf
<1>1. /\ log' = [log EXCEPT ![o] = Recorded(o, kinds)]
      /\ queue' = [c \in Connections |-> IF c \in subs THEN queue[c] \o new ELSE queue[c]]
    BY DEF PublishAll, Recorded
<1>2. /\ log'[o] \in Seq(Events) /\ Len(log'[o]) \in 1 .. MaxEvents
      /\ Ordered(log'[o]) /\ OneTick(log'[o])
      /\ log'[o][Len(log'[o])] = new[Len(new)]
      /\ \A i \in DOMAIN log'[o] : \/ \E j \in DOMAIN log[o] : log'[o][i] = log[o][j]
                                   \/ \E j \in DOMAIN new : log'[o][i] = new[j]
      /\ \A i \in DOMAIN log'[o] :
            log'[o][i].kind \in Terminal <=> i = Len(log'[o]) /\ last \in Terminal
    <2>1. log'[o] = Recorded(o, kinds)
        BY <1>1 DEF WebTypes
    <2> QED
        BY <2>1, RecordedProperties
<1>3. \A p \in Ops \ {o} : log'[p] = log[p] /\ status'[p] = status[p]
    BY <1>1 DEF WebTypes
<1>4. /\ Published(o) \in Nat \ {0}
      /\ \A i \in DOMAIN log[o] : log[o][i].n <= Published(o)
      /\ new \in Seq(Events) /\ Len(new) = Len(kinds) /\ Len(new) \in {1, 2}
      /\ \A i \in DOMAIN new : new[i].n = Published(o) + i /\ new[i].kind = kinds[i]
    BY NewEventsProperties
<1>5. status'[o] = IF last \in Terminal THEN last ELSE "running"
    BY DEF WebTypes
<1> HIDE DEF new, last, subs
<1>6. Published(o)' = Published(o) + Len(new)
    <2>1. Published(o)' = log'[o][Len(log'[o])].n
        BY <1>2 DEF Published, Last
    <2>2. Len(new) \in DOMAIN new
        BY <1>4
    <2> QED
        BY <1>2, <1>4, <2>1, <2>2
<1>7. \A p \in Ops \ {o} : Published(p)' = Published(p)
    BY <1>3 DEF Published
<1>8. status' \in [Ops -> States] /\ log' \in [Ops -> Seq(Events)]
    BY <1>1, <1>2 DEF WebTypes, States
<1>9. LogInv'
    <2>1. \A p \in Ops : /\ (status[p] = "none" <=> log[p] = << >>)'
                         /\ Ordered(log'[p]) /\ OneTick(log'[p])
        BY <1>2, <1>3, <1>5 DEF LogInv, Terminal
    <2>2. OneTerminalEvent'
        <3> SUFFICES ASSUME NEW p \in Ops, NEW i \in DOMAIN log'[p]
                     PROVE  /\ log'[p][i].kind \in Terminal <=>
                                 status'[p] \in Terminal /\ i = Len(log'[p])
                            /\ log'[p][i].kind \in Terminal => log'[p][i].kind = status'[p]
            BY DEF OneTerminalEvent
        <3>1. CASE p # o
            BY <1>3, <3>1 DEF LogInv, OneTerminalEvent
        <3>2. CASE p = o
            <4>1. new[Len(new)].kind = last
                BY <1>4 DEF last
            <4> QED
                BY <1>2, <1>5, <3>2, <4>1 DEF Terminal
        <3> QED
            BY <3>1, <3>2
    <2> QED
        BY <2>1, <2>2 DEF LogInv, Ordered, OneTick, IsTick
\* Of a connection that is written to, and of the others.
<1>10. ASSUME NEW c \in Connections, c \in subs
       PROVE  /\ c[1] = o /\ queue'[c] = queue[c] \o new
              /\ queue'[c] \in Seq(Events) /\ Ordered(queue'[c])
              /\ \A i \in DOMAIN queue'[c] :
                    \/ i \in DOMAIN queue[c] /\ queue'[c][i] = queue[c][i]
                    \/ \E j \in DOMAIN new : queue'[c][i] = new[j]
              /\ \A i \in DOMAIN queue[c] : i \in DOMAIN queue'[c] /\ queue'[c][i] = queue[c][i]
              /\ \A j \in DOMAIN new : \E i \in DOMAIN queue'[c] : queue'[c][i] = new[j]
    <2>1. c[1] = o /\ queue'[c] = queue[c] \o new
        BY <1>1, <1>10 DEF subs, Subscribers
    <2>2. /\ queue[c] \in Seq(Events) /\ new \in Seq(Events) /\ Published(o) \in Nat
          /\ Ordered(queue[c]) /\ \A i \in DOMAIN queue[c] : queue[c][i].n <= Published(o)
          /\ \A i \in DOMAIN new : new[i].n = Published(o) + i
        BY <1>4, <2>1 DEF WebTypes, QueueInv
    <2>3. /\ queue'[c] \in Seq(Events) /\ Ordered(queue'[c])
          /\ \A i \in DOMAIN queue'[c] :
                \/ i <= Len(queue[c]) /\ i \in DOMAIN queue[c] /\ queue'[c][i] = queue[c][i]
                \/ /\ i > Len(queue[c]) /\ i - Len(queue[c]) \in DOMAIN new
                   /\ queue'[c][i] = new[i - Len(queue[c])]
          /\ \A i \in DOMAIN queue[c] : i \in DOMAIN queue'[c] /\ queue'[c][i] = queue[c][i]
          /\ \A i \in DOMAIN new : /\ Len(queue[c]) + i \in DOMAIN queue'[c]
                                   /\ queue'[c][Len(queue[c]) + i] = new[i]
        <3> DEFINE q == queue[c] \o new
        <3>1. /\ q \in Seq(Events) /\ Ordered(q)
              /\ \A i \in DOMAIN q :
                    \/ i <= Len(queue[c]) /\ i \in DOMAIN queue[c] /\ q[i] = queue[c][i]
                    \/ /\ i > Len(queue[c]) /\ i - Len(queue[c]) \in DOMAIN new
                       /\ q[i] = new[i - Len(queue[c])]
              /\ \A i \in DOMAIN queue[c] : i \in DOMAIN q /\ q[i] = queue[c][i]
              /\ \A i \in DOMAIN new : Len(queue[c]) + i \in DOMAIN q /\ q[Len(queue[c]) + i] = new[i]
            BY <2>2, JoinProperties, Zenon
        <3>2. queue'[c] = q
            BY <2>1
        <3> HIDE DEF q
        <3> QED
            BY <3>1, <3>2
    <2> QED
        BY <2>1, <2>3
<1>11. ASSUME NEW c \in Connections, c \notin subs PROVE queue'[c] = queue[c]
    BY <1>1, <1>11
<1>12. queue' \in [Connections -> Seq(Events)]
    BY <1>1, <1>10, <1>11 DEF WebTypes
<1>13. ASSUME NEW c \in Connections
       PROVE  /\ Ordered(queue'[c])
              /\ \A i \in DOMAIN queue'[c] :
                    /\ queue'[c][i].n <= Published(c[1])'
                    /\ queue'[c][i].kind \in Terminal => queue'[c][i].kind = status'[c[1]]
              /\ c \in deaf' => queue'[c] = << >>
    <2>1. c[1] \in Ops
        BY DEF Connections
    <2>2. \A i \in DOMAIN queue[c] :
            /\ queue[c][i].n \in Nat /\ queue[c][i].n <= Published(c[1])'
            /\ queue[c][i].kind \in Terminal => queue[c][i].kind = status'[c[1]]
        <3> SUFFICES ASSUME NEW i \in DOMAIN queue[c]
                     PROVE  /\ queue[c][i].n \in Nat /\ queue[c][i].n <= Published(c[1])'
                            /\ queue[c][i].kind \in Terminal => queue[c][i].kind = status'[c[1]]
            OBVIOUS
        <3>1. queue[c][i] \in Events
            BY DEF WebTypes
        <3>2. /\ queue[c][i].n \in Nat /\ queue[c][i].n <= Published(c[1])
              /\ queue[c][i].kind \in Terminal => queue[c][i].kind = status[c[1]]
            BY <3>1 DEF QueueInv, Events
        <3>3. CASE c[1] = o
            BY <1>4, <1>6, <3>2, <3>3 DEF Terminal
        <3>4. CASE c[1] # o
            BY <1>3, <1>7, <2>1, <3>2, <3>4
        <3> QED
            BY <3>3, <3>4
    <2>3. CASE c \in subs
        <3>1. \A j \in DOMAIN new : /\ new[j].n <= Published(o)'
                                    /\ new[j].kind \in Terminal => new[j].kind = status'[o]
            <4> SUFFICES ASSUME NEW j \in DOMAIN new
                         PROVE  /\ new[j].n <= Published(o)'
                                /\ new[j].kind \in Terminal => new[j].kind = status'[o]
                OBVIOUS
            <4>1. j \in 1 .. Len(new) /\ new[j].n = Published(o) + j /\ new[j].kind = kinds[j]
                BY <1>4
            <4>2. kinds[j] \in Terminal => kinds[j] = last /\ last \in Terminal
                BY <1>4, <4>1 DEF last, Batches, Terminal
            <4> QED
                BY <1>4, <1>5, <1>6, <4>1, <4>2
        <3>2. c \notin deaf'
            BY <2>3 DEF subs
        <3>3. /\ c[1] = o /\ Ordered(queue'[c])
              /\ \A i \in DOMAIN queue'[c] :
                    \/ i \in DOMAIN queue[c] /\ queue'[c][i] = queue[c][i]
                    \/ \E j \in DOMAIN new : queue'[c][i] = new[j]
            BY <1>10, <2>3
        <3>4. ASSUME NEW i \in DOMAIN queue'[c]
              PROVE  /\ queue'[c][i].n <= Published(c[1])'
                     /\ queue'[c][i].kind \in Terminal => queue'[c][i].kind = status'[c[1]]
            <4>1. CASE i \in DOMAIN queue[c] /\ queue'[c][i] = queue[c][i]
                BY <2>2, <4>1
            <4>2. CASE \E j \in DOMAIN new : queue'[c][i] = new[j]
                <5>1. Published(c[1])' = Published(o)'
                    BY <3>3 DEF Published
                <5> QED
                    BY <3>1, <3>3, <4>2, <5>1
            <4> QED
                BY <3>3, <4>1, <4>2
        <3> QED
            BY <3>2, <3>3, <3>4
    <2>4. CASE c \notin subs
        BY <1>11, <2>2, <2>4 DEF QueueInv
    <2> QED
        BY <2>3, <2>4
<1>14. StreamsMissNothing'
    <2> SUFFICES ASSUME NEW c \in AllSubscribers', NEW i \in DOMAIN queue'[c]
                 PROVE  /\ \A e \in ToSet(log'[c[1]]) :
                            e.n >= queue'[c][i].n => e \in ToSet(queue'[c])
                        /\ \A j \in 1 .. i - 1 : queue'[c][j].n < queue'[c][i].n
        BY DEF StreamsMissNothing
    <2>1. c \in Connections /\ c \in AllSubscribers /\ c[1] \in Ops
        BY DEF AllSubscribers, Connections
    <2>2. queue'[c] \in Seq(Events) /\ i \in 1 .. Len(queue'[c])
        BY <1>12, <2>1
    <2>3. \A j \in 1 .. i - 1 : queue'[c][j].n < queue'[c][i].n
        BY <1>13, <2>1, <2>2 DEF Ordered
    <2>4. ASSUME NEW k \in DOMAIN log'[c[1]], log'[c[1]][k].n >= queue'[c][i].n
          PROVE  \E j \in DOMAIN queue'[c] : log'[c[1]][k] = queue'[c][j]
        <3>1. CASE c \notin subs
            <4>1. queue'[c] = queue[c] /\ log'[c[1]] = log[c[1]]
                <5>1. CASE c[1] = o
                    <6>1. c \in deaf /\ queue[c] = << >>
                        BY <2>1, <3>1, <5>1 DEF subs, Subscribers, AllSubscribers, QueueInv
                    <6>2. queue'[c] = << >>
                        BY <1>11, <2>1, <3>1, <6>1
                    <6> QED
                        BY <2>2, <6>2
                <5>2. CASE c[1] # o
                    BY <1>3, <1>11, <2>1, <3>1, <5>2
                <5> QED
                    BY <5>1, <5>2
            <4>2. log[c[1]][k] \in ToSet(log[c[1]]) /\ log[c[1]][k].n >= queue[c][i].n
                BY <2>4, <4>1 DEF ToSet
            <4>3. log[c[1]][k] \in ToSet(queue[c])
                BY <2>1, <4>1, <4>2 DEF QueueInv, StreamsMissNothing
            <4> QED
                BY <4>1, <4>3 DEF ToSet
        <3>2. CASE c \in subs
            <4>1. c[1] = o
                BY <1>10, <2>1, <3>2
            <4>2. CASE \E j \in DOMAIN new : log'[o][k] = new[j]
                BY <1>10, <2>1, <3>2, <4>1, <4>2
            <4>3. CASE \E j \in DOMAIN log[o] : log'[o][k] = log[o][j]
                <5>1. PICK j \in DOMAIN log[o] : log'[o][k] = log[o][j]
                    BY <4>3
                <5>2. log[o][j] \in Events /\ log[o][j].n <= Published(o)
                    BY <1>4 DEF WebTypes
                <5>3. i \in DOMAIN queue[c] /\ queue'[c][i] = queue[c][i]
                    <6>1. ASSUME NEW m \in DOMAIN new, queue'[c][i] = new[m] PROVE FALSE
                        <7>1. m \in 1 .. Len(new) /\ queue'[c][i].n = Published(o) + m
                            BY <1>4, <6>1
                        <7> QED
                            BY <1>4, <2>4, <4>1, <5>1, <5>2, <7>1 DEF Events
                    <6> QED
                        BY <1>10, <2>1, <3>2, <6>1
                <5>4. log[o][j] \in ToSet(log[o]) /\ log[o][j].n >= queue[c][i].n
                    BY <2>4, <4>1, <5>1, <5>3 DEF ToSet
                <5>5. log[o][j] \in ToSet(queue[c])
                    BY <2>1, <4>1, <5>3, <5>4 DEF QueueInv, StreamsMissNothing
                <5>6. PICK m \in DOMAIN queue[c] : log[o][j] = queue[c][m]
                    BY <5>5 DEF ToSet
                <5> QED
                    BY <1>10, <2>1, <3>2, <4>1, <5>1, <5>6
            <4> QED
                BY <1>2, <2>4, <4>1, <4>2, <4>3
        <3> QED
            BY <3>1, <3>2
    <2> QED
        BY <2>3, <2>4 DEF ToSet
<1>15. QueueInv'
    BY <1>13, <1>14 DEF QueueInv, Ordered
<1>16. LimitInv'
    <2>1. AllSubscribers' = AllSubscribers /\ \A p \in Ops : Subscribers(p)' = Subscribers(p)
        BY DEF AllSubscribers, Subscribers
    <2>2. \A p \in Ops : Len(log'[p]) <= MaxEvents
        BY <1>2, <1>3 DEF LimitInv, WithinLimits
    <2> QED
        BY <2>1, <2>2 DEF LimitInv, WithinLimits
<1> QED
    BY <1>8, <1>9, <1>12, <1>15, <1>16

(***************************************************************************)
(* The handlers of the server.                                             *)
(***************************************************************************)

\* Nothing that is kept is newer than what was published last.
LEMMA PublishedIsNewest ==
    ASSUME WebTypes, LogInv, NEW o \in Ops
    PROVE  /\ Published(o) \in Nat
           /\ \A i \in DOMAIN log[o] : log[o][i].n <= Published(o)
<1>1. log[o] \in Seq(Events) /\ Ordered(log[o])
    BY DEF WebTypes, LogInv
<1>2. CASE log[o] = << >>
    BY <1>2 DEF Published
<1>3. CASE log[o] # << >>
    <2>1. Len(log[o]) \in DOMAIN log[o]
        BY <1>1, <1>3
    <2>2. Published(o) = log[o][Len(log[o])].n
        BY <1>3 DEF Published, Last
    <2>3. \A i \in DOMAIN log[o] : log[o][i].n \in Nat
        <3>1. \A i \in DOMAIN log[o] : log[o][i] \in Events
            BY <1>1
        <3> QED
            BY <3>1 DEF Events
    <2>4. \A i \in DOMAIN log[o] : i < Len(log[o]) \/ i = Len(log[o])
        BY <1>1
    <2>5. \A i \in DOMAIN log[o] : i < Len(log[o]) => log[o][i].n < log[o][Len(log[o])].n
        BY <1>1, <2>1 DEF Ordered
    <2> QED
        BY <2>1, <2>2, <2>3, <2>4, <2>5
<1> QED
    BY <1>2, <1>3

\* The limits hold on when no stream is opened.
LEMMA FewerSubscribers ==
    ASSUME LimitInv,
           \A c \in Connections : conn'[c] = "open" => conn[c] = "open",
           Len(kept') <= MaxOperations, \A o \in Ops : Len(log'[o]) <= MaxEvents
    PROVE  LimitInv'
<1>1. /\ IsFiniteSet(AllSubscribers) /\ AllSubscribers' \subseteq AllSubscribers
      /\ \A o \in Ops : /\ Subscribers(o) \subseteq AllSubscribers
                        /\ Subscribers(o)' \subseteq Subscribers(o)
    BY DEF LimitInv, AllSubscribers, Subscribers
<1>2. /\ IsFiniteSet(AllSubscribers') /\ Cardinality(AllSubscribers') \in Nat
      /\ Cardinality(AllSubscribers) \in Nat
      /\ Cardinality(AllSubscribers') <= Cardinality(AllSubscribers)
    BY <1>1, FS_Subset, FS_CardinalityType
<1>3. \A o \in Ops : Cardinality(Subscribers(o)') <= MaxSubscribersPerOperation
    <2> TAKE o \in Ops
    <2>1. IsFiniteSet(Subscribers(o))
        BY <1>1, FS_Subset
    <2>2. /\ Cardinality(Subscribers(o)') \in Nat /\ Cardinality(Subscribers(o)) \in Nat
          /\ Cardinality(Subscribers(o)') <= Cardinality(Subscribers(o))
        BY <1>1, <2>1, FS_Subset, FS_CardinalityType
    <2> QED
        BY <2>2, WebConstants DEF LimitInv, WithinLimits
<1> QED
    BY <1>2, <1>3, WebConstants DEF LimitInv, WithinLimits

LEMMA ServerUnchanged ==
    ASSUME WebInv, UNCHANGED <<status, kept, log, streamVars>>
    PROVE  LogInv' /\ QueueInv' /\ LimitInv'
<1> USE DEF streamVars
<1>1. LogInv'
    BY DEF WebInv, LogInv, OneTerminalEvent, Ordered, OneTick, IsTick
<1>2. QueueInv'
    BY DEF WebInv, QueueInv, StreamsMissNothing, Ordered, Published, AllSubscribers
<1>3. LimitInv'
    BY DEF WebInv, LimitInv, WithinLimits, AllSubscribers, Subscribers
<1> QED
    BY <1>1, <1>2, <1>3

LEMMA EmitKeepsWebInv ==
    ASSUME WebInv, NEW o \in Ops, Emit(o), UNCHANGED clientVars
    PROVE  WebInv'
<1>1. PICK kind \in {"step", "tick"} : PublishAll(o, <<kind>>)
    BY DEF Emit
<1> DEFINE kinds == <<kind>>
<1>2. kinds \in Batches /\ kinds[Len(kinds)] \notin Terminal
    BY DEF Batches, Terminal
<1>3. /\ PublishAll(o, kinds) /\ status[o] = "running"
      /\ status' = IF kinds[Len(kinds)] \in Terminal
                   THEN [status EXCEPT ![o] = kinds[Len(kinds)]] ELSE status
      /\ UNCHANGED <<kept, conn, deaf>>
    BY <1>1, <1>2 DEF Emit
<1> HIDE DEF kinds
<1>4. /\ status' \in [Ops -> States] /\ log' \in [Ops -> Seq(Events)]
      /\ queue' \in [Connections -> Seq(Events)]
      /\ LogInv' /\ QueueInv' /\ LimitInv'
    BY <1>2, <1>3, PublishStep DEF WebInv
<1>5. WebTypes' /\ ClientInv'
    BY <1>4 DEF Emit, WebInv, WebTypes, ClientInv, ShownEndsAreTrue, clientVars
<1> QED
    BY <1>4, <1>5 DEF WebInv

LEMMA FinishKeepsWebInv ==
    ASSUME WebInv, NEW o \in Ops, Finish(o), UNCHANGED clientVars
    PROVE  WebInv'
<1>1. PICK kinds \in Batches : /\ kinds[Len(kinds)] \in Terminal /\ PublishAll(o, kinds)
                               /\ status' = [status EXCEPT ![o] = kinds[Len(kinds)]]
    <2>1. CASE \E result \in Terminal : /\ status' = [status EXCEPT ![o] = result]
                                        /\ PublishAll(o, <<result>>)
        <3>1. PICK result \in Terminal : /\ status' = [status EXCEPT ![o] = result]
                                         /\ PublishAll(o, <<result>>)
            BY <2>1
        <3>2. <<result>> \in Batches /\ <<result>>[Len(<<result>>)] = result
            BY DEF Batches, Terminal
        <3> QED
            BY <3>1, <3>2
    <2>2. CASE status' = [status EXCEPT ![o] = "failed"] /\ PublishAll(o, <<"step", "failed">>)
        <3>1. <<"step", "failed">> \in Batches /\ "failed" \in Terminal
            BY DEF Batches, Terminal
        <3>2. Len(<<"step", "failed">>) = 2 /\ <<"step", "failed">>[2] = "failed"
            OBVIOUS
        <3> QED
            BY <2>2, <3>1, <3>2
    <2> QED
        BY <2>1, <2>2 DEF Finish
<1>2. /\ status[o] = "running" /\ UNCHANGED <<kept, conn, deaf>>
      /\ status' = IF kinds[Len(kinds)] \in Terminal
                   THEN [status EXCEPT ![o] = kinds[Len(kinds)]] ELSE status
    BY <1>1 DEF Finish
<1>3. /\ status' \in [Ops -> States] /\ log' \in [Ops -> Seq(Events)]
      /\ queue' \in [Connections -> Seq(Events)]
      /\ LogInv' /\ QueueInv' /\ LimitInv'
    BY <1>1, <1>2, PublishStep DEF WebInv
\* Nothing is shown as ended that still runs.
<1>4. ClientInv'
    <2>1. \A p \in Ops : status[p] \in Terminal => status'[p] = status[p]
        BY <1>1, <1>2 DEF WebInv, WebTypes, Terminal
    <2> QED
        BY <2>1 DEF WebInv, ClientInv, ShownEndsAreTrue, clientVars
<1>5. WebTypes'
    BY <1>2, <1>3 DEF WebInv, WebTypes, clientVars
<1> QED
    BY <1>3, <1>4, <1>5 DEF WebInv

LEMMA CancelKeepsWebInv ==
    ASSUME WebInv, NEW o \in Ops, Cancel(o), UNCHANGED clientVars
    PROVE  WebInv'
<1>1. LogInv' /\ QueueInv' /\ LimitInv'
    BY ServerUnchanged DEF Cancel
<1>2. WebTypes' /\ ClientInv'
    BY DEF Cancel, streamVars, clientVars, WebInv, WebTypes, ClientInv, ShownEndsAreTrue
<1> QED
    BY <1>1, <1>2 DEF WebInv

LEMMA AnswerKeepsWebInv ==
    ASSUME WebInv, NEW o \in Ops, Answer(o)
    PROVE  WebInv'
<1> DEFINE all == Append(kept, o)
           over == Len(all) > MaxOperations
           lost == IF over THEN {c \in AllSubscribers : c[1] = Head(all)} ELSE {}
           started == Event(1, "started")
<1>1. /\ status[o] = "none" /\ status' = [status EXCEPT ![o] = "running"]
      /\ kept' = IF over THEN Tail(all) ELSE all
      /\ conn' = [c \in Connections |-> IF c \in lost THEN "ended" ELSE conn[c]]
      /\ log' = [log EXCEPT ![o] = <<started>>]
      /\ UNCHANGED <<deaf, queue, view, fetched>>
    BY DEF Answer, BeginOperation
<1>2. kept' \in Seq(Ops) /\ Len(kept') <= MaxOperations
    <2>1. /\ kept \in Seq(Ops) /\ Len(kept) <= MaxOperations
          /\ MaxOperations \in Nat \ {0} /\ Len(kept) \in Nat
        BY WebConstants DEF WebInv, WebTypes, LimitInv, WithinLimits
    <2>2. all \in Seq(Ops) /\ Len(all) = Len(kept) + 1
        BY <2>1
    <2> HIDE DEF all
    <2>3. Tail(all) \in Seq(Ops) /\ Len(Tail(all)) = Len(kept)
        BY <2>1, <2>2
    <2> QED
        BY <1>1, <2>1, <2>2, <2>3
<1> HIDE DEF all, over
<1>3. /\ log'[o] = <<started>> /\ status'[o] = "running"
      /\ started \in Events /\ started.kind = "started" /\ started.n = 1
    BY <1>1 DEF WebInv, WebTypes, Event, Events, Kinds
<1> HIDE DEF started
<1>4. \A p \in Ops \ {o} : log'[p] = log[p] /\ status'[p] = status[p]
    BY <1>1 DEF WebInv, WebTypes
<1>5. /\ Len(log'[o]) = 1 /\ DOMAIN log'[o] = {1} /\ log'[o][1] = started
      /\ log'[o] # << >> /\ Published(o)' = 1
    BY <1>3 DEF Published, Last
<1>6. \A p \in Ops \ {o} : Published(p)' = Published(p)
    BY <1>4 DEF Published
\* Nothing is under way to a stream of an operation that has not begun.
<1>7. ASSUME NEW c \in Connections, c[1] = o PROVE queue[c] = << >>
    <2>1. Published(o) = 0
        BY <1>1 DEF WebInv, LogInv, Published
    <2>2. \A i \in DOMAIN queue[c] : queue[c][i] \in Events /\ queue[c][i].n <= 0
        BY <1>7, <2>1 DEF WebInv, WebTypes, QueueInv
    <2>3. \A i \in DOMAIN queue[c] : FALSE
        BY <2>2 DEF Events
    <2>4. queue[c] \in Seq(Events)
        BY DEF WebInv, WebTypes
    <2>5. ~(1 \in DOMAIN queue[c])
        BY <2>3
    <2> QED
        BY <2>4, <2>5
<1>8. WebTypes'
    <2>1. log' \in [Ops -> Seq(Events)]
        BY <1>1, <1>3 DEF WebInv, WebTypes
    <2> QED
        BY <1>1, <1>2, <2>1 DEF WebInv, WebTypes, States
<1>9. LogInv'
    <2>1. \A p \in Ops : /\ (status[p] = "none" <=> log[p] = << >>)'
                         /\ Ordered(log'[p]) /\ OneTick(log'[p])
        <3> TAKE p \in Ops
        <3>1. CASE p = o
            BY <1>3, <1>5, <3>1 DEF Ordered, OneTick
        <3>2. CASE p # o
            BY <1>4, <3>2 DEF WebInv, LogInv
        <3> QED
            BY <3>1, <3>2
    <2>2. OneTerminalEvent'
        BY <1>3, <1>4, <1>5 DEF WebInv, LogInv, OneTerminalEvent, Terminal
    <2> QED
        BY <2>1, <2>2 DEF LogInv, Ordered, OneTick, IsTick
<1>10. QueueInv'
    <2>1. ASSUME NEW c \in Connections
          PROVE  /\ Ordered(queue[c])
                 /\ \A i \in DOMAIN queue[c] :
                      /\ queue[c][i].n <= Published(c[1])'
                      /\ queue[c][i].kind \in Terminal => queue[c][i].kind = status'[c[1]]
                 /\ c \in deaf => queue[c] = << >>
        <3>1. CASE c[1] = o
            BY <1>7, <3>1 DEF WebInv, QueueInv
        <3>2. CASE c[1] # o
            <4>1. c[1] \in Ops \ {o}
                BY <3>2 DEF Connections
            <4> QED
                BY <1>4, <1>6, <4>1 DEF WebInv, QueueInv
        <3> QED
            BY <3>1, <3>2
    <2>2. StreamsMissNothing'
        <3> SUFFICES ASSUME NEW c \in AllSubscribers', NEW i \in DOMAIN queue'[c]
                     PROVE  /\ \A e \in ToSet(log'[c[1]]) :
                                e.n >= queue'[c][i].n => e \in ToSet(queue'[c])
                            /\ \A j \in 1 .. i - 1 : queue'[c][j].n < queue'[c][i].n
            BY DEF StreamsMissNothing
        <3>1. c \in Connections /\ c \in AllSubscribers /\ c[1] \in Ops
            BY <1>1 DEF AllSubscribers, Connections
        <3>2. c[1] # o
            BY <1>1, <1>7, <3>1
        <3> QED
            BY <1>1, <1>4, <3>1, <3>2 DEF WebInv, QueueInv, StreamsMissNothing
    <2> QED
        BY <1>1, <2>1, <2>2 DEF QueueInv, Ordered
<1>11. LimitInv'
    <2>1. \A c \in Connections : conn'[c] = "open" => conn[c] = "open"
        BY <1>1
    <2>2. \A p \in Ops : Len(log'[p]) <= MaxEvents
        <3> TAKE p \in Ops
        <3>1. CASE p = o
            <4>1. 1 <= MaxEvents
                BY WebConstants
            <4> QED
                BY <1>5, <3>1, <4>1
        <3>2. CASE p # o
            BY <1>4, <3>2 DEF WebInv, LimitInv, WithinLimits
        <3> QED
            BY <3>1, <3>2
    <2> QED
        BY <1>2, <2>1, <2>2, FewerSubscribers DEF WebInv
<1>12. ClientInv'
    BY <1>1, <1>4 DEF WebInv, ClientInv, ShownEndsAreTrue, Terminal
<1> QED
    BY <1>8, <1>9, <1>10, <1>11, <1>12 DEF WebInv

\* Queues may be emptied, and streams closed.
LEMMA QueuesDropped ==
    ASSUME WebInv, UNCHANGED <<status, log>>, queue' \in [Connections -> Seq(Events)],
           \A c \in Connections :
              \/ queue'[c] = << >>
              \/ queue'[c] = queue[c] /\ (conn'[c] = "open" => conn[c] = "open"),
           \A c \in Connections : c \in deaf' => queue'[c] = << >>
    PROVE  QueueInv'
<1>1. ASSUME NEW c \in Connections
      PROVE  /\ Ordered(queue'[c])
             /\ \A i \in DOMAIN queue'[c] :
                  /\ queue'[c][i].n <= Published(c[1])
                  /\ queue'[c][i].kind \in Terminal => queue'[c][i].kind = status[c[1]]
    <2>1. CASE queue'[c] = << >>
        BY <2>1 DEF Ordered
    <2>2. CASE queue'[c] = queue[c]
        BY <2>2 DEF WebInv, QueueInv
    <2> QED
        BY <2>1, <2>2
<1>2. \A o : Published(o)' = Published(o)
    BY DEF Published
<1>3. StreamsMissNothing'
    <2> SUFFICES ASSUME NEW c \in AllSubscribers', NEW i \in DOMAIN queue'[c]
                 PROVE  /\ \A e \in ToSet(log[c[1]]) :
                            e.n >= queue'[c][i].n => e \in ToSet(queue'[c])
                        /\ \A j \in 1 .. i - 1 : queue'[c][j].n < queue'[c][i].n
        BY DEF StreamsMissNothing
    <2>1. c \in Connections /\ conn'[c] = "open"
        BY DEF AllSubscribers
    <2>2. queue'[c] = queue[c] /\ c \in AllSubscribers
        BY <2>1 DEF AllSubscribers
    <2> QED
        BY <2>2 DEF WebInv, QueueInv, StreamsMissNothing
<1> QED
    BY <1>1, <1>2, <1>3 DEF QueueInv, Ordered

\* A stream that is admitted gets the whole history, within the limits.
LEMMA SubscribeKeepsWebInv ==
    ASSUME WebInv, NEW c \in Connections, Subscribe(c), UNCHANGED clientVars
    PROVE  WebInv'
<1>1. conn[c] = "asked" /\ UNCHANGED <<status, kept, log, deaf, view, fetched>>
    BY DEF Subscribe, clientVars
<1>2. LogInv' /\ ClientInv'
    BY <1>1 DEF WebInv, LogInv, OneTerminalEvent, Ordered, OneTick, IsTick,
                ClientInv, ShownEndsAreTrue
<1>3. Len(kept') <= MaxOperations /\ \A o \in Ops : Len(log'[o]) <= MaxEvents
    BY <1>1 DEF WebInv, LimitInv, WithinLimits
<1>4. CASE Refuse(c)
    <2>1. conn' = [conn EXCEPT ![c] = "refused"] /\ UNCHANGED queue
        BY <1>4 DEF Refuse
    <2>2. WebTypes'
        BY <1>1, <2>1 DEF WebInv, WebTypes
    <2>3. \A d \in Connections : conn'[d] = "open" => conn[d] = "open"
        BY <1>1, <2>1 DEF WebInv, WebTypes
    <2>4. LimitInv'
        BY <1>3, <2>3, FewerSubscribers DEF WebInv
    <2>5. \A d \in Connections : d \in deaf' => queue'[d] = << >>
        BY <1>1, <2>1 DEF WebInv, QueueInv
    <2>6. QueueInv'
        BY <1>1, <2>1, <2>2, <2>3, <2>5, QueuesDropped DEF WebTypes
    <2> QED
        BY <1>2, <2>2, <2>4, <2>6 DEF WebInv
<1>5. CASE Admitted(c[1]) /\ Admit(c)
    <2>1. /\ conn' = [conn EXCEPT ![c] = "open"]
          /\ queue' = [queue EXCEPT ![c] = IF c \in deaf THEN << >> ELSE log[c[1]]]
        BY <1>5 DEF Admit
    <2>2. c[1] \in Ops
        BY DEF Connections
    <2>3. WebTypes'
        BY <1>1, <2>1, <2>2 DEF WebInv, WebTypes
    <2>4. \A d \in Connections \ {c} : conn'[d] = conn[d] /\ queue'[d] = queue[d]
        BY <2>1 DEF WebInv, WebTypes
    <2>5. conn'[c] = "open" /\ queue'[c] = IF c \in deaf THEN << >> ELSE log[c[1]]
        BY <2>1 DEF WebInv, WebTypes
    <2>6. QueueInv'
        <3>1. CASE c \in deaf
            <4>1. \A d \in Connections : d \in deaf' => queue'[d] = << >>
                BY <1>1, <2>4, <2>5, <3>1 DEF WebInv, QueueInv
            <4>2. \A d \in Connections :
                     \/ queue'[d] = << >>
                     \/ queue'[d] = queue[d] /\ (conn'[d] = "open" => conn[d] = "open")
                BY <2>4, <2>5, <3>1
            <4> QED
                BY <1>1, <2>3, <4>1, <4>2, QueuesDropped DEF WebTypes
        <3>2. CASE c \notin deaf
            <4>1. /\ Ordered(log[c[1]])
                  /\ \A i \in DOMAIN log[c[1]] :
                       /\ log[c[1]][i].n <= Published(c[1])
                       /\ log[c[1]][i].kind \in Terminal => log[c[1]][i].kind = status[c[1]]
                BY <2>2, PublishedIsNewest DEF WebInv, LogInv, OneTerminalEvent
            <4>2. \A p : Published(p)' = Published(p)
                BY <1>1 DEF Published
            <4>3. ASSUME NEW d \in Connections
                  PROVE  /\ Ordered(queue'[d])
                         /\ \A i \in DOMAIN queue'[d] :
                              /\ queue'[d][i].n <= Published(d[1])
                              /\ queue'[d][i].kind \in Terminal =>
                                     queue'[d][i].kind = status[d[1]]
                         /\ d \in deaf => queue'[d] = << >>
                <5>1. CASE d = c
                    BY <2>5, <3>2, <4>1, <5>1
                <5>2. CASE d # c
                    BY <2>4, <5>2 DEF WebInv, QueueInv
                <5> QED
                    BY <5>1, <5>2
            <4>4. StreamsMissNothing'
                <5> SUFFICES ASSUME NEW d \in AllSubscribers', NEW i \in DOMAIN queue'[d]
                             PROVE  /\ \A e \in ToSet(log[d[1]]) :
                                        e.n >= queue'[d][i].n => e \in ToSet(queue'[d])
                                    /\ \A j \in 1 .. i - 1 : queue'[d][j].n < queue'[d][i].n
                    BY <1>1 DEF StreamsMissNothing
                <5>1. CASE d = c
                    <6>1. log[c[1]] \in Seq(Events) /\ Ordered(log[c[1]])
                        BY <2>2 DEF WebInv, WebTypes, LogInv
                    <6>2. queue'[c] = log[c[1]]
                        BY <2>5, <3>2
                    <6>3. \A j \in 1 .. i - 1 : j \in DOMAIN log[c[1]] /\ j < i
                        BY <5>1, <6>1, <6>2
                    <6> QED
                        BY <5>1, <6>1, <6>2, <6>3 DEF Ordered
                <5>2. CASE d # c
                    <6>1. d \in AllSubscribers /\ queue'[d] = queue[d]
                        BY <2>4, <5>2 DEF AllSubscribers
                    <6> QED
                        BY <6>1 DEF WebInv, QueueInv, StreamsMissNothing
                <5> QED
                    BY <5>1, <5>2
            <4> QED
                BY <1>1, <4>2, <4>3, <4>4 DEF QueueInv, Ordered
        <3> QED
            BY <3>1, <3>2
    <2>7. LimitInv'
        <3>1. /\ AllSubscribers' = AllSubscribers \cup {c} /\ c \notin AllSubscribers
              /\ Subscribers(c[1])' = Subscribers(c[1]) \cup {c} /\ c \notin Subscribers(c[1])
              /\ \A p \in Ops \ {c[1]} : Subscribers(p)' = Subscribers(p)
              /\ Subscribers(c[1]) \subseteq AllSubscribers
            BY <1>1, <2>4, <2>5 DEF AllSubscribers, Subscribers
        <3>2. IsFiniteSet(AllSubscribers) /\ IsFiniteSet(Subscribers(c[1]))
            BY <3>1, FS_Subset DEF WebInv, LimitInv
        <3>3. /\ Cardinality(AllSubscribers) \in Nat
              /\ Cardinality(AllSubscribers) < MaxSubscribers
              /\ Cardinality(Subscribers(c[1])) \in Nat
              /\ Cardinality(Subscribers(c[1])) < MaxSubscribersPerOperation
            BY <1>5, <3>2, FS_CardinalityType DEF Admitted
        <3>4. /\ IsFiniteSet(AllSubscribers')
              /\ Cardinality(AllSubscribers') = Cardinality(AllSubscribers) + 1
              /\ Cardinality(Subscribers(c[1])') = Cardinality(Subscribers(c[1])) + 1
            BY <3>1, <3>2, FS_AddElement
        <3>5. \A p \in Ops : Cardinality(Subscribers(p)') <= MaxSubscribersPerOperation
            <4> TAKE p \in Ops
            <4>1. CASE p = c[1]
                <5>1. Subscribers(p)' = Subscribers(c[1])'
                    BY <4>1 DEF Subscribers
                <5> QED
                    BY <3>3, <3>4, <5>1, WebConstants
            <4>2. CASE p # c[1]
                <5>1. Subscribers(p)' = Subscribers(p)
                    BY <3>1, <4>2
                <5> QED
                    BY <5>1 DEF WebInv, LimitInv, WithinLimits
            <4> QED
                BY <4>1, <4>2
        <3>6. Cardinality(AllSubscribers') <= MaxSubscribers
            BY <3>3, <3>4, WebConstants
        <3> QED
            BY <1>3, <3>4, <3>5, <3>6 DEF LimitInv, WithinLimits
    <2> QED
        BY <1>2, <2>3, <2>6, <2>7 DEF WebInv
<1> QED
    BY <1>4, <1>5 DEF Subscribe

LEMMA DisconnectKeepsWebInv ==
    ASSUME WebInv, NEW c \in Connections, Disconnect(c), UNCHANGED <<view, fetched>>
    PROVE  WebInv'
<1>1. /\ conn' = [conn EXCEPT ![c] = "free"] /\ queue' = [queue EXCEPT ![c] = << >>]
      /\ deaf' = deaf \ {c} /\ UNCHANGED <<status, kept, log>>
    BY DEF Disconnect
<1>2. WebTypes' /\ LogInv' /\ ClientInv'
    BY <1>1 DEF WebInv, WebTypes, LogInv, OneTerminalEvent, Ordered, OneTick, IsTick,
                ClientInv, ShownEndsAreTrue
<1>3. \A d \in Connections : conn'[d] = "open" => conn[d] = "open"
    BY <1>1 DEF WebInv, WebTypes
<1>4. LimitInv'
    BY <1>1, <1>3, FewerSubscribers DEF WebInv, LimitInv, WithinLimits
<1>5. \A d \in Connections : queue'[d] = << >> \/ queue'[d] = queue[d]
    BY <1>1 DEF WebInv, WebTypes
<1>6. \A d \in Connections : d \in deaf' => queue'[d] = << >>
    BY <1>1, <1>5 DEF WebInv, QueueInv
<1>7. QueueInv'
    BY <1>1, <1>2, <1>3, <1>5, <1>6, QueuesDropped DEF WebTypes
<1> QED
    BY <1>2, <1>4, <1>7 DEF WebInv

(***************************************************************************)
(* The callbacks of the dashboard.                                         *)
(***************************************************************************)

\* All streams are dropped, and others asked for.
LEMMA EffectKeepsWebInv ==
    ASSUME WebInv, RunEffect
    PROVE  WebInv'
<1>1. /\ queue' = [c \in Connections |-> << >>]
      /\ deaf' = {c \in Connections : conn[c] # "free"}
      /\ UNCHANGED <<status, kept, log, view, fetched>>
    BY DEF RunEffect
<1>2. PICK new : conn' = [c \in Connections |-> IF c \in new THEN "asked" ELSE conn[c]]
    BY DEF RunEffect
<1>3. WebTypes' /\ LogInv' /\ ClientInv'
    BY <1>1, <1>2 DEF WebInv, WebTypes, LogInv, OneTerminalEvent, Ordered, OneTick, IsTick,
                      ClientInv, ShownEndsAreTrue
<1>4. \A c \in Connections : conn'[c] = "open" => conn[c] = "open"
    BY <1>2
<1>5. LimitInv'
    BY <1>1, <1>4, FewerSubscribers DEF WebInv, LimitInv, WithinLimits
<1>6. \A c \in Connections : queue'[c] = << >>
    BY <1>1
<1>7. QueueInv'
    BY <1>1, <1>3, <1>6, QueuesDropped DEF WebTypes
<1> QED
    BY <1>3, <1>5, <1>7 DEF WebInv

\* What is left of a queue misses nothing either, and a terminal event that
\* arrives tells how the operation ended.
LEMMA ReceiveKeepsWebInv ==
    ASSUME WebInv, NEW c \in Connections, Receive(c)
    PROVE  WebInv'
<1> DEFINE q == queue[c]
<1>1. /\ q # << >> /\ queue' = [queue EXCEPT ![c] = Tail(q)]
      /\ view' = IF Head(q).kind \in Terminal /\ view[c[1]] # "none"
                 THEN [view EXCEPT ![c[1]] = Head(q).kind] ELSE view
      /\ UNCHANGED <<status, kept, log, conn, deaf, fetched>>
    BY DEF Receive
<1>2. /\ q \in Seq(Events) /\ Ordered(q)
      /\ \A i \in DOMAIN q : /\ q[i].n <= Published(c[1])
                             /\ q[i].kind \in Terminal => q[i].kind = status[c[1]]
    BY DEF WebInv, WebTypes, QueueInv
<1>3. /\ \A d \in Connections \ {c} : queue'[d] = queue[d]
      /\ queue'[c] = Tail(q)
    BY <1>1 DEF WebInv, WebTypes
<1>4. c \notin deaf /\ c[1] \in Ops
    BY DEF Receive, Connections
<1> HIDE DEF q
<1>5. /\ Tail(q) \in Seq(Events)
      /\ \A i \in DOMAIN Tail(q) : i + 1 \in DOMAIN q /\ Tail(q)[i] = q[i + 1]
      /\ \A m \in DOMAIN q : m = 1 \/ (m - 1 \in DOMAIN Tail(q) /\ Tail(q)[m - 1] = q[m])
    BY <1>1, <1>2
<1>6. Head(q) = q[1] /\ 1 \in DOMAIN q
    BY <1>1, <1>2
<1>7. Ordered(Tail(q))
    <2> SUFFICES ASSUME NEW i \in DOMAIN Tail(q), NEW j \in DOMAIN Tail(q), i < j
                 PROVE  Tail(q)[i].n < Tail(q)[j].n
        BY DEF Ordered
    <2>1. i \in Nat /\ j \in Nat
        BY <1>5
    <2>2. i + 1 < j + 1
        BY <2>1
    <2> QED
        BY <1>2, <1>5, <2>2 DEF Ordered
<1>8. LogInv' /\ LimitInv'
    BY <1>1 DEF WebInv, LogInv, OneTerminalEvent, Ordered, OneTick, IsTick,
                LimitInv, WithinLimits, AllSubscribers, Subscribers
<1>9. Head(q).kind \in Terminal => Head(q).kind = status[c[1]]
    BY <1>2, <1>6
<1>10. WebTypes' /\ ClientInv'
    <2>1. queue' \in [Connections -> Seq(Events)]
        BY <1>1, <1>5 DEF WebInv, WebTypes
    <2>2. view' \in [Ops -> States]
        BY <1>1 DEF WebInv, WebTypes, States
    <2>3. \A p \in Ops : view'[p] = view[p] \/ (p = c[1] /\ view'[p] = status[p])
        BY <1>1, <1>4, <1>9 DEF WebInv, WebTypes
    <2>4. ClientInv'
        BY <1>1, <2>3 DEF WebInv, ClientInv, ShownEndsAreTrue
    <2> QED
        BY <1>1, <2>1, <2>2, <2>4 DEF WebInv, WebTypes
<1>11. \A p : Published(p)' = Published(p)
    BY <1>1 DEF Published
<1>12. ASSUME NEW d \in Connections
       PROVE  /\ Ordered(queue'[d])
              /\ \A i \in DOMAIN queue'[d] :
                   /\ queue'[d][i].n <= Published(d[1])
                   /\ queue'[d][i].kind \in Terminal => queue'[d][i].kind = status[d[1]]
              /\ d \in deaf => queue'[d] = << >>
    <2>1. CASE d = c
        <3>1. \A i \in DOMAIN Tail(q) :
                 /\ Tail(q)[i].n <= Published(c[1])
                 /\ Tail(q)[i].kind \in Terminal => Tail(q)[i].kind = status[c[1]]
            BY <1>2, <1>5
        <3> QED
            BY <1>3, <1>4, <1>7, <2>1, <3>1
    <2>2. CASE d # c
        BY <1>3, <2>2 DEF WebInv, QueueInv
    <2> QED
        BY <2>1, <2>2
<1>13. StreamsMissNothing'
    <2> SUFFICES ASSUME NEW d \in AllSubscribers', NEW i \in DOMAIN queue'[d]
                 PROVE  /\ \A e \in ToSet(log[d[1]]) :
                            e.n >= queue'[d][i].n => e \in ToSet(queue'[d])
                        /\ \A j \in 1 .. i - 1 : queue'[d][j].n < queue'[d][i].n
        BY <1>1 DEF StreamsMissNothing
    <2>1. d \in AllSubscribers /\ d \in Connections
        BY <1>1 DEF AllSubscribers
    <2>2. CASE d # c
        BY <1>3, <2>1, <2>2 DEF WebInv, QueueInv, StreamsMissNothing
    <2>3. CASE d = c
        <3>1. i \in DOMAIN Tail(q) /\ i \in Nat /\ queue'[d] = Tail(q)
            BY <1>3, <1>5, <2>3
        <3>2. \A j \in 1 .. i - 1 : Tail(q)[j].n < Tail(q)[i].n
            <4>1. \A j \in 1 .. i - 1 : j \in DOMAIN Tail(q) /\ j < i
                BY <1>5, <3>1
            <4> QED
                BY <1>7, <3>1, <4>1 DEF Ordered
        <3>3. ASSUME NEW e \in ToSet(log[c[1]]), e.n >= Tail(q)[i].n
              PROVE  e \in ToSet(Tail(q))
            <4>1. i + 1 \in DOMAIN q /\ Tail(q)[i] = q[i + 1] /\ 1 < i + 1
                BY <1>5, <3>1
            <4>2. e \in ToSet(q)
                BY <2>1, <2>3, <3>3, <4>1 DEF WebInv, QueueInv, StreamsMissNothing, q
            <4>3. PICK m \in DOMAIN q : e = q[m]
                BY <4>2 DEF ToSet
            <4>4. q[1].n < q[i + 1].n
                BY <1>2, <1>6, <4>1 DEF Ordered
            <4>5. q[1].n \in Nat /\ q[i + 1].n \in Nat
                <5>1. q[1] \in Events /\ q[i + 1] \in Events
                    BY <1>2, <1>6, <4>1
                <5> QED
                    BY <5>1 DEF Events
            <4>6. m # 1
                <5>1. e.n >= q[i + 1].n
                    BY <3>3, <4>1
                <5> QED
                    BY <4>3, <4>4, <4>5, <5>1
            <4>7. m - 1 \in DOMAIN Tail(q) /\ Tail(q)[m - 1] = e
                BY <1>5, <4>3, <4>6
            <4> QED
                BY <4>7 DEF ToSet
        <3> QED
            BY <2>3, <3>1, <3>2, <3>3
    <2> QED
        BY <2>2, <2>3
<1>14. QueueInv'
    BY <1>1, <1>11, <1>12, <1>13 DEF QueueInv, Ordered
<1> QED
    BY <1>8, <1>10, <1>14 DEF WebInv

LEMMA ClientStepKeepsWebInv ==
    ASSUME WebInv, \/ \E o \in Ops : Register(o)
                   \/ ListOperations \/ ShowReloaded
                   \/ UNCHANGED vars
    PROVE  WebInv'
<1>1. UNCHANGED <<status, kept, log, streamVars>>
    BY DEF Register, ListOperations, ShowReloaded, vars, serverVars
<1>2. LogInv' /\ QueueInv' /\ LimitInv'
    BY <1>1, ServerUnchanged
<1>3. /\ view' \in [Ops -> States] /\ fetched' \in [Ops -> States]
      /\ ClientInv'
    <2>1. CASE \E o \in Ops : Register(o)
        <3>1. PICK o \in Ops : Register(o)
            BY <2>1
        <3> QED
            BY <1>1, <3>1 DEF Register, WebInv, WebTypes, States, Terminal,
                              ClientInv, ShownEndsAreTrue
    <2>2. CASE ListOperations
        BY <1>1, <2>2 DEF ListOperations, WebInv, WebTypes, States, Terminal,
                          ClientInv, ShownEndsAreTrue
    <2>3. CASE ShowReloaded
        BY <1>1, <2>3 DEF ShowReloaded, Nothing, WebInv, WebTypes, States, Terminal,
                          ClientInv, ShownEndsAreTrue
    <2>4. CASE UNCHANGED vars
        BY <1>1, <2>4 DEF vars, clientVars, WebInv, WebTypes, ClientInv, ShownEndsAreTrue
    <2> QED
        BY <2>1, <2>2, <2>3, <2>4
<1>4. WebTypes'
    BY <1>1, <1>3 DEF streamVars, WebInv, WebTypes
<1> QED
    BY <1>2, <1>3, <1>4 DEF WebInv

(***************************************************************************)
(* The theorems.                                                           *)
(***************************************************************************)

\* Nothing has begun: nothing is kept, under way or shown.
LEMMA InitWebInv ==
    ASSUME Init PROVE WebInv
<1> USE DEF Init, ServerInit
<1>1. WebTypes
    BY DEF WebTypes, Nothing, States
<1>2. LogInv
    BY DEF LogInv, Ordered, OneTick, OneTerminalEvent
<1>3. QueueInv
    <2>1. \A c \in Connections : DOMAIN queue[c] = {} /\ queue[c] = << >>
        OBVIOUS
    <2> QED
        BY <2>1 DEF QueueInv, Ordered, StreamsMissNothing, AllSubscribers
<1>4. LimitInv
    <2>1. AllSubscribers = {} /\ \A o \in Ops : Subscribers(o) = {}
        BY DEF AllSubscribers, Subscribers
    <2>2. Cardinality({}) = 0 /\ IsFiniteSet({})
        BY FS_EmptySet
    <2>3. /\ 0 <= MaxOperations /\ 0 <= MaxEvents
          /\ 0 <= MaxSubscribers /\ 0 <= MaxSubscribersPerOperation
        BY WebConstants
    <2>4. Len(kept) = 0 /\ \A o \in Ops : Len(log[o]) = 0
        OBVIOUS
    <2> QED
        BY <2>1, <2>2, <2>3, <2>4 DEF LimitInv, WithinLimits
<1>5. ClientInv
    BY DEF ClientInv, ShownEndsAreTrue, Nothing, Terminal
<1> QED
    BY <1>1, <1>2, <1>3, <1>4, <1>5 DEF WebInv

LEMMA NextKeepsWebInv ==
    ASSUME WebInv, [Next]_vars PROVE WebInv'
<1>1. CASE UNCHANGED vars
    BY <1>1, ClientStepKeepsWebInv
<1>2. ASSUME NEW o \in Ops, Answer(o) \/ Register(o) \/ ServerStep(o) PROVE WebInv'
    BY <1>2, AnswerKeepsWebInv, ClientStepKeepsWebInv, EmitKeepsWebInv, FinishKeepsWebInv,
       CancelKeepsWebInv DEF ServerStep
<1>3. ASSUME NEW c \in Connections, Stream(c) PROVE WebInv'
    <2>1. CASE Subscribe(c) /\ UNCHANGED clientVars
        BY <2>1, SubscribeKeepsWebInv
    <2>2. CASE Receive(c)
        BY <2>2, ReceiveKeepsWebInv
    <2>3. CASE StreamOver(c) \/ Closed(c)
        BY <2>3, DisconnectKeepsWebInv DEF StreamOver, Closed
    <2> QED
        BY <1>3, <2>1, <2>2, <2>3 DEF Stream
<1>4. CASE RunEffect
    BY <1>4, EffectKeepsWebInv
<1>5. CASE ListOperations \/ ShowReloaded
    BY <1>5, ClientStepKeepsWebInv
<1> QED
    BY <1>1, <1>2, <1>3, <1>4, <1>5 DEF Next

\* The inductive invariant of the server and the dashboard together.
THEOREM WebInvariant == Spec => []WebInv
<1>1. Init => WebInv
    BY InitWebInv
<1>2. WebInv /\ [Next]_vars => WebInv'
    BY NextKeepsWebInv
<1> QED
    BY <1>1, <1>2, PTL DEF Spec

\* An operation publishes one terminal event and nothing after it, and what is
\* kept of an ended operation says how it ended (server.ts l.543-582).
THEOREM OneTerminalEventAlways == Spec => []OneTerminalEvent
<1>1. WebInv => OneTerminalEvent
    BY DEF WebInv, LogInv
<1> QED
    BY <1>1, WebInvariant, PTL

\* The limits on operations, events and subscribers hold in every order of the
\* requests (server.ts l.494, l.507, l.670).
THEOREM WithinLimitsAlways == Spec => []WithinLimits
<1>1. WebInv => WithinLimits
    BY DEF WebInv, LimitInv
<1> QED
    BY <1>1, WebInvariant, PTL

\* Replay and live events join without a gap and in order
\* (server.ts l.495-497, l.682-687).
THEOREM StreamsMissNothingAlways == Spec => []StreamsMissNothing
<1>1. WebInv => StreamsMissNothing
    BY DEF WebInv, QueueInv
<1> QED
    BY <1>1, WebInvariant, PTL

\* What the dashboard shows as ended has ended, and in that way
\* (App.tsx l.202-215, l.165).
THEOREM ShownEndsAreTrueAlways == Spec => []ShownEndsAreTrue
<1>1. WebInv => ShownEndsAreTrue
    BY DEF WebInv, ClientInv
<1> QED
    BY <1>1, WebInvariant, PTL
=============================================================================
