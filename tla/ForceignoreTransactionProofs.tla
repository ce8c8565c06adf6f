---------------------- MODULE ForceignoreTransactionProofs ----------------------
(***************************************************************************)
(* Proofs about ForceignoreTransaction, for any number of runs, crashes    *)
(* and edits, when a run starts only after the others have ended.          *)
(***************************************************************************)
EXTENDS ForceignoreTransaction, TLAPS

LEMMA ThreadFacts ==
    /\ NoThread \notin Threads /\ NoThread[1] = NoRun /\ NoRun \notin Runs
    /\ \A t \in Threads : t[1] \in Runs /\ (t = Main(t[1]) \/ t = Listener(t[1]))
    /\ \A r \in Runs : Main(r) \in Threads /\ Listener(r) \in Threads
    /\ \A r \in Runs : Main(r)[1] = r /\ Listener(r)[1] = r
    /\ \A q, r \in Runs : Main(q) # Listener(r)
BY RunConstants DEF Threads, Main, Listener, NoThread

LEMMA InitInv == Init => ForceignoreInv
<1> SUFFICES ASSUME Init PROVE ForceignoreInv
    OBVIOUS
<1> USE RunConstants, ThreadFacts DEF Init
<1>1. \A t \in Threads : pc[t] = "idle"
    OBVIOUS
<1>2. TypeOK
    BY DEF TypeOK, Contents, Steps, Over
<1>3. OneAlive
    BY <1>1 DEF OneAlive, Alive, Over
<1>4. StageInv
    BY <1>1 DEF StageInv, Over, RestoringSteps
<1>5. DiskInv
    BY <1>1 DEF DiskInv
<1>6. TransactionInv
    BY <1>1 DEF TransactionInv, RestoringSteps
<1>7. FileInv
    BY <1>1 DEF FileInv, Undisturbed
<1> QED
    BY <1>2, <1>3, <1>4, <1>5, <1>6, <1>7 DEF ForceignoreInv

\* Thread t goes on to a step, and the other threads stay where they are.
Moves(t, step) ==
    /\ pc' \in [Threads -> Steps] /\ pc'[t] = step
    /\ \A u \in Threads : u # t => pc'[u] = pc[u]

LEMMA GotoMoves ==
    ASSUME TypeOK, NEW t \in Threads, NEW step \in Steps, Goto(t, step)
    PROVE  Moves(t, step)
BY DEF TypeOK, Goto, Moves

LEMMA KeepOneAlive ==
    ASSUME OneAlive, NEW r \in Runs, Alive(r),
           \A u \in Threads : u[1] # r => pc'[u] = pc[u]
    PROVE  OneAlive'
<1>1. \A q \in Runs : q # r => ~Alive(q)
    BY DEF OneAlive
<1>2. \A q \in Runs : q # r => pc'[Main(q)] = pc[Main(q)] /\ pc'[Listener(q)] = pc[Listener(q)]
    BY ThreadFacts
<1>3. \A q \in Runs : q # r => ~Alive(q)'
    BY <1>1, <1>2 DEF Alive
<1> QED
    BY <1>3 DEF OneAlive

\* While a thread is at work the other runs are not.
LEMMA Alone ==
    ASSUME OneAlive, NEW t \in Threads, pc[t] \notin Over
    PROVE  /\ t[1] \in Runs /\ Alive(t[1])
           /\ \A r \in Runs : r # t[1] => pc[Main(r)] \in Over /\ pc[Listener(r)] \in Over
<1>1. t[1] \in Runs /\ Alive(t[1])
    BY ThreadFacts DEF Alive
<1> QED
    BY <1>1 DEF OneAlive, Alive

-----------------------------------------------------------------------------
(* Restoring, by either thread of a run. *)

\* What every step of restoring has in common.
LEMMA Restorer ==
    ASSUME ForceignoreInv, NEW t \in Threads, pc[t] \in RestoringSteps
    PROVE  /\ pc[t] \notin Over /\ t[1] \in Runs /\ Alive(t[1])
           /\ \A r \in Runs : r # t[1] => pc[Main(r)] \in Over /\ pc[Listener(r)] \in Over
           /\ t = Main(t[1]) \/ t = Listener(t[1])
<1>1. pc[t] \notin Over
    BY DEF Over, RestoringSteps
<1> QED
    BY <1>1, Alone, ThreadFacts DEF ForceignoreInv

\* A failure ends the thread, and with a listener the process.
LEMMA FailInv ==
    ASSUME ForceignoreInv, NEW t \in Threads, pc[t] \in RestoringSteps, Fail(t),
           UNCHANGED <<file, marker, backup, runVars, mine, crashes, edits>>,
           txn' \in [Threads -> Runs \cup {NoRun}],
           \A u \in Threads : u # t => txn'[u] = txn[u]
    PROVE  ForceignoreInv'
<1> USE ThreadFacts DEF ForceignoreInv, runVars, diskVars
<1> DEFINE r == t[1]
<1>1. /\ pc[t] \notin Over /\ r \in Runs /\ Alive(r)
      /\ \A q \in Runs : q # r => pc[Main(q)] \in Over /\ pc[Listener(q)] \in Over
      /\ t = Main(r) \/ t = Listener(r)
    BY Restorer
<1>2. /\ pc' \in [Threads -> Steps] /\ pc'[t] = "failed"
      /\ \A u \in Threads : u # t => pc'[u] = pc[u] \/ (u = Main(r) /\ pc'[u] = "dead")
      /\ t = Main(r) => pc'[Listener(r)] = pc[Listener(r)]
    BY <1>1 DEF Fail, Goto, TypeOK, Steps, Over
<1>3. writer' \in {writer, NoThread}
    BY DEF Fail
<1> HIDE DEF r
<1>4. \A u \in Threads : u[1] # r => pc'[u] = pc[u]
    BY <1>2 DEF r
<1>20. TypeOK'
    BY <1>1, <1>2, <1>3, <1>4 DEF TypeOK
<1>21. StageInv'
    BY <1>1, <1>2, <1>3, <1>4 DEF StageInv, Over, RestoringSteps
<1>22. DiskInv'
    BY <1>1, <1>2, <1>3, <1>4 DEF DiskInv, StageInv, Undisturbed, Over, RestoringSteps
<1>23. TransactionInv'
    BY <1>1, <1>2, <1>3, <1>4 DEF TransactionInv, RestoringSteps
<1>24. FileInv'
    BY <1>1, <1>2, <1>3, <1>4 DEF FileInv, Undisturbed
<1>25. OneAlive'
    BY <1>1, <1>2, <1>3, <1>4, KeepOneAlive
<1> QED
    BY <1>20, <1>21, <1>22, <1>23, <1>24, <1>25

LEMMA LoadMarkerInv == ASSUME ForceignoreInv, NEW t \in Threads, LoadMarker(t) PROVE ForceignoreInv'
<1> USE ThreadFacts DEF ForceignoreInv, runVars, diskVars
<1> DEFINE r == t[1]
<1>0. pc[t] = "loadMarker" /\ pc[t] \in RestoringSteps
    BY DEF LoadMarker, RestoringSteps
<1>1. /\ pc[t] \notin Over /\ r \in Runs /\ Alive(r)
      /\ \A q \in Runs : q # r => pc[Main(q)] \in Over /\ pc[Listener(q)] \in Over
      /\ t = Main(r) \/ t = Listener(r)
    BY <1>0, Restorer
<1> HIDE DEF r
<1>2. CASE /\ marker # NoRun /\ txn' = [txn EXCEPT ![t] = marker]
           /\ Goto(t, "loadBackup") /\ UNCHANGED <<diskVars, runVars, mine, crashes, edits>>
  <2>1. Moves(t, "loadBackup")
      BY <1>2, GotoMoves DEF Steps, RestoringSteps, Over
  <2>2. \A u \in Threads : u[1] # r => pc'[u] = pc[u]
      BY <2>1 DEF Moves, r
  <2>3. /\ marker \in Runs /\ txn' \in [Threads -> Runs \cup {NoRun}] /\ txn'[t] = marker
        /\ \A u \in Threads : u # t => txn'[u] = txn[u]
      BY <1>2 DEF TypeOK
  <2>4. UNCHANGED <<diskVars, runVars, mine, crashes, edits>>
      BY <1>2
  <2>20. TypeOK'
      BY <1>0, <1>1, <2>1, <2>2, <2>3, <2>4 DEF TypeOK, Moves
  <2>21. StageInv'
      BY <1>0, <1>1, <2>1, <2>2, <2>3, <2>4 DEF StageInv, Over, RestoringSteps, Moves
  <2>22. DiskInv'
      BY <1>0, <1>1, <2>1, <2>2, <2>3, <2>4 DEF DiskInv, StageInv, Undisturbed, Over, Moves
  <2>23. TransactionInv'
      BY <1>0, <1>1, <2>1, <2>2, <2>3, <2>4 DEF TransactionInv, RestoringSteps, Moves
  <2>24. FileInv'
      BY <1>0, <1>1, <2>1, <2>2, <2>3, <2>4 DEF FileInv, Undisturbed, Moves
  <2>25. OneAlive'
      BY <1>0, <1>1, <2>1, <2>2, <2>3, <2>4, KeepOneAlive
  <2> QED
      BY <2>20, <2>21, <2>22, <2>23, <2>24, <2>25
<1>3. CASE /\ Fail(t) /\ UNCHANGED <<file, marker, backup, runVars, mine, crashes, edits>>
           /\ txn' \in [Threads -> Runs \cup {NoRun}] /\ \A u \in Threads : u # t => txn'[u] = txn[u]
    BY <1>0, <1>3, FailInv
<1> QED
    BY <1>2, <1>3, <1>0 DEF LoadMarker, TypeOK

LEMMA LoadBackupInv == ASSUME ForceignoreInv, NEW t \in Threads, LoadBackup(t) PROVE ForceignoreInv'
<1> USE ThreadFacts DEF ForceignoreInv, runVars, diskVars
<1> DEFINE r == t[1]
<1>0. pc[t] = "loadBackup" /\ pc[t] \in RestoringSteps
    BY DEF LoadBackup, RestoringSteps
<1>1. /\ pc[t] \notin Over /\ r \in Runs /\ Alive(r)
      /\ \A q \in Runs : q # r => pc[Main(q)] \in Over /\ pc[Listener(q)] \in Over
      /\ t = Main(r) \/ t = Listener(r)
    BY <1>0, Restorer
<1> HIDE DEF r
<1>2. CASE Goto(t, "check") /\ UNCHANGED <<diskVars, runVars, txn, mine, crashes, edits>>
  <2>1. Moves(t, "check")
      BY <1>2, GotoMoves DEF Steps, RestoringSteps, Over
  <2>2. \A u \in Threads : u[1] # r => pc'[u] = pc[u]
      BY <2>1 DEF Moves, r
  <2>3. UNCHANGED <<diskVars, runVars, mine, crashes, edits>> /\ txn' = txn
      BY <1>2
  <2>20. TypeOK'
      BY <1>0, <1>1, <2>1, <2>2, <2>3 DEF TypeOK, Moves
  <2>21. StageInv'
      BY <1>0, <1>1, <2>1, <2>2, <2>3 DEF StageInv, Over, RestoringSteps, Moves
  <2>22. DiskInv'
      BY <1>0, <1>1, <2>1, <2>2, <2>3 DEF DiskInv, StageInv, Undisturbed, Over, Moves
  <2>23. TransactionInv'
      BY <1>0, <1>1, <2>1, <2>2, <2>3 DEF TransactionInv, RestoringSteps, Moves
  <2>24. FileInv'
      BY <1>0, <1>1, <2>1, <2>2, <2>3 DEF FileInv, Undisturbed, Moves
  <2>25. OneAlive'
      BY <1>0, <1>1, <2>1, <2>2, <2>3, KeepOneAlive
  <2> QED
      BY <2>20, <2>21, <2>22, <2>23, <2>24, <2>25
<1>3. CASE /\ Fail(t) /\ UNCHANGED <<file, marker, backup, runVars, mine, crashes, edits>>
           /\ txn' \in [Threads -> Runs \cup {NoRun}] /\ \A u \in Threads : u # t => txn'[u] = txn[u]
    BY <1>0, <1>3, FailInv
<1> QED
    BY <1>2, <1>3, <1>0 DEF LoadBackup, TypeOK

LEMMA CheckActiveInv == ASSUME ForceignoreInv, NEW t \in Threads, CheckActive(t) PROVE ForceignoreInv'
<1> USE ThreadFacts DEF ForceignoreInv, runVars, diskVars
<1> DEFINE r == t[1]
<1>0. pc[t] = "check" /\ pc[t] \in RestoringSteps
    BY DEF CheckActive, RestoringSteps
<1>1. /\ pc[t] \notin Over /\ r \in Runs /\ Alive(r)
      /\ \A q \in Runs : q # r => pc[Main(q)] \in Over /\ pc[Listener(q)] \in Over
      /\ t = Main(r) \/ t = Listener(r)
    BY <1>0, Restorer
<1> HIDE DEF r
<1>2. CASE /\ file = "absent" /\ orig[txn[t]] = "absent" /\ Goto(t, "rmBackup")
           /\ UNCHANGED <<diskVars, runVars, txn, mine, crashes, edits>>
  <2>1. Moves(t, "rmBackup")
      BY <1>2, GotoMoves DEF Steps, RestoringSteps, Over
  <2>2. \A u \in Threads : u[1] # r => pc'[u] = pc[u]
      BY <2>1 DEF Moves, r
  <2>3. UNCHANGED <<diskVars, runVars, mine, crashes, edits>> /\ txn' = txn /\ file = orig[txn[t]]
      BY <1>2
  <2>4. Undisturbed => file = mine
      BY <1>0, <2>3 DEF FileInv, TransactionInv, RestoringSteps
  <2>20. TypeOK'
      BY <1>0, <1>1, <2>1, <2>2, <2>3, <2>4 DEF TypeOK, Moves
  <2>21. StageInv'
      BY <1>0, <1>1, <2>1, <2>2, <2>3, <2>4 DEF StageInv, Over, RestoringSteps, Moves
  <2>22. DiskInv'
      BY <1>0, <1>1, <2>1, <2>2, <2>3, <2>4 DEF DiskInv, StageInv, Undisturbed, Over, Moves
  <2>23. TransactionInv'
      BY <1>0, <1>1, <2>1, <2>2, <2>3, <2>4 DEF TransactionInv, RestoringSteps, Moves
  <2>24. FileInv'
      BY <1>0, <1>1, <2>1, <2>2, <2>3, <2>4 DEF FileInv, Undisturbed, Moves
  <2>25. OneAlive'
      BY <1>0, <1>1, <2>1, <2>2, <2>3, <2>4, KeepOneAlive
  <2> QED
      BY <2>20, <2>21, <2>22, <2>23, <2>24, <2>25
<1>3. CASE /\ file = "absent" /\ orig[txn[t]] # "absent" /\ Goto(t, "copy")
           /\ UNCHANGED <<diskVars, runVars, txn, mine, crashes, edits>>
  <2>1. Moves(t, "copy")
      BY <1>3, GotoMoves DEF Steps, RestoringSteps, Over
  <2>2. \A u \in Threads : u[1] # r => pc'[u] = pc[u]
      BY <2>1 DEF Moves, r
  <2>3. UNCHANGED <<diskVars, runVars, mine, crashes, edits>> /\ txn' = txn /\ orig[txn[t]] # "absent"
      BY <1>3
  <2>20. TypeOK'
      BY <1>0, <1>1, <2>1, <2>2, <2>3 DEF TypeOK, Moves
  <2>21. StageInv'
      BY <1>0, <1>1, <2>1, <2>2, <2>3 DEF StageInv, Over, RestoringSteps, Moves
  <2>22. DiskInv'
      BY <1>0, <1>1, <2>1, <2>2, <2>3 DEF DiskInv, StageInv, Undisturbed, Over, Moves
  <2>23. TransactionInv'
      BY <1>0, <1>1, <2>1, <2>2, <2>3 DEF TransactionInv, RestoringSteps, Moves
  <2>24. FileInv'
      BY <1>0, <1>1, <2>1, <2>2, <2>3 DEF FileInv, Undisturbed, Moves
  <2>25. OneAlive'
      BY <1>0, <1>1, <2>1, <2>2, <2>3, KeepOneAlive
  <2> QED
      BY <2>20, <2>21, <2>22, <2>23, <2>24, <2>25
<1>4. CASE /\ file = orig[txn[t]] /\ Goto(t, "rmBackup")
           /\ UNCHANGED <<diskVars, runVars, txn, mine, crashes, edits>>
  <2>1. Moves(t, "rmBackup")
      BY <1>4, GotoMoves DEF Steps, RestoringSteps, Over
  <2>2. \A u \in Threads : u[1] # r => pc'[u] = pc[u]
      BY <2>1 DEF Moves, r
  <2>3. UNCHANGED <<diskVars, runVars, mine, crashes, edits>> /\ txn' = txn /\ file = orig[txn[t]]
      BY <1>4
  <2>4. Undisturbed => file = mine
      BY <1>0, <2>3 DEF FileInv, TransactionInv, RestoringSteps
  <2>20. TypeOK'
      BY <1>0, <1>1, <2>1, <2>2, <2>3, <2>4 DEF TypeOK, Moves
  <2>21. StageInv'
      BY <1>0, <1>1, <2>1, <2>2, <2>3, <2>4 DEF StageInv, Over, RestoringSteps, Moves
  <2>22. DiskInv'
      BY <1>0, <1>1, <2>1, <2>2, <2>3, <2>4 DEF DiskInv, StageInv, Undisturbed, Over, Moves
  <2>23. TransactionInv'
      BY <1>0, <1>1, <2>1, <2>2, <2>3, <2>4 DEF TransactionInv, RestoringSteps, Moves
  <2>24. FileInv'
      BY <1>0, <1>1, <2>1, <2>2, <2>3, <2>4 DEF FileInv, Undisturbed, Moves
  <2>25. OneAlive'
      BY <1>0, <1>1, <2>1, <2>2, <2>3, <2>4, KeepOneAlive
  <2> QED
      BY <2>20, <2>21, <2>22, <2>23, <2>24, <2>25
<1>5. CASE /\ Fail(t) /\ UNCHANGED <<file, marker, backup, runVars, mine, crashes, edits>>
           /\ txn' \in [Threads -> Runs \cup {NoRun}] /\ \A u \in Threads : u # t => txn'[u] = txn[u]
    BY <1>0, <1>5, FailInv
<1> QED
    BY <1>2, <1>3, <1>4, <1>5, <1>0 DEF CheckActive, TypeOK

LEMMA CopyBeginsInv == ASSUME ForceignoreInv, NEW t \in Threads, CopyBegins(t) PROVE ForceignoreInv'
<1> USE ThreadFacts DEF ForceignoreInv, runVars, diskVars
<1> DEFINE r == t[1]
<1>0. pc[t] = "copy" /\ pc[t] \in RestoringSteps
    BY DEF CopyBegins, RestoringSteps
<1>1. /\ pc[t] \notin Over /\ r \in Runs /\ Alive(r)
      /\ \A q \in Runs : q # r => pc[Main(q)] \in Over /\ pc[Listener(q)] \in Over
      /\ t = Main(r) \/ t = Listener(r)
    BY <1>0, Restorer
<1> HIDE DEF r
<1>2. CASE /\ file = "absent" /\ file' = "fragment" /\ writer' = t /\ Goto(t, "copying")
           /\ UNCHANGED <<marker, backup, runVars, txn, mine, crashes, edits>>
  <2>1. Moves(t, "copying")
      BY <1>2, GotoMoves DEF Steps, RestoringSteps, Over
  <2>2. \A u \in Threads : u[1] # r => pc'[u] = pc[u]
      BY <2>1 DEF Moves, r
  <2>3. /\ file = "absent" /\ file' = "fragment" /\ writer' = t /\ orig[txn[t]] # "absent"
        /\ txn[t] \in Runs /\ orig[txn[t]] # "none" /\ UNCHANGED <<marker, backup, runVars, txn, mine, crashes, edits>>
      BY <1>2, <1>0 DEF TransactionInv
  <2>4. Undisturbed => mine # "absent"
      BY <2>3 DEF FileInv
  <2>20. TypeOK'
      BY <1>0, <1>1, <2>1, <2>2, <2>3, <2>4 DEF TypeOK, Moves, Contents
  <2>21. StageInv'
      BY <1>0, <1>1, <2>1, <2>2, <2>3, <2>4 DEF StageInv, Over, RestoringSteps, Moves
  <2>22. DiskInv'
      BY <1>0, <1>1, <2>1, <2>2, <2>3, <2>4 DEF DiskInv, StageInv, Undisturbed, Over, Moves
  <2>23. TransactionInv'
      BY <1>0, <1>1, <2>1, <2>2, <2>3, <2>4 DEF TransactionInv, RestoringSteps, Moves
  <2>24. FileInv'
      BY <1>0, <1>1, <2>1, <2>2, <2>3, <2>4 DEF FileInv, Undisturbed, Moves
  <2>25. OneAlive'
      BY <1>0, <1>1, <2>1, <2>2, <2>3, <2>4, KeepOneAlive
  <2> QED
      BY <2>20, <2>21, <2>22, <2>23, <2>24, <2>25
<1>3. CASE /\ Fail(t) /\ UNCHANGED <<file, marker, backup, runVars, mine, crashes, edits>>
           /\ txn' \in [Threads -> Runs \cup {NoRun}] /\ \A u \in Threads : u # t => txn'[u] = txn[u]
    BY <1>0, <1>3, FailInv
<1> QED
    BY <1>2, <1>3, <1>0 DEF CopyBegins, TypeOK

LEMMA CopyEndsInv == ASSUME ForceignoreInv, NEW t \in Threads, CopyEnds(t) PROVE ForceignoreInv'
<1> USE ThreadFacts DEF ForceignoreInv, runVars, diskVars
<1> DEFINE r == t[1]
<1>0. pc[t] = "copying" /\ pc[t] \in RestoringSteps
    BY DEF CopyEnds, RestoringSteps
<1>1. /\ pc[t] \notin Over /\ r \in Runs /\ Alive(r)
      /\ \A q \in Runs : q # r => pc[Main(q)] \in Over /\ pc[Listener(q)] \in Over
      /\ t = Main(r) \/ t = Listener(r)
    BY <1>0, Restorer
<1> HIDE DEF r
<1>2. CASE /\ file' = (IF writer = t THEN orig[txn[t]] ELSE file)
           /\ writer' = (IF writer = t THEN NoThread ELSE writer) /\ Goto(t, "verify")
           /\ UNCHANGED <<marker, backup, runVars, txn, mine, crashes, edits>>
  <2>1. Moves(t, "verify")
      BY <1>2, GotoMoves DEF Steps, RestoringSteps, Over
  <2>2. \A u \in Threads : u[1] # r => pc'[u] = pc[u]
      BY <2>1 DEF Moves, r
  <2>3. /\ file' = (IF writer = t THEN orig[txn[t]] ELSE file)
        /\ writer' = (IF writer = t THEN NoThread ELSE writer)
        /\ UNCHANGED <<marker, backup, runVars, txn, mine, crashes, edits>>
      BY <1>2
  <2>4. txn[t] \in Runs /\ orig[txn[t]] \in Contents /\ orig[txn[t]] # "absent"
      BY <1>0 DEF TransactionInv, TypeOK
  <2>5. Undisturbed => orig[txn[t]] = mine
      BY <1>0, <2>4 DEF FileInv, TransactionInv
  <2>20. TypeOK'
      BY <1>0, <1>1, <2>1, <2>2, <2>3, <2>4, <2>5 DEF TypeOK, Moves
  <2>21. StageInv'
      BY <1>0, <1>1, <2>1, <2>2, <2>3, <2>4, <2>5 DEF StageInv, Over, RestoringSteps, Moves
  <2>22. DiskInv'
      BY <1>0, <1>1, <2>1, <2>2, <2>3, <2>4, <2>5 DEF DiskInv, StageInv, Undisturbed, Over, Moves
  <2>23. TransactionInv'
      BY <1>0, <1>1, <2>1, <2>2, <2>3, <2>4, <2>5 DEF TransactionInv, RestoringSteps, Moves
  <2>24. FileInv'
      BY <1>0, <1>1, <2>1, <2>2, <2>3, <2>4, <2>5 DEF FileInv, Undisturbed, Moves
  <2>25. OneAlive'
      BY <1>0, <1>1, <2>1, <2>2, <2>3, <2>4, <2>5, KeepOneAlive
  <2> QED
      BY <2>20, <2>21, <2>22, <2>23, <2>24, <2>25
<1> QED
    BY <1>2, <1>0 DEF CopyEnds, TypeOK

LEMMA VerifyInv == ASSUME ForceignoreInv, NEW t \in Threads, Verify(t) PROVE ForceignoreInv'
<1> USE ThreadFacts DEF ForceignoreInv, runVars, diskVars
<1> DEFINE r == t[1]
<1>0. pc[t] = "verify" /\ pc[t] \in RestoringSteps
    BY DEF Verify, RestoringSteps
<1>1. /\ pc[t] \notin Over /\ r \in Runs /\ Alive(r)
      /\ \A q \in Runs : q # r => pc[Main(q)] \in Over /\ pc[Listener(q)] \in Over
      /\ t = Main(r) \/ t = Listener(r)
    BY <1>0, Restorer
<1> HIDE DEF r
<1>2. CASE /\ file = orig[txn[t]] /\ Goto(t, "rmBackup")
           /\ UNCHANGED <<diskVars, runVars, txn, mine, crashes, edits>>
  <2>1. Moves(t, "rmBackup")
      BY <1>2, GotoMoves DEF Steps, RestoringSteps, Over
  <2>2. \A u \in Threads : u[1] # r => pc'[u] = pc[u]
      BY <2>1 DEF Moves, r
  <2>3. UNCHANGED <<diskVars, runVars, mine, crashes, edits>> /\ txn' = txn /\ file = orig[txn[t]]
      BY <1>2
  <2>4. Undisturbed => file = mine
      BY <1>0, <2>3 DEF FileInv, TransactionInv, RestoringSteps
  <2>20. TypeOK'
      BY <1>0, <1>1, <2>1, <2>2, <2>3, <2>4 DEF TypeOK, Moves
  <2>21. StageInv'
      BY <1>0, <1>1, <2>1, <2>2, <2>3, <2>4 DEF StageInv, Over, RestoringSteps, Moves
  <2>22. DiskInv'
      BY <1>0, <1>1, <2>1, <2>2, <2>3, <2>4 DEF DiskInv, StageInv, Undisturbed, Over, Moves
  <2>23. TransactionInv'
      BY <1>0, <1>1, <2>1, <2>2, <2>3, <2>4 DEF TransactionInv, RestoringSteps, Moves
  <2>24. FileInv'
      BY <1>0, <1>1, <2>1, <2>2, <2>3, <2>4 DEF FileInv, Undisturbed, Moves
  <2>25. OneAlive'
      BY <1>0, <1>1, <2>1, <2>2, <2>3, <2>4, KeepOneAlive
  <2> QED
      BY <2>20, <2>21, <2>22, <2>23, <2>24, <2>25
<1>3. CASE /\ Fail(t) /\ UNCHANGED <<file, marker, backup, runVars, mine, crashes, edits>>
           /\ txn' \in [Threads -> Runs \cup {NoRun}] /\ \A u \in Threads : u # t => txn'[u] = txn[u]
    BY <1>0, <1>3, FailInv
<1> QED
    BY <1>2, <1>3, <1>0 DEF Verify, TypeOK

LEMMA RemoveBackupInv == ASSUME ForceignoreInv, NEW t \in Threads, RemoveBackup(t) PROVE ForceignoreInv'
<1> USE ThreadFacts DEF ForceignoreInv, runVars, diskVars
<1> DEFINE r == t[1]
<1>0. pc[t] = "rmBackup" /\ pc[t] \in RestoringSteps
    BY DEF RemoveBackup, RestoringSteps
<1>1. /\ pc[t] \notin Over /\ r \in Runs /\ Alive(r)
      /\ \A q \in Runs : q # r => pc[Main(q)] \in Over /\ pc[Listener(q)] \in Over
      /\ t = Main(r) \/ t = Listener(r)
    BY <1>0, Restorer
<1> HIDE DEF r
<1>2. CASE /\ backup' = [backup EXCEPT ![txn[t]] = "none"] /\ Goto(t, "rmMarker")
           /\ UNCHANGED <<file, writer, marker, runVars, txn, mine, crashes, edits>>
  <2>1. Moves(t, "rmMarker")
      BY <1>2, GotoMoves DEF Steps, RestoringSteps, Over
  <2>2. \A u \in Threads : u[1] # r => pc'[u] = pc[u]
      BY <2>1 DEF Moves, r
  <2>3. /\ backup' \in [Runs -> Contents \cup {"none"}]
        /\ \A q \in Runs : backup'[q] = backup[q] \/ (q = txn[t] /\ backup'[q] = "none")
        /\ UNCHANGED <<file, writer, marker, runVars, txn, mine, crashes, edits>>
      BY <1>2 DEF TypeOK
  <2>4. \A q \in Runs : /\ pc'[Main(q)] \notin {"link", "recheck", "rmFile"}
                        /\ ~(pc'[Main(q)] = "held" /\ pc'[Listener(q)] = "idle")
      BY <1>0, <1>1, <2>1 DEF Moves, StageInv, Over, RestoringSteps, AfterRecovery
  <2>20. TypeOK'
      BY <1>0, <1>1, <2>1, <2>2, <2>3, <2>4 DEF TypeOK, Moves
  <2>21. StageInv'
      BY <1>0, <1>1, <2>1, <2>2, <2>3, <2>4 DEF StageInv, Over, RestoringSteps, Moves
  <2>22. DiskInv'
      BY <1>0, <1>1, <2>1, <2>2, <2>3, <2>4 DEF DiskInv, StageInv, Undisturbed, Over, Moves
  <2>23. TransactionInv'
      BY <1>0, <1>1, <2>1, <2>2, <2>3, <2>4 DEF TransactionInv, RestoringSteps, Moves, TypeOK
  <2>24. FileInv'
      BY <1>0, <1>1, <2>1, <2>2, <2>3, <2>4 DEF FileInv, Undisturbed, Moves
  <2>25. OneAlive'
      BY <1>0, <1>1, <2>1, <2>2, <2>3, <2>4, KeepOneAlive
  <2> QED
      BY <2>20, <2>21, <2>22, <2>23, <2>24, <2>25
<1>3. CASE /\ Fail(t) /\ UNCHANGED <<file, marker, backup, runVars, mine, crashes, edits>>
           /\ txn' \in [Threads -> Runs \cup {NoRun}] /\ \A u \in Threads : u # t => txn'[u] = txn[u]
    BY <1>0, <1>3, FailInv
<1> QED
    BY <1>2, <1>3, <1>0 DEF RemoveBackup, TypeOK

LEMMA RemoveMarkerInv == ASSUME ForceignoreInv, NEW t \in Threads, RemoveMarker(t) PROVE ForceignoreInv'
<1> USE ThreadFacts DEF ForceignoreInv, runVars, diskVars
<1> DEFINE r == t[1]
<1>0. pc[t] = "rmMarker" /\ pc[t] \in RestoringSteps
    BY DEF RemoveMarker, RestoringSteps
<1>1. /\ pc[t] \notin Over /\ r \in Runs /\ Alive(r)
      /\ \A q \in Runs : q # r => pc[Main(q)] \in Over /\ pc[Listener(q)] \in Over
      /\ t = Main(r) \/ t = Listener(r)
    BY <1>0, Restorer
<1> HIDE DEF r
<1>2. CASE /\ marker' = NoRun /\ Goto(t, IF orig[r] = "none" THEN AfterRecovery(r) ELSE "done")
           /\ restored' = [restored EXCEPT ![r] = orig[r] # "none"]
           /\ txn' = [txn EXCEPT ![t] = NoRun]
           /\ UNCHANGED <<file, writer, backup, orig, kind, mine, crashes, edits>>
  <2>1. Moves(t, IF orig[r] = "none" THEN AfterRecovery(r) ELSE "done")
      BY <1>2, GotoMoves DEF Steps, Over, AfterRecovery
  <2>2. \A u \in Threads : u[1] # r => pc'[u] = pc[u]
      BY <2>1 DEF Moves, r
  <2>3. /\ marker' = NoRun /\ restored' \in [Runs -> BOOLEAN] /\ (restored'[r] <=> orig[r] # "none")
        /\ \A q \in Runs : q # r => restored'[q] = restored[q]
        /\ txn' \in [Threads -> Runs \cup {NoRun}] /\ \A u \in Threads : u # t => txn'[u] = txn[u]
        /\ UNCHANGED <<file, writer, backup, orig, kind, mine, crashes, edits>>
      BY <1>2, <1>1 DEF TypeOK
  <2>4. Undisturbed => file = mine
      BY <1>0 DEF FileInv
  <2>5. \A q \in Runs : /\ pc'[Main(q)] \notin {"link", "recheck", "rmFile"}
                        /\ ~(pc'[Main(q)] = "held" /\ pc'[Listener(q)] = "idle")
      BY <1>0, <1>1, <2>1 DEF Moves, StageInv, Over, RestoringSteps, AfterRecovery
  <2>6. /\ orig[r] = "none" => pc'[t] \in {"done", "read"} /\ t = Main(r)
        /\ orig[r] # "none" => pc'[t] = "done"
      BY <1>0, <1>1, <2>1 DEF Moves, AfterRecovery, StageInv, RestoringSteps
  <2>20. TypeOK'
      BY <1>0, <1>1, <2>1, <2>2, <2>3, <2>4, <2>5, <2>6 DEF TypeOK, Moves
  <2>21. StageInv'
      BY <1>0, <1>1, <2>1, <2>2, <2>3, <2>4, <2>5, <2>6 DEF StageInv, Over, RestoringSteps, Moves, TypeOK
  <2>22. DiskInv'
      BY <1>0, <1>1, <2>1, <2>2, <2>3, <2>4, <2>5, <2>6 DEF DiskInv, StageInv, Undisturbed, Over, Moves
  <2>23. TransactionInv'
      BY <1>0, <1>1, <2>1, <2>2, <2>3, <2>4, <2>5, <2>6 DEF TransactionInv, RestoringSteps, Moves
  <2>24. FileInv'
      BY <1>0, <1>1, <2>1, <2>2, <2>3, <2>4, <2>5, <2>6 DEF FileInv, Undisturbed, Moves
  <2>25. OneAlive'
      BY <1>0, <1>1, <2>1, <2>2, <2>3, <2>4, <2>5, <2>6, KeepOneAlive
  <2> QED
      BY <2>20, <2>21, <2>22, <2>23, <2>24, <2>25
<1>3. CASE /\ Fail(t) /\ UNCHANGED <<file, marker, backup, runVars, mine, crashes, edits>>
           /\ txn' \in [Threads -> Runs \cup {NoRun}] /\ \A u \in Threads : u # t => txn'[u] = txn[u]
    BY <1>0, <1>3, FailInv
<1> QED
    BY <1>2, <1>3, <1>0 DEF RemoveMarker, TypeOK, r

-----------------------------------------------------------------------------
(* The steps of the main thread of a run. *)

LEMMA MainAlone ==
    ASSUME ForceignoreInv, NEW r \in Runs, pc[Main(r)] \notin Over
    PROVE  /\ Alive(r) /\ \A q \in Runs : q # r => pc[Main(q)] \in Over /\ pc[Listener(q)] \in Over
BY Alone, ThreadFacts DEF ForceignoreInv

LEMMA LookInv == ASSUME ForceignoreInv, NEW r \in Runs, Look(r) PROVE ForceignoreInv'
<1> USE ThreadFacts, RunConstants DEF ForceignoreInv, runVars, diskVars
<1>0. pc[Main(r)] = "look"
    BY DEF Look
<1>1. /\ Alive(r) /\ \A q \in Runs : q # r => pc[Main(q)] \in Over /\ pc[Listener(q)] \in Over
    BY <1>0, MainAlone DEF Over
<1>2. CASE marker = NoRun /\ Goto(Main(r), AfterRecovery(r))
            /\ UNCHANGED <<diskVars, runVars, txn, mine, crashes, edits>>
  <2>1. Moves(Main(r), AfterRecovery(r))
      BY <1>2, GotoMoves DEF Steps, Over, RestoringSteps, AfterRecovery
  <2>2. \A u \in Threads : u[1] # r => pc'[u] = pc[u]
      BY <2>1 DEF Moves
  <2>3. UNCHANGED <<diskVars, runVars, txn, mine, crashes, edits>> /\ marker = NoRun
      BY <1>2
  <2>4. pc'[Main(r)] \in {"done", "read"}
      BY <2>1 DEF Moves, AfterRecovery
  <2>20. TypeOK'
      BY <1>0, <1>1, <2>1, <2>2, <2>3, <2>4 DEF TypeOK, Moves
  <2>21. StageInv'
      BY <1>0, <1>1, <2>1, <2>2, <2>3, <2>4 DEF StageInv, Over, RestoringSteps, Moves
  <2>22. DiskInv'
      BY <1>0, <1>1, <2>1, <2>2, <2>3, <2>4 DEF DiskInv, StageInv, Undisturbed, Over, Moves
  <2>23. TransactionInv'
      BY <1>0, <1>1, <2>1, <2>2, <2>3, <2>4 DEF TransactionInv, RestoringSteps, Moves
  <2>24. FileInv'
      BY <1>0, <1>1, <2>1, <2>2, <2>3, <2>4 DEF FileInv, Undisturbed, Moves
  <2>25. OneAlive'
      BY <1>0, <1>1, <2>1, <2>2, <2>3, <2>4, KeepOneAlive
  <2> QED
      BY <2>20, <2>21, <2>22, <2>23, <2>24, <2>25
<1>3. CASE marker # NoRun /\ Goto(Main(r), "loadMarker")
            /\ UNCHANGED <<diskVars, runVars, txn, mine, crashes, edits>>
  <2>1. Moves(Main(r), "loadMarker")
      BY <1>3, GotoMoves DEF Steps, Over, RestoringSteps, AfterRecovery
  <2>2. \A u \in Threads : u[1] # r => pc'[u] = pc[u]
      BY <2>1 DEF Moves
  <2>3. UNCHANGED <<diskVars, runVars, txn, mine, crashes, edits>> /\ marker # NoRun
      BY <1>3
  <2>20. TypeOK'
      BY <1>0, <1>1, <2>1, <2>2, <2>3 DEF TypeOK, Moves
  <2>21. StageInv'
      BY <1>0, <1>1, <2>1, <2>2, <2>3 DEF StageInv, Over, RestoringSteps, Moves
  <2>22. DiskInv'
      BY <1>0, <1>1, <2>1, <2>2, <2>3 DEF DiskInv, StageInv, Undisturbed, Over, Moves
  <2>23. TransactionInv'
      BY <1>0, <1>1, <2>1, <2>2, <2>3 DEF TransactionInv, RestoringSteps, Moves
  <2>24. FileInv'
      BY <1>0, <1>1, <2>1, <2>2, <2>3 DEF FileInv, Undisturbed, Moves
  <2>25. OneAlive'
      BY <1>0, <1>1, <2>1, <2>2, <2>3, KeepOneAlive
  <2> QED
      BY <2>20, <2>21, <2>22, <2>23, <2>24, <2>25
<1> QED
    BY <1>2, <1>3, <1>0 DEF Look

LEMMA ReadOriginalInv == ASSUME ForceignoreInv, NEW r \in Runs, ReadOriginal(r) PROVE ForceignoreInv'
<1> USE ThreadFacts, RunConstants DEF ForceignoreInv, runVars, diskVars
<1>0. pc[Main(r)] = "read"
    BY DEF ReadOriginal
<1>1. /\ Alive(r) /\ \A q \in Runs : q # r => pc[Main(q)] \in Over /\ pc[Listener(q)] \in Over
    BY <1>0, MainAlone DEF Over
<1>2. CASE orig' = [orig EXCEPT ![r] = file] /\ Goto(Main(r), "backup")
            /\ UNCHANGED <<diskVars, kind, restored, txn, mine, crashes, edits>>
  <2>1. Moves(Main(r), "backup")
      BY <1>2, GotoMoves DEF Steps, Over, RestoringSteps, AfterRecovery
  <2>2. \A u \in Threads : u[1] # r => pc'[u] = pc[u]
      BY <2>1 DEF Moves
  <2>3. /\ orig' \in [Runs -> Contents \cup {"none"}] /\ orig'[r] = file /\ orig[r] = "none" /\ file # "none"
        /\ \A q \in Runs : q # r => orig'[q] = orig[q]
        /\ UNCHANGED <<diskVars, kind, restored, txn, mine, crashes, edits>>
      BY <1>2, <1>0 DEF TypeOK, StageInv, Contents
  <2>4. marker = NoRun /\ pc[Listener(r)] = "idle" /\ ~restored[r]
      BY <1>0 DEF DiskInv, StageInv
  <2>5. Undisturbed => file = mine
      BY <2>4 DEF FileInv
  <2>20. TypeOK'
      BY <1>0, <1>1, <2>1, <2>2, <2>3, <2>4, <2>5 DEF TypeOK, Moves
  <2>21. StageInv'
      BY <1>0, <1>1, <2>1, <2>2, <2>3, <2>4, <2>5 DEF StageInv, Over, RestoringSteps, Moves
  <2>22. DiskInv'
      BY <1>0, <1>1, <2>1, <2>2, <2>3, <2>4, <2>5 DEF DiskInv, StageInv, Undisturbed, Over, Moves
  <2>23. TransactionInv'
      BY <1>0, <1>1, <2>1, <2>2, <2>3, <2>4, <2>5 DEF TransactionInv, RestoringSteps, Moves
  <2>24. FileInv'
      BY <1>0, <1>1, <2>1, <2>2, <2>3, <2>4, <2>5 DEF FileInv, Undisturbed, Moves
  <2>25. OneAlive'
      BY <1>0, <1>1, <2>1, <2>2, <2>3, <2>4, <2>5, KeepOneAlive
  <2> QED
      BY <2>20, <2>21, <2>22, <2>23, <2>24, <2>25
<1> QED
    BY <1>2, <1>0 DEF ReadOriginal

LEMMA WriteBackupInv == ASSUME ForceignoreInv, NEW r \in Runs, WriteBackup(r) PROVE ForceignoreInv'
<1> USE ThreadFacts, RunConstants DEF ForceignoreInv, runVars, diskVars
<1>0. pc[Main(r)] = "backup"
    BY DEF WriteBackup
<1>1. /\ Alive(r) /\ \A q \in Runs : q # r => pc[Main(q)] \in Over /\ pc[Listener(q)] \in Over
    BY <1>0, MainAlone DEF Over
<1>2. CASE backup' = [backup EXCEPT ![r] = orig[r]] /\ Goto(Main(r), "link")
            /\ UNCHANGED <<file, writer, marker, runVars, txn, mine, crashes, edits>>
  <2>1. Moves(Main(r), "link")
      BY <1>2, GotoMoves DEF Steps, Over, RestoringSteps, AfterRecovery
  <2>2. \A u \in Threads : u[1] # r => pc'[u] = pc[u]
      BY <2>1 DEF Moves
  <2>3. /\ backup' \in [Runs -> Contents \cup {"none"}] /\ backup'[r] = orig[r]
        /\ \A q \in Runs : q # r => backup'[q] = backup[q]
        /\ UNCHANGED <<file, writer, marker, runVars, txn, mine, crashes, edits>>
      BY <1>2 DEF TypeOK, Contents
  <2>4. marker = NoRun
      BY <1>0 DEF DiskInv
  <2>20. TypeOK'
      BY <1>0, <1>1, <2>1, <2>2, <2>3, <2>4 DEF TypeOK, Moves
  <2>21. StageInv'
      BY <1>0, <1>1, <2>1, <2>2, <2>3, <2>4 DEF StageInv, Over, RestoringSteps, Moves
  <2>22. DiskInv'
      BY <1>0, <1>1, <2>1, <2>2, <2>3, <2>4 DEF DiskInv, StageInv, Undisturbed, Over, Moves
  <2>23. TransactionInv'
      BY <1>0, <1>1, <2>1, <2>2, <2>3, <2>4 DEF TransactionInv, RestoringSteps, Moves
  <2>24. FileInv'
      BY <1>0, <1>1, <2>1, <2>2, <2>3, <2>4 DEF FileInv, Undisturbed, Moves
  <2>25. OneAlive'
      BY <1>0, <1>1, <2>1, <2>2, <2>3, <2>4, KeepOneAlive
  <2> QED
      BY <2>20, <2>21, <2>22, <2>23, <2>24, <2>25
<1>3. CASE backup' = [backup EXCEPT ![r] = "fragment"] /\ Goto(Main(r), "failed")
            /\ UNCHANGED <<file, writer, marker, runVars, txn, mine, crashes, edits>>
  <2>1. Moves(Main(r), "failed")
      BY <1>3, GotoMoves DEF Steps, Over, RestoringSteps, AfterRecovery
  <2>2. \A u \in Threads : u[1] # r => pc'[u] = pc[u]
      BY <2>1 DEF Moves
  <2>3. /\ backup' \in [Runs -> Contents \cup {"none"}] /\ backup'[r] = "fragment"
        /\ \A q \in Runs : q # r => backup'[q] = backup[q]
        /\ UNCHANGED <<file, writer, marker, runVars, txn, mine, crashes, edits>>
      BY <1>3 DEF TypeOK, Contents
  <2>4. marker = NoRun
      BY <1>0 DEF DiskInv
  <2>20. TypeOK'
      BY <1>0, <1>1, <2>1, <2>2, <2>3, <2>4 DEF TypeOK, Moves
  <2>21. StageInv'
      BY <1>0, <1>1, <2>1, <2>2, <2>3, <2>4 DEF StageInv, Over, RestoringSteps, Moves
  <2>22. DiskInv'
      BY <1>0, <1>1, <2>1, <2>2, <2>3, <2>4 DEF DiskInv, StageInv, Undisturbed, Over, Moves
  <2>23. TransactionInv'
      BY <1>0, <1>1, <2>1, <2>2, <2>3, <2>4 DEF TransactionInv, RestoringSteps, Moves
  <2>24. FileInv'
      BY <1>0, <1>1, <2>1, <2>2, <2>3, <2>4 DEF FileInv, Undisturbed, Moves
  <2>25. OneAlive'
      BY <1>0, <1>1, <2>1, <2>2, <2>3, <2>4, KeepOneAlive
  <2> QED
      BY <2>20, <2>21, <2>22, <2>23, <2>24, <2>25
<1> QED
    BY <1>2, <1>3, <1>0 DEF WriteBackup

LEMMA PublishMarkerInv == ASSUME ForceignoreInv, NEW r \in Runs, PublishMarker(r) PROVE ForceignoreInv'
<1> USE ThreadFacts, RunConstants DEF ForceignoreInv, runVars, diskVars
<1>0. pc[Main(r)] = "link"
    BY DEF PublishMarker
<1>1. /\ Alive(r) /\ \A q \in Runs : q # r => pc[Main(q)] \in Over /\ pc[Listener(q)] \in Over
    BY <1>0, MainAlone DEF Over
<1>2. CASE /\ marker' = r /\ orig[r] = "absent" /\ Goto(Main(r), "held")
           /\ UNCHANGED <<file, writer, backup, runVars, txn, mine, crashes, edits>>
  <2>1. Moves(Main(r), "held")
      BY <1>2, GotoMoves DEF Steps, Over, RestoringSteps, AfterRecovery
  <2>2. \A u \in Threads : u[1] # r => pc'[u] = pc[u]
      BY <2>1 DEF Moves
  <2>3. /\ marker' = r /\ orig[r] = "absent"
        /\ UNCHANGED <<file, writer, backup, runVars, txn, mine, crashes, edits>>
      BY <1>2
  <2>4. /\ marker = NoRun /\ backup[r] = orig[r] /\ orig[r] # "none" /\ ~restored[r]
        /\ pc[Listener(r)] = "idle"
      BY <1>0 DEF DiskInv, StageInv, RestoringSteps
  <2>5. Undisturbed => file = mine /\ orig[r] = mine
      BY <2>4 DEF FileInv
  <2>20. TypeOK'
      BY <1>0, <1>1, <2>1, <2>2, <2>3, <2>4, <2>5 DEF TypeOK, Moves
  <2>21. StageInv'
      BY <1>0, <1>1, <2>1, <2>2, <2>3, <2>4, <2>5 DEF StageInv, Over, RestoringSteps, Moves
  <2>22. DiskInv'
      BY <1>0, <1>1, <2>1, <2>2, <2>3, <2>4, <2>5 DEF DiskInv, StageInv, Undisturbed, Over, Moves
  <2>23. TransactionInv'
      BY <1>0, <1>1, <2>1, <2>2, <2>3, <2>4, <2>5 DEF TransactionInv, RestoringSteps, Moves
  <2>24. FileInv'
      BY <1>0, <1>1, <2>1, <2>2, <2>3, <2>4, <2>5 DEF FileInv, Undisturbed, Moves
  <2>25. OneAlive'
      BY <1>0, <1>1, <2>1, <2>2, <2>3, <2>4, <2>5, KeepOneAlive
  <2> QED
      BY <2>20, <2>21, <2>22, <2>23, <2>24, <2>25
<1>3. CASE /\ marker' = r /\ orig[r] # "absent" /\ Goto(Main(r), "recheck")
           /\ UNCHANGED <<file, writer, backup, runVars, txn, mine, crashes, edits>>
  <2>1. Moves(Main(r), "recheck")
      BY <1>3, GotoMoves DEF Steps, Over, RestoringSteps, AfterRecovery
  <2>2. \A u \in Threads : u[1] # r => pc'[u] = pc[u]
      BY <2>1 DEF Moves
  <2>3. /\ marker' = r /\ orig[r] # "absent"
        /\ UNCHANGED <<file, writer, backup, runVars, txn, mine, crashes, edits>>
      BY <1>3
  <2>4. /\ marker = NoRun /\ backup[r] = orig[r] /\ orig[r] # "none" /\ ~restored[r]
        /\ pc[Listener(r)] = "idle"
      BY <1>0 DEF DiskInv, StageInv, RestoringSteps
  <2>5. Undisturbed => file = mine /\ orig[r] = mine
      BY <2>4 DEF FileInv
  <2>20. TypeOK'
      BY <1>0, <1>1, <2>1, <2>2, <2>3, <2>4, <2>5 DEF TypeOK, Moves
  <2>21. StageInv'
      BY <1>0, <1>1, <2>1, <2>2, <2>3, <2>4, <2>5 DEF StageInv, Over, RestoringSteps, Moves
  <2>22. DiskInv'
      BY <1>0, <1>1, <2>1, <2>2, <2>3, <2>4, <2>5 DEF DiskInv, StageInv, Undisturbed, Over, Moves
  <2>23. TransactionInv'
      BY <1>0, <1>1, <2>1, <2>2, <2>3, <2>4, <2>5 DEF TransactionInv, RestoringSteps, Moves
  <2>24. FileInv'
      BY <1>0, <1>1, <2>1, <2>2, <2>3, <2>4, <2>5 DEF FileInv, Undisturbed, Moves
  <2>25. OneAlive'
      BY <1>0, <1>1, <2>1, <2>2, <2>3, <2>4, <2>5, KeepOneAlive
  <2> QED
      BY <2>20, <2>21, <2>22, <2>23, <2>24, <2>25
<1>4. CASE Goto(Main(r), "undoLook")
            /\ UNCHANGED <<diskVars, runVars, txn, mine, crashes, edits>>
  <2>1. Moves(Main(r), "undoLook")
      BY <1>4, GotoMoves DEF Steps, Over, RestoringSteps, AfterRecovery
  <2>2. \A u \in Threads : u[1] # r => pc'[u] = pc[u]
      BY <2>1 DEF Moves
  <2>3. UNCHANGED <<diskVars, runVars, txn, mine, crashes, edits>>
      BY <1>4
  <2>20. TypeOK'
      BY <1>0, <1>1, <2>1, <2>2, <2>3 DEF TypeOK, Moves
  <2>21. StageInv'
      BY <1>0, <1>1, <2>1, <2>2, <2>3 DEF StageInv, Over, RestoringSteps, Moves
  <2>22. DiskInv'
      BY <1>0, <1>1, <2>1, <2>2, <2>3 DEF DiskInv, StageInv, Undisturbed, Over, Moves
  <2>23. TransactionInv'
      BY <1>0, <1>1, <2>1, <2>2, <2>3 DEF TransactionInv, RestoringSteps, Moves
  <2>24. FileInv'
      BY <1>0, <1>1, <2>1, <2>2, <2>3 DEF FileInv, Undisturbed, Moves
  <2>25. OneAlive'
      BY <1>0, <1>1, <2>1, <2>2, <2>3, KeepOneAlive
  <2> QED
      BY <2>20, <2>21, <2>22, <2>23, <2>24, <2>25
<1> QED
    BY <1>2, <1>3, <1>4, <1>0 DEF PublishMarker

LEMMA RecheckInv == ASSUME ForceignoreInv, NEW r \in Runs, Recheck(r) PROVE ForceignoreInv'
<1> USE ThreadFacts, RunConstants DEF ForceignoreInv, runVars, diskVars
<1>0. pc[Main(r)] = "recheck"
    BY DEF Recheck
<1>1. /\ Alive(r) /\ \A q \in Runs : q # r => pc[Main(q)] \in Over /\ pc[Listener(q)] \in Over
    BY <1>0, MainAlone DEF Over
<1>2. CASE Goto(Main(r), "rmFile") /\ UNCHANGED <<diskVars, runVars, txn, mine, crashes, edits>>
  <2>1. Moves(Main(r), "rmFile")
      BY <1>2, GotoMoves DEF Steps, Over, RestoringSteps, AfterRecovery
  <2>2. \A u \in Threads : u[1] # r => pc'[u] = pc[u]
      BY <2>1 DEF Moves
  <2>3. UNCHANGED <<diskVars, runVars, txn, mine, crashes, edits>>
      BY <1>2
  <2>20. TypeOK'
      BY <1>0, <1>1, <2>1, <2>2, <2>3 DEF TypeOK, Moves
  <2>21. StageInv'
      BY <1>0, <1>1, <2>1, <2>2, <2>3 DEF StageInv, Over, RestoringSteps, Moves
  <2>22. DiskInv'
      BY <1>0, <1>1, <2>1, <2>2, <2>3 DEF DiskInv, StageInv, Undisturbed, Over, Moves
  <2>23. TransactionInv'
      BY <1>0, <1>1, <2>1, <2>2, <2>3 DEF TransactionInv, RestoringSteps, Moves
  <2>24. FileInv'
      BY <1>0, <1>1, <2>1, <2>2, <2>3 DEF FileInv, Undisturbed, Moves
  <2>25. OneAlive'
      BY <1>0, <1>1, <2>1, <2>2, <2>3, KeepOneAlive
  <2> QED
      BY <2>20, <2>21, <2>22, <2>23, <2>24, <2>25
<1>3. CASE Goto(Main(r), "undoLook") /\ UNCHANGED <<diskVars, runVars, txn, mine, crashes, edits>>
  <2>1. Moves(Main(r), "undoLook")
      BY <1>3, GotoMoves DEF Steps, Over, RestoringSteps, AfterRecovery
  <2>2. \A u \in Threads : u[1] # r => pc'[u] = pc[u]
      BY <2>1 DEF Moves
  <2>3. UNCHANGED <<diskVars, runVars, txn, mine, crashes, edits>>
      BY <1>3
  <2>20. TypeOK'
      BY <1>0, <1>1, <2>1, <2>2, <2>3 DEF TypeOK, Moves
  <2>21. StageInv'
      BY <1>0, <1>1, <2>1, <2>2, <2>3 DEF StageInv, Over, RestoringSteps, Moves
  <2>22. DiskInv'
      BY <1>0, <1>1, <2>1, <2>2, <2>3 DEF DiskInv, StageInv, Undisturbed, Over, Moves
  <2>23. TransactionInv'
      BY <1>0, <1>1, <2>1, <2>2, <2>3 DEF TransactionInv, RestoringSteps, Moves
  <2>24. FileInv'
      BY <1>0, <1>1, <2>1, <2>2, <2>3 DEF FileInv, Undisturbed, Moves
  <2>25. OneAlive'
      BY <1>0, <1>1, <2>1, <2>2, <2>3, KeepOneAlive
  <2> QED
      BY <2>20, <2>21, <2>22, <2>23, <2>24, <2>25
<1> QED
    BY <1>2, <1>3, <1>0 DEF Recheck

LEMMA RemoveFileInv == ASSUME ForceignoreInv, NEW r \in Runs, RemoveFile(r) PROVE ForceignoreInv'
<1> USE ThreadFacts, RunConstants DEF ForceignoreInv, runVars, diskVars
<1>0. pc[Main(r)] = "rmFile"
    BY DEF RemoveFile
<1>1. /\ Alive(r) /\ \A q \in Runs : q # r => pc[Main(q)] \in Over /\ pc[Listener(q)] \in Over
    BY <1>0, MainAlone DEF Over
<1>2. CASE /\ file' = "absent" /\ writer' = NoThread /\ Goto(Main(r), "held")
           /\ UNCHANGED <<marker, backup, runVars, txn, mine, crashes, edits>>
  <2>1. Moves(Main(r), "held")
      BY <1>2, GotoMoves DEF Steps, Over, RestoringSteps, AfterRecovery
  <2>2. \A u \in Threads : u[1] # r => pc'[u] = pc[u]
      BY <2>1 DEF Moves
  <2>3. /\ file' = "absent" /\ writer' = NoThread
        /\ UNCHANGED <<marker, backup, runVars, txn, mine, crashes, edits>>
      BY <1>2
  <2>4. /\ marker = r /\ backup[r] = orig[r] /\ orig[r] # "none" /\ ~restored[r]
        /\ pc[Listener(r)] = "idle"
      BY <1>0 DEF DiskInv, StageInv, RestoringSteps
  <2>5. \A t \in Threads : pc[t] \notin {"rmBackup", "rmMarker"}
      BY <1>0, <1>1, <2>4 DEF Over
  <2>20. TypeOK'
      BY <1>0, <1>1, <2>1, <2>2, <2>3, <2>4, <2>5 DEF TypeOK, Moves, Contents
  <2>21. StageInv'
      BY <1>0, <1>1, <2>1, <2>2, <2>3, <2>4, <2>5 DEF StageInv, Over, RestoringSteps, Moves
  <2>22. DiskInv'
      BY <1>0, <1>1, <2>1, <2>2, <2>3, <2>4, <2>5 DEF DiskInv, StageInv, Undisturbed, Over, Moves
  <2>23. TransactionInv'
      BY <1>0, <1>1, <2>1, <2>2, <2>3, <2>4, <2>5 DEF TransactionInv, RestoringSteps, Moves
  <2>24. FileInv'
      BY <1>0, <1>1, <2>1, <2>2, <2>3, <2>4, <2>5 DEF FileInv, Undisturbed, Moves
  <2>25. OneAlive'
      BY <1>0, <1>1, <2>1, <2>2, <2>3, <2>4, <2>5, KeepOneAlive
  <2> QED
      BY <2>20, <2>21, <2>22, <2>23, <2>24, <2>25
<1>3. CASE Goto(Main(r), "undoLook")
            /\ UNCHANGED <<diskVars, runVars, txn, mine, crashes, edits>>
  <2>1. Moves(Main(r), "undoLook")
      BY <1>3, GotoMoves DEF Steps, Over, RestoringSteps, AfterRecovery
  <2>2. \A u \in Threads : u[1] # r => pc'[u] = pc[u]
      BY <2>1 DEF Moves
  <2>3. UNCHANGED <<diskVars, runVars, txn, mine, crashes, edits>>
      BY <1>3
  <2>20. TypeOK'
      BY <1>0, <1>1, <2>1, <2>2, <2>3 DEF TypeOK, Moves
  <2>21. StageInv'
      BY <1>0, <1>1, <2>1, <2>2, <2>3 DEF StageInv, Over, RestoringSteps, Moves
  <2>22. DiskInv'
      BY <1>0, <1>1, <2>1, <2>2, <2>3 DEF DiskInv, StageInv, Undisturbed, Over, Moves
  <2>23. TransactionInv'
      BY <1>0, <1>1, <2>1, <2>2, <2>3 DEF TransactionInv, RestoringSteps, Moves
  <2>24. FileInv'
      BY <1>0, <1>1, <2>1, <2>2, <2>3 DEF FileInv, Undisturbed, Moves
  <2>25. OneAlive'
      BY <1>0, <1>1, <2>1, <2>2, <2>3, KeepOneAlive
  <2> QED
      BY <2>20, <2>21, <2>22, <2>23, <2>24, <2>25
<1> QED
    BY <1>2, <1>3, <1>0 DEF RemoveFile

LEMMA UndoLookInv == ASSUME ForceignoreInv, NEW r \in Runs, UndoLook(r) PROVE ForceignoreInv'
<1> USE ThreadFacts, RunConstants DEF ForceignoreInv, runVars, diskVars
<1>0. pc[Main(r)] = "undoLook"
    BY DEF UndoLook
<1>1. /\ Alive(r) /\ \A q \in Runs : q # r => pc[Main(q)] \in Over /\ pc[Listener(q)] \in Over
    BY <1>0, MainAlone DEF Over
<1>2. CASE marker = NoRun /\ Goto(Main(r), "undoBackup")
            /\ UNCHANGED <<diskVars, runVars, txn, mine, crashes, edits>>
  <2>1. Moves(Main(r), "undoBackup")
      BY <1>2, GotoMoves DEF Steps, Over, RestoringSteps, AfterRecovery
  <2>2. \A u \in Threads : u[1] # r => pc'[u] = pc[u]
      BY <2>1 DEF Moves
  <2>3. UNCHANGED <<diskVars, runVars, txn, mine, crashes, edits>> /\ marker = NoRun
      BY <1>2
  <2>20. TypeOK'
      BY <1>0, <1>1, <2>1, <2>2, <2>3 DEF TypeOK, Moves
  <2>21. StageInv'
      BY <1>0, <1>1, <2>1, <2>2, <2>3 DEF StageInv, Over, RestoringSteps, Moves
  <2>22. DiskInv'
      BY <1>0, <1>1, <2>1, <2>2, <2>3 DEF DiskInv, StageInv, Undisturbed, Over, Moves
  <2>23. TransactionInv'
      BY <1>0, <1>1, <2>1, <2>2, <2>3 DEF TransactionInv, RestoringSteps, Moves
  <2>24. FileInv'
      BY <1>0, <1>1, <2>1, <2>2, <2>3 DEF FileInv, Undisturbed, Moves
  <2>25. OneAlive'
      BY <1>0, <1>1, <2>1, <2>2, <2>3, KeepOneAlive
  <2> QED
      BY <2>20, <2>21, <2>22, <2>23, <2>24, <2>25
<1>3. CASE marker # NoRun /\ Goto(Main(r), "failed")
            /\ UNCHANGED <<diskVars, runVars, txn, mine, crashes, edits>>
  <2>1. Moves(Main(r), "failed")
      BY <1>3, GotoMoves DEF Steps, Over, RestoringSteps, AfterRecovery
  <2>2. \A u \in Threads : u[1] # r => pc'[u] = pc[u]
      BY <2>1 DEF Moves
  <2>3. UNCHANGED <<diskVars, runVars, txn, mine, crashes, edits>> /\ marker # NoRun
      BY <1>3
  <2>20. TypeOK'
      BY <1>0, <1>1, <2>1, <2>2, <2>3 DEF TypeOK, Moves
  <2>21. StageInv'
      BY <1>0, <1>1, <2>1, <2>2, <2>3 DEF StageInv, Over, RestoringSteps, Moves
  <2>22. DiskInv'
      BY <1>0, <1>1, <2>1, <2>2, <2>3 DEF DiskInv, StageInv, Undisturbed, Over, Moves
  <2>23. TransactionInv'
      BY <1>0, <1>1, <2>1, <2>2, <2>3 DEF TransactionInv, RestoringSteps, Moves
  <2>24. FileInv'
      BY <1>0, <1>1, <2>1, <2>2, <2>3 DEF FileInv, Undisturbed, Moves
  <2>25. OneAlive'
      BY <1>0, <1>1, <2>1, <2>2, <2>3, KeepOneAlive
  <2> QED
      BY <2>20, <2>21, <2>22, <2>23, <2>24, <2>25
<1> QED
    BY <1>2, <1>3, <1>0 DEF UndoLook

LEMMA UndoBackupInv == ASSUME ForceignoreInv, NEW r \in Runs, UndoBackup(r) PROVE ForceignoreInv'
<1> USE ThreadFacts, RunConstants DEF ForceignoreInv, runVars, diskVars
<1>0. pc[Main(r)] = "undoBackup"
    BY DEF UndoBackup
<1>1. /\ Alive(r) /\ \A q \in Runs : q # r => pc[Main(q)] \in Over /\ pc[Listener(q)] \in Over
    BY <1>0, MainAlone DEF Over
<1>2. CASE backup' = [backup EXCEPT ![r] = "none"] /\ Goto(Main(r), "failed")
            /\ UNCHANGED <<file, writer, marker, runVars, txn, mine, crashes, edits>>
  <2>1. Moves(Main(r), "failed")
      BY <1>2, GotoMoves DEF Steps, Over, RestoringSteps, AfterRecovery
  <2>2. \A u \in Threads : u[1] # r => pc'[u] = pc[u]
      BY <2>1 DEF Moves
  <2>3. /\ backup' \in [Runs -> Contents \cup {"none"}] /\ backup'[r] = "none"
        /\ \A q \in Runs : q # r => backup'[q] = backup[q]
        /\ UNCHANGED <<file, writer, marker, runVars, txn, mine, crashes, edits>>
      BY <1>2 DEF TypeOK, Contents
  <2>4. marker = NoRun
      BY <1>0 DEF DiskInv
  <2>20. TypeOK'
      BY <1>0, <1>1, <2>1, <2>2, <2>3, <2>4 DEF TypeOK, Moves
  <2>21. StageInv'
      BY <1>0, <1>1, <2>1, <2>2, <2>3, <2>4 DEF StageInv, Over, RestoringSteps, Moves
  <2>22. DiskInv'
      BY <1>0, <1>1, <2>1, <2>2, <2>3, <2>4 DEF DiskInv, StageInv, Undisturbed, Over, Moves
  <2>23. TransactionInv'
      BY <1>0, <1>1, <2>1, <2>2, <2>3, <2>4 DEF TransactionInv, RestoringSteps, Moves
  <2>24. FileInv'
      BY <1>0, <1>1, <2>1, <2>2, <2>3, <2>4 DEF FileInv, Undisturbed, Moves
  <2>25. OneAlive'
      BY <1>0, <1>1, <2>1, <2>2, <2>3, <2>4, KeepOneAlive
  <2> QED
      BY <2>20, <2>21, <2>22, <2>23, <2>24, <2>25
<1> QED
    BY <1>2, <1>0 DEF UndoBackup

LEMMA ReleaseInv == ASSUME ForceignoreInv, NEW r \in Runs, Release(r) PROVE ForceignoreInv'
<1> USE ThreadFacts, RunConstants DEF ForceignoreInv, runVars, diskVars
<1>0. pc[Main(r)] = "held"
    BY DEF Release
<1>1. /\ Alive(r) /\ \A q \in Runs : q # r => pc[Main(q)] \in Over /\ pc[Listener(q)] \in Over
    BY <1>0, MainAlone DEF Over
<1>2. CASE Goto(Main(r), "done") /\ UNCHANGED <<diskVars, runVars, txn, mine, crashes, edits>>
  <2>1. Moves(Main(r), "done")
      BY <1>2, GotoMoves DEF Steps, Over, RestoringSteps, AfterRecovery
  <2>2. \A u \in Threads : u[1] # r => pc'[u] = pc[u]
      BY <2>1 DEF Moves
  <2>3. UNCHANGED <<diskVars, runVars, txn, mine, crashes, edits>>
      BY <1>2
  <2>20. TypeOK'
      BY <1>0, <1>1, <2>1, <2>2, <2>3 DEF TypeOK, Moves
  <2>21. StageInv'
      BY <1>0, <1>1, <2>1, <2>2, <2>3 DEF StageInv, Over, RestoringSteps, Moves
  <2>22. DiskInv'
      BY <1>0, <1>1, <2>1, <2>2, <2>3 DEF DiskInv, StageInv, Undisturbed, Over, Moves
  <2>23. TransactionInv'
      BY <1>0, <1>1, <2>1, <2>2, <2>3 DEF TransactionInv, RestoringSteps, Moves
  <2>24. FileInv'
      BY <1>0, <1>1, <2>1, <2>2, <2>3 DEF FileInv, Undisturbed, Moves
  <2>25. OneAlive'
      BY <1>0, <1>1, <2>1, <2>2, <2>3, KeepOneAlive
  <2> QED
      BY <2>20, <2>21, <2>22, <2>23, <2>24, <2>25
<1>3. CASE Goto(Main(r), "loadMarker") /\ UNCHANGED <<diskVars, runVars, txn, mine, crashes, edits>>
  <2>1. Moves(Main(r), "loadMarker")
      BY <1>3, GotoMoves DEF Steps, Over, RestoringSteps, AfterRecovery
  <2>2. \A u \in Threads : u[1] # r => pc'[u] = pc[u]
      BY <2>1 DEF Moves
  <2>3. UNCHANGED <<diskVars, runVars, txn, mine, crashes, edits>>
      BY <1>3
  <2>20. TypeOK'
      BY <1>0, <1>1, <2>1, <2>2, <2>3 DEF TypeOK, Moves
  <2>21. StageInv'
      BY <1>0, <1>1, <2>1, <2>2, <2>3 DEF StageInv, Over, RestoringSteps, Moves
  <2>22. DiskInv'
      BY <1>0, <1>1, <2>1, <2>2, <2>3 DEF DiskInv, StageInv, Undisturbed, Over, Moves
  <2>23. TransactionInv'
      BY <1>0, <1>1, <2>1, <2>2, <2>3 DEF TransactionInv, RestoringSteps, Moves
  <2>24. FileInv'
      BY <1>0, <1>1, <2>1, <2>2, <2>3 DEF FileInv, Undisturbed, Moves
  <2>25. OneAlive'
      BY <1>0, <1>1, <2>1, <2>2, <2>3, KeepOneAlive
  <2> QED
      BY <2>20, <2>21, <2>22, <2>23, <2>24, <2>25
<1> QED
    BY <1>2, <1>3, <1>0 DEF Release

LEMMA InterruptInv == ASSUME ForceignoreInv, NEW r \in Runs, Interrupt(r) PROVE ForceignoreInv'
<1> USE ThreadFacts, RunConstants DEF ForceignoreInv, runVars, diskVars
<1>0. pc[Main(r)] = "held"
    BY DEF Interrupt
<1>1. /\ Alive(r) /\ \A q \in Runs : q # r => pc[Main(q)] \in Over /\ pc[Listener(q)] \in Over
    BY <1>0, MainAlone DEF Over
<1>2. CASE pc[Listener(r)] = "idle" /\ Goto(Listener(r), "loadMarker")
            /\ UNCHANGED <<diskVars, runVars, txn, mine, crashes, edits>>
  <2>1. Moves(Listener(r), "loadMarker")
      BY <1>2, GotoMoves DEF Steps, Over, RestoringSteps, AfterRecovery
  <2>2. \A u \in Threads : u[1] # r => pc'[u] = pc[u]
      BY <2>1 DEF Moves
  <2>3. pc[Listener(r)] = "idle" /\ UNCHANGED <<diskVars, runVars, txn, mine, crashes, edits>>
      BY <1>2
  <2>20. TypeOK'
      BY <1>0, <1>1, <2>1, <2>2, <2>3 DEF TypeOK, Moves
  <2>21. StageInv'
      BY <1>0, <1>1, <2>1, <2>2, <2>3 DEF StageInv, Over, RestoringSteps, Moves
  <2>22. DiskInv'
      BY <1>0, <1>1, <2>1, <2>2, <2>3 DEF DiskInv, StageInv, Undisturbed, Over, Moves
  <2>23. TransactionInv'
      BY <1>0, <1>1, <2>1, <2>2, <2>3 DEF TransactionInv, RestoringSteps, Moves
  <2>24. FileInv'
      BY <1>0, <1>1, <2>1, <2>2, <2>3 DEF FileInv, Undisturbed, Moves
  <2>25. OneAlive'
      BY <1>0, <1>1, <2>1, <2>2, <2>3, KeepOneAlive
  <2> QED
      BY <2>20, <2>21, <2>22, <2>23, <2>24, <2>25
<1> QED
    BY <1>2, <1>0 DEF Interrupt

LEMMA StartInv ==
    ASSUME ForceignoreInv, ~Overlap, NEW r \in Runs, Start(r)
    PROVE  ForceignoreInv'
<1> USE ThreadFacts DEF ForceignoreInv, runVars, diskVars
<1>1. Moves(Main(r), "look")
    BY GotoMoves DEF Start, Steps
<1>2. /\ pc[Main(r)] = "idle" /\ UNCHANGED <<diskVars, runVars, txn, mine, crashes, edits>>
      /\ \A q \in Runs : pc[Main(q)] \in Over /\ pc[Listener(q)] \in Over
    BY DEF Start, Alive
<1>3. TypeOK'
    BY <1>1, <1>2 DEF TypeOK, Moves
<1>4. OneAlive'
    BY <1>1, <1>2 DEF OneAlive, Alive, Moves
<1>5. StageInv'
    BY <1>1, <1>2 DEF StageInv, Moves, Over, RestoringSteps
<1>6. DiskInv'
    BY <1>1, <1>2 DEF DiskInv, Moves, Undisturbed
<1>7. TransactionInv'
    BY <1>1, <1>2 DEF TransactionInv, Moves, RestoringSteps
<1>8. FileInv'
    BY <1>1, <1>2 DEF FileInv, Moves, Undisturbed
<1> QED
    BY <1>3, <1>4, <1>5, <1>6, <1>7, <1>8

-----------------------------------------------------------------------------
(* The surroundings. *)

LEMMA CrashInv == ASSUME ForceignoreInv, NEW r \in Runs, Crash(r) PROVE ForceignoreInv'
<1> USE ThreadFacts DEF ForceignoreInv, runVars
<1>1. /\ UNCHANGED <<file, marker, backup, runVars, txn, mine, edits>> /\ crashes' = crashes + 1
      /\ writer' \in {writer, NoThread} /\ Alive(r)
    BY DEF Crash
<1>2. /\ pc' \in [Threads -> Steps]
      /\ \A u \in Threads : pc'[u] = pc[u] \/ (u[1] = r /\ pc[u] \notin Over /\ pc'[u] = "dead")
      /\ \A u \in Threads : u[1] = r => pc'[u] \in Over
    BY DEF Crash, TypeOK, Steps, Over
<1>3. TypeOK'
    BY <1>1, <1>2 DEF TypeOK
<1>4. OneAlive'
    BY <1>1, <1>2, KeepOneAlive
<1>5. StageInv'
  <2> SUFFICES ASSUME NEW q \in Runs
               PROVE  /\ pc'[Main(q)] = pc[Main(q)] \/ pc'[Main(q)] = "dead"
                      /\ pc'[Listener(q)] = pc[Listener(q)]
                            \/ (pc[Listener(q)] # "idle" /\ pc'[Listener(q)] = "dead")
      BY <1>1 DEF StageInv, Over, RestoringSteps
  <2> QED
      BY <1>2 DEF Over
<1>6. DiskInv'
    BY <1>1, <1>2 DEF DiskInv, Undisturbed, Over
<1>7. TransactionInv'
    BY <1>1, <1>2 DEF TransactionInv, RestoringSteps
<1>8. FileInv'
    BY <1>1, <1>2 DEF FileInv, Undisturbed
<1> QED
    BY <1>3, <1>4, <1>5, <1>6, <1>7, <1>8

LEMMA EditInv == ASSUME ForceignoreInv, Edit PROVE ForceignoreInv'
<1> USE DEF ForceignoreInv, Edit, runVars
<1>1. ~Undisturbed'
    BY DEF Undisturbed, TypeOK
<1>2. TypeOK'
    BY DEF TypeOK, Contents
<1>3. OneAlive'
    BY DEF OneAlive, Alive
<1>4. StageInv'
    BY DEF StageInv
<1>5. DiskInv'
    BY <1>1 DEF DiskInv
<1>6. TransactionInv'
    BY DEF TransactionInv
<1>7. FileInv'
    BY <1>1 DEF FileInv
<1> QED
    BY <1>2, <1>3, <1>4, <1>5, <1>6, <1>7

LEMMA StutterInv == ASSUME ForceignoreInv, UNCHANGED vars PROVE ForceignoreInv'
BY DEF ForceignoreInv, vars, diskVars, runVars, TypeOK, OneAlive, Alive, StageInv, DiskInv,
       TransactionInv, FileInv, Undisturbed

LEMMA StepInv == ASSUME ~Overlap PROVE ForceignoreInv /\ [Next]_vars => ForceignoreInv'
<1> SUFFICES ASSUME ForceignoreInv, [Next]_vars PROVE ForceignoreInv'
    OBVIOUS
<1>1. ASSUME NEW r \in Runs, Start(r) \/ Interrupt(r) \/ Crash(r) PROVE ForceignoreInv'
    BY <1>1, StartInv, InterruptInv, CrashInv
<1>2. ASSUME NEW t \in Threads, Restoring(t) PROVE ForceignoreInv'
    BY <1>2, LoadMarkerInv, LoadBackupInv, CheckActiveInv, CopyBeginsInv, CopyEndsInv, VerifyInv,
       RemoveBackupInv, RemoveMarkerInv DEF Restoring
<1>3. ASSUME NEW r \in Runs, Look(r) \/ Disabling(r) \/ Release(r) PROVE ForceignoreInv'
    BY <1>3, LookInv, ReadOriginalInv, WriteBackupInv, PublishMarkerInv, RecheckInv, RemoveFileInv,
       UndoLookInv, UndoBackupInv, ReleaseInv DEF Disabling
<1> QED
    BY <1>1, <1>2, <1>3, EditInv, StutterInv, ThreadFacts DEF Next, RunStep

-----------------------------------------------------------------------------
(* The theorems *)

\* The inductive invariant: who is at work, what a run knows of the disk, and that
\* the backup and the marker go only when the file is what the user had.
THEOREM ForceignoreInvariant == ASSUME ~Overlap PROVE Spec => []ForceignoreInv
    BY InitInv, StepInv, PTL DEF Spec

\* No run, crash or signal loses the user's file (forceignore-transaction.ts l.133-170).
THEOREM FileNeverLost == ASSUME ~Overlap PROVE Spec => []NeverLost
<1>1. ForceignoreInv => NeverLost
    BY DEF ForceignoreInv, NeverLost, FileInv, TransactionInv, TypeOK
<1> QED
    BY <1>1, ForceignoreInvariant, PTL

\* A run that holds its lease could be recovered (l.250-251, l.294-305).
THEOREM LeaseDurable == ASSUME ~Overlap PROVE Spec => []LeaseIsDurable
<1>1. ForceignoreInv => LeaseIsDurable
    BY DEF ForceignoreInv, LeaseIsDurable, DiskInv, StageInv, FileInv
<1> QED
    BY <1>1, ForceignoreInvariant, PTL

\* The steps that end a run without an error.
LEMMA DoneStep ==
    ASSUME ForceignoreInv, Next, NEW r \in Runs, pc[Main(r)] # "done", pc'[Main(r)] = "done"
    PROVE  (Undisturbed => file' = mine) /\ marker' = NoRun
<1> USE ThreadFacts DEF ForceignoreInv
<1>1. ASSUME NEW q \in Runs, Start(q) \/ Interrupt(q) \/ Crash(q) PROVE FALSE
    BY <1>1 DEF Start, Interrupt, Crash, Goto, TypeOK
<1>2. ASSUME NEW t \in Threads, Restoring(t), ~RemoveMarker(t) PROVE FALSE
    BY <1>2 DEF Restoring, LoadMarker, LoadBackup, CheckActive, CopyBegins, CopyEnds, Verify,
                RemoveBackup, Goto, Fail, TypeOK
<1>3. ASSUME NEW t \in Threads, RemoveMarker(t)
      PROVE  (Undisturbed => file' = mine) /\ marker' = NoRun
  <2>1. CASE marker = NoRun /\ Fail(t)
      BY <2>1 DEF Fail, Goto, TypeOK
  <2>2. CASE marker' = NoRun
      BY <1>3, <2>2 DEF RemoveMarker, FileInv
  <2> QED
      BY <1>3, <2>1, <2>2 DEF RemoveMarker
<1>4. ASSUME NEW q \in Runs, Look(q) PROVE (Undisturbed => file' = mine) /\ marker' = NoRun
    BY <1>4 DEF Look, Goto, TypeOK, FileInv, diskVars
<1>5. ASSUME NEW q \in Runs, Disabling(q) PROVE FALSE
    BY <1>5 DEF Disabling, ReadOriginal, WriteBackup, PublishMarker, Recheck, RemoveFile, UndoLook,
                UndoBackup, Goto, TypeOK
<1>6. ASSUME NEW q \in Runs, Release(q) PROVE (Undisturbed => file' = mine) /\ marker' = NoRun
    BY <1>6 DEF Release, Goto, TypeOK, DiskInv, FileInv, diskVars
<1>7. CASE Edit
    BY <1>7 DEF Edit
<1> QED
    BY <1>1, <1>2, <1>3, <1>4, <1>5, <1>6, <1>7 DEF Next, RunStep

\* A command that ends without an error leaves the file as the user had it and no
\* transaction behind (refresh-dependencies.ts l.100-106).
THEOREM DoneRestored == ASSUME ~Overlap PROVE Spec => DoneMeansRestored
<1> DEFINE Restored == \A r \in Runs :
        pc[Main(r)] # "done" /\ pc'[Main(r)] = "done" =>
            (Undisturbed => file' = mine) /\ marker' = NoRun
<1>1. ForceignoreInv /\ [Next]_vars => [Restored]_vars
    BY DoneStep
<1> QED
    BY <1>1, ForceignoreInvariant, PTL DEF DoneMeansRestored, Spec

\* Recovery and restoration never replace or remove a file that somebody else completed
\* (l.140-142, l.160, l.305).
THEOREM FilesKept == ASSUME ~Overlap PROVE Spec => RestoringKeepsFiles
<1> DEFINE Keeps ==
        file # file' /\ file \in {"original", "edited"} /\ edits' = edits
        => file' = "absent" /\ \E r \in Runs : RemovesBackedUp(r)
<1>1. ForceignoreInv /\ [Next]_vars => [Keeps]_vars
  <2> SUFFICES ASSUME ForceignoreInv, Next, file # file', file \in {"original", "edited"},
                      edits' = edits
               PROVE  file' = "absent" /\ \E r \in Runs : RemovesBackedUp(r)
      OBVIOUS
  <2> USE DEF ForceignoreInv, diskVars
  <2>1. ASSUME NEW r \in Runs, Start(r) \/ Interrupt(r) \/ Crash(r) PROVE FALSE
      BY <2>1 DEF Start, Interrupt, Crash
  <2>2. ASSUME NEW t \in Threads, Restoring(t) PROVE FALSE
    <3>1. writer = NoThread
        BY DEF FileInv
    <3> QED
        BY <2>2, <3>1, ThreadFacts DEF Restoring, LoadMarker, LoadBackup, CheckActive, CopyBegins,
           CopyEnds, Verify, RemoveBackup, RemoveMarker
  <2>3. ASSUME NEW r \in Runs, RemoveFile(r) PROVE file' = "absent" /\ RemovesBackedUp(r)
      BY <2>3 DEF RemoveFile, RemovesBackedUp, DiskInv
  <2>4. ASSUME NEW r \in Runs, Look(r) \/ Release(r) \/ (Disabling(r) /\ ~RemoveFile(r))
        PROVE FALSE
      BY <2>4 DEF Look, Release, Disabling, ReadOriginal, WriteBackup, PublishMarker, Recheck,
                  UndoLook, UndoBackup
  <2>5. CASE Edit
      BY <2>5 DEF Edit, TypeOK
  <2> QED
      BY <2>1, <2>2, <2>3, <2>4, <2>5, ThreadFacts DEF Next, RunStep
<1> QED
    BY <1>1, ForceignoreInvariant, PTL DEF RestoringKeepsFiles, Spec
=============================================================================
