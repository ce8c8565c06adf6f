------------------------ MODULE ForceignoreTransaction ------------------------
(***************************************************************************)
(* The durable transaction of sf-project that takes .forceignore out of    *)
(* the way while dependencies are retrieved and puts it back afterwards:   *)
(* application/forceignore-transaction.ts, driven by                       *)
(* application/refresh-dependencies.ts (and by `dependencies recover`).    *)
(*                                                                         *)
(* A run is one such command.  It has a main thread and, once it holds the *)
(* lease, a signal listener that restores on its own.  Every await on the  *)
(* file system is one step, so the threads of a run, other runs, the user  *)
(* and a crash may come in between.  copyFile is two: the file is there    *)
(* before it is complete.  The temporary file of the marker is left out:   *)
(* nothing ever reads it.                                                  *)
(***************************************************************************)
EXTENDS Naturals

CONSTANTS
    Runs,      \* each with its own operation id
    NoRun,
    Overlap,   \* whether a run may start before the others have ended
    Signals,   \* whether an interrupt may reach a run that holds the lease
    MaxCrashes,  \* bound: runs that are killed
    MaxEdits     \* bound: changes of .forceignore by the user

ASSUME RunConstants ==
    /\ NoRun \notin Runs
    /\ Overlap \in BOOLEAN /\ Signals \in BOOLEAN
    /\ MaxCrashes \in Nat /\ MaxEdits \in Nat

Threads == Runs \X {"main", "signal"}
Main(r) == <<r, "main">>
Listener(r) == <<r, "signal">>
NoThread == <<NoRun, "main">>

VARIABLES
    file,      \* .forceignore: "absent" or what it contains
    writer,    \* the thread whose copy of it is not complete yet
    marker,    \* .forceignore.sf-project.lock: the run it names
    backup,    \* per run: its backup file, "none" or the recorded original
    orig,      \* per run: the original it read, as its marker records it
    kind,      \* per run: which command it is
    pc,        \* per thread: the next step
    txn,       \* per thread: the run whose transaction it has loaded
    restored,  \* per run: the flag inside its lease
    mine,      \* observation: what the user has left in .forceignore
    crashes, edits

diskVars == <<file, writer, marker, backup>>
runVars == <<orig, kind, restored>>
vars == <<diskVars, runVars, pc, txn, mine, crashes, edits>>

Over == {"idle", "done", "failed", "dead"}

Init ==
    /\ file \in {"original", "absent"}
    /\ mine = file
    /\ writer = NoThread
    /\ marker = NoRun
    /\ backup = [r \in Runs |-> "none"]
    /\ orig = [r \in Runs |-> "none"]
    /\ kind \in [Runs -> {"refresh", "recover"}]
    /\ pc = [t \in Threads |-> "idle"]
    /\ txn = [t \in Threads |-> NoRun]
    /\ restored = [r \in Runs |-> FALSE]
    /\ crashes = 0
    /\ edits = 0

Alive(r) == pc[Main(r)] \notin Over \/ pc[Listener(r)] \notin Over

Goto(t, step) == pc' = [pc EXCEPT ![t] = step]

(* A rejection on the main thread ends the command; one nobody awaits, on  *)
(* the listener, ends the process with whatever it was doing.              *)
Fail(t) ==
    LET r == t[1] IN
    IF t = Main(r)
    THEN Goto(t, "failed") /\ UNCHANGED writer
    ELSE /\ pc' = [pc EXCEPT ![t] = "failed",
                             ![Main(r)] = IF @ \in Over THEN @ ELSE "dead"]
         /\ writer' = IF writer[1] = r THEN NoThread ELSE writer

-----------------------------------------------------------------------------
(* recoverForceignoreTransaction, the first stage of every run.            *)

Start(r) ==
    /\ pc[Main(r)] = "idle"
    /\ Overlap \/ \A q \in Runs : ~Alive(q)
    /\ Goto(Main(r), "look")
    /\ UNCHANGED <<diskVars, runVars, txn, mine, crashes, edits>>

AfterRecovery(r) == IF kind[r] = "recover" THEN "done" ELSE "read"

Look(r) ==
    /\ pc[Main(r)] = "look"
    /\ Goto(Main(r), IF marker = NoRun THEN AfterRecovery(r) ELSE "loadMarker")
    /\ UNCHANGED <<diskVars, runVars, txn, mine, crashes, edits>>

(* loadValidatedTransaction: the marker, then the backup it names.  It     *)
(* does not ask whose transaction it is.                                   *)
LoadMarker(t) ==
    /\ pc[t] = "loadMarker"
    /\ \/ /\ marker # NoRun
          /\ txn' = [txn EXCEPT ![t] = marker]
          /\ Goto(t, "loadBackup")
          /\ UNCHANGED writer
       \/ /\ marker = NoRun
          /\ Fail(t)
          /\ UNCHANGED txn
    /\ UNCHANGED <<file, marker, backup, runVars, mine, crashes, edits>>

LoadBackup(t) ==
    /\ pc[t] = "loadBackup"
    /\ \/ backup[txn[t]] = orig[txn[t]] /\ Goto(t, "check") /\ UNCHANGED writer
       \/ backup[txn[t]] # orig[txn[t]] /\ Fail(t)
    /\ UNCHANGED <<file, marker, backup, runVars, txn, mine, crashes, edits>>

(* Mutant of CheckActive: a file that is in the way is simply replaced.    *)
CheckActiveOverwrite(t) ==
    /\ pc[t] = "check"
    /\ file' = "absent"
    /\ Goto(t, IF orig[txn[t]] = "absent" THEN "rmBackup" ELSE "copy")
    /\ UNCHANGED <<writer, marker, backup, runVars, txn, mine, crashes, edits>>

(* Mutant of CheckActive: no active file is taken for a restored one.      *)
CheckActiveSettled(t) ==
    /\ pc[t] = "check"
    /\ \/ file \in {"absent", orig[txn[t]]} /\ Goto(t, "rmBackup") /\ UNCHANGED writer
       \/ file \notin {"absent", orig[txn[t]]} /\ Fail(t)
    /\ UNCHANGED <<file, marker, backup, runVars, txn, mine, crashes, edits>>

(* restoreValidatedTransaction: an active file is left alone, and is a     *)
(* failure unless it is the original.                                      *)
CheckActive(t) ==
    /\ pc[t] = "check"
    /\ \/ /\ file = "absent"
          /\ Goto(t, IF orig[txn[t]] = "absent" THEN "rmBackup" ELSE "copy")
          /\ UNCHANGED writer
       \/ /\ file # "absent"
          /\ file = orig[txn[t]]
          /\ Goto(t, "rmBackup")
          /\ UNCHANGED writer
       \/ /\ file # "absent"
          /\ file # orig[txn[t]]
          /\ Fail(t)
    /\ UNCHANGED <<file, marker, backup, runVars, txn, mine, crashes, edits>>

(* Mutant of CopyBegins: the backup is moved, not copied.                  *)
CopyBeginsByMoving(t) ==
    /\ pc[t] = "copy"
    /\ file = "absent" /\ backup[txn[t]] # "none"
    /\ file' = "fragment"
    /\ backup' = [backup EXCEPT ![txn[t]] = "none"]
    /\ writer' = t
    /\ Goto(t, "copying")
    /\ UNCHANGED <<marker, runVars, txn, mine, crashes, edits>>

CopyBegins(t) ==
    /\ pc[t] = "copy"
    /\ \/ /\ file = "absent" /\ backup[txn[t]] # "none"
          /\ file' = "fragment"
          /\ writer' = t
          /\ Goto(t, "copying")
       \/ /\ file # "absent" \/ backup[txn[t]] = "none"
          /\ Fail(t)
          /\ UNCHANGED file
    /\ UNCHANGED <<marker, backup, runVars, txn, mine, crashes, edits>>

CopyEnds(t) ==
    /\ pc[t] = "copying"
    /\ file' = IF writer = t THEN orig[txn[t]] ELSE file
    /\ writer' = IF writer = t THEN NoThread ELSE writer
    /\ Goto(t, "verify")
    /\ UNCHANGED <<marker, backup, runVars, txn, mine, crashes, edits>>

Verify(t) ==
    /\ pc[t] = "verify"
    /\ \/ file = orig[txn[t]] /\ Goto(t, "rmBackup") /\ UNCHANGED writer
       \/ file # orig[txn[t]] /\ Fail(t)
    /\ UNCHANGED <<file, marker, backup, runVars, txn, mine, crashes, edits>>

RemoveBackup(t) ==
    /\ pc[t] = "rmBackup"
    /\ \/ /\ backup[txn[t]] # "none"
          /\ backup' = [backup EXCEPT ![txn[t]] = "none"]
          /\ Goto(t, "rmMarker")
          /\ UNCHANGED writer
       \/ /\ backup[txn[t]] = "none"
          /\ Fail(t)
          /\ UNCHANGED backup
    /\ UNCHANGED <<file, marker, runVars, txn, mine, crashes, edits>>

(* The marker is removed by its name, whosever it is by now.  What follows *)
(* depends on the stage: a run that has read an original has a lease.      *)
RemoveMarker(t) ==
    LET r == t[1] IN
    /\ pc[t] = "rmMarker"
    /\ \/ /\ marker # NoRun
          /\ marker' = NoRun
          /\ Goto(t, IF orig[r] = "none" THEN AfterRecovery(r) ELSE "done")
          /\ restored' = [restored EXCEPT ![r] = orig[r] # "none"]
          /\ UNCHANGED writer
       \/ /\ marker = NoRun
          /\ Fail(t)
          /\ UNCHANGED <<marker, restored>>
    /\ txn' = [txn EXCEPT ![t] = NoRun]
    /\ UNCHANGED <<file, backup, orig, kind, mine, crashes, edits>>

-----------------------------------------------------------------------------
(* disableForceignore.                                                     *)

ReadOriginal(r) ==
    /\ pc[Main(r)] = "read"
    /\ orig' = [orig EXCEPT ![r] = file]
    /\ Goto(Main(r), "backup")
    /\ UNCHANGED <<diskVars, kind, restored, txn, mine, crashes, edits>>

(* The disk may fail here, before the try block: nothing is undone.        *)
WriteBackup(r) ==
    /\ pc[Main(r)] = "backup"
    /\ \/ backup' = [backup EXCEPT ![r] = orig[r]] /\ Goto(Main(r), "link")
       \/ backup' = [backup EXCEPT ![r] = "fragment"] /\ Goto(Main(r), "failed")
    /\ UNCHANGED <<file, writer, marker, runVars, txn, mine, crashes, edits>>

(* Mutant of Recheck: there is no second look at the file, and no removal.  *)
RecheckOnly(r) ==
    /\ pc[Main(r)] = "recheck"
    /\ Goto(Main(r), IF file = orig[r] THEN "held" ELSE "undoLook")
    /\ UNCHANGED <<diskVars, runVars, txn, mine, crashes, edits>>

(* link() fails when the marker exists, and may fail, like the temporary   *)
(* file before it, for the disk's own reasons.                             *)
PublishMarker(r) ==
    /\ pc[Main(r)] = "link"
    /\ \/ /\ marker = NoRun
          /\ marker' = r
          /\ Goto(Main(r), IF orig[r] = "absent" THEN "held" ELSE "recheck")
       \/ Goto(Main(r), "undoLook") /\ UNCHANGED marker
    /\ UNCHANGED <<file, writer, backup, runVars, txn, mine, crashes, edits>>

Recheck(r) ==
    /\ pc[Main(r)] = "recheck"
    /\ Goto(Main(r), IF file = orig[r] THEN "rmFile" ELSE "undoLook")
    /\ UNCHANGED <<diskVars, runVars, txn, mine, crashes, edits>>

RemoveFile(r) ==
    /\ pc[Main(r)] = "rmFile"
    /\ \/ /\ file # "absent"
          /\ file' = "absent"
          /\ writer' = NoThread
          /\ Goto(Main(r), "held")
       \/ /\ file = "absent"
          /\ Goto(Main(r), "undoLook")
          /\ UNCHANGED <<file, writer>>
    /\ UNCHANGED <<marker, backup, runVars, txn, mine, crashes, edits>>

(* The catch block: the backup goes only when there is no marker at all.   *)
UndoLook(r) ==
    /\ pc[Main(r)] = "undoLook"
    /\ Goto(Main(r), IF marker = NoRun THEN "undoBackup" ELSE "failed")
    /\ UNCHANGED <<diskVars, runVars, txn, mine, crashes, edits>>

UndoBackup(r) ==
    /\ pc[Main(r)] = "undoBackup"
    /\ backup' = [backup EXCEPT ![r] = "none"]
    /\ Goto(Main(r), "failed")
    /\ UNCHANGED <<file, writer, marker, runVars, txn, mine, crashes, edits>>

(* The cleanup and the retrievals are over, however they went: `finally`   *)
(* removes the listeners and restores unless the flag says it is done.     *)
Release(r) ==
    /\ pc[Main(r)] = "held"
    /\ Goto(Main(r), IF restored[r] THEN "done" ELSE "loadMarker")
    /\ UNCHANGED <<diskVars, runVars, txn, mine, crashes, edits>>

(* SIGINT or SIGTERM while the listeners are there: `void restore()`.      *)
Interrupt(r) ==
    /\ Signals
    /\ pc[Main(r)] = "held"
    /\ pc[Listener(r)] = "idle"
    /\ Goto(Listener(r), "loadMarker")
    /\ UNCHANGED <<diskVars, runVars, txn, mine, crashes, edits>>

-----------------------------------------------------------------------------
(* The surroundings: a killed process and the user's editor.               *)

Crash(r) ==
    /\ crashes < MaxCrashes
    /\ Alive(r)
    /\ pc' = [t \in Threads |->
                IF t[1] = r /\ pc[t] \notin Over THEN "dead" ELSE pc[t]]
    /\ writer' = IF writer[1] = r THEN NoThread ELSE writer
    /\ crashes' = crashes + 1
    /\ UNCHANGED <<file, marker, backup, runVars, txn, mine, edits>>

Edit ==
    /\ edits < MaxEdits
    /\ writer = NoThread
    /\ file # "edited"
    /\ file' = "edited"
    /\ mine' = "edited"
    /\ edits' = edits + 1
    /\ UNCHANGED <<writer, marker, backup, runVars, pc, txn, crashes>>

Restoring(t) ==
    \/ LoadMarker(t) \/ LoadBackup(t) \/ CheckActive(t)
    \/ CopyBegins(t) \/ CopyEnds(t) \/ Verify(t)
    \/ RemoveBackup(t) \/ RemoveMarker(t)

Disabling(r) ==
    \/ ReadOriginal(r) \/ WriteBackup(r) \/ PublishMarker(r)
    \/ Recheck(r) \/ RemoveFile(r) \/ UndoLook(r) \/ UndoBackup(r)

RunStep(r) ==
    \/ Look(r)
    \/ \E t \in {Main(r), Listener(r)} : Restoring(t)
    \/ Disabling(r)
    \/ Release(r)

Next ==
    \/ \E r \in Runs : Start(r) \/ RunStep(r) \/ Interrupt(r) \/ Crash(r)
    \/ Edit

Spec == Init /\ [][Next]_vars

-----------------------------------------------------------------------------
(* Properties that say where the user's content is hold as long as the user
   leaves the file alone while commands run: an edit that falls between the
   second look at the file (l.301) and its removal (l.305) is lost. *)
Undisturbed == edits = 0

(* No run, crash or signal loses the user's file: what the user has left in
   .forceignore is there, or is in the backup that the marker on disk names.
   Restoring removes the backup before the marker, and only a verified copy
   lets it (forceignore-transaction.ts l.160-164). *)
NeverLost ==
    Undisturbed =>
    \/ mine = "absent"
    \/ file = mine
    \/ marker # NoRun /\ backup[marker] = mine

(* While dependencies are retrieved .forceignore is out of the way, and a
   crash at that moment could be recovered: the marker names this run, and
   its backup is what the user had (l.250-251, l.294-305). *)
LeaseIsDurable ==
    \A r \in Runs :
        pc[Main(r)] = "held" /\ pc[Listener(r)] = "idle" =>
            /\ Undisturbed => file = "absent"
            /\ marker = r
            /\ backup[r] = orig[r]
            /\ Undisturbed => orig[r] = mine

(* A command that ends without an error leaves the file as the user had it
   and no transaction behind, whatever the runs before it left undone
   (refresh-dependencies.ts l.100-106). *)
DoneMeansRestored ==
    [][\A r \in Runs :
        pc[Main(r)] # "done" /\ pc'[Main(r)] = "done" =>
            (Undisturbed => file' = mine) /\ marker' = NoRun]_vars

RemovesBackedUp(r) ==
    /\ pc[Main(r)] = "rmFile"
    /\ marker = r
    /\ backup[r] = orig[r] /\ orig[r] # "absent"

(* Recovery and restoration never replace or remove a file that somebody
   else completed; the one step that takes a file away is the removal by the
   run that holds the marker and a backup (l.140-142, COPYFILE_EXCL at l.160,
   l.305). *)
RestoringKeepsFiles ==
    [][file # file' /\ file \in {"original", "edited"} /\ edits' = edits
        => file' = "absent" /\ \E r \in Runs : RemovesBackedUp(r)]_vars

(* What the documentation says, and the code does not keep. *)

(* "It rejects concurrent/stale transactions" (l.250): two commands at once
   do not make the user's file disappear, at the least some backup has it.   *)
SomewhereKept ==
    \/ mine = "absent"
    \/ file = mine
    \/ \E r \in Runs : backup[r] = mine

-----------------------------------------------------------------------------
(* The inductive invariant behind the properties, when runs do not overlap. *)

Contents == {"absent", "original", "edited", "fragment"}
RestoringSteps ==
    {"loadMarker", "loadBackup", "check", "copy", "copying", "verify", "rmBackup", "rmMarker"}
Steps == Over \cup RestoringSteps \cup
    {"look", "read", "backup", "link", "recheck", "rmFile", "undoLook", "undoBackup", "held"}

TypeOK ==
    /\ file \in Contents /\ mine \in Contents
    /\ writer \in Threads \cup {NoThread} /\ marker \in Runs \cup {NoRun}
    /\ backup \in [Runs -> Contents \cup {"none"}] /\ orig \in [Runs -> Contents \cup {"none"}]
    /\ kind \in [Runs -> {"refresh", "recover"}] /\ restored \in [Runs -> BOOLEAN]
    /\ pc \in [Threads -> Steps] /\ txn \in [Threads -> Runs \cup {NoRun}]
    /\ crashes \in Nat /\ edits \in Nat

OneAlive == \A q, r \in Runs : Alive(q) /\ Alive(r) => q = r

(* Where a run stands: a listener exists only once the run holds its lease. *)
StageInv ==
    \A r \in Runs :
        LET main == pc[Main(r)]  listener == pc[Listener(r)] IN
        /\ main \in {"idle", "look", "read"} => orig[r] = "none"
        /\ main \in {"backup", "link", "recheck", "rmFile", "undoLook", "undoBackup", "held"} =>
               orig[r] # "none"
        /\ listener \in RestoringSteps \cup Over
        /\ listener # "idle" =>
               orig[r] # "none" /\ main \in RestoringSteps \cup {"held", "done", "failed", "dead"}
        /\ orig[r] = "none" \/ main \in {"backup", "link", "recheck", "rmFile"} => ~restored[r]

(* What a run knows of the disk. *)
DiskInv ==
    \A r \in Runs :
        LET main == pc[Main(r)]  listener == pc[Listener(r)] IN
        /\ main \in {"read", "backup", "link", "undoBackup"} => marker = NoRun
        /\ main = "link" => backup[r] = orig[r]
        /\ main \in {"recheck", "rmFile"} =>
               marker = r /\ backup[r] = orig[r] /\ orig[r] # "absent"
        /\ main = "held" /\ listener = "idle" =>
               marker = r /\ backup[r] = orig[r] /\ (Undisturbed => file = "absent")
        /\ main = "held" /\ restored[r] => marker = NoRun

(* A transaction that has been loaded is complete, but its backup may be gone. *)
TransactionInv ==
    /\ marker # NoRun =>
           orig[marker] # "none" /\ (backup[marker] = "none" \/ backup[marker] = orig[marker])
    /\ \A t \in Threads : pc[t] \in RestoringSteps \ {"loadMarker"} =>
           /\ txn[t] \in Runs /\ orig[txn[t]] # "none"
           /\ pc[t] \in {"copy", "copying", "verify"} => orig[txn[t]] # "absent"

(* Only a file that is what the user had lets the backup and the marker go. *)
FileInv ==
    /\ writer # NoThread => file = "fragment"
    /\ Undisturbed =>
           /\ \A r \in Runs : orig[r] \in {"none", mine}
           /\ marker = NoRun \/ backup[marker] = "none" => file = mine
           /\ \A t \in Threads : pc[t] \in {"rmBackup", "rmMarker"} => file = mine

ForceignoreInv == TypeOK /\ OneAlive /\ StageInv /\ DiskInv /\ TransactionInv /\ FileInv
=============================================================================
