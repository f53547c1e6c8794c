----------------------------- MODULE SessionFile -----------------------------
(***************************************************************************)
(* The file in which the terminals of one user keep their sessions, under  *)
(* a lock file: TuiSessionStore.                                           *)
(*                                                                         *)
(* An operation is one call of load, save or remove.  Every call of the    *)
(* file system is a step, so that what was read of the lock can be stale   *)
(* when it is removed.  A terminal may die anywhere and may be slow.       *)
(***************************************************************************)
EXTENDS FiniteSets

CONSTANTS
  Ops,       \* operations, of as many terminals
  Keys,      \* API base URLs
  NoOp

ASSUME NoOpOk == NoOp \notin Ops
ASSUME KeysOk == Keys # {}
ASSUME CorruptOk == "corrupt" \notin Ops \cup {NoOp}

VARIABLES
  pc,        \* where each operation is
  call,      \* what it was called for
  copy,      \* the sessions it has read
  lock,      \* the lock file
  file,      \* the session file
  saved,     \* history: what the last write of each key wrote
  stale,     \* history: some lock was left by its owner or held for too long
  usurped    \* history: the lock of an operation at work was removed

ops   == <<pc, call, copy>>
store == <<file, saved>>
fileVars  == <<ops, lock, store, stale, usurped>>

Kinds  == {"load", "save", "remove"}
NoLock == [owner |-> NoOp, written |-> FALSE, old |-> FALSE, live |-> FALSE]
Empty  == [k \in Keys |-> NoOp]
Corrupt == [k \in Keys |-> "corrupt"]
Inside == {"created", "holding", "quarantining", "writing", "closing", "unlinking"}

\* The lock file is the one this operation has created.
Own(o) == lock.owner = o /\ lock.live
Go(o, step) == pc' = [pc EXCEPT ![o] = step]
Idle == [kind |-> "load", key |-> NoOp]
\* The call is over, however it ends.
EndCall(o) ==
  /\ Go(o, "idle")
  /\ call' = [call EXCEPT ![o] = Idle] /\ copy' = [copy EXCEPT ![o] = Empty]

-----------------------------------------------------------------------------
(* withFileLock *)

Begin(o, kind, key) ==
  /\ pc[o] = "idle" /\ Go(o, "opening")
  /\ call' = [call EXCEPT ![o] = [kind |-> kind, key |-> key]]
  /\ UNCHANGED <<copy, lock, store, stale, usurped>>

\* open(lockPath, "wx")
OpenLock(o) ==
  /\ pc[o] = "opening"
  /\ IF lock = NoLock
       THEN lock' = [owner |-> o, written |-> FALSE, old |-> FALSE, live |-> TRUE] /\ Go(o, "created")
       ELSE UNCHANGED lock /\ Go(o, "checking")
  /\ UNCHANGED <<call, copy, store, stale, usurped>>

\* The payload goes to the file that was opened, whatever its path names now.
WriteLock(o) ==
  /\ pc[o] = "created" /\ Go(o, "holding")
  /\ lock' = [lock EXCEPT !.written = @ \/ Own(o)]
  /\ UNCHANGED <<call, copy, store, stale, usurped>>

\* Mutant: a lock without a payload counts as left behind.
Abandoned == lock.old \/ ~lock.live \/ ~lock.written

\* parseLockPayload and isLockStale: too old, or of a process that is gone.
StaleLock == lock.written /\ (lock.old \/ ~lock.live)

\* tryReclaimStaleLock up to the unlink.
CheckLock(o) ==
  /\ pc[o] = "checking"
  /\ \/ StaleLock /\ Go(o, "reclaiming")
     \/ ~StaleLock /\ Go(o, "opening")
  /\ UNCHANGED <<call, copy, lock, store, stale, usurped>>

\* LOCK_TIMEOUT_MS ends the attempts.
TimeOut(o) ==
  /\ pc[o] = "checking" /\ lock # NoLock /\ ~StaleLock /\ EndCall(o)
  /\ UNCHANGED <<lock, store, stale, usurped>>

\* unlink: whatever the path names by now.
Unlink(o) ==
  /\ lock' = NoLock
  /\ usurped' = (usurped \/ (lock.live /\ lock.owner # o))
  /\ UNCHANGED <<store, stale>>

ReclaimLock(o) ==
  /\ pc[o] = "reclaiming" /\ Go(o, "opening") /\ Unlink(o)
  /\ UNCHANGED <<call, copy>>

\* releaseLock reads the token: a lock of another one stays, one that cannot
\* be parsed does not.
Releasable(o) == lock # NoLock /\ (Own(o) \/ ~lock.written)

CheckOwn(o) ==
  /\ pc[o] = "closing"
  /\ IF Releasable(o) THEN Go(o, "unlinking") /\ UNCHANGED <<call, copy>> ELSE EndCall(o)
  /\ UNCHANGED <<lock, store, stale, usurped>>

ReleaseLock(o) == pc[o] = "unlinking" /\ EndCall(o) /\ Unlink(o)

-----------------------------------------------------------------------------
(* load, save and remove, in the lock. *)

\* A load ends, and so does a remove without anything to remove.
Continue(o, sessions) ==
  /\ copy' = [copy EXCEPT ![o] = sessions]
  /\ Go(o, IF call[o].kind = "load" \/ (call[o].kind = "remove" /\ sessions[call[o].key] = NoOp)
             THEN "closing" ELSE "writing")

ReadFile(o) ==
  /\ pc[o] = "holding"
  /\ IF file = Corrupt THEN Go(o, "quarantining") /\ UNCHANGED copy ELSE Continue(o, file)
  /\ UNCHANGED <<call, lock, store, stale, usurped>>

\* Mutant: the call goes on with what it could not parse.
AsRead == Corrupt

Repaired == Empty

\* quarantineCorrupt: renamed, and an empty file written.  If that fails no file
\* is there, which is read as an empty one.
Quarantine(o) ==
  /\ pc[o] = "quarantining"
  /\ Continue(o, Repaired) \/ (Go(o, "closing") /\ UNCHANGED copy)
  /\ file' = Empty /\ saved' = Empty
  /\ UNCHANGED <<call, lock, stale, usurped>>

Changed(o, sessions) ==
  [sessions EXCEPT ![call[o].key] = IF call[o].kind = "save" THEN o ELSE NoOp]

\* Mutant: the other sessions are not kept.
Only(o) == Changed(o, Empty)

Written(o) == Changed(o, copy[o])

\* writeFileAtomic: the rename.
ReplaceFile(o) ==
  /\ pc[o] = "writing" /\ Go(o, "closing")
  /\ file' = Written(o) /\ saved' = Changed(o, saved)
  /\ UNCHANGED <<call, copy, lock, stale, usurped>>

-----------------------------------------------------------------------------
(* Faults. *)

\* The payload cannot be written, the path is no regular file, a read, a write or
\* a sync fails: the operation closes its lock and throws.
Throw(o) ==
  /\ pc[o] \in {"created", "holding", "quarantining", "writing"} /\ Go(o, "closing")
  /\ UNCHANGED <<call, copy, lock, store, stale, usurped>>

\* LOCK_STALE_MS pass while its owner is at work (or stopped).
Age ==
  /\ lock.written /\ lock.live /\ ~lock.old
  /\ lock' = [lock EXCEPT !.old = TRUE] /\ stale' = TRUE
  /\ UNCHANGED <<ops, store, usurped>>

\* The terminal dies.  Its lock file stays.
Die(o) ==
  /\ pc[o] # "idle" /\ EndCall(o)
  /\ lock' = [lock EXCEPT !.live = @ /\ lock.owner # o]
  /\ stale' = (stale \/ Own(o))
  /\ UNCHANGED <<store, usurped>>

FileInit ==
  /\ pc = [o \in Ops |-> "idle"] /\ copy = [o \in Ops |-> Empty]
  /\ call = [o \in Ops |-> Idle]
  /\ lock = NoLock /\ file \in {Empty, Corrupt} /\ saved = file
  /\ stale = FALSE /\ usurped = FALSE

Step(o) ==
  \/ \E kind \in Kinds, key \in Keys : Begin(o, kind, key)
  \/ OpenLock(o) \/ WriteLock(o) \/ CheckLock(o) \/ TimeOut(o) \/ ReclaimLock(o)
  \/ ReadFile(o) \/ Quarantine(o) \/ ReplaceFile(o) \/ Throw(o)
  \/ CheckOwn(o) \/ ReleaseLock(o)

FileNext == Age \/ \E o \in Ops : Step(o) \/ Die(o)

FileSpec == FileInit /\ [][FileNext]_fileVars

-----------------------------------------------------------------------------
\* Every variable stays in its type.
FileTypeOK ==
  /\ pc \in [Ops -> Inside \cup {"idle", "opening", "checking", "reclaiming"}]
  /\ call \in [Ops -> [kind : Kinds, key : Keys \cup {NoOp}]]
  /\ copy \in [Ops -> [Keys -> Ops \cup {NoOp}]]
  /\ lock \in [owner : Ops \cup {NoOp}, written : BOOLEAN, old : BOOLEAN, live : BOOLEAN]
  /\ {file, saved} \subseteq [Keys -> Ops \cup {NoOp}] \cup {Corrupt}
  /\ {stale, usurped} \subseteq BOOLEAN

\* Only the operation whose lock file it is works on the session file, until
\* that lock is removed by another one; and none is while no terminal has died
\* in its critical section or spent LOCK_STALE_MS there.
OneHolder ==
  /\ usurped => stale
  /\ ~usurped => \A o \in Ops : pc[o] \in Inside => Own(o)

\* "merges concurrent saves under file lock": what was written for one server
\* is kept by the writes for the others.
SavesMerge == ~usurped => file = saved

\* The same of every save, whoever has the lock (session-store.test.ts:120).
ConcurrentSavesMerge == file = saved
=============================================================================
