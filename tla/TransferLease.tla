---------------------------- MODULE TransferLease ----------------------------
(***************************************************************************)
(* The single-writer lease of one transfer target (transfer_lease.py).     *)
(*                                                                         *)
(* Every CLI process that transfers to the target runs                     *)
(*     acquire; heartbeat*; release                                        *)
(* on the same pair of files: an OS lock file, which the kernel frees when *)
(* its holder dies, and a JSON metadata file, which survives.  Processes   *)
(* die at any point, process ids are recycled, the probes of another       *)
(* process may fail, and every write or unlink of the metadata may raise.  *)
(*                                                                         *)
(* _atomic_json replaces the file with a rename, so a metadata write       *)
(* either happens or does not; the temporary file is not modelled.         *)
(***************************************************************************)
EXTENDS Integers

CONSTANTS
  Pid,          \* process ids the operating system hands out
  NoPid,        \* "nobody holds the OS lock"
  MaxStarts,    \* bound: how many processes may use one pid, one after another
  MaxProgress   \* bound: how many bytes a transfer completes

ASSUME NoPidAssumption == NoPid \notin Pid
ASSUME BoundsAssumption == MaxStarts \in Nat /\ MaxProgress \in Nat

VARIABLES
  live,      \* live[p]: a process with pid p runs
  start,     \* start[p]: the start token of the process that uses or last used p
  pc,        \* pc[p]: where that process is in acquire ... release
  done,      \* done[p]: the completed bytes its transfer has counted
  osLock,    \* the pid that holds the FileLock, or NoPid
  meta       \* what the metadata file holds

vars == <<live, start, pc, done, osLock, meta>>
-----------------------------------------------------------------------------
(* Metadata.  "absent": no file.  "garbage": a file that does not parse, or *)
(* has another schema or state.  "known" is whether the writer could read   *)
(* its own start token; "start" is that token (when known is FALSE the file *)
(* has null there, and the field only keeps track of who wrote it).         *)

NoRecord(s) == [state |-> s, pid |-> NoPid, start |-> 0, known |-> FALSE,
                completed |-> 0]
Absent  == NoRecord("absent")
Garbage == NoRecord("garbage")

Record(s, p, k, n) ==
  [state |-> s, pid |-> p, start |-> start[p], known |-> k, completed |-> n]

Metadata ==
  [state : {"absent", "garbage", "active", "released"}, pid : Pid \cup {NoPid},
   start : 0..MaxStarts, known : BOOLEAN, completed : 0..MaxProgress]

\* The states in which the lease object has _acquired = True.
AcquiredPC == {"held", "retired", "unlinked"}
PC == {"idle", "locked", "cleared", "refused", "finished", "stuck"} \cup AcquiredPC

Init ==
  /\ live \in [Pid -> BOOLEAN]
  /\ start = [p \in Pid |-> 0]
  /\ pc = [p \in Pid |-> "idle"]
  /\ done = [p \in Pid |-> 0]
  /\ osLock = NoPid
  /\ meta \in {Absent, Garbage}
-----------------------------------------------------------------------------
(* Processes *)

\* A new process gets a pid nobody uses, and a new start token.
Spawn(p) ==
  /\ ~live[p]
  /\ start[p] < MaxStarts
  /\ live' = [live EXCEPT ![p] = TRUE]
  /\ start' = [start EXCEPT ![p] = @ + 1]
  /\ pc' = [pc EXCEPT ![p] = "idle"]
  /\ done' = [done EXCEPT ![p] = 0]
  /\ UNCHANGED <<osLock, meta>>

\* The end of a process, at its exit or by a kill at any point; the kernel
\* closes its descriptors and with them frees the OS lock.
Die(p) ==
  /\ live[p]
  /\ live' = [live EXCEPT ![p] = FALSE]
  /\ osLock' = IF osLock = p THEN NoPid ELSE osLock
  /\ UNCHANGED <<start, pc, done, meta>>

\* process_identity_state: every answer it may give about the process a
\* record names.  An existing process whose token cannot be read, then or
\* now, is "unknown"; so is a process whose existence cannot be probed.
IdentityState(m) ==
  {"unknown"} \cup
  (IF ~live[m.pid] THEN {"dead"}
   ELSE IF ~m.known THEN {}
   ELSE IF start[m.pid] = m.start THEN {"alive"}
   ELSE {"dead"})

\* _release_lock_best_effort: a failing unlock is a warning, and the lock then
\* lasts as long as the process.
Unlocks(p, to) ==
  \/ osLock' = NoPid  /\ pc' = [pc EXCEPT ![p] = to]
  \/ osLock' = osLock /\ pc' = [pc EXCEPT ![p] = "stuck"]
-----------------------------------------------------------------------------
(* acquire *)

\* The FileLock is tried once, without blocking.
TryLock(p) ==
  /\ live[p] /\ pc[p] = "idle"
  /\ IF osLock = NoPid
     THEN /\ osLock' = p
          /\ pc' = [pc EXCEPT ![p] = "locked"]
     ELSE /\ pc' = [pc EXCEPT ![p] = "refused"]   \* TransferLeaseBusy
          /\ UNCHANGED osLock
  /\ UNCHANGED <<live, start, done, meta>>

\* Mutant of MayReplace: an owner that cannot be identified counts as dead.
MayReplaceUnknown(p) ==
  \/ meta.state \in {"absent", "released"}
  \/ meta.state = "active" /\ IdentityState(meta) \cap {"dead", "unknown"} # {}

\* The previous owner's record may be replaced: there is none, it was
\* released, or its process is known to be dead.
MayReplace(p) ==
  \/ meta.state \in {"absent", "released"}
  \/ meta.state = "active" /\ "dead" \in IdentityState(meta)

Examine(p) ==
  /\ live[p] /\ pc[p] = "locked"
  /\ MayReplace(p)
  /\ pc' = [pc EXCEPT ![p] = "cleared"]
  /\ UNCHANGED <<live, start, done, osLock, meta>>

MustRefuse(p) ==
  \/ meta.state = "garbage"
  \/ meta.state = "active" /\ IdentityState(meta) \cap {"alive", "unknown"} # {}

\* Mutant of Refuse: the failing acquire() cleans the metadata up as well.
RefuseCleansUp(p) ==
  /\ live[p] /\ pc[p] = "locked"
  /\ MustRefuse(p)
  /\ pc' = [pc EXCEPT ![p] = "refused"]
  /\ osLock' = NoPid
  /\ meta' = Absent
  /\ UNCHANGED <<live, start, done>>

\* TransferLeaseBusy or TransferLeaseCorrupt: the lock is given back.
Refuse(p) ==
  /\ live[p] /\ pc[p] = "locked"
  /\ MustRefuse(p)
  /\ Unlocks(p, "refused")
  /\ UNCHANGED <<live, start, done, meta>>

\* The active record is written and the lease acquired.
Publish(p) ==
  /\ live[p] /\ pc[p] = "cleared"
  /\ \E k \in BOOLEAN : meta' = Record("active", p, k, 0)
  /\ pc' = [pc EXCEPT ![p] = "held"]
  /\ UNCHANGED <<live, start, done, osLock>>

\* Mutant of PublishFails: the exception path forgets the OS lock.
PublishFailsLocked(p) ==
  /\ live[p] /\ pc[p] = "cleared"
  /\ pc' = [pc EXCEPT ![p] = "refused"]
  /\ UNCHANGED <<live, start, done, osLock, meta>>

\* Mutant of PublishFails: the lease counts as acquired without the lock.
PublishFailsAcquired(p) ==
  /\ live[p] /\ pc[p] = "cleared"
  /\ \E k \in BOOLEAN : meta' = Record("active", p, k, 0)
  /\ pc' = [pc EXCEPT ![p] = "held"]
  /\ osLock' = NoPid
  /\ UNCHANGED <<live, start, done>>

\* An exception in the write, before or after the rename took effect: the
\* lock is given back and the lease is not acquired.
PublishFails(p) ==
  /\ live[p] /\ pc[p] = "cleared"
  /\ \/ UNCHANGED meta
     \/ \E k \in BOOLEAN : meta' = Record("active", p, k, 0)
  /\ Unlocks(p, "refused")
  /\ UNCHANGED <<live, start, done>>
-----------------------------------------------------------------------------
(* heartbeat and release *)

\* The transfer advances and reports it; the report is throttled, or its
\* write fails, or it reaches the disk.
Heartbeat(p) ==
  /\ live[p] /\ pc[p] = "held"
  /\ \E n \in done[p]..MaxProgress :
       /\ done' = [done EXCEPT ![p] = n]
       /\ \/ UNCHANGED meta
          \/ \E k \in {meta.known} : meta' = Record("active", p, k, n)
  /\ UNCHANGED <<live, start, pc, osLock>>

\* Mutant of Retire: the lock is given back before the metadata is removed.
RetireUnlocks(p) ==
  /\ live[p] /\ pc[p] = "held"
  /\ meta' = Record("released", p, meta.known, done[p])
  /\ pc' = [pc EXCEPT ![p] = "retired"]
  /\ osLock' = NoPid
  /\ UNCHANGED <<live, start, done>>

\* release writes the record once more as released ...
Retire(p) ==
  /\ live[p] /\ pc[p] = "held"
  /\ \/ meta' = Record("released", p, meta.known, done[p])
     \/ UNCHANGED meta                       \* OSError, recorded as a warning
  /\ pc' = [pc EXCEPT ![p] = "retired"]
  /\ UNCHANGED <<live, start, done, osLock>>

\* ... removes it ...
Unlink(p) ==
  /\ live[p] /\ pc[p] = "retired"
  /\ meta' \in {Absent, meta}                \* unchanged: OSError, a warning
  /\ pc' = [pc EXCEPT ![p] = "unlinked"]
  /\ UNCHANGED <<live, start, done, osLock>>

\* ... and only then gives the lock back.
Unlock(p) ==
  /\ live[p] /\ pc[p] = "unlinked"
  /\ Unlocks(p, "finished")
  /\ UNCHANGED <<live, start, done, meta>>
-----------------------------------------------------------------------------
Acquire(p) == TryLock(p) \/ Examine(p) \/ Refuse(p) \/ Publish(p) \/ PublishFails(p)
Release(p) == Retire(p) \/ Unlink(p) \/ Unlock(p)

Next == \E p \in Pid : \/ Spawn(p) \/ Die(p)
                       \/ Acquire(p) \/ Heartbeat(p) \/ Release(p)

Spec == Init /\ [][Next]_vars

\* A started acquire or release runs to its end, and the transfer under a
\* lease ends.  Nothing is assumed about the exit of a process.
Fairness ==
  \A p \in Pid : /\ WF_vars(Examine(p) \/ Refuse(p))
                 /\ WF_vars(Publish(p) \/ PublishFails(p))
                 /\ WF_vars(Release(p))

FairSpec == Spec /\ Fairness
-----------------------------------------------------------------------------
(* Properties *)

TypeOK ==
  /\ live \in [Pid -> BOOLEAN]
  /\ start \in [Pid -> 0..MaxStarts]
  /\ pc \in [Pid -> PC]
  /\ done \in [Pid -> 0..MaxProgress]
  /\ osLock \in Pid \cup {NoPid}
  /\ meta \in Metadata
  /\ meta.state \in {"active", "released"} => meta.pid \in Pid

Owns(p) == live[p] /\ pc[p] \in AcquiredPC

\* Two processes never hold the lease of one target at the same time: the
\* lock that acquire() takes is kept until release() has nothing left to do
\* and no failure path of acquire() leaves a lease acquired without it.
SingleWriter == \A p, q \in Pid : Owns(p) /\ Owns(q) => p = q

\* While a process transfers, the metadata on disk is its own: active, with
\* its pid and start, and never ahead of what it has really completed. A
\* heartbeat after release, or an unlink after the unlock, would break it.
HolderIsPublished ==
  \A p \in Pid :
    live[p] /\ pc[p] = "held" =>
      /\ meta.state = "active"
      /\ meta.pid = p /\ meta.start = start[p]
      /\ meta.completed <= done[p]

\* The process that wrote the active record.
AuthorRuns(m) == live[m.pid] /\ start[m.pid] = m.start

\* acquire() never recycles the record of a process that still runs, whatever
\* the probes could not read, and never one it cannot interpret: an active or
\* garbage record is replaced only by its author or after its author's death.
LiveOwnerNeverRecycled ==
  [][ /\ meta.state = "garbage" => meta' = meta
      /\ meta.state = "active" /\ AuthorRuns(meta) =>
           \/ meta'.pid = meta.pid /\ meta'.start = meta.start
           \/ meta' = Absent /\ pc[meta.pid] = "retired" ]_vars

\* A lease does not outlast its transfer in a process that lives on: an
\* acquire() that raises and a release() whose metadata steps all fail still
\* give the OS lock back, unless the unlock itself fails.
LockIsGivenBack == \A p \in Pid : (osLock = p) ~> (osLock # p \/ pc[p] = "stuck")

\* The inductive invariant: what the lock holder knows about the file.
HoldsLock(p) == pc[p] \in {"locked", "cleared"} \cup AcquiredPC
LockIsHeld == \A p \in Pid : live[p] /\ HoldsLock(p) => osLock = p
NoFutureAuthor == meta.pid \in Pid => meta.start <= start[meta.pid]
ClearedIsReplaceable ==
  \A p \in Pid :
    live[p] /\ pc[p] = "cleared" =>
      /\ meta.state # "garbage"
      /\ meta.state = "active" => ~AuthorRuns(meta)
ReleasingIsOwn ==
  \A p \in Pid :
    /\ live[p] /\ pc[p] \in {"retired", "unlinked"} => meta.state # "garbage"
    /\ live[p] /\ pc[p] \in {"retired", "unlinked"} /\ meta.state # "absent" =>
         meta.pid = p /\ meta.start = start[p]

LeaseInv ==
  /\ TypeOK
  /\ LockIsHeld
  /\ NoFutureAuthor
  /\ ClearedIsReplaceable
  /\ HolderIsPublished
  /\ ReleasingIsOwn

\* The lease implements exclusive ownership of the target by identities
\* <<pid, start token>>.
Running == {<<p, start[p]>> : p \in {q \in Pid : live[q]}}
Owner == IF \E p \in Pid : Owns(p)
         THEN LET p == CHOOSE q \in Pid : Owns(q) IN <<p, start[p]>>
         ELSE <<NoPid, 0>>
Announced == IF meta.state = "active" THEN <<meta.pid, meta.start>>
             ELSE <<NoPid, 0>>

Ownership == INSTANCE TargetOwnership
               WITH Identity <- Pid \X (0..MaxStarts), Nobody <- <<NoPid, 0>>,
                    alive <- Running, owner <- Owner, announced <- Announced
OwnershipSpec == Ownership!Spec
=============================================================================
