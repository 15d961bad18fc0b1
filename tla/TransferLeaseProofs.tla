------------------------- MODULE TransferLeaseProofs -------------------------
(***************************************************************************)
(* Proofs about TransferLease, for any set of pids, any number of process  *)
(* starts and any amount of progress: type correctness, the inductive      *)
(* invariant LeaseInv, the single-writer property, the published owner,    *)
(* the fail-closed recycling rule and the refinement of TargetOwnership.   *)
(***************************************************************************)
EXTENDS TransferLease, TLAPS

USE DEF AcquiredPC

LEMMA RecordType ==
  ASSUME TypeOK, NEW s \in {"active", "released"}, NEW p \in Pid,
         NEW k \in BOOLEAN, NEW n \in 0..MaxProgress
  PROVE  Record(s, p, k, n) \in Metadata
BY DEF TypeOK, Record, Metadata

LEMMA NoRecordType == Absent \in Metadata /\ Garbage \in Metadata
BY BoundsAssumption DEF Absent, Garbage, NoRecord, Metadata

-----------------------------------------------------------------------------
(* TypeOK holds of every reachable state. *)

LEMMA InitTypeOK == Init => TypeOK
<1> SUFFICES ASSUME Init PROVE TypeOK
  OBVIOUS
<1>1. meta \in Metadata
  BY NoRecordType DEF Init
<1>2. meta.state \in {"absent", "garbage"}
  BY DEF Init, Absent, Garbage, NoRecord
<1> QED
  BY <1>1, <1>2, BoundsAssumption DEF Init, TypeOK, PC

LEMMA NextTypeOK == TypeOK /\ [Next]_vars => TypeOK'
<1> SUFFICES ASSUME TypeOK, [Next]_vars PROVE TypeOK'
  OBVIOUS
<1>1. CASE UNCHANGED vars
  BY <1>1 DEF TypeOK, vars
<1>2. ASSUME NEW p \in Pid, Spawn(p) PROVE TypeOK'
  BY <1>2, BoundsAssumption DEF TypeOK, Spawn, PC
<1>3. ASSUME NEW p \in Pid, Die(p) PROVE TypeOK'
  BY <1>3 DEF TypeOK, Die
<1>4. ASSUME NEW p \in Pid, TryLock(p) PROVE TypeOK'
  BY <1>4 DEF TypeOK, TryLock, PC
<1>5. ASSUME NEW p \in Pid, Examine(p) PROVE TypeOK'
  BY <1>5 DEF TypeOK, Examine, PC
<1>6. ASSUME NEW p \in Pid, Refuse(p) PROVE TypeOK'
  BY <1>6 DEF TypeOK, Refuse, Unlocks, PC
<1>7. ASSUME NEW p \in Pid, Publish(p) PROVE TypeOK'
  <2>1. meta' \in Metadata /\ meta'.pid \in Pid
    BY <1>7, RecordType, BoundsAssumption DEF Publish, Record
  <2> QED
    BY <1>7, <2>1 DEF TypeOK, Publish, PC
<1>8. ASSUME NEW p \in Pid, PublishFails(p) PROVE TypeOK'
  <2>1. meta' \in Metadata /\ (meta' = meta \/ meta'.pid \in Pid)
    BY <1>8, RecordType, BoundsAssumption DEF PublishFails, Record, TypeOK
  <2> QED
    BY <1>8, <2>1 DEF TypeOK, PublishFails, Unlocks, PC
<1>9. ASSUME NEW p \in Pid, Heartbeat(p) PROVE TypeOK'
  <2> PICK n \in done[p]..MaxProgress :
        /\ done' = [done EXCEPT ![p] = n]
        /\ meta' = meta \/ meta' = Record("active", p, meta.known, n)
    BY <1>9 DEF Heartbeat
  <2>1. n \in 0..MaxProgress /\ meta.known \in BOOLEAN
    BY BoundsAssumption DEF TypeOK, Metadata
  <2>2. meta' \in Metadata /\ (meta' = meta \/ meta'.pid \in Pid)
    BY <2>1, RecordType DEF Record, TypeOK
  <2> QED
    BY <1>9, <2>1, <2>2 DEF TypeOK, Heartbeat
<1>10. ASSUME NEW p \in Pid, Retire(p) PROVE TypeOK'
  <2>1. meta.known \in BOOLEAN /\ done[p] \in 0..MaxProgress
    BY DEF TypeOK, Metadata
  <2>2. meta' \in Metadata /\ (meta' = meta \/ meta'.pid \in Pid)
    BY <1>10, <2>1, RecordType DEF Retire, Record, TypeOK
  <2> QED
    BY <1>10, <2>2 DEF TypeOK, Retire, PC
<1>11. ASSUME NEW p \in Pid, Unlink(p) PROVE TypeOK'
  <2>1. meta' \in Metadata
    BY <1>11, NoRecordType DEF Unlink, TypeOK
  <2>2. meta' = meta \/ meta'.state = "absent"
    BY <1>11 DEF Unlink, Absent, NoRecord
  <2> QED
    BY <1>11, <2>1, <2>2 DEF TypeOK, Unlink, PC
<1>12. ASSUME NEW p \in Pid, Unlock(p) PROVE TypeOK'
  BY <1>12 DEF TypeOK, Unlock, Unlocks, PC
<1> QED
  BY <1>1, <1>2, <1>3, <1>4, <1>5, <1>6, <1>7, <1>8, <1>9, <1>10, <1>11, <1>12
  DEF Next, Acquire, Release

\* Every variable keeps its type: in particular an active or released record
\* always names a pid, so that the probes of acquire() are well defined.
THEOREM TypeCorrect == Spec => []TypeOK
BY InitTypeOK, NextTypeOK, PTL DEF Spec
-----------------------------------------------------------------------------
(* The inductive invariant.  One lemma per action; an action that leaves a  *)
(* conjunct's variables alone needs no argument for it.                     *)

LEMMA InitInv == Init => LeaseInv
<1> SUFFICES ASSUME Init PROVE LeaseInv
  OBVIOUS
<1>1. TypeOK
  BY InitTypeOK
<1>2. meta.pid = NoPid
  BY DEF Init, Absent, Garbage, NoRecord
<1> QED
  BY <1>1, <1>2, NoPidAssumption
  DEF Init, LeaseInv, LockIsHeld, HoldsLock, NoFutureAuthor,
      ClearedIsReplaceable, HolderIsPublished, ReleasingIsOwn

\* A new process has a start token no record carries, so a dead author stays
\* dead whoever gets its pid.
LEMMA SpawnInv ==
  ASSUME LeaseInv, TypeOK', NEW p \in Pid, Spawn(p)
  PROVE  LeaseInv'
<1> USE DEF LeaseInv, Spawn, TypeOK
<1>1. LockIsHeld'
  BY DEF LockIsHeld, HoldsLock
<1>2. NoFutureAuthor'
  BY BoundsAssumption DEF NoFutureAuthor, Metadata
<1>3. ClearedIsReplaceable'
  <2> SUFFICES ASSUME NEW q \in Pid, live'[q], pc'[q] = "cleared"
               PROVE  /\ meta.state # "garbage"
                      /\ meta.state = "active" => ~AuthorRuns(meta)'
    BY DEF ClearedIsReplaceable, AuthorRuns
  <2>1. live[q] /\ pc[q] = "cleared"
    OBVIOUS
  <2>2. ASSUME meta.state = "active" PROVE ~AuthorRuns(meta)'
    <3>1. meta.pid \in Pid /\ meta.start \in Nat /\ start[meta.pid] \in Nat
      BY <2>2, BoundsAssumption DEF Metadata
    <3>2. ~AuthorRuns(meta) /\ meta.start <= start[meta.pid]
      BY <2>1, <2>2, <3>1 DEF ClearedIsReplaceable, NoFutureAuthor
    <3> QED
      BY <3>1, <3>2 DEF AuthorRuns
  <2> QED
    BY <2>1, <2>2 DEF ClearedIsReplaceable
<1>4. HolderIsPublished'
  BY DEF HolderIsPublished
<1>5. ReleasingIsOwn'
  BY DEF ReleasingIsOwn
<1> QED
  BY <1>1, <1>2, <1>3, <1>4, <1>5

LEMMA DieInv ==
  ASSUME LeaseInv, TypeOK', NEW p \in Pid, Die(p)
  PROVE  LeaseInv'
BY DEF LeaseInv, Die, TypeOK, LockIsHeld, HoldsLock, NoFutureAuthor,
       ClearedIsReplaceable, HolderIsPublished, ReleasingIsOwn, AuthorRuns

LEMMA TryLockInv ==
  ASSUME LeaseInv, TypeOK', NEW p \in Pid, TryLock(p)
  PROVE  LeaseInv'
<1> USE DEF LeaseInv, TryLock, TypeOK
<1>1. LockIsHeld'
  BY NoPidAssumption DEF LockIsHeld, HoldsLock
<1> QED
  BY <1>1 DEF NoFutureAuthor, ClearedIsReplaceable, HolderIsPublished,
              ReleasingIsOwn, AuthorRuns

\* A probe that answers "dead" is right: the author no longer runs.
LEMMA DeadIsDead ==
  ASSUME TypeOK, meta.state = "active", "dead" \in IdentityState(meta)
  PROVE  ~AuthorRuns(meta)
BY DEF IdentityState, AuthorRuns

LEMMA ExamineInv ==
  ASSUME LeaseInv, TypeOK', NEW p \in Pid, Examine(p)
  PROVE  LeaseInv'
<1> USE DEF LeaseInv, Examine, TypeOK
<1>1. /\ meta.state # "garbage"
      /\ meta.state = "active" => ~AuthorRuns(meta)
  BY DeadIsDead DEF MayReplace
<1>2. ClearedIsReplaceable'
  BY <1>1 DEF ClearedIsReplaceable, AuthorRuns
<1> QED
  BY <1>2 DEF LockIsHeld, HoldsLock, NoFutureAuthor, HolderIsPublished,
              ReleasingIsOwn

\* Only the lock holder gives the lock back, and it is past holding it then.
LEMMA RefuseInv ==
  ASSUME LeaseInv, TypeOK', NEW p \in Pid, Refuse(p)
  PROVE  LeaseInv'
<1> USE DEF LeaseInv, Refuse, Unlocks, TypeOK
<1>1. osLock = p
  BY DEF LockIsHeld, HoldsLock
<1>2. LockIsHeld'
  BY <1>1 DEF LockIsHeld, HoldsLock
<1> QED
  BY <1>2 DEF NoFutureAuthor, ClearedIsReplaceable, HolderIsPublished,
              ReleasingIsOwn, AuthorRuns

\* While p holds the lock nobody else stands where it reads or writes the
\* metadata.
LEMMA LockExcludes ==
  ASSUME LeaseInv, NEW p \in Pid, NEW q \in Pid,
         live[p], HoldsLock(p), live[q], HoldsLock(q)
  PROVE  p = q
BY DEF LeaseInv, LockIsHeld

LEMMA PublishInv ==
  ASSUME LeaseInv, TypeOK', NEW p \in Pid, Publish(p)
  PROVE  LeaseInv'
<1> USE DEF LeaseInv, Publish, TypeOK
<1>1. /\ meta'.state = "active" /\ meta'.pid = p
      /\ meta'.start = start[p] /\ meta'.completed = 0
  BY DEF Record
<1>2. \A q \in Pid : live[q] /\ HoldsLock(q) => q = p
  BY LockExcludes DEF HoldsLock
<1>3. LockIsHeld'
  BY DEF LockIsHeld, HoldsLock
<1>4. NoFutureAuthor'
  BY <1>1, BoundsAssumption DEF NoFutureAuthor
<1>5. ClearedIsReplaceable'
  BY <1>2 DEF ClearedIsReplaceable, HoldsLock
<1>6. HolderIsPublished'
  BY <1>1, <1>2, BoundsAssumption DEF HolderIsPublished, HoldsLock
<1>7. ReleasingIsOwn'
  BY <1>2 DEF ReleasingIsOwn, HoldsLock
<1> QED
  BY <1>3, <1>4, <1>5, <1>6, <1>7

LEMMA PublishFailsInv ==
  ASSUME LeaseInv, TypeOK', NEW p \in Pid, PublishFails(p)
  PROVE  LeaseInv'
<1> USE DEF LeaseInv, PublishFails, Unlocks, TypeOK
<1>1. meta' = meta \/ (meta'.pid = p /\ meta'.start = start[p])
  BY DEF Record
<1>2. \A q \in Pid : live[q] /\ HoldsLock(q) => q = p
  BY LockExcludes DEF HoldsLock
<1>3. LockIsHeld'
  BY <1>2 DEF LockIsHeld, HoldsLock
<1>4. NoFutureAuthor'
  BY <1>1, BoundsAssumption DEF NoFutureAuthor
<1>5. ClearedIsReplaceable' /\ HolderIsPublished' /\ ReleasingIsOwn'
  BY <1>2 DEF ClearedIsReplaceable, HolderIsPublished, ReleasingIsOwn, HoldsLock
<1> QED
  BY <1>3, <1>4, <1>5

LEMMA HeartbeatInv ==
  ASSUME LeaseInv, TypeOK', NEW p \in Pid, Heartbeat(p)
  PROVE  LeaseInv'
<1> USE DEF LeaseInv, Heartbeat, TypeOK
<1>1. /\ meta'.state = "active" /\ meta'.pid = p
      /\ meta'.start = start[p] /\ meta'.completed <= done'[p]
  <2> PICK n \in done[p]..MaxProgress :
        /\ done' = [done EXCEPT ![p] = n]
        /\ meta' = meta \/ meta' = Record("active", p, meta.known, n)
    OBVIOUS
  <2>1. CASE meta' = meta
    <3>1. /\ meta.state = "active" /\ meta.pid = p
          /\ meta.start = start[p] /\ meta.completed <= done[p]
      BY DEF HolderIsPublished
    <3> QED
      BY <2>1, <3>1, BoundsAssumption DEF Metadata
  <2>2. CASE meta' = Record("active", p, meta.known, n)
    BY <2>2, BoundsAssumption DEF Record
  <2> QED
    BY <2>1, <2>2
<1>2. \A q \in Pid : live[q] /\ HoldsLock(q) => q = p
  BY LockExcludes DEF HoldsLock
<1>3. LockIsHeld'
  BY DEF LockIsHeld, HoldsLock
<1>4. NoFutureAuthor'
  BY <1>1, BoundsAssumption DEF NoFutureAuthor
<1>5. HolderIsPublished'
  BY <1>1, <1>2 DEF HolderIsPublished, HoldsLock
<1>6. ClearedIsReplaceable' /\ ReleasingIsOwn'
  BY <1>2 DEF ClearedIsReplaceable, ReleasingIsOwn, HoldsLock
<1> QED
  BY <1>3, <1>4, <1>5, <1>6

LEMMA RetireInv ==
  ASSUME LeaseInv, TypeOK', NEW p \in Pid, Retire(p)
  PROVE  LeaseInv'
<1> USE DEF LeaseInv, Retire, TypeOK
<1>1. /\ meta'.state # "garbage"
      /\ meta'.pid = p /\ meta'.start = start[p]
  BY DEF Record, HolderIsPublished
<1>2. \A q \in Pid : live[q] /\ HoldsLock(q) => q = p
  BY LockExcludes DEF HoldsLock
<1>3. LockIsHeld'
  BY DEF LockIsHeld, HoldsLock
<1>4. NoFutureAuthor'
  BY <1>1, BoundsAssumption DEF NoFutureAuthor
<1>5. ReleasingIsOwn'
  BY <1>1, <1>2 DEF ReleasingIsOwn, HoldsLock
<1>6. ClearedIsReplaceable' /\ HolderIsPublished'
  BY <1>2 DEF ClearedIsReplaceable, HolderIsPublished, HoldsLock
<1> QED
  BY <1>3, <1>4, <1>5, <1>6

LEMMA UnlinkInv ==
  ASSUME LeaseInv, TypeOK', NEW p \in Pid, Unlink(p)
  PROVE  LeaseInv'
<1> USE DEF LeaseInv, Unlink, TypeOK
<1>1. meta' = meta \/ (meta'.state = "absent" /\ meta'.pid = NoPid)
  BY DEF Absent, NoRecord
<1>2. \A q \in Pid : live[q] /\ HoldsLock(q) => q = p
  BY LockExcludes DEF HoldsLock
<1>3. LockIsHeld'
  BY DEF LockIsHeld, HoldsLock
<1>4. NoFutureAuthor'
  BY <1>1, NoPidAssumption DEF NoFutureAuthor
<1>5. ReleasingIsOwn'
  BY <1>1, <1>2 DEF ReleasingIsOwn, HoldsLock
<1>6. ClearedIsReplaceable' /\ HolderIsPublished'
  BY <1>2 DEF ClearedIsReplaceable, HolderIsPublished, HoldsLock
<1> QED
  BY <1>3, <1>4, <1>5, <1>6

LEMMA UnlockInv ==
  ASSUME LeaseInv, TypeOK', NEW p \in Pid, Unlock(p)
  PROVE  LeaseInv'
<1> USE DEF LeaseInv, Unlock, Unlocks, TypeOK
<1>1. \A q \in Pid : live[q] /\ HoldsLock(q) => q = p
  BY LockExcludes DEF HoldsLock
<1>2. LockIsHeld'
  BY <1>1 DEF LockIsHeld, HoldsLock
<1> QED
  BY <1>2 DEF NoFutureAuthor, ClearedIsReplaceable, HolderIsPublished,
              ReleasingIsOwn, AuthorRuns

LEMMA NextInv == LeaseInv /\ [Next]_vars => LeaseInv'
<1> SUFFICES ASSUME LeaseInv, [Next]_vars PROVE LeaseInv'
  OBVIOUS
<1>1. TypeOK'
  BY NextTypeOK DEF LeaseInv
<1>2. CASE UNCHANGED vars
  BY <1>2 DEF vars, LeaseInv, TypeOK, LockIsHeld, HoldsLock, NoFutureAuthor,
              ClearedIsReplaceable, HolderIsPublished, ReleasingIsOwn, AuthorRuns
<1>3. CASE Next
  BY <1>1, <1>3, SpawnInv, DieInv, TryLockInv, ExamineInv, RefuseInv, PublishInv,
     PublishFailsInv, HeartbeatInv, RetireInv, UnlinkInv, UnlockInv
  DEF Next, Acquire, Release
<1> QED
  BY <1>2, <1>3

\* What the lock holder knows about the metadata file is never falsified by
\* the other processes, their deaths or the failures of its own steps.
THEOREM Invariance == Spec => []LeaseInv
BY InitInv, NextInv, PTL DEF Spec
-----------------------------------------------------------------------------
(* The properties of the lease. *)

\* At most one process has the lease: transfer_lease.py's promise of a single
\* writer per target, whatever dies or fails.
THEOREM Exclusion == Spec => []SingleWriter
<1>1. LeaseInv => SingleWriter
  BY LockExcludes DEF SingleWriter, Owns, HoldsLock
<1> QED
  BY <1>1, Invariance, PTL

\* The metadata another process reads during a transfer names the process
\* that really transfers, and no more bytes than it has completed.
THEOREM Published == Spec => []HolderIsPublished
<1>1. LeaseInv => HolderIsPublished
  BY DEF LeaseInv
<1> QED
  BY <1>1, Invariance, PTL

\* The step form of LiveOwnerNeverRecycled.
RecycleStep ==
  /\ meta.state = "garbage" => meta' = meta
  /\ meta.state = "active" /\ AuthorRuns(meta) =>
       \/ meta'.pid = meta.pid /\ meta'.start = meta.start
       \/ meta' = Absent /\ pc[meta.pid] = "retired"

LEMMA NextRecycle == LeaseInv /\ [Next]_vars => [RecycleStep]_vars
<1> SUFFICES ASSUME LeaseInv, Next PROVE RecycleStep
  OBVIOUS
<1> USE DEF LeaseInv
<1>1. ASSUME meta' = meta PROVE RecycleStep
  BY <1>1 DEF RecycleStep
<1>2. ASSUME NEW p \in Pid, live[p], pc[p] = "cleared" PROVE RecycleStep
  BY <1>2 DEF RecycleStep, ClearedIsReplaceable
<1>3. ASSUME NEW p \in Pid, Heartbeat(p) PROVE RecycleStep
  <2>1. meta'.pid = meta.pid /\ meta'.start = meta.start /\ meta.state = "active"
    BY <1>3 DEF Heartbeat, Record, HolderIsPublished
  <2> QED
    BY <2>1 DEF RecycleStep
<1>4. ASSUME NEW p \in Pid, Retire(p) PROVE RecycleStep
  <2>1. meta'.pid = meta.pid /\ meta'.start = meta.start /\ meta.state = "active"
    BY <1>4 DEF Retire, Record, HolderIsPublished
  <2> QED
    BY <2>1 DEF RecycleStep
<1>5. ASSUME NEW p \in Pid, Unlink(p) PROVE RecycleStep
  <2>1. meta.state # "garbage" /\ (meta.state = "active" => meta.pid = p)
    BY <1>5 DEF Unlink, ReleasingIsOwn
  <2>2. pc[p] = "retired" /\ meta' \in {Absent, meta}
    BY <1>5 DEF Unlink
  <2> QED
    BY <2>1, <2>2 DEF RecycleStep
<1> QED
  BY <1>1, <1>2, <1>3, <1>4, <1>5
  DEF Next, Acquire, Release, Spawn, Die, TryLock, Examine, Refuse, Publish,
      PublishFails, Unlock

\* A record that cannot be interpreted stays, and the record of a process
\* that still runs is changed by that process alone.
THEOREM FailClosed == Spec => LiveOwnerNeverRecycled
<1>1. LeaseInv /\ [Next]_vars => [RecycleStep]_vars
  BY NextRecycle
<1>2. Spec => [][RecycleStep]_vars
  BY <1>1, Invariance, PTL DEF Spec
<1> QED
  BY <1>2 DEF LiveOwnerNeverRecycled, RecycleStep
-----------------------------------------------------------------------------
(* Refinement of TargetOwnership. *)

Id(p) == <<p, start[p]>>

LEMMA OwnerIs ==
  ASSUME LeaseInv, NEW p \in Pid, Owns(p)
  PROVE  Owner = Id(p)
<1>1. \A q \in Pid : Owns(q) => q = p
  BY LockExcludes DEF Owns, HoldsLock
<1> QED
  BY <1>1 DEF Owner, Id

LEMMA NextOwnerIs ==
  ASSUME LeaseInv', NEW p \in Pid, Owns(p)'
  PROVE  Owner' = Id(p)'
<1>1. \A q \in Pid : Owns(q)' => q = p
  BY DEF LeaseInv, LockIsHeld, HoldsLock, Owns
<1> QED
  BY <1>1 DEF Owner, Id

LEMMA NextNobodyOwns ==
  ASSUME \A p \in Pid : ~Owns(p)'
  PROVE  Owner' = <<NoPid, 0>>
BY DEF Owner

LEMMA NobodyOwns ==
  ASSUME \A p \in Pid : ~Owns(p)
  PROVE  Owner = <<NoPid, 0>>
BY DEF Owner
LEMMA IdType == ASSUME TypeOK, NEW p \in Pid PROVE Id(p) \in Pid \X (0..MaxStarts)
BY DEF TypeOK, Id

\* An active record blocks the abstract Take exactly while its author runs.
LEMMA AnnouncedAlive ==
  ASSUME TypeOK
  PROVE  /\ Announced \in Running <=> meta.state = "active" /\ AuthorRuns(meta)
         /\ \A p \in Pid : Id(p) \in Running <=> live[p]
<1>1. \A p \in Pid : Id(p) \in Running <=> live[p]
  BY DEF Id, Running
<1>2. CASE meta.state = "active"
  <2>1. meta.pid \in Pid /\ Announced = <<meta.pid, meta.start>>
    BY <1>2 DEF TypeOK, Announced
  <2>2. <<meta.pid, meta.start>> \in Running
          <=> live[meta.pid] /\ start[meta.pid] = meta.start
    BY <2>1 DEF Running
  <2> QED
    BY <1>1, <1>2, <2>1, <2>2 DEF AuthorRuns
<1>3. CASE meta.state # "active"
  <2>1. Announced = <<NoPid, 0>>
    BY <1>3 DEF Announced
  <2>2. Announced \notin Running
    BY <2>1, NoPidAssumption DEF Running
  <2> QED
    BY <1>1, <1>3, <2>2
<1> QED
  BY <1>2, <1>3

\* The mapped variables follow the concrete ones.
LEMMA SameProcesses ==
  ASSUME live' = live, start' = start PROVE Running' = Running
BY DEF Running

LEMMA SameAnnouncement ==
  ASSUME meta' = meta PROVE Announced' = Announced
BY DEF Announced

LEMMA SameOwner ==
  ASSUME LeaseInv, LeaseInv',
         \A q \in Pid : Owns(q)' <=> Owns(q),
         \A q \in Pid : Owns(q) => start'[q] = start[q]
  PROVE  Owner' = Owner
<1>1. CASE \E q \in Pid : Owns(q)
  <2> PICK q \in Pid : Owns(q)
    BY <1>1
  <2>1. Owner = Id(q) /\ Owner' = Id(q)'
    BY OwnerIs, NextOwnerIs
  <2> QED
    BY <2>1 DEF Id
<1>2. CASE \A q \in Pid : ~Owns(q)
  BY <1>2, NobodyOwns, NextNobodyOwns
<1> QED
  BY <1>1, <1>2

LEMMA InitRefines == Init => Ownership!Init
<1> SUFFICES ASSUME Init PROVE Ownership!Init
  OBVIOUS
<1>1. TypeOK
  BY InitTypeOK
<1>2. Running \in SUBSET (Pid \X (0..MaxStarts))
  BY <1>1, IdType DEF Running, Id
<1>3. Owner = <<NoPid, 0>>
  BY NobodyOwns DEF Init, Owns
<1>4. Announced = <<NoPid, 0>>
  BY DEF Init, Announced, Absent, Garbage, NoRecord
<1> QED
  BY <1>2, <1>3, <1>4 DEF Ownership!Init
\* The steps that start or end a process.
LEMMA SpawnRefines ==
  ASSUME LeaseInv, LeaseInv', NEW p \in Pid, Spawn(p)
  PROVE  Ownership!Start(Id(p)')
<1> USE DEF Spawn
<1>1. TypeOK /\ TypeOK'
  BY DEF LeaseInv
<1>2. Announced' = Announced
  BY SameAnnouncement
<1>3. Owner' = Owner
  <2>1. \A q \in Pid : Owns(q)' <=> Owns(q)
    BY <1>1 DEF Owns, TypeOK
  <2>2. \A q \in Pid : Owns(q) => start'[q] = start[q]
    BY <1>1 DEF Owns, TypeOK
  <2> QED
    BY <2>1, <2>2, SameOwner
<1>4. Id(p)' \notin Running /\ Running' = Running \cup {Id(p)'}
  BY <1>1 DEF Running, Id, TypeOK
<1> QED
  BY <1>2, <1>3, <1>4 DEF Ownership!Start

LEMMA DieRefines ==
  ASSUME LeaseInv, LeaseInv', NEW p \in Pid, Die(p)
  PROVE  Ownership!Stop(Id(p))
<1> USE DEF Die
<1>1. TypeOK /\ TypeOK'
  BY DEF LeaseInv
<1>2. Announced' = Announced
  BY SameAnnouncement
<1>3. Id(p) \in Running /\ Running' = Running \ {Id(p)}
  BY <1>1 DEF Running, Id, TypeOK
<1>4. \A q \in Pid : Owns(q)' <=> Owns(q) /\ q # p
  BY <1>1 DEF Owns, TypeOK
<1>5. Owner' = IF Owner = Id(p) THEN <<NoPid, 0>> ELSE Owner
  <2>1. CASE Owns(p)
    <3>1. Owner = Id(p)
      BY <2>1, OwnerIs
    <3>2. \A q \in Pid : ~Owns(q)'
      BY <2>1, <1>4, LockExcludes DEF Owns, HoldsLock
    <3> QED
      BY <3>1, <3>2, NextNobodyOwns
  <2>2. CASE ~Owns(p)
    <3>1. Owner' = Owner
      BY <2>2, <1>4, SameOwner
    <3>2. CASE \E q \in Pid : Owns(q)
      <4> PICK q \in Pid : Owns(q)
        BY <3>2
      <4>1. Owner = Id(q) /\ q # p
        BY <2>2, OwnerIs
      <4> QED
        BY <3>1, <4>1 DEF Id
    <3>3. CASE \A q \in Pid : ~Owns(q)
      <4>1. Owner = <<NoPid, 0>>
        BY <3>3, NobodyOwns
      <4> QED
        BY <3>1, <4>1 DEF Id
    <3> QED
      BY <3>2, <3>3
  <2> QED
    BY <2>1, <2>2
<1> QED
  BY <1>2, <1>3, <1>5 DEF Ownership!Stop
\* The steps of a lease.
OwnershipUnchanged == UNCHANGED <<Running, Owner, Announced>>

LEMMA NothingOwned ==
  ASSUME LeaseInv, NEW p \in Pid, live[p], HoldsLock(p), pc[p] \notin AcquiredPC
  PROVE  \A q \in Pid : ~Owns(q)
BY LockExcludes DEF Owns, HoldsLock

\* Before the metadata is touched nothing is announced or owned.
LEMMA QuietRefines ==
  ASSUME LeaseInv, LeaseInv', NEW p \in Pid,
         TryLock(p) \/ Examine(p) \/ Refuse(p)
  PROVE  OwnershipUnchanged
<1>1. \A q \in Pid : Owns(q)' <=> Owns(q)
  BY DEF Owns, LeaseInv, TypeOK, TryLock, Examine, Refuse, Unlocks
<1>2. live' = live /\ start' = start /\ meta' = meta
  BY DEF TryLock, Examine, Refuse
<1> QED
  BY <1>1, <1>2, SameProcesses, SameAnnouncement, SameOwner
  DEF OwnershipUnchanged

\* Publication is the abstract Take: the target was free, and the record it
\* replaces names a process that no longer runs.
LEMMA PublishRefines ==
  ASSUME LeaseInv, LeaseInv', NEW p \in Pid, Publish(p) \/ PublishFails(p)
  PROVE  Ownership!Take(Id(p)) \/ OwnershipUnchanged
<1>1. /\ live[p] /\ pc[p] = "cleared" /\ TypeOK /\ TypeOK'
      /\ live' = live /\ start' = start
  BY DEF Publish, PublishFails, LeaseInv
<1>2. Running' = Running
  BY <1>1, SameProcesses
<1>3. Id(p) \in Running
  BY <1>1, AnnouncedAlive
<1>4. \A q \in Pid : ~Owns(q)
  BY <1>1, NothingOwned DEF HoldsLock
<1>5. Owner = <<NoPid, 0>>
  BY <1>4, NobodyOwns
<1>6. Announced \notin Running
  BY <1>1, AnnouncedAlive DEF LeaseInv, ClearedIsReplaceable
<1>7. CASE Publish(p)
  <2>1. Announced' = Id(p)
    BY <1>7 DEF Publish, Announced, Record, Id
  <2>2. Owner' = Id(p)
    <3>1. Owns(p)'
      BY <1>1, <1>7 DEF Publish, Owns, TypeOK
    <3> QED
      BY <1>1, <3>1, NextOwnerIs DEF Id
  <2> QED
    BY <1>2, <1>3, <1>5, <1>6, <2>1, <2>2 DEF Ownership!Take
<1>8. CASE PublishFails(p)
  <2>1. \A q \in Pid : ~Owns(q)'
    BY <1>1, <1>4, <1>8 DEF PublishFails, Unlocks, Owns, TypeOK
  <2>2. Owner' = <<NoPid, 0>>
    BY <2>1, NextNobodyOwns
  <2>3. CASE meta' = meta
    BY <1>2, <1>5, <2>2, <2>3, SameAnnouncement DEF OwnershipUnchanged
  <2>4. CASE \E k \in BOOLEAN : meta' = Record("active", p, k, 0)
    <3>1. Announced' = Id(p)
      BY <2>4 DEF Announced, Record, Id
    <3> QED
      BY <1>2, <1>3, <1>5, <1>6, <2>2, <3>1 DEF Ownership!Take
  <2> QED
    BY <1>8, <2>3, <2>4 DEF PublishFails
<1> QED
  BY <1>7, <1>8

LEMMA HeartbeatRefines ==
  ASSUME LeaseInv, LeaseInv', NEW p \in Pid, Heartbeat(p)
  PROVE  OwnershipUnchanged
<1>1. \A q \in Pid : Owns(q)' <=> Owns(q)
  BY DEF Owns, Heartbeat
<1>2. live' = live /\ start' = start
  BY DEF Heartbeat
<1>3. /\ meta'.state = meta.state /\ meta'.pid = meta.pid
      /\ meta'.start = meta.start
  BY DEF Heartbeat, Record, LeaseInv, HolderIsPublished
<1>4. Announced' = Announced
  BY <1>3 DEF Announced
<1> QED
  BY <1>1, <1>2, <1>4, SameProcesses, SameOwner DEF OwnershipUnchanged

\* Both steps of release() that touch the file withdraw the announcement of
\* the owner, or leave it.
LEMMA RetireRefines ==
  ASSUME LeaseInv, LeaseInv', NEW p \in Pid, Retire(p) \/ Unlink(p)
  PROVE  Ownership!Withdraw(Id(p)) \/ OwnershipUnchanged
<1>1. \A q \in Pid : Owns(q)' <=> Owns(q)
  BY DEF Owns, Retire, Unlink, LeaseInv, TypeOK
<1>2. live' = live /\ start' = start
  BY DEF Retire, Unlink
<1>3. Running' = Running /\ Owner' = Owner
  BY <1>1, <1>2, SameProcesses, SameOwner
<1>4. Owner = Id(p)
  BY OwnerIs DEF Owns, Retire, Unlink
<1>5. meta' = meta \/ meta'.state # "active"
  BY DEF Retire, Unlink, Record, Absent, NoRecord
<1>6. CASE meta' = meta
  BY <1>3, <1>6, SameAnnouncement DEF OwnershipUnchanged
<1>7. CASE meta'.state # "active"
  BY <1>3, <1>4, <1>7 DEF Announced, Ownership!Withdraw
<1> QED
  BY <1>5, <1>6, <1>7

LEMMA UnlockRefines ==
  ASSUME LeaseInv, LeaseInv', NEW p \in Pid, Unlock(p)
  PROVE  Ownership!Drop(Id(p))
<1>1. live' = live /\ start' = start /\ meta' = meta
  BY DEF Unlock
<1>2. Owns(p) /\ Owner = Id(p)
  BY OwnerIs DEF Owns, Unlock
<1>3. \A q \in Pid : ~Owns(q)'
  BY <1>2, LockExcludes DEF Owns, Unlock, Unlocks, HoldsLock, LeaseInv, TypeOK
<1> QED
  BY <1>1, <1>2, <1>3, NextNobodyOwns, SameProcesses, SameAnnouncement
  DEF Ownership!Drop

LEMMA NextRefines ==
  LeaseInv /\ LeaseInv' /\ [Next]_vars => [Ownership!Next]_(Ownership!vars)
<1> SUFFICES ASSUME LeaseInv, LeaseInv', [Next]_vars
             PROVE  Ownership!Next \/ OwnershipUnchanged
  BY DEF OwnershipUnchanged, Ownership!vars
<1>1. CASE UNCHANGED vars
  <2>1. \A q \in Pid : Owns(q)' <=> Owns(q)
    BY <1>1 DEF vars, Owns
  <2> QED
    BY <1>1, <2>1, SameProcesses, SameAnnouncement, SameOwner
    DEF vars, OwnershipUnchanged
<1>2. CASE Next
  <2> PICK p \in Pid : \/ Spawn(p) \/ Die(p)
                       \/ Acquire(p) \/ Heartbeat(p) \/ Release(p)
    BY <1>2 DEF Next
  <2>1. Id(p) \in Pid \X (0..MaxStarts) /\ Id(p)' \in Pid \X (0..MaxStarts)
    <3>1. TypeOK /\ TypeOK'
      BY DEF LeaseInv
    <3> QED
      BY <3>1 DEF TypeOK, Id
  <2>2. \/ Ownership!Start(Id(p)') \/ Ownership!Stop(Id(p))
        \/ Ownership!Take(Id(p)) \/ Ownership!Withdraw(Id(p))
        \/ Ownership!Drop(Id(p)) \/ OwnershipUnchanged
    BY SpawnRefines, DieRefines, QuietRefines, PublishRefines, HeartbeatRefines,
       RetireRefines, UnlockRefines DEF Acquire, Release
  <2> QED
    BY <2>1, <2>2 DEF Ownership!Next
<1> QED
  BY <1>1, <1>2

\* The lease protocol implements exclusive ownership of the target by process
\* identities: every step of acquire(), heartbeat(), release() and of a dying
\* or starting process is a step of TargetOwnership or changes nothing there.
THEOREM Refinement == Spec => OwnershipSpec
BY InitRefines, NextRefines, Invariance, PTL
DEF Spec, OwnershipSpec, Ownership!Spec
=============================================================================
