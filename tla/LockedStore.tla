---------------------------- MODULE LockedStore -----------------------------
(***************************************************************************)
(* sessions.json and settings.json under their locks (state.py).           *)
(*                                                                         *)
(* Every command and every keep-alive daemon is a process of its own.  A   *)
(* reader holds the lock shared, a writer exclusively; a writer reads the   *)
(* file, truncates it, writes and syncs, all in place: a process killed in  *)
(* between, or a write that raises, leaves an empty file, which every       *)
(* reader takes for an empty store, or a torn one, which the strict readers *)
(* refuse.  The lock itself is the library's: it admits readers or one      *)
(* writer and ends with its process.                                        *)
(***************************************************************************)
EXTENDS StoreOps, Naturals

CONSTANTS
  Proc,      \* processes
  MaxBreaks  \* bound: operations broken off

ASSUME BreaksAssumption == MaxBreaks \in Nat

VARIABLES
  file,    \* file[s]: the file of store s
  job,     \* job[p]: the operation p is in, with the lock of its store
  breaks   \* writes broken off so far

storeVars == <<file, job, breaks>>

NoJob == [at |-> "none"]

\* The file as text, and the value it was written from.
File(s, text) == [text |-> text, value |-> Default(s)]
Whole(c) == [text |-> "whole", value |-> c.value]

\* A missing or empty file is an empty store; one that does not parse is
\* damaged.
Content(s) ==
  CASE file[s].text = "whole" -> Intact(file[s].value)
    [] file[s].text = "torn" -> Damaged(s)
    [] OTHER -> Intact(Default(s))

Initial(s) == {File(s, "absent")} \cup {Whole(Intact(v)) : v \in Values(s)}
StoreInit ==
  /\ \E f \in Initial("sessions"), g \in Initial("settings") :
       file = [s \in Store |-> IF s = "sessions" THEN f ELSE g]
  /\ job = [p \in Proc |-> NoJob]
  /\ breaks = 0

At(p, at) == job[p].at = at
On(p, s)  == ~At(p, "none") /\ job[p].op.store = s
Writing(p) == job[p].at \in {"load", "truncate", "write", "sync"}
Goto(p, at) == job' = [job EXCEPT ![p].at = at]
Unlocks(p)  == job' = [job EXCEPT ![p] = NoJob]
-----------------------------------------------------------------------------
\* A reader that finds no file does not ask for the lock.
LockShared(p, op) ==
  /\ At(p, "none") /\ file[op.store].text # "absent"
  /\ \A q \in Proc : On(q, op.store) => ~Writing(q)
  /\ job' = [job EXCEPT ![p] = [at |-> "read", op |-> op, seen |-> Content(op.store)]]
  /\ UNCHANGED <<file, breaks>>

\* Mutant of LockExclusive: a writer does not wait for another one.
LockShares(p, op) ==
  /\ At(p, "none")
  /\ job' = [job EXCEPT ![p] = [at |-> "load", op |-> op, seen |-> Content(op.store)]]
  /\ file' = IF file[op.store].text = "absent"
             THEN [file EXCEPT ![op.store] = File(op.store, "empty")] ELSE file
  /\ UNCHANGED breaks

\* A writer opens the file with mode "a+", which creates it.
LockExclusive(p, op) ==
  /\ At(p, "none")
  /\ \A q \in Proc : ~On(q, op.store)
  /\ job' = [job EXCEPT ![p] = [at |-> "load", op |-> op, seen |-> Content(op.store)]]
  /\ file' = IF file[op.store].text = "absent"
             THEN [file EXCEPT ![op.store] = File(op.store, "empty")] ELSE file
  /\ UNCHANGED breaks

\* What the reader returns is what it reads now.
Read(p) ==
  /\ At(p, "read")
  /\ Unlocks(p)
  /\ UNCHANGED <<file, breaks>>

\* Mutant of Refuses: a strict operation loads like the others.
RefusesNothing(op, c) == Raises(op, Intact(c.value)) \/ Keeps(op, c)

Refuses(op, c) == Raises(op, c) \/ Keeps(op, c)

\* A save does not read; the others may raise or find nothing to do.
Load(p) ==
  /\ At(p, "load")
  /\ IF Refuses(job[p].op, Content(job[p].op.store))
     THEN Unlocks(p)
     ELSE job' = [job EXCEPT ![p].at = "truncate", ![p].seen = Content(job[p].op.store)]
  /\ UNCHANGED <<file, breaks>>

Puts(p, text) == file' = [file EXCEPT ![job[p].op.store] = File(job[p].op.store, text)]

Truncate(p) == At(p, "truncate") /\ Puts(p, "empty") /\ Goto(p, "write") /\ UNCHANGED breaks
Write(p)    == At(p, "write") /\ Puts(p, "torn") /\ Goto(p, "sync") /\ UNCHANGED breaks

\* flush and fsync; the lock is given back.
Sync(p) ==
  /\ At(p, "sync")
  /\ file' = [file EXCEPT ![job[p].op.store] = Whole(Written(job[p].op, job[p].seen))]
  /\ Unlocks(p)
  /\ UNCHANGED breaks

\* The process is killed, or a file operation raises; the lock is free.
Break(p) ==
  /\ ~At(p, "none") /\ breaks < MaxBreaks
  /\ breaks' = breaks + 1
  /\ Unlocks(p)
  /\ UNCHANGED file
-----------------------------------------------------------------------------
StoreStep(p) == Read(p) \/ Load(p) \/ Truncate(p) \/ Write(p) \/ Sync(p)

StoreNext ==
  \E p \in Proc : \/ \E op \in Reads : LockShared(p, op)
                  \/ \E op \in Writes : LockExclusive(p, op)
                  \/ StoreStep(p) \/ Break(p)

StoreSpec == StoreInit /\ [][StoreNext]_storeVars
-----------------------------------------------------------------------------
(* Properties *)

Texts == {"absent", "empty", "torn", "whole"}
Files(s) == [text : Texts, value : Values(s)]
Job(p) ==
  \/ job[p] = NoJob
  \/ job[p].at = "read" /\ job[p] \in [at : {"read"}, op : Reads, seen : Contents(job[p].op.store)]
  \/ /\ Writing(p)
     /\ job[p] \in [at : {"load", "truncate", "write", "sync"}, op : Writes,
                    seen : Contents(job[p].op.store)]

StoreTypeOK ==
  /\ DOMAIN file = Store /\ \A s \in Store : file[s] \in Files(s)
  /\ DOMAIN job = Proc /\ \A p \in Proc : Job(p)
  /\ breaks \in Nat

\* Readers, or one writer; and what a writer or reader has seen is still there
\* until the writer truncates the file.
Locked ==
  \A p, q \in Proc : \A s \in Store :
    On(p, s) /\ On(q, s) /\ Writing(p) => p = q
SeenIsThere ==
  \A p \in Proc :
    /\ job[p].at \in {"read", "load", "truncate"} =>
         job[p].seen = Content(job[p].op.store)
    /\ job[p].at \in {"truncate", "write", "sync"} => ~Refuses(job[p].op, job[p].seen)
    /\ At(p, "write") => file[job[p].op.store].text = "empty"
    /\ At(p, "sync") => file[job[p].op.store].text = "torn"

StoreInv == StoreTypeOK /\ Locked /\ SeenIsThere

\* A write under way has not happened yet.
MidWrite(p, s) == On(p, s) /\ job[p].at \in {"write", "sync"}
AbstractTable ==
  [s \in Store |-> IF \E p \in Proc : MidWrite(p, s)
                     THEN job[CHOOSE p \in Proc : MidWrite(p, s)].seen
                     ELSE Content(s)]

\* docs/01_session_management.md: _LockedFileStore "guards concurrent access
\* across independent `colab` invocations and the detached keep-alive daemon":
\* the files implement the atomic stores; no operation is lost, or works on
\* what another one is about to replace, and only a broken write loses content.
A == INSTANCE StoreTable WITH table <- AbstractTable
AtomicStores == A!TableSpec

\* A strict operation never replaces a store that does not parse (add_strict:
\* "Add state without replacing an unreadable store").
StrictKeepsDamaged ==
  [][\A s \in Store : file[s].text = "torn" /\ file'[s] # file[s] =>
       \E p \in Proc : /\ On(p, s) /\ Writing(p)
                       /\ At(p, "truncate") => job[p].op.kind \notin StrictKind]_storeVars
=============================================================================
