----------------------------- MODULE JobMonitor -----------------------------
(***************************************************************************)
(* colab monitor: the local evidence of one remote job (monitor.py).       *)
(*                                                                         *)
(* A monitor polls the status of a job and copies the new bytes of its two *)
(* logs to local files.  Its offsets live in memory and, once per poll, in *)
(* monitor_state.json; the local logs are written before the state, and    *)
(* the next run takes its offsets from the sizes of the local logs.  A run *)
(* may be killed or interrupted anywhere, every remote call may fail, and  *)
(* the VM may be replaced by one in which another job has the same id.     *)
(*                                                                         *)
(* The file lock of the output directory admits one run at a time (a       *)
(* second one stops before it touches anything).  Not modelled: events,    *)
(* job.jsonl, the resource samples and their own boot id.                  *)
(***************************************************************************)
EXTENDS Integers, Sequences

CONSTANTS
  MaxLog,     \* bound: bytes the job writes to a log
  MaxBytes,   \* bytes of one tail call (--max-bytes)
  MaxChunks,  \* tail calls with data of one stream in one poll
  MaxErrors,  \* --max-control-errors
  MaxRuns,    \* bound: how often the monitor is started
  MaxBoots    \* bound: how often the VM is replaced

ASSUME MonitorAssumption ==
  /\ {MaxLog, MaxRuns, MaxBoots} \subseteq Nat
  /\ {MaxBytes, MaxChunks, MaxErrors} \subseteq Nat \ {0}

VARIABLES
  boot, ended, log,  \* remote: the runtime id, a terminal status, the log sizes
  file,              \* the local logs: byte i of runtime b is <<b, i>>
  saved,             \* monitor_state.json
  pc, mem, conn,     \* the run: its state in memory, the VM it is connected to
  snap,              \* the status of this poll
  at, chunks, buf,   \* the drain: next offset, calls so far, bytes not closed yet
  caught,            \* the streams caught up in this poll
  outcome,           \* the summary of the last run
  runs,
  spoilt             \* history: what has spoilt the evidence, see Spoils

remote == <<boot, ended, log>>
drain  == <<at, chunks, buf>>
vars == <<boot, ended, log, file, saved, pc, mem, conn, snap, at, chunks, buf,
          caught, outcome, runs, spoilt>>

Stream == {"stdout", "stderr"}
None == -1                         \* no runtime id yet, no connection
PC == {"off", "poll", "stdout", "stderr", "close", "finish"}

NoState == [exists |-> FALSE, offset |-> [s \in Stream |-> 0], errors |-> 0,
            bound |-> None]
NoSnap == [ended |-> FALSE, size |-> [s \in Stream |-> 0]]

Bytes(b, i, j) == [k \in 1..(j - i) |-> <<b, i + k>>]

Init ==
  /\ boot = 0 /\ ended = FALSE /\ log = [s \in Stream |-> 0]
  /\ file = [s \in Stream |-> <<>>]
  /\ saved = NoState
  /\ pc = "off" /\ mem = NoState /\ conn = None
  /\ snap = NoSnap
  /\ at = 0 /\ chunks = 0 /\ buf = [of |-> "stdout", data |-> <<>>]
  /\ caught = {}
  /\ outcome = "none"
  /\ runs = 0 /\ spoilt = {}
-----------------------------------------------------------------------------
(* The remote job *)

\* The command, or a process it left behind, writes a byte.
LogGrows ==
  /\ \E s \in Stream : log[s] < MaxLog /\ log' = [log EXCEPT ![s] = @ + 1]
  /\ UNCHANGED <<boot, ended, file, saved, pc, mem, conn, snap, drain, caught, outcome, runs, spoilt>>

\* A verdict, or the lost of a job whose runner is gone.
JobEnds ==
  /\ ~ended /\ ended' = TRUE
  /\ UNCHANGED <<boot, log, file, saved, pc, mem, conn, snap, drain, caught, outcome, runs, spoilt>>

\* A new VM, and in it a job of the same id; the old connections are dead.
JobIsReplaced ==
  /\ boot < MaxBoots
  /\ boot' = boot + 1 /\ ended' = FALSE /\ log' = [s \in Stream |-> 0]
  /\ UNCHANGED <<file, saved, pc, mem, conn, snap, drain, caught, outcome, runs, spoilt>>
-----------------------------------------------------------------------------
(* Start and end of a run *)

\* Mutant of Reconciled: the recorded offsets are trusted.
Recorded == saved.offset

\* _load_or_create_state, _reconcile_local_offsets and the first state write.
Reconciled == [s \in Stream |-> Len(file[s])]

\* The lock of the output directory is free as long as no run has it.
Locks == pc = "off" /\ runs < MaxRuns /\ runs' = runs + 1

\* The state file is replaced at once.
Saves(m) == mem' = m /\ saved' = m

Start ==
  /\ Locks
  /\ Saves([saved EXCEPT !.exists = TRUE, !.offset = Reconciled])
  /\ pc' = "poll" /\ conn' = None /\ outcome' = "none"
  /\ UNCHANGED <<remote, file, snap, drain, caught, spoilt>>

\* Closing a log file, in order or in the finally clause, flushes it.
Flushed == [file EXCEPT ![buf.of] = @ \o buf.data]
NoBuf   == buf' = [buf EXCEPT !.data = <<>>]

\* The outer finally clause saves the state as it is in memory.
Ends(result, m) ==
  /\ pc' = "off" /\ conn' = None
  /\ outcome' = result
  /\ Saves(m)

\* --timeout is looked at before each poll.
TimesOut ==
  /\ pc = "poll"
  /\ Ends("timeout", mem)
  /\ UNCHANGED <<remote, file, snap, drain, caught, runs, spoilt>>

\* Ctrl+C.
Interrupted ==
  /\ pc # "off"
  /\ Ends("interrupted", mem)
  /\ file' = Flushed /\ NoBuf
  /\ UNCHANGED <<remote, snap, at, chunks, caught, runs, spoilt>>

\* Two faults spoil the evidence for good: a kill between the first status
\* answer and the state write of that poll, after which no later run knows the
\* runtime of the bytes it finds; and a tail call that fails when earlier calls
\* of its drain have brought bytes, which are in the file and not in the offset.
Spoils(fault, b) == spoilt' = IF b THEN spoilt \cup {fault} ELSE spoilt

\* A kill: some of the bytes that wait to be flushed are in the file.
Killed ==
  /\ pc # "off"
  /\ Spoils("kill", saved.bound # mem.bound)
  /\ pc' = "off" /\ conn' = None
  /\ \E n \in 0..Len(buf.data) :
       file' = [file EXCEPT ![buf.of] = @ \o SubSeq(buf.data, 1, n)]
  /\ NoBuf
  /\ UNCHANGED <<remote, saved, mem, snap, at, chunks, caught, outcome, runs>>
-----------------------------------------------------------------------------
(* A poll: connect, status, the two drains, the state write *)

\* Any failing call: the connection is dropped, the error counted, and the run
\* ends when the endpoint is no longer assigned or too many errors followed
\* each other.  The offset of a drain that failed is not returned.
ControlError ==
  /\ LET m == [mem EXCEPT !.errors = @ + 1] IN
       \/ Ends("failed", m)
       \/ /\ m.errors < MaxErrors
          /\ Saves(m)
          /\ pc' = "poll" /\ conn' = None /\ UNCHANGED outcome
  /\ file' = Flushed /\ NoBuf
  /\ UNCHANGED <<remote, snap, at, chunks, caught, runs>>

Connect ==
  /\ pc = "poll" /\ conn = None
  /\ conn' = boot
  /\ UNCHANGED <<remote, file, saved, pc, mem, snap, drain, caught, outcome, runs, spoilt>>

\* Creating the connection, or the status call over it, fails.
StatusFails == pc = "poll" /\ ControlError /\ UNCHANGED spoilt

OpenDrain(s) == /\ pc' = s /\ at' = mem.offset[s] /\ chunks' = 0
                /\ buf' = [of |-> s, data |-> <<>>]

\* The evidence is bound to the runtime of the first answer.
Bound == IF mem.bound = None THEN boot ELSE mem.bound

\* The remote logs are no shorter than the local ones.
NotRewound == \A s \in Stream : mem.offset[s] <= log[s]

\* A status answer clears the error count, even one that then is refused.
GetStatus ==
  /\ pc = "poll" /\ conn = boot
  /\ snap' = [ended |-> ended, size |-> log]
  /\ caught' = {}
  /\ LET m == [mem EXCEPT !.errors = 0, !.bound = Bound] IN
         IF Bound = boot /\ NotRewound
         THEN OpenDrain("stdout") /\ mem' = m /\ UNCHANGED <<saved, conn, outcome>>
         ELSE Ends("failed", m) /\ UNCHANGED drain
  /\ UNCHANGED <<remote, file, runs, spoilt>>

\* Mutant of DrainSkips: a stream without news does not count as caught up.
DrainSkipsPending ==
  /\ pc \in Stream /\ chunks = 0 /\ at = snap.size[pc]
  /\ IF pc = "stdout" THEN OpenDrain("stderr") ELSE pc' = "finish" /\ UNCHANGED drain
  /\ UNCHANGED <<remote, file, saved, mem, conn, snap, caught, outcome, runs, spoilt>>

\* Nothing to fetch: the size in the status is the local offset.
DrainSkips ==
  /\ pc \in Stream /\ chunks = 0 /\ at = snap.size[pc]
  /\ caught' = caught \cup {pc}
  /\ IF pc = "stdout" THEN OpenDrain("stderr") ELSE pc' = "finish" /\ UNCHANGED drain
  /\ UNCHANGED <<remote, file, saved, mem, conn, snap, outcome, runs, spoilt>>

\* One tail call; its bytes go to the open file's buffer.
Least(i, j) == IF i < j THEN i ELSE j

\* Mutant of DrainTails: the offset is advanced before the bytes are local.
DrainTailsAhead ==
  /\ pc \in Stream /\ conn = boot
  /\ chunks > 0 \/ at # snap.size[pc]
  /\ LET next == Least(at + MaxBytes, log[pc])
         up   == next >= log[pc] \/ next >= snap.size[pc]
     IN  /\ at' = next /\ chunks' = chunks + 1
         /\ mem' = [mem EXCEPT !.offset[pc] = next]
         /\ buf' = [buf EXCEPT !.data = @ \o Bytes(boot, at, next)]
         /\ caught' = IF up THEN caught \cup {pc} ELSE caught
         /\ pc' = "close"
  /\ UNCHANGED <<remote, file, saved, conn, snap, outcome, runs, spoilt>>

DrainTails ==
  /\ pc \in Stream /\ conn = boot
  /\ chunks > 0 \/ at # snap.size[pc]
  /\ LET next == Least(at + MaxBytes, log[pc])
         up   == next >= log[pc] \/ next >= snap.size[pc]
         more == ~up /\ next > at /\ chunks + 1 < MaxChunks
     IN  /\ at' = next /\ chunks' = chunks + 1
         /\ buf' = [buf EXCEPT !.data = @ \o Bytes(boot, at, next)]
         /\ caught' = IF up THEN caught \cup {pc} ELSE caught
         /\ pc' = IF more THEN pc ELSE "close"
  /\ UNCHANGED <<remote, file, saved, mem, conn, snap, outcome, runs, spoilt>>

DrainFails ==
  /\ pc \in Stream
  /\ chunks > 0 \/ at # snap.size[pc]
  /\ Spoils("tail", conn = boot /\ buf.data # <<>>)
  /\ ControlError

\* flush, fsync and close; the new offset is returned to the poll.
DrainCloses ==
  /\ pc = "close"
  /\ file' = Flushed
  /\ mem' = [mem EXCEPT !.offset[buf.of] = at]
  /\ IF buf.of = "stdout" THEN OpenDrain("stderr")
     ELSE pc' = "finish" /\ NoBuf /\ UNCHANGED <<at, chunks>>
  /\ UNCHANGED <<remote, saved, conn, snap, caught, outcome, runs, spoilt>>

\* Mutant of FinishPoll: one log is enough.
FinishPollEarly ==
  /\ pc = "finish"
  /\ IF snap.ended /\ caught # {}
     THEN Ends("completed", mem)
     ELSE pc' = "poll" /\ saved' = mem /\ UNCHANGED <<mem, conn, outcome>>
  /\ UNCHANGED <<remote, file, snap, drain, caught, runs, spoilt>>

\* The state write; a terminal job ends the run once both logs are here, and
\* --once the run of any other.
FinishPoll ==
  /\ pc = "finish"
  /\ IF snap.ended /\ caught = Stream
     THEN Ends("completed", mem)
     ELSE \/ pc' = "poll" /\ Saves(mem) /\ UNCHANGED <<conn, outcome>>
          \/ ~snap.ended /\ Ends("snapshot", mem)
  /\ UNCHANGED <<remote, file, snap, drain, caught, runs, spoilt>>
-----------------------------------------------------------------------------
Remote == LogGrows \/ JobEnds \/ JobIsReplaced
Poll == Connect \/ GetStatus \/ DrainSkips \/ DrainTails \/ DrainCloses \/ FinishPoll
Fault == TimesOut \/ Interrupted \/ Killed \/ StatusFails \/ DrainFails

Next == Remote \/ Start \/ Poll \/ Fault

Spec == Init /\ [][Next]_vars

\* A started run keeps polling, and tail calls that are repeated again and
\* again succeed at last; the status call may go on failing.
FairSpec == Spec /\ WF_vars(Poll \/ StatusFails \/ DrainFails) /\ SF_vars(DrainTails)
-----------------------------------------------------------------------------
(* Properties *)

Byte == (0..MaxBoots) \X (1..MaxLog)
MonitorState == [exists : BOOLEAN, offset : [Stream -> Nat], errors : Nat,
                 bound : {None} \cup 0..MaxBoots]

TypeOK ==
  /\ boot \in 0..MaxBoots /\ ended \in BOOLEAN
  /\ log \in [Stream -> 0..MaxLog]
  /\ file \in [Stream -> Seq(Byte)]
  /\ saved \in MonitorState /\ mem \in MonitorState
  /\ pc \in PC /\ conn \in {None} \cup 0..MaxBoots
  /\ snap \in [ended : BOOLEAN, size : [Stream -> 0..MaxLog]]
  /\ at \in Nat /\ chunks \in 0..MaxChunks
  /\ pc \in Stream => chunks < MaxChunks
  /\ buf \in [of : Stream, data : Seq(Byte)]
  /\ caught \subseteq Stream
  /\ outcome \in {"none", "timeout", "interrupted", "failed", "completed", "snapshot"}
  /\ runs \in 0..MaxRuns
  /\ spoilt \subseteq {"kill", "tail"}

\* A local log is a prefix of the remote log, whatever was killed,
\* interrupted, restarted or replaced in between: no byte twice, none left
\* out, and both logs come from the same runtime.  Except after the two faults
\* of Spoils: from there on the code promises less than docs/07 says, which
\* NoByteTwice and OneRuntime show.
EvidenceIsPrefix ==
  spoilt = {} =>
    \E b \in 0..MaxBoots : \A s \in Stream : file[s] = Bytes(b, 0, Len(file[s]))

\* monitor_state.json never counts a byte that is not in the local log, and
\* neither does the run, however tail calls fail: the log is written first.
OffsetsAreLocal ==
  \A s \in Stream : saved.offset[s] <= Len(file[s]) /\ mem.offset[s] <= Len(file[s])

\* docs/07: "A terminal job is not returned to the caller until all reported
\* log bytes are local": a run that completes has every byte the terminal
\* status counted, unless a fault of Spoils came before it.
EvidenceIsComplete ==
  spoilt = {} /\ outcome = "completed" =>
    \A s \in Stream : \A i \in 1..snap.size[s] :
      \E k \in DOMAIN file[s] : file[s][k] = <<mem.bound, i>>

\* A run that watches a finished job comes to its end, however many polls the
\* backlog needs (unless the VM is replaced and the new job runs on).
RunEnds == (ended /\ pc # "off") ~> (pc = "off" \/ ~ended)

\* The inductive invariant behind EvidenceIsPrefix: where every byte in the
\* local logs and in the open buffer comes from, and how the offsets follow.
Draining == pc \in Stream \cup {"close"}
Origin == IF mem.bound = None THEN 0 ELSE mem.bound
LogsAreOrigin == \A s \in Stream : file[s] = Bytes(Origin, 0, Len(file[s]))
BufferFollows ==
  IF Draining
  THEN /\ pc # "close" => buf.of = pc
       /\ at = Len(file[buf.of]) + Len(buf.data)
       /\ buf.data = Bytes(Origin, Len(file[buf.of]), at)
       /\ pc # "close" /\ chunks = 0 => buf.data = <<>>
  ELSE buf.data = <<>>
BindingIsKnown ==
  /\ Draining \/ pc = "finish" => mem.bound = conn /\ conn # None
  /\ mem.bound = None => \A s \in Stream : file[s] = <<>>
  /\ pc = "off" => saved.bound = mem.bound
  /\ mem.bound <= boot /\ conn <= boot
OffsetsAreSizes ==
  Draining \/ pc = "finish" \/ (pc = "poll" /\ mem.bound \in {None, boot}) =>
    \A s \in Stream : mem.offset[s] = Len(file[s])
RemoteIsAhead ==
  Draining /\ conn = boot =>
    /\ at <= log[buf.of]
    /\ \A s \in Stream : mem.offset[s] <= log[s]

UnspoiltInv == /\ TypeOK /\ LogsAreOrigin /\ BufferFollows /\ BindingIsKnown
               /\ OffsetsAreSizes /\ RemoteIsAhead

MonitorInv == TypeOK /\ (spoilt = {} => UnspoiltInv)

\* docs/07: "Re-running the command reconciles offsets against local file
\* sizes and continues without duplicating bytes."
NoByteTwice ==
  \A s \in Stream : \A i, j \in DOMAIN file[s] : file[s][i] = file[s][j] => i = j

\* docs/07: "`monitor_state.json` ... binds the evidence to job ID, session
\* name, endpoint, remote runtime ID": the bytes in an output directory all
\* come from one runtime.
OneRuntime ==
  \E b \in 0..MaxBoots : \A s \in Stream : \A i \in DOMAIN file[s] : file[s][i][1] = b
=============================================================================
