------------------------------ MODULE JobWait ------------------------------
(***************************************************************************)
(* colab wait and colab tail (commands/jobs.py, jobs.py), clients of the   *)
(* same remote job as the monitor.                                         *)
(*                                                                         *)
(* wait polls the status and prints the new bytes of both logs, until the  *)
(* status is terminal or its own deadline has passed; tail prints one      *)
(* chunk.  The first call of a client defines the helper functions in the  *)
(* kernel; a restart of the kernel forgets them.  A client never connects  *)
(* again: a failing call ends it.                                          *)
(*                                                                         *)
(* Clients only read the job, so a behaviour has one of them.  Not         *)
(* modelled: how bytes are decoded (each chunk on its own), exit codes     *)
(* beyond their kind, the poll interval.                                   *)
(***************************************************************************)
EXTENDS JobMonitor

CONSTANT Client  \* the clients users run: monitor, wait, tail

ASSUME ClientAssumption == Client \subseteq {"monitor", "wait", "tail"}

VARIABLES
  client,  \* the client of this behaviour
  helper,  \* whether the kernel has the helper functions
  w        \* the wait or the tail: where it is, --timeout given or past, the VM
           \* it is connected to, _bootstrapped, the next offsets, the last
           \* status, and how it exits

waiter == <<client, helper, w>>

Asleep == [pc |-> "off", timed |-> FALSE, late |-> FALSE, link |-> None, sent |-> FALSE,
           next |-> [s \in Stream |-> 0], seen |-> NoSnap, exit |-> "none"]

WaitInit ==
  /\ Init /\ w = Asleep
  /\ client \in Client /\ helper \in IF client = "monitor" THEN {FALSE} ELSE BOOLEAN

Running == w.pc \notin {"off", "done"}
Exits(how) == w' = [w EXCEPT !.pc = "done", !.exit = how] /\ UNCHANGED helper

\* The user gives offsets to start from; only wait takes a --timeout.
Runs ==
  /\ client # "monitor" /\ w.pc = "off"
  /\ \E from \in [Stream -> 0..MaxLog], timed \in IF client = "wait" THEN BOOLEAN ELSE {FALSE} :
       w' = [w EXCEPT !.pc = "open", !.next = from, !.timed = timed]
  /\ UNCHANGED helper

\* _open_client: the deadline does not bound it.
Opens ==
  /\ w.pc = "open"
  /\ \E next \in IF client = "wait" THEN {"status"} ELSE Stream :
       w' = [w EXCEPT !.pc = next, !.link = boot]
  /\ UNCHANGED helper

\* A call that is answered: in time, by the same VM, in a kernel that has the
\* helper functions or gets them now.
Answers == w.link = boot /\ ~w.late /\ (w.sent => helper) /\ helper' = TRUE

\* Anything else that a call does, an offset beyond the log included.
Fails == w.pc \in {"open", "status"} \cup Stream /\ Exits("failed")

\* No time is left for a call, or its budget ran out: at most 120 s of the rest.
TimesOutWaiting == w.timed /\ w.pc \in {"status"} \cup Stream /\ Exits("timeout")

GetsStatus ==
  /\ w.pc = "status" /\ Answers
  /\ w' = [w EXCEPT !.pc = "stdout", !.sent = TRUE, !.seen = [ended |-> ended, size |-> log]]

\* _tail: the size is read first; the data may hold what came after it.
Chunk(s, size) == w.next[s] <= size /\ Answers
Upto(s) == Least(w.next[s] + MaxBytes, log[s])

\* Mutant of Drains: one call for each log.
DrainsOnce ==
  /\ client = "wait" /\ w.pc \in Stream
  /\ \E size \in w.seen.size[w.pc]..log[w.pc] :
       /\ Chunk(w.pc, size)
       /\ w' = [w EXCEPT !.next[w.pc] = Upto(w.pc),
                         !.pc = IF @ = "stdout" THEN "stderr" ELSE "judge"]

\* _drain_stream: one call of its loop, which ends at the end of the log.
Drains ==
  /\ client = "wait" /\ w.pc \in Stream
  /\ \E size \in w.seen.size[w.pc]..log[w.pc] :
       /\ Chunk(w.pc, size)
       /\ w' = [w EXCEPT !.next[w.pc] = Upto(w.pc),
                         !.pc = IF Upto(@) < size THEN @
                                ELSE IF @ = "stdout" THEN "stderr" ELSE "judge"]

Tails ==
  /\ client = "tail" /\ w.pc \in Stream
  /\ Chunk(w.pc, log[w.pc])
  /\ w' = [w EXCEPT !.next[w.pc] = Upto(w.pc), !.pc = "done", !.exit = "shown"]

\* A terminal status ends the wait with the code of the job (or with 1, when the
\* history cannot be written), and the deadline ends it with 124.
Judges ==
  /\ w.pc = "judge"
  /\ IF w.seen.ended THEN \E how \in {"remote", "failed"} : Exits(how)
     ELSE IF w.late THEN Exits("timeout")
     ELSE w' = [w EXCEPT !.pc = "status"] /\ UNCHANGED helper

DeadlinePasses == Running /\ w.timed /\ w' = [w EXCEPT !.late = TRUE] /\ UNCHANGED helper
KernelRestarts == Running /\ helper' = FALSE /\ UNCHANGED w

Wait == Runs \/ Opens \/ GetsStatus \/ Drains \/ Tails \/ Judges \/ Fails \/ TimesOutWaiting

ClientsNext ==
  \/ Remote /\ UNCHANGED waiter
  \/ client = "monitor" /\ (Start \/ Poll \/ Fault) /\ UNCHANGED waiter
  \/ (Wait \/ DeadlinePasses \/ KernelRestarts) /\ UNCHANGED <<vars, client>>

\* The monitor is as fair as alone.
ClientsSpec ==
  /\ WaitInit /\ [][ClientsNext]_<<vars, waiter>>
  /\ WF_vars(Poll \/ StatusFails \/ DrainFails) /\ SF_vars(DrainTails)
-----------------------------------------------------------------------------
(* Properties *)

\* README: "Reattach, stream both logs, and return the remote exit code".  A wait
\* that returns the code of the job has printed every byte that either log had
\* when the terminal status was answered, whatever came late or in between.
WaitIsComplete ==
  w.exit = "remote" =>
    w.seen.ended /\ \A s \in Stream : w.next[s] >= w.seen.size[s]
=============================================================================
