------------------------------ MODULE RemoteJob ------------------------------
(***************************************************************************)
(* One detached job in a Colab VM (remote_job_runtime.py).                 *)
(*                                                                         *)
(* Two programs share the job directory without any lock: the detached     *)
(* runner, which starts the user's command and writes status.json, and the *)
(* control operations submit, status and cancel, which the session's       *)
(* kernel runs one at a time for the CLI clients and which read and write  *)
(* the same file.  Every write of status.json replaces the whole record;   *)
(* nobody re-reads it before writing except where the code does.           *)
(*                                                                         *)
(* The kernel may be restarted in the middle of an operation, the runner   *)
(* may be killed, its writes may raise, and the VM may be replaced by a    *)
(* new one that still sees the job directory (a job root on Drive).        *)
(* Process ids are not recycled here: _pid_alive answers for the runner.   *)
(***************************************************************************)
EXTENDS Integers

CONSTANTS
  MaxBoots,        \* bound: how often the VM is replaced
  KernelRestarts,  \* whether the kernel may be restarted during an operation
  RunnerCrashes,   \* whether the runner may be killed from outside
  WriteFaults      \* whether the runner's status writes may raise

ASSUME FaultAssumption ==
  /\ MaxBoots \in Nat
  /\ {KernelRestarts, RunnerCrashes, WriteFaults} \subseteq BOOLEAN

VARIABLES
  boot,       \* the boot id of the current VM
  dir,        \* the job directory exists
  status,     \* status.json
  launcher,   \* launcher.json exists, with the runner's pid and start token
  runner,     \* where the runner process is
  cancelReq,  \* the runner's cancel_requested
  verdict,    \* the runner's state variable, once decided
  child,      \* the user's command; an orphan has outlived its runner
  ctl,        \* the control operation the kernel runs
  told        \* the state the last answer of this boot reported

jobVars    == <<dir, launcher>>
runnerVars == <<runner, cancelReq, verdict, child>>
vars == <<boot, dir, status, launcher, runner, cancelReq, verdict, child, ctl, told>>
-----------------------------------------------------------------------------
Terminal == {"succeeded", "failed", "cancelled", "lost"}
State    == {"queued", "running", "cancelling"} \cup Terminal
NoCode   == -1     \* returncode None
Code     == {0, 1} \* success; any other returncode

\* pid: the record carries the runner's pid and start token.
Status(s, p, c) == [state |-> s, boot |-> boot, pid |-> p, code |-> c]
NoStatus == [state |-> "none", boot |-> 0, pid |-> FALSE, code |-> NoCode]
Done(r)  == r.state \in Terminal

RunnerPC == {"absent", "starting", "ready", "spawned", "polling", "reaped",
             "committing", "aborting", "dead"}
RunnerAlive == runner \notin {"absent", "dead"}

NoOp == [op |-> "none", pc |-> "idle", snap |-> NoStatus]
Cut  == [NoOp EXCEPT !.op = "cut"]  \* a restart of the kernel has ended it
Idle == ctl \in {NoOp, Cut}
At(p) == ctl.pc = p
Goto(p) == ctl' = [ctl EXCEPT !.pc = p]
GotoWith(p, r) == ctl' = [ctl EXCEPT !.pc = p, !.snap = r]
Answer(s) == ctl' = NoOp /\ told' = s

Init ==
  /\ boot = 0
  /\ dir = FALSE
  /\ status = NoStatus
  /\ launcher = FALSE
  /\ runner = "absent"
  /\ cancelReq = FALSE
  /\ verdict = "none"
  /\ child = [state |-> "none", code |-> NoCode]
  /\ ctl = NoOp
  /\ told = "none"
-----------------------------------------------------------------------------
(* submit: directory, spec and runner source; the queued status; the runner *)
(* process; the launcher record.  A second submit finds the directory and   *)
(* raises FileExistsError, which changes nothing.                           *)

SubmitMakesDir ==
  /\ Idle /\ ~dir
  /\ dir' = TRUE
  /\ ctl' = [NoOp EXCEPT !.op = "submit", !.pc = "queue"]
  /\ UNCHANGED <<boot, status, launcher, runnerVars, told>>

SubmitQueues ==
  /\ At("queue")
  /\ status' = Status("queued", FALSE, NoCode)
  /\ Goto("spawn")
  /\ UNCHANGED <<boot, jobVars, runnerVars, told>>

SubmitSpawns ==
  /\ At("spawn")
  /\ runner' = "starting"
  /\ Goto("launcher")
  /\ UNCHANGED <<boot, jobVars, status, cancelReq, verdict, child, told>>

SubmitRecordsLauncher ==
  /\ At("launcher")
  /\ launcher' = TRUE
  /\ Answer("queued")
  /\ UNCHANGED <<boot, dir, status, runnerVars>>
-----------------------------------------------------------------------------
(* status, also the first and the last part of cancel, and of jobs          *)

\* A client asks; a status that does not exist raises FileNotFoundError.
Request ==
  /\ Idle /\ status # NoStatus
  /\ \E op \in {"status", "cancel"} :
       ctl' = [NoOp EXCEPT !.op = op, !.pc = "read"]
  /\ UNCHANGED <<boot, jobVars, status, runnerVars, told>>

\* Mutant of StatusRead: launcher.json is not consulted for the pid.
StatusReadAlone ==
  /\ At("read")
  /\ GotoWith("probe", status)
  /\ UNCHANGED <<boot, jobVars, status, runnerVars, told>>

StatusRead ==
  /\ At("read")
  /\ GotoWith("probe", [status EXCEPT !.pid = @ \/ launcher])
  /\ UNCHANGED <<boot, jobVars, status, runnerVars, told>>

\* A record of another boot becomes lost, whatever it said.
StatusForeign ==
  /\ At("probe") /\ ctl.snap.boot # boot
  /\ status' = [ctl.snap EXCEPT !.state = "lost"]
  /\ Answer("lost")
  /\ UNCHANGED <<boot, jobVars, runnerVars>>

\* Cancel goes on where an unfinished job's runner is alive.
StatusProbe ==
  /\ At("probe") /\ ctl.snap.boot = boot
  /\ LET alive == ctl.snap.pid /\ RunnerAlive IN
       \/ /\ Done(ctl.snap) \/ (alive /\ ctl.op # "cancel")
          /\ Answer(ctl.snap.state)
       \/ /\ ~Done(ctl.snap) /\ alive /\ ctl.op = "cancel"
          /\ Goto("mark") /\ UNCHANGED told
       \/ /\ ~Done(ctl.snap) /\ ~alive
          /\ Goto("reread") /\ UNCHANGED told
  /\ UNCHANGED <<boot, jobVars, status, runnerVars>>

\* Mutant of StatusReread: the first read decides.
StatusTrusts ==
  /\ At("reread")
  /\ Goto("lose")
  /\ UNCHANGED <<boot, jobVars, status, runnerVars, told>>

\* The runner is gone: read once more, it may have committed meanwhile.
StatusReread ==
  /\ At("reread")
  /\ IF Done(status) THEN Answer(status.state)
     ELSE GotoWith("lose", status) /\ UNCHANGED told
  /\ UNCHANGED <<boot, jobVars, status, runnerVars>>

\* Mutant of StatusLoses: only a running job can be lost.
StatusLosesRunning ==
  /\ At("lose")
  /\ IF ctl.snap.state = "running"
     THEN status' = [ctl.snap EXCEPT !.state = "lost"] /\ Answer("lost")
     ELSE UNCHANGED status /\ Answer(ctl.snap.state)
  /\ UNCHANGED <<boot, jobVars, runnerVars>>

StatusLoses ==
  /\ At("lose")
  /\ status' = [ctl.snap EXCEPT !.state = "lost"]
  /\ Answer("lost")
  /\ UNCHANGED <<boot, jobVars, runnerVars>>
-----------------------------------------------------------------------------
(* cancel *)

\* The record read by the status part is written back as cancelling.
CancelMarks ==
  /\ At("mark")
  /\ status' = [ctl.snap EXCEPT !.state = "cancelling"]
  /\ Goto("term")
  /\ UNCHANGED <<boot, jobVars, runnerVars, told>>

\* SIGTERM to the process group.  A runner that has no handlers yet dies; one
\* that has records the request and passes it on; the command may end or not.
CancelTerminates ==
  /\ At("term")
  /\ IF RunnerAlive
     THEN /\ runner' = IF runner = "starting" THEN "dead" ELSE runner
          /\ cancelReq' = (runner # "starting")
          /\ \/ UNCHANGED child
             \/ child.state = "running" /\ child' = [state |-> "ended", code |-> 1]
          /\ Goto("grace")
     ELSE Goto("settle") /\ UNCHANGED <<runner, cancelReq, child>>
  /\ UNCHANGED <<boot, jobVars, status, verdict, told>>

CancelSeesEnd ==
  /\ At("grace") /\ ~RunnerAlive
  /\ Goto("settle")
  /\ UNCHANGED <<boot, jobVars, status, runnerVars, told>>

\* Mutant of KillGroup: the signal goes to the runner alone.
KillRunner == runner' = "dead" /\ UNCHANGED child

\* The grace period is over: SIGKILL to the process group.
KillGroup ==
  /\ runner' = "dead"
  /\ child' = IF child.state = "running" THEN [state |-> "ended", code |-> 1]
              ELSE child

\* Mutant of CancelKills: after the grace period the job counts as cancelled.
CancelGivesUp ==
  /\ At("grace") /\ RunnerAlive
  /\ Goto("settle")
  /\ UNCHANGED <<boot, jobVars, status, runnerVars, told>>

\* Mutant of CancelKills: cancel waits until the command obeys SIGTERM.
CancelWaits ==
  /\ At("grace") /\ RunnerAlive
  /\ UNCHANGED vars

CancelKills ==
  /\ At("grace") /\ RunnerAlive
  /\ KillGroup
  /\ Goto("settle")
  /\ UNCHANGED <<boot, jobVars, status, cancelReq, verdict, told>>

\* Read the record; without a verdict of the runner write cancelled.
CancelSettles ==
  /\ At("settle")
  /\ IF Done(status)
     THEN ctl' = [ctl EXCEPT !.op = "report", !.pc = "read"]
     ELSE GotoWith("write", status)
  /\ UNCHANGED <<boot, jobVars, status, runnerVars, told>>

CancelWrites ==
  /\ At("write")
  /\ status' = [ctl.snap EXCEPT !.state = "cancelled"]
  /\ ctl' = [ctl EXCEPT !.op = "report", !.pc = "read"]
  /\ UNCHANGED <<boot, jobVars, runnerVars, told>>
-----------------------------------------------------------------------------
(* The runner *)

RunnerGets(p) == runner' = p
Quiet == UNCHANGED <<boot, jobVars, ctl, told>>

\* Signal handlers are installed.
RunnerReady ==
  /\ runner = "starting" /\ RunnerGets("ready")
  /\ UNCHANGED <<status, cancelReq, verdict, child>> /\ Quiet

RunnerSpawns ==
  /\ runner = "ready"
  /\ \/ RunnerGets("spawned") /\ child' = [child EXCEPT !.state = "running"]
     \/ RunnerGets("aborting") /\ UNCHANGED child       \* Popen raises
  /\ UNCHANGED <<status, cancelReq, verdict>> /\ Quiet

Running == Status("running", TRUE, NoCode)

\* The runner ends alone.
Orphaned == IF child.state = "running" THEN [child EXCEPT !.state = "orphan"] ELSE child

\* The first running status, and the heartbeat of every second: the runner
\* writes its own record, without a look at the one on disk.
RunnerAnnounces ==
  /\ runner = "spawned" /\ RunnerGets("polling")
  /\ status' = Running
  /\ UNCHANGED <<cancelReq, verdict, child>> /\ Quiet

RunnerBeats ==
  /\ runner = "polling" /\ child.state = "running"
  /\ status' = Running
  /\ UNCHANGED runnerVars /\ Quiet

RunnerReaps ==
  /\ runner = "polling" /\ child.state = "ended"
  /\ RunnerGets("reaped")
  /\ UNCHANGED <<status, cancelReq, verdict, child>> /\ Quiet

\* Mutant of RunnerDecides: the returncode is not looked at.
RunnerIsOptimistic ==
  /\ runner = "reaped" /\ RunnerGets("committing")
  /\ verdict' = IF cancelReq THEN "cancelled" ELSE "succeeded"
  /\ UNCHANGED <<status, cancelReq, child>> /\ Quiet

RunnerDecides ==
  /\ runner = "reaped" /\ RunnerGets("committing")
  /\ verdict' = IF cancelReq THEN "cancelled"
                ELSE IF child.code = 0 THEN "succeeded" ELSE "failed"
  /\ UNCHANGED <<status, cancelReq, child>> /\ Quiet

RunnerCommits ==
  /\ runner = "committing" /\ RunnerGets("dead")
  /\ status' = Status(verdict, TRUE, child.code)
  /\ UNCHANGED <<cancelReq, verdict, child>> /\ Quiet

RunnerWriteRaises ==
  /\ WriteFaults
  /\ runner \in {"spawned", "polling", "committing"} /\ RunnerGets("aborting")
  /\ UNCHANGED <<status, cancelReq, verdict, child>> /\ Quiet

\* The except clause: a failed or cancelled status without a returncode (or
\* none, if that write raises too), and the end, whatever the command does.
RunnerAborts ==
  /\ runner = "aborting" /\ RunnerGets("dead")
  /\ \/ status' = Status(IF cancelReq THEN "cancelled" ELSE "failed", TRUE, NoCode)
     \/ WriteFaults /\ UNCHANGED status
  /\ child' = Orphaned
  /\ UNCHANGED <<cancelReq, verdict>> /\ Quiet

ChildEnds ==
  /\ child.state \in {"running", "orphan"}
  /\ \E c \in Code : child' = [state |-> "ended", code |-> c]
  /\ UNCHANGED <<status, runner, cancelReq, verdict>> /\ Quiet
-----------------------------------------------------------------------------
(* Failures *)

\* The out-of-memory killer, or a user, kills the runner alone.
RunnerIsKilled ==
  /\ RunnerCrashes /\ RunnerAlive
  /\ runner' = "dead"
  /\ child' = Orphaned
  /\ UNCHANGED <<status, cancelReq, verdict>> /\ Quiet

\* The kernel is restarted: the operation it runs goes no further.
KernelRestart ==
  /\ KernelRestarts /\ ~Idle
  /\ ctl' = Cut
  /\ UNCHANGED <<boot, jobVars, status, runnerVars, told>>

\* Another VM: every process is gone, the job directory is not.
VMReplaced ==
  /\ boot < MaxBoots
  /\ boot' = boot + 1
  /\ runner' = IF RunnerAlive THEN "dead" ELSE runner
  /\ child' = IF child.state \in {"running", "orphan"}
              THEN [state |-> "ended", code |-> 1] ELSE child
  /\ ctl' = NoOp
  /\ told' = "none"
  /\ UNCHANGED <<jobVars, status, cancelReq, verdict>>
-----------------------------------------------------------------------------
Submit == SubmitMakesDir \/ SubmitQueues \/ SubmitSpawns \/ SubmitRecordsLauncher
StatusPart == StatusRead \/ StatusForeign \/ StatusProbe \/ StatusReread \/ StatusLoses
CancelPart == \/ CancelMarks \/ CancelTerminates \/ CancelSeesEnd \/ CancelKills
              \/ CancelSettles \/ CancelWrites
Runner == \/ RunnerReady \/ RunnerSpawns \/ RunnerAnnounces \/ RunnerBeats
          \/ RunnerReaps \/ RunnerDecides \/ RunnerCommits \/ RunnerAborts
Failure == RunnerWriteRaises \/ RunnerIsKilled \/ KernelRestart \/ VMReplaced

Next == Submit \/ Request \/ StatusPart \/ CancelPart \/ Runner \/ ChildEnds \/ Failure

Spec == Init /\ [][Next]_vars

\* The kernel finishes what it runs and clients keep asking; the runner is
\* scheduled, and no failure has to happen.  Nothing is assumed of the user's
\* command.
Fairness ==
  /\ WF_vars(SubmitQueues \/ SubmitSpawns \/ SubmitRecordsLauncher)
  /\ WF_vars(StatusPart)
  /\ WF_vars(CancelPart)
  /\ WF_vars(Runner)
  /\ SF_vars(Request /\ ctl'.op = "status")

FairSpec == Spec /\ Fairness
-----------------------------------------------------------------------------
(* Properties *)

CtlPC == {"idle", "queue", "spawn", "launcher", "read", "probe", "reread", "lose",
          "mark", "term", "grace", "settle", "write"}
Record == [state : State \cup {"none"}, boot : 0..MaxBoots, pid : BOOLEAN,
           code : Code \cup {NoCode}]
CtlState == [op : {"none", "cut", "submit", "status", "cancel", "report"}, pc : CtlPC,
             snap : Record]
ChildState == [state : {"none", "running", "orphan", "ended"},
               code : Code \cup {NoCode}]

TypeOK ==
  /\ boot \in 0..MaxBoots
  /\ dir \in BOOLEAN /\ launcher \in BOOLEAN
  /\ status \in Record
  /\ runner \in RunnerPC
  /\ cancelReq \in BOOLEAN
  /\ verdict \in {"none", "succeeded", "failed", "cancelled"}
  /\ child \in ChildState
  /\ ctl \in CtlState
  /\ told \in State \cup {"none"}

\* "lost" is never said of a job whose runner still works: once the launcher
\* record exists, the pid and start token are known, and a missing process is
\* really gone.
LostIsTrue == status.state = "lost" /\ launcher => ~RunnerAlive

\* A status query that gave up on the runner does not bury the verdict the
\* runner committed between the first read and the process check.
VerdictIsNotBuried == At("lose") /\ launcher => ~Done(status)

\* What a client was told once stays: a later status, jobs, wait or cancel in
\* the same VM reports the same terminal state, although the file itself may
\* go through other states meanwhile.
AnswersAreFinal ==
  [][launcher /\ told \in Terminal /\ boot' = boot => told' = told]_vars

\* The verdict is about the command that ran: succeeded means it ended with
\* returncode 0, and a recorded returncode is the command's own and agrees
\* with the state, however the writes of runner, status and cancel overlap.
VerdictIsReal ==
  /\ status.state = "succeeded" => child = [state |-> "ended", code |-> 0]
  /\ status.state \in {"succeeded", "failed"} /\ status.code # NoCode =>
       status.code = child.code /\ (status.code = 0 <=> status.state = "succeeded")

\* When cancel reports, the runner is gone, and so is the command: nothing but
\* the death of the runner alone leaves it behind.
CancelStopsTheJob ==
  ctl.op = "report" => ~RunnerAlive /\ child.state # "running"

\* The kernel is restarted for ever: no operation need come to its end.
KeepsRestarting == []<><<ctl' = Cut>>_ctl

\* Every job whose runner is gone gets a terminal status, however it ended and
\* whoever had been cancelling it, as long as somebody asks.
DeadRunnerIsNoticed == (runner = "dead" ~> Done(status)) \/ KeepsRestarting

\* A cancel that found the runner alive ends with a terminal answer, even when
\* the command ignores SIGTERM; only a restart of the kernel can cut it off.
CancelEnds == At("mark") ~> (Idle /\ told \in Terminal) \/ ctl = Cut

\* The inductive invariant.  Until launcher.json exists only the submission is
\* at work; a runner that lives is of this boot, and so is the record; what a
\* status query has found out about the runner stays true while it runs.
Known == launcher \/ At("launcher")
SubmitOrder ==
  /\ ~dir => Idle
  /\ ctl.op = "submit" <=> ctl.pc \in {"queue", "spawn", "launcher"}
  /\ ~dir \/ At("queue") => status = NoStatus
  /\ At("spawn") => status.boot = boot /\ status.state = "queued"
  /\ ~dir \/ ctl.pc \in {"queue", "spawn"} => runner = "absent"
  /\ ~dir \/ ctl.op = "submit" => ~launcher
RunnerOfThisBoot == RunnerAlive => status.boot = boot
FinishedIsOver == Known /\ Done(status) => ~RunnerAlive
SnapIsCurrent ==
  /\ ctl.pc \in {"probe", "reread", "lose", "mark", "write"} =>
       ctl.snap.boot = status.boot
  /\ At("reread") => ctl.snap.boot = boot
  /\ At("probe") /\ launcher => ctl.snap.pid
  /\ At("probe") /\ launcher /\ Done(ctl.snap) => status.state = ctl.snap.state
GoneIsGone ==
  /\ launcher /\ ctl.pc \in {"reread", "lose"} => ~RunnerAlive
  /\ ctl.pc \in {"settle", "write"} \/ ctl.op = "report" => ~RunnerAlive
ChildHasRunner ==
  /\ runner \in {"absent", "starting", "ready"} => child.state = "none"
  /\ child.state = "running" => runner \in {"spawned", "polling", "aborting"}
  /\ runner \in {"reaped", "committing"} => child.state = "ended"
  /\ child.state = "ended" => child.code \in Code
VerdictFollows ==
  runner = "committing" =>
    /\ verdict = "succeeded" => child.code = 0
    /\ verdict = "failed" => child.code # 0
OutcomeHasChild ==
  status.state \in {"succeeded", "failed"} /\ status.code # NoCode =>
    child.state = "ended"
AnswerIsRecorded ==
  launcher /\ told \in Terminal =>
    /\ status.state = told
    /\ status.boot # boot => told = "lost"
    /\ ctl.pc \in {"idle", "read", "probe"}
    /\ At("probe") => ctl.snap.state = told

JobInv ==
  /\ TypeOK
  /\ SubmitOrder /\ RunnerOfThisBoot /\ FinishedIsOver
  /\ SnapIsCurrent /\ GoneIsGone /\ VerdictIsNotBuried
  /\ ChildHasRunner /\ VerdictFollows /\ OutcomeHasChild /\ VerdictIsReal
  /\ AnswerIsRecorded
=============================================================================
