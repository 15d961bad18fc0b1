--------------------------- MODULE RemoteJobProofs ---------------------------
(***************************************************************************)
(* Proofs about RemoteJob, for any number of VMs and with or without each  *)
(* kind of failure: type correctness, the inductive invariant JobInv, and  *)
(* from it that lost is true, that no verdict is buried, that verdicts are *)
(* those of the command, that cancel stops the job and that answers are    *)
(* final.                                                                  *)
(***************************************************************************)
EXTENDS RemoteJob, TLAPS

USE DEF At, Idle, Goto, GotoWith, Answer, NoOp, Cut, RunnerGets, Quiet, jobVars,
        runnerVars

-----------------------------------------------------------------------------
(* TypeOK holds of every reachable state. *)

LEMMA NoStatusType == NoStatus \in Record
BY FaultAssumption DEF NoStatus, NoCode, Code, Record

LEMMA NoOpType == NoOp \in CtlState
BY NoStatusType DEF CtlState, CtlPC

LEMMA CutType == Cut \in CtlState
BY NoStatusType DEF CtlState, CtlPC

LEMMA InitTypeOK == Init => TypeOK
<1> SUFFICES ASSUME Init PROVE TypeOK
  OBVIOUS
<1>1. boot \in 0..MaxBoots
  BY FaultAssumption DEF Init
<1>2. child \in ChildState
  BY DEF Init, ChildState
<1> QED
  BY <1>1, <1>2, NoStatusType, NoOpType DEF Init, TypeOK, RunnerPC

LEMMA NextTypeOK == TypeOK /\ [Next]_vars => TypeOK'
<1> SUFFICES ASSUME TypeOK, [Next]_vars PROVE TypeOK'
  OBVIOUS
<1> USE FaultAssumption DEF TypeOK, State, Terminal, Record, CtlPC, CtlState,
        ChildState, RunnerPC, Status, Code, NoStatus, NoCode
<1>1. ASSUME SubmitMakesDir PROVE TypeOK'
  <2>1. ctl' \in CtlState
    BY <1>1, NoStatusType DEF SubmitMakesDir
  <2> QED
    BY <1>1, <2>1 DEF SubmitMakesDir
<1>2. ASSUME SubmitQueues PROVE TypeOK'
  BY <1>2 DEF SubmitQueues
<1>3. ASSUME SubmitSpawns PROVE TypeOK'
  BY <1>3 DEF SubmitSpawns
<1>4. ASSUME SubmitRecordsLauncher PROVE TypeOK'
  BY <1>4 DEF SubmitRecordsLauncher
<1>5. ASSUME Request PROVE TypeOK'
  <2>1. PICK op \in {"status", "cancel"} :
          ctl' = [NoOp EXCEPT !.op = op, !.pc = "read"]
    BY <1>5 DEF Request
  <2>2. ctl' = [op |-> op, pc |-> "read", snap |-> NoStatus]
    BY <2>1
  <2>3. ctl' \in CtlState
    BY <2>2, NoStatusType
  <2> QED
    BY <1>5, <2>3 DEF Request
<1>6. ASSUME StatusRead PROVE TypeOK'
  <2>1. [status EXCEPT !.pid = @ \/ launcher] \in Record
    OBVIOUS
  <2>2. ctl' \in CtlState
    BY <1>6, <2>1 DEF StatusRead
  <2> QED
    BY <1>6, <2>2 DEF StatusRead
<1>7. ASSUME StatusForeign PROVE TypeOK'
  BY <1>7 DEF StatusForeign
<1>8. ASSUME StatusProbe PROVE TypeOK'
  <2>1. \/ ctl' = NoOp
        \/ ctl' = [ctl EXCEPT !.pc = "mark"]
        \/ ctl' = [ctl EXCEPT !.pc = "reread"]
    BY <1>8 DEF StatusProbe
  <2>2. told' \in {told, ctl.snap.state}
    BY <1>8 DEF StatusProbe
  <2>3. ctl' \in CtlState
    BY <2>1, NoOpType
  <2>4. told' \in State \cup {"none"}
    BY <2>2
  <2> QED
    BY <1>8, <2>3, <2>4 DEF StatusProbe
<1>9. ASSUME StatusReread PROVE TypeOK'
  <2>1. \/ ctl' = NoOp /\ told' = status.state
        \/ ctl' = [ctl EXCEPT !.pc = "lose", !.snap = status] /\ told' = told
    BY <1>9 DEF StatusReread
  <2>2. ctl' \in CtlState
    BY <2>1, NoOpType
  <2>3. told' \in State \cup {"none"}
    BY <2>1
  <2> QED
    BY <1>9, <2>2, <2>3 DEF StatusReread
<1>10. ASSUME StatusLoses PROVE TypeOK'
  BY <1>10 DEF StatusLoses
<1>11. ASSUME CancelMarks PROVE TypeOK'
  BY <1>11 DEF CancelMarks
<1>12. ASSUME CancelTerminates PROVE TypeOK'
  <2>1. CASE RunnerAlive
    BY <1>12, <2>1, NoOpType DEF CancelTerminates
  <2>2. CASE ~RunnerAlive
    BY <1>12, <2>2, NoOpType DEF CancelTerminates
  <2> QED
    BY <2>1, <2>2
<1>13. ASSUME CancelSeesEnd PROVE TypeOK'
  BY <1>13 DEF CancelSeesEnd
<1>14. ASSUME CancelKills PROVE TypeOK'
  BY <1>14 DEF CancelKills, KillGroup
<1>15. ASSUME CancelSettles PROVE TypeOK'
  <2>1. \/ ctl' = [ctl EXCEPT !.op = "report", !.pc = "read"]
        \/ ctl' = [ctl EXCEPT !.pc = "write", !.snap = status]
    BY <1>15 DEF CancelSettles
  <2>2. ctl' \in CtlState
    BY <2>1
  <2> QED
    BY <1>15, <2>2 DEF CancelSettles
<1>16. ASSUME CancelWrites PROVE TypeOK'
  <2>1. ctl' \in CtlState
    BY <1>16 DEF CancelWrites
  <2>2. status' \in Record
    BY <1>16 DEF CancelWrites
  <2> QED
    BY <1>16, <2>1, <2>2 DEF CancelWrites
<1>17. ASSUME RunnerReady PROVE TypeOK'
  BY <1>17 DEF RunnerReady
<1>18. ASSUME RunnerSpawns PROVE TypeOK'
  BY <1>18 DEF RunnerSpawns
<1>19. ASSUME RunnerAnnounces PROVE TypeOK'
  BY <1>19 DEF RunnerAnnounces, Running
<1>20. ASSUME RunnerBeats PROVE TypeOK'
  BY <1>20 DEF RunnerBeats, Running
<1>21. ASSUME RunnerReaps PROVE TypeOK'
  BY <1>21 DEF RunnerReaps
<1>22. ASSUME RunnerDecides PROVE TypeOK'
  BY <1>22 DEF RunnerDecides
<1>23. ASSUME RunnerCommits PROVE TypeOK'
  BY <1>23 DEF RunnerCommits
<1>24. ASSUME RunnerAborts PROVE TypeOK'
  <2>1. status' \in Record
    <3>1. status' \in {status, Status("cancelled", TRUE, NoCode),
                       Status("failed", TRUE, NoCode)}
      BY <1>24 DEF RunnerAborts
    <3>2. /\ Status("cancelled", TRUE, NoCode) \in Record
          /\ Status("failed", TRUE, NoCode) \in Record
      OBVIOUS
    <3> QED
      BY <3>1, <3>2
  <2>2. child' \in ChildState
    BY <1>24 DEF RunnerAborts, Orphaned
  <2> QED
    BY <1>24, <2>1, <2>2 DEF RunnerAborts
<1>25. ASSUME ChildEnds PROVE TypeOK'
  BY <1>25 DEF ChildEnds
<1>26. ASSUME RunnerWriteRaises PROVE TypeOK'
  BY <1>26 DEF RunnerWriteRaises
<1>27. ASSUME RunnerIsKilled PROVE TypeOK'
  BY <1>27 DEF RunnerIsKilled, Orphaned
<1>28. ASSUME KernelRestart PROVE TypeOK'
  BY <1>28, CutType DEF KernelRestart
<1>29. ASSUME VMReplaced PROVE TypeOK'
  BY <1>29 DEF VMReplaced
<1>30. CASE UNCHANGED vars
  BY <1>30 DEF vars
<1> QED
  BY <1>1, <1>2, <1>3, <1>4, <1>5, <1>6, <1>7, <1>8, <1>9, <1>10, <1>11, <1>12,
     <1>13, <1>14, <1>15, <1>16, <1>17, <1>18, <1>19, <1>20, <1>21, <1>22,
     <1>23, <1>24, <1>25, <1>26, <1>27, <1>28, <1>29, <1>30
     DEF Next, Submit, StatusPart, CancelPart, Runner, Failure

-----------------------------------------------------------------------------
(* JobInv is inductive. *)

LEMMA NextInv == JobInv /\ [Next]_vars => JobInv'
<1> SUFFICES ASSUME JobInv, [Next]_vars PROVE JobInv'
  OBVIOUS
<1>0. TypeOK /\ TypeOK'
  BY NextTypeOK DEF JobInv
<1> USE <1>0 DEF JobInv, Done, Known, RunnerAlive, Terminal, NoStatus, NoCode, Code,
        Status, State, Record, RunnerPC, CtlPC, CtlState, ChildState, TypeOK,
        SubmitOrder, RunnerOfThisBoot, FinishedIsOver, SnapIsCurrent, GoneIsGone,
        VerdictIsNotBuried, ChildHasRunner, VerdictFollows, OutcomeHasChild,
        VerdictIsReal, AnswerIsRecorded
<1>1. ASSUME SubmitMakesDir PROVE JobInv'
  BY <1>1 DEF SubmitMakesDir
<1>2. ASSUME SubmitQueues PROVE JobInv'
  BY <1>2 DEF SubmitQueues
<1>3. ASSUME SubmitSpawns PROVE JobInv'
  BY <1>3 DEF SubmitSpawns
<1>4. ASSUME SubmitRecordsLauncher PROVE JobInv'
  BY <1>4 DEF SubmitRecordsLauncher
<1>5. ASSUME Request PROVE JobInv'
  BY <1>5 DEF Request
<1>6. ASSUME StatusRead PROVE JobInv'
  BY <1>6 DEF StatusRead
<1>7. ASSUME StatusForeign PROVE JobInv'
  BY <1>7 DEF StatusForeign
<1>8. ASSUME StatusProbe PROVE JobInv'
  BY <1>8 DEF StatusProbe
<1>9. ASSUME StatusReread PROVE JobInv'
  <2>1. At("reread") /\ UNCHANGED <<boot, jobVars, status, runnerVars>>
    BY <1>9 DEF StatusReread
  <2>2. CASE Done(status)
    <3>1. ctl' = NoOp /\ told' = status.state
      BY <1>9, <2>2 DEF StatusReread
    <3> QED
      BY <2>1, <2>2, <3>1
  <2>3. CASE ~Done(status)
    <3>1. told' = told /\ ctl' = [ctl EXCEPT !.pc = "lose", !.snap = status]
      BY <1>9, <2>3 DEF StatusReread
    <3>2. ctl'.pc = "lose" /\ ctl'.snap = status /\ ctl'.op = ctl.op
      BY <3>1
    <3> QED
      BY <2>1, <2>3, <3>1, <3>2
  <2> QED
    BY <2>2, <2>3
<1>10. ASSUME StatusLoses PROVE JobInv'
  BY <1>10 DEF StatusLoses
<1>11. ASSUME CancelMarks PROVE JobInv'
  BY <1>11 DEF CancelMarks
<1>12. ASSUME CancelTerminates PROVE JobInv'
  BY <1>12 DEF CancelTerminates
<1>13. ASSUME CancelSeesEnd PROVE JobInv'
  BY <1>13 DEF CancelSeesEnd
<1>14. ASSUME CancelKills PROVE JobInv'
  BY <1>14 DEF CancelKills, KillGroup
<1>15. ASSUME CancelSettles PROVE JobInv'
  <2>1. At("settle") /\ UNCHANGED <<boot, jobVars, status, runnerVars, told>>
    BY <1>15 DEF CancelSettles
  <2>2. CASE Done(status)
    <3>1. ctl' = [ctl EXCEPT !.op = "report", !.pc = "read"]
      BY <1>15, <2>2 DEF CancelSettles
    <3>2. ctl'.pc = "read" /\ ctl'.op = "report"
      BY <3>1
    <3> QED
      BY <2>1, <2>2, <3>1, <3>2
  <2>3. CASE ~Done(status)
    <3>1. ctl' = [ctl EXCEPT !.pc = "write", !.snap = status]
      BY <1>15, <2>3 DEF CancelSettles
    <3>2. ctl'.pc = "write" /\ ctl'.snap = status /\ ctl'.op = ctl.op
      BY <3>1
    <3> QED
      BY <2>1, <2>3, <3>1, <3>2
  <2> QED
    BY <2>2, <2>3
<1>16. ASSUME CancelWrites PROVE JobInv'
  BY <1>16 DEF CancelWrites
<1>17. ASSUME RunnerReady PROVE JobInv'
  BY <1>17 DEF RunnerReady
<1>18. ASSUME RunnerSpawns PROVE JobInv'
  BY <1>18 DEF RunnerSpawns
<1>19. ASSUME RunnerAnnounces PROVE JobInv'
  BY <1>19 DEF RunnerAnnounces, Running
<1>20. ASSUME RunnerBeats PROVE JobInv'
  BY <1>20 DEF RunnerBeats, Running
<1>21. ASSUME RunnerReaps PROVE JobInv'
  BY <1>21 DEF RunnerReaps
<1>22. ASSUME RunnerDecides PROVE JobInv'
  BY <1>22 DEF RunnerDecides
<1>23. ASSUME RunnerCommits PROVE JobInv'
  BY <1>23 DEF RunnerCommits
<1>24. ASSUME RunnerAborts PROVE JobInv'
  BY <1>24 DEF RunnerAborts, Orphaned
<1>25. ASSUME ChildEnds PROVE JobInv'
  BY <1>25 DEF ChildEnds
<1>26. ASSUME RunnerWriteRaises PROVE JobInv'
  BY <1>26 DEF RunnerWriteRaises
<1>27. ASSUME RunnerIsKilled PROVE JobInv'
  BY <1>27 DEF RunnerIsKilled, Orphaned
<1>28. ASSUME KernelRestart PROVE JobInv'
  BY <1>28 DEF KernelRestart
<1>29. ASSUME VMReplaced PROVE JobInv'
  BY <1>29 DEF VMReplaced
<1>30. CASE UNCHANGED vars
  BY <1>30 DEF vars
<1> QED
  BY <1>1, <1>2, <1>3, <1>4, <1>5, <1>6, <1>7, <1>8, <1>9, <1>10, <1>11, <1>12,
     <1>13, <1>14, <1>15, <1>16, <1>17, <1>18, <1>19, <1>20, <1>21, <1>22,
     <1>23, <1>24, <1>25, <1>26, <1>27, <1>28, <1>29, <1>30
     DEF Next, Submit, StatusPart, CancelPart, Runner, Failure

-----------------------------------------------------------------------------
(* The theorems *)

LEMMA InitInv == Init => JobInv
BY InitTypeOK DEF Init, JobInv, SubmitOrder, RunnerOfThisBoot, FinishedIsOver, Known,
   SnapIsCurrent, GoneIsGone, VerdictIsNotBuried, ChildHasRunner, VerdictFollows,
   OutcomeHasChild, VerdictIsReal, AnswerIsRecorded, RunnerAlive, Done, Terminal, NoStatus

\* Every state of the job directory, the runner and the control operation is
\* well typed.
THEOREM TypeCorrect == Spec => []TypeOK
BY InitTypeOK, NextTypeOK, PTL DEF Spec

\* The inductive invariant.
THEOREM Invariance == Spec => []JobInv
BY InitInv, NextInv, PTL DEF Spec

\* A job is called lost only when its runner is gone.
THEOREM Lost == Spec => []LostIsTrue
<1>1. JobInv => LostIsTrue
  BY DEF JobInv, FinishedIsOver, Known, LostIsTrue, Done, Terminal
<1> QED
  BY <1>1, Invariance, PTL

\* A status query never writes lost over the verdict of the runner.
THEOREM NotBuried == Spec => []VerdictIsNotBuried
<1>1. JobInv => VerdictIsNotBuried
  BY DEF JobInv
<1> QED
  BY <1>1, Invariance, PTL

\* A recorded verdict and returncode are those of the command that ran.
THEOREM Real == Spec => []VerdictIsReal
<1>1. JobInv => VerdictIsReal
  BY DEF JobInv
<1> QED
  BY <1>1, Invariance, PTL

\* When cancel reports, neither the runner nor a command under it runs.
THEOREM Cancelled == Spec => []CancelStopsTheJob
<1>1. JobInv => CancelStopsTheJob
  BY DEF JobInv, GoneIsGone, ChildHasRunner, CancelStopsTheJob, RunnerAlive
<1> QED
  BY <1>1, Invariance, PTL

FinalStep == launcher /\ told \in Terminal /\ boot' = boot => told' = told

LEMMA NextFinal == JobInv /\ [Next]_vars => [FinalStep]_vars
<1> SUFFICES ASSUME JobInv, [Next]_vars, launcher, told \in Terminal, boot' = boot
             PROVE  told' = told
  BY DEF FinalStep
<1>1. ctl.pc \in {"idle", "read", "probe"} /\ status.state = told
  BY DEF JobInv, AnswerIsRecorded
<1>2. CASE StatusForeign
  BY <1>1, <1>2 DEF StatusForeign, JobInv, AnswerIsRecorded, SnapIsCurrent
<1>3. CASE StatusProbe
  BY <1>1, <1>3 DEF StatusProbe, JobInv, AnswerIsRecorded, Done
<1>4. CASE VMReplaced
  BY <1>4 DEF VMReplaced, JobInv, TypeOK
<1>5. CASE ~(StatusForeign \/ StatusProbe \/ VMReplaced)
  BY <1>1, <1>5
     DEF Next, Submit, SubmitMakesDir, SubmitQueues, SubmitSpawns, SubmitRecordsLauncher,
         Request, StatusPart, StatusRead, StatusReread, StatusLoses, CancelPart,
         CancelMarks, CancelTerminates, CancelSeesEnd, CancelKills, CancelSettles,
         CancelWrites, Runner, RunnerReady, RunnerSpawns, RunnerAnnounces, RunnerBeats,
         RunnerReaps, RunnerDecides, RunnerCommits, RunnerAborts, ChildEnds, Failure,
         RunnerWriteRaises, RunnerIsKilled, KernelRestart, vars
<1> QED
  BY <1>2, <1>3, <1>4, <1>5

\* What a client was told once stays the answer as long as the VM does.
THEOREM Final == Spec => AnswersAreFinal
<1>1. Spec => [][FinalStep]_vars
  BY Invariance, NextFinal, PTL DEF Spec
<1> QED
  BY <1>1 DEF AnswersAreFinal, FinalStep
=============================================================================
