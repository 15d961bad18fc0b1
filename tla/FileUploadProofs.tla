-------------------------- MODULE FileUploadProofs --------------------------
(***************************************************************************)
(* Proofs about FileUpload, for any clients, contents, sizes, attempts and *)
(* amount of trouble, each client with a kernel of its own: type           *)
(* correctness, and, where no PUT reaches a partial file between its       *)
(* digest and os.replace, that the remote path holds whole files only,     *)
(* that a finished upload has been delivered, and in which single case an  *)
(* existing file is replaced without --overwrite.                          *)
(***************************************************************************)
EXTENDS FileUpload, TLAPS

\* The content of a file is a sequence of chunks.
LEMMA WholeType == \A v \in Version : File(Whole(v)) \in AllFiles /\ NoFile \in AllFiles
<1> TAKE v \in Version
<1>1. Size[v] \in Nat
  BY UploadAssumption
<1>2. \A i \in 1..Size[v] : <<v, i>> \in Chunk
  BY DEF Chunk
<1>3. Whole(v) \in Seq(Chunk)
  BY <1>1, <1>2 DEF Whole
<1> QED
  BY <1>3 DEF File, NoFile, AllFiles

LEMMA AppliedType ==
  ASSUME temp \in [Version -> AllFiles], NEW put \in Put
  PROVE  Applied(put) \in [Version -> AllFiles]
<1>1. temp[put.to].data \o put.data \in Seq(Chunk) /\ put.data \in Seq(Chunk)
  BY DEF AllFiles, Put
<1>2. File(IF put.marker = 1 THEN put.data ELSE temp[put.to].data \o put.data) \in AllFiles
  BY <1>1 DEF File, AllFiles
<1> QED
  BY <1>2 DEF Applied, Put

LEMMA PutType ==
  ASSUME TypeOK, NEW u \in Uploader
  PROVE  ChunkPut(u) \in Put /\ MarkerPut(u) \in Put
<1>1. run[u].data \in Seq(Chunk) /\ Digest(u) \in Version
  BY DEF TypeOK, Run, Digest
<1> QED
  BY <1>1 DEF ChunkPut, MarkerPut, Put

\* Whatever becomes of a PUT, the partial files and the late requests keep
\* their types.
LEMMA PutKeepsTypes ==
  ASSUME TypeOK, NEW put \in Put,
         PutSucceeds(put) \/ PutIsLost(put)
  PROVE  /\ temp' \in [Version -> AllFiles]
         /\ \A x \in late' : x \in Put
         /\ trouble' \in 0..MaxTrouble
<1>1. Applied(put) \in [Version -> AllFiles]
  BY AppliedType DEF TypeOK
<1> QED
  BY <1>1, UploadAssumption DEF PutSucceeds, PutIsLost, Trouble, TypeOK
\* Updates of the state of one upload.
LEMMA GotoType ==
  ASSUME TypeOK, NEW u \in Uploader, NEW pc \in PC, Goto(u, pc)
  PROVE  run' \in [Uploader -> Run]
<1>1. run[u] \in Run
  BY DEF TypeOK
<1>2. [run[u] EXCEPT !.pc = pc] \in Run
  BY <1>1 DEF Run
<1> QED
  BY <1>2 DEF Goto, TypeOK

LEMMA CommittedType ==
  ASSUME TypeOK, NEW u \in Uploader, Committed(u)
  PROVE  run' \in [Uploader -> Run]
<1> DEFINE r == [run[u] EXCEPT !.pc = "send", !.offset = @ + 1, !.data = <<>>, !.attempts = 0]
<1>1. run[u] \in Run
  BY DEF TypeOK
<1>2. <<>> \in Seq(Chunk) /\ 0 \in 0..(MaxAttempts - 1) /\ "send" \in PC
  BY UploadAssumption DEF PC
<1>3. r \in Run
  <2>1. run[u].offset + 1 \in Nat
    BY <1>1 DEF Run
  <2> DEFINE r1 == [run[u] EXCEPT !.pc = "send", !.offset = @ + 1]
             r2 == [r1 EXCEPT !.data = <<>>]
             r3 == [r2 EXCEPT !.attempts = 0]
  <2>2. r1 \in Run
    BY <1>1, <1>2, <2>1 DEF Run
  <2>3. r2 \in Run
    <3> HIDE DEF r1
    <3> QED
      BY <2>2, <1>2 DEF Run
  <2>4. r3 \in Run
    <3> HIDE DEF r2
    <3> QED
      BY <2>3, <1>2 DEF Run
  <2>5. r = r3
    OBVIOUS
  <2> QED
    BY <2>4, <2>5
<1>4. run' = [run EXCEPT ![u] = r]
  BY DEF Committed
<1> QED
  BY <1>3, <1>4 DEF TypeOK

LEMMA RetryType ==
  ASSUME TypeOK, NEW u \in Uploader, NEW pc \in PC, RetryOrFail(u, pc)
  PROVE  run' \in [Uploader -> Run]
<1>1. CASE run[u].attempts + 1 < MaxAttempts
  <2> DEFINE r == [run[u] EXCEPT !.pc = pc, !.attempts = @ + 1]
  <2>1. run[u] \in Run
    BY DEF TypeOK
  <2>2. run[u].attempts + 1 \in 0..(MaxAttempts - 1)
    BY <1>1, <2>1, UploadAssumption DEF Run
  <2>3. r \in Run
    BY <2>1, <2>2 DEF Run
  <2>4. run' = [run EXCEPT ![u] = r]
    BY <1>1 DEF RetryOrFail
  <2> QED
    BY <2>3, <2>4 DEF TypeOK
<1>2. CASE ~(run[u].attempts + 1 < MaxAttempts)
  BY <1>2, GotoType DEF RetryOrFail, PC
<1> QED
  BY <1>1, <1>2

LEMMA AnsweredType ==
  ASSUME TypeOK, NEW u \in Uploader, NEW to \in {"done", "failed"}, Answered(u, to)
  PROVE  run' \in [Uploader -> Run] /\ trouble' \in 0..MaxTrouble
<1>1. CASE Goto(u, to) /\ UNCHANGED trouble
  BY <1>1, GotoType DEF PC, TypeOK
<1>2. CASE ~(Goto(u, to) /\ UNCHANGED trouble)
  <2> DEFINE pc == IF run[u].tries = 0 THEN "finalize" ELSE "failed"
             r == [run[u] EXCEPT !.pc = pc, !.tries = 1]
  <2>1. run[u] \in Run /\ pc \in PC
    BY DEF TypeOK, PC
  <2>2. r \in Run
    BY <2>1 DEF Run
  <2>3. run' = [run EXCEPT ![u] = r] /\ Trouble
    BY <1>2 DEF Answered
  <2>4. trouble' \in 0..MaxTrouble
    BY <2>3, UploadAssumption DEF Trouble, TypeOK
  <2> QED
    BY <2>2, <2>3, <2>4 DEF TypeOK
<1> QED
  BY <1>1, <1>2

LEMMA TellsType ==
  ASSUME TypeOK, NEW u \in Uploader, NEW to \in {"done", "failed"}, Tells(u, to)
  PROVE  run' \in [Uploader -> Run] /\ trouble' \in 0..MaxTrouble
BY AnsweredType DEF Tells, TypeOK

LEMMA FreshType == \A v \in Version, ow \in BOOLEAN : Fresh(v, ow) \in Run
<1> TAKE v \in Version, ow \in BOOLEAN
<1>1. <<>> \in Seq(Chunk) /\ 0 \in 0..(MaxAttempts - 1) /\ "stat" \in PC
  BY UploadAssumption DEF PC
<1> QED
  BY <1>1 DEF Fresh, Run

\* A kernel at work carries the call of its machine.
Working == [stage : {"verify", "confirm", "move"}, digest : Version,
            ow : BOOLEAN, raced : BOOLEAN]

LEMMA WorkingType ==
  ASSUME TypeOK, NEW u \in Uploader, ~InCall(u, "idle")
  PROVE  kernel[u] \in Working
<1>1. kernel[u] \in CallState /\ kernel[u] # NoCall
  BY DEF TypeOK, InCall, NoCall
<1> QED
  BY <1>1 DEF CallState, Working

LEMMA EndsType ==
  ASSUME TypeOK, NEW u \in Uploader, NEW to \in {"done", "failed"}, Ends(u, to)
  PROVE  /\ run' \in [Uploader -> Run] /\ trouble' \in 0..MaxTrouble
         /\ kernel' \in [Uploader -> CallState]
BY TellsType DEF Ends, TypeOK, CallState
-----------------------------------------------------------------------------
(* TypeOK holds of every reachable state. *)

LEMMA InitTypeOK == Init => TypeOK
<1> SUFFICES ASSUME Init PROVE TypeOK
  OBVIOUS
<1>1. NoFile \in AllFiles
  BY DEF NoFile, AllFiles
<1>2. run \in [Uploader -> Run]
  <2>1. \A u \in Uploader : [Fresh(source[u], TRUE) EXCEPT !.pc = "idle"] \in Run
    <3> TAKE u \in Uploader
    <3>1. Fresh(source[u], TRUE) \in Run
      BY FreshType DEF Init
    <3> QED
      BY <3>1 DEF Run, PC
  <2> QED
    BY <2>1 DEF Init
<1>3. kernel \in [Uploader -> CallState]
  BY DEF Init, CallState
<1>4. temp \in [Version -> AllFiles] /\ target \in AllFiles
  BY <1>1 DEF Init
<1>5. trouble \in 0..MaxTrouble /\ late = {} /\ source \in [Uploader -> Version]
  BY UploadAssumption DEF Init
<1> QED
  BY <1>2, <1>3, <1>4, <1>5 DEF TypeOK

LEMMA NextTypeOK == TypeOK /\ [Next]_vars => TypeOK'
<1> SUFFICES ASSUME TypeOK, [Next]_vars PROVE TypeOK'
  OBVIOUS
<1> USE UploadAssumption
<1>1. CASE UNCHANGED vars
  BY <1>1 DEF TypeOK, vars
<1>2. ASSUME NEW u \in Uploader, Begin(u) PROVE TypeOK'
  <2>1. \A ow \in BOOLEAN : Fresh(source[u], ow) \in Run
    BY FreshType DEF TypeOK
  <2> QED
    BY <1>2, <2>1 DEF TypeOK, Begin
<1>3. ASSUME NEW u \in Uploader, Stat(u) PROVE TypeOK'
  <2>1. Len(Partial(u).data) \in Nat
    BY DEF TypeOK, Run, Partial, Digest, AllFiles
  <2>2. run' \in [Uploader -> Run]
    <3>1. CASE Goto(u, "send") \/ Goto(u, "remove")
      BY <3>1, GotoType DEF PC
    <3>2. CASE ~(Goto(u, "send") \/ Goto(u, "remove"))
      <4> DEFINE r == [run[u] EXCEPT !.pc = "prefix", !.offset = Len(Partial(u).data)]
      <4>1. run[u] \in Run /\ "prefix" \in PC
        BY DEF TypeOK, PC
      <4>2. r \in Run
        BY <2>1, <4>1 DEF Run
      <4>3. run' = [run EXCEPT ![u] = r]
        BY <1>3, <3>2 DEF Stat
      <4> QED
        BY <4>2, <4>3 DEF TypeOK
    <3> QED
      BY <3>1, <3>2
  <2> QED
    BY <1>3, <2>2 DEF TypeOK, Stat
<1>4. ASSUME NEW u \in Uploader, ComparePrefix(u) PROVE TypeOK'
  <2>1. CASE Usable(u)
    BY <1>4, <2>1, GotoType DEF TypeOK, ComparePrefix, PC
  <2>2. CASE ~Usable(u)
    <3> DEFINE r == [run[u] EXCEPT !.pc = "remove", !.offset = 0]
    <3>1. run[u] \in Run /\ "remove" \in PC
      BY DEF TypeOK, PC
    <3>2. r \in Run
      BY <3>1 DEF Run
    <3>3. run' = [run EXCEPT ![u] = r]
      BY <1>4, <2>2 DEF ComparePrefix
    <3> QED
      BY <1>4, <3>2, <3>3 DEF TypeOK, ComparePrefix
  <2> QED
    BY <2>1, <2>2
<1>5. ASSUME NEW u \in Uploader, RemovePartial(u) PROVE TypeOK'
  <2>1. temp' \in [Version -> AllFiles]
    <3>1. NoFile \in AllFiles
      BY DEF NoFile, AllFiles
    <3> QED
      BY <1>5, <3>1 DEF TypeOK, RemovePartial
  <2>2. run' \in [Uploader -> Run]
    BY <1>5, GotoType DEF RemovePartial, PC
  <2> QED
    BY <1>5, <2>1, <2>2 DEF TypeOK, RemovePartial
<1>6. ASSUME NEW u \in Uploader, ReadChunk(u) PROVE TypeOK'
  <2>1. source[u] \in Version /\ Size[source[u]] \in Nat /\ run[u].offset \in Nat
    BY DEF TypeOK, Run
  <2>2. \A n \in 1..Size[source[u]] : Whole(source[u])[n] \in Chunk
    BY <2>1 DEF Whole, Chunk
  <2>3. Len(Whole(source[u])) = Size[source[u]]
    BY <2>1 DEF Whole
  <2>4. run' \in [Uploader -> Run]
    <3> DEFINE n == run[u].offset + 1
               w == Whole(source[u])
               r == [run[u] EXCEPT !.data = <<w[n]>>]
    <3>1. CASE n <= Size[Digest(u)] /\ n <= Len(w)
      <4>1. n \in 1..Size[source[u]]
        BY <2>1, <2>3, <3>1
      <4>2. <<w[n]>> \in Seq(Chunk) /\ run[u] \in Run
        BY <2>2, <4>1 DEF TypeOK
      <4>3. r \in Run
        BY <4>2 DEF Run
      <4>4. run' = [run EXCEPT ![u] = r]
        BY <1>6, <3>1 DEF ReadChunk
      <4> QED
        BY <4>3, <4>4 DEF TypeOK
    <3>2. CASE ~(n <= Size[Digest(u)] /\ n <= Len(w))
      <4>1. Goto(u, "marker")
        BY <1>6, <3>2 DEF ReadChunk
      <4> QED
        BY <4>1, GotoType DEF PC
    <3> QED
      BY <3>1, <3>2
  <2> QED
    BY <1>6, <2>4 DEF TypeOK, ReadChunk
<1>7. ASSUME NEW u \in Uploader, SendChunk(u) PROVE TypeOK'
  <2>1. /\ temp' \in [Version -> AllFiles]
        /\ \A x \in late' : x \in Put
        /\ trouble' \in 0..MaxTrouble
    BY <1>7, PutType, PutKeepsTypes DEF SendChunk
  <2>2. run' \in [Uploader -> Run]
    BY <1>7, CommittedType, GotoType DEF SendChunk, PC
  <2> QED
    BY <1>7, <2>1, <2>2 DEF TypeOK, SendChunk
<1>8. ASSUME NEW u \in Uploader, RecoverChunk(u) PROVE TypeOK'
  <2>1. run' \in [Uploader -> Run]
    BY <1>8, CommittedType, RetryType, GotoType DEF RecoverChunk, PC
  <2> QED
    BY <1>8, <2>1 DEF TypeOK, RecoverChunk
<1>9. ASSUME NEW u \in Uploader, SendMarker(u) PROVE TypeOK'
  <2>1. /\ temp' \in [Version -> AllFiles]
        /\ \A x \in late' : x \in Put
        /\ trouble' \in 0..MaxTrouble
    BY <1>9, PutType, PutKeepsTypes DEF SendMarker
  <2>2. run' \in [Uploader -> Run]
    BY <1>9, GotoType DEF SendMarker, PC
  <2> QED
    BY <1>9, <2>1, <2>2 DEF TypeOK, SendMarker
<1>10. ASSUME NEW u \in Uploader, RecheckMarker(u) PROVE TypeOK'
  <2>1. run' \in [Uploader -> Run]
    BY <1>10, RetryType, GotoType DEF RecheckMarker, PC
  <2> QED
    BY <1>10, <2>1 DEF TypeOK, RecheckMarker
<1>11. ASSUME NEW u \in Uploader, Finalize(u) PROVE TypeOK'
  <2>1. run' \in [Uploader -> Run] /\ trouble' \in 0..MaxTrouble
    BY <1>11, AnsweredType, GotoType DEF Finalize, PC, TypeOK
  <2>2. kernel' \in [Uploader -> CallState]
    <3>1. \A stage \in {"verify", "confirm"} : Call(u, stage) \in CallState
      BY DEF TypeOK, Call, CallState, Run
    <3> QED
      BY <1>11, <3>1 DEF TypeOK, Finalize
  <2> QED
    BY <1>11, <2>1, <2>2 DEF TypeOK, Finalize
<1>12. ASSUME NEW u \in Uploader, Kernel(u) PROVE TypeOK'
  <2>1. CASE Verify(u)
    <3>1. [kernel[u] EXCEPT !.stage = "move"] \in CallState
      BY <2>1, WorkingType DEF Verify, InCall, Working, CallState
    <3>2. kernel' \in [Uploader -> CallState] /\ run' \in [Uploader -> Run]
          /\ trouble' \in 0..MaxTrouble
      BY <2>1, <3>1, EndsType DEF Verify, TypeOK
    <3> QED
      BY <2>1, <3>2 DEF TypeOK, Verify
  <2>2. CASE Confirm(u) \/ MoveFails(u)
    BY <2>2, EndsType DEF TypeOK, Confirm, MoveFails
  <2>3. CASE Move(u)
    <3>1. kernel[u].digest \in Version
      BY <2>3, WorkingType DEF Move, InCall, Working
    <3>2. temp' \in [Version -> AllFiles] /\ target' \in AllFiles
      BY <2>3, <3>1 DEF TypeOK, Move, NoFile, AllFiles
    <3>3. \A w \in Uploader : InCall(w, "move") =>
            [kernel[w] EXCEPT !.raced = TRUE] \in CallState
      BY WorkingType DEF InCall, Working, CallState
    <3>4. kernel' \in [Uploader -> CallState]
      BY <2>3, <3>3 DEF TypeOK, Move, CallState
    <3> QED
      BY <2>3, <3>2, <3>4, TellsType DEF TypeOK, Move
  <2> QED
    BY <1>12, <2>1, <2>2, <2>3 DEF Kernel
<1>13. ASSUME ApplyLate PROVE TypeOK'
  <2> PICK put \in late : temp' = Applied(put) /\ late' = late \ {put}
    BY <1>13 DEF ApplyLate
  <2>1. temp' \in [Version -> AllFiles]
    BY AppliedType DEF TypeOK
  <2> QED
    BY <1>13, <2>1 DEF TypeOK, ApplyLate
<1>14. ASSUME NEW u \in Uploader, Abort(u) PROVE TypeOK'
  <2>1. run' \in [Uploader -> Run]
    BY <1>14, GotoType DEF Abort, PC
  <2> QED
    BY <1>14, <2>1 DEF TypeOK, Abort, Trouble
<1>15. ASSUME NEW u \in Uploader, EditSource(u) PROVE TypeOK'
  BY <1>15 DEF TypeOK, EditSource, Trouble
<1> QED
  BY <1>1, <1>2, <1>3, <1>4, <1>5, <1>6, <1>7, <1>8, <1>9, <1>10, <1>11, <1>12,
     <1>13, <1>14, <1>15 DEF Next, Work

\* Every variable keeps its type, for any contents and sizes.
THEOREM TypeCorrect == Spec => []TypeOK
BY InitTypeOK, NextTypeOK, PTL DEF Spec
-----------------------------------------------------------------------------
(* The inductive invariant, where no PUT comes between digest and replace.  *)

LEMMA InitInv == Init => UploadInv
<1> SUFFICES ASSUME Init PROVE UploadInv
  OBVIOUS
<1>1. \A u \in Uploader : InCall(u, "idle") /\ ~InCall(u, "move")
  BY DEF Init, NoCall, InCall
<1>2. target = NoFile
  BY DEF Init
<1> QED
  BY <1>1, <1>2, InitTypeOK DEF UploadInv, TargetIsWhole, CheckedStays, WaitsForOwn

\* What a kernel is about to move is still there as it was, or is gone.
Kept(u) == InCall(u, "move") =>
             temp'[kernel[u].digest] \in {temp[kernel[u].digest], NoFile}

\* Every step but Finalize and those of the kernels leaves the kernels, the
\* target and what the kernels are about to move alone.
Frame == kernel' = kernel /\ target' = target /\ \A u \in Uploader : Kept(u)

LEMMA AppliedKeeps ==
  ASSUME TypeOK, ~KernelWindow, NEW put, PutsRun(put), temp' = Applied(put), NEW u \in Uploader
  PROVE  Kept(u)
<1> SUFFICES ASSUME InCall(u, "move") PROVE temp'[kernel[u].digest] = temp[kernel[u].digest]
  BY DEF Kept
<1>1. kernel[u].digest \in Version /\ kernel[u].digest # put.to
  BY WorkingType DEF InCall, Working, PutsRun
<1> QED
  BY <1>1 DEF Applied, TypeOK

LEMMA PutFrame ==
  ASSUME TypeOK, ~KernelWindow, NEW put, PutSucceeds(put) \/ PutIsLost(put)
  PROVE  \A u \in Uploader : Kept(u)
BY AppliedKeeps DEF PutSucceeds, PutIsLost, Kept

LEMMA WorkFrame ==
  ASSUME TypeOK, ~KernelWindow, NEW u \in Uploader,
         Work(u) \/ Abort(u) \/ EditSource(u), ~Finalize(u)
  PROVE  Frame
<1>1. CASE SendChunk(u)
  BY <1>1, PutFrame DEF SendChunk, Frame
<1>2. CASE SendMarker(u)
  BY <1>2, PutFrame DEF SendMarker, Frame
<1>3. CASE RemovePartial(u)
  BY <1>3 DEF RemovePartial, Frame, Kept, TypeOK
<1>4. CASE \/ Begin(u) \/ Stat(u) \/ ComparePrefix(u) \/ ReadChunk(u) \/ RecoverChunk(u)
           \/ RecheckMarker(u) \/ Abort(u) \/ EditSource(u)
  BY <1>4 DEF Begin, Stat, ComparePrefix, ReadChunk, RecoverChunk, RecheckMarker, Abort,
              EditSource, Frame, Kept
<1> QED
  BY <1>1, <1>2, <1>3, <1>4 DEF Work

LEMMA LateFrame ==
  ASSUME TypeOK, ~KernelWindow, ApplyLate
  PROVE  Frame /\ run' = run
BY AppliedKeeps DEF ApplyLate, Frame

\* No such step makes a client wait for its finalize call, or be done.
NoAnswer == \A x \in Uploader : run'[x].pc \in {"wait", "done"} => run'[x] = run[x]

LEMMA GotoNoAnswer ==
  ASSUME TypeOK, NEW u \in Uploader, NEW pc, pc \notin {"wait", "done"}, Goto(u, pc)
  PROVE  NoAnswer
<1>1. run \in [Uploader -> Run] /\ run[u] \in Run
  BY DEF TypeOK
<1>2. run'[u].pc = pc
  BY <1>1 DEF Goto, Run
<1> QED
  BY <1>1, <1>2 DEF Goto, NoAnswer, At

LEMMA PcNoAnswer ==
  ASSUME TypeOK, NEW u \in Uploader, NEW r, r.pc \notin {"wait", "done"}, run' = [run EXCEPT ![u] = r]
  PROVE  NoAnswer
BY DEF TypeOK, NoAnswer, At

LEMMA CommittedNoAnswer ==
  ASSUME TypeOK, NEW u \in Uploader, Committed(u)
  PROVE  NoAnswer
<1> DEFINE r == [run[u] EXCEPT !.pc = "send", !.offset = @ + 1, !.data = <<>>, !.attempts = 0]
<1>1. run[u] \in Run
  BY DEF TypeOK
<1>2. r.pc = "send"
  BY <1>1 DEF Run
<1>3. run' = [run EXCEPT ![u] = r]
  BY DEF Committed
<1> HIDE DEF r
<1> QED
  BY <1>2, <1>3, PcNoAnswer

LEMMA RetryNoAnswer ==
  ASSUME TypeOK, NEW u \in Uploader, NEW pc, pc \notin {"wait", "done"}, RetryOrFail(u, pc)
  PROVE  NoAnswer
<1> DEFINE r == [run[u] EXCEPT !.pc = pc, !.attempts = @ + 1]
<1>1. r.pc = pc
  BY DEF TypeOK, Run
<1>2. Goto(u, "failed") \/ run' = [run EXCEPT ![u] = r]
  BY DEF RetryOrFail
<1> HIDE DEF r
<1> QED
  BY <1>1, <1>2, PcNoAnswer, GotoNoAnswer

LEMMA WorkNoAnswer ==
  ASSUME TypeOK, NEW u \in Uploader,
         Work(u) \/ Abort(u) \/ EditSource(u), ~Finalize(u)
  PROVE  NoAnswer
<1>1. CASE Begin(u)
  <2> PICK ow \in BOOLEAN : run' = [run EXCEPT ![u] = Fresh(source[u], ow)]
    BY <1>1 DEF Begin
  <2>1. Fresh(source[u], ow).pc = "stat"
    BY DEF Fresh
  <2> QED
    BY <2>1, PcNoAnswer
<1>2. CASE Stat(u)
  <2> DEFINE r == [run[u] EXCEPT !.pc = "prefix", !.offset = Len(Partial(u).data)]
  <2>1. r.pc = "prefix"
    BY DEF TypeOK, Run
  <2>2. Goto(u, "send") \/ Goto(u, "remove") \/ run' = [run EXCEPT ![u] = r]
    BY <1>2 DEF Stat
  <2> HIDE DEF r
  <2> QED
    BY <2>1, <2>2, PcNoAnswer, GotoNoAnswer
<1>3. CASE ComparePrefix(u)
  <2> DEFINE r == [run[u] EXCEPT !.pc = "remove", !.offset = 0]
  <2>1. r.pc = "remove"
    BY DEF TypeOK, Run
  <2>2. Goto(u, "send") \/ run' = [run EXCEPT ![u] = r]
    BY <1>3 DEF ComparePrefix
  <2> HIDE DEF r
  <2> QED
    BY <2>1, <2>2, PcNoAnswer, GotoNoAnswer
<1>4. CASE ReadChunk(u)
  <2> DEFINE r == [run[u] EXCEPT !.data = <<Whole(source[u])[run[u].offset + 1]>>]
  <2>1. r.pc = "send"
    BY <1>4 DEF TypeOK, Run, ReadChunk, At
  <2>2. Goto(u, "marker") \/ run' = [run EXCEPT ![u] = r]
    BY <1>4 DEF ReadChunk
  <2> HIDE DEF r
  <2> QED
    BY <2>1, <2>2, PcNoAnswer, GotoNoAnswer
<1>5. CASE SendChunk(u)
  BY <1>5, CommittedNoAnswer, GotoNoAnswer DEF SendChunk
<1>6. CASE RecoverChunk(u)
  BY <1>6, CommittedNoAnswer, RetryNoAnswer, GotoNoAnswer DEF RecoverChunk
<1>7. CASE RecheckMarker(u)
  BY <1>7, RetryNoAnswer, GotoNoAnswer DEF RecheckMarker
<1>8. CASE RemovePartial(u) \/ SendMarker(u) \/ Abort(u)
  BY <1>8, GotoNoAnswer DEF RemovePartial, SendMarker, Abort
<1>9. CASE EditSource(u)
  BY <1>9 DEF EditSource, NoAnswer
<1> QED
  BY <1>1, <1>2, <1>3, <1>4, <1>5, <1>6, <1>7, <1>8, <1>9 DEF Work

\* Such a step keeps the invariant.
LEMMA FrameInv ==
  ASSUME UploadInv, TypeOK', Frame, NoAnswer
  PROVE  UploadInv'
<1>1. TargetIsWhole'
  BY DEF UploadInv, Frame, TargetIsWhole
<1>2. CheckedStays'
  BY DEF UploadInv, Frame, Kept, CheckedStays, InCall
<1>3. WaitsForOwn'
  <2> SUFFICES ASSUME NEW u \in Uploader, ~InCall(u, "idle"), run'[u].pc = "wait"
               PROVE  run'[u].digest = kernel[u].digest
    BY DEF Frame, WaitsForOwn, InCall, At, Digest
  <2> QED
    BY DEF NoAnswer, UploadInv, WaitsForOwn, At, Digest
<1> QED
  BY <1>1, <1>2, <1>3 DEF UploadInv

\* Finalize starts a call of its own client.
LEMMA FinalizeInv ==
  ASSUME UploadInv, TypeOK', NEW u \in Uploader, Finalize(u)
  PROVE  UploadInv'
<1>1. target' = target /\ temp' = temp /\ TypeOK /\ InCall(u, "idle")
  BY DEF Finalize, Control, UploadInv
<1>2. \A x \in Uploader \ {u} : kernel'[x] = kernel[x] /\ run'[x] = run[x]
  BY <1>1 DEF Finalize, Answered, Goto, TypeOK
<1>3. ~InCall(u, "move")'
  BY <1>1 DEF Finalize, Call, InCall, TypeOK
<1>4. TargetIsWhole'
  BY <1>1 DEF UploadInv, TargetIsWhole
<1>5. CheckedStays'
  BY <1>1, <1>2, <1>3 DEF UploadInv, CheckedStays, InCall
<1>6. ~InCall(u, "idle")' => Digest(u)' = kernel'[u].digest
  <2> SUFFICES ASSUME ~InCall(u, "idle")' PROVE Digest(u)' = kernel'[u].digest
    OBVIOUS
  <2>1. kernel' # kernel
    BY <1>1 DEF InCall
  <2>2. PICK stage \in {"verify", "confirm"} :
          kernel' = [kernel EXCEPT ![u] = Call(u, stage)] /\ Goto(u, "wait")
    BY <2>1 DEF Finalize
  <2>3. kernel'[u].digest = run[u].digest /\ run'[u].digest = run[u].digest
    BY <1>1, <2>2 DEF Call, Goto, TypeOK, Run
  <2> QED
    BY <2>3 DEF Digest
<1>7. WaitsForOwn'
  BY <1>2, <1>6 DEF UploadInv, WaitsForOwn, InCall, At, Digest
<1> QED
  BY <1>4, <1>5, <1>7 DEF UploadInv

\* How the steps of a kernel change the calls and the clients: its own call
\* ends or goes on to the move, and nobody else's client is told anything.
LEMMA KernelFrame ==
  ASSUME TypeOK, NEW u \in Uploader, Kernel(u)
  PROVE  /\ \A x \in Uploader \ {u} :
              /\ run'[x] = run[x] /\ kernel'[x].stage = kernel[x].stage
              /\ ~InCall(x, "idle") => /\ kernel'[x].digest = kernel[x].digest
                                      /\ kernel'[x].ow = kernel[x].ow
         /\ \/ Verify(u) /\ run' = run /\ kernel' = [kernel EXCEPT ![u].stage = "move"]
            \/ kernel'[u] = NoCall
<1>1. CASE Verify(u) \/ Confirm(u) \/ MoveFails(u)
  <2>1. \/ Verify(u) /\ run' = run /\ kernel' = [kernel EXCEPT ![u].stage = "move"]
        \/ \E to \in {"done", "failed"} : Ends(u, to)
    BY <1>1 DEF Verify, Confirm, MoveFails
  <2>2. ASSUME NEW to \in {"done", "failed"}, Ends(u, to)
        PROVE  /\ kernel'[u] = NoCall
               /\ \A x \in Uploader \ {u} : run'[x] = run[x] /\ kernel'[x] = kernel[x]
    BY <2>2 DEF Ends, Tells, Answered, Goto, TypeOK
  <2>3. CASE Verify(u) /\ run' = run /\ kernel' = [kernel EXCEPT ![u].stage = "move"]
    BY <2>3 DEF TypeOK
  <2> QED
    BY <2>1, <2>2, <2>3
<1>2. CASE Move(u)
  <2>1. \A x \in Uploader \ {u} : run'[x] = run[x]
    BY <1>2 DEF Move, Tells, Answered, Goto, TypeOK
  <2>2. kernel'[u] = NoCall
    BY <1>2 DEF Move
  <2>3. ASSUME NEW x \in Uploader \ {u}
        PROVE  /\ kernel'[x].stage = kernel[x].stage
               /\ ~InCall(x, "idle") => /\ kernel'[x].digest = kernel[x].digest
                                       /\ kernel'[x].ow = kernel[x].ow
    <3>1. CASE InCall(x, "move")
      <4>1. kernel[x] \in Working /\ kernel'[x] = [kernel[x] EXCEPT !.raced = TRUE]
        BY <1>2, <3>1, WorkingType DEF Move, InCall
      <4> QED
        BY <4>1 DEF Working
    <3>2. CASE ~InCall(x, "move")
      BY <1>2, <3>2 DEF Move
    <3> QED
      BY <3>1, <3>2
  <2> QED
    BY <2>1, <2>2, <2>3
<1> QED
  BY <1>1, <1>2 DEF Kernel

LEMMA KernelWaits ==
  ASSUME UploadInv, NEW u \in Uploader, Kernel(u)
  PROVE  WaitsForOwn'
<1>1. TypeOK
  BY DEF UploadInv
<1> SUFFICES ASSUME NEW x \in Uploader, ~InCall(x, "idle")', At(x, "wait")'
             PROVE  Digest(x)' = kernel'[x].digest
  BY DEF WaitsForOwn
<1>2. CASE x # u
  <2>1. run'[x] = run[x] /\ kernel'[x].stage = kernel[x].stage
        /\ (~InCall(x, "idle") => kernel'[x].digest = kernel[x].digest)
    BY <1>1, <1>2, KernelFrame
  <2> QED
    BY <2>1 DEF UploadInv, WaitsForOwn, InCall, At, Digest
<1>3. CASE x = u
  <2>1. kernel'[u] # NoCall
    BY <1>3 DEF InCall, NoCall
  <2>2. Verify(u) /\ run' = run /\ kernel' = [kernel EXCEPT ![u].stage = "move"]
    BY <1>1, <2>1, KernelFrame
  <2>3. ~InCall(u, "idle") /\ kernel[u] \in Working
    BY <1>1, <2>2, WorkingType DEF Verify, InCall
  <2>4. kernel'[u].digest = kernel[u].digest
    BY <1>1, <2>2, <2>3 DEF TypeOK, Working
  <2> QED
    BY <1>3, <2>2, <2>3, <2>4 DEF UploadInv, WaitsForOwn, At, Digest
<1> QED
  BY <1>2, <1>3

\* Only what was just verified is to be moved, and only where the target may
\* be replaced.
LEMMA VerifyInv ==
  ASSUME UploadInv, TypeOK', NEW u \in Uploader, Verify(u) \/ Confirm(u) \/ MoveFails(u)
  PROVE  UploadInv'
<1>1. TypeOK /\ Kernel(u) /\ target' = target /\ temp' = temp
  BY DEF UploadInv, Kernel, Verify, Confirm, MoveFails
<1>2. TargetIsWhole'
  BY <1>1 DEF UploadInv, TargetIsWhole
<1>3. \A x \in Uploader \ {u} : kernel'[x] = kernel[x]
  BY <1>1 DEF Verify, Confirm, MoveFails, Ends, TypeOK
<1>4. ASSUME NEW x \in Uploader, InCall(x, "move")'
      PROVE  /\ temp'[kernel'[x].digest] \in {File(Whole(kernel'[x].digest)), NoFile}
             /\ target'.exists => kernel'[x].ow \/ kernel'[x].raced
  <2>1. CASE x # u
    BY <1>1, <1>3, <1>4, <2>1 DEF UploadInv, CheckedStays, InCall
  <2>2. CASE x = u
    <3>1. kernel'[u] # NoCall
      BY <1>4, <2>2 DEF InCall, NoCall
    <3>2. Verify(u) /\ kernel' = [kernel EXCEPT ![u].stage = "move"]
      BY <1>1, <3>1, KernelFrame
    <3>3. InCall(u, "verify") /\ kernel[u] \in Working
      BY <1>1, <3>2, WorkingType DEF Verify, InCall
    <3>4. kernel'[u].digest = kernel[u].digest /\ kernel'[u].ow = kernel[u].ow
      BY <1>1, <3>2, <3>3 DEF TypeOK, Working
    <3>5. Verified(u) /\ ~Refused(u)
      <4>1. ~Ends(u, "failed")
        BY <1>1, <3>1 DEF Ends, TypeOK
      <4> QED
        BY <3>2, <4>1 DEF Verify
    <3> QED
      BY <1>1, <2>2, <3>3, <3>4, <3>5 DEF Verified, Candidate, Refused
  <2> QED
    BY <2>1, <2>2
<1>5. CheckedStays'
  BY <1>4 DEF CheckedStays
<1> QED
  BY <1>1, <1>2, <1>5, KernelWaits DEF UploadInv

\* A move puts the verified file at the remote path, and marks every other
\* call that has looked before.
LEMMA MoveInv ==
  ASSUME UploadInv, TypeOK', NEW u \in Uploader, Move(u)
  PROVE  UploadInv' /\ target' = File(Whole(kernel[u].digest))
<1>1. TypeOK /\ Kernel(u) /\ InCall(u, "move")
  BY DEF UploadInv, Kernel, Move
<1>2. kernel[u].digest \in Version
  BY <1>1, WorkingType DEF InCall, Working
<1>3. target' = File(Whole(kernel[u].digest))
  BY <1>1 DEF Move, UploadInv, CheckedStays, NoFile
<1>4. TargetIsWhole'
  BY <1>2, <1>3 DEF TargetIsWhole
<1>5. ASSUME NEW x \in Uploader, InCall(x, "move")'
      PROVE  /\ temp'[kernel'[x].digest] \in {File(Whole(kernel'[x].digest)), NoFile}
             /\ target'.exists => kernel'[x].ow \/ kernel'[x].raced
  <2>1. x # u
    BY <1>5 DEF Move, InCall, NoCall
  <2>2. InCall(x, "move")
    BY <1>1, <1>5, <2>1, KernelFrame DEF InCall
  <2>3. kernel'[x] = [kernel[x] EXCEPT !.raced = TRUE] /\ kernel[x] \in Working
    BY <1>1, <2>1, <2>2, WorkingType DEF Move, InCall
  <2>4. kernel'[x].digest = kernel[x].digest /\ kernel'[x].raced
    BY <2>3 DEF Working
  <2>5. kernel[x].digest \in Version
    BY <2>3 DEF Working
  <2>6. temp'[kernel[x].digest] \in {temp[kernel[x].digest], NoFile}
    BY <1>1, <1>2, <2>5 DEF Move, TypeOK
  <2> QED
    BY <2>2, <2>4, <2>6 DEF UploadInv, CheckedStays
<1>6. CheckedStays'
  BY <1>5 DEF CheckedStays
<1> QED
  BY <1>1, <1>3, <1>4, <1>6, KernelWaits DEF UploadInv

LEMMA NextInv ==
  ASSUME ~KernelWindow
  PROVE  UploadInv /\ [Next]_vars => UploadInv'
<1> SUFFICES ASSUME UploadInv, [Next]_vars PROVE UploadInv'
  OBVIOUS
<1>1. TypeOK /\ TypeOK'
  BY NextTypeOK DEF UploadInv
<1>2. CASE UNCHANGED vars
  BY <1>1, <1>2, FrameInv DEF vars, Frame, Kept, NoAnswer
<1>3. ASSUME NEW u \in Uploader, Kernel(u) PROVE UploadInv'
  BY <1>1, <1>3, VerifyInv, MoveInv DEF Kernel
<1>4. CASE ApplyLate
  BY <1>1, <1>4, LateFrame, FrameInv DEF NoAnswer
<1>5. ASSUME NEW u \in Uploader, Finalize(u) PROVE UploadInv'
  BY <1>1, <1>5, FinalizeInv
<1>6. ASSUME NEW u \in Uploader, Work(u) \/ Abort(u) \/ EditSource(u), ~Finalize(u)
      PROVE  UploadInv'
  BY <1>1, <1>6, WorkFrame, WorkNoAnswer, FrameInv
<1> QED
  BY <1>2, <1>3, <1>4, <1>5, <1>6 DEF Next

\* If no PUT reaches a partial file between its digest and os.replace, what a
\* kernel has verified is what it moves or is gone, with any number of machines
\* that finalize and remove at a time.
THEOREM Invariance == ASSUME ~KernelWindow PROVE Spec => []UploadInv
BY InitInv, NextInv, PTL DEF Spec

\* Under the same condition the remote path holds a whole file or none, for any
\* number of clients and kernels and any loss, delay and repetition of PUTs.
THEOREM Atomicity == ASSUME ~KernelWindow PROVE Spec => []TargetIsWhole
<1>1. UploadInv => TargetIsWhole
  BY DEF UploadInv
<1> QED
  BY <1>1, Invariance, PTL

\* Success is reported only for a content that is at the remote path.
LEMMA DoneStep ==
  ASSUME UploadInv, UploadInv', [Next]_vars, ~KernelWindow, NEW u \in Uploader,
         At(u, "done")', ~At(u, "done")
  PROVE  target' = File(Whole(Digest(u)))
<1>1. TypeOK /\ TypeOK' /\ run'[u] # run[u]
  BY DEF UploadInv, At
<1>2. ASSUME NEW x \in Uploader, Kernel(x) PROVE target' = File(Whole(Digest(u)))
  <2>1. x = u
    BY <1>1, <1>2, KernelFrame
  <2>2. ~Goto(u, "failed") /\ At(u, "wait")
    <3>1. ~Goto(u, "failed")
      BY <1>1 DEF Goto, TypeOK, Run, At
    <3>2. Tells(u, "done") \/ Tells(u, "failed")
      BY <1>1, <1>2, <2>1 DEF Kernel, Verify, Confirm, Move, MoveFails, Ends
    <3> QED
      BY <1>1, <3>1, <3>2 DEF Tells
  <2>3. ~Ends(u, "failed")
    <3>1. ~Answered(u, "failed")
      BY <1>1, <2>2 DEF Answered, TypeOK, Run, At
    <3> QED
      BY <2>2, <3>1 DEF Ends, Tells
  <2>4. Move(u) \/ (Confirm(u) /\ Verified(u))
    BY <1>1, <1>2, <2>1, <2>3 DEF Kernel, Verify, Confirm, MoveFails
  <2>5. Digest(u) = kernel[u].digest
    BY <2>2, <2>4 DEF Move, Confirm, InCall, UploadInv, WaitsForOwn
  <2>6. CASE Move(u)
    BY <1>1, <2>5, <2>6, MoveInv
  <2>7. CASE Confirm(u) /\ Verified(u)
    BY <2>5, <2>7 DEF Confirm, InCall, Verified, Candidate
  <2> QED
    BY <2>4, <2>6, <2>7
<1>3. ASSUME NEW x \in Uploader, Finalize(x) PROVE FALSE
  <2>1. x = u
    BY <1>1, <1>3 DEF Finalize, Answered, Goto, TypeOK
  <2> QED
    BY <1>1, <1>3, <2>1 DEF Finalize, Answered, Goto, TypeOK, Run, At
<1>4. ASSUME NEW x \in Uploader, Work(x) \/ Abort(x) \/ EditSource(x), ~Finalize(x)
      PROVE  FALSE
  BY <1>1, <1>4, WorkNoAnswer DEF NoAnswer, At
<1>5. CASE ApplyLate \/ UNCHANGED vars
  BY <1>1, <1>5 DEF ApplyLate, vars
<1> QED
  BY <1>2, <1>3, <1>4, <1>5 DEF Next

\* Under the same condition a finished upload has been delivered, also when its
\* success is inferred from the target after a lost answer.
THEOREM Delivery == ASSUME ~KernelWindow PROVE Spec => DoneIsDelivered
<1>1. UploadInv /\ UploadInv' /\ [Next]_vars =>
        [\A u \in Uploader : At(u, "done")' /\ ~At(u, "done") =>
           target' = File(Whole(Digest(u)))]_vars
  BY DoneStep
<1> QED
  BY <1>1, Invariance, PTL DEF Spec, DoneIsDelivered

LEMMA OverwriteStep ==
  ASSUME UploadInv, [Next]_vars, ~KernelWindow, target.exists, target' # target
  PROVE  \E u \in Uploader : /\ InCall(u, "move") /\ InCall(u, "idle")'
                             /\ kernel[u].ow \/ kernel[u].raced
<1>0. TypeOK
  BY DEF UploadInv
<1>1. ASSUME NEW u \in Uploader, Kernel(u)
      PROVE  /\ InCall(u, "move") /\ InCall(u, "idle")'
             /\ kernel[u].ow \/ kernel[u].raced
  <2>1. Move(u)
    BY <1>1 DEF Kernel, Verify, Confirm, MoveFails
  <2>2. InCall(u, "move") /\ InCall(u, "idle")'
    BY <2>1 DEF Move, InCall, NoCall
  <2> QED
    BY <2>2 DEF UploadInv, CheckedStays
<1>2. ASSUME NEW x \in Uploader, Finalize(x) PROVE FALSE
  BY <1>2 DEF Finalize
<1>3. ASSUME NEW x \in Uploader, Work(x) \/ Abort(x) \/ EditSource(x), ~Finalize(x)
      PROVE  FALSE
  BY <1>0, <1>3, WorkFrame DEF Frame
<1>4. CASE ApplyLate \/ UNCHANGED vars
  BY <1>4 DEF ApplyLate, vars
<1> QED
  BY <1>1, <1>2, <1>3, <1>4 DEF Next

\* Under the same condition, an existing file is replaced by a call without
\* overwrite in one case only: another machine's finalize put it there between
\* this call's look at the target and its os.replace.
THEOREM NoOverwrite == ASSUME ~KernelWindow PROVE Spec => NoOverwriteIsKept
<1>1. UploadInv /\ [Next]_vars =>
        [target.exists /\ target' # target =>
           \E u \in Uploader : /\ InCall(u, "move") /\ InCall(u, "idle")'
                               /\ kernel[u].ow \/ kernel[u].raced]_vars
  BY OverwriteStep
<1> QED
  BY <1>1, Invariance, PTL DEF Spec, NoOverwriteIsKept
=============================================================================
