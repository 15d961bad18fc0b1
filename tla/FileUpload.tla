----------------------------- MODULE FileUpload -----------------------------
(***************************************************************************)
(* Resumable uploads to one remote path (transfer.py, remote.py and the    *)
(* PUT of contents.py).                                                    *)
(*                                                                         *)
(* The Contents server applies the PUT of a chunk whenever the request     *)
(* reaches it: one whose response is lost may have been applied, may never *)
(* be, or may be applied long after the client gave up on it.  Control     *)
(* calls run in kernels.  Clients sit on different machines (the lease is  *)
(* local); each machine that attaches has a kernel of its own on the VM,   *)
(* which runs its calls one at a time, so the calls of two clients, and    *)
(* the parts of two finalize calls, interleave.  Uploads are interrupted   *)
(* anywhere and started again, and local files are edited meanwhile.       *)
(*                                                                         *)
(* A file is a sequence of chunks; <<v, i>> is chunk i of content v.  The  *)
(* partial file is named by the digest, so temp has one per content.       *)
(***************************************************************************)
EXTENDS Integers, Sequences, FiniteSets

CONSTANTS
  Uploader,     \* the clients
  Version,      \* contents of a local file, each with its own digest
  Size,         \* Size[v]: the chunks of content v
  MaxAttempts,  \* max_attempts
  MaxTrouble,   \* bound: lost or late calls, interruptions and edits in all
  KernelWindow  \* whether a PUT may reach a partial file between its digest and
                \* os.replace

ASSUME UploadAssumption ==
  /\ Size \in [Version -> Nat]
  /\ MaxAttempts \in Nat \ {0} /\ MaxTrouble \in Nat
  /\ KernelWindow \in BOOLEAN

VARIABLES
  source,   \* source[u]: the content of u's local file
  temp,     \* temp[v]: the partial file of content v
  target,   \* the file at the remote path
  late,     \* PUT requests the client gave up on that may yet be applied
  kernel,   \* kernel[u]: the finalize call in the kernel of u's machine
  run,      \* run[u]: the state of u's upload
  trouble   \* what went wrong so far

vars == <<source, temp, target, late, kernel, run, trouble>>

NoFile  == [exists |-> FALSE, data |-> <<>>]
File(d) == [exists |-> TRUE, data |-> d]
Whole(v) == [i \in 1..Size[v] |-> <<v, i>>]

\* raced is history: another call has replaced the target since the check.
NoCall == [stage |-> "idle"]
Call(u, stage) ==
  [stage |-> stage, digest |-> run[u].digest, ow |-> run[u].ow, raced |-> FALSE]

Fresh(v, ow) == [pc |-> "stat", digest |-> v, offset |-> 0, data |-> <<>>,
                 attempts |-> 0, tries |-> 0, ow |-> ow]

Init ==
  /\ source \in [Uploader -> Version]
  /\ temp = [v \in Version |-> NoFile]
  /\ target = NoFile
  /\ late = {}
  /\ kernel = [u \in Uploader |-> NoCall]
  /\ run = [u \in Uploader |-> [Fresh(source[u], TRUE) EXCEPT !.pc = "idle"]]
  /\ trouble = 0

At(u, pc)   == run[u].pc = pc
Goto(u, pc) == run' = [run EXCEPT ![u].pc = pc]
Digest(u)   == run[u].digest
Partial(u)  == temp[Digest(u)]

Trouble == trouble < MaxTrouble /\ trouble' = trouble + 1

\* A short control call runs when no earlier one is left in the client's own
\* kernel.  A file that goes away under it fails the call; so does Abort.
InCall(u, stage) == kernel[u].stage = stage
Control(u, pc) == At(u, pc) /\ InCall(u, "idle")
-----------------------------------------------------------------------------
(* Preparation: the digest, and how much of the partial file is usable *)

Begin(u) ==
  /\ run[u].pc \in {"idle", "failed"}
  /\ \E ow \in BOOLEAN : run' = [run EXCEPT ![u] = Fresh(source[u], ow)]
  /\ UNCHANGED <<source, temp, target, late, kernel, trouble>>

\* No partial file: from the start.  One that is too long, or not to be
\* resumed (--no-resume), is removed.
Stat(u) ==
  /\ Control(u, "stat")
  /\ \/ ~Partial(u).exists /\ Goto(u, "send")
     \/ Partial(u).exists /\ Goto(u, "remove")
     \/ /\ Partial(u).exists /\ Len(Partial(u).data) <= Size[Digest(u)]
        /\ run' = [run EXCEPT ![u].pc = "prefix", ![u].offset = Len(Partial(u).data)]
  /\ UNCHANGED <<source, temp, target, late, kernel, trouble>>

Least(i, j) == IF i < j THEN i ELSE j
Prefix(d, n) == SubSeq(d, 1, Least(n, Len(d)))

\* The remote prefix is compared with that of the local file as it is now.
Usable(u) == /\ Partial(u).exists
             /\ Prefix(Partial(u).data, run[u].offset)
                  = Prefix(Whole(source[u]), run[u].offset)

ComparePrefix(u) ==
  /\ Control(u, "prefix")
  /\ IF Usable(u) THEN Goto(u, "send")
     ELSE run' = [run EXCEPT ![u].pc = "remove", ![u].offset = 0]
  /\ UNCHANGED <<source, temp, target, late, kernel, trouble>>

RemovePartial(u) ==
  /\ Control(u, "remove")
  /\ temp' = [temp EXCEPT ![Digest(u)] = NoFile]
  /\ Goto(u, "send")
  /\ UNCHANGED <<source, target, late, kernel, trouble>>
-----------------------------------------------------------------------------
(* PUT requests *)

\* LargeFileManager: chunk=1 truncates, any other appends; both create.
Applied(put) ==
  [temp EXCEPT ![put.to] = File(IF put.marker = 1 THEN put.data ELSE @.data \o put.data)]

\* The bound of KernelWindow: no PUT reaches a partial file that a kernel has
\* verified and is about to move.
PutsRun(put) ==
  KernelWindow \/ \A u \in Uploader : InCall(u, "move") => kernel[u].digest # put.to

\* The request is applied and answered; or its response is lost, whether it
\* was applied, never will be, or is still under way.
PutSucceeds(put) == PutsRun(put) /\ temp' = Applied(put) /\ UNCHANGED <<late, trouble>>
PutIsLost(put) ==
  /\ Trouble
  /\ \/ PutsRun(put) /\ temp' = Applied(put) /\ UNCHANGED late
     \/ UNCHANGED <<temp, late>>
     \/ late' = late \cup {put} /\ UNCHANGED temp

ApplyLate ==
  /\ \E put \in late : PutsRun(put) /\ temp' = Applied(put) /\ late' = late \ {put}
  /\ UNCHANGED <<source, target, kernel, run, trouble>>
-----------------------------------------------------------------------------
(* The chunks *)

\* The chunk at the offset, read once for all attempts; a local file that has
\* become shorter ends the loop.
ReadChunk(u) ==
  /\ At(u, "send") /\ run[u].data = <<>>
  /\ LET n == run[u].offset + 1
         content == Whole(source[u])
     IN  IF n <= Size[Digest(u)] /\ n <= Len(content)
         THEN run' = [run EXCEPT ![u].data = <<content[n]>>]
         ELSE Goto(u, "marker")
  /\ UNCHANGED <<source, temp, target, late, kernel, trouble>>

\* Mutant of ChunkPut: every chunk is sent as if it were the first.
ChunkPutTruncates(u) == [to |-> Digest(u), data |-> run[u].data, marker |-> 1]

ChunkPut(u) == [to |-> Digest(u), data |-> run[u].data,
                marker |-> IF run[u].offset = 0 THEN 1 ELSE 2]

Committed(u) ==
  run' = [run EXCEPT ![u].pc = "send", ![u].offset = @ + 1, ![u].data = <<>>,
                     ![u].attempts = 0]

SendChunk(u) ==
  /\ At(u, "send") /\ run[u].data # <<>>
  /\ \/ PutSucceeds(ChunkPut(u)) /\ Committed(u)
     \/ PutIsLost(ChunkPut(u)) /\ Goto(u, "recover")
  /\ UNCHANGED <<source, target, kernel>>

\* After a failed PUT the size of the partial file decides.
RetryOrFail(u, pc) ==
  IF run[u].attempts + 1 < MaxAttempts
  THEN run' = [run EXCEPT ![u].pc = pc, ![u].attempts = @ + 1]
  ELSE Goto(u, "failed")

RecoverChunk(u) ==
  /\ Control(u, "recover")
  /\ LET size == Len(Partial(u).data) IN
       \/ size = run[u].offset + 1 /\ Committed(u)
       \/ size = run[u].offset /\ RetryOrFail(u, "send")
       \/ size \notin {run[u].offset, run[u].offset + 1} /\ Goto(u, "failed")
  /\ UNCHANGED <<source, temp, target, late, kernel, trouble>>

\* The empty chunk=-1 that ends the upload for the server.
MarkerPut(u) == [to |-> Digest(u), data |-> <<>>, marker |-> -1]

SendMarker(u) ==
  /\ At(u, "marker")
  /\ \/ PutSucceeds(MarkerPut(u)) /\ Goto(u, "finalize")
     \/ PutIsLost(MarkerPut(u)) /\ Goto(u, "recheck")
  /\ UNCHANGED <<source, target, kernel>>

RecheckMarker(u) ==
  /\ Control(u, "recheck")
  /\ IF Partial(u).exists /\ Len(Partial(u).data) = Size[Digest(u)]
     THEN RetryOrFail(u, "marker")
     ELSE Goto(u, "failed")
  /\ UNCHANGED <<source, temp, target, late, kernel, trouble>>
-----------------------------------------------------------------------------
(* finalize_upload, one call: choose a file, verify it, look, replace *)

\* The answer arrives, or is lost: then the call is made once more.
Answered(u, pc) ==
  \/ Goto(u, pc) /\ UNCHANGED trouble
  \/ /\ Trouble
     /\ run' = [run EXCEPT ![u].pc = IF run[u].tries = 0 THEN "finalize" ELSE "failed",
                           ![u].tries = 1]

\* The call of a client that is gone ends all the same.
Tells(u, pc) == IF At(u, "wait") THEN Answered(u, pc) ELSE UNCHANGED <<run, trouble>>
Ends(u, pc) == kernel' = [kernel EXCEPT ![u] = NoCall] /\ Tells(u, pc)

\* The partial file is to be verified; the target when there is none (an
\* earlier finalize whose response was lost).
Finalize(u) ==
  /\ Control(u, "finalize")
  /\ \/ /\ Partial(u).exists \/ target.exists
        /\ LET stage == IF Partial(u).exists THEN "verify" ELSE "confirm" IN
             kernel' = [kernel EXCEPT ![u] = Call(u, stage)]
        /\ Goto(u, "wait") /\ UNCHANGED trouble
     \/ /\ ~Partial(u).exists /\ ~target.exists
        /\ Answered(u, "failed") /\ UNCHANGED kernel
  /\ UNCHANGED <<source, temp, target, late>>

\* Mutant of Candidate: what is verified is not what is moved.
CandidateTarget(u) == IF target.exists THEN target ELSE temp[kernel[u].digest]

Candidate(u) == IF InCall(u, "verify") THEN temp[kernel[u].digest] ELSE target

\* Mutants of Verified: the digest is not compared; a missing partial file is
\* taken for an upload that was finalized before.
VerifiedSize(u) ==
  Candidate(u).exists /\ Len(Candidate(u).data) = Size[kernel[u].digest]
VerifiedOrGone(u) ==
  ~temp[kernel[u].digest].exists \/ temp[kernel[u].digest] = File(Whole(kernel[u].digest))

Verified(u) == Candidate(u) = File(Whole(kernel[u].digest))

\* Mutant of Refused: --no-overwrite is not looked at.
RefusedNever(u) == FALSE

Refused(u) == target.exists /\ ~kernel[u].ow

\* Size, digest and the look at the target; a partial file that another
\* machine removed or moved since it was chosen fails the call.
Verify(u) ==
  /\ InCall(u, "verify")
  /\ IF Verified(u) /\ ~Refused(u)
     THEN kernel' = [kernel EXCEPT ![u].stage = "move"] /\ UNCHANGED <<run, trouble>>
     ELSE Ends(u, "failed")
  /\ UNCHANGED <<source, temp, target, late>>

Confirm(u) ==
  /\ InCall(u, "confirm")
  /\ Ends(u, IF Verified(u) THEN "done" ELSE "failed")
  /\ UNCHANGED <<source, temp, target, late>>

\* os.replace: the file of that name as it is now.
Move(u) ==
  /\ InCall(u, "move") /\ temp[kernel[u].digest].exists
  /\ target' = temp[kernel[u].digest]
  /\ temp' = [temp EXCEPT ![kernel[u].digest] = NoFile]
  /\ kernel' = [w \in Uploader |->
                  IF w = u THEN NoCall
                  ELSE IF InCall(w, "move") THEN [kernel[w] EXCEPT !.raced = TRUE]
                  ELSE kernel[w]]
  /\ Tells(u, "done")
  /\ UNCHANGED <<source, late>>

\* Another machine has moved or removed it.
MoveFails(u) ==
  /\ InCall(u, "move") /\ ~temp[kernel[u].digest].exists
  /\ Ends(u, "failed")
  /\ UNCHANGED <<source, temp, target, late>>
-----------------------------------------------------------------------------
(* What else happens *)

\* Ctrl+C, a crash, or a control call that fails twice; the partial file and
\* a finalize call in the kernel stay.
Abort(u) ==
  /\ run[u].pc \notin {"idle", "failed", "done"}
  /\ Trouble
  /\ Goto(u, "failed")
  /\ UNCHANGED <<source, temp, target, late, kernel>>

EditSource(u) ==
  /\ run[u].pc # "done"
  /\ Trouble
  /\ \E v \in Version \ {source[u]} : source' = [source EXCEPT ![u] = v]
  /\ UNCHANGED <<temp, target, late, kernel, run>>
-----------------------------------------------------------------------------
Work(u) == \/ Begin(u) \/ Stat(u) \/ ComparePrefix(u) \/ RemovePartial(u)
           \/ ReadChunk(u) \/ SendChunk(u) \/ RecoverChunk(u)
           \/ SendMarker(u) \/ RecheckMarker(u) \/ Finalize(u)
Kernel(u) == Verify(u) \/ Confirm(u) \/ Move(u) \/ MoveFails(u)

Next == \/ \E u \in Uploader : Work(u) \/ Kernel(u) \/ Abort(u) \/ EditSource(u)
        \/ ApplyLate

Spec == Init /\ [][Next]_vars

\* Kernels and uploads go on and failed ones are started again; late requests need not
\* ever arrive.
FairSpec == Spec /\ \A u \in Uploader : WF_vars(Kernel(u)) /\ WF_vars(Work(u))
-----------------------------------------------------------------------------
(* Properties *)

Chunk == UNION {{v} \X (1..Size[v]) : v \in Version}
AllFiles == [exists : BOOLEAN, data : Seq(Chunk)]
CallState ==
  {NoCall} \cup [stage : {"verify", "confirm", "move"}, digest : Version,
                 ow : BOOLEAN, raced : BOOLEAN]
Put == [to : Version, data : Seq(Chunk), marker : {-1, 1, 2}]
PC == {"idle", "stat", "prefix", "remove", "send", "recover", "marker", "recheck",
       "finalize", "wait", "done", "failed"}
Run == [pc : PC, digest : Version, offset : Nat, data : Seq(Chunk),
        attempts : 0..(MaxAttempts - 1), tries : {0, 1}, ow : BOOLEAN]

TypeOK ==
  /\ source \in [Uploader -> Version]
  /\ temp \in [Version -> AllFiles]
  /\ target \in AllFiles
  /\ \A put \in late : put \in Put
  /\ kernel \in [Uploader -> CallState]
  /\ run \in [Uploader -> Run]
  /\ trouble \in 0..MaxTrouble

\* The remote path never holds part of a file, a mixture of two, or chunks
\* twice, however PUTs are lost, repeated or late and whoever else uploads,
\* finalizes or removes: as long as no PUT reaches a partial file between its
\* digest and os.replace (KernelWindow = FALSE; with it ReplacementIsVerified
\* is refuted).
TargetIsWhole == target = NoFile \/ \E v \in Version : target = File(Whole(v))

\* An upload that reports success has delivered the content its digest was
\* taken from, also when it only finds it there after a lost answer.
DoneIsDelivered ==
  [][\A u \in Uploader : At(u, "done")' /\ ~At(u, "done") =>
       target' = File(Whole(Digest(u)))]_vars

\* With --no-overwrite an existing file is replaced in one case only: it was
\* put there by the finalize call of another machine after this call had looked
\* (remote.py checks and replaces in two steps).  A file that was there when
\* the call looked keeps its content, and the retry of a finalize call that
\* has replaced once is no exception.
NoOverwriteIsKept ==
  [][target.exists /\ target' # target =>
       \E u \in Uploader : /\ InCall(u, "move") /\ InCall(u, "idle")'
                           /\ kernel[u].ow \/ kernel[u].raced]_vars

\* A partial file spoilt by late or repeated PUTs, by an edit or by another
\* upload does not block the upload: once nothing more goes wrong and nobody
\* else uploads it succeeds (unless --no-overwrite refuses).
Rests(u) == run[u].pc \in {"idle", "failed", "done"}
UploadHeals ==
  \A u \in Uploader :
    <>[](\A w \in Uploader \ {u} : Rests(w))
      => <>(At(u, "done") \/ (At(u, "failed") /\ ~run[u].ow /\ target.exists))

\* docs/03_file_management.md: "Atomically replace the destination with
\* `os.replace` only after verification": what os.replace moves is what
\* finalize_upload has verified.
ReplacementIsVerified ==
  [][target' # target =>
       \E u \in Uploader : /\ InCall(u, "move")
                           /\ target' = File(Whole(kernel[u].digest))]_vars

\* The inductive invariant: a verified partial file stays as it is until it is
\* moved, or is gone (another kernel moved or removed it), if no PUT reaches it;
\* and a target that --no-overwrite protects appears only through a race.
CheckedStays ==
  \A u \in Uploader : InCall(u, "move") =>
    /\ temp[kernel[u].digest] \in {File(Whole(kernel[u].digest)), NoFile}
    /\ target.exists => kernel[u].ow \/ kernel[u].raced
WaitsForOwn ==
  \A u \in Uploader : ~InCall(u, "idle") /\ At(u, "wait") => Digest(u) = kernel[u].digest

UploadInv == TypeOK /\ TargetIsWhole /\ CheckedStays /\ WaitsForOwn
=============================================================================
