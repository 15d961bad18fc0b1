------------------------- MODULE FileDownloadProofs -------------------------
(***************************************************************************)
(* Proofs about FileDownload, for any runs, VMs, contents, chunk size and  *)
(* amount of trouble: the invariant DownloadInv; that the target of a      *)
(* download only ever becomes, in one step, a file its VM had while the    *)
(* run was at work; and that a resumed run keeps what it has.              *)
(***************************************************************************)
EXTENDS FileDownload, SequenceTheorems, TLAPS

-----------------------------------------------------------------------------
(* Prefixes and chunks *)

LEMMA PrefixType ==
  ASSUME NEW d \in Seq(Nat), NEW n \in Nat
  PROVE  Prefix(d, n) \in Seq(Nat)
<1> DEFINE k == Least(n, Len(d))
<1>1. k \in 0..Len(d)
  BY DEF Least
<1>2. \A i \in 1..k : d[i] \in Nat
  BY <1>1
<1> QED
  BY <1>1, <1>2, SubSeqProperties DEF Prefix

LEMMA PrefixNone ==
  ASSUME NEW d \in Seq(Nat)
  PROVE  Prefix(d, 0) = <<>>
<1>1. Least(0, Len(d)) = 0
  BY DEF Least
<1> QED
  BY <1>1, SubSeqEmpty DEF Prefix

LEMMA PrefixAll ==
  ASSUME NEW d \in Seq(Nat), NEW n \in Nat, n >= Len(d)
  PROVE  Prefix(d, n) = d
<1>1. Least(n, Len(d)) = Len(d)
  BY DEF Least
<1> QED
  BY <1>1, SubSeqFull DEF Prefix

\* A prefix and the chunk that follows it are a longer prefix.
LEMMA PrefixExtends ==
  ASSUME NEW d \in Seq(Nat), NEW o \in Nat, NEW n \in o..Len(d)
  PROVE  /\ Prefix(d, o) \o SubSeq(d, o + 1, n) = Prefix(d, n)
         /\ Len(SubSeq(d, o + 1, n)) = n - o
<1>1. Least(o, Len(d)) = o /\ Least(n, Len(d)) = n
  BY DEF Least
<1>2. SubSeq(d, 1, o) \o SubSeq(d, o + 1, n) = SubSeq(d, 1, n)
  BY ConcatAdjacentSubSeq
<1>3. \A i \in o + 1..n : d[i] \in Nat
  OBVIOUS
<1>4. Len(SubSeq(d, o + 1, n)) = IF o + 1 <= n THEN n - (o + 1) + 1 ELSE 0
  BY <1>3, SubSeqProperties
<1> QED
  BY <1>1, <1>2, <1>4 DEF Prefix

LEMMA ChunkType ==
  ASSUME TypeOK, NEW p \in Proc
  PROVE  Chunk(p) \in Seq(Nat)
<1> DEFINE d == Source(p).data
           n == Least(Len(d), Least(run[p].offset + ChunkSize, run[p].size))
<1>1. d \in Seq(Nat) /\ run[p].offset \in Nat /\ run[p].size \in Nat
  BY DownloadAssumption DEF TypeOK, AllFiles, Run, Source
<1>2. n \in 0..Len(d)
  BY <1>1, DownloadAssumption DEF Least
<1>3. \A i \in run[p].offset + 1..n : d[i] \in Nat
  BY <1>1, <1>2
<1> QED
  BY <1>1, <1>2, <1>3, SubSeqProperties DEF Chunk
-----------------------------------------------------------------------------
(* Types *)

\* What belongs to a run is in the domains of the files.
LEMMA Domains ==
  ASSUME NEW p \in Proc
  PROVE  PathOf[p] \in Path /\ SourceOf[p] \in Runtime
BY DownloadAssumption

LEMMA FileTypes ==
  ASSUME TypeOK, NEW p \in Proc
  PROVE  /\ Source(p) \in AllFiles /\ Part(p) \in AllFiles /\ Target(p) \in AllFiles
         /\ run[p] \in Run /\ NoFile \in AllFiles /\ File(<<>>) \in AllFiles
BY Domains DEF TypeOK, Source, Part, Target, NoFile, File, AllFiles

LEMMA IdleType == Idle \in Run
BY DEF Idle, Run, PC, Verdict

LEMMA GotoType ==
  ASSUME TypeOK, NEW p \in Proc, NEW pc \in PC, Goto(p, pc)
  PROVE  run' \in [Proc -> Run]
<1>1. [run[p] EXCEPT !.pc = pc] \in Run
  BY FileTypes DEF Run
<1> QED
  BY <1>1 DEF Goto, TypeOK

LEMMA EndsType ==
  ASSUME TypeOK, NEW p \in Proc, NEW v \in Verdict, Ends(p, v)
  PROVE  run' \in [Proc -> Run]
<1>1. [Idle EXCEPT !.pc = "cleanup", !.verdict = v] \in Run
  BY IdleType DEF Run, PC
<1> QED
  BY <1>1 DEF Ends, TypeOK

LEMMA OpensType ==
  ASSUME TypeOK, NEW p \in Proc, NEW n \in Nat, Opens(p, n)
  PROVE  run' \in [Proc -> Run] /\ part' \in [Path -> AllFiles]
<1>1. [run[p] EXCEPT !.pc = "read", !.offset = n] \in Run
  BY FileTypes DEF Run, PC
<1> QED
  BY <1>1, FileTypes DEF Opens, TypeOK

LEMMA AppendedType ==
  ASSUME TypeOK, NEW p \in Proc, NEW d \in Seq(Nat)
  PROVE  Appended(p, d) \in [Path -> AllFiles]
<1>1. Part(p).data \o d \in Seq(Nat)
  BY FileTypes DEF AllFiles
<1>2. [Part(p) EXCEPT !.data = @ \o d] \in AllFiles
  BY <1>1, FileTypes DEF AllFiles
<1> QED
  BY <1>2 DEF Appended, TypeOK, Part

LEMMA LeftType ==
  ASSUME NEW p \in Proc, NEW files \in [Path -> AllFiles]
  PROVE  Left(p, files) \in [Path -> AllFiles]
<1>1. NoFile \in AllFiles
  BY DEF NoFile, AllFiles
<1> QED
  BY <1>1 DEF Left

LEMMA LeavesType ==
  ASSUME TypeOK, NEW p \in Proc, NEW files \in [Path -> AllFiles], Leaves(p, files)
  PROVE  /\ run' \in [Proc -> Run] /\ seen' \in [Proc -> SUBSET AllFiles]
         /\ holding' \subseteq Proc
         /\ part' \in [Path -> AllFiles] /\ target' \in [Path -> AllFiles]
BY IdleType, LeftType DEF Leaves, TypeOK

LEMMA ChangesType ==
  ASSUME TypeOK, NEW r \in Runtime, NEW file \in AllFiles, Changes(r, file)
  PROVE  remote' \in [Runtime -> AllFiles] /\ seen' \in [Proc -> SUBSET AllFiles]
BY DEF Changes, TypeOK
-----------------------------------------------------------------------------
(* TypeOK holds of every reachable state. *)

LEMMA InitTypeOK == Init => TypeOK
<1> SUFFICES ASSUME Init PROVE TypeOK
  OBVIOUS
<1>1. \A r \in Runtime : File(Given[r]) \in AllFiles
  BY DownloadAssumption DEF File, AllFiles
<1>2. NoFile \in AllFiles
  BY DEF NoFile, AllFiles
<1> QED
  BY <1>1, <1>2, IdleType DEF Init, TypeOK

LEMMA NextTypeOK == TypeOK /\ [Next]_vars => TypeOK'
<1> SUFFICES ASSUME TypeOK, [Next]_vars PROVE TypeOK'
  OBVIOUS
<1>1. CASE UNCHANGED vars
  BY <1>1 DEF TypeOK, vars
<1>2. ASSUME NEW p \in Proc, Begin(p) PROVE TypeOK'
  <2>1. PICK resume \in BOOLEAN :
          run' = [run EXCEPT ![p] = [Idle EXCEPT !.pc = "stat", !.resume = resume]]
    BY <1>2 DEF Begin
  <2>2. [Idle EXCEPT !.pc = "stat", !.resume = resume] \in Run
    BY IdleType DEF Run, PC
  <2>3. run' \in [Proc -> Run] /\ holding' \subseteq Proc
    BY <1>2, <2>1, <2>2 DEF TypeOK, Begin
  <2>4. seen' \in [Proc -> SUBSET AllFiles] /\ target' \in [Path -> AllFiles]
    BY <1>2, FileTypes DEF TypeOK, Begin
  <2> QED
    BY <1>2, <2>3, <2>4 DEF TypeOK, Begin
<1>3. ASSUME NEW p \in Proc, Refuse(p) PROVE TypeOK'
  <2>1. run' \in [Proc -> Run]
    BY <1>3, EndsType DEF Refuse, Verdict
  <2> QED
    BY <1>3, <2>1 DEF TypeOK, Refuse
<1>4. ASSUME NEW p \in Proc, StatDigest(p) PROVE TypeOK'
  <2>1. [run[p] EXCEPT !.pc = "size", !.digest = Source(p).data] \in Run
    BY FileTypes DEF Run, PC, AllFiles
  <2>2. run' \in [Proc -> Run]
    <3>1. CASE Goto(p, "edit") \/ Ends(p, "not found")
      BY <3>1, GotoType, EndsType DEF PC, Verdict
    <3>2. CASE ~(Goto(p, "edit") \/ Ends(p, "not found"))
      BY <1>4, <2>1, <3>2 DEF StatDigest, TypeOK
    <3> QED
      BY <3>1, <3>2
  <2>3. target' \in [Path -> AllFiles]
    BY <1>4, FileTypes DEF StatDigest, TypeOK
  <2> QED
    BY <1>4, <2>2, <2>3 DEF TypeOK, StatDigest
<1>5. ASSUME NEW p \in Proc, StatSize(p) PROVE TypeOK'
  <2> DEFINE size == Len(Source(p).data)
  <2>0. size \in Nat
    BY FileTypes DEF AllFiles
  <2>1. [run[p] EXCEPT !.pc = "prepare", !.size = size] \in Run
    <3> HIDE DEF size
    <3> QED
      BY <2>0, FileTypes DEF Run, PC
  <2>2. run' \in [Proc -> Run]
    BY <1>5, <2>1, EndsType DEF StatSize, TypeOK, Verdict
  <2> QED
    BY <1>5, <2>2 DEF TypeOK, StatSize
<1>6. ASSUME NEW p \in Proc, Prepare(p) PROVE TypeOK'
  <2>1. run' \in [Proc -> Run] /\ part' \in [Path -> AllFiles]
    BY <1>6, GotoType, OpensType DEF Prepare, TypeOK, PC
  <2> QED
    BY <1>6, <2>1 DEF TypeOK, Prepare
<1>7. ASSUME NEW p \in Proc, ComparePrefix(p) PROVE TypeOK'
  <2>1. Len(Part(p).data) \in Nat
    BY FileTypes DEF AllFiles
  <2>2. run' \in [Proc -> Run] /\ part' \in [Path -> AllFiles]
    BY <1>7, <2>1, OpensType DEF ComparePrefix
  <2> QED
    BY <1>7, <2>2 DEF TypeOK, ComparePrefix
<1>8. ASSUME NEW p \in Proc, Read(p) PROVE TypeOK'
  <2>1. CASE ReadEnds(p) /\ UNCHANGED part
    <3>1. run' \in [Proc -> Run]
      BY <2>1, EndsType DEF ReadEnds, Verdict
    <3> QED
      BY <1>8, <2>1, <3>1 DEF TypeOK, Read
  <2>2. CASE ~(ReadEnds(p) /\ UNCHANGED part)
    <3>1. Len(Chunk(p)) \in Nat
      BY ChunkType
    <3> DEFINE offset == run[p].offset + Len(Chunk(p))
    <3>4. offset \in Nat
      BY <3>1, FileTypes DEF Run
    <3>2. [run[p] EXCEPT !.offset = offset] \in Run
      <4> HIDE DEF offset
      <4> QED
        BY <3>4, FileTypes DEF Run
    <3>3. run' \in [Proc -> Run] /\ part' \in [Path -> AllFiles]
      BY <1>8, <2>2, <3>2, ChunkType, AppendedType DEF Read, TypeOK
    <3> QED
      BY <1>8, <3>3 DEF TypeOK, Read
  <2> QED
    BY <2>1, <2>2
<1>9. ASSUME NEW p \in Proc, Verify(p) PROVE TypeOK'
  <2>1. run' \in [Proc -> Run]
    BY <1>9, GotoType, EndsType DEF Verify, PC, Verdict
  <2> QED
    BY <1>9, <2>1 DEF TypeOK, Verify
<1>10. ASSUME NEW p \in Proc, Replace(p) PROVE TypeOK'
  <2>1. run' \in [Proc -> Run]
    BY <1>10, GotoType DEF Replace, PC
  <2>2. part' \in [Path -> AllFiles] /\ target' \in [Path -> AllFiles]
    BY <1>10, FileTypes DEF TypeOK, Replace, Unlinked
  <2> QED
    BY <1>10, <2>1, <2>2 DEF TypeOK, Replace
<1>11. ASSUME NEW p \in Proc, Finish(p) PROVE TypeOK'
  <2>1. run' \in [Proc -> Run]
    BY <1>11, EndsType DEF Finish, Verdict
  <2> QED
    BY <1>11, <2>1 DEF TypeOK, Finish
<1>12. ASSUME NEW p \in Proc, Cleanup(p) PROVE TypeOK'
  <2>1. part' \in [Path -> AllFiles] /\ target' \in [Path -> AllFiles]
    BY <1>12, LeftType DEF TypeOK, Cleanup
  <2> QED
    BY <1>12, <2>1, IdleType DEF TypeOK, Cleanup
<1>13. ASSUME NEW p \in Proc, WriteBreaks(p) PROVE TypeOK'
  <2>1. PICK n \in 0..Len(Chunk(p)) :
          LET broken == Appended(p, Prefix(Chunk(p), n)) IN
            \/ part' = broken /\ Ends(p, "failed") /\ UNCHANGED <<target, holding, seen>>
            \/ Leaves(p, broken)
    BY <1>13 DEF WriteBreaks
  <2> DEFINE broken == Appended(p, Prefix(Chunk(p), n))
  <2>2. broken \in [Path -> AllFiles]
    BY ChunkType, PrefixType, AppendedType
  <2>3. trouble' \in Nat /\ remote' = remote
    BY <1>13 DEF WriteBreaks, Trouble, TypeOK
  <2>4. CASE part' = broken /\ Ends(p, "failed") /\ UNCHANGED <<target, holding, seen>>
    <3>1. run' \in [Proc -> Run]
      BY <2>4, EndsType DEF Verdict
    <3> QED
      BY <2>2, <2>3, <2>4, <3>1 DEF TypeOK
  <2>5. CASE Leaves(p, broken)
    BY <2>2, <2>3, <2>5, LeavesType DEF TypeOK
  <2> QED
    BY <2>1, <2>4, <2>5
<1>14. ASSUME NEW p \in Proc, Fails(p) PROVE TypeOK'
  <2>1. run' \in [Proc -> Run]
    BY <1>14, EndsType DEF Fails, Verdict
  <2> QED
    BY <1>14, <2>1 DEF TypeOK, Fails, Trouble
<1>15. ASSUME NEW p \in Proc, Killed(p) PROVE TypeOK'
  <2>1. Leaves(p, part) /\ part \in [Path -> AllFiles]
    BY <1>15 DEF Killed, TypeOK
  <2>2. trouble' \in Nat /\ remote' = remote
    BY <1>15 DEF Killed, Trouble, TypeOK
  <2> QED
    BY <2>1, <2>2, LeavesType DEF TypeOK
<1>16. ASSUME NEW p \in Editor, Edit(p) PROVE TypeOK'
  <2>1. p \in Proc
    BY DEF Proc
  <2>2. run' \in [Proc -> Run]
    BY <1>16, <2>1, GotoType, EndsType DEF Edit, PC, Verdict
  <2>3. \A c \in Content : File(c) \in AllFiles
    BY DownloadAssumption DEF File, AllFiles
  <2>4. target' \in [Path -> AllFiles] /\ trouble' \in Nat
    BY <1>16, <2>3 DEF Edit, Trouble, TypeOK
  <2> QED
    BY <1>16, <2>2, <2>4 DEF TypeOK, Edit
<1>17. ASSUME NEW p \in Editor, EditUploads(p) PROVE TypeOK'
  <2>1. p \in Proc
    BY DEF Proc
  <2>2. run' \in [Proc -> Run]
    BY <1>17, <2>1, EndsType DEF EditUploads, Verdict
  <2>3. remote' \in [Runtime -> AllFiles] /\ seen' \in [Proc -> SUBSET AllFiles]
    BY <1>17, <2>1, FileTypes, Domains, ChangesType DEF EditUploads
  <2> QED
    BY <1>17, <2>2, <2>3 DEF TypeOK, EditUploads, Trouble
<1>18. ASSUME RemoteChanges PROVE TypeOK'
  <2>1. PICK r \in Runtime, file \in {NoFile} \cup {File(c) : c \in Content} :
          Changes(r, file)
    BY <1>18 DEF RemoteChanges
  <2>4. NoFile \in AllFiles /\ \A c \in Content : File(c) \in AllFiles
    BY DownloadAssumption DEF File, NoFile, AllFiles
  <2>2. file \in AllFiles
    BY <2>4
  <2>3. remote' \in [Runtime -> AllFiles] /\ seen' \in [Proc -> SUBSET AllFiles]
    BY <2>1, <2>2, ChangesType
  <2> QED
    BY <1>18, <2>3 DEF TypeOK, RemoteChanges, Trouble
<1> QED
  BY <1>1, <1>2, <1>3, <1>4, <1>5, <1>6, <1>7, <1>8, <1>9, <1>10, <1>11, <1>12, <1>13,
     <1>14, <1>15, <1>16, <1>17, <1>18 DEF Next, Work

\* Every state of the downloads and edits is well typed, for any runs, paths, VMs,
\* contents and bounds.
THEOREM TypeCorrect == Spec => []TypeOK
<1>1. TypeOK /\ [Next]_vars => TypeOK'
  BY NextTypeOK
<1> QED
  BY <1>1, InitTypeOK, PTL DEF Spec
-----------------------------------------------------------------------------
(* The inductive invariant, stated of one run at a time *)

\* What DownloadInv says of a run that holds its lease, given the state of the
\* run, what it has seen, and the remote file, the part and the target.
SafeAt(r, S, src, pt, tg) ==
  LET steady == \A file \in S : file = src IN
  /\ src \in S
  /\ r.pc \in {"size", "prepare", "prefix", "read", "replace"} => File(r.digest) \in S
  /\ r.pc \in {"prepare", "prefix", "read"} /\ steady => r.size = Len(r.digest)
  /\ r.pc \in {"prefix", "read", "replace"} => pt.exists
  /\ r.pc = "prefix" => Len(pt.data) <= r.size
  /\ r.pc = "read" /\ steady =>
       r.offset <= r.size /\ pt.data = Prefix(r.digest, r.offset)
  /\ r.pc = "replace" => pt.data = r.digest
  /\ r.pc = "done" => tg \in S
  /\ r.pc = "edit" => tg \in S \/ (tg = File(<<>>) /\ NoFile \in S)
  /\ r.verdict = "integrity" => ~steady
  /\ r.verdict = "not found" => NoFile \in S

Safe(p) == p \in holding => SafeAt(run[p], seen[p], Source(p), Part(p), Target(p))

IInv == TypeOK /\ OneWriter /\ Shape /\ \A p \in Proc : Safe(p)

LEMMA IInvImplies == IInv => DownloadInv
<1> SUFFICES ASSUME IInv PROVE DownloadInv
  OBVIOUS
<1>1. \A p \in Proc : p \in holding =>
        SafeAt(run[p], seen[p], Source(p), Part(p), Target(p))
  BY DEF IInv, Safe
<1>2. \A p \in Proc : p \in holding \/ run[p].pc \in {"idle", "cleanup"}
  BY DEF IInv, OneWriter, Shape, At
<1>3. \A p \in Proc : p \in holding \/ At(p, "idle") \/ run[p].verdict = "busy"
  BY DEF IInv, OneWriter
<1>4. SourceIsSeen
  BY <1>1 DEF SourceIsSeen, SafeAt, IInv, TypeOK
<1>5. DigestIsSeen
  BY <1>1, <1>2 DEF DigestIsSeen, SafeAt
<1>6. PartFollows
  BY <1>1, <1>2 DEF PartFollows, SafeAt, At, Steady
<1>7. DoneIsDelivered
  BY <1>1, <1>2 DEF DoneIsDelivered, SafeAt, At
<1>8. ErrorsAreTrue
  BY <1>1, <1>3 DEF ErrorsAreTrue, SafeAt, Steady
<1> QED
  BY <1>4, <1>5, <1>6, <1>7, <1>8 DEF IInv, DownloadInv

LEMMA InitIInv == Init => IInv
<1> SUFFICES ASSUME Init PROVE IInv
  OBVIOUS
<1>1. Shape
  BY DEF Init, Shape, File, NoFile, Idle
<1>2. OneWriter
  BY DEF Init, OneWriter, Idle, At
<1>3. \A p \in Proc : Safe(p)
  BY DEF Init, Safe
<1> QED
  BY <1>1, <1>2, <1>3, InitTypeOK DEF IInv
-----------------------------------------------------------------------------
(* Runs do not disturb each other. *)

\* The local files of a run that holds its lease are not those of another one.
LEMMA OtherPath ==
  ASSUME OneWriter, NEW p \in Proc, NEW q \in Proc, p # q,
         p \in holding, q \in holding \/ q \in Editor
  PROVE  PathOf[p] # PathOf[q]
<1>1. CASE p \in Editor \/ q \in Editor
  BY <1>1, DownloadAssumption
<1>2. CASE p \in Downloader /\ q \in Downloader /\ q \notin Editor
  BY <1>2 DEF OneWriter, Lease
<1> QED
  BY <1>1, <1>2 DEF Proc

LEMMA Active ==
  ASSUME IInv, NEW p \in Proc, ~At(p, "idle"), ~At(p, "cleanup")
  PROVE  p \in holding /\ run[p].verdict = "none"
BY DEF IInv, OneWriter, Shape

\* A step of run q alone.
Alone(q) ==
  /\ \A p \in Proc \ {q} : run'[p] = run[p]
  /\ \/ holding' \in {holding, holding \ {q}}
     \/ holding' = holding \cup {q} /\ Free(q)
  /\ q \in holding' <=> run'[q].pc # "idle" /\ run'[q].verdict # "busy"

LEMMA OneWriterStep ==
  ASSUME IInv, NEW q \in Proc, Alone(q)
  PROVE  OneWriter'
<1>1. \A p \in Proc \ {q} : p \in holding' <=> p \in holding
  BY DEF Alone
<1>2. \A p \in Proc : p \in holding' <=> run'[p].pc # "idle" /\ run'[p].verdict # "busy"
  BY <1>1 DEF Alone, IInv, OneWriter, At
<1>3. holding' \subseteq Proc
  BY DEF Alone, IInv, TypeOK
<1>4. \A p, r \in holding' : Lease(p) = Lease(r) => p = r
  BY DEF Alone, IInv, OneWriter, Free
<1> QED
  BY <1>2, <1>4 DEF OneWriter, At, Lease

LEMMA Step ==
  ASSUME IInv, TypeOK', NEW q \in Proc, Alone(q),
         remote' = remote,
         \A p \in Proc \ {q} : seen'[p] = seen[p],
         \A f \in Path \ {PathOf[q]} : part'[f] = part[f] /\ target'[f] = target[f],
         q \in holding \/ q \in Editor \/ UNCHANGED <<part, target>>,
         run'[q].verdict # "none" => run'[q].pc = "cleanup",
         target'[PathOf[q]].exists \/ target'[PathOf[q]] = NoFile,
         Safe(q)'
  PROVE  IInv'
<1>1. OneWriter'
  BY OneWriterStep
<1>2. Shape'
  BY DEF IInv, Shape, At, Alone
<1>3. ASSUME NEW p \in Proc, p # q PROVE Safe(p)'
  <2> SUFFICES ASSUME p \in holding' PROVE Safe(p)'
    BY DEF Safe
  <2>1. p \in holding
    BY <1>3 DEF Alone
  <2>2. Source(p)' = Source(p) /\ run'[p] = run[p] /\ seen'[p] = seen[p]
    BY <1>3 DEF Source, Alone
  <2>3. Part(p)' = Part(p) /\ Target(p)' = Target(p)
    <3>1. CASE q \in holding \/ q \in Editor
      BY <1>3, <2>1, <3>1, OtherPath, Domains DEF IInv, Part, Target
    <3>2. CASE UNCHANGED <<part, target>>
      BY <3>2 DEF Part, Target
    <3> QED
      BY <3>1, <3>2
  <2>4. SafeAt(run[p], seen[p], Source(p), Part(p), Target(p))
    BY <2>1 DEF IInv, Safe
  <2> QED
    BY <2>2, <2>3, <2>4 DEF Safe
<1> QED
  BY <1>1, <1>2, <1>3 DEF IInv

\* A run ends with a verdict that is true of it.
LEMMA EndsStep ==
  ASSUME IInv, TypeOK', NEW q \in Proc, ~At(q, "idle"), ~At(q, "cleanup"),
         NEW v \in Verdict \ {"none", "busy"}, Ends(q, v),
         UNCHANGED <<remote, target, holding, seen>>,
         \A f \in Path \ {PathOf[q]} : part'[f] = part[f],
         v = "integrity" => ~Steady(q),
         v = "not found" => NoFile \in seen[q]
  PROVE  IInv'
<1>1. q \in holding
  BY Active
<1>2. /\ run'[q].pc = "cleanup" /\ run'[q].verdict = v
      /\ \A p \in Proc \ {q} : run'[p] = run[p]
  BY DEF Ends, Idle, IInv, TypeOK
<1>3. Alone(q)
  BY <1>1, <1>2 DEF Alone
<1>4. Source(q)' = Source(q) /\ Source(q) \in seen[q]
  BY <1>1 DEF Source, IInv, Safe, SafeAt
<1>5. SafeAt(run'[q], seen'[q], Source(q)', Part(q)', Target(q)')
  BY <1>2, <1>4 DEF SafeAt, Steady
<1>6. Safe(q)'
  BY <1>5 DEF Safe
<1>7. target'[PathOf[q]].exists \/ target'[PathOf[q]] = NoFile
  BY Domains DEF IInv, Shape
<1> QED
  BY <1>1, <1>2, <1>3, <1>6, <1>7, Step

LEMMA LeavesStep ==
  ASSUME IInv, TypeOK', NEW q \in Proc, NEW parts \in [Path -> AllFiles],
         Leaves(q, parts), remote' = remote,
         \A f \in Path \ {PathOf[q]} : parts[f] = part[f],
         q \in holding \/ parts = part
  PROVE  IInv'
<1>1. /\ run'[q].pc = "idle" /\ run'[q].verdict = "none"
      /\ \A p \in Proc \ {q} : run'[p] = run[p] /\ seen'[p] = seen[p]
  BY DEF Leaves, Idle, IInv, TypeOK
<1>2. Alone(q)
  BY <1>1 DEF Alone, Leaves
<1>3. \A f \in Path \ {PathOf[q]} : part'[f] = part[f] /\ target'[f] = target[f]
  BY DEF Leaves, Left, IInv, TypeOK
<1>4. target'[PathOf[q]].exists \/ target'[PathOf[q]] = NoFile
  BY Domains DEF Leaves, Left, IInv, Shape, TypeOK
<1>5. q \in holding \/ q \in Editor \/ UNCHANGED <<part, target>>
  BY DEF Leaves, Left
<1>6. Safe(q)'
  BY DEF Safe, Leaves
<1> QED
  BY <1>1, <1>2, <1>3, <1>4, <1>5, <1>6, Step

\* A step of a run at work that leaves the remote file and the leases alone.
LEMMA WorkStep ==
  ASSUME IInv, TypeOK', NEW q \in Proc, ~At(q, "idle"), ~At(q, "cleanup"),
         NEW r, run' = [run EXCEPT ![q] = r],
         r.pc \notin {"idle", "cleanup"}, r.verdict = run[q].verdict,
         UNCHANGED <<remote, holding, seen>>,
         \A f \in Path \ {PathOf[q]} : part'[f] = part[f] /\ target'[f] = target[f],
         target'[PathOf[q]].exists \/ target'[PathOf[q]] = NoFile,
         SafeAt(r, seen[q], Source(q), Part(q)', Target(q)')
  PROVE  IInv'
<1>1. q \in holding /\ run[q].verdict = "none"
  BY Active
<1>2. run'[q] = r /\ \A p \in Proc \ {q} : run'[p] = run[p]
  BY DEF IInv, TypeOK
<1>3. Alone(q)
  BY <1>1, <1>2 DEF Alone
<1>4. Safe(q)'
  BY <1>2 DEF Safe, Source
<1> QED
  BY <1>1, <1>2, <1>3, <1>4, Step
-----------------------------------------------------------------------------
(* The actions *)

\* What the invariant says of a run at work.
LEMMA AtWork ==
  ASSUME IInv, NEW q \in Proc, ~At(q, "idle"), ~At(q, "cleanup")
  PROVE  /\ q \in holding /\ run[q].verdict = "none"
         /\ SafeAt(run[q], seen[q], Source(q), Part(q), Target(q))
         /\ Source(q) \in seen[q]
         /\ Source(q).exists \/ Source(q) = NoFile
         /\ target[PathOf[q]].exists \/ target[PathOf[q]] = NoFile
         /\ run[q] \in Run /\ Part(q) \in AllFiles /\ Source(q) \in AllFiles
<1>1. q \in holding /\ run[q].verdict = "none"
  BY Active
<1>2. SafeAt(run[q], seen[q], Source(q), Part(q), Target(q))
  BY <1>1 DEF IInv, Safe
<1>3. Source(q) \in seen[q]
  BY <1>2 DEF SafeAt
<1> QED
  BY <1>1, <1>2, <1>3, Domains, FileTypes DEF IInv, Shape, Source

LEMMA BeginInv ==
  ASSUME IInv, TypeOK', NEW q \in Proc, Begin(q)
  PROVE  IInv'
<1>1. PICK resume \in BOOLEAN :
        run' = [run EXCEPT ![q] = [Idle EXCEPT !.pc = "stat", !.resume = resume]]
  BY DEF Begin
<1>2. /\ run'[q].pc = "stat" /\ run'[q].verdict = "none"
      /\ \A p \in Proc \ {q} : run'[p] = run[p]
  BY <1>1 DEF Idle, IInv, TypeOK
<1>3. Alone(q)
  BY <1>2 DEF Alone, Begin
<1>4. /\ \A p \in Proc \ {q} : seen'[p] = seen[p]
      /\ seen'[q] = {Source(q)}
  BY DEF Begin, IInv, TypeOK
<1>5. /\ \A f \in Path \ {PathOf[q]} : part'[f] = part[f] /\ target'[f] = target[f]
      /\ q \in Editor \/ UNCHANGED <<part, target>>
  BY DEF Begin, IInv, TypeOK
<1>6. target'[PathOf[q]].exists \/ target'[PathOf[q]] = NoFile
  BY Domains DEF Begin, File, IInv, Shape, TypeOK
<1>7. Source(q)' = Source(q)
  BY DEF Source, Begin
<1>8. SafeAt(run'[q], seen'[q], Source(q)', Part(q)', Target(q)')
  BY <1>2, <1>4, <1>7 DEF SafeAt
<1>9. Safe(q)'
  BY <1>8 DEF Safe
<1>10. remote' = remote
  BY DEF Begin
<1> QED
  BY <1>2, <1>3, <1>4, <1>5, <1>6, <1>9, <1>10, Step

LEMMA RefuseInv ==
  ASSUME IInv, TypeOK', NEW q \in Proc, Refuse(q)
  PROVE  IInv'
<1>1. /\ run'[q].pc = "cleanup" /\ run'[q].verdict = "busy"
      /\ \A p \in Proc \ {q} : run'[p] = run[p]
  BY DEF Refuse, Ends, Idle, IInv, TypeOK
<1>2. q \notin holding
  BY DEF Refuse, IInv, OneWriter
<1>3. Alone(q)
  BY <1>1, <1>2 DEF Alone, Refuse
<1>4. Safe(q)'
  BY <1>2 DEF Safe, Refuse
<1>5. target'[PathOf[q]].exists \/ target'[PathOf[q]] = NoFile
  BY Domains DEF Refuse, IInv, Shape
<1> QED
  BY <1>1, <1>3, <1>4, <1>5, Step DEF Refuse

LEMMA StatDigestInv ==
  ASSUME IInv, TypeOK', NEW q \in Proc, StatDigest(q)
  PROVE  IInv'
<1>1. ~At(q, "idle") /\ ~At(q, "cleanup")
  BY DEF StatDigest, At
<1>2. UNCHANGED <<remote, part, holding, seen>>
  BY DEF StatDigest
<1>3. CASE Source(q).exists
  <2> DEFINE r == [run[q] EXCEPT !.pc = "size", !.digest = Source(q).data]
  <2>1. run' = [run EXCEPT ![q] = r] /\ UNCHANGED target
    BY <1>3 DEF StatDigest
  <2>2. /\ r.pc = "size" /\ r.digest = Source(q).data /\ r.verdict = run[q].verdict
    BY <1>1, AtWork DEF Run
  <2>3. File(Source(q).data) = Source(q)
    BY <1>1, <1>3, AtWork DEF AllFiles, File
  <2>4. SafeAt(r, seen[q], Source(q), Part(q)', Target(q)')
    <3> HIDE DEF r
    <3> QED
      BY <1>1, <2>2, <2>3, AtWork DEF SafeAt
  <2>5. target'[PathOf[q]].exists \/ target'[PathOf[q]] = NoFile
    BY <1>1, <2>1, AtWork
  <2> QED
    <3> HIDE DEF r
    <3> QED
      BY <1>1, <1>2, <2>1, <2>2, <2>4, <2>5, WorkStep
<1>4. CASE ~Source(q).exists /\ q \in Downloader
  <2>1. Ends(q, "not found") /\ UNCHANGED target
    BY <1>4, DownloadAssumption DEF StatDigest
  <2>2. NoFile \in seen[q]
    BY <1>1, <1>4, AtWork
  <2> QED
    BY <1>1, <1>2, <2>1, <2>2, EndsStep DEF Verdict
<1>5. CASE ~Source(q).exists /\ q \in Editor
  <2> DEFINE r == [run[q] EXCEPT !.pc = "edit"]
  <2>1. /\ run' = [run EXCEPT ![q] = r]
        /\ target' = [target EXCEPT ![PathOf[q]] = File(<<>>)]
    BY <1>5, DownloadAssumption DEF StatDigest, Goto
  <2>2. r.pc = "edit" /\ r.verdict = run[q].verdict
    BY <1>1, AtWork DEF Run
  <2>3. NoFile \in seen[q]
    BY <1>1, <1>5, AtWork
  <2>4. /\ Target(q)' = File(<<>>)
        /\ \A f \in Path \ {PathOf[q]} : target'[f] = target[f]
    BY <2>1, Domains DEF Target, IInv, TypeOK
  <2>5. SafeAt(r, seen[q], Source(q), Part(q)', Target(q)')
    <3> HIDE DEF r
    <3> QED
      BY <1>1, <2>2, <2>3, <2>4, AtWork DEF SafeAt
  <2>6. target'[PathOf[q]].exists \/ target'[PathOf[q]] = NoFile
    BY <2>4 DEF Target, File
  <2> QED
    <3> HIDE DEF r
    <3> QED
      BY <1>1, <1>2, <2>1, <2>2, <2>4, <2>5, <2>6, WorkStep
<1> QED
  BY <1>3, <1>4, <1>5 DEF Proc

LEMMA StatSizeInv ==
  ASSUME IInv, TypeOK', NEW q \in Proc, StatSize(q)
  PROVE  IInv'
<1>1. ~At(q, "idle") /\ ~At(q, "cleanup")
  BY DEF StatSize, At
<1>2. UNCHANGED <<remote, part, target, holding, seen>>
  BY DEF StatSize
<1>3. CASE Source(q).exists
  <2> DEFINE r == [run[q] EXCEPT !.pc = "prepare", !.size = Len(Source(q).data)]
  <2>1. run' = [run EXCEPT ![q] = r]
    BY <1>3 DEF StatSize
  <2>2. /\ r.pc = "prepare" /\ r.digest = run[q].digest /\ r.size = Len(Source(q).data)
        /\ r.verdict = run[q].verdict
    BY <1>1, AtWork DEF Run
  <2>3. File(run[q].digest) \in seen[q]
    BY <1>1, AtWork DEF SafeAt, StatSize, At
  <2>4. File(run[q].digest) = Source(q) => Source(q).data = run[q].digest
    BY DEF File
  <2>5. SafeAt(r, seen[q], Source(q), Part(q)', Target(q)')
    <3> HIDE DEF r
    <3> QED
      BY <1>1, <2>2, <2>3, <2>4, AtWork DEF SafeAt
  <2>6. target'[PathOf[q]].exists \/ target'[PathOf[q]] = NoFile
    BY <1>1, <1>2, AtWork
  <2> QED
    <3> HIDE DEF r
    <3> QED
      BY <1>1, <1>2, <2>1, <2>2, <2>5, <2>6, WorkStep
<1>4. CASE ~Source(q).exists
  <2>1. Ends(q, "not found")
    BY <1>4 DEF StatSize
  <2>2. NoFile \in seen[q]
    BY <1>1, <1>4, AtWork
  <2> QED
    BY <1>1, <1>2, <2>1, <2>2, EndsStep DEF Verdict
<1> QED
  BY <1>3, <1>4

\* The part is opened empty, or with what the digest starts with.
LEMMA OpensInv ==
  ASSUME IInv, TypeOK', NEW q \in Proc, ~At(q, "idle"), ~At(q, "cleanup"),
         run[q].pc \in {"prepare", "prefix"},
         NEW n \in Nat, Opens(q, n),
         UNCHANGED <<remote, target, holding, seen>>,
         n # 0 => /\ Part(q).exists /\ n = Len(Part(q).data) /\ n <= run[q].size
                  /\ Steady(q) => Part(q).data = Prefix(run[q].digest, n)
  PROVE  IInv'
<1> DEFINE r == [run[q] EXCEPT !.pc = "read", !.offset = n]
<1>1. run' = [run EXCEPT ![q] = r]
  BY DEF Opens
<1>2. /\ r.pc = "read" /\ r.digest = run[q].digest /\ r.size = run[q].size
      /\ r.offset = n /\ r.verdict = run[q].verdict
  BY AtWork DEF Run
<1>3. run[q].digest \in Seq(Nat) /\ run[q].size \in Nat
  BY AtWork DEF Run
<1>4. Part(q)'.exists /\ n <= run[q].size
      /\ (Steady(q) => Part(q)'.data = Prefix(run[q].digest, n))
  <2>1. CASE n = 0
    <3>1. Part(q)' = File(<<>>)
      BY <2>1, Domains DEF Opens, Part, IInv, TypeOK
    <3> QED
      BY <1>3, <2>1, <3>1, PrefixNone DEF File
  <2>2. CASE n # 0
    BY <2>2 DEF Opens, Part
  <2> QED
    BY <2>1, <2>2
<1>5. \A f \in Path \ {PathOf[q]} : part'[f] = part[f] /\ target'[f] = target[f]
  BY DEF Opens, IInv, TypeOK
<1>6. SafeAt(r, seen[q], Source(q), Part(q)', Target(q)')
  <2> HIDE DEF r
  <2> QED
    BY <1>2, <1>4, AtWork DEF SafeAt, Steady
<1>7. target'[PathOf[q]].exists \/ target'[PathOf[q]] = NoFile
  BY AtWork
<1> QED
  <2> HIDE DEF r
  <2> QED
    BY <1>1, <1>2, <1>5, <1>6, <1>7, WorkStep

LEMMA PrepareInv ==
  ASSUME IInv, TypeOK', NEW q \in Proc, Prepare(q)
  PROVE  IInv'
<1>1. ~At(q, "idle") /\ ~At(q, "cleanup")
  BY DEF Prepare, At
<1>2. UNCHANGED <<remote, target, holding, seen>>
  BY DEF Prepare
<1>3. CASE Part(q).exists /\ run[q].resume /\ Len(Part(q).data) <= run[q].size
  <2> DEFINE r == [run[q] EXCEPT !.pc = "prefix"]
  <2>1. run' = [run EXCEPT ![q] = r] /\ UNCHANGED part
    BY <1>3 DEF Prepare, Goto
  <2>2. /\ r.pc = "prefix" /\ r.digest = run[q].digest /\ r.size = run[q].size
        /\ r.verdict = run[q].verdict
    BY <1>1, AtWork DEF Run
  <2>3. Part(q)' = Part(q)
    BY <2>1 DEF Part
  <2>4. SafeAt(r, seen[q], Source(q), Part(q)', Target(q)')
    <3> HIDE DEF r
    <3> QED
      BY <1>1, <1>3, <2>2, <2>3, AtWork DEF SafeAt, Prepare, At
  <2>5. target'[PathOf[q]].exists \/ target'[PathOf[q]] = NoFile
    BY <1>1, <1>2, AtWork
  <2> QED
    <3> HIDE DEF r
    <3> QED
      BY <1>1, <1>2, <2>1, <2>2, <2>4, <2>5, WorkStep
<1>4. CASE ~(Part(q).exists /\ run[q].resume /\ Len(Part(q).data) <= run[q].size)
  <2>1. Opens(q, 0) /\ run[q].pc \in {"prepare", "prefix"}
    BY <1>4 DEF Prepare, At
  <2> QED
    BY <1>1, <1>2, <2>1, OpensInv
<1> QED
  BY <1>3, <1>4

\* As long as the remote file does not change it is what the digest was taken of.
LEMMA SteadyDigest ==
  ASSUME IInv, NEW q \in Proc, Steady(q),
         run[q].pc \in {"size", "prepare", "prefix", "read", "replace"}
  PROVE  Source(q).exists /\ Source(q).data = run[q].digest
<1>1. ~At(q, "idle") /\ ~At(q, "cleanup")
  BY DEF At
<1>2. File(run[q].digest) \in seen[q]
  BY <1>1, AtWork DEF SafeAt
<1>3. File(run[q].digest) = Source(q)
  BY <1>2 DEF Steady
<1> QED
  BY <1>3 DEF File

LEMMA ComparePrefixInv ==
  ASSUME IInv, TypeOK', NEW q \in Proc, ComparePrefix(q)
  PROVE  IInv'
<1>1. ~At(q, "idle") /\ ~At(q, "cleanup") /\ run[q].pc = "prefix"
  BY DEF ComparePrefix, At
<1>2. UNCHANGED <<remote, target, holding, seen>>
  BY DEF ComparePrefix
<1> DEFINE n == IF Usable(q) THEN Len(Part(q).data) ELSE 0
<1>3. n \in Nat
  BY <1>1, AtWork DEF AllFiles
<1>4. Part(q).exists /\ Len(Part(q).data) <= run[q].size
  BY <1>1, AtWork DEF SafeAt
<1>5. Steady(q) /\ Usable(q) => Part(q).data = Prefix(run[q].digest, Len(Part(q).data))
  BY <1>1, SteadyDigest DEF Usable
<1>6. Opens(q, n)
  BY DEF ComparePrefix
<1>7. n # 0 => n = Len(Part(q).data) /\ Usable(q)
  OBVIOUS
<1> QED
  <2> HIDE DEF n
  <2> QED
    BY <1>1, <1>2, <1>3, <1>4, <1>5, <1>6, <1>7, OpensInv

\* As long as the remote file does not change, a chunk is not empty, ends within
\* the file and continues the part.
LEMMA SteadyChunk ==
  ASSUME IInv, NEW q \in Proc, At(q, "read"), Steady(q), run[q].offset < run[q].size
  PROVE  /\ Chunk(q) # <<>> /\ run[q].offset + Len(Chunk(q)) <= run[q].size
         /\ Part(q).data \o Chunk(q) = Prefix(run[q].digest, run[q].offset + Len(Chunk(q)))
<1> DEFINE d == run[q].digest
           o == run[q].offset
           n == Least(o + ChunkSize, run[q].size)
<1>1. ~At(q, "idle") /\ ~At(q, "cleanup") /\ run[q].pc = "read"
  BY DEF At
<1>2. d \in Seq(Nat) /\ o \in Nat /\ run[q].size \in Nat /\ Source(q).data \in Seq(Nat)
  BY <1>1, AtWork DEF Run, AllFiles
<1>3. Source(q).data = d
  BY <1>1, SteadyDigest
<1>4. run[q].size = Len(d) /\ Part(q).data = Prefix(d, o)
  BY <1>1, AtWork DEF SafeAt, Steady
<1>5. n \in o + 1..Len(d)
  BY <1>2, <1>4, DownloadAssumption DEF Least
<1>6. Least(Len(d), n) = n
  BY <1>2, <1>5 DEF Least
<1>7. Chunk(q) = SubSeq(d, o + 1, n)
  BY <1>3, <1>6 DEF Chunk
<1>8. Prefix(d, o) \o SubSeq(d, o + 1, n) = Prefix(d, n) /\ Len(SubSeq(d, o + 1, n)) = n - o
  <2> HIDE DEF d, o, n
  <2>1. n \in o..Len(d)
    BY <1>2, <1>5
  <2> QED
    BY <1>2, <2>1, PrefixExtends
<1>9. n <= run[q].size
  BY <1>2, <1>4, <1>5
<1>10. Len(Chunk(q)) = n - o
  BY <1>7, <1>8
<1>11. o + Len(Chunk(q)) = n /\ Len(Chunk(q)) # 0
  <2> HIDE DEF n
  <2> QED
    BY <1>2, <1>5, <1>10
<1>12. Chunk(q) # <<>>
  BY <1>11
<1>13. Part(q).data \o Chunk(q) = Prefix(d, n)
  BY <1>4, <1>7, <1>8
<1> QED
  <2> HIDE DEF n
  <2> QED
    BY <1>9, <1>11, <1>12, <1>13

LEMMA ReadInv ==
  ASSUME IInv, TypeOK', NEW q \in Proc, Read(q)
  PROVE  IInv'
<1>1. ~At(q, "idle") /\ ~At(q, "cleanup") /\ run[q].pc = "read"
  BY DEF Read, At
<1>2. UNCHANGED <<remote, target, holding, seen>>
  BY DEF Read
<1>3. CASE ReadEnds(q) /\ UNCHANGED part
  <2>1. CASE ~Source(q).exists /\ Ends(q, "not found")
    <3>1. NoFile \in seen[q]
      BY <1>1, <2>1, AtWork
    <3> QED
      BY <1>1, <1>2, <1>3, <2>1, <3>1, EndsStep DEF Verdict
  <2>2. CASE Chunk(q) = <<>> /\ Ends(q, "integrity")
    <3>1. ~Steady(q)
      BY <2>2, SteadyChunk DEF Read
    <3> QED
      BY <1>1, <1>2, <1>3, <2>2, <3>1, EndsStep DEF Verdict
  <2> QED
    BY <1>3, <2>1, <2>2 DEF ReadEnds
<1>4. CASE ~(ReadEnds(q) /\ UNCHANGED part)
  <2> DEFINE n == run[q].offset + Len(Chunk(q))
             r == [run[q] EXCEPT !.offset = n]
  <2>1. part' = Appended(q, Chunk(q)) /\ run' = [run EXCEPT ![q] = r]
    BY <1>4 DEF Read
  <2>2. /\ r.pc = "read" /\ r.digest = run[q].digest /\ r.size = run[q].size
        /\ r.offset = n /\ r.verdict = run[q].verdict
    BY <1>1, AtWork DEF Run
  <2>3. Part(q)' = [Part(q) EXCEPT !.data = @ \o Chunk(q)]
    BY <2>1, Domains DEF Part, Appended, IInv, TypeOK
  <2>4. Part(q)'.exists = Part(q).exists /\ Part(q)'.data = Part(q).data \o Chunk(q)
    BY <1>1, <2>3, AtWork DEF AllFiles
  <2>5. Steady(q) => n <= run[q].size /\ Part(q)'.data = Prefix(run[q].digest, n)
    BY <2>4, SteadyChunk DEF Read
  <2>6. \A f \in Path \ {PathOf[q]} : part'[f] = part[f] /\ target'[f] = target[f]
    BY <1>2, <2>1 DEF Appended, IInv, TypeOK
  <2>7. SafeAt(r, seen[q], Source(q), Part(q)', Target(q)')
    <3> HIDE DEF r, n
    <3> QED
      BY <1>1, <2>2, <2>4, <2>5, AtWork DEF SafeAt, Steady
  <2>8. target'[PathOf[q]].exists \/ target'[PathOf[q]] = NoFile
    BY <1>1, <1>2, AtWork
  <2> QED
    <3> HIDE DEF r, n
    <3> QED
      BY <1>1, <1>2, <2>1, <2>2, <2>6, <2>7, <2>8, WorkStep
<1> QED
  BY <1>3, <1>4

LEMMA WriteBreaksInv ==
  ASSUME IInv, TypeOK', NEW q \in Proc, WriteBreaks(q)
  PROVE  IInv'
<1>1. ~At(q, "idle") /\ ~At(q, "cleanup") /\ q \in holding
  BY Active DEF WriteBreaks, At
<1>2. PICK n \in 0..Len(Chunk(q)) :
        LET broken == Appended(q, Prefix(Chunk(q), n)) IN
          \/ part' = broken /\ Ends(q, "failed") /\ UNCHANGED <<target, holding, seen>>
          \/ Leaves(q, broken)
  BY DEF WriteBreaks
<1> DEFINE broken == Appended(q, Prefix(Chunk(q), n))
<1>3. broken \in [Path -> AllFiles]
  BY ChunkType, PrefixType, AppendedType DEF IInv
<1>4. \A f \in Path \ {PathOf[q]} : broken[f] = part[f]
  BY DEF Appended, IInv, TypeOK
<1>5. remote' = remote
  BY DEF WriteBreaks
<1>6. CASE part' = broken /\ Ends(q, "failed") /\ UNCHANGED <<target, holding, seen>>
  BY <1>1, <1>4, <1>5, <1>6, EndsStep DEF Verdict
<1>7. CASE Leaves(q, broken)
  <2> HIDE DEF broken
  <2> QED
    BY <1>1, <1>3, <1>4, <1>5, <1>7, LeavesStep
<1> QED
  BY <1>2, <1>6, <1>7

LEMMA VerifyInv ==
  ASSUME IInv, TypeOK', NEW q \in Proc, Verify(q)
  PROVE  IInv'
<1>1. ~At(q, "idle") /\ ~At(q, "cleanup") /\ run[q].pc = "read"
  BY DEF Verify, At
<1>2. UNCHANGED <<remote, part, target, holding, seen>>
  BY DEF Verify
<1>3. CASE Verified(q)
  <2> DEFINE r == [run[q] EXCEPT !.pc = "replace"]
  <2>1. run' = [run EXCEPT ![q] = r]
    BY <1>3 DEF Verify, Goto
  <2>2. r.pc = "replace" /\ r.digest = run[q].digest /\ r.verdict = run[q].verdict
    BY <1>1, AtWork DEF Run
  <2>3. Part(q)' = Part(q) /\ Part(q).data = run[q].digest
    BY <1>2, <1>3 DEF Part, Verified
  <2>4. SafeAt(r, seen[q], Source(q), Part(q)', Target(q)')
    <3> HIDE DEF r
    <3> QED
      BY <1>1, <2>2, <2>3, AtWork DEF SafeAt
  <2>5. target'[PathOf[q]].exists \/ target'[PathOf[q]] = NoFile
    BY <1>1, <1>2, AtWork
  <2> QED
    <3> HIDE DEF r
    <3> QED
      BY <1>1, <1>2, <2>1, <2>2, <2>4, <2>5, WorkStep
<1>4. CASE ~Verified(q)
  <2>1. ~Steady(q)
    <3> SUFFICES ASSUME Steady(q) PROVE Verified(q)
      BY <1>4
    <3>1. run[q].digest \in Seq(Nat) /\ run[q].size \in Nat /\ run[q].offset \in Nat
      BY <1>1, AtWork DEF Run
    <3>2. /\ run[q].size = Len(run[q].digest) /\ run[q].offset <= run[q].size
          /\ Part(q).data = Prefix(run[q].digest, run[q].offset)
      BY <1>1, AtWork DEF SafeAt, Steady
    <3>3. run[q].offset >= Len(run[q].digest)
      BY <3>1, <3>2 DEF Verify
    <3>4. Part(q).data = run[q].digest
      BY <3>1, <3>2, <3>3, PrefixAll
    <3> QED
      BY <3>2, <3>4 DEF Verified
  <2>2. Ends(q, "integrity")
    BY <1>4 DEF Verify
  <2> QED
    BY <1>1, <1>2, <2>1, <2>2, EndsStep DEF Verdict
<1> QED
  BY <1>3, <1>4

\* What a run replaces its target with is a file it has seen.
LEMMA ReplaceSeen ==
  ASSUME IInv, NEW q \in Proc, At(q, "replace")
  PROVE  Part(q) \in seen[q] /\ Part(q).exists /\ q \in holding
<1>1. ~At(q, "idle") /\ ~At(q, "cleanup") /\ run[q].pc = "replace"
  BY DEF At
<1>2. File(run[q].digest) \in seen[q] /\ Part(q).exists /\ Part(q).data = run[q].digest
  BY <1>1, AtWork DEF SafeAt
<1>3. Part(q) = File(run[q].digest)
  BY <1>1, <1>2, AtWork DEF AllFiles, File
<1> QED
  BY <1>1, <1>2, <1>3, AtWork

LEMMA ReplaceInv ==
  ASSUME IInv, TypeOK', NEW q \in Proc, Replace(q)
  PROVE  IInv'
<1>1. ~At(q, "idle") /\ ~At(q, "cleanup") /\ At(q, "replace")
  BY DEF Replace, At
<1>2. UNCHANGED <<remote, holding, seen>>
  BY DEF Replace
<1> DEFINE pc == IF q \in Editor THEN "edit" ELSE "done"
           r == [run[q] EXCEPT !.pc = pc]
<1>3. run' = [run EXCEPT ![q] = r]
  BY DEF Replace, Goto
<1>4. r.pc \in {"edit", "done"} /\ r.verdict = run[q].verdict
  BY <1>1, AtWork DEF Run
<1>5. Target(q)' = Part(q)
  BY Domains DEF Replace, Target, IInv, TypeOK
<1>6. \A f \in Path \ {PathOf[q]} : part'[f] = part[f] /\ target'[f] = target[f]
  BY DEF Replace, Unlinked, IInv, TypeOK
<1>7. Target(q)' \in seen[q] /\ Target(q)'.exists
  BY <1>1, <1>5, ReplaceSeen
<1>8. SafeAt(r, seen[q], Source(q), Part(q)', Target(q)')
  <2>1. Source(q) \in seen[q] /\ r.verdict = "none"
    BY <1>1, <1>4, AtWork
  <2> HIDE DEF r
  <2> QED
    BY <1>4, <1>7, <2>1 DEF SafeAt
<1>9. target'[PathOf[q]].exists \/ target'[PathOf[q]] = NoFile
  BY <1>7 DEF Target
<1> QED
  <2> HIDE DEF r
  <2> QED
    BY <1>1, <1>2, <1>3, <1>4, <1>6, <1>8, <1>9, WorkStep

LEMMA FinishInv ==
  ASSUME IInv, TypeOK', NEW q \in Proc, Finish(q) \/ Fails(q)
  PROVE  IInv'
<1>1. ~At(q, "idle") /\ ~At(q, "cleanup")
  BY DEF Finish, Fails, Running, At
<1>2. PICK v \in {"completed", "failed"} : Ends(q, v)
  BY DEF Finish, Fails
<1>3. UNCHANGED <<remote, part, target, holding, seen>>
  BY DEF Finish, Fails
<1> QED
  BY <1>1, <1>2, <1>3, EndsStep DEF Verdict

LEMMA LeavesInv ==
  ASSUME IInv, TypeOK', NEW q \in Proc, Cleanup(q) \/ Killed(q)
  PROVE  IInv'
<1>1. Leaves(q, part) /\ remote' = remote
  BY DEF Cleanup, Killed, Leaves
<1>2. part \in [Path -> AllFiles]
  BY DEF IInv, TypeOK
<1> QED
  BY <1>1, <1>2, LeavesStep

LEMMA EditInv ==
  ASSUME IInv, TypeOK', NEW q \in Editor, Edit(q)
  PROVE  IInv'
<1> q \in Proc
  BY DEF Proc
<1>1. ~At(q, "idle") /\ ~At(q, "cleanup")
  BY DEF Edit, At
<1>2. UNCHANGED <<remote, part, holding, seen>>
  BY DEF Edit
<1>3. CASE Ends(q, "completed") /\ UNCHANGED <<target, trouble>>
  BY <1>1, <1>2, <1>3, EndsStep DEF Verdict
<1>4. CASE ~(Ends(q, "completed") /\ UNCHANGED <<target, trouble>>)
  <2>1. PICK c \in Content : target' = [target EXCEPT ![PathOf[q]] = File(c)]
    BY <1>4 DEF Edit
  <2> DEFINE r == [run[q] EXCEPT !.pc = "upload"]
  <2>2. run' = [run EXCEPT ![q] = r]
    BY <1>4 DEF Edit, Goto
  <2>3. r.pc = "upload" /\ r.verdict = run[q].verdict
    BY <1>1, AtWork DEF Run
  <2>4. \A f \in Path \ {PathOf[q]} : part'[f] = part[f] /\ target'[f] = target[f]
    BY <1>2, <2>1 DEF IInv, TypeOK
  <2>5. target'[PathOf[q]].exists
    BY <2>1, Domains DEF File, IInv, TypeOK
  <2>6. SafeAt(r, seen[q], Source(q), Part(q)', Target(q)')
    <3> HIDE DEF r
    <3> QED
      BY <1>1, <2>3, AtWork DEF SafeAt
  <2> QED
    <3> HIDE DEF r
    <3> QED
      BY <1>1, <1>2, <2>2, <2>3, <2>4, <2>5, <2>6, WorkStep
<1> QED
  BY <1>3, <1>4
-----------------------------------------------------------------------------
(* Changes of the remote file *)

\* A change that a run has seen makes nothing false of it: the file is steady
\* afterwards only if it was before and has not changed.
LEMMA ChangesSafe ==
  ASSUME IInv, NEW rt \in Runtime, NEW file, Changes(rt, file),
         holding' = holding, NEW p \in Proc, run'[p] = run[p],
         Part(p)' = Part(p), Target(p)' = Target(p)
  PROVE  Safe(p)'
<1> SUFFICES ASSUME p \in holding PROVE Safe(p)'
  BY DEF Safe
<1>1. SafeAt(run[p], seen[p], Source(p), Part(p), Target(p))
  BY DEF IInv, Safe
<1>2. CASE SourceOf[p] = rt
  <2>1. seen'[p] = seen[p] \cup {file} /\ Source(p)' = file
    BY <1>2 DEF Changes, Source, IInv, TypeOK
  <2>2. Source(p) \in seen[p]
    BY <1>1 DEF SafeAt
  <2>3. (\A f \in seen'[p] : f = file) => file = Source(p) /\ \A f \in seen[p] : f = Source(p)
    BY <2>1, <2>2
  <2>4. SafeAt(run[p], seen'[p], Source(p)', Part(p), Target(p))
    BY <1>1, <2>1, <2>3 DEF SafeAt
  <2> QED
    BY <2>4 DEF Safe
<1>3. CASE SourceOf[p] # rt
  <2>1. seen'[p] = seen[p] /\ Source(p)' = Source(p)
    BY <1>3 DEF Changes, Source, IInv, TypeOK
  <2> QED
    BY <1>1, <2>1 DEF Safe
<1> QED
  BY <1>2, <1>3

LEMMA ChangesShape ==
  ASSUME IInv, NEW rt \in Runtime, NEW file, Changes(rt, file),
         file.exists \/ file = NoFile
  PROVE  \A r \in Runtime : remote'[r].exists \/ remote'[r] = NoFile
BY DEF Changes, IInv, Shape, TypeOK

LEMMA RemoteChangesInv ==
  ASSUME IInv, TypeOK', RemoteChanges
  PROVE  IInv'
<1>1. PICK rt \in Runtime, file \in {NoFile} \cup {File(c) : c \in Content} :
        Changes(rt, file)
  BY DEF RemoteChanges
<1>2. UNCHANGED <<part, target, holding, run>>
  BY DEF RemoteChanges
<1>3. OneWriter'
  BY <1>2 DEF IInv, OneWriter, At, Lease
<1>4. file.exists \/ file = NoFile
  BY <1>1 DEF File
<1>5. Shape'
  BY <1>1, <1>2, <1>4, ChangesShape DEF IInv, Shape, At
<1>6. \A p \in Proc : Safe(p)'
  BY <1>1, <1>2, ChangesSafe DEF Part, Target
<1> QED
  BY <1>3, <1>5, <1>6 DEF IInv

LEMMA EditUploadsInv ==
  ASSUME IInv, TypeOK', NEW q \in Editor, EditUploads(q)
  PROVE  IInv'
<1> q \in Proc
  BY DEF Proc
<1>1. ~At(q, "idle") /\ ~At(q, "cleanup")
  BY DEF EditUploads, At
<1>2. Changes(SourceOf[q], Target(q)) /\ UNCHANGED <<part, target, holding>>
  BY DEF EditUploads
<1>3. PICK v \in {"completed", "failed"} : Ends(q, v)
  BY DEF EditUploads
<1>4. /\ run'[q].pc = "cleanup" /\ run'[q].verdict = v
      /\ \A p \in Proc \ {q} : run'[p] = run[p]
  BY <1>3 DEF Ends, Idle, IInv, TypeOK
<1>5. OneWriter'
  <2>1. Alone(q)
    BY <1>1, <1>2, <1>4, AtWork DEF Alone
  <2> QED
    BY <2>1, OneWriterStep
<1>6. Target(q).exists \/ Target(q) = NoFile
  BY <1>1, AtWork DEF Target
<1>7. Shape'
  BY <1>2, <1>4, <1>6, Domains, ChangesShape DEF IInv, Shape, At
<1>8. \A p \in Proc \ {q} : Safe(p)'
  BY <1>2, <1>4, Domains, ChangesSafe DEF Part, Target
<1>9. Safe(q)'
  <2>1. Source(q)' \in seen'[q]
    BY <1>1, <1>2, AtWork, Domains DEF Changes, Source, IInv, TypeOK
  <2> QED
    BY <1>4, <2>1 DEF Safe, SafeAt
<1> QED
  BY <1>5, <1>7, <1>8, <1>9 DEF IInv
-----------------------------------------------------------------------------
(* The theorems *)

LEMMA NextIInv == IInv /\ [Next]_vars => IInv'
<1> SUFFICES ASSUME IInv, [Next]_vars PROVE IInv'
  OBVIOUS
<1>1. TypeOK'
  BY NextTypeOK DEF IInv
<1>2. CASE UNCHANGED vars
  <2>1. OneWriter'
    BY <1>2 DEF IInv, OneWriter, At, Lease, vars
  <2>2. Shape'
    BY <1>2 DEF IInv, Shape, At, vars
  <2>3. \A p \in Proc : Safe(p)'
    BY <1>2 DEF IInv, Safe, Source, Part, Target, vars
  <2> QED
    BY <1>1, <2>1, <2>2, <2>3 DEF IInv
<1>3. ASSUME NEW p \in Proc, Begin(p) \/ Refuse(p) PROVE IInv'
  BY <1>1, <1>3, BeginInv, RefuseInv
<1>4. ASSUME NEW p \in Proc, Work(p) PROVE IInv'
  BY <1>1, <1>4, StatDigestInv, StatSizeInv, PrepareInv, ComparePrefixInv, ReadInv,
     VerifyInv, ReplaceInv, FinishInv, LeavesInv DEF Work
<1>5. ASSUME NEW p \in Proc, WriteBreaks(p) \/ Fails(p) \/ Killed(p) PROVE IInv'
  BY <1>1, <1>5, WriteBreaksInv, FinishInv, LeavesInv
<1>6. ASSUME NEW p \in Editor, Edit(p) \/ EditUploads(p) PROVE IInv'
  BY <1>1, <1>6, EditInv, EditUploadsInv
<1>7. CASE RemoteChanges
  BY <1>1, <1>7, RemoteChangesInv
<1> QED
  BY <1>2, <1>3, <1>4, <1>5, <1>6, <1>7 DEF Next

LEMMA Inductive == Spec => []IInv
BY InitIInv, NextIInv, PTL DEF Spec

\* Whatever other programs do to the remote files, whatever fails and whoever else
\* wants the target: two runs never write the same file, a verification fails and
\* a file is missing only for a reason, and a finished download has its target.
THEOREM Invariance == Spec => []DownloadInv
<1>1. IInv => DownloadInv
  BY IInvImplies
<1> QED
  BY <1>1, Inductive, PTL

\* A step of an editor leaves the targets of all downloads alone.
LEMMA EditorsTarget ==
  ASSUME IInv, NEW p \in Downloader, NEW q \in Editor,
         \A f \in Path \ {PathOf[q]} : target'[f] = target[f]
  PROVE  Target(p)' = Target(p)
<1>1. p # q /\ p \in Proc /\ q \in Proc
  BY DownloadAssumption DEF Proc
<1>2. PathOf[p] # PathOf[q]
  BY <1>1, DownloadAssumption
<1> QED
  BY <1>1, <1>2, Domains DEF Target

\* Only os.replace changes the target of a download.
LEMMA OnlyReplace ==
  ASSUME IInv, [Next]_vars, NEW p \in Downloader, Target(p)' # Target(p)
  PROVE  \E q \in Proc : Replace(q) /\ PathOf[q] = PathOf[p]
<1> SUFFICES ASSUME ~\E q \in Proc : Replace(q) /\ PathOf[q] = PathOf[p] PROVE FALSE
  OBVIOUS
<1>1. target' # target
  BY DEF Target
<1>2. ASSUME NEW q \in Proc, Begin(q) \/ StatDigest(q) PROVE FALSE
  <2>1. q \in Editor
    BY <1>1, <1>2 DEF Begin, StatDigest
  <2>2. \A f \in Path \ {PathOf[q]} : target'[f] = target[f]
    BY <1>2 DEF Begin, StatDigest, IInv, TypeOK
  <2> QED
    BY <2>1, <2>2, EditorsTarget
<1>3. ASSUME NEW q \in Proc, Replace(q) PROVE FALSE
  BY <1>3, Domains DEF Replace, Target, IInv, TypeOK, Proc
<1>4. ASSUME NEW q \in Proc, NEW parts, Leaves(q, parts) PROVE FALSE
  <2>1. q \in Editor
    BY <1>1, <1>4 DEF Leaves, Left
  <2>2. \A f \in Path \ {PathOf[q]} : target'[f] = target[f]
    BY <1>4 DEF Leaves, Left, IInv, TypeOK
  <2> QED
    BY <2>1, <2>2, EditorsTarget
<1>5. ASSUME NEW q \in Proc, WriteBreaks(q) PROVE FALSE
  BY <1>1, <1>4, <1>5 DEF WriteBreaks
<1>6. ASSUME NEW q \in Proc, Cleanup(q) \/ Killed(q) PROVE FALSE
  BY <1>4, <1>6 DEF Cleanup, Killed, Leaves
<1>7. ASSUME NEW q \in Editor, Edit(q) PROVE FALSE
  <2>1. \A f \in Path \ {PathOf[q]} : target'[f] = target[f]
    BY <1>7 DEF Edit, IInv, TypeOK
  <2> QED
    BY <2>1, EditorsTarget
<1>8. ASSUME NEW q \in Proc,
             Refuse(q) \/ StatSize(q) \/ Prepare(q) \/ ComparePrefix(q) \/ Read(q)
               \/ Verify(q) \/ Finish(q) \/ Fails(q)
      PROVE FALSE
  BY <1>1, <1>8 DEF Refuse, StatSize, Prepare, ComparePrefix, Read, Verify, Finish, Fails
<1>9. ASSUME NEW q \in Editor, EditUploads(q) PROVE FALSE
  BY <1>1, <1>9 DEF EditUploads
<1>10. CASE RemoteChanges \/ UNCHANGED vars
  BY <1>1, <1>10 DEF RemoteChanges, vars
<1> QED
  BY <1>2, <1>3, <1>5, <1>6, <1>7, <1>8, <1>9, <1>10 DEF Next, Work

LEMMA DeliveryStep ==
  IInv /\ [Next]_vars =>
    \A p \in Downloader : Target(p)' # Target(p) =>
      \E q \in holding : PathOf[q] = PathOf[p] /\ Target(p)' \in seen[q]
<1> SUFFICES ASSUME IInv, [Next]_vars, NEW p \in Downloader, Target(p)' # Target(p)
             PROVE  \E q \in holding : PathOf[q] = PathOf[p] /\ Target(p)' \in seen[q]
  OBVIOUS
<1>1. PICK q \in Proc : Replace(q) /\ PathOf[q] = PathOf[p]
  BY OnlyReplace
<1>2. Target(p)' = Part(q)
  BY <1>1, Domains DEF Replace, Target, IInv, TypeOK
<1>3. Part(q) \in seen[q] /\ q \in holding
  BY <1>1, ReplaceSeen DEF Replace
<1> QED
  BY <1>1, <1>2, <1>3

\* The target of a download becomes, in one step, a file its VM had while the run
\* was at work (docs/03_file_management.md), never part of one or a mixture.
THEOREM Delivery == Spec => TargetIsDelivered
<1>1. IInv /\ [Next]_vars =>
        [\A p \in Downloader : Target(p)' # Target(p) =>
           \E q \in holding : PathOf[q] = PathOf[p] /\ Target(p)' \in seen[q]]_vars
  BY DeliveryStep
<1> QED
  BY <1>1, Inductive, PTL DEF Spec, TargetIsDelivered
-----------------------------------------------------------------------------
(* What a resumed download has is kept. *)

\* p has resumed a part that the remote file, unchanged since, starts with.
Resumes(p) ==
  /\ p \in holding /\ run[p].resume /\ Steady(p)
  /\ Part(p).exists /\ Part(p).data = Prefix(Source(p).data, Len(Part(p).data))

LEMMA OtherPart ==
  ASSUME IInv, NEW p \in Proc, p \in holding, NEW q \in Proc, p # q,
         q \in holding \/ q \in Editor \/ part' = part,
         \A f \in Path \ {PathOf[q]} : part'[f] = part[f]
  PROVE  Part(p)' = Part(p)
<1>1. CASE part' = part
  BY <1>1 DEF Part
<1>2. CASE part' # part
  <2>1. PathOf[p] # PathOf[q]
    BY <1>2, OtherPath DEF IInv
  <2> QED
    BY <2>1, Domains DEF Part
<1> QED
  BY <1>1, <1>2

LEMMA PrefixLength ==
  ASSUME NEW d \in Seq(Nat), NEW n \in Nat
  PROVE  Len(Prefix(d, n)) <= Len(d)
<1>1. Least(n, Len(d)) \in 0..Len(d)
  BY DEF Least
<1>2. \A i \in 1..Least(n, Len(d)) : d[i] \in Nat
  BY <1>1
<1>3. Len(Prefix(d, n)) = IF 1 <= Least(n, Len(d)) THEN Least(n, Len(d)) - 1 + 1 ELSE 0
  BY <1>1, <1>2, SubSeqProperties DEF Prefix
<1> QED
  BY <1>1, <1>3

LEMMA AppendedLonger ==
  ASSUME IInv, NEW p \in Proc, NEW d \in Seq(Nat), part' = Appended(p, d)
  PROVE  Len(Part(p).data)' >= Len(Part(p).data)
<1>1. Part(p).data \in Seq(Nat) /\ Part(p) \in AllFiles
  BY FileTypes DEF IInv, AllFiles
<1>2. Part(p)' = [Part(p) EXCEPT !.data = @ \o d]
  BY Domains DEF Part, Appended, IInv, TypeOK
<1>3. Part(p)'.data = Part(p).data \o d
  BY <1>1, <1>2 DEF AllFiles
<1>4. Len(Part(p).data \o d) = Len(Part(p).data) + Len(d)
  BY <1>1
<1> QED
  BY <1>1, <1>3, <1>4

\* A part that is resumed is not opened empty.
LEMMA ResumedStays ==
  ASSUME IInv, NEW p \in Downloader, Resumes(p), Prepare(p) \/ ComparePrefix(p)
  PROVE  Len(Part(p).data)' >= Len(Part(p).data)
<1> p \in Proc
  BY DEF Proc
<1>1. run[p].pc \in {"prepare", "prefix"} /\ ~At(p, "idle") /\ ~At(p, "cleanup")
  BY DEF Prepare, ComparePrefix, At
<1>2. Source(p).exists /\ Source(p).data = run[p].digest
  BY <1>1, SteadyDigest DEF Resumes
<1>3. Source(p).data \in Seq(Nat) /\ Len(Part(p).data) \in Nat
  BY <1>1, AtWork DEF AllFiles
<1>4. Len(Part(p).data) <= Len(Source(p).data)
  BY <1>3, PrefixLength DEF Resumes
<1>5. part' = part => Len(Part(p).data)' >= Len(Part(p).data)
  <2> SUFFICES ASSUME part' = part PROVE Len(Part(p).data)' >= Len(Part(p).data)
    OBVIOUS
  <2>1. Part(p)' = Part(p)
    BY DEF Part
  <2> QED
    BY <1>3, <2>1
<1>6. CASE Prepare(p)
  <2>1. run[p].size = Len(run[p].digest)
    BY <1>1, AtWork DEF SafeAt, Resumes, Steady
  <2>2. part' = part
    BY <1>2, <1>4, <1>6, <2>1 DEF Prepare, Resumes
  <2> QED
    BY <1>5, <2>2
<1>7. CASE ComparePrefix(p)
  <2>1. Usable(p)
    BY <1>2 DEF Usable, Resumes
  <2>2. Opens(p, Len(Part(p).data))
    BY <1>7, <2>1 DEF ComparePrefix
  <2>3. CASE Len(Part(p).data) = 0
    <3>1. Part(p)' = File(<<>>)
      BY <2>2, <2>3, Domains DEF Opens, Part, IInv, TypeOK
    <3> QED
      BY <2>3, <3>1 DEF File
  <2>4. CASE Len(Part(p).data) # 0
    BY <1>5, <2>2, <2>4 DEF Opens
  <2> QED
    BY <2>3, <2>4
<1> QED
  BY <1>6, <1>7

LEMMA ProgressStep ==
  IInv /\ [Next]_vars =>
    \A p \in Downloader :
      Resumes(p) /\ Len(Part(p).data) > Len(Part(p).data)' => Target(p)' = Part(p)
<1> SUFFICES ASSUME IInv, [Next]_vars, NEW p \in Downloader, Resumes(p),
                    Len(Part(p).data) > Len(Part(p).data)', Target(p)' # Part(p)
             PROVE  FALSE
  OBVIOUS
<1> p \in Proc /\ p \in holding /\ p \notin Editor
  BY DownloadAssumption DEF Proc, Resumes
<1>1. Len(Part(p).data) \in Nat
  BY FileTypes DEF IInv, AllFiles
<1>2. ~(Len(Part(p).data)' >= Len(Part(p).data))
  <2>1. Len(Part(p).data)' \in Nat
    <3>1. TypeOK'
      BY NextTypeOK DEF IInv
    <3>2. Part(p)' \in AllFiles
      BY <3>1, Domains DEF TypeOK, Part
    <3> QED
      BY <3>2 DEF AllFiles
  <2> QED
    BY <1>1, <2>1
<1>3. Part(p)' # Part(p)
  BY <1>1
<1>4. part' # part
  BY <1>3 DEF Part
\* Only a step of p itself changes the part of p.
<1>5. ASSUME NEW q \in Proc, q \in holding \/ q \in Editor,
             \A f \in Path \ {PathOf[q]} : part'[f] = part[f]
      PROVE  q = p
  BY <1>3, <1>5, OtherPart
<1>6. ASSUME NEW q \in Proc, Prepare(q) \/ ComparePrefix(q) PROVE FALSE
  <2>1. q \in holding
    BY <1>6, Active DEF Prepare, ComparePrefix, At
  <2>2. \A f \in Path \ {PathOf[q]} : part'[f] = part[f]
    BY <1>6 DEF Prepare, ComparePrefix, Opens, IInv, TypeOK
  <2>3. q = p
    BY <1>5, <2>1, <2>2
  <2> QED
    BY <1>2, <1>6, <2>3, ResumedStays
<1>7. ASSUME NEW q \in Proc, NEW d \in Seq(Nat), q \in holding, part' = Appended(q, d)
      PROVE  FALSE
  <2>1. \A f \in Path \ {PathOf[q]} : part'[f] = part[f]
    BY <1>7 DEF Appended, IInv, TypeOK
  <2>2. q = p
    BY <1>5, <1>7, <2>1
  <2> QED
    BY <1>2, <1>7, <2>2, AppendedLonger
<1>8. ASSUME NEW q \in Proc, Read(q) PROVE FALSE
  <2>1. part' = Appended(q, Chunk(q)) /\ q \in holding
    BY <1>4, <1>8, Active DEF Read, At
  <2> QED
    BY <1>7, <2>1, ChunkType DEF IInv
<1>9. ASSUME NEW q \in Proc, NEW parts \in [Path -> AllFiles], Leaves(q, parts),
             q \in holding \/ q \in Editor,
             \A f \in Path \ {PathOf[q]} : parts[f] = part[f]
      PROVE  q = p /\ part' = parts
  <2>1. \A f \in Path \ {PathOf[q]} : part'[f] = part[f]
    BY <1>9 DEF Leaves, Left
  <2>2. q = p
    BY <1>5, <1>9, <2>1
  <2> QED
    BY <1>9, <2>2 DEF Leaves, Left
<1>10. ASSUME NEW q \in Proc, WriteBreaks(q) PROVE FALSE
  <2>1. PICK n \in 0..Len(Chunk(q)) :
          LET broken == Appended(q, Prefix(Chunk(q), n)) IN
            \/ part' = broken /\ Ends(q, "failed") /\ UNCHANGED <<target, holding, seen>>
            \/ Leaves(q, broken)
    BY <1>10 DEF WriteBreaks
  <2> DEFINE d == Prefix(Chunk(q), n)
  <2>2. d \in Seq(Nat)
    BY ChunkType, PrefixType DEF IInv
  <2>3. q \in holding
    BY <1>10, Active DEF WriteBreaks, At
  <2>4. /\ Appended(q, d) \in [Path -> AllFiles]
        /\ \A f \in Path \ {PathOf[q]} : Appended(q, d)[f] = part[f]
    <3> HIDE DEF d
    <3> QED
      BY <2>2, AppendedType DEF IInv, TypeOK, Appended
  <2>5. part' = Appended(q, d) \/ Leaves(q, Appended(q, d))
    BY <2>1
  <2>6. part' = Appended(q, d)
    <3> HIDE DEF d
    <3> QED
      BY <1>9, <2>3, <2>4, <2>5
  <2> QED
    <3> HIDE DEF d
    <3> QED
      BY <1>7, <2>2, <2>3, <2>6
<1>11. ASSUME NEW q \in Proc, Cleanup(q) \/ Killed(q) PROVE FALSE
  <2>1. Leaves(q, part) /\ part \in [Path -> AllFiles]
    BY <1>11 DEF Cleanup, Killed, Leaves, IInv, TypeOK
  <2>2. q \in Editor
    BY <1>4, <2>1 DEF Leaves, Left
  <2> QED
    BY <1>4, <1>9, <2>1, <2>2
<1>12. ASSUME NEW q \in Proc, Replace(q) PROVE FALSE
  <2>1. q \in holding
    BY <1>12, ReplaceSeen DEF Replace
  <2>2. \A f \in Path \ {PathOf[q]} : part'[f] = part[f]
    BY <1>12 DEF Replace, Unlinked, IInv, TypeOK
  <2>3. q = p
    BY <1>5, <2>1, <2>2
  <2>4. Target(p)' = Part(p)
    BY <1>12, <2>3, Domains DEF Replace, Target, IInv, TypeOK
  <2> QED
    BY <2>4
<1>13. ASSUME NEW q \in Proc,
              Begin(q) \/ Refuse(q) \/ StatDigest(q) \/ StatSize(q) \/ Verify(q)
                \/ Finish(q) \/ Fails(q)
       PROVE FALSE
  BY <1>4, <1>13 DEF Begin, Refuse, StatDigest, StatSize, Verify, Finish, Fails
<1>14. ASSUME NEW q \in Editor, Edit(q) \/ EditUploads(q) PROVE FALSE
  BY <1>4, <1>14 DEF Edit, EditUploads
<1>15. CASE RemoteChanges \/ UNCHANGED vars
  BY <1>4, <1>15 DEF RemoteChanges, vars
<1> QED
  BY <1>6, <1>8, <1>10, <1>11, <1>12, <1>13, <1>14, <1>15 DEF Next, Work

\* A run that resumes never throws away bytes the remote file starts with, unless
\* the file changed during the run.
THEOREM Progress == Spec => ProgressIsKept
<1>1. IInv /\ [Next]_vars =>
        [\A p \in Downloader :
           /\ p \in holding /\ run[p].resume /\ Steady(p)
           /\ Part(p).exists /\ Part(p).data = Prefix(Source(p).data, Len(Part(p).data))
           /\ Len(Part(p).data) > Len(Part(p).data)'
           => Target(p)' = Part(p)]_vars
  BY ProgressStep DEF Resumes
<1> QED
  BY <1>1, Inductive, PTL DEF Spec, ProgressIsKept
=============================================================================
