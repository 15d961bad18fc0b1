---------------------------- MODULE FileDownload ----------------------------
(***************************************************************************)
(* Resumable downloads, and edit (transfer.py, commands/files.py).         *)
(*                                                                         *)
(* A run reads the size and digest of a remote file, resumes the local     *)
(* `.colab-download.part` if the remote file still starts with it, appends  *)
(* chunk after chunk, verifies, and replaces the local target.  Every one  *)
(* of these is a call of its own, and other programs of the VM rewrite,    *)
(* shorten or remove the file in between.  Runs fail, are interrupted and  *)
(* killed anywhere, and other runs, also from other VMs, want the same     *)
(* target; the lease admits one (TransferLease shows that it does).  edit  *)
(* downloads into a file of its own, opens the editor and uploads.         *)
(*                                                                         *)
(* A file is a sequence of blocks, a chunk up to ChunkSize blocks; a digest *)
(* is the content it was taken from.                                       *)
(***************************************************************************)
EXTENDS Naturals, Sequences

CONSTANTS
  Downloader, Editor,  \* the runs of `download` and of `edit`
  Path,                \* local files
  PathOf,              \* PathOf[p]: the target of p, the temporary file of an editor
  Runtime,             \* the VMs
  SourceOf,            \* SourceOf[p]: the VM of the session of p
  Content,             \* contents of files
  Given,               \* Given[r]: what the remote file is at first
  ChunkSize,           \* chunk_size
  MaxTrouble           \* bound: failing calls, interruptions, kills and edits

Proc == Downloader \cup Editor

ASSUME DownloadAssumption ==
  /\ Downloader \cap Editor = {}
  /\ PathOf \in [Proc -> Path] /\ SourceOf \in [Proc -> Runtime]
  /\ \A p \in Editor, q \in Proc : PathOf[p] = PathOf[q] => p = q
  /\ \A c \in Content : c \in Seq(Nat)
  /\ Given \in [Runtime -> Content]
  /\ ChunkSize \in Nat \ {0} /\ MaxTrouble \in Nat

VARIABLES
  remote,   \* remote[r]: the file at the remote path of VM r
  part,     \* part[f]: the file f.colab-download.part
  target,   \* target[f]: the file f
  holding,  \* the runs that hold the lease of what they write
  run,      \* run[p]: the state of run p
  seen,     \* seen[p]: what the remote file has been since the run began
  trouble   \* what went wrong so far

vars == <<remote, part, target, holding, run, seen, trouble>>

NoFile  == [exists |-> FALSE, data |-> <<>>]
File(d) == [exists |-> TRUE, data |-> d]

Source(p) == remote[SourceOf[p]]
Part(p)   == part[PathOf[p]]
Target(p) == target[PathOf[p]]

\* A download has the lease of its local target, an edit that of an upload to
\* its remote path.
Lease(p) == IF p \in Downloader THEN <<"local", PathOf[p]>> ELSE <<"remote", SourceOf[p]>>

Idle == [pc |-> "idle", resume |-> TRUE, digest |-> <<>>, size |-> 0, offset |-> 0,
         verdict |-> "none"]

Init ==
  /\ remote = [r \in Runtime |-> File(Given[r])]
  /\ part = [f \in Path |-> NoFile]
  /\ target = [f \in Path |-> NoFile]
  /\ holding = {}
  /\ run = [p \in Proc |-> Idle]
  /\ seen = [p \in Proc |-> {}]
  /\ trouble = 0

At(p, pc)   == run[p].pc = pc
Goto(p, pc) == run' = [run EXCEPT ![p].pc = pc]
Ends(p, verdict) ==
  run' = [run EXCEPT ![p] = [Idle EXCEPT !.pc = "cleanup", !.verdict = verdict]]
Trouble == trouble < MaxTrouble /\ trouble' = trouble + 1
Least(i, j) == IF i < j THEN i ELSE j
Prefix(d, n) == SubSeq(d, 1, Least(n, Len(d)))
-----------------------------------------------------------------------------
(* The start of a run *)

\* Mutant of Free: a download does not look whether its target is taken.
FreeForDownload(p) ==
  p \in Downloader \/ \A q \in holding : Lease(q) # Lease(p)

Free(p) == \A q \in holding : Lease(q) # Lease(p)

\* edit creates its temporary file and never resumes.
Begin(p) ==
  /\ At(p, "idle") /\ Free(p)
  /\ \E resume \in BOOLEAN :
       /\ p \in Editor => ~resume
       /\ run' = [run EXCEPT ![p] = [Idle EXCEPT !.pc = "stat", !.resume = resume]]
  /\ holding' = holding \cup {p}
  /\ seen' = [seen EXCEPT ![p] = {Source(p)}]
  /\ IF p \in Editor
     THEN target' = [target EXCEPT ![PathOf[p]] = File(<<>>)]
     ELSE UNCHANGED target
  /\ UNCHANGED <<remote, part, trouble>>

\* TransferLeaseBusy; the cleanup runs all the same.
Refuse(p) ==
  /\ At(p, "idle") /\ ~Free(p)
  /\ Ends(p, "busy")
  /\ UNCHANGED <<remote, part, target, holding, seen, trouble>>

\* stat_file digests first and asks for the size then; edit takes a file that
\* does not exist for an empty one.
StatDigest(p) ==
  /\ At(p, "stat")
  /\ \/ /\ Source(p).exists
        /\ run' = [run EXCEPT ![p].pc = "size", ![p].digest = Source(p).data]
        /\ UNCHANGED target
     \/ /\ ~Source(p).exists /\ p \in Downloader
        /\ Ends(p, "not found") /\ UNCHANGED target
     \/ /\ ~Source(p).exists /\ p \in Editor
        /\ target' = [target EXCEPT ![PathOf[p]] = File(<<>>)]
        /\ Goto(p, "edit")
  /\ UNCHANGED <<remote, part, holding, seen, trouble>>

StatSize(p) ==
  /\ At(p, "size")
  /\ IF Source(p).exists
     THEN run' = [run EXCEPT ![p].pc = "prepare", ![p].size = Len(Source(p).data)]
     ELSE Ends(p, "not found")
  /\ UNCHANGED <<remote, part, target, holding, seen, trouble>>
-----------------------------------------------------------------------------
(* How much of the part is usable *)

Unlinked(p) == part' = [part EXCEPT ![PathOf[p]] = NoFile]

\* Mutant of Opens: mode "wb" whatever the offset.
OpensEmpty(p, offset) ==
  /\ part' = [part EXCEPT ![PathOf[p]] = File(<<>>)]
  /\ run' = [run EXCEPT ![p].pc = "read", ![p].offset = offset]

\* A part that is not resumed is unlinked; the part is opened with mode "wb" at
\* offset 0, with "ab" after it.
Opens(p, offset) ==
  /\ IF offset = 0 THEN part' = [part EXCEPT ![PathOf[p]] = File(<<>>)]
                   ELSE UNCHANGED part
  /\ run' = [run EXCEPT ![p].pc = "read", ![p].offset = offset]

Prepare(p) ==
  /\ At(p, "prepare")
  /\ IF Part(p).exists /\ run[p].resume /\ Len(Part(p).data) <= run[p].size
     THEN Goto(p, "prefix") /\ UNCHANGED part
     ELSE Opens(p, 0)
  /\ UNCHANGED <<remote, target, holding, seen, trouble>>

\* Mutant of Usable: the part is resumed unread.
UsableUnread(p) == TRUE

Usable(p) ==
  Source(p).exists /\ Prefix(Source(p).data, Len(Part(p).data)) = Part(p).data

ComparePrefix(p) ==
  /\ At(p, "prefix")
  /\ Opens(p, IF Usable(p) THEN Len(Part(p).data) ELSE 0)
  /\ UNCHANGED <<remote, target, holding, seen, trouble>>
-----------------------------------------------------------------------------
(* The chunks *)

Chunk(p) ==
  SubSeq(Source(p).data, run[p].offset + 1,
         Least(Len(Source(p).data), Least(run[p].offset + ChunkSize, run[p].size)))

Appended(p, d) == [part EXCEPT ![PathOf[p]].data = @ \o d]

\* Mutant of ReadEnds: an answer without data is no reason to stop.
ReadEndsNever(p) == ~Source(p).exists /\ Ends(p, "not found")

\* The file is gone, or has become shorter than it was.
ReadEnds(p) ==
  \/ ~Source(p).exists /\ Ends(p, "not found")
  \/ Source(p).exists /\ Chunk(p) = <<>> /\ Ends(p, "integrity")

Read(p) ==
  /\ At(p, "read") /\ run[p].offset < run[p].size
  /\ \/ ReadEnds(p) /\ UNCHANGED part
     \/ /\ Source(p).exists
        /\ part' = Appended(p, Chunk(p))
        /\ run' = [run EXCEPT ![p].offset = @ + Len(Chunk(p))]
  /\ UNCHANGED <<remote, target, holding, seen, trouble>>

\* The files a run leaves behind; the next edit has a temporary file of another
\* name.
Left(p, files) == IF p \in Editor THEN [files EXCEPT ![PathOf[p]] = NoFile] ELSE files

\* The process is gone, and its lease with it (TransferLease).
Leaves(p, parts) ==
  /\ run' = [run EXCEPT ![p] = Idle]
  /\ holding' = holding \ {p}
  /\ seen' = [seen EXCEPT ![p] = {}]
  /\ part' = Left(p, parts)
  /\ target' = Left(p, target)

\* The write of a chunk is cut short: a full disk, Ctrl-C or a kill.
WriteBreaks(p) ==
  /\ At(p, "read") /\ run[p].offset < run[p].size /\ Source(p).exists
  /\ Trouble
  /\ \E n \in 0..Len(Chunk(p)) :
       LET broken == Appended(p, Prefix(Chunk(p), n)) IN
         \/ part' = broken /\ Ends(p, "failed") /\ UNCHANGED <<target, holding, seen>>
         \/ Leaves(p, broken)
  /\ UNCHANGED remote

\* Mutant of Verified: only the size is compared.
VerifiedSize(p) == Len(Part(p).data) = run[p].size

Verified(p) == Len(Part(p).data) = run[p].size /\ Part(p).data = run[p].digest

Verify(p) ==
  /\ At(p, "read") /\ run[p].offset >= run[p].size
  /\ IF Verified(p) THEN Goto(p, "replace") ELSE Ends(p, "integrity")
  /\ UNCHANGED <<remote, part, target, holding, seen, trouble>>

\* os.replace.
Replace(p) ==
  /\ At(p, "replace")
  /\ target' = [target EXCEPT ![PathOf[p]] = Part(p)]
  /\ Unlinked(p)
  /\ Goto(p, IF p \in Editor THEN "edit" ELSE "done")
  /\ UNCHANGED <<remote, holding, seen, trouble>>
-----------------------------------------------------------------------------
(* The end of a run *)

Finish(p) ==
  /\ At(p, "done")
  /\ Ends(p, "completed")
  /\ UNCHANGED <<remote, part, target, holding, seen, trouble>>

\* _cleanup, whose own errors are warnings, or the finally clause of edit.
Cleanup(p) ==
  /\ At(p, "cleanup")
  /\ holding' = holding \ {p}
  /\ part' = Left(p, part) /\ target' = Left(p, target)
  /\ run' = [run EXCEPT ![p] = Idle]
  /\ seen' = [seen EXCEPT ![p] = {}]
  /\ UNCHANGED <<remote, trouble>>

Running(p) == run[p].pc \notin {"idle", "cleanup"}

\* A control call fails twice, a local call once; or Ctrl-C.
Fails(p) ==
  /\ Running(p) /\ Trouble
  /\ Ends(p, "failed")
  /\ UNCHANGED <<remote, part, target, holding, seen>>

\* Also a second Ctrl-C, during the cleanup.
Killed(p) ==
  /\ ~At(p, "idle") /\ Trouble
  /\ Leaves(p, part)
  /\ UNCHANGED remote
-----------------------------------------------------------------------------
(* edit after its download, and the other programs of the VM *)

\* Every change of the remote file is noted for the runs that read it.
Changes(r, file) ==
  /\ remote' = [remote EXCEPT ![r] = file]
  /\ seen' = [p \in Proc |-> IF SourceOf[p] = r /\ p \in holding
                             THEN seen[p] \cup {file} ELSE seen[p]]

\* The editor returns; the file is as it was, or saved with new content.
Edit(p) ==
  /\ At(p, "edit")
  /\ \/ Ends(p, "completed") /\ UNCHANGED <<target, trouble>>
     \/ /\ Trouble
        /\ \E c \in Content :
             /\ File(c) # Target(p)
             /\ target' = [target EXCEPT ![PathOf[p]] = File(c)]
             /\ Goto(p, "upload")
  /\ UNCHANGED <<remote, part, holding, seen>>

\* A verified upload (FileUpload): all of it or nothing, whatever the remote
\* file is by now; a failing call may have delivered it.
EditUploads(p) ==
  /\ At(p, "upload")
  /\ Changes(SourceOf[p], Target(p))
  /\ \/ Ends(p, "completed") /\ UNCHANGED trouble
     \/ Ends(p, "failed") /\ Trouble
  /\ UNCHANGED <<part, target, holding>>

RemoteChanges ==
  /\ Trouble
  /\ \E r \in Runtime, file \in {NoFile} \cup {File(c) : c \in Content} :
       file # remote[r] /\ Changes(r, file)
  /\ UNCHANGED <<part, target, holding, run>>
-----------------------------------------------------------------------------
\* The steps the program takes by itself once it runs.
Work(p) ==
  \/ StatDigest(p) \/ StatSize(p) \/ Prepare(p) \/ ComparePrefix(p)
  \/ Read(p) \/ Verify(p) \/ Replace(p) \/ Finish(p) \/ Cleanup(p)

Next ==
  \/ \E p \in Proc : \/ Begin(p) \/ Refuse(p) \/ Work(p)
                     \/ WriteBreaks(p) \/ Fails(p) \/ Killed(p)
  \/ \E p \in Editor : Edit(p) \/ EditUploads(p)
  \/ RemoteChanges

Spec == Init /\ [][Next]_vars

\* A control call ends by its timeout; nobody has to start a run or to leave
\* the editor.
FairSpec == Spec /\ \A p \in Proc : WF_vars(Work(p))
-----------------------------------------------------------------------------
(* Properties *)

AllFiles == [exists : BOOLEAN, data : Seq(Nat)]
PC == {"idle", "stat", "size", "prepare", "prefix", "read", "replace", "done",
       "edit", "upload", "cleanup"}
Verdict == {"none", "busy", "not found", "integrity", "failed", "completed"}
Run == [pc : PC, resume : BOOLEAN, digest : Seq(Nat), size : Nat, offset : Nat,
        verdict : Verdict]

TypeOK ==
  /\ remote \in [Runtime -> AllFiles]
  /\ part \in [Path -> AllFiles]
  /\ target \in [Path -> AllFiles]
  /\ holding \subseteq Proc
  /\ run \in [Proc -> Run]
  /\ seen \in [Proc -> SUBSET AllFiles]
  /\ trouble \in Nat

\* Two runs never write the same part or target: a run at work has its lease,
\* and no two runs have the same one.
OneWriter ==
  /\ \A p \in Proc : p \in holding <=> ~At(p, "idle") /\ run[p].verdict # "busy"
  /\ \A p, q \in holding : Lease(p) = Lease(q) => p = q

\* The remote file has not changed since the run began.
Steady(p) == \A file \in seen[p] : file = Source(p)

SourceIsSeen == \A p \in holding : Source(p) \in seen[p]

\* What a run takes from stat_file is the digest of a file that was there, and
\* as long as the file does not change the part is a prefix of it.
DigestIsSeen ==
  \A p \in Proc :
    run[p].pc \in {"size", "prepare", "prefix", "read", "replace"} =>
      File(run[p].digest) \in seen[p]
PartFollows ==
  \A p \in Proc :
    /\ run[p].pc \in {"prepare", "prefix", "read"} /\ Steady(p) =>
         run[p].size = Len(run[p].digest)
    /\ run[p].pc \in {"prefix", "read", "replace"} => Part(p).exists
    /\ At(p, "prefix") => Len(Part(p).data) <= run[p].size
    /\ At(p, "read") /\ Steady(p) =>
         /\ run[p].offset <= run[p].size
         /\ Part(p).data = Prefix(run[p].digest, run[p].offset)
    /\ At(p, "replace") => Part(p).data = run[p].digest

\* A run that has replaced its target finds there, until it ends, a file the
\* VM had while it ran; edit opens such a file too, or an empty one if there
\* was none (docs/03_file_management.md: "unrelated failures are not hidden").
DoneIsDelivered ==
  \A p \in Proc :
    /\ At(p, "done") => Target(p) \in seen[p]
    /\ At(p, "edit") => \/ Target(p) \in seen[p]
                        \/ Target(p) = File(<<>>) /\ NoFile \in seen[p]

\* An error names what happened: the verification fails only when the remote
\* file changed during the run, whatever an earlier run, a kill or another VM
\* left in the part; "not found" is said only of a file that was missing.
ErrorsAreTrue ==
  \A p \in Proc : ~At(p, "idle") =>
    /\ run[p].verdict = "integrity" => ~Steady(p)
    /\ run[p].verdict = "not found" => NoFile \in seen[p]

\* What makes the invariant inductive: a missing file has no content, and a run
\* has a verdict when it is over and not before.
Shape ==
  /\ \A r \in Runtime : remote[r].exists \/ remote[r] = NoFile
  /\ \A f \in Path : target[f].exists \/ target[f] = NoFile
  /\ \A p \in Proc : run[p].verdict # "none" => At(p, "cleanup")

DownloadInv ==
  /\ TypeOK /\ OneWriter /\ Shape /\ SourceIsSeen /\ DigestIsSeen /\ PartFollows
  /\ DoneIsDelivered /\ ErrorsAreTrue

\* docs/03_file_management.md: "The final local path is replaced only after
\* full size and SHA verification": the target of a download becomes, in one
\* step, a file that its VM had during the run, never part of one or a mixture.
TargetIsDelivered ==
  [][\A p \in Downloader : Target(p)' # Target(p) =>
       \E q \in holding : PathOf[q] = PathOf[p] /\ Target(p)' \in seen[q]]_vars

\* A run that resumes never throws away bytes the remote file starts with,
\* unless the file changed during the run.
ProgressIsKept ==
  [][\A p \in Downloader :
       /\ p \in holding /\ run[p].resume /\ Steady(p)
       /\ Part(p).exists /\ Part(p).data = Prefix(Source(p).data, Len(Part(p).data))
       /\ Len(Part(p).data) > Len(Part(p).data)'
       => Target(p)' = Part(p)]_vars

\* A download that was started ends, also when the remote file becomes shorter
\* under it, and gives its lease back.
RunEnds == \A p \in Downloader : []<>(At(p, "idle") /\ p \notin holding)
=============================================================================
