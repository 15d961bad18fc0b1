-------------------------- MODULE UpdateCheckProofs --------------------------
(***************************************************************************)
(* Proofs about the stores of state.py and the update check, for any       *)
(* processes, names, releases and number of broken writes: the files under *)
(* their locks implement atomic stores (StoreTable), a strict operation    *)
(* never replaces a damaged one, and only what a check has fetched and     *)
(* saved is installed.                                                     *)
(***************************************************************************)
EXTENDS UpdateCheck, TLAPS

-----------------------------------------------------------------------------
(* Types of the stores *)

LEMMA DefaultType ==
  ASSUME NEW s \in Store
  PROVE  /\ Default(s) \in Values(s)
         /\ Damaged(s) \in Contents(s) /\ Intact(Default(s)) \in Contents(s)
<1>1. Default(s) \in Values(s)
  BY StoreAssumption DEF Default, Values, Store
<1> QED
  BY <1>1 DEF Damaged, Intact, Contents

LEMMA OpType ==
  ASSUME NEW op \in Reads \cup Writes
  PROVE  op.store \in Store
BY DEF Reads, Writes, SessionWrites, Saves, Store

LEMMA ContentType ==
  ASSUME StoreTypeOK, NEW s \in Store
  PROVE  Content(s) \in Contents(s)
<1>1. file[s] \in Files(s)
  BY DEF StoreTypeOK
<1>2. file[s].value \in Values(s)
  BY <1>1 DEF Files
<1>3. Intact(file[s].value) \in Contents(s)
  BY <1>2 DEF Intact, Contents
<1> QED
  BY <1>3, DefaultType DEF Content

LEMMA WrittenType ==
  ASSUME NEW op \in Writes, NEW c \in Contents(op.store)
  PROVE  Written(op, c).ok = TRUE /\ Written(op, c).value \in Values(op.store)
<1>1. CASE op \in SessionWrites
  <2>1. /\ op.store = "sessions" /\ op.kind # "save"
        /\ op.name \in Name /\ op.endpoint \in Endpoint
    BY <1>1 DEF SessionWrites, Adds, Removes
  <2>2. c.value \in [Name -> Endpoint \cup {NoEndpoint}]
    BY <2>1 DEF Contents, Values
  <2>3. \A e \in Endpoint \cup {NoEndpoint} :
          [c.value EXCEPT ![op.name] = e] \in [Name -> Endpoint \cup {NoEndpoint}]
    BY <2>2
  <2> QED
    BY <2>1, <2>3 DEF Written, Intact, Values
<1>2. CASE op \in Saves
  BY <1>2 DEF Saves, Written, Intact, Values
<1> QED
  BY <1>1, <1>2 DEF Writes

LEMMA FileType ==
  ASSUME NEW s \in Store
  PROVE  /\ \A text \in Texts : File(s, text) \in Files(s)
         /\ \A c : c.value \in Values(s) => Whole(c) \in Files(s)
BY DefaultType DEF File, Whole, Files, Texts
-----------------------------------------------------------------------------
(* The invariant of the stores *)

LEMMA InitStoreInv == StoreInit => StoreInv
<1> SUFFICES ASSUME StoreInit PROVE StoreInv
  OBVIOUS
<1>1. \A s \in Store : file[s] \in Initial(s) /\ DOMAIN file = Store
  BY DEF StoreInit, Store
<1>2. \A s \in Store : Initial(s) \subseteq Files(s)
  <2> SUFFICES ASSUME NEW s \in Store, NEW f \in Initial(s) PROVE f \in Files(s)
    OBVIOUS
  <2>1. CASE f = File(s, "absent")
    BY <2>1, FileType DEF Texts
  <2>2. ASSUME NEW v \in Values(s), f = Whole(Intact(v)) PROVE f \in Files(s)
    BY <2>2, FileType DEF Intact
  <2> QED
    BY <2>1, <2>2 DEF Initial
<1>3. DOMAIN file = Store
  BY DEF StoreInit
<1>4. \A p \in Proc : job[p] = NoJob
  BY DEF StoreInit
<1>5. DOMAIN job = Proc /\ breaks \in Nat
  BY DEF StoreInit
<1>6. StoreTypeOK
  BY <1>1, <1>2, <1>3, <1>4, <1>5 DEF StoreTypeOK, Job
<1>7. Locked
  BY <1>4 DEF Locked, On, At, NoJob
<1>8. SeenIsThere
  BY <1>4 DEF SeenIsThere, At, NoJob
<1> QED
  BY <1>6, <1>7, <1>8 DEF StoreInv

\* What a job is by its place in the operation.
LEMMA JobIs ==
  ASSUME StoreInv, NEW p \in Proc
  PROVE  /\ Writing(p) => /\ job[p].op \in Writes /\ job[p].seen \in Contents(job[p].op.store)
                          /\ On(p, job[p].op.store)
         /\ At(p, "read") => /\ job[p].op \in Reads /\ job[p].seen \in Contents(job[p].op.store)
                             /\ On(p, job[p].op.store)
         /\ At(p, "none") \/ At(p, "read") \/ Writing(p)
         /\ ~At(p, "none") => job[p].op.store \in Store
<1>1. Job(p)
  BY DEF StoreInv, StoreTypeOK
<1>2. CASE job[p] = NoJob
  BY <1>2 DEF NoJob, Writing, At
<1>3. CASE job[p].at = "read" /\ job[p] \in
             [at : {"read"}, op : Reads, seen : Contents(job[p].op.store)]
  <2>1. job[p].op \in Reads /\ job[p].seen \in Contents(job[p].op.store)
    BY <1>3
  <2>2. job[p].op.store \in Store
    BY <2>1, OpType
  <2> QED
    BY <1>3, <2>1, <2>2 DEF Writing, At, On
<1>4. CASE Writing(p) /\ job[p] \in
             [at : {"load", "truncate", "write", "sync"}, op : Writes,
              seen : Contents(job[p].op.store)]
  <2>1. job[p].op \in Writes /\ job[p].seen \in Contents(job[p].op.store)
    BY <1>4
  <2>2. job[p].op.store \in Store
    BY <2>1, OpType
  <2> QED
    BY <1>4, <2>1, <2>2 DEF Writing, At, On
<1> QED
  BY <1>1, <1>2, <1>3, <1>4 DEF Job

\* A step of process p leaves what the others are in alone.
LEMMA StoreFrame ==
  ASSUME StoreInv, NEW p \in Proc, NEW j, job' = [job EXCEPT ![p] = j],
         DOMAIN file' = Store, \A s \in Store : file'[s] \in Files(s),
         breaks' \in Nat,
         Job(p)',
         \A q \in Proc \ {p} : \A s \in Store : On(q, s) =>
           Content(s)' = Content(s) /\ (Writing(q) => file'[s] = file[s]),
         j.at # "none" =>
           \A q \in Proc \ {p} : On(q, j.op.store) => j.at = "read" /\ ~Writing(q),
         j.at \in {"read", "load", "truncate"} => j.seen = Content(j.op.store)',
         j.at \in {"truncate", "write", "sync"} => ~Refuses(j.op, j.seen),
         j.at = "write" => file'[j.op.store].text = "empty",
         j.at = "sync" => file'[j.op.store].text = "torn"
  PROVE  StoreInv'
<1>1. DOMAIN job' = Proc /\ job'[p] = j /\ \A q \in Proc \ {p} : job'[q] = job[q]
  BY DEF StoreInv, StoreTypeOK
<1>2. StoreTypeOK'
  <2>1. ASSUME NEW q \in Proc, q # p PROVE Job(q)'
    <3>1. Job(q)
      BY DEF StoreInv, StoreTypeOK
    <3> QED
      BY <1>1, <2>1, <3>1 DEF Job, Writing
  <2> QED
    BY <1>1, <2>1 DEF StoreTypeOK
<1>3. Locked'
  <2> SUFFICES ASSUME NEW a \in Proc, NEW b \in Proc, NEW s \in Store,
                      On(a, s)', On(b, s)', Writing(a)', a # b
               PROVE  FALSE
    BY DEF Locked
  <2>1. CASE a # p /\ b # p
    BY <1>1, <2>1 DEF StoreInv, Locked, On, At, Writing
  <2>2. CASE a = p
    <3>1. j.at # "none" /\ j.op.store = s /\ j.at # "read" /\ On(b, s)
      BY <1>1, <2>2 DEF On, At, Writing
    <3> QED
      BY <2>2, <3>1
  <2>3. CASE b = p
    <3>1. j.at # "none" /\ j.op.store = s /\ On(a, s) /\ Writing(a)
      BY <1>1, <2>3 DEF On, At, Writing
    <3> QED
      BY <2>3, <3>1
  <2> QED
    BY <2>1, <2>2, <2>3
<1>4. SeenIsThere'
  <2> SUFFICES ASSUME NEW q \in Proc
               PROVE  /\ job'[q].at \in {"read", "load", "truncate"} =>
                           job'[q].seen = Content(job[q].op.store)'
                      /\ job'[q].at \in {"truncate", "write", "sync"} =>
                           ~Refuses(job'[q].op, job'[q].seen)
                      /\ job'[q].at = "write" => file'[job'[q].op.store].text = "empty"
                      /\ job'[q].at = "sync" => file'[job'[q].op.store].text = "torn"
    BY DEF SeenIsThere, At
  <2>1. CASE q = p
    BY <1>1, <2>1 DEF Content
  <2>2. CASE q # p
    <3>1. job'[q] = job[q]
      BY <1>1, <2>2
    <3>2. CASE At(q, "none")
      BY <3>1, <3>2 DEF At
    <3>3. CASE ~At(q, "none")
      <4>1. PICK s \in Store : s = job[q].op.store /\ On(q, s)
        BY <3>3, JobIs DEF On
      <4>2. Content(s)' = Content(s)
        BY <2>2, <4>1
      <4>3. Writing(q) => file'[s] = file[s]
        BY <2>2, <4>1
      <4>4. /\ job[q].at \in {"read", "load", "truncate"} => job[q].seen = Content(s)
            /\ job[q].at \in {"truncate", "write", "sync"} => ~Refuses(job[q].op, job[q].seen)
            /\ job[q].at = "write" => file[s].text = "empty"
            /\ job[q].at = "sync" => file[s].text = "torn"
        BY <4>1 DEF StoreInv, SeenIsThere, At
      <4>5. Content(job[q].op.store)' = Content(s)'
        BY <3>1, <4>1 DEF Content
      <4> QED
        BY <3>1, <4>1, <4>2, <4>3, <4>4, <4>5 DEF Writing
    <3> QED
      BY <3>2, <3>3
  <2> QED
    BY <2>1, <2>2
<1> QED
  BY <1>2, <1>3, <1>4 DEF StoreInv
-----------------------------------------------------------------------------
(* The operations of the stores *)

\* A store that is missing or empty is as good as one with the default content.
LEMMA OpenedContent ==
  ASSUME StoreInv, NEW s \in Store,
         file' = IF file[s].text = "absent"
                 THEN [file EXCEPT ![s] = File(s, "empty")] ELSE file
  PROVE  /\ DOMAIN file' = Store
         /\ \A t \in Store : file'[t] \in Files(t) /\ Content(t)' = Content(t)
         /\ \A t \in Store \ {s} : file'[t] = file[t]
<1>1. DOMAIN file = Store /\ \A t \in Store : file[t] \in Files(t)
  BY DEF StoreInv, StoreTypeOK
<1>2. CASE file[s].text = "absent"
  <2>1. file' = [file EXCEPT ![s] = File(s, "empty")]
    BY <1>2
  <2>2. /\ DOMAIN file' = Store /\ file'[s] = File(s, "empty")
        /\ \A t \in Store \ {s} : file'[t] = file[t]
    BY <1>1, <2>1
  <2>3. file'[s] \in Files(s)
    BY <2>2, FileType DEF Texts
  <2>4. Content(s)' = Content(s)
    BY <1>2, <2>2 DEF Content, File
  <2>5. \A t \in Store \ {s} : Content(t)' = Content(t)
    BY <2>2 DEF Content
  <2> QED
    BY <1>1, <2>2, <2>3, <2>4, <2>5
<1>3. CASE file[s].text # "absent"
  <2>1. file' = file
    BY <1>3
  <2> QED
    BY <1>1, <2>1 DEF Content
<1> QED
  BY <1>2, <1>3

LEMMA LockSharedInv ==
  ASSUME StoreInv, NEW p \in Proc, NEW op \in Reads, LockShared(p, op)
  PROVE  StoreInv'
<1> DEFINE j == [at |-> "read", op |-> op, seen |-> Content(op.store)]
<1>1. job' = [job EXCEPT ![p] = j] /\ file' = file /\ breaks' = breaks
  BY DEF LockShared
<1>2. op.store \in Store /\ j.at = "read" /\ j.op = op /\ j.seen = Content(op.store)
  BY OpType
<1>3. Content(op.store) \in Contents(op.store)
  BY <1>2, ContentType DEF StoreInv
<1>4. job'[p] = j
  BY <1>1 DEF StoreInv, StoreTypeOK
<1>5. Job(p)'
  BY <1>3, <1>4 DEF Job
<1>6. \A s \in Store : Content(s)' = Content(s)
  BY <1>1 DEF Content
<1>7. \A q \in Proc : On(q, op.store) => ~Writing(q)
  BY DEF LockShared
<1>8. DOMAIN file' = Store /\ (\A s \in Store : file'[s] \in Files(s)) /\ breaks' \in Nat
  BY <1>1 DEF StoreInv, StoreTypeOK
<1>9. Content(op.store)' = Content(op.store)
  BY <1>2, <1>6
<1> QED
  <2> HIDE DEF j
  <2> QED
    BY <1>1, <1>2, <1>5, <1>6, <1>7, <1>8, <1>9, StoreFrame

LEMMA LockExclusiveInv ==
  ASSUME StoreInv, NEW p \in Proc, NEW op \in Writes, LockExclusive(p, op)
  PROVE  StoreInv'
<1> DEFINE j == [at |-> "load", op |-> op, seen |-> Content(op.store)]
<1>1. job' = [job EXCEPT ![p] = j] /\ breaks' = breaks
  BY DEF LockExclusive
<1>2. op.store \in Store /\ j.at = "load" /\ j.op = op /\ j.seen = Content(op.store)
  BY OpType
<1>3. /\ DOMAIN file' = Store
      /\ \A t \in Store : file'[t] \in Files(t) /\ Content(t)' = Content(t)
      /\ \A t \in Store \ {op.store} : file'[t] = file[t]
  BY <1>2, OpenedContent DEF LockExclusive
<1>4. Content(op.store) \in Contents(op.store)
  BY <1>2, ContentType DEF StoreInv
<1>5. job'[p] = j
  BY <1>1 DEF StoreInv, StoreTypeOK
<1>6. Job(p)'
  BY <1>4, <1>5 DEF Job, Writing
<1>7. \A q \in Proc : ~On(q, op.store)
  BY DEF LockExclusive
<1>8. breaks' \in Nat
  BY <1>1 DEF StoreInv, StoreTypeOK
<1>9. \A q \in Proc \ {p} : \A s \in Store : On(q, s) =>
        Content(s)' = Content(s) /\ (Writing(q) => file'[s] = file[s])
  BY <1>3, <1>7
<1>10. Content(op.store)' = Content(op.store)
  BY <1>2, <1>3
<1> QED
  <2> HIDE DEF j
  <2> QED
    BY <1>1, <1>2, <1>3, <1>6, <1>7, <1>8, <1>9, <1>10, StoreFrame

\* Reading, raising, finding nothing to do, and breaking off give the lock back.
LEMMA UnlocksInv ==
  ASSUME StoreInv, NEW p \in Proc, Unlocks(p), file' = file, breaks' \in Nat
  PROVE  StoreInv'
<1>1. job' = [job EXCEPT ![p] = NoJob]
  BY DEF Unlocks
<1>2. Job(p)'
  BY <1>1 DEF Job, StoreInv, StoreTypeOK
<1>3. \A s \in Store : Content(s)' = Content(s)
  BY DEF Content
<1>4. DOMAIN file' = Store /\ \A s \in Store : file'[s] \in Files(s)
  BY DEF StoreInv, StoreTypeOK
<1>5. NoJob.at = "none"
  BY DEF NoJob
<1> QED
  BY <1>1, <1>2, <1>3, <1>4, <1>5, StoreFrame

\* A writer is alone with its store.
LEMMA WriterAlone ==
  ASSUME StoreInv, NEW p \in Proc, Writing(p), NEW q \in Proc, On(q, job[p].op.store)
  PROVE  q = p
<1>1. PICK s \in Store : s = job[p].op.store /\ On(p, s)
  BY JobIs DEF Writing, At
<1> QED
  BY <1>1 DEF StoreInv, Locked

\* The job of a writer that goes on, and has seen c.
Moved(p, at, c) == [job[p] EXCEPT !.at = at, !.seen = c]

LEMMA MovedIs ==
  ASSUME StoreInv, NEW p \in Proc, Writing(p), NEW at \in {"load", "truncate", "write", "sync"},
         NEW c \in Contents(job[p].op.store)
  PROVE  /\ Moved(p, at, c).at = at /\ Moved(p, at, c).op = job[p].op
         /\ Moved(p, at, c).seen = c
         /\ Moved(p, at, c) \in [at : {"load", "truncate", "write", "sync"}, op : Writes,
                                 seen : Contents(job[p].op.store)]
<1>1. job[p] \in [at : {"load", "truncate", "write", "sync"}, op : Writes,
                  seen : Contents(job[p].op.store)]
  BY DEF StoreInv, StoreTypeOK, Job, Writing, NoJob
<1> QED
  BY <1>1 DEF Moved

LEMMA WriterType ==
  ASSUME StoreInv, NEW p \in Proc, NEW s, NEW j, job' = [job EXCEPT ![p] = j],
         j \in [at : {"load", "truncate", "write", "sync"}, op : Writes, seen : Contents(s)],
         j.op.store = s
  PROVE  Job(p)'
<1>1. job'[p] = j
  BY DEF StoreInv, StoreTypeOK
<1> QED
  BY <1>1 DEF Job, Writing

LEMMA LoadInv ==
  ASSUME StoreInv, NEW p \in Proc, Load(p)
  PROVE  StoreInv'
<1>1. file' = file /\ breaks' = breaks /\ breaks \in Nat
  BY DEF Load, StoreInv, StoreTypeOK
<1>2. PICK s \in Store : s = job[p].op.store
  BY JobIs DEF Load, At
<1>3. CASE Refuses(job[p].op, Content(s))
  <2>1. Unlocks(p)
    BY <1>2, <1>3 DEF Load
  <2> QED
    BY <1>1, <2>1, UnlocksInv
<1>4. CASE ~Refuses(job[p].op, Content(s))
  <2>1. PICK j : j = Moved(p, "truncate", Content(s))
    OBVIOUS
  <2>2. job' = [job EXCEPT ![p] = j]
    BY <1>2, <1>4, <2>1 DEF Load, Moved
  <2>3. Writing(p) /\ Content(s) \in Contents(job[p].op.store)
    BY <1>2, ContentType DEF Load, At, Writing, StoreInv
  <2>4. /\ j.at = "truncate" /\ j.op = job[p].op /\ j.seen = Content(s)
         /\ j \in [at : {"load", "truncate", "write", "sync"}, op : Writes, seen : Contents(s)]
    BY <1>2, <2>1, <2>3, MovedIs
  <2>5. Job(p)'
    BY <1>2, <2>2, <2>4, WriterType
  <2>6. \A t \in Store : Content(t)' = Content(t)
    BY <1>1 DEF Content
  <2>7. DOMAIN file' = Store /\ \A t \in Store : file'[t] \in Files(t)
    BY <1>1 DEF StoreInv, StoreTypeOK
  <2>8. \A q \in Proc \ {p} : ~On(q, s)
    BY <1>2, <2>3, WriterAlone
  <2>9. j.op.store = s
    BY <1>2, <2>4
  <2>10. Content(j.op.store)' = Content(s)
    BY <1>1, <2>9 DEF Content
  <2> QED
    BY <1>1, <1>4, <2>2, <2>5, <2>6, <2>7, <2>8, <2>9, <2>10, <2>4, StoreFrame
<1> QED
  BY <1>3, <1>4

\* The two writes that leave the file empty or torn.
LEMMA PutsInv ==
  ASSUME StoreInv, NEW p \in Proc, Truncate(p) \/ Write(p)
  PROVE  StoreInv'
<1>1. PICK s \in Store : s = job[p].op.store
  BY JobIs DEF Truncate, Write, At
<1>2. PICK at \in {"write", "sync"}, text \in {"empty", "torn"} :
        /\ Puts(p, text) /\ Goto(p, at)
        /\ at = "write" => text = "empty"
        /\ at = "sync" => text = "torn"
  BY DEF Truncate, Write
<1>3. PICK j : j = Moved(p, at, job[p].seen)
  OBVIOUS
<1>4. Writing(p) /\ job[p].seen \in Contents(job[p].op.store)
      /\ ~Refuses(job[p].op, job[p].seen)
  <2>1. Writing(p)
    BY DEF Truncate, Write, At, Writing
  <2> QED
    BY <2>1, JobIs DEF Truncate, Write, At, StoreInv, SeenIsThere
<1>5. [job[p] EXCEPT !.at = at] = j
  <2>1. job[p] \in [at : {"load", "truncate", "write", "sync"}, op : Writes,
                    seen : Contents(job[p].op.store)]
    BY <1>4 DEF StoreInv, StoreTypeOK, Job, Writing, NoJob
  <2> QED
    BY <1>3, <2>1 DEF Moved
<1>6. job' = [job EXCEPT ![p] = j]
  BY <1>2, <1>5 DEF Goto
<1>7. /\ j.at = at /\ j.op = job[p].op /\ j.seen = job[p].seen
      /\ j \in [at : {"load", "truncate", "write", "sync"}, op : Writes, seen : Contents(s)]
  BY <1>1, <1>2, <1>3, <1>4, MovedIs
<1>8. Job(p)'
  BY <1>1, <1>6, <1>7, WriterType
<1>9. file' = [file EXCEPT ![s] = File(s, text)]
  BY <1>1, <1>2 DEF Puts
<1>10. /\ DOMAIN file' = Store /\ file'[s] = File(s, text)
      /\ \A t \in Store \ {s} : file'[t] = file[t]
  BY <1>9 DEF StoreInv, StoreTypeOK
<1>11. File(s, text) \in Files(s)
  BY FileType DEF Texts
<1>12. \A t \in Store : file'[t] \in Files(t)
  BY <1>10, <1>11 DEF StoreInv, StoreTypeOK
<1>13. \A q \in Proc \ {p} : ~On(q, s)
  BY <1>1, <1>4, WriterAlone
<1>14. \A q \in Proc \ {p} : \A t \in Store : On(q, t) =>
         Content(t)' = Content(t) /\ (Writing(q) => file'[t] = file[t])
  BY <1>10, <1>13 DEF Content
<1>15. breaks' \in Nat
  BY DEF Truncate, Write, StoreInv, StoreTypeOK
<1>16. file'[s].text = text /\ j.op.store = s
  BY <1>1, <1>7, <1>10 DEF File
<1> QED
  BY <1>2, <1>4, <1>6, <1>7, <1>10, <1>12, <1>13, <1>14, <1>15, <1>16, <1>8, StoreFrame

LEMMA SyncInv ==
  ASSUME StoreInv, NEW p \in Proc, Sync(p)
  PROVE  StoreInv'
<1>1. PICK s \in Store : s = job[p].op.store
  BY JobIs DEF Sync, At
<1>2. Writing(p) /\ job[p].op \in Writes /\ job[p].seen \in Contents(s)
  <2>1. Writing(p)
    BY DEF Sync, At, Writing
  <2> QED
    BY <1>1, <2>1, JobIs
<1> DEFINE f == Whole(Written(job[p].op, job[p].seen))
<1>3. f \in Files(s)
  BY <1>1, <1>2, WrittenType, FileType
<1>4. file' = [file EXCEPT ![s] = f]
  BY <1>1 DEF Sync
<1>5. /\ DOMAIN file' = Store /\ \A t \in Store : file'[t] \in Files(t)
      /\ \A t \in Store \ {s} : file'[t] = file[t]
  <2> HIDE DEF f
  <2> QED
    BY <1>3, <1>4 DEF StoreInv, StoreTypeOK
<1>6. \A q \in Proc \ {p} : ~On(q, s)
  BY <1>1, <1>2, WriterAlone
<1>7. \A q \in Proc \ {p} : \A t \in Store : On(q, t) =>
        Content(t)' = Content(t) /\ (Writing(q) => file'[t] = file[t])
  BY <1>5, <1>6 DEF Content
<1>8. job' = [job EXCEPT ![p] = NoJob] /\ breaks' \in Nat /\ Job(p)'
  BY DEF Sync, Unlocks, StoreInv, StoreTypeOK, Job
<1>9. NoJob.at = "none"
  BY DEF NoJob
<1> QED
  BY <1>5, <1>7, <1>8, <1>9, StoreFrame

LEMMA NextStoreInv == StoreInv /\ [StoreNext]_storeVars => StoreInv'
<1> SUFFICES ASSUME StoreInv, [StoreNext]_storeVars PROVE StoreInv'
  OBVIOUS
<1>1. CASE UNCHANGED storeVars
  <2>1. StoreTypeOK'
    BY <1>1 DEF storeVars, StoreInv, StoreTypeOK, Job, Writing
  <2>2. Locked'
    BY <1>1 DEF storeVars, StoreInv, Locked, On, At, Writing
  <2>3. SeenIsThere'
    BY <1>1 DEF storeVars, StoreInv, SeenIsThere, At, Content
  <2> QED
    BY <2>1, <2>2, <2>3 DEF StoreInv
<1>2. ASSUME NEW p \in Proc, Read(p) \/ Break(p) PROVE StoreInv'
  <2>1. Unlocks(p) /\ file' = file /\ breaks' \in Nat
    BY <1>2 DEF Read, Break, StoreInv, StoreTypeOK
  <2> QED
    BY <2>1, UnlocksInv
<1> QED
  BY <1>1, <1>2, LockSharedInv, LockExclusiveInv, LoadInv, PutsInv, SyncInv
  DEF StoreNext, StoreStep

\* The stores alone: readers or one writer, and what an operation has read is there
\* until it replaces it.
THEOREM StoreInvariance == StoreSpec => []StoreInv
BY InitStoreInv, NextStoreInv, PTL DEF StoreSpec
-----------------------------------------------------------------------------
(* The stores are atomic. *)

\* The content a store has for those who come next: what a write under way has
\* read, or what the file is.
LEMMA TableIs ==
  StoreInv => \A s \in Store :
    /\ \A p \in Proc : MidWrite(p, s) => AbstractTable[s] = job[p].seen
    /\ (\A p \in Proc : ~MidWrite(p, s)) => AbstractTable[s] = Content(s)
<1> SUFFICES ASSUME StoreInv, NEW s \in Store
             PROVE  /\ \A p \in Proc : MidWrite(p, s) => AbstractTable[s] = job[p].seen
                    /\ (\A p \in Proc : ~MidWrite(p, s)) => AbstractTable[s] = Content(s)
  OBVIOUS
<1>1. ASSUME NEW p \in Proc, MidWrite(p, s) PROVE AbstractTable[s] = job[p].seen
  <2>1. \A q \in Proc : MidWrite(q, s) => q = p
    BY <1>1 DEF MidWrite, StoreInv, Locked, Writing
  <2>2. (CHOOSE q \in Proc : MidWrite(q, s)) = p
    BY <1>1, <2>1
  <2> QED
    BY <1>1, <2>2 DEF AbstractTable
<1>2. (\A p \in Proc : ~MidWrite(p, s)) => AbstractTable[s] = Content(s)
  BY DEF AbstractTable
<1> QED
  BY <1>1, <1>2

LEMMA TableIsNext ==
  (StoreInv => \A s \in Store :
     /\ \A p \in Proc : MidWrite(p, s) => AbstractTable[s] = job[p].seen
     /\ (\A p \in Proc : ~MidWrite(p, s)) => AbstractTable[s] = Content(s))'
BY TableIs, PTL

LEMMA TableIsFunction == AbstractTable = [s \in Store |-> AbstractTable[s]]
BY DEF AbstractTable

LEMMA TableIsFunctionNext == AbstractTable' = [s \in Store |-> AbstractTable'[s]]
<1>1. (AbstractTable = [s \in Store |-> AbstractTable[s]])'
  BY TableIsFunction, PTL
<1> QED
  BY <1>1

\* The operations of StoreTable are those of StoreOps.
LEMMA SameOps ==
  /\ A!Store = Store /\ A!Writes = Writes
  /\ \A op, c : /\ A!Raises(op, c) <=> Raises(op, c)
                /\ A!Keeps(op, c) <=> Keeps(op, c)
                /\ A!Written(op, c) = Written(op, c)
  /\ \A s : A!Default(s) = Default(s) /\ A!Damaged(s) = Damaged(s)
  /\ \A v : A!Intact(v) = Intact(v)
<1>1. A!Store = Store /\ A!Writes = Writes
  BY DEF A!Store, Store, A!Writes, Writes, A!SessionWrites, SessionWrites, A!Saves, Saves,
         A!Adds, Adds, A!Removes, Removes
<1>2. \A op, c : A!Raises(op, c) <=> Raises(op, c)
  BY DEF A!Raises, Raises, A!StrictKind, StrictKind
<1>3. \A op, c : A!Keeps(op, c) <=> Keeps(op, c)
  BY DEF A!Keeps, Keeps
<1>4. \A v : A!Intact(v) = Intact(v)
  BY DEF A!Intact, Intact
<1>5. \A op, c : A!Written(op, c) = Written(op, c)
  BY DEF A!Written, Written, A!Intact, Intact, A!Adds, Adds
<1>6. \A s : A!Default(s) = Default(s) /\ A!Damaged(s) = Damaged(s)
  BY DEF A!Default, Default, A!Damaged, Damaged
<1> QED
  BY <1>1, <1>2, <1>3, <1>4, <1>5, <1>6

LEMMA InitAtomic == StoreInit => A!Init
<1> SUFFICES ASSUME StoreInit PROVE A!Init
  OBVIOUS
<1>1. StoreInv
  BY InitStoreInv
<1>2. \A s \in Store : AbstractTable[s] = Content(s)
  BY <1>1, TableIs DEF StoreInit, MidWrite, On, At, NoJob
<1>3. \A s \in Store : file[s] \in Initial(s)
  BY DEF StoreInit, Store
<1>4. \A s \in Store : \E v \in Values(s) : Content(s) = Intact(v)
  <2> SUFFICES ASSUME NEW s \in Store PROVE \E v \in Values(s) : Content(s) = Intact(v)
    OBVIOUS
  <2>1. CASE file[s] = File(s, "absent")
    BY <2>1, DefaultType DEF File, Content
  <2>2. ASSUME NEW v \in Values(s), file[s] = Whole(Intact(v))
        PROVE  Content(s) = Intact(v)
    BY <2>2 DEF Whole, Intact, Content
  <2> QED
    BY <1>3, <2>1, <2>2 DEF Initial
<1>5. PICK v \in Values("sessions") : Content("sessions") = Intact(v)
  BY <1>4 DEF Store
<1>6. PICK w \in Setting : Content("settings") = Intact(w)
  BY <1>4 DEF Store, Values
<1>7. AbstractTable = [s \in Store |-> Intact(IF s = "sessions" THEN v ELSE w)]
  <2>1. \A s \in Store : AbstractTable[s] = Intact(IF s = "sessions" THEN v ELSE w)
    BY <1>2, <1>5, <1>6 DEF Store
  <2> QED
    BY <2>1, TableIsFunction
<1>8. A!Values("sessions") = Values("sessions")
  BY DEF A!Values, Values
<1>9. breaks = 0
  BY DEF StoreInit
<1> QED
  BY <1>7, <1>8, <1>9, SameOps DEF A!Init

\* A step of p does not change what a store is whose write is another's.
LEMMA OthersTable ==
  ASSUME StoreInv, StoreInv', NEW p \in Proc, \A q \in Proc \ {p} : job'[q] = job[q],
         NEW q \in Proc, q # p, NEW s \in Store, MidWrite(q, s)
  PROVE  AbstractTable'[s] = AbstractTable[s]
<1>1. MidWrite(q, s)' /\ job'[q].seen = job[q].seen
  BY DEF MidWrite, On, At
<1>2. AbstractTable'[s] = job'[q].seen
  BY <1>1, TableIsNext
<1> QED
  BY <1>1, <1>2, TableIs

\* Nor one that p is not writing, if its content is the same.
LEMMA SameTable ==
  ASSUME StoreInv, StoreInv', NEW p \in Proc, \A q \in Proc \ {p} : job'[q] = job[q],
         NEW s \in Store, ~MidWrite(p, s), ~MidWrite(p, s)', Content(s)' = Content(s)
  PROVE  AbstractTable'[s] = AbstractTable[s]
<1>1. CASE \E q \in Proc : MidWrite(q, s)
  BY <1>1, OthersTable
<1>2. CASE \A q \in Proc : ~MidWrite(q, s)
  <2>1. \A q \in Proc : ~MidWrite(q, s)'
    BY <1>2 DEF MidWrite, On, At
  <2>2. AbstractTable'[s] = Content(s)'
    BY <2>1, TableIsNext
  <2> QED
    BY <1>2, <2>2, TableIs
<1> QED
  BY <1>1, <1>2

\* Nor one whose write p has under way and goes on with.
LEMMA SameWrite ==
  ASSUME StoreInv, StoreInv', NEW p \in Proc, NEW s \in Store,
         MidWrite(p, s), MidWrite(p, s)', job'[p].seen = job[p].seen
  PROVE  AbstractTable'[s] = AbstractTable[s]
BY TableIs, TableIsNext

LEMMA SameTables ==
  ASSUME \A s \in Store : AbstractTable'[s] = AbstractTable[s]
  PROVE  AbstractTable' = AbstractTable
BY TableIsFunction, TableIsFunctionNext

\* What a step of p does to the jobs.
LEMMA JobsOf ==
  ASSUME StoreInv, NEW p \in Proc, NEW j, job' = [job EXCEPT ![p] = j]
  PROVE  job'[p] = j /\ \A q \in Proc \ {p} : job'[q] = job[q]
BY DEF StoreInv, StoreTypeOK

LEMMA UnlockedJobs ==
  ASSUME StoreInv, NEW p \in Proc, Unlocks(p)
  PROVE  job'[p].at = "none" /\ \A q \in Proc \ {p} : job'[q] = job[q]
<1>1. job' = [job EXCEPT ![p] = NoJob]
  BY DEF Unlocks
<1>2. job'[p] = NoJob /\ \A q \in Proc \ {p} : job'[q] = job[q]
  BY <1>1, JobsOf
<1> QED
  BY <1>2 DEF NoJob

\* Until the file is truncated, and when it is, nothing has happened.
LEMMA QuietStep ==
  ASSUME StoreInv, StoreInv', NEW p \in Proc,
         \/ \E op \in Reads : LockShared(p, op)
         \/ \E op \in Writes : LockExclusive(p, op)
         \/ Read(p) \/ Load(p)
  PROVE  UNCHANGED <<AbstractTable, breaks>>
<1>1. PICK j : job' = [job EXCEPT ![p] = j] /\ j.at \in {"read", "load", "none", "truncate"}
  <2>1. NoJob.at = "none"
    BY DEF NoJob
  <2>2. CASE Load(p)
    <3>1. Writing(p)
      BY <2>2 DEF Load, At, Writing
    <3>2. \A c : [job[p] EXCEPT !.at = "truncate", !.seen = c].at = "truncate"
      BY <3>1 DEF StoreInv, StoreTypeOK, Job, Writing, NoJob
    <3> QED
      BY <2>1, <2>2, <3>2 DEF Load, Unlocks
  <2>3. CASE Read(p)
    BY <2>1, <2>3 DEF Read, Unlocks
  <2>4. ASSUME NEW op, LockShared(p, op) \/ LockExclusive(p, op)
        PROVE  \E j : job' = [job EXCEPT ![p] = j] /\ j.at \in {"read", "load", "none", "truncate"}
    <3>1. PICK at \in {"read", "load"} :
            job' = [job EXCEPT ![p] = [at |-> at, op |-> op, seen |-> Content(op.store)]]
      BY <2>4 DEF LockShared, LockExclusive
    <3>2. [at |-> at, op |-> op, seen |-> Content(op.store)].at = at
      OBVIOUS
    <3> QED
      BY <3>1, <3>2
  <2> QED
    BY <2>2, <2>3, <2>4
<1>2. job'[p].at \in {"read", "load", "none", "truncate"}
      /\ \A q \in Proc \ {p} : job'[q] = job[q]
  BY <1>1, JobsOf
<1>3. job[p].at \in {"none", "read", "load"}
  BY DEF LockShared, LockExclusive, Read, Load, At
<1>4. \A s \in Store : ~MidWrite(p, s) /\ ~MidWrite(p, s)'
  BY <1>2, <1>3 DEF MidWrite
<1>5. \A s \in Store : Content(s)' = Content(s)
  <2>1. CASE file' = file
    BY <2>1 DEF Content
  <2>2. ASSUME NEW op \in Writes, LockExclusive(p, op)
        PROVE  \A s \in Store : Content(s)' = Content(s)
    BY <2>2, OpType, OpenedContent DEF LockExclusive
  <2> QED
    BY <2>1, <2>2 DEF LockShared, Read, Load
<1>6. breaks' = breaks
  BY DEF LockShared, LockExclusive, Read, Load
<1> QED
  BY <1>2, <1>4, <1>5, <1>6, SameTable, SameTables

LEMMA PutsStep ==
  ASSUME StoreInv, StoreInv', NEW p \in Proc, Truncate(p) \/ Write(p)
  PROVE  UNCHANGED <<AbstractTable, breaks>>
<1>1. Writing(p) /\ job[p].at \in {"truncate", "write"}
  BY DEF Truncate, Write, At, Writing
<1>2. PICK s \in Store : s = job[p].op.store /\ On(p, s)
  BY <1>1, JobIs DEF Writing, At
<1>3. PICK at \in {"write", "sync"}, text \in {"empty", "torn"} :
        /\ Puts(p, text) /\ Goto(p, at)
  BY DEF Truncate, Write
<1>4. [job[p] EXCEPT !.at = at] = Moved(p, at, job[p].seen)
  BY <1>1 DEF StoreInv, StoreTypeOK, Job, Writing, NoJob, Moved
<1>5. PICK j : j = Moved(p, at, job[p].seen)
  OBVIOUS
<1>6. job'[p] = j /\ \A q \in Proc \ {p} : job'[q] = job[q]
  BY <1>3, <1>4, <1>5, JobsOf DEF Goto
<1>7. job[p].seen \in Contents(job[p].op.store)
  BY <1>1, JobIs
<1>8. j.at = at /\ j.op = job[p].op /\ j.seen = job[p].seen
  BY <1>1, <1>5, <1>7, MovedIs
<1>9. MidWrite(p, s)'
  BY <1>2, <1>6, <1>8 DEF MidWrite, On, At
<1>10. AbstractTable'[s] = job[p].seen
  BY <1>6, <1>8, <1>9, TableIsNext
<1>11. AbstractTable[s] = job[p].seen
  <2>1. CASE At(p, "write")
    <3>1. MidWrite(p, s)
      BY <1>2, <2>1 DEF MidWrite, At
    <3> QED
      BY <3>1, TableIs
  <2>2. CASE At(p, "truncate")
    <3>1. \A q \in Proc : ~MidWrite(q, s)
      <4>1. ~MidWrite(p, s)
        BY <2>2 DEF MidWrite, At
      <4> QED
        BY <1>1, <1>2, <4>1, WriterAlone DEF MidWrite
    <3>2. job[p].seen = Content(s)
      BY <1>2, <2>2 DEF StoreInv, SeenIsThere, At
    <3> QED
      BY <3>1, <3>2, TableIs
  <2> QED
    BY <1>1, <2>1, <2>2 DEF At
<1>12. ASSUME NEW t \in Store, t # s PROVE AbstractTable'[t] = AbstractTable[t]
  <2>1. ~MidWrite(p, t) /\ ~MidWrite(p, t)'
    BY <1>2, <1>6, <1>8, <1>12 DEF MidWrite, On
  <2>2. file'[t] = file[t]
    BY <1>2, <1>3, <1>12 DEF Puts, StoreInv, StoreTypeOK
  <2>3. Content(t)' = Content(t)
    BY <2>2 DEF Content
  <2> QED
    BY <1>6, <2>1, <2>3, SameTable
<1>13. AbstractTable' = AbstractTable
  BY <1>10, <1>11, <1>12, SameTables
<1> QED
  BY <1>13 DEF Truncate, Write

\* A step that ends the operation of p leaves the other store alone.
LEMMA OtherStore ==
  ASSUME StoreInv, StoreInv', NEW p \in Proc, Unlocks(p),
         NEW s \in Store, On(p, s), NEW t \in Store, t # s, file'[t] = file[t]
  PROVE  AbstractTable'[t] = AbstractTable[t]
<1>1. job'[p].at = "none" /\ \A q \in Proc \ {p} : job'[q] = job[q]
  BY UnlockedJobs
<1>2. ~MidWrite(p, t) /\ ~MidWrite(p, t)'
  BY <1>1 DEF MidWrite, On
<1>3. Content(t)' = Content(t)
  BY DEF Content
<1> QED
  BY <1>1, <1>2, <1>3, SameTable

\* Nobody writes a store whose writer has ended.
LEMMA WriterEnds ==
  ASSUME StoreInv, StoreInv', NEW p \in Proc, Unlocks(p),
         NEW s \in Store, MidWrite(p, s)
  PROVE  AbstractTable'[s] = Content(s)'
<1>1. job'[p].at = "none" /\ \A q \in Proc \ {p} : job'[q] = job[q]
  BY UnlockedJobs
<1>2. \A q \in Proc \ {p} : ~On(q, s)
  BY DEF MidWrite, StoreInv, Locked, Writing
<1>3. \A q \in Proc : ~MidWrite(q, s)'
  BY <1>1, <1>2 DEF MidWrite, On, At
<1> QED
  BY <1>3, TableIsNext

\* A finished write is what the store is from now on.
LEMMA SyncTable ==
  ASSUME StoreInv, StoreInv', NEW p \in Proc, Sync(p)
  PROVE  /\ AbstractTable[job[p].op.store] = job[p].seen
         /\ AbstractTable'[job[p].op.store] = Written(job[p].op, job[p].seen)
         /\ \A t \in Store \ {job[p].op.store} : AbstractTable'[t] = AbstractTable[t]
<1>1. Writing(p) /\ Unlocks(p)
  BY DEF Sync, At, Writing
<1>2. PICK s \in Store : s = job[p].op.store /\ On(p, s)
  BY <1>1, JobIs DEF Writing, At
<1>3. MidWrite(p, s)
  BY <1>2 DEF MidWrite, Sync, At
<1>4. PICK op, c : op = job[p].op /\ c = job[p].seen
  OBVIOUS
<1>5. file' = [file EXCEPT ![s] = Whole(Written(op, c))]
  BY <1>2, <1>4 DEF Sync
<1>6. file'[s] = Whole(Written(op, c)) /\ \A t \in Store \ {s} : file'[t] = file[t]
  BY <1>5 DEF StoreInv, StoreTypeOK
<1>7. Content(s)' = Written(op, c)
  <2>1. Intact(Written(op, c).value) = Written(op, c)
    BY DEF Written, Intact
  <2> QED
    BY <1>6, <2>1 DEF Content, Whole
<1>8. AbstractTable[s] = c /\ AbstractTable'[s] = Written(op, c)
  BY <1>1, <1>3, <1>4, <1>7, TableIs, WriterEnds
<1>9. \A t \in Store \ {s} : AbstractTable'[t] = AbstractTable[t]
  BY <1>1, <1>2, <1>6, OtherStore
<1> QED
  BY <1>2, <1>4, <1>8, <1>9

LEMMA SyncStep ==
  ASSUME StoreInv, StoreInv', NEW p \in Proc, Sync(p)
  PROVE  [A!Next]_<<AbstractTable, breaks>>
<1>1. Writing(p) /\ breaks' = breaks
  BY DEF Sync, At, Writing
<1>2. PICK s, op, c : s = job[p].op.store /\ op = job[p].op /\ c = job[p].seen
  OBVIOUS
<1>3. s \in Store
  BY <1>1, <1>2, JobIs DEF Writing, At
<1>4. op \in Writes /\ ~Refuses(op, c)
  <2>1. ~Refuses(job[p].op, job[p].seen)
    BY DEF Sync, At, StoreInv, SeenIsThere
  <2> QED
    BY <1>1, <1>2, <2>1, JobIs
<1>5. /\ AbstractTable[s] = c /\ AbstractTable'[s] = Written(op, c)
      /\ \A t \in Store \ {s} : AbstractTable'[t] = AbstractTable[t]
  BY <1>2, <1>3, SyncTable
<1>6. AbstractTable' = [AbstractTable EXCEPT ![s] = Written(op, c)]
  BY <1>5, <1>3, TableIsFunction, TableIsFunctionNext
<1>7. CASE AbstractTable' = AbstractTable
  BY <1>1, <1>7
<1>8. CASE AbstractTable' # AbstractTable
  <2>1. op.store = s /\ ~Raises(op, c) /\ ~Keeps(op, c)
    BY <1>2, <1>4 DEF Refuses
  <2>2. A!Takes(AbstractTable, AbstractTable')
    BY <1>4, <1>5, <1>6, <1>8, <1>3, <2>1, SameOps DEF A!Takes
  <2> QED
    BY <1>1, <2>2 DEF A!Next
<1> QED
  BY <1>7, <1>8

\* A broken write leaves what there was, nothing, or what does not parse.
LEMMA BreakTable ==
  ASSUME StoreInv, StoreInv', NEW p \in Proc, Break(p)
  PROVE  \E s \in Store :
           /\ \A t \in Store \ {s} : AbstractTable'[t] = AbstractTable[t]
           /\ AbstractTable'[s] \in {AbstractTable[s], Intact(Default(s)), Damaged(s)}
<1>1. Unlocks(p) /\ file' = file
  BY DEF Break
<1>2. PICK s \in Store : s = job[p].op.store /\ On(p, s)
  BY JobIs DEF Break, On
<1>3. \A t \in Store \ {s} : AbstractTable'[t] = AbstractTable[t]
  BY <1>1, <1>2, OtherStore
<1>4. AbstractTable'[s] \in {AbstractTable[s], Intact(Default(s)), Damaged(s)}
  <2>1. CASE MidWrite(p, s)
    <3>1. file[s].text \in {"empty", "torn"}
      BY <1>2, <2>1 DEF MidWrite, At, StoreInv, SeenIsThere
    <3>2. Content(s)' \in {Intact(Default(s)), Damaged(s)}
      BY <1>1, <3>1 DEF Content
    <3> QED
      BY <1>1, <2>1, <3>2, WriterEnds
  <2>2. CASE ~MidWrite(p, s)
    <3>1. job'[p].at = "none" /\ \A q \in Proc \ {p} : job'[q] = job[q]
      BY <1>1, UnlockedJobs
    <3>2. ~MidWrite(p, s)'
      BY <3>1 DEF MidWrite
    <3>3. Content(s)' = Content(s)
      BY <1>1 DEF Content
    <3> QED
      BY <2>2, <3>1, <3>2, <3>3, SameTable
  <2> QED
    BY <2>1, <2>2
<1> QED
  BY <1>3, <1>4

LEMMA BreakStep ==
  ASSUME StoreInv, StoreInv', NEW p \in Proc, Break(p)
  PROVE  A!Next
<1>1. breaks' = breaks + 1
  BY DEF Break
<1>2. PICK s \in Store :
        /\ \A t \in Store \ {s} : AbstractTable'[t] = AbstractTable[t]
        /\ AbstractTable'[s] \in {AbstractTable[s], Intact(Default(s)), Damaged(s)}
  BY BreakTable
<1>3. AbstractTable' = [AbstractTable EXCEPT ![s] = AbstractTable'[s]]
  BY <1>2, TableIsFunction, TableIsFunctionNext
<1>4. A!BreaksOff(AbstractTable, AbstractTable')
  BY <1>2, <1>3, SameOps DEF A!BreaksOff
<1> QED
  BY <1>1, <1>4 DEF A!Next

LEMMA TableStays == UNCHANGED storeVars => AbstractTable' = AbstractTable
<1> SUFFICES ASSUME UNCHANGED storeVars PROVE AbstractTable' = AbstractTable
  OBVIOUS
<1>1. \A s \in Store : AbstractTable'[s] = AbstractTable[s]
  BY DEF storeVars, AbstractTable, MidWrite, On, At, Content
<1> QED
  BY <1>1, SameTables

LEMMA NextAtomic ==
  StoreInv /\ StoreInv' /\ [StoreNext]_storeVars => [A!Next]_<<AbstractTable, breaks>>
<1> SUFFICES ASSUME StoreInv, StoreInv', [StoreNext]_storeVars
             PROVE  [A!Next]_<<AbstractTable, breaks>>
  OBVIOUS
<1>1. CASE UNCHANGED storeVars
  BY <1>1, TableStays DEF storeVars
<1> QED
  BY <1>1, QuietStep, PutsStep, SyncStep, BreakStep DEF StoreNext, StoreStep

\* The files and their locks are as good as stores whose operations take effect at
\* one moment; only a write that breaks off loses or damages a content.
THEOREM LocksAreAtomic == StoreSpec => AtomicStores
BY InitAtomic, NextAtomic, StoreInvariance, PTL DEF StoreSpec, AtomicStores, A!TableSpec

LEMMA StrictStep ==
  StoreInv /\ [StoreNext]_storeVars =>
    \A s \in Store : file[s].text = "torn" /\ file'[s] # file[s] =>
      \E p \in Proc : /\ On(p, s) /\ Writing(p)
                      /\ At(p, "truncate") => job[p].op.kind \notin StrictKind
<1> SUFFICES ASSUME StoreInv, [StoreNext]_storeVars, NEW s \in Store,
                    file[s].text = "torn", file'[s] # file[s]
             PROVE  \E p \in Proc : /\ On(p, s) /\ Writing(p)
                                    /\ At(p, "truncate") => job[p].op.kind \notin StrictKind
  OBVIOUS
<1>1. PICK p \in Proc : Truncate(p) \/ Write(p) \/ Sync(p)
  <2>1. file' # file
    OBVIOUS
  <2>2. ASSUME NEW p \in Proc, NEW op \in Writes, LockExclusive(p, op) PROVE FALSE
    <3>1. file' = [file EXCEPT ![op.store] = File(op.store, "empty")]
          /\ file[op.store].text = "absent"
      BY <2>1, <2>2 DEF LockExclusive
    <3>2. file'[s] = file[s]
      BY <3>1 DEF StoreInv, StoreTypeOK
    <3> QED
      BY <3>2
  <2> QED
    BY <2>1, <2>2 DEF StoreNext, StoreStep, storeVars, LockShared, Read, Load, Break
<1>2. Writing(p)
  BY <1>1 DEF Truncate, Write, Sync, At, Writing
<1>3. PICK t \in Store : t = job[p].op.store /\ On(p, t)
  BY <1>2, JobIs DEF Writing, At
<1>4. t = s
  <2>1. \E f : file' = [file EXCEPT ![t] = f]
    BY <1>1, <1>3 DEF Truncate, Write, Sync, Puts
  <2> QED
    BY <2>1 DEF StoreInv, StoreTypeOK
<1>5. At(p, "truncate") => job[p].op.kind \notin StrictKind
  <2> SUFFICES ASSUME At(p, "truncate") PROVE job[p].op.kind \notin StrictKind
    OBVIOUS
  <2>1. job[p].seen = Content(s) /\ ~Refuses(job[p].op, job[p].seen)
    BY <1>3, <1>4 DEF StoreInv, SeenIsThere, At
  <2>2. ~Content(s).ok
    BY DEF Content, Damaged
  <2> QED
    BY <2>1, <2>2 DEF Refuses, Raises
<1> QED
  BY <1>2, <1>3, <1>4, <1>5
-----------------------------------------------------------------------------
(* The update check *)

\* The records of check, and what one follows from.
CheckIn == [at : CheckAt, install : BOOLEAN, since : 0..MaxRelease,
            version : 0..(MaxRelease + Upstream), settings : Setting]
LatestAt(s, r) == IF s.url = "fork" THEN r ELSE Upstream
Carries(c, j, r) ==
  /\ c.at = "load" => j.at = "read" /\ j.op.kind = "load"
  /\ c.at = "write" =>
       /\ j.at \in {"load", "truncate", "write", "sync"}
       /\ j.op = [store |-> "settings", kind |-> "save", value |-> c.settings]
  /\ c.at \notin {"none", "load", "write"} => j.at = "none"
  /\ c.at = "none" /\ j.at # "none" => j.op.kind # "save"
  /\ c.settings.latest <= LatestAt(c.settings, r)
  /\ c.since <= r
  /\ c.version = 0 \/ c.version \in c.since..r
  /\ c.at \in {"save", "write", "saved", "installed"} => c.settings.url = "fork"
Verified(c, r) == c.at = "installed" => c.version > Current /\ c.version \in c.since..r

LEMMA FollowsAre ==
  /\ CheckFollows <=> \A p \in Proc : Carries(check[p], job[p], release)
  /\ InstallIsVerified <=> \A p \in Proc : Verified(check[p], release)
  /\ CheckFollows' <=> \A p \in Proc : Carries(check'[p], job'[p], release')
  /\ InstallIsVerified' <=> \A p \in Proc : Verified(check'[p], release')
BY DEF CheckFollows, Carries, InstallIsVerified, Verified, Checks, At, Writing, Latest, LatestAt

LEMMA InitUpdate == Init => UpdateInv
<1> SUFFICES ASSUME Init PROVE UpdateInv
  OBVIOUS
<1>1. StoreInv
  BY InitStoreInv DEF Init
<1>2. \A p \in Proc : check[p] = NoCheck /\ job[p] = NoJob
  BY DEF Init, StoreInit
<1>3. NoCheck \in CheckIn /\ NoCheck.at = "none"
  BY UpdateAssumption DEF NoCheck, CheckIn, CheckAt
<1>4. release \in 0..MaxRelease
  BY DEF Init
<1>5. Carries(NoCheck, NoJob, release) /\ Verified(NoCheck, release)
  BY <1>4, UpdateAssumption DEF NoCheck, NoJob, Carries, Verified, LatestAt
<1>6. TypeOK
  BY <1>1, <1>3, <1>4 DEF TypeOK, StoreInv, Init, CheckIn
<1>7. AbstractTable["settings"] = Content("settings")
  BY <1>1, <1>2, TableIs DEF MidWrite, On, At, NoJob, Store
<1>8. CacheIsOfItsSource
  BY <1>7 DEF Init, CacheIsOfItsSource
<1> QED
  BY <1>1, <1>2, <1>5, <1>6, <1>8, FollowsAre DEF UpdateInv

\* Every step of the checks is one of the stores, or none.
LEMMA StepIsStores == TypeOK /\ [Next]_vars => [StoreNext]_storeVars
<1> SUFFICES ASSUME TypeOK, [Next]_vars PROVE [StoreNext]_storeVars
  OBVIOUS
<1>1. [store |-> "settings", kind |-> "load"] \in Reads
  BY DEF Reads
<1>2. ASSUME NEW p \in Proc, CheckSaves(p) PROVE \E op \in Writes : LockExclusive(p, op)
  <2>1. check[p].settings \in Setting
    BY DEF TypeOK
  <2>2. [store |-> "settings", kind |-> "save", value |-> check[p].settings] \in Writes
    BY <2>1 DEF Writes, Saves
  <2> QED
    BY <1>2, <2>2 DEF CheckSaves
<1>3. ASSUME NEW p \in Proc, Operate(p) PROVE [StoreNext]_storeVars
  BY <1>3 DEF Operate, Writes, StoreNext
<1>4. ASSUME NEW p \in Proc, CheckLoads(p) PROVE [StoreNext]_storeVars
  BY <1>1, <1>4 DEF CheckLoads, StoreNext
<1>5. ASSUME NEW p \in Proc,
             CheckReads(p) \/ CheckSaves(p) \/ CheckWrites(p) \/ Breaks(p)
      PROVE  [StoreNext]_storeVars
  BY <1>2, <1>5 DEF CheckReads, CheckWrites, Breaks, StoreNext, StoreStep
<1>6. ASSUME NEW p \in Proc, Publish \/ CheckFetches(p) \/ Installs(p) \/ CheckEnds(p)
      PROVE  UNCHANGED storeVars
  BY <1>6 DEF Publish, CheckFetches, Installs, CheckEnds, storeVars
<1>7. CASE Publish
  BY <1>7 DEF Publish, storeVars
<1>8. CASE UNCHANGED vars
  BY <1>8 DEF vars, storeVars
<1> QED
  BY <1>3, <1>4, <1>5, <1>6, <1>7, <1>8 DEF Next, Check

LEMMA StepStoreInv ==
  ASSUME UpdateInv, [Next]_vars
  PROVE  StoreInv /\ StoreInv'
BY StepIsStores, NextStoreInv DEF UpdateInv

\* A step of process p leaves the checks of the others alone.
LEMMA CheckFrame ==
  ASSUME UpdateInv, StoreInv', NEW p \in Proc, NEW c \in CheckIn,
         check' = [check EXCEPT ![p] = c], release' = release,
         \A q \in Proc \ {p} : job'[q] = job[q],
         Carries(c, job'[p], release), Verified(c, release), CacheIsOfItsSource'
  PROVE  UpdateInv'
<1>1. DOMAIN check = Proc /\ check \in [Proc -> CheckIn]
  BY DEF UpdateInv, TypeOK, CheckIn
<1>2. check'[p] = c /\ \A q \in Proc \ {p} : check'[q] = check[q]
  BY <1>1
<1>3. check' \in [Proc -> CheckIn]
  BY <1>1
<1>4. TypeOK'
  BY <1>3 DEF TypeOK, UpdateInv, CheckIn, StoreInv
<1>5. CheckFollows' /\ InstallIsVerified'
  BY <1>2, FollowsAre DEF UpdateInv
<1> QED
  BY <1>4, <1>5 DEF UpdateInv

LEMMA TypesOfUpdate ==
  ASSUME UpdateInv
  PROVE  /\ release \in Nat /\ release <= MaxRelease /\ StoreInv
         /\ MaxRelease \in Nat /\ Upstream \in Nat /\ Current \in Nat
         /\ \A p \in Proc : /\ check[p] \in CheckIn
                            /\ Carries(check[p], job[p], release)
                            /\ Verified(check[p], release)
         /\ check = [p \in Proc |-> check[p]]
BY UpdateAssumption, FollowsAre DEF UpdateInv, TypeOK, CheckIn

\* What is cached stays right when the table of the settings does.
LEMMA CacheStays ==
  ASSUME UpdateInv, release' = release,
         AbstractTable'["settings"] \in {AbstractTable["settings"], Intact(DefaultSetting),
                                         Damaged("settings")}
  PROVE  CacheIsOfItsSource'
<1>1. DefaultSetting.latest <= LatestAt(DefaultSetting, release)
  BY TypesOfUpdate, UpdateAssumption DEF LatestAt
<1>2. /\ Damaged("settings").value = DefaultSetting
      /\ Intact(DefaultSetting).value = DefaultSetting
  BY DEF Damaged, Default, Intact
<1>3. AbstractTable["settings"].value.latest <= LatestAt(AbstractTable["settings"].value, release)
  BY DEF UpdateInv, CacheIsOfItsSource, Latest, LatestAt
<1>4. AbstractTable'["settings"].value.latest <= LatestAt(AbstractTable'["settings"].value, release)
  BY <1>1, <1>2, <1>3
<1> QED
  BY <1>4 DEF CacheIsOfItsSource, Latest, LatestAt

\* The table holds what a write has read, or what the file is.
LEMMA TableType ==
  ASSUME StoreInv, NEW s \in Store
  PROVE  AbstractTable[s] \in Contents(s)
<1>1. CASE \E p \in Proc : MidWrite(p, s)
  <2>1. PICK p \in Proc : MidWrite(p, s)
    BY <1>1
  <2>2. job[p].seen \in Contents(s)
    BY <2>1, JobIs DEF MidWrite, On, Writing
  <2> QED
    BY <2>1, <2>2, TableIs
<1>2. CASE \A p \in Proc : ~MidWrite(p, s)
  BY <1>2, TableIs, ContentType DEF StoreInv
<1> QED
  BY <1>1, <1>2

\* A step of p that leaves the stores' contents alone, and p's job with its operation.
LEMMA QuietCheck ==
  ASSUME UpdateInv, StoreInv', NEW p \in Proc, NEW c \in CheckIn,
         check' = [check EXCEPT ![p] = c], release' = release,
         \A q \in Proc \ {p} : job'[q] = job[q],
         AbstractTable' = AbstractTable,
         Carries(c, job'[p], release), Verified(c, release)
  PROVE  UpdateInv'
BY CheckFrame, CacheStays

\* The jobs after each operation of a store.
LEMMA JobsAfter ==
  ASSUME StoreInv, NEW p \in Proc, StoreStep(p) \/ Break(p)
  PROVE  /\ \A q \in Proc \ {p} : job'[q] = job[q]
         /\ job[p].at # "none"
         /\ \/ job'[p] = NoJob
            \/ /\ job'[p].at \in {"truncate", "write", "sync"} /\ job'[p].op = job[p].op
               /\ ~Sync(p) /\ ~Read(p) /\ ~Break(p)
<1>1. job[p].at # "none"
  BY DEF StoreStep, Read, Load, Truncate, Write, Sync, Break, At
<1>2. CASE Unlocks(p)
  <2>1. job' = [job EXCEPT ![p] = NoJob]
    BY <1>2 DEF Unlocks
  <2> QED
    BY <1>1, <2>1, JobsOf
<1>3. CASE ~Unlocks(p)
  <2>1. /\ Writing(p) /\ ~Sync(p) /\ ~Read(p) /\ ~Break(p)
        /\ Load(p) \/ Truncate(p) \/ Write(p)
    BY <1>3 DEF StoreStep, Read, Load, Truncate, Write, Sync, Break, At, Writing
  <2>2. job[p].seen \in Contents(job[p].op.store) /\ job[p].op.store \in Store
    BY <2>1, JobIs DEF Writing, At
  <2>3. Content(job[p].op.store) \in Contents(job[p].op.store)
    BY <2>2, ContentType DEF StoreInv
  <2>4. PICK at \in {"truncate", "write", "sync"}, seen \in Contents(job[p].op.store) :
          job' = [job EXCEPT ![p] = Moved(p, at, seen)]
    <3>1. CASE Load(p)
      BY <1>3, <2>3, <3>1 DEF Load, Moved
    <3>2. ASSUME NEW at \in {"truncate", "write", "sync"}, Goto(p, at)
          PROVE  job' = [job EXCEPT ![p] = Moved(p, at, job[p].seen)]
      <4>1. [job[p] EXCEPT !.at = at] = Moved(p, at, job[p].seen)
        BY <2>1 DEF StoreInv, StoreTypeOK, Job, Writing, NoJob, Moved
      <4> QED
        BY <3>2, <4>1 DEF Goto
    <3> QED
      BY <2>1, <2>2, <3>1, <3>2 DEF Truncate, Write
  <2>5. PICK j : j = Moved(p, at, seen)
    OBVIOUS
  <2>6. job' = [job EXCEPT ![p] = j]
    BY <2>4, <2>5
  <2>7. job'[p] = j /\ \A q \in Proc \ {p} : job'[q] = job[q]
    BY <2>6, JobsOf
  <2>8. j.at = at /\ j.op = job[p].op
    BY <2>1, <2>5, MovedIs
  <2> QED
    BY <1>1, <2>1, <2>7, <2>8
<1> QED
  BY <1>2, <1>3

LEMMA JobsLocked ==
  ASSUME StoreInv, NEW p \in Proc, NEW op, NEW at,
         job' = [job EXCEPT ![p] = [at |-> at, op |-> op, seen |-> Content(op.store)]]
  PROVE  /\ \A q \in Proc \ {p} : job'[q] = job[q]
         /\ job'[p].at = at /\ job'[p].op = op
<1>1. PICK j : j = [at |-> at, op |-> op, seen |-> Content(op.store)]
  OBVIOUS
<1>2. job' = [job EXCEPT ![p] = j] /\ j.at = at /\ j.op = op
  BY <1>1
<1> QED
  BY <1>2, JobsOf

LEMMA OperateInv ==
  ASSUME UpdateInv, StoreInv', NEW p \in Proc, Operate(p)
  PROVE  UpdateInv'
<1>1. check[p].at = "none" /\ check' = check /\ release' = release
  BY DEF Operate, Checks
<1>2. PICK c \in CheckIn : c = check[p]
  BY TypesOfUpdate
<1>3. check' = [check EXCEPT ![p] = c]
  BY <1>1, <1>2, TypesOfUpdate
<1>4. Carries(c, job[p], release) /\ Verified(c, release) /\ StoreInv
  BY <1>2, TypesOfUpdate
<1>5. ASSUME NEW op, NEW at, op.kind # "save",
             job' = [job EXCEPT ![p] = [at |-> at, op |-> op, seen |-> Content(op.store)]]
      PROVE  Carries(c, job'[p], release) /\ \A q \in Proc \ {p} : job'[q] = job[q]
  BY <1>1, <1>2, <1>4, <1>5, JobsLocked DEF Carries
<1>6. CASE \E op \in Reads : LockShared(p, op)
  <2>1. PICK op \in Reads : LockShared(p, op)
    BY <1>6
  <2>2. op.kind # "save"
    BY DEF Reads
  <2>3. AbstractTable' = AbstractTable
    BY <1>4, <2>1, QuietStep
  <2> QED
    BY <1>1, <1>3, <1>4, <1>5, <2>1, <2>2, <2>3, QuietCheck DEF LockShared
<1>7. CASE \E op \in SessionWrites : LockExclusive(p, op)
  <2>1. PICK op \in SessionWrites : LockExclusive(p, op)
    BY <1>7
  <2>2. op.kind # "save" /\ op \in Writes
    BY DEF SessionWrites, Adds, Removes, Writes
  <2>3. AbstractTable' = AbstractTable
    BY <1>4, <2>1, <2>2, QuietStep
  <2> QED
    BY <1>1, <1>3, <1>4, <1>5, <2>1, <2>2, <2>3, QuietCheck DEF LockExclusive
<1>8. CASE StoreStep(p)
  <2>1. /\ \A q \in Proc \ {p} : job'[q] = job[q]
        /\ job[p].at # "none"
        /\ job'[p] = NoJob \/ job'[p].op = job[p].op
    BY <1>4, <1>8, JobsAfter
  <2>2. job[p].op.kind # "save"
    BY <1>1, <1>2, <1>4, <2>1 DEF Carries
  <2>3. Carries(c, job'[p], release)
    BY <1>1, <1>2, <1>4, <2>1, <2>2 DEF Carries, NoJob
  <2>4. AbstractTable'["settings"] = AbstractTable["settings"]
    <3>1. CASE Sync(p)
      <4>1. job[p].op \in Writes
        BY <1>4, <3>1, JobIs DEF Sync, At, Writing
      <4>2. job[p].op.store # "settings"
        BY <2>2, <4>1 DEF Writes, Saves, SessionWrites
      <4> QED
        BY <1>4, <3>1, <4>2, SyncTable DEF Store
    <3>2. CASE Truncate(p) \/ Write(p)
      BY <1>4, <3>2, PutsStep
    <3>3. CASE Read(p) \/ Load(p)
      BY <1>4, <3>3, QuietStep
    <3> QED
      BY <1>8, <3>1, <3>2, <3>3 DEF StoreStep
  <2>5. CacheIsOfItsSource'
    BY <1>1, <2>4, CacheStays
  <2> QED
    BY <1>1, <1>3, <1>4, <2>1, <2>3, <2>5, CheckFrame
<1> QED
  BY <1>6, <1>7, <1>8 DEF Operate

\* A check begins with nothing, and with the latest release of that moment.
BeganAt(install, at) == [Began(install) EXCEPT !.at = at]

BeginsBeside(at, j) == IF at = "load" THEN j.at = "read" /\ j.op.kind = "load"
                       ELSE j.at = "none"

LEMMA BeganIs ==
  ASSUME UpdateInv, NEW install \in BOOLEAN, NEW at \in {"load", "fetch"}
  PROVE  /\ BeganAt(install, at) \in CheckIn
         /\ Verified(BeganAt(install, at), release)
         /\ \A j : BeginsBeside(at, j) => Carries(BeganAt(install, at), j, release)
<1>1. PICK c : c = BeganAt(install, at)
  OBVIOUS
<1>2. c = [at |-> at, install |-> install, since |-> release, version |-> 0,
           settings |-> DefaultSetting]
  BY <1>1 DEF BeganAt, Began, NoCheck
<1>3. c \in CheckIn /\ c.at = at
  BY <1>2, TypesOfUpdate, StoreAssumption DEF CheckIn, CheckAt
<1>4. /\ c.settings = DefaultSetting /\ c.since = release /\ c.version = 0
      /\ DefaultSetting.latest = 0 /\ DefaultSetting.url = "fork"
  BY <1>2, UpdateAssumption
<1>5. \A j : BeginsBeside(at, j) => Carries(c, j, release)
  BY <1>3, <1>4, TypesOfUpdate DEF Carries, LatestAt, BeginsBeside
<1>6. Verified(c, release)
  BY <1>3 DEF Verified
<1> QED
  BY <1>1, <1>3, <1>5, <1>6

LEMMA CheckLoadsInv ==
  ASSUME UpdateInv, StoreInv', NEW p \in Proc, CheckLoads(p)
  PROVE  UpdateInv'
<1>1. release' = release /\ StoreInv
  BY TypesOfUpdate DEF CheckLoads
<1>2. PICK install \in BOOLEAN :
       \/ /\ LockShared(p, [store |-> "settings", kind |-> "load"])
          /\ check' = [check EXCEPT ![p] = [Began(install) EXCEPT !.at = "load"]]
       \/ /\ check' = [check EXCEPT ![p] = [Began(install) EXCEPT !.at = "fetch"]]
          /\ UNCHANGED storeVars
  BY DEF CheckLoads
<1>3. CASE /\ LockShared(p, [store |-> "settings", kind |-> "load"])
           /\ check' = [check EXCEPT ![p] = [Began(install) EXCEPT !.at = "load"]]
  <2>1. PICK op \in Reads : op = [store |-> "settings", kind |-> "load"]
    BY DEF Reads
  <2>2. LockShared(p, op) /\ op.kind = "load"
    BY <1>3, <2>1
  <2>3. /\ \A q \in Proc \ {p} : job'[q] = job[q]
        /\ job'[p].at = "read" /\ job'[p].op = op
    BY <1>1, <2>2, JobsLocked DEF LockShared
  <2>4. AbstractTable' = AbstractTable
    BY <1>1, <2>2, QuietStep
  <2>5. PICK at \in {"load", "fetch"} : at = "load"
    OBVIOUS
  <2>6. PICK c : c = BeganAt(install, at)
    OBVIOUS
  <2>7. c \in CheckIn /\ Carries(c, job'[p], release) /\ Verified(c, release)
    <3>1. PICK j : j = job'[p]
      OBVIOUS
    <3>2. BeginsBeside(at, j)
      BY <2>2, <2>3, <2>5, <3>1 DEF BeginsBeside
    <3> QED
      BY <2>6, <3>1, <3>2, BeganIs
  <2>8. check' = [check EXCEPT ![p] = c]
    BY <1>3, <2>5, <2>6 DEF BeganAt
  <2> QED
    BY <1>1, <2>3, <2>4, <2>7, <2>8, QuietCheck
<1>4. CASE /\ check' = [check EXCEPT ![p] = [Began(install) EXCEPT !.at = "fetch"]]
           /\ UNCHANGED storeVars
  <2>1. job' = job /\ job[p].at = "none"
    BY <1>4 DEF storeVars, CheckLoads, At
  <2>2. AbstractTable' = AbstractTable
    BY <1>4, TableStays
  <2>3. PICK at \in {"load", "fetch"} : at = "fetch"
    OBVIOUS
  <2>4. PICK c : c = BeganAt(install, at)
    OBVIOUS
  <2>5. c \in CheckIn /\ Carries(c, job'[p], release) /\ Verified(c, release)
    <3>1. BeginsBeside(at, job'[p])
      BY <2>1, <2>3 DEF BeginsBeside
    <3> QED
      BY <2>4, <3>1, BeganIs
  <2>6. check' = [check EXCEPT ![p] = c]
    BY <1>4, <2>3, <2>4 DEF BeganAt
  <2> QED
    BY <1>1, <2>1, <2>2, <2>6, <2>5, QuietCheck
<1> QED
  BY <1>2, <1>3, <1>4

LEMMA CheckReadsInv ==
  ASSUME UpdateInv, StoreInv', NEW p \in Proc, CheckReads(p)
  PROVE  UpdateInv'
<1>1. /\ release' = release /\ StoreInv /\ job[p].at = "read" /\ check[p].at = "load"
      /\ Read(p) /\ Unlocks(p) /\ release \in Nat
  BY TypesOfUpdate DEF CheckReads, Read, At, Checks
<1>2. PICK d \in CheckIn : d = check[p] /\ Carries(d, job[p], release)
  BY TypesOfUpdate
<1>3. PICK s : s = job[p].seen.value
  OBVIOUS
<1>4. check' = [check EXCEPT ![p] = [d EXCEPT !.at = "fetch", !.settings = s]]
  BY <1>2, <1>3 DEF CheckReads, UpdateInv, TypeOK
<1>5. job[p].op \in Reads /\ job[p].op.kind = "load" /\ On(p, job[p].op.store)
  BY <1>1, <1>2, JobIs DEF Carries, At
<1>6. job[p].op.store = "settings"
  BY <1>5 DEF Reads
<1>7. job[p].seen = Content("settings") /\ job[p].seen \in Contents("settings")
  BY <1>1, <1>6, JobIs DEF At, StoreInv, SeenIsThere
<1>8. \A q \in Proc : ~MidWrite(q, "settings")
  <2>1. On(p, "settings") /\ ~Writing(p)
    BY <1>1, <1>5, <1>6 DEF Writing
  <2> QED
    BY <1>1, <2>1 DEF StoreInv, Locked, MidWrite, Writing, Store
<1>9. AbstractTable["settings"].value = s
  BY <1>1, <1>3, <1>7, <1>8, TableIs DEF Store
<1>10. s \in Setting /\ s.latest <= LatestAt(s, release)
  BY <1>3, <1>7, <1>9 DEF Contents, Values, UpdateInv, CacheIsOfItsSource, Latest, LatestAt
<1>11. PICK c : c = [d EXCEPT !.at = "fetch", !.settings = s]
  OBVIOUS
<1>12. /\ c \in CheckIn /\ c.at = "fetch" /\ c.settings = s
       /\ c.since = d.since /\ c.version = d.version
  BY <1>10, <1>11 DEF CheckIn, CheckAt
<1>13. job'[p].at = "none" /\ \A q \in Proc \ {p} : job'[q] = job[q]
  BY <1>1, UnlockedJobs
<1>14. Carries(c, job'[p], release) /\ Verified(c, release)
  BY <1>2, <1>10, <1>12, <1>13 DEF Carries, Verified
<1>15. AbstractTable' = AbstractTable
  BY <1>1, QuietStep
<1> QED
  BY <1>1, <1>4, <1>11, <1>12, <1>13, <1>14, <1>15, QuietCheck

\* Steps that leave the stores alone.
LEMMA AloneInv ==
  ASSUME UpdateInv, StoreInv', NEW p \in Proc, NEW c \in CheckIn,
         check' = [check EXCEPT ![p] = c], UNCHANGED <<file, job, breaks, release>>,
         Carries(c, job[p], release), Verified(c, release)
  PROVE  UpdateInv'
<1>1. AbstractTable' = AbstractTable
  BY TableStays DEF storeVars
<1> QED
  BY <1>1, QuietCheck

LEMMA CheckFetchesInv ==
  ASSUME UpdateInv, StoreInv', NEW p \in Proc, CheckFetches(p)
  PROVE  UpdateInv'
<1>1. check[p].at = "fetch" /\ UNCHANGED <<file, job, breaks, release>>
  BY DEF CheckFetches, Checks
<1>2. PICK d \in CheckIn : d = check[p] /\ Carries(d, job[p], release)
  BY TypesOfUpdate
<1>3. /\ release \in Nat /\ release <= MaxRelease /\ MaxRelease \in Nat /\ Upstream \in Nat
  BY TypesOfUpdate
<1>4. PICK s : s = Migrated(d.settings)
  OBVIOUS
<1>5. s \in Setting /\ s.url = "fork" /\ s.latest \in Nat /\ s.latest <= release
  <2>1. d.settings \in Setting /\ d.settings.latest <= LatestAt(d.settings, release)
    BY <1>2 DEF CheckIn, Carries
  <2> QED
    BY <1>3, <1>4, <2>1, UpdateAssumption DEF Migrated, LatestAt
<1>6. PICK v \in {release, 0} :
        check' = [check EXCEPT ![p] = [d EXCEPT !.at = "save", !.version = v,
                                       !.settings = [s EXCEPT !.latest = Larger(s.latest, v)]]]
  <2>1. PICK v \in Fetched(s) :
          check' = [check EXCEPT ![p].at = "save", ![p].version = v,
                                 ![p].settings = [s EXCEPT !.latest = Larger(@, v)]]
    BY <1>2, <1>4 DEF CheckFetches
  <2>2. v \in {release, 0}
    BY <1>5, <2>1 DEF Fetched, Latest
  <2>3. check' = [check EXCEPT ![p] = [d EXCEPT !.at = "save", !.version = v,
                                  !.settings = [s EXCEPT !.latest = Larger(s.latest, v)]]]
    BY <1>2, <2>1 DEF UpdateInv, TypeOK
  <2> QED
    BY <2>2, <2>3
<1>7. PICK t : t = [s EXCEPT !.latest = Larger(s.latest, v)]
  OBVIOUS
<1>8. t \in Setting /\ t.url = "fork" /\ t.latest <= release
  <2>1. Larger(s.latest, v) \in 0..(MaxRelease + Upstream) /\ Larger(s.latest, v) <= release
    BY <1>3, <1>5 DEF Larger
  <2> QED
    BY <1>5, <1>7, <2>1, UpdateAssumption
<1>9. PICK c : c = [d EXCEPT !.at = "save", !.version = v, !.settings = t]
  OBVIOUS
<1>10. /\ c \in CheckIn /\ c.at = "save" /\ c.settings = t
       /\ c.since = d.since /\ c.version = v
  <2>1. v \in 0..(MaxRelease + Upstream)
    BY <1>3
  <2> QED
    BY <1>8, <1>9, <2>1 DEF CheckIn, CheckAt
<1>11. d.since <= release /\ d.since \in Nat
  BY <1>2, <1>3 DEF CheckIn, Carries
<1>12. job[p].at = "none"
  BY <1>1, <1>2 DEF Carries
<1>13. Carries(c, job[p], release)
  BY <1>3, <1>8, <1>10, <1>11, <1>12 DEF Carries, LatestAt
<1>14. Verified(c, release)
  BY <1>10 DEF Verified
<1> QED
  BY <1>1, <1>6, <1>7, <1>9, <1>10, <1>13, <1>14, AloneInv

\* A check that goes on, as far as its place only.
LEMMA OnlyAt ==
  ASSUME UpdateInv, NEW p \in Proc, NEW at \in CheckAt,
         check' = [check EXCEPT ![p].at = at]
  PROVE  \E c \in CheckIn :
           /\ check' = [check EXCEPT ![p] = c]
           /\ c.at = at /\ c.settings = check[p].settings /\ c.since = check[p].since
           /\ c.version = check[p].version /\ c.install = check[p].install
<1>1. PICK d \in CheckIn : d = check[p]
  BY TypesOfUpdate
<1>2. PICK c : c = [d EXCEPT !.at = at]
  OBVIOUS
<1>3. check' = [check EXCEPT ![p] = c]
  BY <1>1, <1>2 DEF UpdateInv, TypeOK
<1>4. /\ c \in CheckIn /\ c.at = at /\ c.settings = d.settings
      /\ c.since = d.since /\ c.version = d.version /\ c.install = d.install
  BY <1>2 DEF CheckIn
<1> QED
  BY <1>1, <1>3, <1>4

LEMMA InstallsInv ==
  ASSUME UpdateInv, StoreInv', NEW p \in Proc, Installs(p)
  PROVE  UpdateInv'
<1>1. /\ check[p].at = "saved" /\ check[p].version > Current
      /\ check' = [check EXCEPT ![p].at = "installed"]
      /\ UNCHANGED <<file, job, breaks, release>>
  BY DEF Installs, Checks
<1>2. PICK c \in CheckIn :
        /\ check' = [check EXCEPT ![p] = c] /\ c.at = "installed"
        /\ c.settings = check[p].settings /\ c.since = check[p].since
        /\ c.version = check[p].version
  BY <1>1, OnlyAt DEF CheckAt
<1>3. Carries(check[p], job[p], release) /\ Current \in Nat
  BY TypesOfUpdate
<1>4. Carries(c, job[p], release)
  BY <1>1, <1>2, <1>3 DEF Carries
<1>5. c.version # 0
  BY <1>1, <1>2, <1>3
<1>6. Verified(c, release)
  BY <1>1, <1>2, <1>4, <1>5 DEF Carries, Verified
<1> QED
  BY <1>1, <1>2, <1>4, <1>6, AloneInv

\* No check: nothing is carried.
LEMMA NoCheckIs ==
  ASSUME UpdateInv
  PROVE  /\ NoCheck \in CheckIn /\ Verified(NoCheck, release)
         /\ \A j : j.at = "none" => Carries(NoCheck, j, release)
<1>1. /\ NoCheck.at = "none" /\ NoCheck.settings = DefaultSetting
      /\ NoCheck.since = 0 /\ NoCheck.version = 0 /\ NoCheck.install = FALSE
  BY DEF NoCheck
<1>2. NoCheck \in CheckIn
  BY TypesOfUpdate, StoreAssumption DEF NoCheck, CheckIn, CheckAt
<1>3. DefaultSetting.latest = 0 /\ DefaultSetting.url = "fork"
  BY UpdateAssumption
<1>4. ASSUME NEW j, j.at = "none" PROVE Carries(NoCheck, j, release)
  BY <1>1, <1>3, <1>4, TypesOfUpdate DEF Carries, LatestAt
<1>5. Verified(NoCheck, release)
  BY <1>1 DEF Verified
<1> QED
  BY <1>2, <1>4, <1>5

LEMMA CheckEndsInv ==
  ASSUME UpdateInv, StoreInv', NEW p \in Proc, CheckEnds(p)
  PROVE  UpdateInv'
<1>1. /\ check[p].at \in {"saved", "installed"} /\ check' = [check EXCEPT ![p] = NoCheck]
      /\ UNCHANGED <<file, job, breaks, release>>
  BY DEF CheckEnds
<1>2. job[p].at = "none"
  BY <1>1, TypesOfUpdate DEF Carries
<1> QED
  BY <1>1, <1>2, NoCheckIs, AloneInv

LEMMA CheckSavesInv ==
  ASSUME UpdateInv, StoreInv', NEW p \in Proc, CheckSaves(p)
  PROVE  UpdateInv'
<1>1. /\ check[p].at = "save" /\ check' = [check EXCEPT ![p].at = "write"]
      /\ release' = release /\ StoreInv
  BY TypesOfUpdate DEF CheckSaves, Checks
<1>2. PICK op : op = [store |-> "settings", kind |-> "save", value |-> check[p].settings]
  OBVIOUS
<1>3. op \in Writes
  <2>1. check[p].settings \in Setting
    BY DEF UpdateInv, TypeOK
  <2> QED
    BY <1>2, <2>1 DEF Writes, Saves
<1>4. LockExclusive(p, op)
  BY <1>2 DEF CheckSaves
<1>5. /\ \A q \in Proc \ {p} : job'[q] = job[q]
      /\ job'[p].at = "load" /\ job'[p].op = op
  BY <1>1, <1>4, JobsLocked DEF LockExclusive
<1>6. AbstractTable' = AbstractTable
  BY <1>1, <1>3, <1>4, QuietStep
<1>7. PICK c \in CheckIn :
        /\ check' = [check EXCEPT ![p] = c] /\ c.at = "write"
        /\ c.settings = check[p].settings /\ c.since = check[p].since
        /\ c.version = check[p].version
  BY <1>1, OnlyAt DEF CheckAt
<1>8. Carries(check[p], job[p], release)
  BY TypesOfUpdate
<1>9. Carries(c, job'[p], release)
  BY <1>1, <1>2, <1>5, <1>7, <1>8 DEF Carries
<1>10. Verified(c, release)
  BY <1>7 DEF Verified
<1> QED
  BY <1>1, <1>5, <1>6, <1>7, <1>9, <1>10, QuietCheck

LEMMA CheckWritesInv ==
  ASSUME UpdateInv, StoreInv', NEW p \in Proc, CheckWrites(p)
  PROVE  UpdateInv'
<1>1. check[p].at = "write" /\ release' = release /\ StoreInv
  BY TypesOfUpdate DEF CheckWrites, Checks
<1>2. Carries(check[p], job[p], release)
  BY TypesOfUpdate
<1>3. job[p].op = [store |-> "settings", kind |-> "save", value |-> check[p].settings]
  BY <1>1, <1>2 DEF Carries
<1>4. job[p].op.store = "settings" /\ job[p].op.kind = "save" /\ job[p].op.value = check[p].settings
  BY <1>3
<1>5. CASE /\ Load(p) \/ Truncate(p) \/ Write(p)
           /\ check' = check
  <2>1. StoreStep(p)
    BY <1>5 DEF StoreStep
  <2>2. job'[p] # NoJob
    <3>1. \A x : ~Refuses(job[p].op, x)
      BY <1>4 DEF Refuses, Raises, Keeps, StrictKind
    <3>2. ~Unlocks(p)
      <4>1. PICK at \in {"truncate", "write", "sync"} :
              \/ Goto(p, at)
              \/ job' = [job EXCEPT ![p].at = at, ![p].seen = Content(job[p].op.store)]
        BY <1>5, <3>1 DEF Load, Truncate, Write
      <4>2. Writing(p)
        BY <1>5 DEF Load, Truncate, Write, At, Writing
      <4>3. job[p] \in [at : {"load", "truncate", "write", "sync"}, op : Writes,
                        seen : Contents(job[p].op.store)] /\ DOMAIN job = Proc
        BY <1>1, <4>2 DEF StoreInv, StoreTypeOK, Job, Writing, NoJob
      <4>4. job'[p].at = at
        BY <4>1, <4>3 DEF Goto
      <4> QED
        BY <1>1, <4>4, UnlockedJobs
    <3>3. ~Unlocks(p) => job'[p] # NoJob
      <4> SUFFICES ASSUME job'[p] = NoJob, ~Unlocks(p) PROVE FALSE
        OBVIOUS
      <4>1. PICK j : job' = [job EXCEPT ![p] = j]
        BY <1>5, <3>1 DEF Load, Truncate, Write, Goto
      <4>2. j = NoJob
        BY <1>1, <4>1, JobsOf
      <4> QED
        BY <4>1, <4>2 DEF Unlocks
    <3> QED
      BY <3>2, <3>3
  <2>3. /\ \A q \in Proc \ {p} : job'[q] = job[q]
        /\ job'[p].at \in {"truncate", "write", "sync"} /\ job'[p].op = job[p].op
    BY <1>1, <2>1, <2>2, JobsAfter
  <2>4. PICK c \in CheckIn : c = check[p]
    BY TypesOfUpdate
  <2>5. Carries(c, job'[p], release) /\ Verified(c, release)
    BY <1>1, <1>2, <1>3, <2>3, <2>4 DEF Carries, Verified
  <2>6. AbstractTable' = AbstractTable
    BY <1>1, <1>5, QuietStep, PutsStep
  <2>7. check' = [check EXCEPT ![p] = c]
    BY <1>5, <2>4, TypesOfUpdate
  <2> QED
    BY <1>1, <2>3, <2>5, <2>6, <2>7, QuietCheck
<1>6. CASE Sync(p) /\ check' = [check EXCEPT ![p].at = "saved"]
  <2>1. PICK d \in CheckIn :
          /\ check' = [check EXCEPT ![p] = d] /\ d.at = "saved"
          /\ d.settings = check[p].settings /\ d.since = check[p].since
          /\ d.version = check[p].version
    BY <1>6, OnlyAt DEF CheckAt
  <2>2. Unlocks(p)
    BY <1>6 DEF Sync
  <2>3. job'[p].at = "none" /\ \A q \in Proc \ {p} : job'[q] = job[q]
    BY <1>1, <2>2, UnlockedJobs
  <2>4. Carries(d, job'[p], release) /\ Verified(d, release)
    BY <1>1, <1>2, <2>1, <2>3 DEF Carries, Verified
  <2>5. AbstractTable'["settings"] = Intact(check[p].settings)
    BY <1>1, <1>4, <1>6, SyncTable DEF Written
  <2>6. AbstractTable'["settings"].value = check[p].settings
    BY <2>5 DEF Intact
  <2>7. CacheIsOfItsSource'
    BY <1>1, <1>2, <2>6 DEF Carries, CacheIsOfItsSource, Latest, LatestAt
  <2> QED
    BY <1>1, <2>1, <2>3, <2>4, <2>7, CheckFrame
<1> QED
  BY <1>5, <1>6 DEF CheckWrites

LEMMA BreaksInv ==
  ASSUME UpdateInv, StoreInv', NEW p \in Proc, Breaks(p)
  PROVE  UpdateInv'
<1>1. Break(p) /\ check' = [check EXCEPT ![p] = NoCheck] /\ release' = release /\ StoreInv
  BY TypesOfUpdate DEF Breaks
<1>2. Unlocks(p)
  BY <1>1 DEF Break
<1>3. job'[p].at = "none" /\ \A q \in Proc \ {p} : job'[q] = job[q]
  BY <1>1, <1>2, UnlockedJobs
<1>4. PICK s \in Store :
        /\ \A t \in Store \ {s} : AbstractTable'[t] = AbstractTable[t]
        /\ AbstractTable'[s] \in {AbstractTable[s], Intact(Default(s)), Damaged(s)}
  BY <1>1, BreakTable
<1>5. AbstractTable'["settings"] \in {AbstractTable["settings"], Intact(DefaultSetting),
                                      Damaged("settings")}
  BY <1>4 DEF Store, Default
<1>6. CacheIsOfItsSource'
  BY <1>1, <1>5, CacheStays
<1> QED
  BY <1>1, <1>3, <1>6, NoCheckIs, CheckFrame

\* A new release: what is cached and carried stays right.
LEMMA PublishInv ==
  ASSUME UpdateInv, StoreInv', Publish
  PROVE  UpdateInv'
<1>1. /\ release' = release + 1 /\ release < MaxRelease /\ check' = check /\ job' = job
      /\ UNCHANGED storeVars
  BY DEF Publish, storeVars
<1>2. release \in Nat /\ MaxRelease \in Nat /\ release' \in 0..MaxRelease
  BY <1>1, TypesOfUpdate
<1>3. TypeOK'
  BY <1>1, <1>2 DEF UpdateInv, TypeOK, StoreInv
<1>4. ASSUME NEW c \in CheckIn, NEW j, Carries(c, j, release) PROVE Carries(c, j, release')
  <2>1. c.settings.latest \in Nat /\ c.since \in Nat /\ c.version \in Nat
    BY TypesOfUpdate, UpdateAssumption DEF CheckIn
  <2>2. c.settings.latest <= LatestAt(c.settings, release')
    BY <1>1, <1>2, <1>4, <2>1 DEF Carries, LatestAt
  <2>3. c.since <= release' /\ (c.version = 0 \/ c.version \in c.since..release')
    BY <1>1, <1>2, <1>4, <2>1 DEF Carries
  <2> QED
    BY <1>4, <2>2, <2>3 DEF Carries
<1>5. ASSUME NEW c \in CheckIn, Verified(c, release) PROVE Verified(c, release')
  <2>1. c.since \in Nat /\ c.version \in Nat
    BY TypesOfUpdate DEF CheckIn
  <2> QED
    BY <1>1, <1>2, <1>5, <2>1 DEF Verified
<1>6. CheckFollows' /\ InstallIsVerified'
  BY <1>1, <1>4, <1>5, TypesOfUpdate, FollowsAre
<1>7. AbstractTable' = AbstractTable
  BY <1>1, TableStays
<1>8. CacheIsOfItsSource'
  <2>1. AbstractTable["settings"].value \in Setting
    <3>1. AbstractTable["settings"] \in Contents("settings")
      BY TypesOfUpdate, TableType DEF Store
    <3> QED
      BY <3>1 DEF Contents, Values
  <2>2. AbstractTable["settings"].value.latest \in Nat
    BY <2>1, TypesOfUpdate, UpdateAssumption
  <2>3. AbstractTable["settings"].value.latest <= LatestAt(AbstractTable["settings"].value, release)
    BY DEF UpdateInv, CacheIsOfItsSource, Latest, LatestAt
  <2>4. AbstractTable["settings"].value.latest <= LatestAt(AbstractTable["settings"].value, release')
    BY <1>1, <1>2, <2>2, <2>3, TypesOfUpdate DEF LatestAt
  <2> QED
    BY <1>7, <2>4 DEF CacheIsOfItsSource, Latest, LatestAt
<1> QED
  BY <1>3, <1>6, <1>8 DEF UpdateInv

LEMMA NextUpdate == UpdateInv /\ [Next]_vars => UpdateInv'
<1> SUFFICES ASSUME UpdateInv, [Next]_vars PROVE UpdateInv'
  OBVIOUS
<1>1. StoreInv'
  BY StepStoreInv
<1>2. CASE UNCHANGED vars
  <2>1. check' = check /\ job' = job /\ release' = release /\ UNCHANGED storeVars
    BY <1>2 DEF vars, storeVars
  <2>2. TypeOK'
    BY <1>1, <2>1 DEF UpdateInv, TypeOK, StoreInv
  <2>3. CheckFollows' /\ InstallIsVerified'
    BY <2>1, TypesOfUpdate, FollowsAre
  <2>4. CacheIsOfItsSource'
    BY <2>1, TableStays, CacheStays
  <2> QED
    BY <1>1, <2>2, <2>3, <2>4 DEF UpdateInv
<1>3. CASE Publish
  BY <1>1, <1>3, PublishInv
<1>4. ASSUME NEW p \in Proc, Check(p) PROVE UpdateInv'
  BY <1>1, <1>4, CheckLoadsInv, CheckReadsInv, CheckFetchesInv, CheckSavesInv, CheckWritesInv,
     InstallsInv, CheckEndsInv DEF Check
<1>5. ASSUME NEW p \in Proc, Operate(p) \/ Breaks(p) PROVE UpdateInv'
  BY <1>1, <1>5, OperateInv, BreaksInv
<1> QED
  BY <1>2, <1>3, <1>4, <1>5 DEF Next
-----------------------------------------------------------------------------
(* The theorems *)

\* All that the runs check of the stores and of the update check, whatever the others
\* do to the stores and wherever a write breaks off.
THEOREM Invariance == Spec => []UpdateInv
BY InitUpdate, NextUpdate, PTL DEF Spec

\* Only a release that this check has fetched and saved, newer than the installed one,
\* is installed.
THEOREM Installed == Spec => []InstallIsVerified
<1>1. UpdateInv => InstallIsVerified
  BY DEF UpdateInv
<1> QED
  BY <1>1, Invariance, PTL

\* The cache never holds a version that its source has not released.
THEOREM Cached == Spec => []CacheIsOfItsSource
<1>1. UpdateInv => CacheIsOfItsSource
  BY DEF UpdateInv
<1> QED
  BY <1>1, Invariance, PTL

\* A system of checks is one of stores.
LEMMA ChecksUseStores == Spec => StoreSpec
<1>1. Init => StoreInit
  BY DEF Init
<1>2. UpdateInv /\ [Next]_vars => [StoreNext]_storeVars
  BY StepIsStores DEF UpdateInv
<1> QED
  BY <1>1, <1>2, Invariance, PTL DEF Spec, StoreSpec

\* Beside update checks the stores are atomic as well.
THEOREM ChecksAreAtomic == Spec => AtomicStores
BY ChecksUseStores, LocksAreAtomic, PTL

\* A strict operation never replaces a store that does not parse.
THEOREM Strict == Spec => StrictKeepsDamaged
BY ChecksUseStores, StoreInvariance, StrictStep, PTL DEF StoreSpec, StrictKeepsDamaged
=============================================================================
