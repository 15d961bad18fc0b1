--------------------------- MODULE JobMonitorProofs ---------------------------
(***************************************************************************)
(* Proofs about JobMonitor, for any log sizes, any number of runs, VMs,    *)
(* tail calls and errors: type correctness; that offsets count local bytes *)
(* only, whatever fails; and that the local logs are prefixes of the       *)
(* remote ones, complete when a run completes, but for two named faults.   *)
(***************************************************************************)
EXTENDS JobWait, SequenceTheorems, TLAPS

USE DEF remote, drain, None, NoBuf

LEMMA Bounds ==
  /\ MaxLog \in Nat /\ MaxRuns \in Nat /\ MaxBoots \in Nat
  /\ MaxBytes \in Nat \ {0} /\ MaxChunks \in Nat \ {0} /\ MaxErrors \in Nat \ {0}
BY MonitorAssumption

-----------------------------------------------------------------------------
(* Bytes *)

\* The bytes of a log are bytes, as many as were asked for.
LEMMA BytesType ==
  ASSUME NEW b \in 0..MaxBoots, NEW i \in Nat, NEW j \in 0..MaxLog
  PROVE  Bytes(b, i, j) \in Seq(Byte)
<1>1. CASE j < i
  <2>1. Bytes(b, i, j) = <<>>
    BY <1>1, Bounds DEF Bytes
  <2> QED
    BY <2>1
<1>2. CASE i <= j
  <2>1. j - i \in Nat /\ \A k \in 1..(j - i) : <<b, i + k>> \in Byte
    BY <1>2, Bounds DEF Byte
  <2> QED
    BY <2>1 DEF Bytes
<1> QED
  BY <1>1, <1>2, Bounds

LEMMA BytesOf ==
  ASSUME NEW b, NEW i \in Nat, NEW j \in Nat, i <= j
  PROVE  /\ Bytes(b, i, j) \in Seq({b} \X Nat)
         /\ Len(Bytes(b, i, j)) = j - i
         /\ \A k \in 1..(j - i) : Bytes(b, i, j)[k] = <<b, i + k>>
<1>1. j - i \in Nat /\ \A k \in 1..(j - i) : <<b, i + k>> \in {b} \X Nat
  OBVIOUS
<1> QED
  BY <1>1 DEF Bytes

LEMMA BytesLonger ==
  ASSUME NEW b, NEW i \in Nat, NEW j \in Int
  PROVE  j <= i + Len(Bytes(b, i, j))
<1>1. CASE j < i
  <2>1. Bytes(b, i, j) = <<>>
    BY <1>1 DEF Bytes
  <2> QED
    BY <1>1, <2>1
<1>2. CASE i <= j
  <2>1. j \in Nat
    BY <1>2
  <2>2. Len(Bytes(b, i, j)) = j - i
    BY <1>2, <2>1, BytesOf
  <2> QED
    BY <1>2, <2>2
<1> QED
  BY <1>1, <1>2

\* Adjacent pieces of a log fit together.
LEMMA BytesJoin ==
  ASSUME NEW b, NEW i \in Nat, NEW j \in Nat, NEW k \in Nat, i <= j, j <= k
  PROVE  Bytes(b, i, j) \o Bytes(b, j, k) = Bytes(b, i, k)
<1> DEFINE S == {b} \X Nat
           s == Bytes(b, i, j)
           t == Bytes(b, j, k)
           u == Bytes(b, i, k)
<1>1. s \in Seq(S) /\ Len(s) = j - i /\ \A n \in 1..(j - i) : s[n] = <<b, i + n>>
  BY BytesOf
<1>2. t \in Seq(S) /\ Len(t) = k - j /\ \A n \in 1..(k - j) : t[n] = <<b, j + n>>
  BY BytesOf
<1>3. u \in Seq(S) /\ Len(u) = k - i /\ \A n \in 1..(k - i) : u[n] = <<b, i + n>>
  <2>1. i <= k
    OBVIOUS
  <2> QED
    BY <2>1, BytesOf
<1> HIDE DEF S, s, t, u
<1>4. /\ s \o t \in Seq(S) /\ Len(s \o t) = Len(s) + Len(t)
      /\ \A n \in 1..(Len(s) + Len(t)) :
           (s \o t)[n] = IF n <= Len(s) THEN s[n] ELSE t[n - Len(s)]
  BY <1>1, <1>2, ConcatProperties
<1>5. Len(s) + Len(t) = k - i
  BY <1>1, <1>2
<1>6. \A n \in 1..(k - i) : (s \o t)[n] = u[n]
  <2> TAKE n \in 1..(k - i)
  <2>1. CASE n <= j - i
    <3>1. (s \o t)[n] = s[n]
      BY <1>1, <1>4, <1>5, <2>1
    <3>2. n \in 1..(j - i)
      BY <2>1
    <3> QED
      BY <1>1, <1>3, <3>1, <3>2
  <2>2. CASE ~(n <= j - i)
    <3>1. (s \o t)[n] = t[n - (j - i)]
      BY <1>1, <1>4, <1>5, <2>2
    <3>2. n - (j - i) \in 1..(k - j) /\ j + (n - (j - i)) = i + n
      BY <2>2
    <3>3. t[n - (j - i)] = <<b, j + (n - (j - i))>>
      BY <1>2, <3>2
    <3> QED
      BY <1>3, <3>1, <3>2, <3>3
  <2> QED
    BY <2>1, <2>2
<1>7. s \o t = u
  BY <1>3, <1>4, <1>5, <1>6, SeqEqual
<1> QED
  BY <1>7 DEF s, t, u

\* The first bytes of a piece are a piece.
LEMMA BytesFirst ==
  ASSUME NEW b, NEW i \in Nat, NEW j \in Nat, i <= j, NEW n \in 0..(j - i)
  PROVE  SubSeq(Bytes(b, i, j), 1, n) = Bytes(b, i, i + n)
<1> DEFINE S == {b} \X Nat
           s == Bytes(b, i, j)
           u == Bytes(b, i, i + n)
<1>1. s \in Seq(S) /\ Len(s) = j - i /\ \A m \in 1..(j - i) : s[m] = <<b, i + m>>
  BY BytesOf
<1>2. u \in Seq(S) /\ Len(u) = n /\ \A m \in 1..n : u[m] = <<b, i + m>>
  <2>1. i + n \in Nat /\ i <= i + n /\ (i + n) - i = n
    OBVIOUS
  <2> QED
    BY <2>1, BytesOf
<1> HIDE DEF S, s, u
<1>3. n \in Nat /\ \A m \in 1..n : s[m] \in S /\ m \in 1..(j - i)
  BY <1>1, ElementOfSeq
<1>4. /\ SubSeq(s, 1, n) \in Seq(S)
      /\ Len(SubSeq(s, 1, n)) = n
      /\ \A m \in 1..n : SubSeq(s, 1, n)[m] = s[m]
  BY <1>3, SubSeqProperties
<1>5. \A m \in 1..n : SubSeq(s, 1, n)[m] = u[m]
  BY <1>1, <1>2, <1>3, <1>4
<1>6. SubSeq(s, 1, n) = u
  BY <1>2, <1>4, <1>5, SeqEqual
<1> QED
  BY <1>6 DEF s, u

-----------------------------------------------------------------------------
(* TypeOK holds of every reachable state. *)

LEMMA InitTypeOK == Init => TypeOK
<1> SUFFICES ASSUME Init PROVE TypeOK
  OBVIOUS
<1>1. NoState \in MonitorState
  BY DEF NoState, MonitorState
<1>2. NoSnap \in [ended : BOOLEAN, size : [Stream -> 0..MaxLog]]
  BY Bounds DEF NoSnap
<1>3. buf \in [of : Stream, data : Seq(Byte)]
  BY DEF Init, Stream
<1>4. file \in [Stream -> Seq(Byte)] /\ log \in [Stream -> 0..MaxLog]
  BY Bounds DEF Init
<1>5. /\ boot \in 0..MaxBoots /\ runs \in 0..MaxRuns
      /\ ended \in BOOLEAN
  <2>1. boot = 0 /\ runs = 0 /\ MaxBoots \in Nat /\ MaxRuns \in Nat
    BY Bounds DEF Init
  <2>2. boot \in 0..MaxBoots /\ runs \in 0..MaxRuns
    BY ONLY <2>1
  <2>3. ended \in BOOLEAN
    BY DEF Init
  <2> QED
    BY <2>2, <2>3
<1>6. saved \in MonitorState /\ mem \in MonitorState
  BY <1>1 DEF Init
<1>7. /\ pc \in PC /\ conn \in {None} \cup 0..MaxBoots /\ pc \notin Stream
      /\ at \in Nat /\ chunks \in 0..MaxChunks
  BY Bounds DEF Init, PC, Stream
<1>8. caught \subseteq Stream /\ spoilt \subseteq {"kill", "tail"}
  BY DEF Init
<1>9. outcome \in {"none", "timeout", "interrupted", "failed", "completed"}
  BY DEF Init
<1>10. snap \in [ended : BOOLEAN, size : [Stream -> 0..MaxLog]]
  BY <1>2 DEF Init
<1> QED
  BY <1>3, <1>4, <1>5, <1>6, <1>7, <1>8, <1>9, <1>10 DEF TypeOK

LEMMA FlushedType ==
  ASSUME TypeOK
  PROVE  /\ Flushed \in [Stream -> Seq(Byte)]
         /\ Flushed[buf.of] = file[buf.of] \o buf.data
         /\ \A s \in Stream \ {buf.of} : Flushed[s] = file[s]
         /\ \A s \in Stream : Len(file[s]) <= Len(Flushed[s])
         /\ Len(Flushed[buf.of]) = Len(file[buf.of]) + Len(buf.data)
<1>1. buf.of \in Stream /\ buf.data \in Seq(Byte) /\ file[buf.of] \in Seq(Byte)
  BY DEF TypeOK
<1>2. /\ file[buf.of] \o buf.data \in Seq(Byte)
      /\ Len(file[buf.of] \o buf.data) = Len(file[buf.of]) + Len(buf.data)
  BY <1>1, ConcatProperties
<1>3. /\ Flushed \in [Stream -> Seq(Byte)]
      /\ Flushed[buf.of] = file[buf.of] \o buf.data
      /\ \A s \in Stream \ {buf.of} : Flushed[s] = file[s]
  BY <1>1, <1>2 DEF TypeOK, Flushed
<1>4. \A s \in Stream : Len(file[s]) \in Nat /\ Len(buf.data) \in Nat
  BY <1>1 DEF TypeOK
<1>5. Len(Flushed[buf.of]) = Len(file[buf.of]) + Len(buf.data)
  BY <1>2, <1>3
<1>6. \A s \in Stream : Len(file[s]) <= Len(Flushed[s])
  <2> TAKE s \in Stream
  <2>1. CASE s = buf.of
    <3>1. Len(Flushed[s]) = Len(file[s]) + Len(buf.data)
      BY <1>5, <2>1
    <3>2. Len(file[s]) \in Nat /\ Len(buf.data) \in Nat
      BY <1>4
    <3> DEFINE a == Len(file[s])
               b == Len(buf.data)
               c == Len(Flushed[s])
    <3>3. a \in Nat /\ b \in Nat /\ c = a + b
      BY <3>1, <3>2
    <3> HIDE DEF a, b, c
    <3>4. a <= c
      BY <3>3
    <3> QED
      BY <3>4 DEF a, c
  <2>2. CASE s # buf.of
    BY <1>3, <1>4, <2>2
  <2> QED
    BY <2>1, <2>2
<1> QED
  BY <1>3, <1>5, <1>6

LEMMA NoBufType ==
  ASSUME TypeOK
  PROVE  [buf EXCEPT !.data = <<>>] \in [of : Stream, data : Seq(Byte)]
<1>1. <<>> \in Seq(Byte)
  OBVIOUS
<1> QED
  BY <1>1 DEF TypeOK

LEMMA StateTypes ==
  ASSUME TypeOK
  PROVE  /\ [mem EXCEPT !.errors = @ + 1] \in MonitorState
         /\ \A b \in 0..MaxBoots : [mem EXCEPT !.errors = 0, !.bound = b] \in MonitorState
         /\ \A s \in Stream, n \in Nat : [mem EXCEPT !.offset[s] = n] \in MonitorState
<1>1. \A s \in Stream, n \in Nat : [mem EXCEPT !.offset[s] = n] \in MonitorState
  <2> TAKE s \in Stream, n \in Nat
  <2>1. mem.offset \in [Stream -> Nat] /\ mem \in MonitorState
    BY DEF TypeOK, MonitorState
  <2>2. [mem.offset EXCEPT ![s] = n] \in [Stream -> Nat]
    BY <2>1
  <2> QED
    BY <2>1, <2>2 DEF MonitorState
<1>2. mem \in MonitorState
  BY DEF TypeOK
<1>3. [mem EXCEPT !.errors = @ + 1] \in MonitorState
  BY <1>2 DEF MonitorState
<1>4. \A b \in 0..MaxBoots : [mem EXCEPT !.errors = 0, !.bound = b] \in MonitorState
  BY <1>2 DEF MonitorState
<1> QED
  BY <1>1, <1>3, <1>4

\* The open drain starts where the local log ends, as far as the run knows.
LEMMA OpenDrainType ==
  ASSUME TypeOK, NEW s \in Stream, OpenDrain(s)
  PROVE  /\ pc' \in PC /\ at' = mem.offset[s] /\ at' \in Nat
         /\ chunks' \in 0..MaxChunks /\ chunks' < MaxChunks
         /\ buf' \in [of : Stream, data : Seq(Byte)]
BY Bounds DEF TypeOK, OpenDrain, MonitorState, PC, Stream

LEMMA ControlErrorType ==
  ASSUME TypeOK, ControlError, spoilt' \subseteq {"kill", "tail"}
  PROVE  TypeOK'
<1> DEFINE m == [mem EXCEPT !.errors = @ + 1]
<1>1. /\ mem' = m /\ saved' = m /\ pc' \in {"off", "poll"} /\ conn' = None
      /\ outcome' \in {"failed", outcome}
  BY DEF ControlError, Ends, Saves
<1>2. file' = Flushed /\ buf' = [buf EXCEPT !.data = <<>>]
  BY DEF ControlError, Saves
<1>3. buf' \in [of : Stream, data : Seq(Byte)]
  BY <1>2, NoBufType
<1> QED
  BY <1>1, <1>2, <1>3, FlushedType, StateTypes DEF ControlError, Saves, TypeOK, PC, Stream

LEMMA NextTypeOK == TypeOK /\ [Next]_vars => TypeOK'
<1> SUFFICES ASSUME TypeOK, [Next]_vars PROVE TypeOK'
  OBVIOUS
<1> USE Bounds
<1>1. ASSUME LogGrows PROVE TypeOK'
  <2>1. log' \in [Stream -> 0..MaxLog]
    <3>1. PICK s \in Stream : log[s] < MaxLog /\ log' = [log EXCEPT ![s] = @ + 1]
      BY <1>1 DEF LogGrows
    <3>2. log[s] \in 0..MaxLog /\ log[s] + 1 \in 0..MaxLog
      BY <3>1 DEF TypeOK
    <3> QED
      BY <3>1, <3>2 DEF TypeOK
  <2> QED
    BY <1>1, <2>1 DEF LogGrows, TypeOK
<1>2. ASSUME JobEnds PROVE TypeOK'
  BY <1>2 DEF JobEnds, TypeOK
<1>3. ASSUME JobIsReplaced PROVE TypeOK'
  <2>1. boot' \in 0..MaxBoots /\ ended' \in BOOLEAN
    <3>1. boot \in 0..MaxBoots /\ boot < MaxBoots /\ boot' = boot + 1 /\ ended' = FALSE
      BY <1>3 DEF JobIsReplaced, TypeOK
    <3>2. boot + 1 \in 0..MaxBoots
      BY <3>1
    <3> QED
      BY <3>1, <3>2
  <2>2. log' \in [Stream -> 0..MaxLog]
    BY <1>3 DEF JobIsReplaced
  <2> QED
    BY <1>3, <2>1, <2>2 DEF JobIsReplaced, TypeOK
<1>4. ASSUME Start PROVE TypeOK'
  <2>1. Reconciled \in [Stream -> Nat]
    BY DEF Reconciled, TypeOK
  <2>2. [saved EXCEPT !.exists = TRUE, !.offset = Reconciled] \in MonitorState
    BY <2>1 DEF TypeOK, MonitorState
  <2>3. mem' \in MonitorState /\ saved' \in MonitorState
    BY <1>4, <2>2 DEF Start, Locks, Saves
  <2>4. runs' \in 0..MaxRuns
    BY <1>4 DEF Start, Locks, Saves, TypeOK
  <2> QED
    BY <1>4, <2>3, <2>4 DEF Start, Locks, Saves, TypeOK, PC, Stream
<1>5. ASSUME Connect PROVE TypeOK'
  BY <1>5 DEF Connect, TypeOK
<1>6. ASSUME GetStatus PROVE TypeOK'
  <2> DEFINE b == IF mem.bound = None THEN boot ELSE mem.bound
             m == [mem EXCEPT !.errors = 0, !.bound = b]
  <2>1. b \in 0..MaxBoots
    BY DEF TypeOK, MonitorState
  <2>2. m \in MonitorState
    BY <2>1, StateTypes
  <2>3. snap' \in [ended : BOOLEAN, size : [Stream -> 0..MaxLog]]
    BY <1>6 DEF GetStatus, Bound, NotRewound, TypeOK
  <2>4. \/ OpenDrain("stdout") /\ mem' = m /\ UNCHANGED <<saved, conn, outcome>>
        \/ Ends("failed", m) /\ UNCHANGED drain
    BY <1>6 DEF GetStatus, Bound, NotRewound
  <2> HIDE DEF m
  <2>5. CASE OpenDrain("stdout") /\ mem' = m /\ UNCHANGED <<saved, conn, outcome>>
    <3>1. "stdout" \in Stream
      BY DEF Stream
    <3> QED
      BY <1>6, <2>2, <2>3, <2>5, <3>1, OpenDrainType DEF GetStatus, Bound, NotRewound, TypeOK
  <2>6. CASE Ends("failed", m) /\ UNCHANGED drain
    BY <1>6, <2>2, <2>3, <2>6 DEF GetStatus, Bound, NotRewound, TypeOK, Ends, Saves, PC, Stream
  <2> QED
    BY <2>4, <2>5, <2>6
<1>7. ASSUME DrainSkips PROVE TypeOK'
  <2>1. CASE pc = "stdout"
    <3>1. OpenDrain("stderr") /\ "stderr" \in Stream
      BY <1>7, <2>1 DEF DrainSkips, Stream
    <3> QED
      BY <1>7, <3>1, OpenDrainType DEF DrainSkips, TypeOK
  <2>2. CASE pc # "stdout"
    BY <1>7, <2>2 DEF DrainSkips, TypeOK, PC, Stream
  <2> QED
    BY <2>1, <2>2
<1>8. ASSUME DrainTails PROVE TypeOK'
  <2> DEFINE next == Least(at + MaxBytes, log[pc])
  <2>1. next \in 0..MaxLog
    <3>1. log[pc] \in 0..MaxLog
      BY <1>8 DEF DrainTails, TypeOK
    <3>2. at + MaxBytes \in Nat
      BY DEF TypeOK
    <3> QED
      BY <3>1, <3>2 DEF Least
  <2>2. Bytes(boot, at, next) \in Seq(Byte)
    BY <2>1, BytesType DEF TypeOK
  <2>3. at' = next /\ buf' = [buf EXCEPT !.data = @ \o Bytes(boot, at, next)]
    BY <1>8 DEF DrainTails
  <2>4. buf' \in [of : Stream, data : Seq(Byte)]
    BY <2>2, <2>3, ConcatProperties DEF TypeOK
  <2>5. caught' \subseteq Stream /\ pc' \in PC
    BY <1>8 DEF DrainTails, TypeOK, PC
  <2>6. chunks' \in 0..MaxChunks /\ (pc' \in Stream => chunks' < MaxChunks)
    <3>1. chunks' = chunks + 1 /\ chunks < MaxChunks
      BY <1>8 DEF DrainTails, TypeOK
    <3>2. pc' # "close" => chunks + 1 < MaxChunks
      BY <1>8 DEF DrainTails
    <3> QED
      BY <3>1, <3>2 DEF TypeOK, Stream
  <2>7. at' \in Nat
    BY <2>1, <2>3
  <2> HIDE DEF next
  <2>8. UNCHANGED <<boot, ended, log, file, saved, mem, conn, snap, outcome, runs, spoilt>>
    BY <1>8 DEF DrainTails
  <2> QED
    BY <2>4, <2>5, <2>6, <2>7, <2>8 DEF TypeOK
<1>9. ASSUME DrainCloses PROVE TypeOK'
  <2>1. mem' \in MonitorState /\ file' \in [Stream -> Seq(Byte)]
    BY <1>9, StateTypes, FlushedType DEF DrainCloses, TypeOK
  <2>2. CASE buf.of = "stdout"
    <3>1. OpenDrain("stderr") /\ "stderr" \in Stream
      BY <1>9, <2>2 DEF DrainCloses, Stream
    <3> QED
      BY <1>9, <2>1, <3>1, OpenDrainType DEF DrainCloses, TypeOK
  <2>3. CASE buf.of # "stdout"
    BY <1>9, <2>1, <2>3, NoBufType DEF DrainCloses, TypeOK, PC, Stream
  <2> QED
    BY <2>2, <2>3
<1>10. ASSUME FinishPoll PROVE TypeOK'
  <2>1. pc' \in {"off", "poll"} /\ mem' = mem /\ saved' = mem /\ conn' \in {conn, None}
    BY <1>10 DEF FinishPoll, Ends, Saves
  <2>2. outcome' \in {outcome, "completed", "snapshot"}
    BY <1>10 DEF FinishPoll, Ends, Saves
  <2> QED
    BY <1>10, <2>1, <2>2 DEF FinishPoll, TypeOK, PC, Stream
<1>11. ASSUME TimesOut PROVE TypeOK'
  BY <1>11 DEF TimesOut, Ends, Saves, TypeOK, PC, Stream
<1>12. ASSUME Interrupted PROVE TypeOK'
  BY <1>12, FlushedType, NoBufType DEF Interrupted, Ends, Saves, TypeOK, PC, Stream
<1>13. ASSUME Killed PROVE TypeOK'
  <2>1. PICK n \in 0..Len(buf.data) :
          file' = [file EXCEPT ![buf.of] = @ \o SubSeq(buf.data, 1, n)]
    BY <1>13 DEF Killed
  <2>2. buf.data \in Seq(Byte) /\ buf.of \in Stream /\ file[buf.of] \in Seq(Byte)
    BY DEF TypeOK
  <2>3. SubSeq(buf.data, 1, n) \in Seq(Byte)
    BY <2>2
  <2>4. file' \in [Stream -> Seq(Byte)]
    BY <2>1, <2>2, <2>3, ConcatProperties DEF TypeOK
  <2>5. spoilt' \subseteq {"kill", "tail"}
    BY <1>13 DEF Killed, Spoils, TypeOK
  <2> QED
    BY <1>13, <2>4, <2>5, NoBufType DEF Killed, TypeOK, PC, Stream
<1>14. ASSUME StatusFails PROVE TypeOK'
  <2>1. spoilt' \subseteq {"kill", "tail"}
    BY <1>14 DEF StatusFails, TypeOK
  <2> QED
    BY <1>14, <2>1, ControlErrorType DEF StatusFails
<1>15. ASSUME DrainFails PROVE TypeOK'
  <2>1. spoilt' \subseteq {"kill", "tail"}
    BY <1>15 DEF DrainFails, Spoils, TypeOK
  <2> QED
    BY <1>15, <2>1, ControlErrorType DEF DrainFails
<1>16. CASE UNCHANGED vars
  BY <1>16 DEF vars, TypeOK
<1> QED
  BY <1>1, <1>2, <1>3, <1>4, <1>5, <1>6, <1>7, <1>8, <1>9, <1>10, <1>11, <1>12, <1>13,
     <1>14, <1>15, <1>16 DEF Next, Remote, Poll, Fault

THEOREM TypeCorrect == Spec => []TypeOK
BY InitTypeOK, NextTypeOK, PTL DEF Spec
-----------------------------------------------------------------------------
(* Offsets count local bytes only. *)

Ahead == Draining => /\ pc # "close" => buf.of = pc
                     /\ at <= Len(file[buf.of]) + Len(buf.data)
LocalInv == TypeOK /\ OffsetsAreLocal /\ Ahead

\* Offsets stay local when the local logs only grow.
LEMMA StaysLocal ==
  ASSUME TypeOK, OffsetsAreLocal,
         file' \in [Stream -> Seq(Byte)],
         \A s \in Stream : Len(file[s]) <= Len(file'[s]),
         mem' \in MonitorState, saved' \in MonitorState,
         \A s \in Stream : mem'.offset[s] <= Len(file[s]),
         \A s \in Stream : saved'.offset[s] <= Len(file[s])
  PROVE  OffsetsAreLocal'
<1> SUFFICES ASSUME NEW s \in Stream
             PROVE  saved'.offset[s] <= Len(file'[s]) /\ mem'.offset[s] <= Len(file'[s])
  BY DEF OffsetsAreLocal
<1> DEFINE k == saved'.offset[s]
           m == mem'.offset[s]
           a == Len(file[s])
           c == Len(file'[s])
<1>1. k \in Nat /\ m \in Nat /\ a \in Nat /\ c \in Nat
  <2>1. file[s] \in Seq(Byte) /\ file'[s] \in Seq(Byte)
    BY DEF TypeOK
  <2>2. k \in Nat /\ m \in Nat
    BY DEF MonitorState
  <2> QED
    BY <2>1, <2>2, LenProperties
<1>2. a <= c /\ k <= a /\ m <= a
  OBVIOUS
<1> HIDE DEF k, m, a, c
<1>3. k <= c /\ m <= c
  BY <1>1, <1>2
<1> QED
  BY <1>3 DEF k, m, c

LEMMA KilledGrows ==
  ASSUME TypeOK, Killed, file' \in [Stream -> Seq(Byte)]
  PROVE  \A s \in Stream : Len(file[s]) <= Len(file'[s])
<1>1. PICK n \in 0..Len(buf.data) :
        file' = [file EXCEPT ![buf.of] = @ \o SubSeq(buf.data, 1, n)]
  BY DEF Killed
<1>2. buf.data \in Seq(Byte) /\ buf.of \in Stream /\ file \in [Stream -> Seq(Byte)]
  BY DEF TypeOK
<1>3. SubSeq(buf.data, 1, n) \in Seq(Byte)
  BY <1>2
<1> DEFINE t == SubSeq(buf.data, 1, n)
<1>4. /\ file'[buf.of] = file[buf.of] \o t
      /\ Len(file[buf.of] \o t) = Len(file[buf.of]) + Len(t)
  <2>1. file'[buf.of] = file[buf.of] \o t
    BY <1>1, <1>2
  <2>2. file[buf.of] \in Seq(Byte) /\ t \in Seq(Byte)
    BY <1>2, <1>3
  <2> QED
    BY <2>1, <2>2, ConcatProperties
<1>5. Len(t) \in Nat /\ \A s \in Stream : Len(file[s]) \in Nat
  BY <1>2, <1>3
<1> HIDE DEF t
<1> TAKE s \in Stream
<1>6. CASE s = buf.of
  <2> DEFINE a == Len(file[buf.of])
             b == Len(t)
             c == Len(file'[buf.of])
  <2>1. a \in Nat /\ b \in Nat /\ c = a + b
    BY <1>2, <1>4, <1>5
  <2> HIDE DEF a, b, c
  <2>2. a <= c
    BY <2>1
  <2> QED
    BY <1>6, <2>2 DEF a, c
<1>7. CASE s # buf.of
  <2>1. file'[s] = file[s]
    BY <1>1, <1>2, <1>7
  <2> QED
    BY <1>5, <2>1
<1> QED
  BY <1>6, <1>7

\* A drain starts at the offset of its stream, with nothing to be flushed.
LEMMA OpenDrainAhead ==
  ASSUME TypeOK, NEW s \in Stream, OpenDrain(s),
         \/ mem.offset[s] <= Len(file[s]) /\ file' = file
         \/ mem.offset[s] <= Len(file'[s]) /\ file' \in [Stream -> Seq(Byte)]
  PROVE  Ahead'
<1>1. /\ pc' = s /\ buf'.of = s /\ buf'.data = <<>> /\ at' = mem.offset[s]
  BY DEF OpenDrain
<1>2. mem.offset[s] <= Len(file'[s]) /\ Len(file'[s]) \in Nat /\ Len(buf'.data) = 0
  BY <1>1 DEF TypeOK
<1>3. at' <= Len(file'[buf'.of]) + Len(buf'.data)
  <2> DEFINE c == Len(file'[s])
             d == Len(buf'.data)
             o == mem.offset[s]
  <2>1. c \in Nat /\ d = 0 /\ o <= c /\ o \in Nat /\ at' = o
    BY <1>1, <1>2 DEF TypeOK, MonitorState
  <2> HIDE DEF c, d, o
  <2>2. at' <= c + d
    BY <2>1
  <2> QED
    BY <1>1, <2>2 DEF c, d
<1> QED
  BY <1>1, <1>3 DEF Ahead, Stream

LEMMA InitLocalInv == Init => LocalInv
<1> SUFFICES ASSUME Init PROVE LocalInv
  OBVIOUS
<1>1. OffsetsAreLocal
  BY DEF Init, NoState, OffsetsAreLocal
<1>2. Ahead
  BY DEF Init, Ahead, Draining, Stream
<1> QED
  BY <1>1, <1>2, InitTypeOK DEF LocalInv

LEMMA ControlErrorLocal ==
  ASSUME LocalInv, ControlError, TypeOK'
  PROVE  OffsetsAreLocal' /\ Ahead'
<1> DEFINE m == [mem EXCEPT !.errors = @ + 1]
<1>1. mem' = m /\ saved' = m /\ pc' \in {"off", "poll"} /\ file' = Flushed
  BY DEF ControlError, Ends, Saves
<1>2. m.offset = mem.offset
  BY DEF LocalInv, TypeOK, MonitorState
<1>3. OffsetsAreLocal'
  BY <1>1, <1>2, FlushedType, StaysLocal DEF LocalInv, TypeOK, OffsetsAreLocal
<1> QED
  BY <1>1, <1>3 DEF Ahead, Draining, Stream

LEMMA NextLocalInv == LocalInv /\ [Next]_vars => LocalInv'
<1> SUFFICES ASSUME LocalInv, [Next]_vars PROVE LocalInv'
  OBVIOUS
<1>0. TypeOK /\ OffsetsAreLocal /\ Ahead /\ TypeOK'
  BY NextTypeOK DEF LocalInv
<1> SUFFICES OffsetsAreLocal' /\ Ahead'
  BY <1>0 DEF LocalInv
<1>a. \A s \in Stream : /\ Len(file[s]) \in Nat /\ Len(file'[s]) \in Nat
                        /\ mem.offset[s] \in Nat
  <2> TAKE s \in Stream
  <2>1. file[s] \in Seq(Byte) /\ file'[s] \in Seq(Byte)
    BY <1>0 DEF TypeOK
  <2>2. mem.offset[s] \in Nat
    BY <1>0 DEF TypeOK, MonitorState
  <2> QED
    BY <2>1, <2>2, LenProperties
<1>1. CASE Remote \/ Connect
  BY <1>0, <1>1 DEF Remote, LogGrows, JobEnds, JobIsReplaced, Connect, OffsetsAreLocal,
                    Ahead, Draining
<1>2. CASE Start
  <2>1. mem'.offset = Reconciled /\ saved' = mem' /\ file' = file /\ pc' = "poll"
    BY <1>0, <1>2 DEF Start, Locks, Saves, TypeOK, MonitorState
  <2>2. \A s \in Stream : mem'.offset[s] = Len(file[s])
    BY <2>1 DEF Reconciled
  <2>3. OffsetsAreLocal'
    BY <1>a, <2>1, <2>2 DEF OffsetsAreLocal
  <2> QED
    BY <2>1, <2>3 DEF Ahead, Draining, Stream
<1>3. CASE GetStatus
  <2> DEFINE b == IF mem.bound = None THEN boot ELSE mem.bound
             m == [mem EXCEPT !.errors = 0, !.bound = b]
  <2>1. file' = file /\ m.offset = mem.offset
    BY <1>0, <1>3 DEF GetStatus, Bound, NotRewound, TypeOK, MonitorState
  <2>2. \/ OpenDrain("stdout") /\ mem' = m /\ UNCHANGED <<saved, conn, outcome>>
        \/ Ends("failed", m)
    BY <1>3 DEF GetStatus, Bound, NotRewound
  <2> HIDE DEF m
  <2>3. OffsetsAreLocal'
    BY <1>0, <2>1, <2>2 DEF OffsetsAreLocal, Ends, Saves
  <2>4. CASE OpenDrain("stdout")
    <3>1. "stdout" \in Stream
      BY DEF Stream
    <3> QED
      BY <1>0, <2>1, <2>3, <2>4, <3>1, OpenDrainAhead DEF OffsetsAreLocal
  <2>5. CASE Ends("failed", m)
    BY <2>3, <2>5 DEF Ends, Saves, Ahead, Draining, Stream
  <2> QED
    BY <2>2, <2>4, <2>5
<1>4. CASE DrainSkips
  <2>1. file' = file /\ mem' = mem /\ saved' = saved
    BY <1>4 DEF DrainSkips
  <2>2. OffsetsAreLocal'
    BY <1>0, <2>1 DEF OffsetsAreLocal
  <2>3. CASE pc = "stdout"
    <3>1. OpenDrain("stderr") /\ "stderr" \in Stream
      BY <1>4, <2>3 DEF DrainSkips, Stream
    <3> QED
      BY <1>0, <2>1, <2>2, <3>1, OpenDrainAhead DEF OffsetsAreLocal
  <2>4. CASE pc # "stdout"
    BY <1>4, <2>2, <2>4 DEF DrainSkips, Ahead, Draining, Stream
  <2> QED
    BY <2>3, <2>4
<1>5. CASE DrainTails
  <2> DEFINE next == Least(at + MaxBytes, log[pc])
             t == Bytes(boot, at, next)
  <2>1. /\ pc \in Stream /\ buf.of = pc /\ at <= Len(file[pc]) + Len(buf.data)
    BY <1>0, <1>5 DEF DrainTails, Ahead, Draining, Stream
  <2>2. next \in 0..MaxLog
    <3>1. log[pc] \in 0..MaxLog
      BY <1>0, <2>1 DEF TypeOK
    <3>2. at + MaxBytes \in Nat
      BY <1>0, Bounds DEF TypeOK
    <3> QED
      BY <3>1, <3>2, Bounds DEF Least
  <2>3. t \in Seq(Byte) /\ next <= at + Len(t) /\ at \in Nat /\ buf.data \in Seq(Byte)
    <3>1. at \in Nat /\ next \in Int
      BY <1>0, <2>2 DEF TypeOK
    <3> QED
      BY <1>0, <2>2, <3>1, BytesType, BytesLonger DEF TypeOK
  <2>4. at' = next /\ buf' = [buf EXCEPT !.data = @ \o t]
    BY <1>5 DEF DrainTails
  <2> HIDE DEF next, t
  <2>5. /\ buf'.of = buf.of /\ buf'.data = buf.data \o t
        /\ Len(buf.data \o t) = Len(buf.data) + Len(t)
    <3>1. Len(buf.data \o t) = Len(buf.data) + Len(t)
      BY <2>3, ConcatProperties
    <3>2. buf \in [of : Stream, data : Seq(Byte)]
      BY <1>0 DEF TypeOK
    <3> QED
      BY <2>4, <3>1, <3>2
  <2>6. file' = file /\ mem' = mem /\ saved' = saved
    BY <1>5 DEF DrainTails
  <2>7. at' <= Len(file'[buf'.of]) + Len(buf'.data)
    <3> DEFINE c == Len(file[pc])
               d == Len(buf.data)
               e == Len(t)
               f == Len(buf'.data)
    <3>1. c \in Nat /\ d \in Nat /\ e \in Nat
      BY <1>a, <2>1, <2>3
    <3>2. f = d + e /\ at <= c + d /\ next <= at + e /\ at' = next /\ at \in Nat /\ next \in Nat
      <4>1. f = d + e
        BY <2>5
      <4>2. next \in Nat
        BY <2>2
      <4> QED
        BY <2>1, <2>3, <2>4, <4>1, <4>2
    <3> HIDE DEF c, d, e, f
    <3>3. at' <= c + f
      BY <3>1, <3>2
    <3> QED
      BY <2>1, <2>5, <2>6, <3>3 DEF c, f
  <2>8. pc' # "close" => buf'.of = pc'
    BY <1>5, <2>1, <2>5 DEF DrainTails
  <2> QED
    BY <1>0, <2>6, <2>7, <2>8 DEF OffsetsAreLocal, Ahead
<1>6. CASE DrainCloses
  <2>1. /\ pc = "close" /\ at <= Len(file[buf.of]) + Len(buf.data) /\ file' = Flushed
        /\ mem' = [mem EXCEPT !.offset[buf.of] = at] /\ saved' = saved
    BY <1>0, <1>6 DEF DrainCloses, Ahead, Draining
  <2>2. at <= Len(file'[buf.of])
    BY <1>0, <2>1, FlushedType
  <2>3. \A s \in Stream : Len(file[s]) <= Len(file'[s])
    BY <1>0, <2>1, FlushedType
  <2>4. \A s \in Stream : mem'.offset[s] = IF s = buf.of THEN at ELSE mem.offset[s]
    BY <1>0, <2>1 DEF TypeOK, MonitorState
  <2>5. ASSUME NEW s \in Stream
        PROVE  mem'.offset[s] <= Len(file'[s]) /\ saved'.offset[s] <= Len(file'[s])
    <3> DEFINE k == saved.offset[s]
               m == mem.offset[s]
               a == Len(file[s])
               c == Len(file'[s])
    <3>1. k \in Nat /\ m \in Nat /\ a \in Nat /\ c \in Nat
      BY <1>0, <1>a DEF TypeOK, MonitorState
    <3>2. a <= c /\ k <= a /\ m <= a
      BY <1>0, <2>3 DEF OffsetsAreLocal
    <3> HIDE DEF k, m, a, c
    <3>3. k <= c /\ m <= c
      BY <3>1, <3>2
    <3>4. saved'.offset[s] <= Len(file'[s])
      BY <2>1, <3>3 DEF k, c
    <3>5. CASE s = buf.of
      BY <2>2, <2>4, <3>4, <3>5
    <3>6. CASE s # buf.of
      BY <2>4, <3>3, <3>4, <3>6 DEF m, c
    <3> QED
      BY <3>5, <3>6
  <2>6. OffsetsAreLocal'
    BY <2>5 DEF OffsetsAreLocal
  <2>7. CASE buf.of = "stdout"
    <3>1. OpenDrain("stderr") /\ "stderr" \in Stream
      BY <1>6, <2>7 DEF DrainCloses, Stream
    <3>2. mem.offset["stderr"] <= Len(file'["stderr"])
      BY <2>4, <2>5, <2>7, <3>1
    <3> QED
      BY <1>0, <2>6, <3>1, <3>2, OpenDrainAhead DEF TypeOK
  <2>8. CASE buf.of # "stdout"
    BY <1>6, <2>6, <2>8 DEF DrainCloses, Ahead, Draining, Stream
  <2> QED
    BY <2>7, <2>8
<1>7. CASE FinishPoll \/ TimesOut
  <2>1. mem' = mem /\ saved' = mem /\ file' = file /\ pc' \in {"off", "poll"}
    BY <1>7 DEF FinishPoll, TimesOut, Ends, Saves
  <2> QED
    BY <1>0, <2>1 DEF OffsetsAreLocal, Ahead, Draining, Stream
<1>8. CASE Interrupted
  <2>1. mem' = mem /\ saved' = mem /\ file' = Flushed /\ pc' = "off"
    BY <1>8 DEF Interrupted, Ends, Saves
  <2>2. OffsetsAreLocal'
    BY <1>0, <2>1, FlushedType, StaysLocal DEF TypeOK, OffsetsAreLocal
  <2> QED
    BY <2>1, <2>2 DEF Ahead, Draining, Stream
<1>9. CASE Killed
  <2>1. mem' = mem /\ saved' = saved /\ pc' = "off"
    BY <1>9 DEF Killed
  <2>2. file' \in [Stream -> Seq(Byte)]
    BY <1>0 DEF TypeOK
  <2>3. OffsetsAreLocal'
    BY <1>0, <1>9, <2>1, <2>2, KilledGrows, StaysLocal DEF TypeOK, OffsetsAreLocal
  <2> QED
    BY <2>1, <2>3 DEF Ahead, Draining, Stream
<1>10. CASE StatusFails \/ DrainFails
  BY <1>0, <1>10, ControlErrorLocal DEF StatusFails, DrainFails
<1>11. CASE UNCHANGED vars
  BY <1>0, <1>11 DEF vars, OffsetsAreLocal, Ahead, Draining
<1> QED
  BY <1>1, <1>2, <1>3, <1>4, <1>5, <1>6, <1>7, <1>8, <1>9, <1>10, <1>11
  DEF Next, Poll, Fault

\* monitor_state.json and the run never count a byte that is not in the local
\* log: whatever fails, is killed or replaced, the log is written first.
THEOREM OffsetsLocal == Spec => []OffsetsAreLocal
<1>1. LocalInv => OffsetsAreLocal
  BY DEF LocalInv
<1> QED
  BY <1>1, InitLocalInv, NextLocalInv, PTL DEF Spec
-----------------------------------------------------------------------------
(* The local logs are prefixes of the remote ones.                         *)

LEMMA EmptyBytes == ASSUME NEW b, NEW i \in Nat PROVE Bytes(b, i, i) = <<>>
<1>1. Bytes(b, i, i) \in Seq({b} \X Nat) /\ Len(Bytes(b, i, i)) = 0
  <2>1. i <= i /\ i - i = 0
    OBVIOUS
  <2> QED
    BY <2>1, BytesOf
<1> QED
  BY <1>1, EmptySeq

\* Bytes that wait for their file, cut anywhere, continue it.
LEMMA Continues ==
  ASSUME UnspoiltInv, NEW n \in 0..Len(buf.data)
  PROVE  file[buf.of] \o SubSeq(buf.data, 1, n) = Bytes(Origin, 0, Len(file[buf.of]) + n)
<1> DEFINE f == file[buf.of]
           d == buf.data
           k == Len(f)
           m == Len(d)
<1>1. f \in Seq(Byte) /\ d \in Seq(Byte) /\ buf.of \in Stream
  BY DEF UnspoiltInv, TypeOK
<1>2. k \in Nat /\ m \in Nat /\ n \in Nat /\ n <= m
  BY <1>1, LenProperties
<1>3. f = Bytes(Origin, 0, k)
  BY <1>1 DEF UnspoiltInv, LogsAreOrigin
<1>4. d = Bytes(Origin, k, k + m)
  <2>1. CASE Draining
    BY <2>1 DEF UnspoiltInv, BufferFollows
  <2>2. CASE ~Draining
    <3>1. d = <<>> /\ m = 0
      BY <2>2 DEF UnspoiltInv, BufferFollows
    <3> HIDE DEF k, m, d
    <3>2. k + m = k
      BY <1>2, <3>1
    <3> QED
      BY <1>2, <3>1, <3>2, EmptyBytes
  <2> QED
    BY <2>1, <2>2
<1> HIDE DEF f, d, k, m
<1>5. k + m \in Nat /\ k <= k + m /\ n \in 0..((k + m) - k) /\ k + n \in Nat /\ k <= k + n
  BY <1>2
<1>6. SubSeq(d, 1, n) = Bytes(Origin, k, k + n)
  BY <1>2, <1>4, <1>5, BytesFirst
<1>7. Bytes(Origin, 0, k) \o Bytes(Origin, k, k + n) = Bytes(Origin, 0, k + n)
  <2>1. 0 \in Nat /\ 0 <= k
    BY <1>2
  <2> QED
    BY <1>2, <1>5, <2>1, BytesJoin
<1>8. f \o SubSeq(d, 1, n) = Bytes(Origin, 0, k + n)
  BY <1>3, <1>6, <1>7
<1> QED
  BY <1>8 DEF f, d, k

LEMMA BytesLen ==
  ASSUME NEW b, NEW n \in Nat
  PROVE  Len(Bytes(b, 0, n)) = n
<1>1. 0 \in Nat /\ 0 <= n /\ n - 0 = n
  OBVIOUS
<1> QED
  BY <1>1, BytesOf

LEMMA CutIsOrigin ==
  ASSUME UnspoiltInv, NEW n \in 0..Len(buf.data),
         file' = [file EXCEPT ![buf.of] = @ \o SubSeq(buf.data, 1, n)]
  PROVE  \A s \in Stream : file'[s] = Bytes(Origin, 0, Len(file'[s]))
<1> TAKE s \in Stream
<1>1. buf.of \in Stream /\ file \in [Stream -> Seq(Byte)] /\ buf.data \in Seq(Byte)
  BY DEF UnspoiltInv, TypeOK
<1>2. CASE s = buf.of
  <2> DEFINE k == Len(file[buf.of])
  <2>1. file'[s] = Bytes(Origin, 0, k + n)
    BY <1>1, <1>2, Continues
  <2>2. k + n \in Nat
    BY <1>1, LenProperties
  <2> HIDE DEF k
  <2> QED
    BY <2>1, <2>2, BytesLen
<1>3. CASE s # buf.of
  <2>1. file'[s] = file[s]
    BY <1>1, <1>3
  <2> QED
    BY <2>1 DEF UnspoiltInv, LogsAreOrigin
<1> QED
  BY <1>2, <1>3

LEMMA FlushedIsOrigin ==
  ASSUME UnspoiltInv, file' = Flushed
  PROVE  \A s \in Stream : file'[s] = Bytes(Origin, 0, Len(file'[s]))
<1>1. buf.data \in Seq(Byte)
  BY DEF UnspoiltInv, TypeOK
<1>2. SubSeq(buf.data, 1, Len(buf.data)) = buf.data /\ Len(buf.data) \in 0..Len(buf.data)
  <2>1. Len(buf.data) \in Nat
    BY <1>1, LenProperties
  <2>2. SubSeq(buf.data, 1, Len(buf.data)) = buf.data
    BY <1>1, SubSeqFull
  <2> QED
    BY <2>1, <2>2
<1>3. file' = [file EXCEPT ![buf.of] = @ \o SubSeq(buf.data, 1, Len(buf.data))]
  BY <1>2 DEF Flushed
<1> QED
  BY <1>2, <1>3, CutIsOrigin

LEMMA InitUnspoiltInv == Init => UnspoiltInv
<1> SUFFICES ASSUME Init PROVE UnspoiltInv
  OBVIOUS
<1>1. Origin = 0 /\ \A s \in Stream : file[s] = <<>>
  BY DEF Init, NoState, Origin
<1>2. LogsAreOrigin
  BY <1>1, EmptyBytes DEF LogsAreOrigin
<1>3. ~Draining /\ pc = "off" /\ saved.bound = mem.bound
  BY DEF Init, Draining, Stream
<1>4. BufferFollows
  BY <1>3 DEF Init, BufferFollows
<1>5. BindingIsKnown
  <2>1. mem.bound <= boot /\ conn <= boot
    BY DEF Init, NoState
  <2> QED
    BY <1>1, <1>3, <2>1 DEF BindingIsKnown
<1>6. OffsetsAreSizes /\ RemoteIsAhead
  BY <1>3 DEF OffsetsAreSizes, RemoteIsAhead
<1> QED
  BY <1>2, <1>4, <1>5, <1>6, InitTypeOK DEF UnspoiltInv

\* The local facts of a state whose run does not drain.
LEMMA Idle ==
  ASSUME TypeOK', pc' \in {"off", "poll", "finish"}, buf'.data = <<>>
  PROVE  ~Draining' /\ BufferFollows' /\ RemoteIsAhead'
BY DEF Draining, BufferFollows, RemoteIsAhead, Stream

\* Opening a drain at the size of the local log establishes what a drain needs.
LEMMA OpenDrainInv ==
  ASSUME TypeOK', NEW s \in Stream, OpenDrain(s), mem.offset[s] = Len(file'[s])
  PROVE  Draining' /\ BufferFollows' /\ buf'.of = s /\ at' = mem.offset[s]
<1>1. /\ pc' = s /\ buf'.of = s /\ buf'.data = <<>> /\ at' = mem.offset[s] /\ chunks' = 0
  BY DEF OpenDrain
<1>2. Draining'
  BY <1>1 DEF Draining
<1>3. at' \in Nat /\ at' = Len(file'[s]) /\ Len(buf'.data) = 0
  BY <1>1 DEF TypeOK
<1>4. at' = Len(file'[s]) + Len(buf'.data)
  BY <1>3
<1>5. buf'.data = Bytes(Origin', Len(file'[s]), at')
  BY <1>1, <1>3, EmptyBytes
<1> QED
  BY <1>1, <1>2, <1>4, <1>5 DEF BufferFollows, Stream

LEMMA SameOrigin ==
  ASSUME UnspoiltInv, file' = file, mem'.bound = mem.bound
  PROVE  Origin' = Origin /\ LogsAreOrigin'
BY DEF UnspoiltInv, LogsAreOrigin, Origin

LEMMA NothingToFlush ==
  ASSUME TypeOK, buf.data = <<>>
  PROVE  Flushed = file
<1>1. /\ file \in [Stream -> Seq(Byte)] /\ buf.of \in Stream
      /\ file[buf.of] \o buf.data = file[buf.of]
  BY ConcatEmptySeq DEF TypeOK
<1> QED
  BY <1>1 DEF Flushed

\* While the run does not know the runtime, nothing was ever drained.
LEMMA UnboundIsEmpty ==
  ASSUME UnspoiltInv, mem.bound = None
  PROVE  /\ buf.data = <<>> /\ Flushed = file
         /\ \A s \in Stream : file[s] = <<>>
<1>1. ~Draining
  BY DEF UnspoiltInv, BindingIsKnown
<1>2. buf.data = <<>>
  BY <1>1 DEF UnspoiltInv, BufferFollows
<1> QED
  BY <1>2, NothingToFlush DEF UnspoiltInv, BindingIsKnown

LEMMA ControlErrorInv ==
  ASSUME UnspoiltInv, ControlError, TypeOK',
         mem.bound \in {None, boot} => buf.data = <<>> /\
           \A s \in Stream : mem.offset[s] = Len(file[s])
  PROVE  UnspoiltInv'
<1> DEFINE m == [mem EXCEPT !.errors = @ + 1]
<1>1. /\ mem' = m /\ saved' = m /\ pc' \in {"off", "poll"} /\ file' = Flushed
      /\ conn' = None /\ boot' = boot
  BY DEF ControlError, Ends, Saves, remote
<1>2. m.offset = mem.offset /\ m.bound = mem.bound
  BY DEF UnspoiltInv, TypeOK, MonitorState
<1> HIDE DEF m
<1>3. buf'.data = <<>>
  BY DEF ControlError, NoBuf, UnspoiltInv, TypeOK
<1>4. ~Draining' /\ BufferFollows' /\ RemoteIsAhead'
  BY <1>1, <1>3, Idle
<1>5. Origin' = Origin
  BY <1>1, <1>2 DEF Origin
<1>6. LogsAreOrigin'
  BY <1>1, <1>5, FlushedIsOrigin DEF LogsAreOrigin
<1>7. BindingIsKnown'
  <2>1. mem'.bound <= boot' /\ conn' <= boot'
    BY <1>1, <1>2 DEF UnspoiltInv, BindingIsKnown, TypeOK
  <2>2. mem'.bound = None => \A s \in Stream : file'[s] = <<>>
    BY <1>1, <1>2, UnboundIsEmpty
  <2> QED
    BY <1>1, <1>4, <2>1, <2>2 DEF BindingIsKnown
<1>8. OffsetsAreSizes'
  <2>1. mem'.bound \in {None, boot'} => file' = file
    BY <1>1, <1>2, NothingToFlush DEF UnspoiltInv
  <2> QED
    BY <1>1, <1>2, <1>4, <2>1 DEF OffsetsAreSizes
<1> QED
  BY <1>4, <1>6, <1>7, <1>8 DEF UnspoiltInv

LEMMA RemoteInv == ASSUME UnspoiltInv, Remote, TypeOK' PROVE UnspoiltInv'
<1>1. /\ UNCHANGED <<file, saved, pc, mem, conn, drain>>
      /\ boot <= boot' /\ boot' \in Nat
      /\ boot' = boot => \A s \in Stream : log[s] <= log'[s]
  <2>1. CASE LogGrows
    <3>1. \A s \in Stream : log[s] <= log'[s]
      <4>1. log \in [Stream -> 0..MaxLog]
        BY DEF UnspoiltInv, TypeOK
      <4> QED
        BY <2>1, <4>1, Bounds DEF LogGrows
    <3> QED
      BY <2>1, <3>1 DEF LogGrows, UnspoiltInv, TypeOK
  <2>2. CASE JobEnds
    BY <2>2, Bounds DEF JobEnds, UnspoiltInv, TypeOK
  <2>3. CASE JobIsReplaced
    <3>1. boot \in Nat /\ boot' = boot + 1
      BY <2>3 DEF JobIsReplaced, UnspoiltInv, TypeOK
    <3> QED
      BY <2>3, <3>1 DEF JobIsReplaced
  <2> QED
    BY <2>1, <2>2, <2>3 DEF Remote
<1>2. /\ boot \in Nat /\ conn \in Int /\ mem.bound \in Int /\ conn <= boot /\ mem.bound <= boot
      /\ at \in Nat /\ buf.of \in Stream
      /\ \A s \in Stream : log[s] \in Nat /\ log'[s] \in Nat /\ mem.offset[s] \in Nat
  <2>1. boot \in Nat /\ conn \in Int /\ at \in Nat /\ buf.of \in Stream
    BY DEF UnspoiltInv, TypeOK
  <2>2. mem.bound \in Int /\ \A s \in Stream : mem.offset[s] \in Nat
    <3>1. mem.bound \in {None} \cup 0..MaxBoots /\ mem.offset \in [Stream -> Nat]
      BY DEF UnspoiltInv, TypeOK, MonitorState
    <3> QED
      BY <3>1
  <2>3. \A s \in Stream : log[s] \in Nat /\ log'[s] \in Nat
    BY DEF UnspoiltInv, TypeOK
  <2> QED
    BY <2>1, <2>2, <2>3 DEF UnspoiltInv, BindingIsKnown
<1>3. Draining' = Draining /\ Origin' = Origin
  BY <1>1 DEF Draining, Origin
<1>4. LogsAreOrigin' /\ BufferFollows'
  BY <1>1, <1>3 DEF UnspoiltInv, LogsAreOrigin, BufferFollows
<1>5. BindingIsKnown'
  BY <1>1, <1>2, <1>3 DEF UnspoiltInv, BindingIsKnown
<1>6. OffsetsAreSizes'
  <2>1. boot' # boot => mem.bound # boot'
    BY <1>1, <1>2
  <2> QED
    BY <1>1, <1>3, <2>1 DEF UnspoiltInv, OffsetsAreSizes
<1>7. RemoteIsAhead'
  <2>1. boot' # boot => conn # boot'
    BY <1>1, <1>2
  <2>2. CASE boot' = boot /\ Draining /\ conn = boot
    <3>1. at <= log[buf.of] /\ \A s \in Stream : mem.offset[s] <= log[s]
      BY <2>2 DEF UnspoiltInv, RemoteIsAhead
    <3> QED
      BY <1>1, <1>2, <2>2, <3>1 DEF RemoteIsAhead
  <2> QED
    BY <1>1, <1>3, <2>1, <2>2 DEF RemoteIsAhead
<1> QED
  BY <1>4, <1>5, <1>6, <1>7 DEF UnspoiltInv

LEMMA StartInv == ASSUME UnspoiltInv, Start, TypeOK' PROVE UnspoiltInv'
<1>1. /\ mem' = [saved EXCEPT !.exists = TRUE, !.offset = Reconciled]
      /\ file' = file /\ buf' = buf /\ boot' = boot /\ conn' = None
      /\ pc = "off" /\ pc' = "poll" /\ saved' = mem'
  BY DEF Start, Locks, Saves
<1>2. mem'.bound = saved.bound /\ mem'.offset = Reconciled
  BY <1>1 DEF UnspoiltInv, TypeOK, MonitorState
<1>3. buf'.data = <<>>
  BY <1>1 DEF UnspoiltInv, BufferFollows, Draining, Stream
<1>4. ~Draining' /\ BufferFollows' /\ RemoteIsAhead'
  BY <1>1, <1>3, Idle
<1>5. OffsetsAreSizes'
  BY <1>1, <1>2 DEF OffsetsAreSizes, Reconciled
<1>6. mem'.bound = mem.bound
  BY <1>1, <1>2 DEF UnspoiltInv, BindingIsKnown
<1>7. LogsAreOrigin'
  BY <1>1, <1>6, SameOrigin
<1>8. conn' <= boot'
  BY <1>1 DEF UnspoiltInv, TypeOK
<1>9. BindingIsKnown'
  BY <1>1, <1>4, <1>6, <1>8 DEF UnspoiltInv, BindingIsKnown
<1> QED
  BY <1>4, <1>5, <1>7, <1>9 DEF UnspoiltInv

LEMMA GetStatusInv == ASSUME UnspoiltInv, GetStatus, TypeOK' PROVE UnspoiltInv'
<1> DEFINE b == IF mem.bound = None THEN boot ELSE mem.bound
           m == [mem EXCEPT !.errors = 0, !.bound = b]
<1>1. /\ pc = "poll" /\ conn = boot /\ file' = file /\ boot' = boot /\ log' = log
      /\ boot \in 0..MaxBoots
  BY DEF GetStatus, Bound, NotRewound, UnspoiltInv, TypeOK
<1>2. m.bound = b /\ m.offset = mem.offset
  BY DEF UnspoiltInv, TypeOK, MonitorState
<1>3. \/ /\ b = boot /\ \A s \in Stream : m.offset[s] <= log[s]
         /\ OpenDrain("stdout") /\ mem' = m /\ conn' = conn
      \/ Ends("failed", m) /\ UNCHANGED drain
  BY <1>2 DEF GetStatus, Bound, NotRewound
<1> HIDE DEF m
<1>4. mem'.bound = b /\ mem'.offset = mem.offset
  BY <1>2, <1>3 DEF Ends, Saves
<1>5. b \in 0..MaxBoots /\ b <= boot
  <2>1. mem.bound \in {None} \cup 0..MaxBoots /\ mem.bound <= boot
    BY DEF UnspoiltInv, TypeOK, MonitorState, BindingIsKnown
  <2> QED
    BY <1>1, <2>1
<1>6. LogsAreOrigin'
  <2>1. CASE mem.bound = None
    <3>1. \A s \in Stream : file[s] = <<>>
      BY <2>1, UnboundIsEmpty
    <3> QED
      BY <1>1, <3>1, EmptyBytes DEF LogsAreOrigin
  <2>2. CASE mem.bound # None
    BY <1>1, <1>4, <2>2, SameOrigin
  <2> QED
    BY <2>1, <2>2
<1>7. CASE Ends("failed", m) /\ UNCHANGED drain
  <2>1. pc' = "off" /\ saved' = mem' /\ conn' = None /\ buf' = buf
    BY <1>7 DEF Ends, Saves
  <2>2. buf'.data = <<>>
    BY <1>1, <2>1 DEF UnspoiltInv, BufferFollows, Draining, Stream
  <2>3. ~Draining' /\ BufferFollows' /\ RemoteIsAhead'
    BY <2>1, <2>2, Idle
  <2>4. mem'.bound <= boot' /\ conn' <= boot' /\ mem'.bound # None
    BY <1>1, <1>4, <1>5, <2>1
  <2>5. BindingIsKnown' /\ OffsetsAreSizes'
    BY <2>1, <2>3, <2>4 DEF BindingIsKnown, OffsetsAreSizes
  <2> QED
    BY <1>6, <2>3, <2>5 DEF UnspoiltInv
<1>8. CASE /\ b = boot /\ \A s \in Stream : m.offset[s] <= log[s]
           /\ OpenDrain("stdout") /\ mem' = m /\ conn' = conn
  <2>1. \A s \in Stream : mem.offset[s] = Len(file[s]) /\ mem.offset[s] <= log[s]
    BY <1>1, <1>2, <1>8 DEF UnspoiltInv, OffsetsAreSizes
  <2>2. "stdout" \in Stream
    BY DEF Stream
  <2>3. Draining' /\ BufferFollows' /\ buf'.of = "stdout" /\ at' = mem.offset["stdout"]
    BY <1>1, <1>8, <2>1, <2>2, OpenDrainInv
  <2>4. mem'.bound = conn' /\ conn' # None /\ mem'.bound <= boot' /\ conn' <= boot'
    BY <1>1, <1>4, <1>5, <1>8
  <2>5. pc' # "off"
    BY <1>8 DEF OpenDrain
  <2>6. BindingIsKnown'
    BY <2>4, <2>5 DEF BindingIsKnown
  <2>7. OffsetsAreSizes' /\ RemoteIsAhead'
    BY <1>1, <1>4, <2>1, <2>2, <2>3 DEF OffsetsAreSizes, RemoteIsAhead
  <2> QED
    BY <1>6, <2>3, <2>6, <2>7 DEF UnspoiltInv
<1> QED
  BY <1>3, <1>7, <1>8

LEMMA DrainSkipsInv == ASSUME UnspoiltInv, DrainSkips, TypeOK' PROVE UnspoiltInv'
<1>1. /\ pc \in Stream /\ chunks = 0 /\ file' = file /\ mem' = mem /\ conn' = conn
      /\ boot' = boot /\ log' = log /\ saved' = saved
  BY DEF DrainSkips, remote
<1>2. Draining /\ mem.bound = conn /\ conn # None /\ pc' # "off"
  BY <1>1 DEF DrainSkips, OpenDrain, UnspoiltInv, BindingIsKnown, Draining, Stream
<1>3. LogsAreOrigin'
  BY <1>1, SameOrigin
<1>4. BindingIsKnown'
  BY <1>1, <1>2 DEF UnspoiltInv, BindingIsKnown
<1>5. OffsetsAreSizes'
  BY <1>1, <1>2 DEF UnspoiltInv, OffsetsAreSizes
<1>6. CASE pc = "stdout"
  <2>1. OpenDrain("stderr") /\ "stderr" \in Stream
    BY <1>6 DEF DrainSkips, Stream
  <2>2. mem.offset["stderr"] = Len(file'["stderr"])
    BY <1>1, <1>2, <2>1 DEF UnspoiltInv, OffsetsAreSizes
  <2>3. BufferFollows' /\ buf'.of = "stderr" /\ at' = mem.offset["stderr"]
    BY <2>1, <2>2, OpenDrainInv
  <2>4. RemoteIsAhead'
    BY <1>1, <1>2, <2>1, <2>3 DEF UnspoiltInv, RemoteIsAhead
  <2> QED
    BY <1>3, <1>4, <1>5, <2>3, <2>4 DEF UnspoiltInv
<1>7. CASE pc # "stdout"
  <2>1. pc' = "finish" /\ buf' = buf
    BY <1>7 DEF DrainSkips
  <2>2. buf'.data = <<>>
    BY <1>1, <1>2, <2>1 DEF UnspoiltInv, BufferFollows, Stream
  <2> QED
    BY <1>3, <1>4, <1>5, <2>1, <2>2, Idle DEF UnspoiltInv
<1> QED
  BY <1>6, <1>7

LEMMA DrainTailsInv == ASSUME UnspoiltInv, DrainTails, TypeOK' PROVE UnspoiltInv'
<1> DEFINE next == Least(at + MaxBytes, log[pc])
           t == Bytes(boot, at, next)
           k == Len(file[pc])
<1>1. /\ pc \in Stream /\ conn = boot /\ file' = file /\ mem' = mem /\ conn' = conn
      /\ boot' = boot /\ log' = log /\ saved' = saved /\ pc' \in {pc, "close"}
      /\ at' = next /\ chunks' = chunks + 1 /\ buf' = [buf EXCEPT !.data = @ \o t]
  BY DEF DrainTails, remote
<1>2. Draining /\ Draining' /\ mem.bound = boot /\ conn # None /\ pc' # "off" /\ buf.of = pc
  BY <1>1 DEF UnspoiltInv, BindingIsKnown, BufferFollows, Draining, Stream
<1>3. Origin = boot /\ Origin' = boot
  BY <1>1, <1>2 DEF Origin
<1>4. /\ k \in Nat /\ at \in Nat /\ log[pc] \in Nat /\ at + MaxBytes \in Nat
      /\ file[pc] \in Seq(Byte) /\ buf \in [of : Stream, data : Seq(Byte)]
  <2>1. file[pc] \in Seq(Byte) /\ at \in Nat /\ log[pc] \in Nat
    BY <1>1 DEF UnspoiltInv, TypeOK
  <2>2. buf \in [of : Stream, data : Seq(Byte)]
    BY DEF UnspoiltInv, TypeOK
  <2> QED
    BY <2>1, <2>2, Bounds, LenProperties
<1>5. at <= log[pc] /\ at <= next /\ next <= log[pc] /\ next \in Nat
  <2>1. at <= log[pc]
    BY <1>1, <1>2 DEF UnspoiltInv, RemoteIsAhead
  <2> QED
    BY <1>4, <2>1, Bounds DEF Least
<1>6. at = k + Len(buf.data) /\ buf.data = Bytes(boot, k, at) /\ Len(buf.data) \in Nat
  <2>1. at = k + Len(buf.data) /\ buf.data = Bytes(boot, k, at)
    BY <1>2, <1>3 DEF UnspoiltInv, BufferFollows
  <2> QED
    BY <1>4, <2>1, LenProperties
<1> HIDE DEF next, t, k
<1>7. k <= at
  BY <1>4, <1>6
<1>8. buf'.of = pc /\ buf'.data = Bytes(boot, k, next)
  <2>1. buf'.of = pc /\ buf'.data = buf.data \o t
    BY <1>1, <1>2, <1>4
  <2>2. k \in Nat /\ at \in Nat /\ next \in Nat /\ k <= at /\ at <= next
    BY <1>4, <1>5, <1>7
  <2>3. Bytes(boot, k, at) \o t = Bytes(boot, k, next)
    BY <2>2, BytesJoin DEF t
  <2> QED
    BY <1>6, <2>1, <2>3
<1>9. next = k + Len(buf'.data)
  <2>1. k \in Nat /\ next \in Nat /\ k <= next
    BY <1>4, <1>5, <1>7
  <2>2. Len(buf'.data) = next - k
    <3>1. Len(Bytes(boot, k, next)) = next - k
      BY <2>1, BytesOf
    <3> QED
      BY <1>8, <3>1
  <2> DEFINE d == Len(buf'.data)
  <2>3. d = next - k
    BY <2>2
  <2> HIDE DEF d
  <2>4. next = k + d
    BY <1>4, <1>5, <2>3
  <2> QED
    BY <2>4 DEF d
<1>10. BufferFollows'
  <2>1. pc' # "close" => buf'.of = pc'
    BY <1>1, <1>8
  <2>2. chunks' # 0
    BY <1>1 DEF UnspoiltInv, TypeOK
  <2> QED
    BY <1>1, <1>2, <1>3, <1>8, <1>9, <2>1, <2>2 DEF BufferFollows, k
<1>11. LogsAreOrigin'
  BY <1>1, SameOrigin
<1>12. BindingIsKnown' /\ OffsetsAreSizes'
  BY <1>1, <1>2 DEF UnspoiltInv, BindingIsKnown, OffsetsAreSizes
<1>13. RemoteIsAhead'
  BY <1>1, <1>2, <1>5, <1>8 DEF UnspoiltInv, RemoteIsAhead
<1> QED
  BY <1>10, <1>11, <1>12, <1>13 DEF UnspoiltInv

LEMMA DrainClosesInv == ASSUME UnspoiltInv, DrainCloses, TypeOK' PROVE UnspoiltInv'
<1>1. /\ pc = "close" /\ file' = Flushed /\ mem' = [mem EXCEPT !.offset[buf.of] = at]
      /\ conn' = conn /\ boot' = boot /\ log' = log /\ saved' = saved
  BY DEF DrainCloses, remote
<1>2. Draining /\ mem.bound = conn /\ conn # None /\ pc' # "off"
  BY <1>1 DEF DrainCloses, OpenDrain, UnspoiltInv, BindingIsKnown, Draining
<1>3. mem'.bound = mem.bound /\ buf.of \in Stream
      /\ \A s \in Stream : mem'.offset[s] = IF s = buf.of THEN at ELSE mem.offset[s]
  BY <1>1 DEF UnspoiltInv, TypeOK, MonitorState
<1>4. LogsAreOrigin'
  <2>1. Origin' = Origin
    BY <1>3 DEF Origin
  <2> QED
    BY <1>1, <2>1, FlushedIsOrigin DEF LogsAreOrigin
<1>5. BindingIsKnown'
  BY <1>1, <1>2, <1>3 DEF UnspoiltInv, BindingIsKnown
<1>6. \A s \in Stream : mem'.offset[s] = Len(file'[s])
  <2>1. at = Len(file[buf.of]) + Len(buf.data)
    BY <1>2 DEF UnspoiltInv, BufferFollows
  <2>2. Len(Flushed[buf.of]) = at /\ \A s \in Stream \ {buf.of} : Flushed[s] = file[s]
    BY <2>1, FlushedType DEF UnspoiltInv
  <2>3. \A s \in Stream : mem.offset[s] = Len(file[s])
    BY <1>2 DEF UnspoiltInv, OffsetsAreSizes
  <2> TAKE s \in Stream
  <2>4. CASE s = buf.of
    BY <1>1, <1>3, <2>2, <2>4
  <2>5. CASE s # buf.of
    BY <1>1, <1>3, <2>2, <2>3, <2>5
  <2> QED
    BY <2>4, <2>5
<1>7. OffsetsAreSizes'
  BY <1>6 DEF OffsetsAreSizes
<1>8. CASE buf.of = "stdout"
  <2>1. OpenDrain("stderr") /\ "stderr" \in Stream
    BY <1>8 DEF DrainCloses, Stream
  <2>2. mem.offset["stderr"] = mem'.offset["stderr"]
    BY <1>3, <1>8, <2>1
  <2>3. BufferFollows' /\ buf'.of = "stderr" /\ at' = mem.offset["stderr"]
    BY <1>6, <2>1, <2>2, OpenDrainInv
  <2>4. RemoteIsAhead'
    <3>1. conn = boot => /\ at <= log[buf.of]
                         /\ \A s \in Stream : mem.offset[s] <= log[s]
      BY <1>2 DEF UnspoiltInv, RemoteIsAhead
    <3> QED
      BY <1>1, <1>3, <2>1, <2>3, <3>1 DEF RemoteIsAhead
  <2> QED
    BY <1>4, <1>5, <1>7, <2>3, <2>4 DEF UnspoiltInv
<1>9. CASE buf.of # "stdout"
  <2>1. pc' = "finish" /\ buf' = [buf EXCEPT !.data = <<>>]
    BY <1>9 DEF DrainCloses
  <2>2. buf'.data = <<>>
    BY <2>1 DEF UnspoiltInv, TypeOK
  <2> QED
    BY <1>4, <1>5, <1>7, <2>1, <2>2, Idle DEF UnspoiltInv
<1> QED
  BY <1>8, <1>9

\* A run that ends, in order or not, leaves the logs as they were flushed.
LEMMA EndInv ==
  ASSUME UnspoiltInv, TypeOK', pc' = "off", conn' = None, buf'.data = <<>>, boot' = boot,
         mem' = mem, saved'.bound = mem.bound, LogsAreOrigin',
         mem.bound = None => file' = file
  PROVE  UnspoiltInv'
<1>1. ~Draining' /\ BufferFollows' /\ RemoteIsAhead'
  BY Idle
<1>2. mem'.bound <= boot' /\ conn' <= boot'
  BY DEF UnspoiltInv, BindingIsKnown, TypeOK
<1>3. BindingIsKnown' /\ OffsetsAreSizes'
  BY <1>1, <1>2 DEF UnspoiltInv, BindingIsKnown, OffsetsAreSizes
<1> QED
  BY <1>1, <1>3 DEF UnspoiltInv

\* A step that leaves the evidence unspoilt keeps the invariant.
LEMMA NextUnspoiltInv == UnspoiltInv /\ [Next]_vars /\ spoilt' = {} => UnspoiltInv'
<1> SUFFICES ASSUME UnspoiltInv, [Next]_vars, spoilt' = {} PROVE UnspoiltInv'
  OBVIOUS
<1>0. TypeOK /\ TypeOK'
  BY NextTypeOK DEF UnspoiltInv
<1>1. CASE Connect
  <2>1. /\ pc = "poll" /\ conn' = boot
        /\ UNCHANGED <<boot, log, file, saved, pc, mem, drain>>
    BY <1>1 DEF Connect
  <2>2. ~Draining /\ ~Draining'
    BY <2>1 DEF Draining, Stream
  <2>3. LogsAreOrigin' /\ BufferFollows'
    BY <2>1, <2>2, SameOrigin DEF UnspoiltInv, BufferFollows
  <2>4. BindingIsKnown'
    <3>1. conn' <= boot'
      BY <1>0, <2>1 DEF TypeOK
    <3> QED
      BY <2>1, <2>2, <3>1 DEF UnspoiltInv, BindingIsKnown
  <2> QED
    BY <1>0, <2>1, <2>2, <2>3, <2>4 DEF UnspoiltInv, OffsetsAreSizes, RemoteIsAhead
<1>2. CASE FinishPoll
  <2>1. /\ pc = "finish" /\ mem' = mem /\ saved' = mem /\ file' = file /\ buf' = buf
        /\ boot' = boot
        /\ (pc' = "off" /\ conn' = None) \/ (pc' = "poll" /\ conn' = conn)
    BY <1>2 DEF FinishPoll, Ends, Saves
  <2>2. buf'.data = <<>> /\ mem.bound = conn /\ conn # None
        /\ \A s \in Stream : mem.offset[s] = Len(file[s])
    BY <2>1 DEF UnspoiltInv, BufferFollows, BindingIsKnown, OffsetsAreSizes, Draining, Stream
  <2>3. ~Draining' /\ BufferFollows' /\ RemoteIsAhead'
    BY <1>0, <2>1, <2>2, Idle
  <2>4. LogsAreOrigin'
    BY <2>1, SameOrigin
  <2>5. BindingIsKnown'
    <3>1. mem'.bound <= boot' /\ conn' <= boot'
      BY <1>0, <2>1 DEF UnspoiltInv, BindingIsKnown, TypeOK
    <3> QED
      BY <2>1, <2>2, <2>3, <3>1 DEF BindingIsKnown
  <2> QED
    BY <1>0, <2>1, <2>2, <2>3, <2>4, <2>5 DEF UnspoiltInv, OffsetsAreSizes
<1>3. CASE TimesOut
  <2>1. /\ pc = "poll" /\ mem' = mem /\ saved' = mem /\ file' = file /\ buf' = buf
        /\ boot' = boot /\ pc' = "off" /\ conn' = None
    BY <1>3 DEF TimesOut, Ends, Saves
  <2>2. buf'.data = <<>>
    BY <2>1 DEF UnspoiltInv, BufferFollows, Draining, Stream
  <2> QED
    BY <1>0, <2>1, <2>2, SameOrigin, EndInv
<1>4. CASE Interrupted
  <2>1. /\ mem' = mem /\ saved' = mem /\ file' = Flushed
        /\ boot' = boot /\ pc' = "off" /\ conn' = None
    BY <1>4 DEF Interrupted, Ends, Saves
  <2>2. buf'.data = <<>>
    BY <1>0, <1>4 DEF Interrupted, TypeOK
  <2>3. LogsAreOrigin'
    BY <2>1, FlushedIsOrigin DEF LogsAreOrigin, Origin
  <2>4. mem.bound = None => file' = file
    BY <2>1, UnboundIsEmpty
  <2> QED
    BY <1>0, <2>1, <2>2, <2>3, <2>4, EndInv
<1>5. CASE Killed
  <2>1. /\ mem' = mem /\ boot' = boot /\ pc' = "off" /\ conn' = None
        /\ saved'.bound = mem.bound
    BY <1>5 DEF Killed, Spoils
  <2>2. buf'.data = <<>>
    BY <1>0, <1>5 DEF Killed, TypeOK
  <2>3. PICK n \in 0..Len(buf.data) :
          file' = [file EXCEPT ![buf.of] = @ \o SubSeq(buf.data, 1, n)]
    BY <1>5 DEF Killed
  <2>4. LogsAreOrigin'
    BY <2>1, <2>3, CutIsOrigin DEF LogsAreOrigin, Origin
  <2>5. mem.bound = None => file' = file
    <3> SUFFICES ASSUME mem.bound = None PROVE file' = file
      OBVIOUS
    <3>1. buf.data = <<>> /\ Flushed = file
      BY UnboundIsEmpty
    <3>2. SubSeq(buf.data, 1, n) = buf.data
      BY <3>1
    <3> QED
      BY <2>3, <3>1, <3>2 DEF Flushed
  <2> QED
    BY <1>0, <2>1, <2>2, <2>4, <2>5, EndInv
<1>6. CASE StatusFails
  <2>1. buf.data = <<>>
    BY <1>6 DEF StatusFails, UnspoiltInv, BufferFollows, Draining, Stream
  <2>2. mem.bound \in {None, boot} => \A s \in Stream : mem.offset[s] = Len(file[s])
    BY <1>6 DEF StatusFails, UnspoiltInv, OffsetsAreSizes
  <2> QED
    BY <1>0, <1>6, <2>1, <2>2, ControlErrorInv DEF StatusFails
<1>7. CASE DrainFails
  <2>1. Draining /\ mem.bound = conn /\ conn # None /\ pc # "close"
    BY <1>7 DEF DrainFails, UnspoiltInv, BindingIsKnown, Draining, Stream
  <2>2. \A s \in Stream : mem.offset[s] = Len(file[s])
    BY <2>1 DEF UnspoiltInv, OffsetsAreSizes
  <2>3. mem.bound \in {None, boot} => buf.data = <<>>
    BY <1>7, <2>1 DEF DrainFails, Spoils
  <2> QED
    BY <1>0, <1>7, <2>2, <2>3, ControlErrorInv DEF DrainFails
<1>8. CASE UNCHANGED vars
  BY <1>0, <1>8 DEF vars, UnspoiltInv, LogsAreOrigin, Origin, BufferFollows, Draining,
     BindingIsKnown, OffsetsAreSizes, RemoteIsAhead
<1> QED
  BY <1>0, <1>1, <1>2, <1>3, <1>4, <1>5, <1>6, <1>7, <1>8, RemoteInv, StartInv,
     GetStatusInv, DrainSkipsInv, DrainTailsInv, DrainClosesInv
  DEF Next, Poll, Fault

\* What has spoilt the evidence stays.
LEMMA SpoiltStays == TypeOK /\ [Next]_vars => spoilt \subseteq spoilt'
<1> SUFFICES ASSUME TypeOK, [Next]_vars PROVE spoilt \subseteq spoilt'
  OBVIOUS
<1>1. CASE Killed \/ DrainFails
  BY <1>1 DEF Killed, DrainFails, Spoils
<1>2. CASE Remote \/ Start \/ Poll \/ TimesOut \/ Interrupted \/ StatusFails \/ UNCHANGED vars
  BY <1>2 DEF Remote, LogGrows, JobEnds, JobIsReplaced, Start, Poll, Connect, GetStatus,
     DrainSkips, DrainTails, DrainCloses, FinishPoll, TimesOut, Interrupted, StatusFails, vars
<1> QED
  BY <1>1, <1>2 DEF Next, Fault

LEMMA NextMonitorInv == MonitorInv /\ [Next]_vars => MonitorInv'
<1> SUFFICES ASSUME MonitorInv, [Next]_vars PROVE MonitorInv'
  OBVIOUS
<1>1. TypeOK'
  BY NextTypeOK DEF MonitorInv
<1>2. spoilt' = {} => UnspoiltInv'
  BY SpoiltStays, NextUnspoiltInv DEF MonitorInv
<1> QED
  BY <1>1, <1>2 DEF MonitorInv

\* MonitorInv holds of every reachable state.  As long as no kill has lost the
\* binding of the evidence and no tail call has failed on bytes that its drain
\* had fetched (spoilt = {}), every byte in the local logs and in the buffer of
\* the open drain has its place in the log of one runtime, and the offsets
\* follow the sizes of the local logs; after one of the two only TypeOK is left.
THEOREM Invariance == Spec => []MonitorInv
<1>1. Init => MonitorInv
  BY InitUnspoiltInv DEF MonitorInv, UnspoiltInv
<1> QED
  BY <1>1, NextMonitorInv, PTL DEF Spec

\* The local logs are prefixes of the logs of one runtime, wherever the runs
\* are interrupted, restarted, cut off or killed, but for the two faults of
\* Spoils, after which the code breaks it.
THEOREM Prefix == Spec => []EvidenceIsPrefix
<1>1. MonitorInv => EvidenceIsPrefix
  <2> SUFFICES ASSUME UnspoiltInv
               PROVE  \E b \in 0..MaxBoots : \A s \in Stream : file[s] = Bytes(b, 0, Len(file[s]))
    BY DEF MonitorInv, EvidenceIsPrefix
  <2>1. Origin \in 0..MaxBoots
    BY Bounds DEF UnspoiltInv, TypeOK, MonitorState, Origin
  <2> QED
    BY <2>1 DEF UnspoiltInv, LogsAreOrigin
<1> QED
  BY <1>1, Invariance, PTL
-----------------------------------------------------------------------------
(* A completed run has every byte that the terminal status counted.        *)

\* What a poll has fetched of a log, closed or not, and what it takes for a
\* log to count as caught up.
Fetched(s) == IF Draining /\ s = buf.of THEN at ELSE mem.offset[s]
Caught ==
  /\ Draining \/ pc = "finish" => \A s \in caught : snap.size[s] <= Fetched(s)
  /\ Draining /\ conn = boot => \A s \in Stream : snap.size[s] <= log[s]
  /\ outcome = "completed" =>
       pc = "off" /\ mem.bound # None /\ \A s \in Stream : snap.size[s] <= Len(file[s])

LEMMA InitCaught == Init => Caught
BY DEF Init, Caught, Draining, Stream

\* While a poll drains, the open log apart, the offsets are the sizes.
LEMMA Sizes ==
  ASSUME UnspoiltInv, Draining
  PROVE  /\ buf.of \in Stream /\ at \in Nat /\ (pc \in Stream => buf.of = pc)
         /\ \A s \in Stream : mem.offset[s] \in Nat /\ snap.size[s] \in Nat
         /\ pc \in Stream /\ chunks = 0 => at = mem.offset[pc]
<1>1. buf.of \in Stream /\ at \in Nat
      /\ \A s \in Stream : mem.offset[s] \in Nat /\ snap.size[s] \in Nat
  <2>1. mem.offset \in [Stream -> Nat] /\ snap.size \in [Stream -> 0..MaxLog]
    BY DEF UnspoiltInv, TypeOK, MonitorState
  <2> QED
    BY <2>1, Bounds DEF UnspoiltInv, TypeOK
<1>2. pc \in Stream => buf.of = pc
  BY DEF UnspoiltInv, BufferFollows, Stream
<1>3. ASSUME pc \in Stream, chunks = 0 PROVE at = mem.offset[pc]
  <2>1. at = Len(file[pc]) + Len(buf.data) /\ buf.data = <<>>
    BY <1>2, <1>3 DEF UnspoiltInv, BufferFollows, Stream
  <2>2. mem.offset[pc] = Len(file[pc]) /\ Len(buf.data) = 0
    BY <1>3, <2>1 DEF UnspoiltInv, OffsetsAreSizes
  <2> QED
    BY <1>1, <1>3, <2>1, <2>2
<1> QED
  BY <1>1, <1>2, <1>3

LEMMA RemoteCaught == ASSUME UnspoiltInv, Caught, Remote PROVE Caught'
<1>1. /\ UNCHANGED <<file, pc, mem, conn, drain, snap, caught, outcome>>
      /\ boot' \in {boot, boot + 1}
      /\ boot' = boot => \A s \in Stream : log[s] <= log'[s]
  <2>1. log \in [Stream -> 0..MaxLog]
    BY DEF UnspoiltInv, TypeOK
  <2>2. CASE LogGrows
    <3>1. \A s \in Stream : log[s] <= log'[s]
      BY <2>1, <2>2, Bounds DEF LogGrows
    <3> QED
      BY <2>2, <3>1 DEF LogGrows
  <2>3. CASE JobEnds
    BY <2>1, <2>3, Bounds DEF JobEnds
  <2>4. CASE JobIsReplaced
    <3>1. boot' # boot
      BY <2>4 DEF JobIsReplaced, UnspoiltInv, TypeOK
    <3> QED
      BY <2>4, <3>1 DEF JobIsReplaced
  <2> QED
    BY <2>2, <2>3, <2>4 DEF Remote
<1>2. /\ boot \in Nat /\ conn \in Int /\ conn <= boot
      /\ \A s \in Stream : snap.size[s] \in Nat /\ log[s] \in Nat
      /\ log' \in [Stream -> 0..MaxLog] \/ boot' # boot
  <2>1. /\ boot \in Nat /\ conn \in Int
        /\ snap.size \in [Stream -> 0..MaxLog] /\ log \in [Stream -> 0..MaxLog]
    BY DEF UnspoiltInv, TypeOK
  <2>2. log' \in [Stream -> 0..MaxLog] \/ boot' # boot
    BY <2>1, Bounds DEF Remote, LogGrows, JobEnds, JobIsReplaced
  <2> QED
    BY <2>1, <2>2, Bounds DEF UnspoiltInv, BindingIsKnown
<1>3. Draining' = Draining /\ \A s \in Stream : Fetched(s)' = Fetched(s)
  BY <1>1 DEF Draining, Fetched
<1>4. caught \subseteq Stream
  BY DEF UnspoiltInv, TypeOK
<1>5. Draining' /\ conn' = boot' => \A s \in Stream : snap'.size[s] <= log'[s]
  <2> SUFFICES ASSUME Draining', conn' = boot', NEW s \in Stream PROVE snap'.size[s] <= log'[s]
    OBVIOUS
  <2>1. boot' = boot /\ conn = boot
    BY <1>1, <1>2
  <2>2. snap.size[s] <= log[s] /\ log[s] <= log'[s] /\ log'[s] \in Nat
    BY <1>1, <1>2, <1>3, <2>1, Bounds DEF Caught
  <2> QED
    BY <1>1, <1>2, <2>2
<1>6. Draining' \/ pc' = "finish" => \A s \in caught' : snap'.size[s] <= Fetched(s)'
  BY <1>1, <1>3, <1>4 DEF Caught
<1> QED
  BY <1>1, <1>5, <1>6 DEF Caught

LEMMA DrainSkipsCaught == ASSUME UnspoiltInv, Caught, DrainSkips PROVE Caught'
<1>1. /\ pc \in Stream /\ chunks = 0 /\ at = snap.size[pc] /\ caught' = caught \cup {pc}
      /\ UNCHANGED <<boot, log, mem, conn, snap, outcome>>
      /\ pc' = "finish" \/ (OpenDrain("stderr") /\ "stderr" \in Stream)
  BY DEF DrainSkips, remote, Stream
<1>2. Draining /\ outcome # "completed" /\ caught \subseteq Stream
  BY <1>1 DEF Draining, Caught, Stream, UnspoiltInv, TypeOK
<1>3. \A s \in Stream : Fetched(s) = mem.offset[s]
  BY <1>1, <1>2, Sizes DEF Fetched
<1>4. \A s \in Stream : Fetched(s)' = mem.offset[s]
  BY <1>1 DEF Fetched, OpenDrain, Draining, Stream
<1>5. \A s \in caught' : snap.size[s] <= mem.offset[s]
  <2>1. snap.size[pc] = mem.offset[pc] /\ snap.size[pc] \in Nat
    BY <1>1, <1>2, Sizes
  <2> QED
    BY <1>1, <1>2, <1>3, <2>1 DEF Caught
<1> QED
  BY <1>1, <1>2, <1>4, <1>5 DEF Caught

LEMMA DrainTailsCaught == ASSUME UnspoiltInv, Caught, DrainTails PROVE Caught'
<1> DEFINE next == Least(at + MaxBytes, log[pc])
           up == next >= log[pc] \/ next >= snap.size[pc]
<1>1. /\ pc \in Stream /\ conn = boot /\ at' = next /\ buf'.of = buf.of
      /\ caught' = (IF up THEN caught \cup {pc} ELSE caught)
      /\ UNCHANGED <<boot, log, mem, conn, snap, outcome>> /\ pc' \in {pc, "close"}
  BY DEF DrainTails, remote, UnspoiltInv, TypeOK
<1>2. Draining /\ Draining' /\ outcome # "completed" /\ caught \subseteq Stream
  BY <1>1 DEF Draining, Caught, Stream, UnspoiltInv, TypeOK
<1>3. buf.of = pc /\ at \in Nat /\ \A s \in Stream : mem.offset[s] \in Nat /\ snap.size[s] \in Nat
  BY <1>1, <1>2, Sizes
<1>4. log[pc] \in Nat /\ at <= log[pc] /\ snap.size[pc] <= log[pc]
  BY <1>1, <1>2, <1>3, Bounds DEF UnspoiltInv, TypeOK, RemoteIsAhead, Caught
<1>5. next \in Nat /\ at <= next
  BY <1>3, <1>4, Bounds DEF Least
<1> HIDE DEF next
<1>6. ASSUME NEW s \in caught' PROVE snap'.size[s] <= Fetched(s)'
  <2>1. CASE s = pc
    <3>1. Fetched(s)' = next
      BY <1>1, <1>2, <1>3, <2>1 DEF Fetched
    <3>2. CASE up
      BY <1>1, <1>3, <1>4, <1>5, <2>1, <3>1, <3>2
    <3>3. CASE ~up
      <4>1. snap.size[s] <= at
        BY <1>1, <1>2, <1>3, <1>6, <2>1, <3>3 DEF Caught, Fetched
      <4> QED
        BY <1>1, <1>3, <1>5, <2>1, <3>1, <4>1
    <3> QED
      BY <3>2, <3>3
  <2>2. CASE s # pc
    BY <1>1, <1>2, <1>3, <1>6, <2>2 DEF Caught, Fetched
  <2> QED
    BY <2>1, <2>2
<1> QED
  BY <1>1, <1>2, <1>6 DEF Caught

LEMMA DrainClosesCaught == ASSUME UnspoiltInv, Caught, DrainCloses PROVE Caught'
<1>1. /\ pc = "close" /\ mem' = [mem EXCEPT !.offset[buf.of] = at]
      /\ UNCHANGED <<boot, log, conn, snap, caught, outcome>>
      /\ \/ buf.of = "stdout" /\ OpenDrain("stderr") /\ "stderr" \in Stream
         \/ buf.of # "stdout" /\ pc' = "finish"
  BY DEF DrainCloses, remote, Stream
<1>2. Draining /\ outcome # "completed" /\ caught \subseteq Stream
  BY <1>1 DEF Draining, Caught, UnspoiltInv, TypeOK
<1>3. \A s \in Stream : mem'.offset[s] = IF s = buf.of THEN at ELSE mem.offset[s]
  BY <1>1, <1>2, Sizes DEF UnspoiltInv, TypeOK, MonitorState
<1>4. \A s \in Stream : Fetched(s)' = Fetched(s)
  <2>1. CASE pc' = "finish"
    BY <1>2, <1>3, <2>1 DEF Fetched, Draining, Stream
  <2>2. CASE buf.of = "stdout" /\ OpenDrain("stderr") /\ "stderr" \in Stream
    <3>1. Draining' /\ buf'.of = "stderr" /\ at' = mem.offset["stderr"]
      BY <2>2 DEF OpenDrain, Draining
    <3> QED
      BY <1>2, <1>3, <2>2, <3>1 DEF Fetched, Stream
  <2> QED
    BY <1>1, <2>1, <2>2
<1> QED
  BY <1>1, <1>2, <1>4 DEF Caught

LEMMA NextCaught == UnspoiltInv /\ Caught /\ [Next]_vars => Caught'
<1> SUFFICES ASSUME UnspoiltInv, Caught, [Next]_vars PROVE Caught'
  OBVIOUS
<1>1. CASE Start
  BY <1>1 DEF Start, Caught, Draining, Stream
<1>2. CASE Connect
  BY <1>2 DEF Connect, Caught, Draining, Stream, Fetched, remote
<1>3. CASE GetStatus
  <2>1. /\ snap'.size = log /\ log' = log /\ caught' = {} /\ pc = "poll"
        /\ outcome' \in {outcome, "failed"}
    BY <1>3 DEF GetStatus, Ends, remote
  <2>2. \A s \in Stream : log[s] \in Nat /\ log[s] <= log[s]
    BY Bounds DEF UnspoiltInv, TypeOK
  <2> QED
    BY <2>1, <2>2 DEF Caught
<1>4. CASE FinishPoll
  <2>1. /\ pc = "finish" /\ mem' = mem /\ file' = file /\ snap' = snap
        /\ pc' \in {"off", "poll"}
        /\ \/ outcome' \in {outcome, "snapshot"}
           \/ outcome' = "completed" /\ caught = Stream /\ pc' = "off"
    BY <1>4 DEF FinishPoll, Ends, Saves
  <2>2. ~Draining /\ ~Draining' /\ outcome # "completed"
    BY <2>1 DEF Draining, Stream, Caught
  <2>3. mem.bound # None /\ \A s \in Stream : mem.offset[s] = Len(file[s])
    BY <2>1 DEF UnspoiltInv, BindingIsKnown, OffsetsAreSizes
  <2>4. caught = Stream => \A s \in Stream : snap.size[s] <= Len(file[s])
    BY <2>1, <2>2, <2>3 DEF Caught, Fetched
  <2> QED
    BY <2>1, <2>2, <2>3, <2>4 DEF Caught
<1>5. CASE Fault
  <2>1. pc # "off" /\ pc' \in {"off", "poll"} /\ outcome' \in {outcome, "timeout", "interrupted", "failed"}
    BY <1>5 DEF Fault, TimesOut, Interrupted, Killed, StatusFails, DrainFails, ControlError,
                Ends, Stream
  <2> QED
    BY <2>1 DEF Caught, Draining, Stream
<1>6. CASE UNCHANGED vars
  BY <1>6 DEF vars, Caught, Draining, Fetched
<1> QED
  BY <1>1, <1>2, <1>3, <1>4, <1>5, <1>6, RemoteCaught, DrainSkipsCaught, DrainTailsCaught,
     DrainClosesCaught DEF Next, Poll

\* A run that completes has every byte that the terminal status counted, at
\* its place in the local log: nothing that failed, was skipped or left to a
\* later poll before is missing, unless a fault of Spoils came before it.
THEOREM Complete == Spec => []EvidenceIsComplete
<1> DEFINE I == MonitorInv /\ (spoilt = {} => Caught)
<1>1. I => EvidenceIsComplete
  <2> SUFFICES ASSUME UnspoiltInv, Caught, outcome = "completed", NEW s \in Stream,
                      NEW i \in 1..snap.size[s]
               PROVE  \E k \in DOMAIN file[s] : file[s][k] = <<mem.bound, i>>
    BY DEF EvidenceIsComplete, MonitorInv
  <2> DEFINE n == Len(file[s])
  <2>1. n \in Nat /\ snap.size[s] \in Nat /\ file[s] \in Seq(Byte)
    BY Bounds DEF UnspoiltInv, TypeOK
  <2>2. snap.size[s] <= n /\ file[s] = Bytes(mem.bound, 0, n)
    BY DEF UnspoiltInv, LogsAreOrigin, Origin, Caught
  <2>3. i \in 1..(n - 0) /\ 0 <= n /\ 0 \in Nat
    BY <2>1, <2>2
  <2>4. Bytes(mem.bound, 0, n)[i] = <<mem.bound, 0 + i>>
    BY <2>1, <2>3, BytesOf
  <2>5. i \in DOMAIN file[s]
    BY <2>1, <2>3
  <2> QED
    BY <2>2, <2>3, <2>4, <2>5
<1>2. Init => I
  BY InitUnspoiltInv, InitCaught DEF MonitorInv, UnspoiltInv
<1>3. I /\ [Next]_vars => I'
  BY NextMonitorInv, NextCaught, SpoiltStays DEF MonitorInv
<1> HIDE DEF I
<1> QED
  BY <1>1, <1>2, <1>3, PTL DEF Spec
-----------------------------------------------------------------------------
(* wait and tail beside the monitor: the code of the job after all output *)

WaitType ==
  w \in [pc : {"off", "open", "status", "judge", "done"} \cup Stream,
         timed : BOOLEAN, late : BOOLEAN, link : {None} \cup 0..MaxBoots, sent : BOOLEAN,
         next : [Stream -> Nat], seen : [ended : BOOLEAN, size : [Stream -> 0..MaxLog]],
         exit : {"none", "failed", "timeout", "remote", "shown"}]

\* The streams that the poll has drained, by where the wait is.
Drained ==
  CASE w.pc = "stderr" -> {"stdout"} [] w.pc = "judge" -> Stream [] OTHER -> {}

WaitInv ==
  /\ TypeOK /\ WaitType
  /\ client = "wait" => \A s \in Drained : w.seen.size[s] <= w.next[s]
  /\ w.pc = "judge" => client = "wait"
  /\ w.exit = "remote" =>
       /\ w.pc = "done" /\ w.seen.ended
       /\ \A s \in Stream : w.seen.size[s] <= w.next[s]

LEMMA InitWait == WaitInit => WaitInv
<1> SUFFICES ASSUME WaitInit PROVE WaitInv
  OBVIOUS
<1>1. TypeOK
  BY InitTypeOK DEF WaitInit
<1>2. NoSnap \in [ended : BOOLEAN, size : [Stream -> 0..MaxLog]]
  BY Bounds DEF NoSnap
<1>3. WaitType
  BY <1>2 DEF WaitInit, Asleep, WaitType
<1> QED
  BY <1>1, <1>3 DEF WaitInit, Asleep, WaitInv, Drained

\* Every step of the composition is one of the monitor or leaves its part alone.
LEMMA StepIsMonitors == [ClientsNext]_<<vars, waiter>> => [Next]_vars
BY DEF ClientsNext, Next, waiter

\* Reading a chunk does not go back.
LEMMA UptoType ==
  ASSUME WaitInv, w.pc \in Stream, NEW size \in Nat, w.next[w.pc] <= size,
         size <= log[w.pc]
  PROVE  Upto(w.pc) \in Nat /\ w.next[w.pc] <= Upto(w.pc)
<1>1. w.next[w.pc] \in Nat /\ log[w.pc] \in Nat /\ w.next[w.pc] <= log[w.pc]
  BY Bounds DEF WaitInv, WaitType, TypeOK
<1> QED
  BY <1>1, Bounds DEF Upto, Least

LEMMA DrainsWait == ASSUME WaitInv, TypeOK', Drains, client' = client PROVE WaitInv'
<1>1. PICK size \in w.seen.size[w.pc]..log[w.pc] :
        /\ w.next[w.pc] <= size
        /\ w' = [w EXCEPT !.next[w.pc] = Upto(w.pc),
                          !.pc = IF Upto(w.pc) < size THEN w.pc
                                 ELSE IF w.pc = "stdout" THEN "stderr" ELSE "judge"]
  BY DEF Drains, Chunk, WaitInv, WaitType
<1> DEFINE u == Upto(w.pc)
<1>2. client = "wait" /\ w.pc \in Stream
  BY DEF Drains
<1>3. w.seen.size \in [Stream -> Nat] /\ log[w.pc] \in Nat /\ size \in Nat
      /\ w.seen.size[w.pc] <= size /\ size <= log[w.pc]
  <2>1. w.seen.size \in [Stream -> 0..MaxLog] /\ log \in [Stream -> 0..MaxLog]
    BY DEF WaitInv, WaitType, TypeOK
  <2>2. w.seen.size \in [Stream -> Nat] /\ log[w.pc] \in Nat /\ w.seen.size[w.pc] \in Nat
    BY <1>2, <2>1, Bounds
  <2> QED
    BY <1>1, <2>2
<1>4. u \in Nat
  BY <1>1, <1>2, <1>3, UptoType
<1> HIDE DEF u
<1>5. /\ w'.pc = (IF u < size THEN w.pc ELSE IF w.pc = "stdout" THEN "stderr" ELSE "judge")
      /\ w'.next = [w.next EXCEPT ![w.pc] = u] /\ w'.next \in [Stream -> Nat]
      /\ w'.seen = w.seen /\ w'.exit = w.exit
  BY <1>1, <1>2, <1>4 DEF WaitInv, WaitType, u
<1>6. WaitType'
  BY <1>1, <1>2, <1>4 DEF WaitInv, WaitType, Stream, u
<1>7. w.exit # "remote"
  BY <1>2 DEF WaitInv, Stream
<1>8. ASSUME NEW s \in Drained' PROVE w'.seen.size[s] <= w'.next[s]
  <2>1. w.next \in [Stream -> Nat]
    BY DEF WaitInv, WaitType
  <2>2. CASE u < size
    <3>1. s \in Drained /\ s # w.pc /\ s \in Stream
      BY <1>2, <1>5, <1>8, <2>2 DEF Drained, Stream
    <3> QED
      BY <1>2, <1>5, <2>1, <3>1 DEF WaitInv
  <2>3. CASE ~(u < size)
    <3>1. w.seen.size[w.pc] <= u
      BY <1>2, <1>3, <1>4, <2>3
    <3>2. s \in Stream /\ (s # w.pc => s \in Drained)
      BY <1>2, <1>5, <1>8, <2>3 DEF Drained, Stream
    <3> QED
      BY <1>2, <1>5, <2>1, <3>1, <3>2 DEF WaitInv
  <2> QED
    BY <2>2, <2>3
<1> QED
  BY <1>2, <1>5, <1>6, <1>7, <1>8 DEF WaitInv

LEMMA NextWait == WaitInv /\ [ClientsNext]_<<vars, waiter>> => WaitInv'
<1> SUFFICES ASSUME WaitInv, [ClientsNext]_<<vars, waiter>> PROVE WaitInv'
  OBVIOUS
<1>1. TypeOK /\ TypeOK'
  BY StepIsMonitors, NextTypeOK DEF WaitInv
<1>2. log \in [Stream -> 0..MaxLog] /\ boot \in 0..MaxBoots /\ ended \in BOOLEAN
  BY <1>1 DEF TypeOK
<1>3. CASE UNCHANGED waiter
  BY <1>1, <1>3 DEF waiter, WaitInv, WaitType, Drained
<1>4. CASE (Wait \/ DeadlinePasses \/ KernelRestarts) /\ UNCHANGED <<vars, client>>
  <2>1. client' = client
    BY <1>4
  <2>2. CASE Runs
    <3>1. PICK from \in [Stream -> 0..MaxLog], timed \in BOOLEAN :
            w' = [w EXCEPT !.pc = "open", !.next = from, !.timed = timed]
      BY <2>2 DEF Runs
    <3>2. from \in [Stream -> Nat] /\ w.pc = "off"
      BY <2>2, Bounds DEF Runs
    <3> QED
      BY <1>1, <2>1, <3>1, <3>2 DEF WaitInv, WaitType, Drained
  <2>3. CASE Opens
    <3>1. PICK to \in {"status"} \cup Stream :
            w' = [w EXCEPT !.pc = to, !.link = boot] /\ (client = "wait" => to = "status")
      BY <2>3 DEF Opens
    <3> QED
      BY <1>1, <1>2, <2>1, <2>3, <3>1 DEF Opens, WaitInv, WaitType, Drained, Stream
  <2>4. CASE GetsStatus
    <3>1. w.pc = "status"
          /\ w' = [w EXCEPT !.pc = "stdout", !.sent = TRUE, !.seen = [ended |-> ended, size |-> log]]
      BY <2>4 DEF GetsStatus
    <3> QED
      BY <1>1, <1>2, <2>1, <3>1 DEF WaitInv, WaitType, Drained, Stream
  <2>5. CASE Drains
    BY <1>1, <2>1, <2>5, DrainsWait
  <2>6. CASE Tails
    <3>1. /\ client = "tail" /\ w.pc \in Stream /\ w.next[w.pc] <= log[w.pc]
          /\ w' = [w EXCEPT !.next[w.pc] = Upto(w.pc), !.pc = "done", !.exit = "shown"]
      BY <2>6 DEF Tails, Chunk
    <3>2. Upto(w.pc) \in Nat
      BY <1>2, <3>1, Bounds, UptoType
    <3> QED
      BY <1>1, <2>1, <3>1, <3>2 DEF WaitInv, WaitType, Drained
  <2>7. CASE Judges
    <3>1. CASE w.seen.ended
      <4>1. /\ w.pc = "judge" /\ client = "wait"
            /\ \A s \in Stream : w.seen.size[s] <= w.next[s]
        BY <2>7 DEF Judges, WaitInv, Drained
      <4>2. PICK how \in {"remote", "failed"} : w' = [w EXCEPT !.pc = "done", !.exit = how]
        BY <2>7, <3>1 DEF Judges, Exits
      <4> QED
        BY <1>1, <2>1, <3>1, <4>1, <4>2 DEF WaitInv, WaitType, Drained
    <3>2. CASE ~w.seen.ended
      BY <1>1, <2>1, <2>7, <3>2 DEF Judges, Exits, WaitInv, WaitType, Drained
    <3> QED
      BY <3>1, <3>2
  <2>8. CASE Fails \/ TimesOutWaiting
    BY <1>1, <2>1, <2>8 DEF Fails, TimesOutWaiting, Exits, WaitInv, WaitType, Drained, Stream
  <2>9. CASE DeadlinePasses
    BY <1>1, <2>1, <2>9 DEF DeadlinePasses, Running, WaitInv, WaitType, Drained
  <2>10. CASE KernelRestarts
    BY <1>1, <2>1, <2>10 DEF KernelRestarts, WaitInv, WaitType, Drained
  <2> QED
    BY <1>4, <2>2, <2>3, <2>4, <2>5, <2>6, <2>7, <2>8, <2>9, <2>10 DEF Wait
<1> QED
  BY <1>3, <1>4 DEF ClientsNext, waiter

\* The composition implements the monitor alone: what is proved of the monitor
\* holds next to a wait or a tail.
THEOREM AsAlone == ClientsSpec => Spec
<1>1. WaitInit => Init
  BY DEF WaitInit
<1> QED
  BY <1>1, StepIsMonitors, PTL DEF ClientsSpec, Spec

\* A wait that returns the code of the job has printed all that either log had
\* when the terminal status was answered, however long the logs, whatever the
\* size of a chunk, and with the job, the kernel and the deadline as they like.
THEOREM WaitComplete == ClientsSpec => []WaitIsComplete
<1>1. WaitInv => WaitIsComplete
  <2> SUFFICES ASSUME WaitInv, w.exit = "remote", NEW s \in Stream
               PROVE  w.seen.ended /\ w.next[s] >= w.seen.size[s]
    BY DEF WaitIsComplete, WaitInv
  <2>1. w.next[s] \in Nat /\ w.seen.size \in [Stream -> 0..MaxLog] /\ w.seen.size[s] <= w.next[s]
    BY DEF WaitInv, WaitType
  <2> QED
    BY <2>1, Bounds DEF WaitInv
<1> QED
  BY <1>1, InitWait, NextWait, PTL DEF ClientsSpec
=============================================================================
