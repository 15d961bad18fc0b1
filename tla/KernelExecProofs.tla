--------------------------- MODULE KernelExecProofs ---------------------------
(***************************************************************************)
(* Proofs about code executed on a kernel, for any threads, calls, queues  *)
(* and failures: a call that waits has its own guard, a question gets at   *)
(* most one answer, the kernel in use is the recorded one, and a call      *)
(* whose end is queued in time does not time out.                          *)
(***************************************************************************)
EXTENDS KernelExec, SequenceTheorems, TLAPS

-----------------------------------------------------------------------------
(* The inductive invariant *)

Message == {"out", "ask", "drive", "idle"} \X Nat
Connecting == {"connect", "remember", "channels"}
Waiting    == {"wait", "block", "expired", "clear", "take", "hook"}
Place      == {"idle", "guard", "send", "leave"} \cup Connecting \cup Waiting
Calls == [pc : Place, id : Nat, stdin : BOOLEAN, finite : BOOLEAN, tries : 0..2,
          fresh : BOOLEAN, late : BOOLEAN, looked : BOOLEAN, backlog : Nat, inTime : BOOLEAN,
          verdict : {"none", "error", "timeout", "completed"}]

TypeOK ==
  /\ client \in BOOLEAN /\ unnamed \in BOOLEAN
  /\ kid \in Nat /\ recorded \in Nat /\ kernels \in Nat /\ lost \in Nat
  /\ work \in Seq(Nat) /\ asking \in {"no", "input", "drive"} /\ replies \in Nat
  /\ wire \in Seq(Message) /\ iopub \in Seq(Message) /\ stdin \in Seq(Message)
  /\ event \in BOOLEAN /\ signalling \in BOOLEAN /\ consent \in {"none", "asks"}
  /\ proxy \in Nat /\ lock \in Nat /\ calls \in Nat /\ trouble \in Nat
  /\ call \in [Caller -> Calls]

\* Who holds the guard: the lock and the event are of one call that is under way.
Guarded(c) == call[c].pc \in {"send"} \cup Waiting
GuardInv ==
  /\ proxy = lock
  /\ \A c \in Caller : /\ call[c].id <= calls
                       /\ ~At(c, "idle") => call[c].id > 0
                       /\ Guarded(c) => lock = call[c].id
  /\ \A c, d \in Caller : ~At(c, "idle") /\ call[c].id = call[d].id => c = d
  /\ lock = 0 \/ \E c \in Caller : lock = call[c].id /\ (Guarded(c) \/ At(c, "leave"))

\* Who connects is alone; what the runtime knows of its kernel.
ConnectInv ==
  /\ \A c \in Caller : /\ call[c].pc \in Connecting => ~client /\ Quiet(c)
                       /\ call[c].pc \in {"remember", "channels"} => kid # 0
                       /\ At(c, "guard") \/ Guarded(c) => client
  /\ client => kid # 0
  /\ recorded = 0 \/ recorded = kid
  /\ kid # 0 => recorded = kid \/ unnamed \/ \E c \in Caller : At(c, "remember")
  /\ kernels = lost + (IF kid = 0 THEN 0 ELSE 1)

\* The question the kernel asks is at one place.
Question(m) == m[1] \in {"ask", "drive"}
OnWire  == \E i \in DOMAIN wire : Question(wire[i])
Hooked  == \E c \in Caller : At(c, "hook")
QuestionInv ==
  /\ \A i \in DOMAIN wire : Question(wire[i]) => i = Len(wire)
  /\ Len(stdin) <= 1 /\ replies <= 1
  /\ \A c, d \in Caller : At(c, "hook") /\ At(d, "hook") => c = d
  /\ OnWire => stdin = <<>> /\ consent = "none" /\ ~Hooked /\ replies = 0
  /\ stdin # <<>> => consent = "none" /\ ~Hooked /\ replies = 0
  /\ consent = "asks" => ~Hooked /\ replies = 0
  /\ Hooked => replies = 0
  /\ asking = "no" => ~OnWire /\ stdin = <<>> /\ consent = "none" /\ ~Hooked /\ replies = 0
  /\ work = <<>> => asking = "no"

\* The end of a call comes after its code, and its code is the last.
Among(m, s, n) == \E i \in DOMAIN s : i <= n /\ s[i] = m
In(m, s) == \E i \in DOMAIN s : s[i] = m
Ended(n) == In(<<"idle", n>>, wire) \/ In(<<"idle", n>>, iopub)
OrderInv ==
  /\ \A n \in Nat : Ended(n) \/ In(n, work) => n <= calls
  /\ \A c \in Caller :
       /\ call[c].pc \in {"guard", "send"} \cup Connecting =>
            ~Ended(call[c].id) /\ ~In(call[c].id, work)
       /\ call[c].pc \in Waiting =>
            /\ \A i \in DOMAIN work : work[i] = call[c].id => i = Len(work)
            /\ Ended(call[c].id) => work = <<>>

\* A call that is in time finds its end within the messages it may still read.
Timely(r, queue) ==
  LET end == <<"idle", r.id>> IN
    /\ r.pc \notin {"leave"} \cup Waiting => ~r.inTime /\ ~r.late /\ ~r.looked
    /\ r.pc # "leave" \/ r.inTime => r.verdict # "timeout"
    /\ r.inTime \/ r.looked \/ r.pc = "expired" => r.late
    /\ r.pc \in Waiting /\ r.inTime => In(end, queue)
    /\ r.pc \in Waiting /\ r.inTime /\ r.looked =>
         /\ r.pc \in {"wait", "clear", "take"}
         /\ Among(end, queue, IF r.pc = "wait" THEN r.backlog ELSE r.backlog + 1)
TimeInv == \A c \in Caller : Timely(call[c], iopub)

KernelInv == TypeOK /\ GuardInv /\ ConnectInv /\ QuestionInv /\ OrderInv /\ TimeInv
-----------------------------------------------------------------------------
(* Messages in queues *)

LEMMA AppendIn ==
  ASSUME NEW S, NEW s \in Seq(S), NEW x \in S
  PROVE  /\ Append(s, x) \in Seq(S) /\ Len(Append(s, x)) = Len(s) + 1
         /\ \A m : In(m, Append(s, x)) <=> In(m, s) \/ m = x
         /\ \A m, n : Among(m, s, n) => Among(m, Append(s, x), n)
<1>1. /\ Append(s, x) \in Seq(S) /\ Len(Append(s, x)) = Len(s) + 1
      /\ \A i \in 1..Len(s) : Append(s, x)[i] = s[i]
      /\ Append(s, x)[Len(s) + 1] = x
  BY AppendProperties
<1>2. DOMAIN s = 1..Len(s) /\ DOMAIN Append(s, x) = 1..(Len(s) + 1) /\ Len(s) \in Nat
  BY <1>1, LenProperties
<1>3. ASSUME NEW m PROVE In(m, Append(s, x)) <=> In(m, s) \/ m = x
  BY <1>1, <1>2 DEF In
<1>4. ASSUME NEW m, NEW n, Among(m, s, n) PROVE Among(m, Append(s, x), n)
  BY <1>1, <1>2, <1>4 DEF Among
<1> QED
  BY <1>1, <1>3, <1>4

LEMMA TailIn ==
  ASSUME NEW S, NEW s \in Seq(S), s # <<>>
  PROVE  /\ Tail(s) \in Seq(S) /\ Len(Tail(s)) = Len(s) - 1 /\ Head(s) \in S
         /\ Len(s) \in Nat \ {0} /\ In(Head(s), s)
         /\ \A m : In(m, Tail(s)) => In(m, s)
         /\ \A m : In(m, s) => In(m, Tail(s)) \/ m = Head(s)
         /\ \A m : \A n \in Nat : Among(m, s, n + 1) => Among(m, Tail(s), n) \/ m = Head(s)
<1>1. /\ Tail(s) \in Seq(S) /\ Len(Tail(s)) = Len(s) - 1 /\ Head(s) \in S /\ Head(s) = s[1]
      /\ \A i \in 1..Len(Tail(s)) : Tail(s)[i] = s[i + 1]
  BY HeadTailProperties
<1>2. /\ DOMAIN s = 1..Len(s) /\ DOMAIN Tail(s) = 1..(Len(s) - 1)
      /\ Len(s) \in Nat /\ Len(s) # 0
  BY <1>1, LenProperties, EmptySeq
<1>3. ASSUME NEW i \in DOMAIN s, i # 1 PROVE i - 1 \in DOMAIN Tail(s) /\ Tail(s)[i - 1] = s[i]
  BY <1>1, <1>2, <1>3
<1>4. ASSUME NEW i \in DOMAIN Tail(s) PROVE i + 1 \in DOMAIN s /\ Tail(s)[i] = s[i + 1]
  BY <1>1, <1>2
<1>5. \A m : In(m, Tail(s)) => In(m, s)
  BY <1>4 DEF In
<1>6. \A m : In(m, s) => In(m, Tail(s)) \/ m = Head(s)
  BY <1>1, <1>3 DEF In
<1>7. ASSUME NEW m, NEW n \in Nat, Among(m, s, n + 1), m # Head(s)
      PROVE  Among(m, Tail(s), n)
  <2>1. PICK i \in DOMAIN s : i <= n + 1 /\ s[i] = m
    BY <1>7 DEF Among
  <2>2. i # 1 /\ i \in Nat
    BY <1>1, <1>2, <1>7, <2>1
  <2>3. i - 1 \in DOMAIN Tail(s) /\ Tail(s)[i - 1] = m /\ i - 1 <= n
    BY <1>3, <2>1, <2>2
  <2> QED
    BY <2>3 DEF Among
<1>8. In(Head(s), s)
  BY <1>1, <1>2 DEF In
<1> QED
  BY <1>1, <1>2, <1>5, <1>6, <1>7, <1>8

LEMMA EmptyIn ==
  \A m : ~In(m, <<>>) /\ \A n : ~Among(m, <<>>, n)
BY DEF In, Among

\* Where a message is in a queue, there is a first place for it.
LEMMA InAmong ==
  ASSUME NEW S, NEW s \in Seq(S)
  PROVE  /\ Len(s) \in Nat
         /\ \A m : In(m, s) => Among(m, s, Len(s)) /\ Len(s) > 0 /\ s # <<>>
         /\ \A m : \A n \in Nat : Among(m, s, n) => n > 0 /\ In(m, s)
         /\ Len(s) = 0 => s = <<>>
<1>1. DOMAIN s = 1..Len(s) /\ Len(s) \in Nat
  BY LenProperties
<1>2. Len(s) = 0 <=> s = <<>>
  BY EmptySeq
<1> QED
  BY <1>1, <1>2 DEF In, Among
-----------------------------------------------------------------------------
(* Steps of a call *)

LEMMA InitInv == Init => KernelInv
<1> SUFFICES ASSUME Init PROVE KernelInv
  OBVIOUS
<1>1. /\ Idle.pc = "idle" /\ Idle.id = 0 /\ ~Idle.late /\ ~Idle.looked /\ ~Idle.inTime
      /\ Idle.verdict = "none"
      /\ Idle \in Calls
  BY DEF Idle, Calls, Place
<1>2. \A c \in Caller : call[c] = Idle
  BY DEF Init
<1>3. TypeOK
  <2>1. call \in [Caller -> Calls]
    BY <1>1 DEF Init
  <2>2. work \in Seq(Nat) /\ wire \in Seq(Message) /\ iopub \in Seq(Message)
        /\ stdin \in Seq(Message)
    BY EmptySeq DEF Init
  <2>3. /\ kid \in Nat /\ recorded \in Nat /\ kernels \in Nat /\ lost \in Nat
        /\ replies \in Nat /\ proxy \in Nat /\ lock \in Nat /\ calls \in Nat
        /\ trouble \in Nat
    BY DEF Init
  <2>4. /\ client \in BOOLEAN /\ unnamed \in BOOLEAN /\ event \in BOOLEAN
        /\ signalling \in BOOLEAN /\ asking \in {"no", "input", "drive"}
        /\ consent \in {"none", "asks"}
    BY DEF Init
  <2> QED
    BY <2>1, <2>2, <2>3, <2>4 DEF TypeOK
<1>4. GuardInv
  BY <1>1, <1>2 DEF Init, GuardInv, Guarded, At, Waiting
<1>5. ConnectInv
  BY <1>1, <1>2 DEF Init, ConnectInv, Guarded, At, Waiting, Connecting
<1>6. QuestionInv
  BY <1>1, <1>2 DEF Init, QuestionInv, OnWire, Hooked, At
<1>7. OrderInv
  BY <1>1, <1>2, EmptyIn DEF Init, OrderInv, Ended, Waiting, Connecting
<1>8. TimeInv
  BY <1>1, <1>2 DEF TimeInv, Timely, Waiting
<1> QED
  BY <1>3, <1>4, <1>5, <1>6, <1>7, <1>8 DEF KernelInv

\* What a step of a call does to the calls.
Moves(c, p) ==
  /\ call' \in [Caller -> Calls] /\ \A d \in Caller \ {c} : call'[d] = call[d]
  /\ call'[c].pc = p /\ call'[c].id = call[c].id
  /\ call'[c].stdin = call[c].stdin /\ call'[c].finite = call[c].finite
  /\ call'[c].late = call[c].late /\ call'[c].inTime = call[c].inTime
SameLook(c) ==
  /\ call'[c].looked = call[c].looked /\ call'[c].backlog = call[c].backlog
  /\ call'[c].pc # "leave" => call'[c].verdict = call[c].verdict

LEMMA Updates ==
  ASSUME TypeOK, NEW c \in Caller, NEW r \in Calls, call' = [call EXCEPT ![c] = r]
  PROVE  /\ call' \in [Caller -> Calls] /\ call'[c] = r
         /\ \A d \in Caller \ {c} : call'[d] = call[d]
BY DEF TypeOK

LEMMA GotoIs ==
  ASSUME TypeOK, NEW c \in Caller, NEW p \in Place, Goto(c, p)
  PROVE  Moves(c, p) /\ SameLook(c) /\ call'[c].verdict = call[c].verdict
BY DEF TypeOK, Goto, Moves, SameLook, Calls

LEMMA EndsIs ==
  ASSUME TypeOK, NEW c \in Caller, NEW v \in {"error", "timeout", "completed"}, Ends(c, v)
  PROVE  Moves(c, "leave") /\ SameLook(c) /\ call'[c].verdict = v
<1>1. PICK d \in Calls : d = call[c]
  BY DEF TypeOK
<1>2. PICK r : r = [d EXCEPT !.pc = "leave", !.verdict = v]
  OBVIOUS
<1>3. /\ r \in Calls /\ r.pc = "leave" /\ r.verdict = v /\ r.id = d.id /\ r.stdin = d.stdin
      /\ r.finite = d.finite /\ r.late = d.late /\ r.inTime = d.inTime
      /\ r.looked = d.looked /\ r.backlog = d.backlog
  BY <1>2 DEF Calls, Place
<1>4. call' = [call EXCEPT ![c] = r]
  BY <1>1, <1>2 DEF Ends, TypeOK
<1> QED
  BY <1>1, <1>3, <1>4, Updates DEF Moves, SameLook

LEMMA RetriesIs ==
  ASSUME TypeOK, NEW c \in Caller, Retries(c)
  PROVE  \E p \in {"connect", "leave"} :
           /\ Moves(c, p) /\ SameLook(c)
           /\ p = "leave" => call'[c].verdict = "error"
<1>1. CASE ~(call[c].tries < 2)
  BY <1>1, EndsIs DEF Retries, Ends
<1>2. CASE call[c].tries < 2
  <2>1. PICK d \in Calls : d = call[c]
    BY DEF TypeOK
  <2>2. PICK r : r = [d EXCEPT !.pc = "connect", !.tries = d.tries + 1]
    OBVIOUS
  <2>3. d.tries + 1 \in 0..2
    BY <1>2, <2>1 DEF Calls
  <2>4. /\ r \in Calls /\ r.pc = "connect" /\ r.id = d.id /\ r.stdin = d.stdin
        /\ r.finite = d.finite /\ r.late = d.late /\ r.inTime = d.inTime
        /\ r.looked = d.looked /\ r.backlog = d.backlog /\ r.verdict = d.verdict
    BY <2>2, <2>3 DEF Calls, Place, Connecting
  <2>5. call' = [call EXCEPT ![c] = r]
    BY <1>2, <2>1, <2>2 DEF Retries, TypeOK
  <2>6. Moves(c, "connect") /\ SameLook(c)
    BY <2>1, <2>4, <2>5, Updates DEF Moves, SameLook
  <2> QED
    BY <2>6
<1> QED
  BY <1>1, <1>2

\* The parts of the invariant that a step leaves alone.
LEMMA GuardKeeps ==
  ASSUME KernelInv, NEW c \in Caller, NEW p \in Place, Moves(c, p), UNCHANGED <<guards, calls>>,
         ~At(c, "idle"), ~At(c, "leave"), p # "idle",
         p \in {"send"} \cup Waiting => Guarded(c),
         Guarded(c) => p \in {"send", "leave"} \cup Waiting
  PROVE  GuardInv'
<1>1. \A d \in Caller : call'[d].id = call[d].id
  BY DEF Moves
<1>2. \A d \in Caller : At(d, "idle")' <=> At(d, "idle")
  BY DEF Moves, At
<1>3. \A d \in Caller : Guarded(d)' => Guarded(d)
  BY DEF Moves, Guarded
<1>4. \A d \in Caller : Guarded(d) \/ At(d, "leave") => Guarded(d)' \/ At(d, "leave")'
  BY DEF Moves, Guarded, At
<1>5. proxy' = lock' /\ lock' = lock /\ calls' = calls
  BY DEF KernelInv, GuardInv, guards
<1> QED
  BY <1>1, <1>2, <1>3, <1>4, <1>5 DEF KernelInv, GuardInv

LEMMA ConnectKeeps ==
  ASSUME KernelInv, NEW c \in Caller, NEW p \in Place, Moves(c, p), UNCHANGED connection,
         ~At(c, "idle"), call[c].pc \notin Connecting, p \notin Connecting,
         p \in {"guard", "send"} \cup Waiting => At(c, "guard") \/ Guarded(c)
  PROVE  ConnectInv'
<1>1. \A d \in Caller \ {c} : call[d].pc \notin Connecting
  BY DEF KernelInv, ConnectInv, Quiet
<1>2. \A d \in Caller : call'[d].pc \notin Connecting
  BY <1>1 DEF Moves
<1>3. \A d \in Caller : At(d, "guard")' \/ Guarded(d)' => At(d, "guard") \/ Guarded(d)
  BY DEF Moves, At, Guarded
<1>4. \A d \in Caller : At(d, "remember") => At(d, "remember")'
  BY <1>1 DEF At, Connecting
<1> QED
  BY <1>2, <1>3, <1>4 DEF KernelInv, ConnectInv, connection, Connecting

LEMMA QuestionKeeps ==
  ASSUME KernelInv, NEW c \in Caller, NEW p \in Place, Moves(c, p),
         UNCHANGED <<wire, stdin, replies, consent, asking, work>>,
         ~At(c, "hook"), p # "hook"
  PROVE  QuestionInv'
<1>1. \A d \in Caller : At(d, "hook")' <=> At(d, "hook")
  BY DEF Moves, At
<1> QED
  BY <1>1 DEF KernelInv, QuestionInv, OnWire, Hooked

LEMMA OrderKeeps ==
  ASSUME KernelInv, NEW c \in Caller, NEW p \in Place, Moves(c, p),
         UNCHANGED <<work, wire, iopub, calls>>,
         p \in {"guard", "send"} \cup Connecting =>
           call[c].pc \in {"guard", "send"} \cup Connecting,
         p \in Waiting => call[c].pc \in Waiting
  PROVE  OrderInv'
<1>1. \A d \in Caller : call'[d].id = call[d].id
  BY DEF Moves
<1>2. \A d \in Caller : /\ call'[d].pc \in {"guard", "send"} \cup Connecting =>
                             call[d].pc \in {"guard", "send"} \cup Connecting
                        /\ call'[d].pc \in Waiting => call[d].pc \in Waiting
  BY DEF Moves
<1>3. \A n : Ended(n)' <=> Ended(n)
  BY DEF Ended, In
<1> QED
  BY <1>1, <1>2, <1>3 DEF KernelInv, OrderInv

LEMMA TimeKeeps ==
  ASSUME KernelInv, NEW c \in Caller, NEW p \in Place, Moves(c, p), UNCHANGED iopub,
         Timely(call'[c], iopub)
  PROVE  TimeInv'
BY DEF KernelInv, TimeInv, Moves

\* A call that has no deadline yet, or that ends without a timeout, is timely.
LEMMA NotLate ==
  ASSUME KernelInv, NEW c \in Caller, NEW p \in Place, Moves(c, p), SameLook(c), p # "expired",
         call[c].pc \notin {"leave"} \cup Waiting,
         call'[c].verdict # "timeout"
  PROVE  Timely(call'[c], iopub)
BY DEF KernelInv, TimeInv, Timely, Moves, SameLook, TypeOK, Calls

LEMMA EndsTimely ==
  ASSUME KernelInv, NEW c \in Caller, Moves(c, "leave"), SameLook(c),
         call[c].inTime => call'[c].verdict # "timeout"
  PROVE  Timely(call'[c], iopub)
BY DEF KernelInv, TimeInv, Timely, Moves, SameLook, Waiting

\* Beside a call that connects there is no other.
LEMMA Alone ==
  ASSUME KernelInv, NEW c \in Caller, call[c].pc \in Connecting
  PROVE  \A d \in Caller \ {c} : At(d, "idle") /\ call[d].pc \notin Connecting
BY DEF KernelInv, ConnectInv, Quiet, At, Connecting

\* One call at a time has the guard.
LEMMA OneGuarded ==
  ASSUME KernelInv, NEW c \in Caller, NEW d \in Caller, Guarded(c), Guarded(d)
  PROVE  c = d
BY DEF KernelInv, GuardInv, Guarded, At, Waiting
-----------------------------------------------------------------------------
(* The loop of a call *)

\* A step of a call in its loop that leaves the queues alone.
LEMMA LoopStep ==
  ASSUME KernelInv, NEW c \in Caller, NEW p \in Place, Moves(c, p),
         call[c].pc \in Waiting \ {"hook"}, p \in {"leave"} \cup (Waiting \ {"hook"}),
         UNCHANGED <<connection, kernel, wire, iopub, stdin, signalling, consent, guards,
                     counters>>,
         event' \in BOOLEAN, Timely(call'[c], iopub)
  PROVE  KernelInv'
<1>1. /\ ~At(c, "idle") /\ ~At(c, "leave") /\ ~At(c, "hook") /\ Guarded(c)
      /\ call[c].pc \notin Connecting /\ p \notin Connecting
      /\ p \notin {"idle", "hook", "guard", "send"}
      /\ p \in {"send", "leave"} \cup Waiting
  BY DEF At, Guarded, Waiting, Connecting
<1>2. TypeOK'
  BY DEF KernelInv, TypeOK, Moves, connection, kernel, guards, counters
<1>3. GuardInv'
  BY <1>1, GuardKeeps DEF counters
<1>4. ConnectInv'
  BY <1>1, ConnectKeeps
<1>5. QuestionInv'
  BY <1>1, QuestionKeeps DEF kernel
<1>6. OrderInv'
  BY <1>1, OrderKeeps DEF kernel, counters
<1>7. TimeInv'
  BY TimeKeeps
<1> QED
  BY <1>2, <1>3, <1>4, <1>5, <1>6, <1>7 DEF KernelInv

\* A call that goes on as before stays timely.
LEMMA GoesOn ==
  ASSUME KernelInv, NEW c \in Caller, NEW p \in Waiting, Moves(c, p), SameLook(c),
         call[c].pc \in Waiting, p = "expired" => call[c].late,
         ~call[c].looked \/ ~call[c].inTime
           \/ (p # "wait" /\ p \in {"clear", "take"} /\ call[c].pc \in {"clear", "take"})
  PROVE  Timely(call'[c], iopub)
<1>1. Timely(call[c], iopub)
  BY DEF KernelInv, TimeInv
<1> QED
  BY <1>1 DEF Timely, Moves, SameLook, Waiting

\* The messages a call may still read after its deadline reach as far as its end.
LEMMA AllowedIs ==
  ASSUME KernelInv, NEW c \in Caller, call[c].pc \in {"wait", "expired"}
  PROVE  /\ Allowed(c) \in Nat
         /\ call[c].inTime => /\ Among(<<"idle", call[c].id>>, iopub, Allowed(c))
                              /\ Allowed(c) > 0 /\ Ready(c)
<1>1. call[c].backlog \in Nat /\ iopub \in Seq(Message) /\ stdin \in Seq(Message)
  BY DEF KernelInv, TypeOK, Calls
<1>2. Len(iopub) \in Nat /\ Len(stdin) \in Nat
  BY <1>1, LenProperties
<1>3. Backlog(c) \in Nat /\ (Len(iopub) > 0 => Backlog(c) >= Len(iopub))
  BY <1>2 DEF Backlog
<1>4. Allowed(c) \in Nat
  BY <1>1, <1>3 DEF Allowed
<1>5. ASSUME call[c].inTime
      PROVE  /\ Among(<<"idle", call[c].id>>, iopub, Allowed(c))
             /\ Allowed(c) > 0 /\ Ready(c)
  <2>1. Timely(call[c], iopub) /\ call[c].pc \in Waiting
    BY DEF KernelInv, TimeInv, Waiting
  <2>2. In(<<"idle", call[c].id>>, iopub)
    BY <1>5, <2>1 DEF Timely
  <2>3. Among(<<"idle", call[c].id>>, iopub, Len(iopub)) /\ Len(iopub) > 0 /\ iopub # <<>>
    BY <1>1, <2>2, InAmong
  <2>4. Among(<<"idle", call[c].id>>, iopub, Allowed(c))
    <3>1. CASE call[c].looked
      BY <1>5, <2>1, <3>1 DEF Timely, Allowed
    <3>2. CASE ~call[c].looked
      <4>1. Allowed(c) >= Len(iopub)
        BY <1>3, <2>3, <3>2 DEF Allowed
      <4>2. \A i \in DOMAIN iopub : i <= Len(iopub) => i <= Allowed(c)
        BY <1>1, <1>2, <1>4, <4>1, LenProperties
      <4> QED
        BY <2>3, <4>2 DEF Among
    <3> QED
      BY <3>1, <3>2
  <2> QED
    BY <1>1, <1>4, <2>3, <2>4, InAmong DEF Ready
<1> QED
  BY <1>4, <1>5

LEMMA DrainIs ==
  ASSUME KernelInv, NEW c \in Caller, call[c].pc \in {"wait", "expired"}, call[c].late, Drain(c)
  PROVE  \E p \in {"clear", "leave"} : Moves(c, p) /\ Timely(call'[c], iopub)
<1>1. CASE Allowed(c) > 0 /\ (event \/ Ready(c))
  <2>1. PICK a \in Nat : a = Allowed(c)
    BY AllowedIs
  <2>2. PICK n \in Nat : n = Allowed(c) - 1
    BY <1>1, <2>1
  <2>3. PICK d \in Calls : d = call[c]
    BY DEF KernelInv, TypeOK
  <2>4. PICK r : r = [d EXCEPT !.pc = "clear", !.looked = TRUE, !.backlog = n]
    OBVIOUS
  <2>5. /\ r \in Calls /\ r.pc = "clear" /\ r.id = d.id /\ r.stdin = d.stdin
        /\ r.finite = d.finite /\ r.late = d.late /\ r.inTime = d.inTime
        /\ r.looked = TRUE /\ r.backlog = n /\ r.verdict = d.verdict
    BY <2>4 DEF Calls, Place, Waiting
  <2>6. call' = [call EXCEPT ![c] = r]
    BY <1>1, <2>2, <2>3, <2>4 DEF Drain, KernelInv, TypeOK
  <2>7. Moves(c, "clear") /\ call'[c] = r
    BY <2>3, <2>5, <2>6, Updates DEF KernelInv, Moves
  <2>8. n + 1 = Allowed(c)
    BY <2>2, <2>1
  <2>9. Timely(d, iopub) /\ d.pc \in Waiting
    BY <2>3 DEF KernelInv, TimeInv, Waiting
  <2>10. d.inTime => Among(<<"idle", d.id>>, iopub, n + 1)
    BY <2>3, <2>8, AllowedIs
  <2>11. Timely(r, iopub)
    BY <2>3, <2>5, <2>9, <2>10 DEF Timely, Waiting
  <2> QED
    BY <2>7, <2>11
<1>2. CASE ~(Allowed(c) > 0 /\ (event \/ Ready(c)))
  <2>1. ~call[c].inTime
    BY <1>2, AllowedIs
  <2>2. Ends(c, "timeout")
    BY <1>2 DEF Drain
  <2>3. Moves(c, "leave") /\ SameLook(c)
    BY <2>2, EndsIs DEF KernelInv
  <2>4. Timely(call'[c], iopub)
    BY <2>1, <2>3, EndsTimely
  <2> QED
    BY <2>3, <2>4
<1> QED
  BY <1>1, <1>2

LEMMA WaitInv ==
  ASSUME KernelInv, NEW c \in Caller, Wait(c)
  PROVE  KernelInv'
<1>1. call[c].pc = "wait" /\ call[c].pc \in Waiting \ {"hook"}
  BY DEF Wait, At, Waiting
<1>2. event' \in BOOLEAN
  BY DEF Wait, transport, KernelInv, TypeOK
<1>3. \E p \in {"clear", "leave", "block"} : Moves(c, p) /\ Timely(call'[c], iopub)
  <2>1. CASE call[c].late
    BY <1>1, <2>1, DrainIs DEF Wait
  <2>2. CASE ~call[c].late
    <3>1. PICK p \in {"clear", "block"} : Goto(c, p)
      BY <2>2 DEF Wait
    <3>2. p \in Place /\ p \in Waiting
      BY DEF Place, Waiting
    <3>3. Moves(c, p) /\ SameLook(c)
      BY <3>1, <3>2, GotoIs DEF KernelInv
    <3>4. ~call[c].looked
      BY <2>2 DEF KernelInv, TimeInv, Timely
    <3>5. Timely(call'[c], iopub)
      BY <1>1, <3>2, <3>3, <3>4, GoesOn
    <3> QED
      BY <3>3, <3>5
  <2> QED
    BY <2>1, <2>2
<1>4. PICK p \in {"clear", "leave", "block"} : Moves(c, p) /\ Timely(call'[c], iopub)
  BY <1>3
<1>5. p \in Place /\ p \in {"leave"} \cup (Waiting \ {"hook"})
  BY DEF Place, Waiting
<1> QED
  BY <1>1, <1>2, <1>4, <1>5, LoopStep DEF Wait, transport

LEMMA BlockInv ==
  ASSUME KernelInv, NEW c \in Caller, Block(c)
  PROVE  KernelInv'
<1>1. call[c].pc = "block" /\ call[c].pc \in Waiting \ {"hook"}
  BY DEF Block, At, Waiting
<1>2. event' \in BOOLEAN
  BY DEF Block, transport, KernelInv, TypeOK
<1>3. PICK p \in {"clear", "expired"} : Goto(c, p) /\ (p = "expired" => call[c].late)
  BY DEF Block
<1>4. p \in Place /\ p \in Waiting \ {"hook"}
  BY DEF Place, Waiting
<1>5. Moves(c, p) /\ SameLook(c)
  BY <1>3, <1>4, GotoIs DEF KernelInv
<1>6. ~call[c].looked \/ ~call[c].inTime
  BY <1>1 DEF KernelInv, TimeInv, Timely
<1>7. Timely(call'[c], iopub)
  BY <1>1, <1>3, <1>4, <1>5, <1>6, GoesOn
<1> QED
  BY <1>1, <1>2, <1>4, <1>5, <1>7, LoopStep DEF Block, transport

LEMMA ExpiredInv ==
  ASSUME KernelInv, NEW c \in Caller, Expired(c)
  PROVE  KernelInv'
<1>1. call[c].pc = "expired" /\ call[c].pc \in Waiting \ {"hook"} /\ call[c].late
  BY DEF Expired, At, Waiting, KernelInv, TimeInv, Timely
<1>2. event' \in BOOLEAN
  BY DEF Expired, transport, KernelInv, TypeOK
<1>3. \E p \in {"clear", "leave"} : Moves(c, p) /\ Timely(call'[c], iopub)
  <2>1. CASE event \/ Ready(c)
    BY <1>1, <2>1, DrainIs DEF Expired
  <2>2. CASE ~(event \/ Ready(c))
    <3>1. Ends(c, "timeout") /\ ~call[c].inTime
      BY <1>1, <2>2, AllowedIs DEF Expired
    <3>2. Moves(c, "leave") /\ SameLook(c)
      BY <3>1, EndsIs DEF KernelInv
    <3>3. Timely(call'[c], iopub)
      BY <3>1, <3>2, EndsTimely
    <3> QED
      BY <3>2, <3>3
  <2> QED
    BY <2>1, <2>2
<1>4. PICK p \in {"clear", "leave"} : Moves(c, p) /\ Timely(call'[c], iopub)
  BY <1>3
<1>5. p \in Place /\ p \in {"leave"} \cup (Waiting \ {"hook"})
  BY DEF Place, Waiting
<1> QED
  BY <1>1, <1>2, <1>4, <1>5, LoopStep DEF Expired, transport

LEMMA ClearInv ==
  ASSUME KernelInv, NEW c \in Caller, Clear(c)
  PROVE  KernelInv'
<1>1. call[c].pc = "clear" /\ call[c].pc \in Waiting \ {"hook"} /\ Goto(c, "take")
  BY DEF Clear, At, Waiting
<1>2. "take" \in Place /\ "take" \in Waiting \ {"hook"}
  BY DEF Place, Waiting
<1>3. Moves(c, "take") /\ SameLook(c)
  BY <1>1, <1>2, GotoIs DEF KernelInv
<1>4. Timely(call'[c], iopub)
  BY <1>1, <1>2, <1>3, GoesOn
<1>5. event' \in BOOLEAN
  BY DEF Clear
<1> QED
  BY <1>1, <1>2, <1>3, <1>4, <1>5, LoopStep DEF Clear

LEMMA DeadlineInv ==
  ASSUME KernelInv, NEW c \in Caller, Deadline(c)
  PROVE  KernelInv'
<1>1. /\ ~call[c].late /\ call[c].pc \in {"wait", "block", "clear", "take", "hook"}
      /\ UNCHANGED <<connection, kernel, transport, consent, guards, counters>>
  BY DEF Deadline
<1>2. PICK d \in Calls : d = call[c]
  BY DEF KernelInv, TypeOK
<1>3. PICK b \in BOOLEAN : b <=> \E i \in DOMAIN iopub : iopub[i] = <<"idle", call[c].id>>
  OBVIOUS
<1>4. PICK r : r = [d EXCEPT !.late = TRUE, !.inTime = b]
  OBVIOUS
<1>5. /\ r \in Calls /\ r.pc = d.pc /\ r.id = d.id /\ r.late /\ r.inTime = b
      /\ r.looked = d.looked /\ r.verdict = d.verdict
  BY <1>4 DEF Calls
<1>6. call' = [call EXCEPT ![c] = r]
  <2>1. b = (\E i \in DOMAIN iopub : iopub[i] = <<"idle", call[c].id>>)
    BY <1>3
  <2>2. call' = [call EXCEPT ![c].late = TRUE, ![c].inTime = b]
    BY <2>1 DEF Deadline
  <2> QED
    BY <1>2, <1>4, <2>2 DEF KernelInv, TypeOK
<1>7. /\ call' \in [Caller -> Calls] /\ call'[c] = r
      /\ \A e \in Caller \ {c} : call'[e] = call[e]
  BY <1>5, <1>6, Updates DEF KernelInv
<1>8. /\ \A e \in Caller : call'[e].pc = call[e].pc /\ call'[e].id = call[e].id
      /\ \A e \in Caller, pc \in Place : At(e, pc)' <=> At(e, pc)
      /\ \A e \in Caller : Guarded(e)' <=> Guarded(e)
  BY <1>2, <1>5, <1>7 DEF At, Guarded
<1>9. TypeOK'
  BY <1>1, <1>7 DEF KernelInv, TypeOK, connection, kernel, transport, guards, counters
<1>10. GuardInv'
  BY <1>1, <1>8 DEF KernelInv, GuardInv, guards, counters, Place
<1>11. ConnectInv'
  BY <1>1, <1>8 DEF KernelInv, ConnectInv, connection, Place, Connecting, Quiet
<1>12. QuestionInv'
  BY <1>1, <1>8 DEF KernelInv, QuestionInv, kernel, transport, OnWire, Hooked, Place, Waiting
<1>13. OrderInv'
  BY <1>1, <1>8 DEF KernelInv, OrderInv, kernel, transport, counters, Ended, In
<1>14. TimeInv'
  <2>1. Timely(d, iopub) /\ ~d.looked /\ d.pc \in Waiting
    BY <1>1, <1>2 DEF KernelInv, TimeInv, Timely, Waiting
  <2>2. b => In(<<"idle", d.id>>, iopub)
    BY <1>2, <1>3 DEF In
  <2>3. Timely(r, iopub)
    BY <1>5, <2>1, <2>2 DEF Timely, Waiting
  <2> QED
    BY <1>1, <1>7, <2>3 DEF KernelInv, TimeInv, transport
<1> QED
  BY <1>9, <1>10, <1>11, <1>12, <1>13, <1>14 DEF KernelInv

\* When the end of a call is queued nothing is asked.
LEMMA NothingAsked ==
  ASSUME KernelInv, NEW c \in Caller, call[c].pc \in Waiting, call[c].inTime
  PROVE  stdin = <<>> /\ ~At(c, "hook") /\ In(<<"idle", call[c].id>>, iopub) /\ iopub # <<>>
<1>1. In(<<"idle", call[c].id>>, iopub)
  BY DEF KernelInv, TimeInv, Timely
<1>2. work = <<>>
  BY <1>1 DEF KernelInv, OrderInv, Ended
<1>3. asking = "no"
  BY <1>2 DEF KernelInv, QuestionInv
<1> QED
  BY <1>1, <1>3, EmptyIn DEF KernelInv, QuestionInv, Hooked

\* A step of the only call that waits may take from the queue.
LEMMA OthersTimely ==
  ASSUME KernelInv, NEW c \in Caller, Guarded(c), \A d \in Caller \ {c} : call'[d] = call[d]
  PROVE  \A d \in Caller \ {c} : Timely(call'[d], iopub')
<1> SUFFICES ASSUME NEW d \in Caller, d # c PROVE Timely(call[d], iopub')
  OBVIOUS
<1>1. Timely(call[d], iopub)
  BY DEF KernelInv, TimeInv
<1>2. call[d].pc \notin Waiting
  BY OneGuarded DEF Guarded
<1> QED
  BY <1>1, <1>2 DEF Timely

LEMMA TakeInv ==
  ASSUME KernelInv, NEW c \in Caller, Take(c)
  PROVE  KernelInv'
<1>1. /\ call[c].pc = "take" /\ call[c].pc \in Waiting
      /\ UNCHANGED <<connection, kernel, wire, event, signalling, consent, guards, counters>>
  BY DEF Take, At, Waiting
<1>2. /\ "hook" \in Place /\ "wait" \in Place /\ "leave" \in Place
      /\ "wait" \in Waiting /\ "hook" \in Waiting
  BY DEF Place, Waiting
<1>3. /\ ~At(c, "idle") /\ ~At(c, "leave") /\ ~At(c, "hook") /\ Guarded(c)
      /\ call[c].pc \notin Connecting
  BY <1>1 DEF At, Guarded, Connecting
<1>4. Timely(call[c], iopub) /\ call[c].backlog \in Nat /\ call[c].id \in Nat
  BY DEF KernelInv, TimeInv, TypeOK, Calls
<1>5. iopub \in Seq(Message) /\ stdin \in Seq(Message)
  BY DEF KernelInv, TypeOK
<1>6. ASSUME NEW p \in {"hook", "wait", "leave"}, Moves(c, p)
      PROVE  GuardInv' /\ ConnectInv'
  <2>1. p \in Place /\ p \notin Connecting /\ p \in {"send", "leave"} \cup Waiting
        /\ p \notin {"idle", "guard", "send"}
    BY <1>2 DEF Connecting
  <2> QED
    BY <1>1, <1>3, <1>6, <2>1, GuardKeeps, ConnectKeeps DEF counters
<1>7. ASSUME NEW p \in {"hook", "wait", "leave"}, Moves(c, p),
             \A m : In(m, iopub') => In(m, iopub)
      PROVE  OrderInv'
  <2>1. \A d \in Caller : call'[d].id = call[d].id
    BY <1>7 DEF Moves
  <2>2. \A d \in Caller : /\ call'[d].pc \in {"guard", "send"} \cup Connecting =>
                               call[d].pc \in {"guard", "send"} \cup Connecting
                          /\ call'[d].pc \in Waiting => call[d].pc \in Waiting
    BY <1>1, <1>7 DEF Moves, Connecting
  <2>3. \A n : Ended(n)' => Ended(n)
    BY <1>1, <1>7 DEF Ended, In
  <2>4. UNCHANGED <<work, calls>>
    BY <1>1 DEF kernel, counters
  <2> QED
    BY <2>1, <2>2, <2>3, <2>4 DEF KernelInv, OrderInv
<1>8. CASE call[c].stdin /\ stdin # <<>>
  <2>1. stdin' = Tail(stdin) /\ Goto(c, "hook") /\ iopub' = iopub
    BY <1>8 DEF Take
  <2>2. Moves(c, "hook") /\ SameLook(c)
    BY <1>2, <2>1, GotoIs DEF KernelInv
  <2>3. stdin' = <<>> /\ stdin' \in Seq(Message)
    <3>1. Len(stdin) <= 1 /\ Len(stdin) \in Nat /\ Tail(stdin) \in Seq(Message)
          /\ Len(Tail(stdin)) = Len(stdin) - 1 /\ Len(stdin) # 0
      BY <1>5, <1>8, TailIn DEF KernelInv, QuestionInv
    <3>2. Len(Tail(stdin)) = 0
      BY <3>1
    <3> QED
      BY <2>1, <3>1, <3>2, EmptySeq
  <2>4. TypeOK'
    BY <1>1, <2>1, <2>2, <2>3 DEF KernelInv, TypeOK, Moves, connection, kernel, guards, counters
  <2>5. QuestionInv'
    <3>1. /\ ~OnWire /\ consent = "none" /\ ~Hooked /\ replies = 0
          /\ asking # "no" /\ work # <<>>
      BY <1>8 DEF KernelInv, QuestionInv
    <3>2. ~OnWire' /\ consent' = "none" /\ replies' = 0 /\ asking' # "no" /\ work' # <<>>
      BY <1>1, <3>1 DEF OnWire, kernel
    <3>3. \A d \in Caller : At(d, "hook")' => d = c
      BY <2>2, <3>1 DEF Moves, At, Hooked
    <3>4. Len(stdin') = 0
      BY <2>3, EmptySeq
    <3> QED
      BY <1>1, <2>3, <3>2, <3>3, <3>4 DEF QuestionInv, OnWire
  <2>6. Timely(call'[c], iopub')
    <3>1. ~call[c].inTime
      BY <1>1, <1>8, NothingAsked
    <3> QED
      BY <1>1, <1>4, <2>1, <2>2, <3>1 DEF Timely, Moves, SameLook, Waiting
  <2>7. TimeInv'
    BY <1>3, <2>2, <2>6, OthersTimely DEF TimeInv, Moves
  <2> QED
    BY <1>6, <1>7, <2>1, <2>2, <2>4, <2>5, <2>7 DEF KernelInv
<1>9. CASE ~(call[c].stdin /\ stdin # <<>>) /\ iopub # <<>>
  <2>1. /\ iopub' = Tail(iopub) /\ stdin' = stdin
        /\ IF Head(iopub) = <<"idle", call[c].id>> THEN Ends(c, "completed") ELSE Goto(c, "wait")
    BY <1>9 DEF Take
  <2>2. /\ iopub' \in Seq(Message)
        /\ \A m : In(m, iopub') => In(m, iopub)
        /\ \A m : In(m, iopub) => In(m, iopub') \/ m = Head(iopub)
        /\ \A m : \A n \in Nat : Among(m, iopub, n + 1) => Among(m, iopub', n) \/ m = Head(iopub)
    BY <1>5, <1>9, <2>1, TailIn
  <2>3. \E p \in {"leave", "wait"} : Moves(c, p) /\ Timely(call'[c], iopub')
    <3>1. CASE Head(iopub) = <<"idle", call[c].id>>
      <4>1. Moves(c, "leave") /\ SameLook(c) /\ call'[c].verdict = "completed"
        BY <2>1, <3>1, EndsIs DEF KernelInv
      <4> QED
        BY <1>1, <1>4, <4>1 DEF Timely, Moves, SameLook, Waiting
    <3>2. CASE Head(iopub) # <<"idle", call[c].id>>
      <4>1. Moves(c, "wait") /\ SameLook(c)
        BY <1>2, <2>1, <3>2, GotoIs DEF KernelInv
      <4>2. call[c].inTime => In(<<"idle", call[c].id>>, iopub')
        BY <1>1, <1>4, <2>2, <3>2 DEF Timely
      <4>3. call[c].inTime /\ call[c].looked =>
              Among(<<"idle", call[c].id>>, iopub', call[c].backlog)
        BY <1>1, <1>4, <2>2, <3>2 DEF Timely
      <4> QED
        BY <1>1, <1>2, <1>4, <4>1, <4>2, <4>3 DEF Timely, Moves, SameLook, Waiting
    <3> QED
      BY <3>1, <3>2
  <2>4. PICK p \in {"leave", "wait"} : Moves(c, p) /\ Timely(call'[c], iopub')
    BY <2>3
  <2>5. TypeOK'
    BY <1>1, <2>1, <2>2, <2>4 DEF KernelInv, TypeOK, Moves, connection, kernel, guards, counters
  <2>6. QuestionInv'
    BY <1>1, <1>2, <1>3, <2>1, <2>4, QuestionKeeps DEF kernel
  <2>7. TimeInv'
    BY <1>3, <2>4, OthersTimely DEF TimeInv, Moves
  <2> QED
    BY <1>6, <1>7, <2>2, <2>4, <2>5, <2>6, <2>7 DEF KernelInv
<1>10. CASE ~(call[c].stdin /\ stdin # <<>>) /\ iopub = <<>>
  <2>1. Goto(c, "wait") /\ UNCHANGED <<iopub, stdin>>
    BY <1>10 DEF Take
  <2>2. Moves(c, "wait") /\ SameLook(c)
    BY <1>2, <2>1, GotoIs DEF KernelInv
  <2>3. ~call[c].inTime
    BY <1>1, <1>10, NothingAsked
  <2>4. Timely(call'[c], iopub)
    BY <1>1, <1>2, <2>2, <2>3, GoesOn
  <2>5. event' \in BOOLEAN
    BY <1>1 DEF KernelInv, TypeOK
  <2>6. call[c].pc \in Waiting \ {"hook"} /\ "wait" \in {"leave"} \cup (Waiting \ {"hook"})
    BY <1>1, <1>2
  <2> QED
    BY <1>1, <1>2, <2>1, <2>2, <2>4, <2>5, <2>6, LoopStep
<1> QED
  BY <1>8, <1>9, <1>10

LEMMA HookInv ==
  ASSUME KernelInv, NEW c \in Caller, Hook(c)
  PROVE  KernelInv'
<1>1. /\ call[c].pc = "hook" /\ call[c].pc \in Waiting
      /\ UNCHANGED <<connection, work, asking, transport, consent, guards>> /\ calls' = calls
  BY DEF Hook, At, Waiting, counters, Trouble
<1>2. /\ "wait" \in Place /\ "leave" \in Place /\ "wait" \in Waiting
      /\ trouble' \in Nat
  BY DEF Place, Waiting, Hook, counters, Trouble, KernelInv, TypeOK
<1>3. /\ ~At(c, "idle") /\ ~At(c, "leave") /\ Guarded(c) /\ call[c].pc \notin Connecting
  BY <1>1 DEF At, Guarded, Connecting
<1>4. Timely(call[c], iopub) /\ ~call[c].inTime
  BY <1>1, NothingAsked DEF KernelInv, TimeInv, At
<1>5. /\ ~OnWire /\ stdin = <<>> /\ consent = "none" /\ replies = 0 /\ asking # "no"
      /\ work # <<>> /\ \A d \in Caller : At(d, "hook") => d = c
  <2>1. Hooked /\ At(c, "hook")
    BY <1>1 DEF Hooked, At
  <2>2. /\ ~OnWire /\ stdin = <<>> /\ consent = "none" /\ replies = 0 /\ asking # "no"
        /\ work # <<>>
    BY <2>1 DEF KernelInv, QuestionInv, TypeOK
  <2>3. \A d \in Caller : At(d, "hook") => d = c
    BY <2>1 DEF KernelInv, QuestionInv
  <2> QED
    BY <2>2, <2>3
<1>6. PICK p \in {"wait", "leave"} : Moves(c, p) /\ SameLook(c)
  <2>1. CASE Goto(c, "wait")
    BY <1>2, <2>1, GotoIs DEF KernelInv
  <2>2. CASE Ends(c, "error")
    BY <2>2, EndsIs DEF KernelInv
  <2> QED
    BY <2>1, <2>2 DEF Hook
<1>7. replies' \in {0, 1}
  BY <1>5 DEF Hook, Answered
<1>8. TypeOK'
  BY <1>1, <1>2, <1>6, <1>7 DEF KernelInv, TypeOK, Moves, connection, transport, guards
<1>9. /\ p \in Place /\ p \notin Connecting /\ p \in {"send", "leave"} \cup Waiting
      /\ p \notin {"idle", "guard", "send", "hook", "expired"}
  BY <1>2 DEF Connecting
<1>10. GuardInv' /\ ConnectInv'
  BY <1>1, <1>3, <1>6, <1>9, GuardKeeps, ConnectKeeps
<1>11. OrderInv'
  BY <1>1, <1>6, <1>9, OrderKeeps DEF transport, Connecting
<1>12. QuestionInv'
  <2>1. ~Hooked'
    BY <1>5, <1>6, <1>9 DEF Hooked, At, Moves
  <2>2. /\ ~OnWire' /\ stdin' = <<>> /\ consent' = "none" /\ asking' # "no" /\ work' # <<>>
        /\ Len(stdin') = 0
    BY <1>1, <1>5, EmptySeq DEF OnWire, transport
  <2> QED
    BY <1>7, <2>1, <2>2 DEF QuestionInv, OnWire, Hooked
<1>13. Timely(call'[c], iopub)
  BY <1>1, <1>4, <1>6, <1>9 DEF Timely, Moves, SameLook, Waiting
<1>14. TimeInv'
  BY <1>1, <1>6, <1>9, <1>13, TimeKeeps DEF transport
<1> QED
  BY <1>8, <1>10, <1>11, <1>12, <1>14 DEF KernelInv

LEMMA SendInv ==
  ASSUME KernelInv, NEW c \in Caller, Send(c)
  PROVE  KernelInv'
<1>1. /\ call[c].pc = "send" /\ calls' = calls
      /\ UNCHANGED <<connection, asking, replies, transport, consent, guards>>
  BY DEF Send, At, counters, Trouble
<1>2. /\ "wait" \in Place /\ "leave" \in Place /\ "wait" \in Waiting /\ trouble' \in Nat
  BY DEF Place, Waiting, Send, counters, Trouble, KernelInv, TypeOK
<1>3. /\ ~At(c, "idle") /\ ~At(c, "leave") /\ ~At(c, "hook") /\ Guarded(c)
      /\ call[c].pc \notin Connecting \cup Waiting
  BY <1>1 DEF At, Guarded, Connecting, Waiting
<1>4. call[c].id \in Nat /\ work \in Seq(Nat) /\ call[c].verdict # "timeout"
  BY <1>1 DEF KernelInv, TypeOK, Calls, TimeInv, Timely
<1>5. ~Ended(call[c].id) /\ ~In(call[c].id, work)
  BY <1>1 DEF KernelInv, OrderInv
<1>6. \A d \in Caller \ {c} : call[d].pc \notin Waiting
  BY <1>3, OneGuarded DEF Guarded
<1>7. ASSUME NEW p \in {"wait", "leave"}, Moves(c, p), SameLook(c),
             p = "leave" => call'[c].verdict # "timeout"
      PROVE  GuardInv' /\ ConnectInv' /\ TimeInv'
  <2>1. p \in Place /\ p \notin Connecting /\ p \in {"send", "leave"} \cup Waiting
        /\ p \notin {"idle", "guard", "send", "expired"}
    BY <1>2 DEF Connecting
  <2>2. Timely(call'[c], iopub)
    BY <1>1, <1>3, <1>4, <1>7, <2>1, NotLate DEF SameLook, Moves
  <2> QED
    BY <1>1, <1>3, <1>7, <2>1, <2>2, GuardKeeps, ConnectKeeps, TimeKeeps DEF transport
<1>8. CASE Ends(c, "error") /\ UNCHANGED work
  <2>1. Moves(c, "leave") /\ SameLook(c) /\ call'[c].verdict = "error"
    BY <1>8, EndsIs DEF KernelInv
  <2>2. TypeOK'
    BY <1>1, <1>2, <1>8, <2>1 DEF KernelInv, TypeOK, Moves, connection, transport, guards
  <2>3. QuestionInv'
    BY <1>1, <1>2, <1>3, <1>8, <2>1, QuestionKeeps DEF transport
  <2>4. OrderInv'
    BY <1>1, <1>2, <1>8, <2>1, OrderKeeps DEF transport, Waiting, Connecting
  <2> QED
    BY <1>7, <2>1, <2>2, <2>3, <2>4 DEF KernelInv
<1>9. CASE work' = Append(work, call[c].id) /\ Goto(c, "wait")
  <2>1. Moves(c, "wait") /\ SameLook(c)
    BY <1>2, <1>9, GotoIs DEF KernelInv
  <2>2. /\ work' \in Seq(Nat) /\ Len(work') = Len(work) + 1 /\ Len(work) \in Nat
        /\ DOMAIN work = 1..Len(work) /\ DOMAIN work' = 1..Len(work')
        /\ \A i \in DOMAIN work : work'[i] = work[i]
        /\ \A m : In(m, work') <=> In(m, work) \/ m = call[c].id
    BY <1>4, <1>9, AppendIn, AppendProperties, LenProperties
  <2>3. TypeOK'
    BY <1>1, <1>2, <2>1, <2>2 DEF KernelInv, TypeOK, Moves, connection, transport, guards
  <2>4. QuestionInv'
    <3>1. \A d \in Caller : At(d, "hook")' <=> At(d, "hook")
      BY <1>3, <2>1 DEF At, Moves
    <3>2. work' # <<>>
      BY <2>2, EmptySeq
    <3> QED
      BY <1>1, <3>1, <3>2 DEF KernelInv, QuestionInv, OnWire, Hooked, transport
  <2>5. OrderInv'
    <3>1. \A n : Ended(n)' <=> Ended(n)
      BY <1>1 DEF Ended, In, transport
    <3>2. \A n \in Nat : Ended(n)' \/ In(n, work') => n <= calls'
      BY <1>1, <2>2, <3>1 DEF KernelInv, OrderInv, GuardInv
    <3>3. ASSUME NEW d \in Caller \ {c}
          PROVE  /\ call'[d] = call[d] /\ call'[d].pc \notin Waiting
                 /\ call[d].pc \in {"guard", "send"} \cup Connecting => call[d].id # call[c].id
      BY <1>3, <1>6, <2>1 DEF Moves, KernelInv, GuardInv, At, Connecting
    <3>4. ASSUME NEW i \in DOMAIN work', work'[i] = call[c].id PROVE i = Len(work')
      BY <1>5, <2>2, <3>4 DEF In
    <3>5. /\ call'[c].pc = "wait" /\ call'[c].id = call[c].id
          /\ "wait" \notin {"guard", "send"} \cup Connecting
      BY <2>1 DEF Moves, Connecting
    <3>6. ASSUME NEW d \in Caller
          PROVE  /\ call'[d].pc \in {"guard", "send"} \cup Connecting =>
                      ~Ended(call'[d].id) /\ ~In(call'[d].id, work')
                 /\ call'[d].pc \in Waiting =>
                      /\ \A i \in DOMAIN work' : work'[i] = call'[d].id => i = Len(work')
                      /\ Ended(call'[d].id) => work' = <<>>
      <4>1. CASE d = c
        BY <1>5, <3>4, <3>5, <4>1
      <4>2. CASE d # c
        <5>1. call'[d] = call[d] /\ call'[d].pc \notin Waiting
          BY <3>3, <4>2
        <5>2. ASSUME call[d].pc \in {"guard", "send"} \cup Connecting
              PROVE  ~Ended(call[d].id) /\ ~In(call[d].id, work')
          <6>1. call[d].id # call[c].id
            BY <3>3, <4>2, <5>2
          <6>2. ~Ended(call[d].id) /\ ~In(call[d].id, work)
            BY <5>2 DEF KernelInv, OrderInv
          <6> QED
            BY <2>2, <6>1, <6>2
        <5> QED
          BY <5>1, <5>2
      <4> QED
        BY <4>1, <4>2
    <3>7. wire' = wire /\ iopub' = iopub
      BY <1>1 DEF transport
    <3> QED
      BY <3>2, <3>6, <3>7 DEF OrderInv, Ended
  <2> QED
    BY <1>7, <2>1, <2>3, <2>4, <2>5 DEF KernelInv
<1> QED
  BY <1>8, <1>9 DEF Send

LEMMA InstallInv ==
  ASSUME KernelInv, NEW c \in Caller, Install(c)
  PROVE  KernelInv'
<1>1. /\ call[c].pc = "guard" /\ lock = 0 /\ lock' = call[c].id /\ proxy' = call[c].id
      /\ UNCHANGED <<connection, kernel, transport, consent, counters>> /\ Goto(c, "send")
  BY DEF Install, At, Locks, KernelInv, GuardInv
<1>2. "send" \in Place /\ "send" \notin Connecting \cup Waiting \cup {"hook", "expired"}
  BY DEF Place, Connecting, Waiting
<1>3. Moves(c, "send") /\ SameLook(c)
  BY <1>1, <1>2, GotoIs DEF KernelInv
<1>4. /\ ~At(c, "idle") /\ ~At(c, "hook") /\ At(c, "guard")
      /\ call[c].pc \notin Connecting \cup Waiting \cup {"leave"}
  BY <1>1 DEF At, Connecting, Waiting
<1>5. call[c].id \in Nat /\ call[c].verdict # "timeout" /\ call'[c].verdict = call[c].verdict
  BY <1>1, <1>3 DEF KernelInv, TypeOK, Calls, TimeInv, Timely, SameLook, Moves
<1>6. TypeOK'
  BY <1>1, <1>3, <1>5 DEF KernelInv, TypeOK, Moves, connection, kernel, transport, counters
<1>7. GuardInv'
  <2>1. \A d \in Caller : call'[d].id = call[d].id /\ (At(d, "idle")' <=> At(d, "idle"))
    BY <1>3, <1>4 DEF Moves, At
  <2>2. \A d \in Caller : ~Guarded(d) /\ (Guarded(d)' => d = c)
    <3>1. ASSUME NEW d \in Caller, Guarded(d) PROVE FALSE
      <4>1. lock = call[d].id /\ call[d].id > 0
        BY <3>1 DEF KernelInv, GuardInv, Guarded, At, Waiting
      <4> QED
        BY <1>1, <4>1
    <3> QED
      BY <1>3, <3>1 DEF Moves, Guarded
  <2>3. Guarded(c)'
    BY <1>3 DEF Moves, Guarded
  <2> QED
    BY <1>1, <2>1, <2>2, <2>3 DEF KernelInv, GuardInv, counters
<1>8. ConnectInv'
  BY <1>1, <1>2, <1>3, <1>4, ConnectKeeps
<1>9. QuestionInv'
  BY <1>1, <1>2, <1>3, <1>4, QuestionKeeps DEF kernel, transport
<1>10. OrderInv'
  BY <1>1, <1>2, <1>3, OrderKeeps DEF kernel, transport, counters
<1>11. TimeInv'
  BY <1>1, <1>2, <1>3, <1>4, <1>5, NotLate, TimeKeeps DEF transport
<1> QED
  BY <1>6, <1>7, <1>8, <1>9, <1>10, <1>11 DEF KernelInv

LEMMA IdleIs ==
  /\ Idle \in Calls /\ Idle.pc = "idle" /\ Idle.id = 0 /\ \A q : Timely(Idle, q)
<1>1. /\ Idle \in Calls /\ Idle.pc = "idle" /\ Idle.id = 0 /\ ~Idle.late /\ ~Idle.looked
      /\ ~Idle.inTime /\ Idle.verdict = "none"
  BY DEF Idle, Calls, Place
<1> QED
  BY <1>1 DEF Timely, Waiting

LEMMA LeaveInv ==
  ASSUME KernelInv, NEW c \in Caller, Leave(c)
  PROVE  KernelInv'
<1>1. /\ call[c].pc = "leave" /\ UNCHANGED <<connection, kernel, transport, consent, counters>>
      /\ proxy' = (IF proxy = call[c].id THEN 0 ELSE proxy)
      /\ lock' = (IF lock = call[c].id THEN 0 ELSE lock)
  BY DEF Leave, At
<1>2. /\ call' \in [Caller -> Calls] /\ call'[c] = Idle
      /\ \A d \in Caller \ {c} : call'[d] = call[d]
  BY IdleIs, Updates DEF Leave, KernelInv
<1>3. call'[c].pc = "idle" /\ call'[c].id = 0
  BY <1>2, IdleIs
<1>4. \A d \in Caller : ~At(d, "idle")' => d # c /\ ~At(d, "idle")
  BY <1>2, <1>3 DEF At
<1>5. TypeOK'
  <2>1. proxy' \in Nat /\ lock' \in Nat
    BY <1>1 DEF KernelInv, TypeOK
  <2> QED
    BY <1>1, <1>2, <2>1 DEF KernelInv, TypeOK, connection, kernel, transport, counters
<1>6. GuardInv'
  <2>1. proxy' = lock'
    BY <1>1 DEF KernelInv, GuardInv
  <2>2. ASSUME NEW d \in Caller
        PROVE  /\ call'[d].id <= calls' /\ (~At(d, "idle")' => call'[d].id > 0)
               /\ Guarded(d)' => lock' = call'[d].id
    <3>1. calls' = calls /\ calls \in Nat
      BY <1>1 DEF counters, KernelInv, TypeOK
    <3>2. CASE d = c
      BY <1>3, <3>1, <3>2 DEF At, Guarded, Waiting
    <3>3. CASE d # c
      <4>1. call'[d] = call[d]
        BY <1>2, <3>3
      <4>2. ASSUME Guarded(d) PROVE lock = call[d].id /\ call[d].id # call[c].id
        <5>1. ~At(d, "idle")
          BY <4>2 DEF Guarded, At, Waiting
        <5> QED
          BY <3>3, <4>2, <5>1 DEF KernelInv, GuardInv
      <4> QED
        BY <1>1, <3>1, <4>1, <4>2 DEF KernelInv, GuardInv, At, Guarded
    <3> QED
      BY <3>2, <3>3
  <2>3. ASSUME NEW d \in Caller, NEW e \in Caller, ~At(d, "idle")', call'[d].id = call'[e].id
        PROVE  d = e
    <3>1. d # c /\ ~At(d, "idle") /\ call'[d] = call[d] /\ call[d].id > 0
      BY <1>2, <1>4, <2>3 DEF KernelInv, GuardInv
    <3>2. e # c
      BY <1>3, <2>3, <3>1
    <3> QED
      BY <1>2, <2>3, <3>1, <3>2 DEF KernelInv, GuardInv
  <2>4. lock' = 0 \/ \E d \in Caller : lock' = call'[d].id /\ (Guarded(d)' \/ At(d, "leave")')
    <3>1. CASE lock = 0 \/ lock = call[c].id
      BY <1>1, <3>1
    <3>2. CASE lock # 0 /\ lock # call[c].id
      <4>1. PICK d \in Caller : lock = call[d].id /\ (Guarded(d) \/ At(d, "leave"))
        BY <3>2 DEF KernelInv, GuardInv
      <4>2. d # c /\ call'[d] = call[d] /\ lock' = lock
        BY <1>1, <1>2, <3>2, <4>1
      <4> QED
        BY <4>1, <4>2 DEF Guarded, At
    <3> QED
      BY <3>1, <3>2
  <2> QED
    BY <2>1, <2>2, <2>3, <2>4 DEF GuardInv
<1>7. ConnectInv'
  <2>1. \A d \in Caller : call'[d].pc # "idle" => call'[d] = call[d]
    BY <1>2, <1>3
  <2>2. \A d \in Caller : call[d].pc = "idle" => call'[d].pc = "idle"
    BY <1>2, <1>3
  <2>3. \A d \in Caller : At(d, "remember") => At(d, "remember")'
    BY <1>1, <1>2 DEF At
  <2> QED
    BY <1>1, <2>1, <2>2, <2>3 DEF KernelInv, ConnectInv, connection, Connecting, Quiet, At,
                                Guarded, Waiting
<1>8. QuestionInv'
  <2>1. \A d \in Caller : At(d, "hook")' <=> At(d, "hook")
    BY <1>1, <1>2, <1>3 DEF At
  <2> QED
    BY <1>1, <2>1 DEF KernelInv, QuestionInv, OnWire, Hooked, kernel, transport
<1>9. OrderInv'
  <2>1. \A d \in Caller : call'[d].pc \in {"guard", "send"} \cup Connecting \cup Waiting
                            => call'[d] = call[d]
    BY <1>2, <1>3 DEF Connecting, Waiting
  <2>2. wire' = wire /\ iopub' = iopub /\ work' = work /\ calls' = calls
    BY <1>1 DEF kernel, transport, counters
  <2> QED
    BY <2>1, <2>2 DEF KernelInv, OrderInv, Ended
<1>10. TimeInv'
  BY <1>1, <1>2, IdleIs DEF KernelInv, TimeInv, transport
<1> QED
  BY <1>5, <1>6, <1>7, <1>8, <1>9, <1>10 DEF KernelInv

LEMMA CallInv ==
  ASSUME KernelInv, NEW c \in Caller, Call(c)
  PROVE  KernelInv'
<1>1. /\ call[c].pc = "idle" /\ calls' = calls + 1 /\ calls \in Nat /\ (client \/ Quiet(c))
      /\ UNCHANGED <<connection, kernel, transport, consent, guards, trouble>>
  BY DEF Call, At, KernelInv, TypeOK
<1>2. PICK allow \in BOOLEAN, finite \in BOOLEAN :
        call' = [call EXCEPT ![c] = [Idle EXCEPT
          !.pc = IF client THEN "guard" ELSE "connect",
          !.id = calls + 1, !.stdin = allow, !.finite = finite]]
  BY DEF Call
<1>3. PICK p \in {"guard", "connect"} : p = IF client THEN "guard" ELSE "connect"
  OBVIOUS
<1>4. PICK n \in Nat : n = calls + 1
  BY <1>1
<1>5. PICK r : r = [Idle EXCEPT !.pc = p, !.id = n, !.stdin = allow, !.finite = finite]
  OBVIOUS
<1>6. /\ r \in Calls /\ r.pc = p /\ r.id = n /\ ~r.late /\ ~r.looked /\ ~r.inTime
      /\ r.verdict = "none"
  <2>1. r = [pc |-> p, id |-> n, stdin |-> allow, finite |-> finite, tries |-> 0,
             fresh |-> FALSE, late |-> FALSE, looked |-> FALSE, backlog |-> 0,
             inTime |-> FALSE, verdict |-> "none"]
    BY <1>5 DEF Idle
  <2>2. p \in Place
    BY DEF Place, Connecting
  <2>3. r \in Calls
    BY <2>1, <2>2 DEF Calls
  <2> QED
    BY <2>1, <2>3
<1>7. call' = [call EXCEPT ![c] = r]
  BY <1>2, <1>3, <1>4, <1>5
<1>8. /\ call' \in [Caller -> Calls] /\ call'[c] = r
      /\ \A d \in Caller \ {c} : call'[d] = call[d]
  BY <1>6, <1>7, Updates DEF KernelInv
<1>9. \A d \in Caller : call'[d].pc \notin {"guard", "connect"} => d # c /\ call'[d] = call[d]
  BY <1>6, <1>8
<1>10. TypeOK'
  BY <1>1, <1>8 DEF KernelInv, TypeOK, connection, kernel, transport, guards
<1>11. GuardInv'
  <2>1. \A d \in Caller : call[d].id \in Nat /\ call[d].id <= calls
    BY DEF KernelInv, TypeOK, GuardInv, Calls
  <2>2. ASSUME NEW d \in Caller
        PROVE  /\ call'[d].id <= calls' /\ (~At(d, "idle")' => call'[d].id > 0)
               /\ Guarded(d)' => lock' = call'[d].id
    <3>1. CASE d = c
      BY <1>1, <1>4, <1>6, <1>8, <3>1 DEF Guarded, Waiting
    <3>2. CASE d # c
      <4>1. call'[d] = call[d] /\ call[d].id <= calls'
        BY <1>1, <1>8, <2>1, <3>2
      <4> QED
        BY <1>1, <4>1 DEF KernelInv, GuardInv, At, Guarded, guards
    <3> QED
      BY <3>1, <3>2
  <2>3. ASSUME NEW d \in Caller, NEW e \in Caller, ~At(d, "idle")', call'[d].id = call'[e].id
        PROVE  d = e
    <3>1. \A f \in Caller \ {c} : call'[f].id # call'[c].id
      BY <1>1, <1>4, <1>6, <1>8, <2>1
    <3>2. CASE d # c /\ e # c
      BY <1>8, <2>3, <3>2 DEF KernelInv, GuardInv, At
    <3> QED
      BY <2>3, <3>1, <3>2
  <2>4. \A d \in Caller : Guarded(d) \/ At(d, "leave") => call'[d] = call[d]
    BY <1>1, <1>8 DEF Guarded, At, Waiting
  <2>5. proxy' = proxy /\ lock' = lock
    BY <1>1 DEF guards
  <2>6. lock' = 0 \/ \E d \in Caller : lock' = call'[d].id /\ (Guarded(d)' \/ At(d, "leave")')
    BY <2>4, <2>5 DEF KernelInv, GuardInv, Guarded, At
  <2>7. proxy' = lock'
    BY <2>5 DEF KernelInv, GuardInv
  <2> QED
    BY <2>2, <2>3, <2>6, <2>7 DEF GuardInv
<1>12. ConnectInv'
  <2>1. \A d \in Caller \ {c} : call[d].pc \notin Connecting
    <3>1. ASSUME NEW d \in Caller \ {c}, call[d].pc \in Connecting PROVE FALSE
      <4>1. ~client /\ call[d].pc # "idle"
        BY <3>1 DEF KernelInv, ConnectInv, Connecting
      <4> QED
        BY <1>1, <4>1 DEF Quiet, At
    <3> QED
      BY <3>1
  <2>2. client' = client /\ kid' = kid /\ recorded' = recorded /\ unnamed' = unnamed
        /\ kernels' = kernels /\ lost' = lost
    BY <1>1 DEF connection
  <2>3. ASSUME NEW d \in Caller, call'[d].pc \in Connecting
        PROVE  ~client' /\ Quiet(d)' /\ call'[d].pc = "connect"
    <3>1. d = c
      BY <1>8, <2>1, <2>3
    <3>2. p = "connect" /\ ~client
      BY <1>3, <1>6, <1>8, <2>3, <3>1 DEF Connecting
    <3>3. Quiet(c)'
      BY <1>1, <1>8, <3>2 DEF Quiet, At
    <3> QED
      BY <1>6, <1>8, <2>2, <3>1, <3>2, <3>3
  <2>4. ASSUME NEW d \in Caller, At(d, "guard")' \/ Guarded(d)' PROVE client'
    <3>1. CASE d = c
      BY <1>3, <1>6, <1>8, <2>2, <2>4, <3>1 DEF At, Guarded, Waiting
    <3>2. CASE d # c
      BY <1>8, <2>2, <2>4, <3>2 DEF KernelInv, ConnectInv, At, Guarded
    <3> QED
      BY <3>1, <3>2
  <2>5. \A d \in Caller : ~At(d, "remember")
    BY <1>1, <2>1 DEF At, Connecting
  <2>6. \A d \in Caller : call'[d].pc \in {"remember", "channels"} => call'[d].pc \in Connecting
                                                                /\ call'[d].pc # "connect"
    BY DEF Connecting
  <2> QED
    BY <2>2, <2>3, <2>4, <2>5, <2>6 DEF KernelInv, ConnectInv
<1>13. QuestionInv'
  <2>1. \A d \in Caller : At(d, "hook")' <=> At(d, "hook")
    BY <1>1, <1>6, <1>8 DEF At
  <2> QED
    BY <1>1, <2>1 DEF KernelInv, QuestionInv, OnWire, Hooked, kernel, transport
<1>14. OrderInv'
  <2>1. wire' = wire /\ iopub' = iopub /\ work' = work
    BY <1>1 DEF kernel, transport
  <2>2. \A m \in Nat : Ended(m) \/ In(m, work) => m <= calls /\ m <= calls' /\ m # n
    BY <1>1, <1>4 DEF KernelInv, OrderInv
  <2>3. ASSUME NEW d \in Caller
        PROVE  /\ call'[d].pc \in {"guard", "send"} \cup Connecting =>
                    ~Ended(call'[d].id) /\ ~In(call'[d].id, work)
               /\ call'[d].pc \in Waiting =>
                    /\ \A i \in DOMAIN work : work[i] = call'[d].id => i = Len(work)
                    /\ Ended(call'[d].id) => work = <<>>
    <3>1. CASE d = c
      BY <1>6, <1>8, <2>2, <3>1 DEF Waiting
    <3>2. CASE d # c
      BY <1>8, <3>2 DEF KernelInv, OrderInv
    <3> QED
      BY <3>1, <3>2
  <2> QED
    BY <2>1, <2>2, <2>3 DEF OrderInv, Ended
<1>15. TimeInv'
  <2>1. Timely(r, iopub)
    BY <1>6 DEF Timely, Waiting
  <2> QED
    BY <1>1, <1>8, <2>1 DEF KernelInv, TimeInv, transport
<1> QED
  BY <1>10, <1>11, <1>12, <1>13, <1>14, <1>15 DEF KernelInv

\* What a step of a call that connects leaves as it was.
LEMMA ConnectStep ==
  ASSUME KernelInv, NEW c \in Caller,
         NEW p \in {"connect", "remember", "channels", "guard", "leave"},
         call[c].pc \in Connecting, Moves(c, p), SameLook(c), call'[c].verdict # "timeout",
         UNCHANGED <<kernel, transport, consent, guards, calls>>
  PROVE  /\ call' \in [Caller -> Calls] /\ call'[c].pc = p
         /\ \A d \in Caller \ {c} : call'[d].pc = "idle" /\ call[d].pc = "idle"
         /\ GuardInv' /\ QuestionInv' /\ OrderInv' /\ TimeInv'
<1>1. p \in Place /\ p \notin Waiting \cup {"send", "idle", "hook", "expired"}
  BY DEF Place, Connecting, Waiting
<1>2. /\ ~At(c, "idle") /\ ~At(c, "leave") /\ ~At(c, "hook") /\ ~Guarded(c)
      /\ call[c].pc \notin {"leave"} \cup Waiting
  BY DEF At, Guarded, Connecting, Waiting
<1>3. GuardInv'
  BY <1>1, <1>2, GuardKeeps DEF counters
<1>4. QuestionInv'
  BY <1>1, <1>2, QuestionKeeps DEF kernel, transport
<1>5. OrderInv'
  BY <1>1, OrderKeeps DEF kernel, transport
<1>6. TimeInv'
  BY <1>1, <1>2, NotLate, TimeKeeps DEF transport
<1>7. \A d \in Caller \ {c} : call'[d].pc = "idle" /\ call[d].pc = "idle"
  BY Alone DEF Moves, At
<1> QED
  BY <1>3, <1>4, <1>5, <1>6, <1>7 DEF Moves

LEMMA NoTimeout ==
  ASSUME KernelInv, NEW c \in Caller, NEW p, Moves(c, p), SameLook(c), call[c].pc # "leave",
         p = "leave" => call'[c].verdict = "error"
  PROVE  call'[c].verdict # "timeout"
BY DEF KernelInv, TimeInv, Timely, Moves, SameLook

LEMMA ConnectActionInv ==
  ASSUME KernelInv, NEW c \in Caller, Connect(c)
  PROVE  KernelInv'
<1>1. /\ call[c].pc = "connect" /\ call[c].pc \in Connecting
      /\ UNCHANGED <<client, recorded, unnamed, kernel, transport, consent, guards>>
  BY DEF Connect, At, Connecting
<1>2. ~client /\ \A d \in Caller \ {c} : call[d].pc = "idle"
  BY <1>1, Alone DEF KernelInv, ConnectInv, At
<1>3. calls' = calls /\ trouble' \in Nat
  BY DEF Connect, counters, Trouble, KernelInv, TypeOK
<1>4. {"remember", "channels", "connect", "leave"} \subseteq Place
  BY DEF Place, Connecting
<1>5. kid \in Nat /\ kernels \in Nat /\ lost \in Nat
  BY DEF KernelInv, TypeOK
<1>6. \E p \in {"remember", "channels", "connect", "leave"} :
        /\ Moves(c, p) /\ SameLook(c) /\ (p = "leave" => call'[c].verdict = "error")
        /\ \/ p = "remember" /\ kid = 0 /\ kernels' = kernels + 1 /\ kid' = kernels + 1
                /\ lost' = lost
           \/ p \in {"connect", "leave"} /\ kid = 0 /\ kernels' = kernels + 1 /\ kid' = kid
                /\ lost' = lost + 1
           \/ (p = "channels" => kid # 0) /\ p # "remember"
                /\ kid' = kid /\ kernels' = kernels /\ lost' = lost
  <2>1. CASE call' = [call EXCEPT ![c].pc = "remember", ![c].fresh = TRUE]
             /\ kid = 0 /\ kernels' = kernels + 1 /\ kid' = kernels + 1 /\ lost' = lost
    <3>1. PICK d \in Calls : d = call[c]
      BY DEF KernelInv, TypeOK
    <3>2. PICK r : r = [d EXCEPT !.pc = "remember", !.fresh = TRUE]
      OBVIOUS
    <3>3. /\ r \in Calls /\ r.pc = "remember" /\ r.id = d.id /\ r.stdin = d.stdin
          /\ r.finite = d.finite /\ r.late = d.late /\ r.inTime = d.inTime
          /\ r.looked = d.looked /\ r.backlog = d.backlog /\ r.verdict = d.verdict
      BY <1>4, <3>2 DEF Calls
    <3>4. call' = [call EXCEPT ![c] = r]
      BY <2>1, <3>1, <3>2 DEF KernelInv, TypeOK
    <3>5. Moves(c, "remember") /\ SameLook(c)
      BY <3>1, <3>3, <3>4, Updates DEF KernelInv, Moves, SameLook
    <3> QED
      BY <2>1, <3>5
  <2>2. CASE Retries(c) /\ kid = 0 /\ kernels' = kernels + 1 /\ kid' = kid /\ lost' = lost + 1
    BY <2>2, RetriesIs DEF KernelInv
  <2>3. CASE kid # 0 /\ Goto(c, "channels") /\ UNCHANGED <<kid, kernels, lost>>
    <3>1. Moves(c, "channels") /\ SameLook(c)
      BY <1>4, <2>3, GotoIs DEF KernelInv
    <3> QED
      BY <2>3, <3>1
  <2>4. CASE Retries(c) /\ UNCHANGED <<kid, kernels, lost>>
    BY <2>4, RetriesIs DEF KernelInv
  <2>5. CASE Ends(c, "error") /\ UNCHANGED <<kid, kernels, lost>>
    BY <2>5, EndsIs DEF KernelInv
  <2> QED
    BY <2>1, <2>2, <2>3, <2>4, <2>5 DEF Connect
<1>7. PICK p \in {"remember", "channels", "connect", "leave"} :
        /\ Moves(c, p) /\ SameLook(c) /\ (p = "leave" => call'[c].verdict = "error")
        /\ \/ p = "remember" /\ kid = 0 /\ kernels' = kernels + 1 /\ kid' = kernels + 1
                /\ lost' = lost
           \/ p \in {"connect", "leave"} /\ kid = 0 /\ kernels' = kernels + 1 /\ kid' = kid
                /\ lost' = lost + 1
           \/ (p = "channels" => kid # 0) /\ p # "remember"
                /\ kid' = kid /\ kernels' = kernels /\ lost' = lost
  BY <1>6
<1>8. call'[c].verdict # "timeout"
  BY <1>1, <1>7, NoTimeout
<1>9. /\ call' \in [Caller -> Calls] /\ call'[c].pc = p
      /\ \A d \in Caller \ {c} : call'[d].pc = "idle"
      /\ GuardInv' /\ QuestionInv' /\ OrderInv' /\ TimeInv'
  BY <1>1, <1>3, <1>7, <1>8, ConnectStep
<1>10. TypeOK'
  <2>1. kid' \in Nat /\ kernels' \in Nat /\ lost' \in Nat
    BY <1>5, <1>7
  <2> QED
    BY <1>1, <1>3, <1>9, <2>1 DEF KernelInv, TypeOK, kernel, transport, guards
<1>11. ConnectInv'
  <2>1. ~client' /\ recorded' = recorded /\ unnamed' = unnamed
    BY <1>1, <1>2
  <2>2. \A d \in Caller : /\ call'[d].pc # "idle" => d = c
                          /\ ~At(d, "guard")' /\ ~Guarded(d)'
    BY <1>9 DEF At, Guarded, Waiting
  <2>3. ASSUME NEW d \in Caller, call'[d].pc \in Connecting PROVE Quiet(d)'
    BY <1>9, <2>2, <2>3 DEF Quiet, At, Connecting
  <2>4. p \in {"remember", "channels"} => kid' # 0
    BY <1>5, <1>7
  <2>5. recorded' = 0 \/ recorded' = kid'
    BY <1>7, <2>1 DEF KernelInv, ConnectInv
  <2>6. kid' # 0 => recorded' = kid' \/ unnamed' \/ At(c, "remember")'
    <3>1. \A d \in Caller : ~At(d, "remember")
      BY <1>1, <1>2 DEF At
    <3> QED
      BY <1>7, <1>9, <2>1, <3>1 DEF KernelInv, ConnectInv, At
  <2>7. kernels' = lost' + (IF kid' = 0 THEN 0 ELSE 1)
    <3>1. kernels = lost + (IF kid = 0 THEN 0 ELSE 1)
      BY DEF KernelInv, ConnectInv
    <3> QED
      BY <1>5, <1>7, <3>1
  <2>8. \A d \in Caller : call'[d].pc \in {"remember", "channels"} => kid' # 0
    BY <1>9, <2>2, <2>4
  <2> QED
    BY <2>1, <2>2, <2>3, <2>5, <2>6, <2>7, <2>8 DEF ConnectInv
<1> QED
  BY <1>9, <1>10, <1>11 DEF KernelInv

LEMMA RememberInv ==
  ASSUME KernelInv, NEW c \in Caller, Remember(c)
  PROVE  KernelInv'
<1>1. /\ call[c].pc = "remember" /\ call[c].pc \in Connecting
      /\ UNCHANGED <<client, kid, kernels, lost, kernel, transport, consent, guards>>
  BY DEF Remember, At, Connecting
<1>2. ~client /\ kid # 0
  BY <1>1 DEF KernelInv, ConnectInv
<1>3. calls' = calls /\ trouble' \in Nat
  BY DEF Remember, counters, Trouble, KernelInv, TypeOK
<1>4. PICK p \in {"channels", "leave"} :
        /\ Moves(c, p) /\ SameLook(c) /\ (p = "leave" => call'[c].verdict = "error")
        /\ \/ recorded' = kid /\ unnamed' = unnamed
           \/ unnamed' = TRUE /\ recorded' = recorded
  <2>1. "channels" \in Place
    BY DEF Place, Connecting
  <2>2. CASE recorded' = kid /\ Goto(c, "channels") /\ unnamed' = unnamed
    BY <2>1, <2>2, GotoIs DEF KernelInv
  <2>3. CASE unnamed' = TRUE /\ Ends(c, "error") /\ recorded' = recorded
    BY <2>3, EndsIs DEF KernelInv
  <2> QED
    BY <2>2, <2>3 DEF Remember
<1>5. call'[c].verdict # "timeout"
  BY <1>1, <1>4, NoTimeout
<1>6. /\ call' \in [Caller -> Calls] /\ call'[c].pc = p
      /\ \A d \in Caller \ {c} : call'[d].pc = "idle"
      /\ GuardInv' /\ QuestionInv' /\ OrderInv' /\ TimeInv'
  BY <1>1, <1>3, <1>4, <1>5, ConnectStep
<1>7. TypeOK'
  <2>1. recorded' \in Nat /\ unnamed' \in BOOLEAN
    BY <1>4 DEF KernelInv, TypeOK
  <2> QED
    BY <1>1, <1>3, <1>6, <2>1 DEF KernelInv, TypeOK, kernel, transport, guards
<1>8. ConnectInv'
  <2>1. \A d \in Caller : /\ call'[d].pc # "idle" => d = c
                          /\ ~At(d, "guard")' /\ ~Guarded(d)'
    BY <1>6 DEF At, Guarded, Waiting
  <2>2. ASSUME NEW d \in Caller, call'[d].pc \in Connecting PROVE Quiet(d)'
    BY <1>6, <2>1, <2>2 DEF Quiet, At, Connecting
  <2>3. ~client' /\ kid' # 0
    BY <1>1, <1>2
  <2>4. recorded' = 0 \/ recorded' = kid'
    BY <1>1, <1>4 DEF KernelInv, ConnectInv
  <2>5. recorded' = kid' \/ unnamed'
    BY <1>1, <1>4
  <2>6. kernels' = lost' + (IF kid' = 0 THEN 0 ELSE 1)
    BY <1>1 DEF KernelInv, ConnectInv
  <2> QED
    BY <2>1, <2>2, <2>3, <2>4, <2>5, <2>6 DEF ConnectInv
<1> QED
  BY <1>6, <1>7, <1>8 DEF KernelInv

LEMMA ChannelsInv ==
  ASSUME KernelInv, NEW c \in Caller, Channels(c)
  PROVE  KernelInv'
<1>1. /\ call[c].pc = "channels" /\ call[c].pc \in Connecting
      /\ UNCHANGED <<kid, recorded, kernels, lost, unnamed, kernel, transport, consent, guards>>
  BY DEF Channels, At, Connecting, Forgotten
<1>2. ~client /\ kid # 0 /\ (recorded = kid \/ unnamed)
  <2>1. \A d \in Caller : ~At(d, "remember")
    BY <1>1, Alone DEF At
  <2> QED
    BY <1>1, <2>1 DEF KernelInv, ConnectInv
<1>3. calls' = calls /\ trouble' \in Nat
  BY DEF Channels, counters, Trouble, KernelInv, TypeOK
<1>4. PICK p \in {"guard", "connect", "leave"} :
        /\ Moves(c, p) /\ SameLook(c) /\ (p = "leave" => call'[c].verdict = "error")
        /\ \/ p = "guard" /\ client' = TRUE
           \/ p # "guard" /\ client' = client
  <2>1. CASE call' = [call EXCEPT ![c].pc = "guard", ![c].tries = 0, ![c].fresh = FALSE]
             /\ client' = TRUE
    <3>1. PICK d \in Calls : d = call[c]
      BY DEF KernelInv, TypeOK
    <3>2. PICK r : r = [d EXCEPT !.pc = "guard", !.tries = 0, !.fresh = FALSE]
      OBVIOUS
    <3>3. /\ r \in Calls /\ r.pc = "guard" /\ r.id = d.id /\ r.stdin = d.stdin
          /\ r.finite = d.finite /\ r.late = d.late /\ r.inTime = d.inTime
          /\ r.looked = d.looked /\ r.backlog = d.backlog /\ r.verdict = d.verdict
      <4>1. "guard" \in Place /\ 0 \in 0..2
        BY DEF Place
      <4> QED
        BY <3>2, <4>1 DEF Calls
    <3>4. call' = [call EXCEPT ![c] = r]
      BY <2>1, <3>1, <3>2 DEF KernelInv, TypeOK
    <3>5. Moves(c, "guard") /\ SameLook(c)
      BY <3>1, <3>3, <3>4, Updates DEF KernelInv, Moves, SameLook
    <3> QED
      BY <2>1, <3>5
  <2>2. CASE Retries(c) /\ client' = client
    BY <2>2, RetriesIs DEF KernelInv
  <2>3. CASE Ends(c, "error") /\ client' = client
    BY <2>3, EndsIs DEF KernelInv
  <2> QED
    BY <2>1, <2>2, <2>3 DEF Channels
<1>5. call'[c].verdict # "timeout"
  BY <1>1, <1>4, NoTimeout
<1>6. /\ call' \in [Caller -> Calls] /\ call'[c].pc = p
      /\ \A d \in Caller \ {c} : call'[d].pc = "idle"
      /\ GuardInv' /\ QuestionInv' /\ OrderInv' /\ TimeInv'
  BY <1>1, <1>3, <1>4, <1>5, ConnectStep
<1>7. TypeOK'
  <2>1. client' \in BOOLEAN
    BY <1>4 DEF KernelInv, TypeOK
  <2> QED
    BY <1>1, <1>3, <1>6, <2>1 DEF KernelInv, TypeOK, kernel, transport, guards
<1>8. ConnectInv'
  <2>1. \A d \in Caller : /\ call'[d].pc # "idle" => d = c
                          /\ ~Guarded(d)' /\ (At(d, "guard")' => p = "guard")
    BY <1>4, <1>6 DEF At, Guarded, Waiting
  <2>2. ASSUME NEW d \in Caller, call'[d].pc \in Connecting PROVE ~client' /\ Quiet(d)'
    <3>1. d = c /\ p # "guard"
      BY <1>6, <2>1, <2>2 DEF Connecting
    <3> QED
      BY <1>2, <1>4, <1>6, <3>1 DEF Quiet, At
  <2>3. kid' # 0 /\ (recorded' = kid' \/ unnamed') /\ (recorded' = 0 \/ recorded' = kid')
    BY <1>1, <1>2 DEF KernelInv, ConnectInv
  <2>4. kernels' = lost' + (IF kid' = 0 THEN 0 ELSE 1)
    BY <1>1 DEF KernelInv, ConnectInv
  <2> QED
    BY <1>4, <2>1, <2>2, <2>3, <2>4 DEF ConnectInv
<1> QED
  BY <1>6, <1>7, <1>8 DEF KernelInv

\* Without a call under way, a client that goes takes its messages with it.
LEMMA DisconnectedIs ==
  ASSUME KernelInv, NEW c \in Caller, At(c, "idle"), Quiet(c), Disconnected,
         UNCHANGED <<guards, call, counters>>,
         UNCHANGED kernel \/ (work' = <<>> /\ asking' = "no" /\ replies' = 0)
  PROVE  /\ \A d \in Caller : call'[d].pc = "idle" /\ call[d].pc = "idle"
         /\ work' \in Seq(Nat) /\ asking' \in {"no", "input", "drive"} /\ replies' \in Nat
         /\ wire' \in Seq(Message) /\ iopub' \in Seq(Message) /\ stdin' \in Seq(Message)
         /\ GuardInv' /\ QuestionInv' /\ OrderInv' /\ TimeInv'
<1>1. \A d \in Caller : call'[d].pc = "idle" /\ call[d].pc = "idle"
  BY DEF At, Quiet
<1>2. /\ wire' = <<>> /\ iopub' = <<>> /\ stdin' = <<>> /\ consent' = "none"
      /\ Len(stdin') = 0 /\ DOMAIN wire' = {}
  BY EmptySeq DEF Disconnected
<1>3. work' \in Seq(Nat) /\ asking' \in {"no", "input", "drive"} /\ replies' \in Nat
  <2>1. CASE UNCHANGED kernel
    BY <2>1 DEF KernelInv, TypeOK, kernel
  <2>2. CASE work' = <<>> /\ asking' = "no" /\ replies' = 0
    <3>1. <<>> \in Seq(Nat)
      BY EmptySeq
    <3> QED
      BY <2>2, <3>1
  <2> QED
    BY <2>1, <2>2
<1>4. wire' \in Seq(Message) /\ iopub' \in Seq(Message) /\ stdin' \in Seq(Message)
  BY <1>2, EmptySeq
<1>5. GuardInv'
  BY DEF KernelInv, GuardInv, guards, counters, Guarded, At
<1>6. QuestionInv'
  <2>1. ~OnWire' /\ ~Hooked'
    BY <1>1, <1>2 DEF OnWire, Hooked, At
  <2>2. replies' <= 1 /\ (asking' = "no" => replies' = 0) /\ (work' = <<>> => asking' = "no")
    BY DEF KernelInv, QuestionInv, kernel
  <2> QED
    BY <1>1, <1>2, <2>1, <2>2 DEF QuestionInv, OnWire, Hooked, At
<1>7. OrderInv'
  <2>1. \A n : ~In(<<"idle", n>>, wire') /\ ~In(<<"idle", n>>, iopub')
    BY <1>2, EmptyIn
  <2>2. \A n \in Nat : In(n, work') => n <= calls'
    BY EmptyIn DEF KernelInv, OrderInv, kernel, counters
  <2> QED
    BY <1>1, <2>1, <2>2 DEF OrderInv, Ended, Connecting, Waiting
<1>8. TimeInv'
  BY <1>1 DEF KernelInv, TimeInv, Timely, Waiting
<1> QED
  BY <1>1, <1>3, <1>4, <1>5, <1>6, <1>7, <1>8

LEMMA ResetInv ==
  ASSUME KernelInv, NEW c \in Caller, Reset(c)
  PROVE  KernelInv'
<1>1. /\ At(c, "idle") /\ Quiet(c) /\ Disconnected
      /\ UNCHANGED <<kid, recorded, kernels, lost, unnamed, kernel, guards, call, counters>>
  BY DEF Reset
<1>2. /\ \A d \in Caller : call'[d].pc = "idle" /\ call[d].pc = "idle"
      /\ work' \in Seq(Nat) /\ asking' \in {"no", "input", "drive"} /\ replies' \in Nat
      /\ wire' \in Seq(Message) /\ iopub' \in Seq(Message) /\ stdin' \in Seq(Message)
      /\ GuardInv' /\ QuestionInv' /\ OrderInv' /\ TimeInv'
  BY <1>1, DisconnectedIs
<1>3. TypeOK'
  BY <1>1, <1>2 DEF KernelInv, TypeOK, guards, counters, Disconnected
<1>4. ConnectInv'
  BY <1>1, <1>2 DEF KernelInv, ConnectInv, Disconnected, Connecting, Guarded, At, Waiting
<1> QED
  BY <1>2, <1>3, <1>4 DEF KernelInv

LEMMA ExitInv ==
  ASSUME KernelInv, NEW c \in Caller, Exit(c)
  PROVE  KernelInv'
<1>1. /\ At(c, "idle") /\ Quiet(c) /\ Disconnected /\ kid # 0 /\ kid' = recorded
      /\ UNCHANGED <<recorded, kernels, unnamed, guards, call, counters>>
      /\ UNCHANGED kernel \/ (work' = <<>> /\ asking' = "no" /\ replies' = 0)
      /\ lost' = (IF recorded = 0 THEN lost + 1 ELSE lost)
  BY DEF Exit
<1>2. /\ \A d \in Caller : call'[d].pc = "idle" /\ call[d].pc = "idle"
      /\ work' \in Seq(Nat) /\ asking' \in {"no", "input", "drive"} /\ replies' \in Nat
      /\ wire' \in Seq(Message) /\ iopub' \in Seq(Message) /\ stdin' \in Seq(Message)
      /\ GuardInv' /\ QuestionInv' /\ OrderInv' /\ TimeInv'
  BY <1>1, DisconnectedIs
<1>3. lost \in Nat /\ kernels \in Nat /\ kernels = lost + 1 /\ lost' \in Nat
  BY <1>1 DEF KernelInv, TypeOK, ConnectInv
<1>4. TypeOK'
  BY <1>1, <1>2, <1>3 DEF KernelInv, TypeOK, guards, counters, Disconnected
<1>5. ConnectInv'
  <2>1. kernels' = lost' + (IF kid' = 0 THEN 0 ELSE 1)
    BY <1>1, <1>3
  <2>2. ~client' /\ recorded' = kid'
    BY <1>1 DEF Disconnected
  <2> QED
    BY <1>2, <2>1, <2>2 DEF ConnectInv, Connecting, Guarded, At, Waiting
<1> QED
  BY <1>2, <1>4, <1>5 DEF KernelInv
-----------------------------------------------------------------------------
(* The websocket thread, the thread of the Drive consent, and the kernel *)

\* Without a step of a call the guard and the connection are as they were.
LEMMA CallsStay ==
  ASSUME KernelInv, UNCHANGED <<connection, guards, call, counters>>
  PROVE  GuardInv' /\ ConnectInv'
<1>1. GuardInv'
  BY DEF KernelInv, GuardInv, guards, counters, Guarded, At
<1>2. ConnectInv'
  BY DEF KernelInv, ConnectInv, connection, Guarded, At, Quiet
<1> QED
  BY <1>1, <1>2

LEMMA ReceiveInv ==
  ASSUME KernelInv, Receive
  PROVE  KernelInv'
<1>1. /\ wire # <<>> /\ wire' = Tail(wire)
      /\ UNCHANGED <<connection, kernel, event, guards, call, counters>>
  BY DEF Receive
<1>2. wire \in Seq(Message) /\ iopub \in Seq(Message) /\ stdin \in Seq(Message)
      /\ consent \in {"none", "asks"} /\ signalling \in BOOLEAN
  BY DEF KernelInv, TypeOK
<1>3. PICK m \in Message : m = Head(wire)
  BY <1>1, <1>2, TailIn
<1>4. /\ wire' \in Seq(Message) /\ In(m, wire) /\ m = wire[1] /\ 1 \in DOMAIN wire
      /\ Len(wire) \in Nat \ {0} /\ Len(wire') = Len(wire) - 1 /\ Len(wire') \in Nat
      /\ \A x : In(x, wire') => In(x, wire)
      /\ DOMAIN wire' = 1..Len(wire') /\ DOMAIN wire = 1..Len(wire)
      /\ \A i \in DOMAIN wire' : wire'[i] = wire[i + 1]
  <2>1. /\ Tail(wire) \in Seq(Message) /\ Len(Tail(wire)) = Len(wire) - 1
        /\ Head(wire) = wire[1]
        /\ \A i \in 1..Len(Tail(wire)) : Tail(wire)[i] = wire[i + 1]
    BY <1>1, <1>2, HeadTailProperties
  <2>2. Len(wire) \in Nat \ {0} /\ In(Head(wire), wire) /\ \A x : In(x, Tail(wire)) => In(x, wire)
    BY <1>1, <1>2, TailIn
  <2>3. DOMAIN wire = 1..Len(wire) /\ DOMAIN Tail(wire) = 1..Len(Tail(wire))
    BY <1>2, <2>1, LenProperties
  <2>4. Len(Tail(wire)) \in Nat /\ 1 \in 1..Len(wire)
    BY <2>1, <2>2
  <2> QED
    BY <1>1, <1>3, <2>1, <2>2, <2>3, <2>4
<1>5. \/ /\ m[1] = "drive" /\ consent' = "asks" /\ UNCHANGED <<iopub, stdin, signalling>>
      \/ /\ m[1] = "ask" /\ stdin' = Append(stdin, m) /\ signalling' = TRUE
         /\ UNCHANGED <<iopub, consent>>
      \/ /\ m[1] \notin {"drive", "ask"} /\ iopub' = Append(iopub, m) /\ signalling' = TRUE
         /\ UNCHANGED <<stdin, consent>>
  BY <1>3 DEF Receive
<1>6. /\ iopub' \in Seq(Message) /\ stdin' \in Seq(Message)
      /\ consent' \in {"none", "asks"} /\ signalling' \in BOOLEAN
  <2>1. Append(stdin, m) \in Seq(Message) /\ Append(iopub, m) \in Seq(Message)
    BY <1>2, AppendIn
  <2> QED
    BY <1>2, <1>5, <2>1
<1>7. \A x, n : /\ In(x, iopub) => In(x, iopub')
                /\ In(x, iopub') => In(x, iopub) \/ x = m
                /\ Among(x, iopub, n) => Among(x, iopub', n)
  <2>1. CASE iopub' = iopub
    BY <2>1
  <2>2. CASE iopub' = Append(iopub, m)
    <3>1. \A x, n : /\ In(x, Append(iopub, m)) <=> In(x, iopub) \/ x = m
                    /\ Among(x, iopub, n) => Among(x, Append(iopub, m), n)
      BY <1>2, AppendIn
    <3> QED
      BY <2>2, <3>1
  <2> QED
    BY <1>5, <2>1, <2>2
<1>8. \A n : Ended(n)' => Ended(n)
  <2> SUFFICES ASSUME NEW n, In(<<"idle", n>>, iopub') PROVE Ended(n)
    BY <1>4 DEF Ended
  <2>1. In(<<"idle", n>>, iopub) \/ <<"idle", n>> = m
    BY <1>7
  <2> QED
    BY <1>4, <2>1 DEF Ended
<1>9. TypeOK'
  BY <1>1, <1>4, <1>6 DEF KernelInv, TypeOK, connection, kernel, guards, counters
<1>10. GuardInv' /\ ConnectInv'
  BY <1>1, CallsStay
<1>11. QuestionInv'
  <2>1. UNCHANGED <<work, asking, replies, call>>
    BY <1>1 DEF kernel
  <2>2. Hooked' <=> Hooked
    BY <2>1 DEF Hooked, At
  <2>3. \A i \in DOMAIN wire' : Question(wire'[i]) => i = Len(wire') /\ OnWire
    <3> SUFFICES ASSUME NEW i \in DOMAIN wire', Question(wire'[i])
                 PROVE  i = Len(wire') /\ OnWire
      OBVIOUS
    <3>1. i + 1 \in DOMAIN wire /\ wire'[i] = wire[i + 1] /\ i \in Nat
      BY <1>4
    <3>2. Question(wire[i + 1])
      BY <3>1
    <3>3. i + 1 = Len(wire)
      BY <3>1, <3>2 DEF KernelInv, QuestionInv
    <3> QED
      BY <1>4, <3>1, <3>2, <3>3 DEF OnWire
  <2>4. OnWire' => OnWire
    BY <2>3 DEF OnWire
  <2>5. ASSUME m[1] \in {"drive", "ask"}
        PROVE  /\ ~OnWire' /\ stdin = <<>> /\ consent = "none" /\ ~Hooked /\ replies = 0
               /\ asking # "no"
    <3>1. Question(wire[1])
      BY <1>4, <2>5 DEF Question
    <3>2. OnWire /\ 1 = Len(wire)
      BY <1>4, <3>1 DEF KernelInv, QuestionInv, OnWire
    <3>3. DOMAIN wire' = {}
      <4>1. Len(wire') = 0
        <5>1. Len(wire') = Len(wire) - 1
          BY <1>4
        <5> QED
          BY <3>2, <5>1
      <4> QED
        BY <1>4, <4>1
    <3> QED
      BY <3>2, <3>3 DEF KernelInv, QuestionInv, OnWire
  <2>6. CASE m[1] = "drive"
    <3>1. /\ ~OnWire' /\ stdin' = <<>> /\ consent' = "asks" /\ ~Hooked' /\ replies' = 0
          /\ asking' # "no"
      BY <1>5, <2>1, <2>2, <2>5, <2>6
    <3>2. Len(stdin') = 0
      BY <3>1, EmptySeq
    <3>3. work' # <<>>
      BY <2>1, <3>1 DEF KernelInv, QuestionInv
    <3> QED
      BY <2>3, <3>1, <3>2, <3>3 DEF QuestionInv, Hooked
  <2>7. CASE m[1] = "ask"
    <3>1. /\ ~OnWire' /\ stdin = <<>> /\ consent' = "none" /\ ~Hooked' /\ replies' = 0
          /\ asking' # "no"
      BY <1>5, <2>1, <2>2, <2>5, <2>7
    <3>2. Len(stdin') = 1
      <4>1. Len(stdin) = 0
        BY <3>1, EmptySeq
      <4>2. stdin' = Append(stdin, m)
        BY <1>5, <2>7
      <4> QED
        BY <1>2, <4>1, <4>2, AppendIn
    <3>3. work' # <<>>
      BY <2>1, <3>1 DEF KernelInv, QuestionInv
    <3> QED
      BY <2>3, <3>1, <3>2, <3>3 DEF QuestionInv, Hooked
  <2>8. CASE m[1] \notin {"drive", "ask"}
    <3>1. stdin' = stdin /\ consent' = consent
      BY <1>5, <2>8
    <3>2. \A d, e \in Caller : At(d, "hook")' /\ At(e, "hook")' => d = e
      BY <2>1 DEF KernelInv, QuestionInv, At
    <3> QED
      BY <2>1, <2>2, <2>3, <2>4, <3>1, <3>2 DEF KernelInv, QuestionInv
  <2> QED
    BY <2>6, <2>7, <2>8
<1>12. OrderInv'
  <2>1. UNCHANGED <<work, calls, call>>
    BY <1>1 DEF kernel, counters
  <2>2. \A n : Ended(n)' => Ended(n)
    BY <1>8
  <2> QED
    BY <2>1, <2>2 DEF KernelInv, OrderInv
<1>13. TimeInv'
  <2> SUFFICES ASSUME NEW d \in Caller PROVE Timely(call[d], iopub')
    BY <1>1 DEF TimeInv
  <2>1. Timely(call[d], iopub)
    BY DEF KernelInv, TimeInv
  <2> QED
    BY <1>7, <2>1 DEF Timely
<1> QED
  BY <1>9, <1>10, <1>11, <1>12, <1>13 DEF KernelInv

LEMMA SignalInv ==
  ASSUME KernelInv, Signal
  PROVE  KernelInv'
<1>1. /\ UNCHANGED <<connection, kernel, wire, iopub, stdin, consent, guards, call, counters>>
      /\ event' \in BOOLEAN /\ signalling' \in BOOLEAN
  BY DEF Signal
<1>2. TypeOK'
  BY <1>1 DEF KernelInv, TypeOK, connection, kernel, guards, counters
<1>3. GuardInv' /\ ConnectInv'
  BY <1>1, CallsStay
<1>4. QuestionInv'
  BY <1>1 DEF KernelInv, QuestionInv, OnWire, Hooked, At, kernel
<1>5. OrderInv'
  BY <1>1 DEF KernelInv, OrderInv, Ended, kernel, counters
<1>6. TimeInv'
  BY <1>1 DEF KernelInv, TimeInv
<1> QED
  BY <1>2, <1>3, <1>4, <1>5, <1>6 DEF KernelInv

LEMMA ConsentInv ==
  ASSUME KernelInv, Consent
  PROVE  KernelInv'
<1>1. /\ consent = "asks" /\ consent' = "none" /\ trouble' \in Nat
      /\ UNCHANGED <<connection, work, asking, transport, guards, call, calls>>
  BY DEF Consent, counters, Trouble, KernelInv, TypeOK
<1>2. /\ ~OnWire /\ stdin = <<>> /\ ~Hooked /\ replies = 0 /\ asking # "no" /\ work # <<>>
  BY <1>1 DEF KernelInv, QuestionInv
<1>3. replies' \in {0, 1}
  BY <1>2 DEF Consent, Answered
<1>4. TypeOK'
  BY <1>1, <1>3 DEF KernelInv, TypeOK, connection, transport, guards
<1>5. GuardInv'
  BY <1>1 DEF KernelInv, GuardInv, guards, Guarded, At
<1>6. ConnectInv'
  BY <1>1 DEF KernelInv, ConnectInv, connection, Guarded, At, Quiet
<1>7. QuestionInv'
  <2>1. ~OnWire' /\ stdin' = <<>> /\ ~Hooked' /\ asking' # "no" /\ work' # <<>> /\ Len(stdin') = 0
    BY <1>1, <1>2, EmptySeq DEF OnWire, Hooked, At, transport
  <2> QED
    BY <1>1, <1>3, <2>1 DEF QuestionInv, OnWire, Hooked
<1>8. OrderInv'
  BY <1>1 DEF KernelInv, OrderInv, Ended, transport
<1>9. TimeInv'
  BY <1>1 DEF KernelInv, TimeInv, transport
<1> QED
  BY <1>4, <1>5, <1>6, <1>7, <1>8, <1>9 DEF KernelInv

\* A message the kernel sends is the last on the wire, if there is a client.
LEMMA SendsIs ==
  ASSUME KernelInv, NEW kind \in {"out", "ask", "drive", "idle"}, work # <<>>, Sends(kind)
  PROVE  /\ Head(work) \in Nat /\ In(Head(work), work)
         /\ wire' \in Seq(Message)
         /\ \A i \in DOMAIN wire' :
              \/ i \in DOMAIN wire /\ wire'[i] = wire[i]
              \/ i = Len(wire') /\ wire'[i] = <<kind, Head(work)>>
         /\ \A n : In(<<"idle", n>>, wire') =>
              In(<<"idle", n>>, wire) \/ (kind = "idle" /\ n = Head(work))
         /\ UNCHANGED <<connection, replies, iopub, stdin, event, signalling, consent, guards,
                        call, counters>>
         /\ GuardInv' /\ ConnectInv' /\ TimeInv'
<1>1. UNCHANGED <<connection, replies, iopub, stdin, event, signalling, consent, guards, call,
                  counters>>
  BY DEF Sends
<1>2. GuardInv' /\ ConnectInv'
  BY <1>1, CallsStay
<1>3. TimeInv'
  BY <1>1 DEF KernelInv, TimeInv
<1>4. wire \in Seq(Message) /\ work \in Seq(Nat)
  BY DEF KernelInv, TypeOK
<1>5. Head(work) \in Nat /\ In(Head(work), work)
  BY <1>4, TailIn
<1>6. PICK m \in Message : m = <<kind, Head(work)>>
  BY <1>5 DEF Message
<1>7. wire' = wire \/ wire' = Append(wire, m)
  BY <1>6 DEF Sends
<1>8. /\ Append(wire, m) \in Seq(Message)
      /\ \A x : In(x, Append(wire, m)) => In(x, wire) \/ x = m
      /\ \A i \in DOMAIN Append(wire, m) :
           \/ i \in DOMAIN wire /\ Append(wire, m)[i] = wire[i]
           \/ i = Len(Append(wire, m)) /\ Append(wire, m)[i] = m
  <2>1. /\ Append(wire, m) \in Seq(Message) /\ Len(Append(wire, m)) = Len(wire) + 1
        /\ \A i \in 1..Len(wire) : Append(wire, m)[i] = wire[i]
        /\ Append(wire, m)[Len(wire) + 1] = m
    BY <1>4, AppendProperties
  <2>2. DOMAIN wire = 1..Len(wire) /\ DOMAIN Append(wire, m) = 1..(Len(wire) + 1)
        /\ Len(wire) \in Nat
    BY <1>4, <2>1, LenProperties
  <2>3. \A x : In(x, Append(wire, m)) => In(x, wire) \/ x = m
    BY <1>4, AppendIn
  <2>4. ASSUME NEW i \in 1..(Len(wire) + 1)
        PROVE  i \in 1..Len(wire) \/ i = Len(wire) + 1
    BY <2>2
  <2> QED
    BY <2>1, <2>2, <2>3, <2>4
<1>9. /\ wire' \in Seq(Message)
      /\ \A x : In(x, wire') => In(x, wire) \/ x = m
      /\ \A i \in DOMAIN wire' :
           \/ i \in DOMAIN wire /\ wire'[i] = wire[i]
           \/ i = Len(wire') /\ wire'[i] = m
  <2>1. CASE wire' = wire
    BY <1>4, <2>1
  <2>2. CASE wire' = Append(wire, m)
    BY <1>8, <2>2
  <2> QED
    BY <1>7, <2>1, <2>2
<1>10. \A n : <<"idle", n>> = m => kind = "idle" /\ n = Head(work)
  BY <1>6
<1> QED
  BY <1>1, <1>2, <1>3, <1>5, <1>6, <1>9, <1>10

LEMMA KernelPrintsInv ==
  ASSUME KernelInv, KernelPrints
  PROVE  KernelInv'
<1>1. work # <<>> /\ asking = "no" /\ Sends("out") /\ UNCHANGED <<work, asking>>
  BY DEF KernelPrints
<1>2. /\ wire' \in Seq(Message)
      /\ \A i \in DOMAIN wire' :
           \/ i \in DOMAIN wire /\ wire'[i] = wire[i]
           \/ i = Len(wire') /\ wire'[i] = <<"out", Head(work)>>
      /\ \A n : In(<<"idle", n>>, wire') => In(<<"idle", n>>, wire)
      /\ UNCHANGED <<connection, replies, iopub, stdin, event, signalling, consent, guards,
                     call, counters>>
      /\ GuardInv' /\ ConnectInv' /\ TimeInv'
  BY <1>1, SendsIs
<1>3. TypeOK'
  BY <1>1, <1>2 DEF KernelInv, TypeOK, connection, guards, counters
<1>4. QuestionInv'
  <2>1. ~OnWire /\ stdin = <<>> /\ consent = "none" /\ ~Hooked /\ replies = 0
    BY <1>1 DEF KernelInv, QuestionInv
  <2>2. \A i \in DOMAIN wire' : ~Question(wire'[i])
    BY <1>2, <2>1 DEF OnWire, Question
  <2>3. ~Hooked' /\ Len(stdin') = 0
    BY <1>2, <2>1, EmptySeq DEF Hooked, At
  <2> QED
    BY <1>1, <1>2, <2>1, <2>2, <2>3 DEF QuestionInv, OnWire, Hooked
<1>5. OrderInv'
  <2>1. \A n : Ended(n)' => Ended(n)
    BY <1>2 DEF Ended
  <2>2. UNCHANGED <<work, calls, call>>
    BY <1>1, <1>2 DEF counters
  <2> QED
    BY <2>1, <2>2 DEF KernelInv, OrderInv
<1> QED
  BY <1>2, <1>3, <1>4, <1>5 DEF KernelInv

LEMMA KernelAsksInv ==
  ASSUME KernelInv, KernelAsks
  PROVE  KernelInv'
<1>1. PICK kind \in {"ask", "drive"} :
        /\ work # <<>> /\ asking = "no" /\ work' = work /\ asking' \in {"input", "drive"}
        /\ Sends(kind)
  BY DEF KernelAsks
<1>2. /\ wire' \in Seq(Message)
      /\ \A i \in DOMAIN wire' :
           \/ i \in DOMAIN wire /\ wire'[i] = wire[i]
           \/ i = Len(wire') /\ wire'[i] = <<kind, Head(work)>>
      /\ \A n : In(<<"idle", n>>, wire') => In(<<"idle", n>>, wire)
      /\ UNCHANGED <<connection, replies, iopub, stdin, event, signalling, consent, guards,
                     call, counters>>
      /\ GuardInv' /\ ConnectInv' /\ TimeInv'
  BY <1>1, SendsIs
<1>3. TypeOK'
  BY <1>1, <1>2 DEF KernelInv, TypeOK, connection, guards, counters
<1>4. QuestionInv'
  <2>1. ~OnWire /\ stdin = <<>> /\ consent = "none" /\ ~Hooked /\ replies = 0
    BY <1>1 DEF KernelInv, QuestionInv
  <2>2. \A i \in DOMAIN wire' : Question(wire'[i]) => i = Len(wire')
    BY <1>2, <2>1 DEF OnWire
  <2>3. ~Hooked' /\ Len(stdin') = 0
    BY <1>2, <2>1, EmptySeq DEF Hooked, At
  <2> QED
    BY <1>1, <1>2, <2>1, <2>2, <2>3 DEF QuestionInv, Hooked
<1>5. OrderInv'
  <2>1. \A n : Ended(n)' => Ended(n)
    BY <1>2 DEF Ended
  <2>2. UNCHANGED <<work, calls, call>>
    BY <1>1, <1>2 DEF counters
  <2> QED
    BY <2>1, <2>2 DEF KernelInv, OrderInv
<1> QED
  BY <1>2, <1>3, <1>4, <1>5 DEF KernelInv

LEMMA KernelEndsInv ==
  ASSUME KernelInv, KernelEnds
  PROVE  KernelInv'
<1>1. work # <<>> /\ asking = "no" /\ work' = Tail(work) /\ Sends("idle") /\ asking' = asking
  BY DEF KernelEnds
<1>2. /\ Head(work) \in Nat /\ In(Head(work), work)
      /\ wire' \in Seq(Message)
      /\ \A i \in DOMAIN wire' :
           \/ i \in DOMAIN wire /\ wire'[i] = wire[i]
           \/ i = Len(wire') /\ wire'[i] = <<"idle", Head(work)>>
      /\ \A n : In(<<"idle", n>>, wire') => In(<<"idle", n>>, wire) \/ n = Head(work)
      /\ UNCHANGED <<connection, replies, iopub, stdin, event, signalling, consent, guards,
                     call, counters>>
      /\ GuardInv' /\ ConnectInv' /\ TimeInv'
  BY <1>1, SendsIs
<1>3. /\ work' \in Seq(Nat) /\ Head(work) = work[1] /\ 1 \in DOMAIN work
      /\ Len(work) \in Nat \ {0} /\ Len(work') = Len(work) - 1
      /\ DOMAIN work' = 1..Len(work') /\ DOMAIN work = 1..Len(work)
      /\ \A i \in DOMAIN work' : work'[i] = work[i + 1]
      /\ \A m : In(m, work') => In(m, work)
  <2>1. work \in Seq(Nat)
    BY DEF KernelInv, TypeOK
  <2>2. /\ Tail(work) \in Seq(Nat) /\ Len(Tail(work)) = Len(work) - 1
        /\ Head(work) = work[1]
        /\ \A i \in 1..Len(Tail(work)) : Tail(work)[i] = work[i + 1]
    BY <1>1, <2>1, HeadTailProperties
  <2>3. Len(work) \in Nat \ {0} /\ \A x : In(x, Tail(work)) => In(x, work)
    BY <1>1, <2>1, TailIn
  <2>4. DOMAIN work = 1..Len(work) /\ DOMAIN Tail(work) = 1..Len(Tail(work))
    BY <2>1, <2>2, LenProperties
  <2>5. 1 \in 1..Len(work)
    BY <2>3
  <2> QED
    BY <1>1, <2>2, <2>3, <2>4, <2>5
<1>4. TypeOK'
  BY <1>1, <1>2, <1>3 DEF KernelInv, TypeOK, connection, guards, counters
<1>5. QuestionInv'
  <2>1. ~OnWire /\ stdin = <<>> /\ consent = "none" /\ ~Hooked /\ replies = 0
    BY <1>1 DEF KernelInv, QuestionInv
  <2>2. \A i \in DOMAIN wire' : ~Question(wire'[i])
    BY <1>2, <2>1 DEF OnWire, Question
  <2>3. ~Hooked' /\ Len(stdin') = 0
    BY <1>2, <2>1, EmptySeq DEF Hooked, At
  <2> QED
    BY <1>1, <1>2, <2>1, <2>2, <2>3 DEF QuestionInv, OnWire, Hooked
<1>6. OrderInv'
  <2>1. iopub' = iopub /\ calls' = calls /\ call' = call
    BY <1>2 DEF counters
  <2>2. \A n : In(<<"idle", n>>, wire') \/ In(<<"idle", n>>, iopub') => Ended(n) \/ n = Head(work)
    BY <1>2, <2>1 DEF Ended
  <2>3. \A n \in Nat : Ended(n)' \/ In(n, work') => n <= calls'
    BY <1>2, <1>3, <2>1, <2>2 DEF KernelInv, OrderInv, Ended
  <2>4. ASSUME NEW c \in Caller, call[c].pc \in {"guard", "send"} \cup Connecting
        PROVE  /\ ~In(<<"idle", call[c].id>>, wire') /\ ~In(<<"idle", call[c].id>>, iopub')
               /\ ~In(call[c].id, work')
    <3>1. ~Ended(call[c].id) /\ ~In(call[c].id, work)
      BY <2>4 DEF KernelInv, OrderInv
    <3> QED
      BY <1>2, <1>3, <2>2, <3>1
  <2>5. ASSUME NEW c \in Caller, call[c].pc \in Waiting
        PROVE  /\ \A i \in DOMAIN work' : work'[i] = call[c].id => i = Len(work')
               /\ In(<<"idle", call[c].id>>, wire') \/ In(<<"idle", call[c].id>>, iopub')
                    => work' = <<>>
    <3>1. /\ \A i \in DOMAIN work : work[i] = call[c].id => i = Len(work)
          /\ ~Ended(call[c].id)
      BY <1>1, <2>5 DEF KernelInv, OrderInv
    <3>2. ASSUME NEW i \in DOMAIN work', work'[i] = call[c].id PROVE i = Len(work')
      <4>1. i + 1 \in DOMAIN work /\ work[i + 1] = call[c].id /\ i \in Nat
        BY <1>3, <3>2
      <4>2. i + 1 = Len(work)
        BY <3>1, <4>1
      <4> QED
        BY <1>3, <4>1, <4>2
    <3>3. ASSUME In(<<"idle", call[c].id>>, wire') \/ In(<<"idle", call[c].id>>, iopub')
          PROVE  work' = <<>>
      <4>1. call[c].id = work[1]
        BY <1>3, <2>2, <3>1, <3>3
      <4>2. 1 = Len(work)
        BY <1>3, <3>1, <4>1
      <4>3. Len(work') = 0
        <5>1. Len(work') = Len(work) - 1
          BY <1>3
        <5> QED
          BY <4>2, <5>1
      <4> QED
        BY <1>3, <4>3, EmptySeq
    <3> QED
      BY <3>2, <3>3
  <2> QED
    BY <2>1, <2>3, <2>4, <2>5 DEF OrderInv, Ended
<1> QED
  BY <1>2, <1>4, <1>5, <1>6 DEF KernelInv

LEMMA KernelReadsInv ==
  ASSUME KernelInv, KernelReads
  PROVE  KernelInv'
<1>1. /\ replies > 0 /\ replies' = replies - 1 /\ asking' = "no"
      /\ UNCHANGED <<connection, work, transport, consent, guards, call, counters>>
  BY DEF KernelReads
<1>2. replies = 1 /\ replies' = 0
  <2>1. replies \in Nat /\ replies <= 1
    BY DEF KernelInv, TypeOK, QuestionInv
  <2> QED
    BY <1>1, <2>1
<1>3. ~OnWire /\ stdin = <<>> /\ consent = "none" /\ ~Hooked
  BY <1>2 DEF KernelInv, QuestionInv, TypeOK
<1>4. TypeOK'
  BY <1>1, <1>2 DEF KernelInv, TypeOK, connection, transport, guards, counters
<1>5. GuardInv' /\ ConnectInv'
  BY <1>1, CallsStay
<1>6. QuestionInv'
  <2>1. ~OnWire' /\ stdin' = <<>> /\ consent' = "none" /\ ~Hooked' /\ Len(stdin') = 0
    BY <1>1, <1>3, EmptySeq DEF OnWire, Hooked, At, transport
  <2> QED
    BY <1>1, <1>2, <2>1 DEF QuestionInv, OnWire, Hooked
<1>7. OrderInv'
  BY <1>1 DEF KernelInv, OrderInv, Ended, transport, counters
<1>8. TimeInv'
  BY <1>1 DEF KernelInv, TimeInv, transport
<1> QED
  BY <1>4, <1>5, <1>6, <1>7, <1>8 DEF KernelInv
-----------------------------------------------------------------------------
(* The theorems *)

LEMMA NextInv == KernelInv /\ [Next]_vars => KernelInv'
<1> SUFFICES ASSUME KernelInv, [Next]_vars PROVE KernelInv'
  OBVIOUS
<1>1. ASSUME NEW c \in Caller, Works(c) PROVE KernelInv'
  BY <1>1, ConnectActionInv, RememberInv, ChannelsInv, InstallInv, LeaveInv, SendInv, WaitInv,
     BlockInv, ExpiredInv, ClearInv, TakeInv DEF Works
<1>2. ASSUME NEW c \in Caller, Call(c) \/ Hook(c) \/ Deadline(c) \/ Reset(c) \/ Exit(c)
      PROVE  KernelInv'
  BY <1>2, CallInv, HookInv, DeadlineInv, ResetInv, ExitInv
<1>3. CASE Receive \/ Signal \/ Consent
  BY <1>3, ReceiveInv, SignalInv, ConsentInv
<1>4. CASE Kernel
  BY <1>4, KernelPrintsInv, KernelAsksInv, KernelEndsInv, KernelReadsInv DEF Kernel
<1>5. CASE UNCHANGED vars
  <2>1. /\ UNCHANGED <<connection, kernel, transport, consent, guards, call, counters>>
        /\ UNCHANGED <<work, asking, replies, wire, iopub, stdin>>
    BY <1>5 DEF vars, kernel, transport
  <2>2. TypeOK'
    BY <2>1 DEF KernelInv, TypeOK, connection, kernel, transport, guards, counters
  <2>3. GuardInv' /\ ConnectInv'
    BY <2>1, CallsStay
  <2>4. QuestionInv'
    BY <2>1 DEF KernelInv, QuestionInv, OnWire, Hooked, At
  <2>5. OrderInv'
    BY <2>1 DEF KernelInv, OrderInv, Ended, counters
  <2>6. TimeInv'
    BY <2>1 DEF KernelInv, TimeInv
  <2> QED
    BY <2>2, <2>3, <2>4, <2>5, <2>6 DEF KernelInv
<1> QED
  BY <1>1, <1>2, <1>3, <1>4, <1>5 DEF Next

\* Types, guards, connections, questions, the order of ends and the backlog of a
\* call fit together for any threads, calls, messages and failures.
THEOREM Invariance == Spec => []KernelInv
<1> QED
  BY InitInv, NextInv, PTL DEF Spec

\* A call that waits has its own guard, and without a call there is none,
\* whatever other threads start or end meanwhile.
THEOREM Guard == Spec => []GuardIsOwn
<1>1. KernelInv => GuardIsOwn
  <2> SUFFICES ASSUME KernelInv PROVE GuardIsOwn
    OBVIOUS
  <2>1. \A c \in Caller : Loops(c) => proxy = call[c].id
    BY DEF KernelInv, GuardInv, Loops, Guarded, Waiting
  <2>2. ASSUME \A c \in Caller : At(c, "idle") PROVE proxy = 0 /\ lock = 0
    <3>1. \A c \in Caller : ~Guarded(c) /\ ~At(c, "leave")
      BY <2>2 DEF At, Guarded, Waiting
    <3> QED
      BY <3>1 DEF KernelInv, GuardInv
  <2> QED
    BY <2>1, <2>2 DEF GuardIsOwn
<1> QED
  BY <1>1, Invariance, PTL

\* A call whose end was queued before its deadline does not time out, however
\* many messages were queued before it.
THEOREM InTime == Spec => []InTimeIsNoTimeout
<1>1. KernelInv => InTimeIsNoTimeout
  BY DEF KernelInv, TimeInv, Timely, InTimeIsNoTimeout
<1> QED
  BY <1>1, Invariance, PTL

\* Of the ways in which a question is answered, by a hook, by the thread of the
\* Drive consent and by its error path, one answer comes to the kernel.
THEOREM OneAnswer == Spec => []OneReply
<1>1. KernelInv => OneReply
  BY DEF KernelInv, QuestionInv, OneReply
<1> QED
  BY <1>1, Invariance, PTL

\* Tries, failures, resets and later commands use one kernel, the recorded one,
\* unless the answer to its creation was lost or the record not written.
THEOREM Named == Spec => []KernelIsNamed
<1>1. KernelInv => KernelIsNamed
  <2> SUFFICES ASSUME KernelInv PROVE KernelIsNamed
    OBVIOUS
  <2>1. kernels = lost + (IF kid = 0 THEN 0 ELSE 1)
    BY DEF KernelInv, ConnectInv
  <2>2. ASSUME client PROVE kid # 0 /\ (recorded = kid \/ unnamed)
    <3>1. \A c \in Caller : ~At(c, "remember")
      BY <2>2 DEF KernelInv, ConnectInv, At, Connecting
    <3> QED
      BY <2>2, <3>1 DEF KernelInv, ConnectInv
  <2> QED
    BY <2>1, <2>2 DEF KernelIsNamed
<1> QED
  BY <1>1, Invariance, PTL
=============================================================================
