----------------------------- MODULE KernelExec -----------------------------
(***************************************************************************)
(* Code executed on a kernel (runtime.py, _jupyter_compat.py, the Drive    *)
(* consent of commands/automation.py).                                     *)
(*                                                                         *)
(* A call connects with up to three tries, remembers the kernel it got,    *)
(* sends its code and reads messages until the kernel is idle or its       *)
(* deadline passes.  The websocket thread queues a message first and sets  *)
(* the event after it; the loop of the library clears the event and takes  *)
(* one message.  The library's own wait is replaced, for the time of the   *)
(* call, by one that looks at the queues.  Threads may share one client.   *)
(*                                                                         *)
(* The kernel runs one request after the other, prints without end, asks   *)
(* for input, or falls silent.  Not modelled: what messages contain, the   *)
(* reply on the shell channel that follows idle, restart.                  *)
(***************************************************************************)
EXTENDS Naturals, Sequences

CONSTANTS
  Caller,       \* the threads that execute code
  MaxCalls,     \* bound: calls ever made
  MaxWire,      \* bound: messages on the websocket
  MaxQueue,     \* bound: messages in a queue of the client
  MaxTrouble    \* bound: lost answers, failing callbacks, hooks and sends

ASSUME KernelAssumption == {MaxCalls, MaxWire, MaxQueue, MaxTrouble} \subseteq Nat

VARIABLES
  client,      \* whether the runtime has a connected client
  kid,         \* the kernel the runtime knows, 0 for none
  recorded,    \* the kernel id of the session record
  kernels,     \* kernels ever created
  lost,        \* kernels nobody has the id of
  unnamed,     \* whether the callback that records the kernel failed
  work,        \* calls the kernel has to run, the first is running
  asking,      \* what it waits for: "no", "input" or "drive"
  replies,     \* input replies on their way to it
  wire,        \* messages on their way to the client
  iopub, stdin,\* the queues of the client
  event,       \* _message_received
  signalling,  \* whether the websocket thread is about to set it
  consent,     \* the thread that obtains the Drive consent
  proxy,       \* the call whose guard is installed, 0 for none
  lock,        \* the holder of the guard lock, 0 for none
  call,        \* call[c]: what caller c does
  calls, trouble

connection == <<client, kid, recorded, kernels, lost, unnamed>>
kernel     == <<work, asking, replies>>
transport  == <<wire, iopub, stdin, event, signalling>>
guards     == <<proxy, lock>>
counters   == <<calls, trouble>>
vars == <<connection, kernel, transport, consent, guards, call, counters>>

Idle == [pc |-> "idle", id |-> 0, stdin |-> FALSE, finite |-> FALSE, tries |-> 0,
         fresh |-> FALSE, late |-> FALSE, looked |-> FALSE, backlog |-> 0,
         inTime |-> FALSE, verdict |-> "none"]

Init ==
  /\ client = FALSE /\ kid = 0 /\ recorded = 0 /\ kernels = 0 /\ lost = 0 /\ unnamed = FALSE
  /\ work = <<>> /\ asking = "no" /\ replies = 0
  /\ wire = <<>> /\ iopub = <<>> /\ stdin = <<>> /\ event = FALSE /\ signalling = FALSE
  /\ consent = "none" /\ proxy = 0 /\ lock = 0
  /\ call = [c \in Caller |-> Idle]
  /\ calls = 0 /\ trouble = 0

At(c, pc)   == call[c].pc = pc
Goto(c, pc) == call' = [call EXCEPT ![c].pc = pc]
Ends(c, verdict) == call' = [call EXCEPT ![c].pc = "leave", ![c].verdict = verdict]
Trouble == trouble < MaxTrouble /\ trouble' = trouble + 1 /\ UNCHANGED calls
Quiet(c) == \A d \in Caller \ {c} : At(d, "idle")
-----------------------------------------------------------------------------
(* Calls and connections *)

\* The client is opened by the first call, before others share it.
Call(c) ==
  /\ At(c, "idle") /\ calls < MaxCalls /\ calls' = calls + 1
  /\ client \/ Quiet(c)
  /\ \E allow, finite \in BOOLEAN :
       call' = [call EXCEPT ![c] = [Idle EXCEPT
         !.pc = IF client THEN "guard" ELSE "connect",
         !.id = calls + 1, !.stdin = allow, !.finite = finite]]
  /\ UNCHANGED <<connection, kernel, transport, consent, guards, trouble>>

\* A timeout or a refused connection: once more, or the error is raised.
Retries(c) ==
  IF call[c].tries < 2
  THEN call' = [call EXCEPT ![c].pc = "connect", ![c].tries = @ + 1]
  ELSE call' = [call EXCEPT ![c].pc = "leave", ![c].verdict = "error"]

\* start(): a kernel is created when none is known; the answer may be lost.
Connect(c) ==
  /\ At(c, "connect")
  /\ \/ /\ kid = 0 /\ kernels' = kernels + 1
        /\ \/ /\ kid' = kernels + 1
              /\ call' = [call EXCEPT ![c].pc = "remember", ![c].fresh = TRUE]
              /\ UNCHANGED <<lost, counters>>
           \/ Trouble /\ lost' = lost + 1 /\ Retries(c) /\ UNCHANGED kid
     \/ kid # 0 /\ Goto(c, "channels") /\ UNCHANGED <<kid, kernels, lost, counters>>
     \/ /\ \/ Retries(c) /\ UNCHANGED counters
           \/ Ends(c, "error") /\ Trouble
        /\ UNCHANGED <<kid, kernels, lost>>
  /\ UNCHANGED <<client, recorded, unnamed, kernel, transport, consent, guards>>

\* _remember_kernel_id: the callback runs for a fresh kernel, and once.
Remember(c) ==
  /\ At(c, "remember")
  /\ \/ recorded' = kid /\ Goto(c, "channels") /\ UNCHANGED <<unnamed, counters>>
     \/ unnamed' = TRUE /\ Trouble /\ Ends(c, "error") /\ UNCHANGED recorded
  /\ UNCHANGED <<client, kid, kernels, lost, kernel, transport, consent, guards>>

\* Mutant of Forgotten: the id of a kernel whose channels are not ready is not kept.
ForgottenWithClient(c) ==
  /\ kid' = IF call[c].fresh THEN 0 ELSE kid
  /\ recorded' = IF call[c].fresh THEN 0 ELSE recorded

\* What is forgotten with a client that is discarded: nothing.
Forgotten(c) == UNCHANGED <<kid, recorded>>

\* The candidate becomes the client only when its channels run; the callback for
\* the session id may raise, and the client is discarded.
Channels(c) ==
  /\ At(c, "channels")
  /\ \/ /\ client' = TRUE
        /\ call' = [call EXCEPT ![c].pc = "guard", ![c].tries = 0, ![c].fresh = FALSE]
        /\ UNCHANGED <<kid, recorded, counters>>
     \/ Trouble /\ Retries(c) /\ Forgotten(c) /\ UNCHANGED client
     \/ Trouble /\ Ends(c, "error") /\ UNCHANGED <<client, kid, recorded>>
  /\ UNCHANGED <<kernels, lost, unnamed, kernel, transport, consent, guards>>

\* The queues go with the client, and with the messages in them.
Disconnected ==
  /\ client' = FALSE /\ wire' = <<>> /\ iopub' = <<>> /\ stdin' = <<>>
  /\ event' = FALSE /\ signalling' = FALSE /\ consent' = "none"

\* reset_connection of a control call that failed.
Reset(c) ==
  /\ client /\ At(c, "idle") /\ Quiet(c) /\ Disconnected
  /\ UNCHANGED <<kid, recorded, kernels, lost, unnamed, kernel, guards, call, counters>>

\* stop, and the next command, which knows what the record says.
Exit(c) ==
  /\ At(c, "idle") /\ Quiet(c) /\ kid # 0 /\ Disconnected
  /\ kid' = recorded
  /\ IF recorded = 0
     THEN lost' = lost + 1 /\ work' = <<>> /\ asking' = "no" /\ replies' = 0
     ELSE UNCHANGED <<lost, kernel>>
  /\ UNCHANGED <<recorded, kernels, unnamed, guards, call, counters>>
-----------------------------------------------------------------------------
(* The guard *)

\* Mutant of Locks: the event is replaced without the lock of the client.
LocksNothing(c) == UNCHANGED lock

Locks(c) == lock = 0 /\ lock' = call[c].id

\* An event that is guarded already is left alone.
Install(c) ==
  /\ At(c, "guard") /\ Locks(c)
  /\ proxy' = IF proxy = 0 THEN call[c].id ELSE proxy
  /\ Goto(c, "send")
  /\ UNCHANGED <<connection, kernel, transport, consent, counters>>

\* The finally clause restores the event, and the lock is released.
Leave(c) ==
  /\ At(c, "leave")
  /\ proxy' = IF proxy = call[c].id THEN 0 ELSE proxy
  /\ lock'  = IF lock = call[c].id THEN 0 ELSE lock
  /\ call' = [call EXCEPT ![c] = Idle]
  /\ UNCHANGED <<connection, kernel, transport, consent, counters>>

Send(c) ==
  /\ At(c, "send")
  /\ \/ work' = Append(work, call[c].id) /\ Goto(c, "wait") /\ UNCHANGED counters
     \/ Trouble /\ Ends(c, "error") /\ UNCHANGED work
  /\ UNCHANGED <<connection, asking, replies, transport, consent, guards>>
-----------------------------------------------------------------------------
(* _DeadlineAwareMessageEvent.wait *)

\* Mutant of Ready: the library's wait looks at the event only.
ReadyIfSet(c) == FALSE

Ready(c) == iopub # <<>> \/ (call[c].stdin /\ stdin # <<>>)

\* A message that is about to be queued counts as one.
Backlog(c) ==
  LET queued == Len(iopub) + (IF call[c].stdin THEN Len(stdin) ELSE 0) IN
    IF queued = 0 /\ event THEN 1 ELSE queued

\* Mutant of Allowed: one message.
AllowedOne(c) == IF call[c].looked THEN call[c].backlog ELSE 1

\* How many messages may be read after the deadline: those of its first look.
Allowed(c) == IF call[c].looked THEN call[c].backlog ELSE Backlog(c)

\* _consume_deadline_backlog, or TimeoutError.
Drain(c) ==
  IF Allowed(c) > 0 /\ (event \/ Ready(c))
  THEN call' = [call EXCEPT ![c].pc = "clear", ![c].looked = TRUE, ![c].backlog = Allowed(c) - 1]
  ELSE Ends(c, "timeout")

Wait(c) ==
  /\ At(c, "wait")
  /\ IF call[c].late THEN Drain(c) ELSE Goto(c, IF Ready(c) THEN "clear" ELSE "block")
  /\ UNCHANGED <<connection, kernel, transport, consent, guards, counters>>

\* Event.wait returns by the event or by the deadline.
Block(c) ==
  /\ At(c, "block")
  /\ \/ event /\ Goto(c, "clear")
     \/ call[c].late /\ ~event /\ Goto(c, "expired")
  /\ UNCHANGED <<connection, kernel, transport, consent, guards, counters>>

\* The deadline may race with a message.
Expired(c) ==
  /\ At(c, "expired")
  /\ IF event \/ Ready(c) THEN Drain(c) ELSE Ends(c, "timeout")
  /\ UNCHANGED <<connection, kernel, transport, consent, guards, counters>>

\* Time passes.
Deadline(c) ==
  /\ call[c].finite /\ ~call[c].late /\ call[c].pc \in {"wait", "block", "clear", "take", "hook"}
  /\ call' = [call EXCEPT ![c].late = TRUE,
                          ![c].inTime = \E i \in DOMAIN iopub : iopub[i] = <<"idle", call[c].id>>]
  /\ UNCHANGED <<connection, kernel, transport, consent, guards, counters>>
-----------------------------------------------------------------------------
(* The receive loop of jupyter-kernel-client *)

Clear(c) ==
  /\ At(c, "clear") /\ event' = FALSE /\ Goto(c, "take")
  /\ UNCHANGED <<connection, kernel, wire, iopub, stdin, signalling, consent, guards, counters>>

\* One message, an input request first; those of other calls are ignored.
Take(c) ==
  /\ At(c, "take")
  /\ CASE call[c].stdin /\ stdin # <<>> ->
            stdin' = Tail(stdin) /\ Goto(c, "hook") /\ UNCHANGED iopub
       [] ~(call[c].stdin /\ stdin # <<>>) /\ iopub # <<>> ->
            /\ iopub' = Tail(iopub) /\ UNCHANGED stdin
            /\ IF Head(iopub) = <<"idle", call[c].id>> THEN Ends(c, "completed")
                                                       ELSE Goto(c, "wait")
       [] OTHER -> Goto(c, "wait") /\ UNCHANGED <<iopub, stdin>>
  /\ UNCHANGED <<connection, kernel, wire, event, signalling, consent, guards, counters>>

\* Mutant of Answered: the answer of a custom hook is sent once more.
AnsweredTwice == replies' \in {replies + 1, replies + 2}

Answered == replies' = replies + 1

\* wrapped_stdin_hook: the user answers, or a custom hook sends its own reply.
Hook(c) ==
  /\ At(c, "hook")
  /\ \/ Answered /\ Goto(c, "wait") /\ UNCHANGED counters
     \/ Trouble /\ Ends(c, "error") /\ UNCHANGED replies
  /\ UNCHANGED <<connection, work, asking, transport, consent, guards>>
-----------------------------------------------------------------------------
(* The websocket thread, the thread of the Drive consent, and the kernel *)

\* A request for the consent is not passed on: a thread of its own answers it.
Receive ==
  /\ wire # <<>> /\ ~signalling
  /\ CASE Head(wire)[1] = "drive" ->
            consent' = "asks" /\ UNCHANGED <<iopub, stdin, signalling>>
       [] Head(wire)[1] = "ask" ->
            /\ Len(stdin) < MaxQueue /\ stdin' = Append(stdin, Head(wire))
            /\ signalling' = TRUE /\ UNCHANGED <<iopub, consent>>
       [] OTHER ->
            /\ Len(iopub) < MaxQueue /\ iopub' = Append(iopub, Head(wire))
            /\ signalling' = TRUE /\ UNCHANGED <<stdin, consent>>
  /\ wire' = Tail(wire)
  /\ UNCHANGED <<connection, kernel, event, guards, call, counters>>

Signal ==
  /\ signalling /\ signalling' = FALSE /\ event' = TRUE
  /\ UNCHANGED <<connection, kernel, wire, iopub, stdin, consent, guards, call, counters>>

\* _handle_drivefs_auth: the consent or an error is the reply; if the reply cannot
\* be sent, an error is.
Consent ==
  /\ consent = "asks" /\ consent' = "none"
  /\ \/ Answered /\ UNCHANGED counters
     \/ Trouble /\ replies' \in {replies, replies + 1}
  /\ UNCHANGED <<connection, work, asking, transport, guards, call>>

\* Without a client the message goes nowhere.
Sends(kind) ==
  /\ Len(wire) < MaxWire
  /\ wire' = IF client THEN Append(wire, <<kind, Head(work)>>) ELSE wire
  /\ UNCHANGED <<connection, replies, iopub, stdin, event, signalling, consent, guards, call,
                 counters>>

KernelPrints == work # <<>> /\ asking = "no" /\ Sends("out") /\ UNCHANGED <<work, asking>>

KernelAsks ==
  /\ work # <<>> /\ asking = "no"
  /\ \/ /\ \E c \in Caller : call[c].id = Head(work) /\ call[c].stdin
        /\ asking' = "input" /\ Sends("ask")
     \/ asking' = "drive" /\ Sends("drive")
  /\ UNCHANGED work

KernelEnds ==
  work # <<>> /\ asking = "no" /\ work' = Tail(work) /\ Sends("idle") /\ UNCHANGED asking

KernelReads ==
  /\ asking # "no" /\ replies > 0 /\ replies' = replies - 1 /\ asking' = "no"
  /\ UNCHANGED <<connection, work, transport, consent, guards, call, counters>>

Kernel == KernelPrints \/ KernelAsks \/ KernelEnds \/ KernelReads
-----------------------------------------------------------------------------
\* What a call does by itself; the answer to a question takes the user.
Works(c) ==
  \/ Connect(c) \/ Remember(c) \/ Channels(c) \/ Install(c) \/ Leave(c) \/ Send(c)
  \/ Wait(c) \/ Block(c) \/ Expired(c) \/ Clear(c) \/ Take(c)

Next ==
  \/ \E c \in Caller : Works(c) \/ Call(c) \/ Hook(c) \/ Deadline(c) \/ Reset(c) \/ Exit(c)
  \/ Receive \/ Signal \/ Consent \/ Kernel

Spec == Init /\ [][Next]_vars

\* Threads are scheduled and time passes; the kernel, the network and the user
\* may do nothing.
FairSpec ==
  Spec /\ WF_vars(Signal) /\ \A c \in Caller : WF_vars(Works(c)) /\ WF_vars(Deadline(c))
-----------------------------------------------------------------------------
(* Properties *)

Loops(c) == call[c].pc \in {"wait", "block", "expired", "clear", "take"}

\* docs/02: "The guard is restored after each call": a call that waits has its
\* own guard, with the deadline and the queues of this call, whatever other
\* threads start or end meanwhile; without a call there is none.
GuardIsOwn ==
  /\ \A c \in Caller : Loops(c) => proxy = call[c].id
  /\ (\A c \in Caller : At(c, "idle")) => proxy = 0 /\ lock = 0

\* docs/02: "a message/event arriving on the boundary wins over the timeout": a
\* call does not time out whose end was queued before the deadline, however many
\* messages of this and of earlier calls were queued before it.
InTimeIsNoTimeout ==
  \A c \in Caller : call[c].inTime => call[c].verdict # "timeout"

\* docs/02: "a delivered input_request receives exactly one reply": the kernel
\* never gets an answer to a question it does not ask.
OneReply ==
  /\ replies <= 1
  /\ replies = 1 => asking # "no"

\* Tries, failures, resets and later commands use one kernel, which the record
\* names, unless the answer to its creation was lost or the record not written.
KernelIsNamed ==
  /\ kernels = lost + (IF kid = 0 THEN 0 ELSE 1)
  /\ client => kid # 0 /\ (recorded = kid \/ unnamed)

\* A call with a finite timeout ends, or asks the user, though the kernel prints
\* without end; and any call ends whose end is queued, though the library clears
\* the event after the message was queued.
CallsEnd ==
  \A c \in Caller :
    /\ call[c].finite /\ Loops(c) ~> ~Loops(c)
    /\ Loops(c) /\ (\E i \in DOMAIN iopub : iopub[i] = <<"idle", call[c].id>>) ~> ~Loops(c)
=============================================================================
