------------------------------ MODULE Sessions ------------------------------
(***************************************************************************)
(* Local sessions and the VMs they stand for (state.py, common.py,         *)
(* commands/session.py, execution.py, run.py, client.py, utils.py).        *)
(*                                                                         *)
(* Commands run in slots: new, run, attach, stop, stop --endpoint          *)
(* (release), the pruning of stale sessions (sync), exec (which stands for *)
(* repl as well: they differ in their markers only) and console.           *)
(* They share sessions.json, whose operations are atomic (LockedStore),    *)
(* and the control plane.  A session has a keep-alive daemon.  VMs vanish  *)
(* at any time.  auth, drivemount and restart-kernel write their copy of   *)
(* the record as often as an exec may.                                     *)
(*                                                                         *)
(* An HTTP error answer to the assignment POST means that there is no VM.  *)
(* Not modelled: damaged stores, recycled process ids, the 24 h limit of a *)
(* daemon, what a record holds besides its endpoint and pid.               *)
(***************************************************************************)
EXTENDS Integers

CONSTANTS
  Name, Slot,
  Command,      \* the commands users run
  Connect,      \* whether attach may open a control kernel (--connect)
  Mortal,       \* the commands that may be killed
  MaxVMs,       \* bound: VMs ever assigned
  MaxPids,      \* bound: daemons ever spawned
  MaxTrouble    \* bound: failing writes, lost answers, refused pings, misread errors,
                \* kills of new, run, attach

AllCommands == {"new", "run", "attach", "stop", "release", "sync", "exec", "console"}

ASSUME SessionsAssumption ==
  /\ "none" \notin Name
  /\ Command \subseteq AllCommands /\ Mortal \subseteq AllCommands
  /\ Connect \in BOOLEAN
  /\ {MaxVMs, MaxPids, MaxTrouble} \subseteq Nat

VARIABLES
  vms, made,        \* the VMs that live; how many there ever were
  known,            \* VMs the user knows of: opened in a browser, or reported
  store,            \* sessions.json
  daemon, spawned,  \* the keep-alive daemon of each process id; how many so far
  cmd,              \* the command of each slot; s is its copy of the record
  trouble,
  spoilt            \* history: the VMs of the incidents the commands do not survive (Spoils)

vars == <<vms, made, known, store, daemon, spawned, cmd, trouble, spoilt>>
server  == <<vms, made, known>>
daemons == <<daemon, spawned>>

VM == 1..MaxVMs
Pid == 1..MaxPids
None == 0                            \* no VM, no process
Record == [vm : VM, pid : Pid \cup {None}]
NoRecord == [vm |-> None, pid |-> None]
NoDaemon == [name |-> "none", vm |-> None, misses |-> 0]
Idle == [op |-> "none", pc |-> "idle", name |-> "none", s |-> NoRecord, local |-> {}]

Tracked(n) == store[n] # NoRecord
Claimed(v) == \E n \in Name : store[n].vm = v

Init ==
  /\ vms = {} /\ made = 0 /\ known = {}
  /\ store = [n \in Name |-> NoRecord]
  /\ daemon = [p \in Pid |-> NoDaemon] /\ spawned = 0
  /\ cmd = [c \in Slot |-> Idle]
  /\ trouble = 0 /\ spoilt = {}
-----------------------------------------------------------------------------
(* The control plane and the user *)

NewVM == made < MaxVMs /\ made' = made + 1 /\ vms' = vms \cup {made + 1}

\* A VM opened in a browser.
Opens ==
  /\ NewVM /\ known' = known \cup {made + 1}
  /\ UNCHANGED <<store, daemons, cmd, trouble>>

\* Idle, at its limit, or released elsewhere.
Vanishes ==
  /\ \E v \in vms : vms' = vms \ {v}
  /\ UNCHANGED <<made, known, store, daemons, cmd, trouble>>
-----------------------------------------------------------------------------
(* Steps of a command *)

Trouble == trouble < MaxTrouble /\ trouble' = trouble + 1
At(c, pc) == cmd[c].pc = pc
Op(c) == cmd[c].op
Me(c) == cmd[c].name
S(c) == cmd[c].s

Goes(c, pc, s) ==
  cmd' = [cmd EXCEPT ![c] = IF pc = "idle" THEN Idle ELSE [@ EXCEPT !.pc = pc, !.s = s]]

Creates(c) == Op(c) \in {"new", "run"}

\* A command that sets a session up, and one that takes it back.
SetsUp(c) == Op(c) = "attach" \/ cmd[c].pc \in {"assign", "record", "spawn", "publish"}
TakesBack(c) == Creates(c) /\ cmd[c].pc \in {"kill", "release", "drop", "keep"}

Begins(c, op, pc, n, s) ==
  /\ op \in Command /\ At(c, "idle")
  /\ cmd' = [cmd EXCEPT ![c] = [Idle EXCEPT !.op = op, !.pc = pc, !.name = n, !.s = s]]

\* One operation of the store, which may raise instead.
Stores(c, n, r, ok, failed) ==
  \/ store' = [store EXCEPT ![n] = r] /\ Goes(c, ok, S(c)) /\ UNCHANGED trouble
  \/ Trouble /\ Goes(c, failed, S(c)) /\ UNCHANGED store

\* StateStore.add: whatever the name stands for by now is replaced.
Adds(c, ok, failed) == Stores(c, Me(c), S(c), ok, failed)

\* kill_process: SIGTERM ends a daemon.
Kill(p) == daemon' = [q \in Pid |-> IF q = p THEN NoDaemon ELSE daemon[q]]

Spawns(c, failed) ==
  /\ At(c, "spawn")
  /\ \/ /\ spawned < MaxPids /\ spawned' = spawned + 1
        /\ daemon' = [daemon EXCEPT ![spawned + 1] =
                        [name |-> Me(c), vm |-> S(c).vm, misses |-> 0]]
        /\ Goes(c, "publish", [S(c) EXCEPT !.pid = spawned + 1])
        /\ UNCHANGED trouble
     \/ Trouble /\ Goes(c, failed, S(c)) /\ UNCHANGED daemons
  /\ UNCHANGED <<server, store>>

\* A kill leaves everything as it is; one that takes a session back is counted.
Dies(c) ==
  /\ Op(c) \in Mortal /\ Goes(c, "idle", NoRecord)
  /\ IF SetsUp(c) \/ TakesBack(c) THEN Trouble ELSE UNCHANGED trouble
  /\ UNCHANGED <<server, store, daemons>>
-----------------------------------------------------------------------------
(* new, and run up to its script *)

NewLooks(c) ==
  /\ \E n \in Name, op \in {"new", "run"} :
       ~Tracked(n) /\ Begins(c, op, "assign", n, NoRecord)
  /\ UNCHANGED <<server, store, daemons, trouble>>

\* A lost POST answer is looked up by the notebook hash; when nothing answers the
\* lookup, the error tells the user that there may be a VM.
NewAssigns(c) ==
  /\ At(c, "assign")
  /\ \/ /\ NewVM /\ Goes(c, "record", [vm |-> made + 1, pid |-> None])
        /\ UNCHANGED <<known, trouble>>
     \/ NewVM /\ known' = known \cup {made + 1} /\ Trouble /\ Goes(c, "idle", NoRecord)
     \/ Trouble /\ Goes(c, "idle", NoRecord) /\ UNCHANGED server
  /\ UNCHANGED <<store, daemons>>

\* An HTTP error answers the lookup, an answer does not parse, or new is killed as
\* it waits: there is a VM, and no word of it.
NewIsUnheard(c) ==
  /\ At(c, "assign") /\ NewVM /\ Trouble /\ Goes(c, "idle", NoRecord)
  /\ UNCHANGED <<known, store, daemons>>

\* The keep-alive pre-flight (a scope error counts as a failure), then the record.
NewRecords(c) ==
  /\ At(c, "record") /\ Adds(c, "spawn", "kill")
  /\ UNCHANGED <<server, daemons>>

NewSpawns(c) == Creates(c) /\ Spawns(c, "kill")

\* new is done; run goes on to the script.
Ready(c) == IF Op(c) = "run" THEN "connect" ELSE "idle"

\* Mutant of NewPublishes: the pid is not written.
NewPublishesNothing(c) ==
  /\ Creates(c) /\ At(c, "publish") /\ Goes(c, Ready(c), S(c))
  /\ UNCHANGED <<server, store, daemons, trouble>>

\* The record with the pid, then the history, which may fail as well.
NewPublishes(c) ==
  /\ Creates(c) /\ At(c, "publish")
  /\ \/ Adds(c, Ready(c), "kill")
     \/ Trouble /\ store' = [store EXCEPT ![Me(c)] = S(c)] /\ Goes(c, "kill", S(c))
  /\ UNCHANGED <<server, daemons>>
-----------------------------------------------------------------------------
(* stop, the rollback of new and run, and the teardown of run *)

StopReads(c) ==
  /\ \E n \in Name :
       /\ Tracked(n)
       /\ Begins(c, "stop", IF store[n].pid = None THEN "release" ELSE "kill", n, store[n])
  /\ UNCHANGED <<server, store, daemons, trouble>>

KillsDaemon(c) ==
  /\ At(c, "kill")
  /\ Kill(S(c).pid)
  /\ Goes(c, IF Op(c) = "stop" THEN "clear" ELSE "release", [S(c) EXCEPT !.pid = None])
  /\ UNCHANGED <<server, store, spawned, trouble>>

\* The cleared pid is stored before the release; a failure is only reported.
StopClears(c) ==
  /\ At(c, "clear") /\ Adds(c, "release", "release")
  /\ UNCHANGED <<server, daemons>>

\* Mutant of Unassigned: a release that could not be checked counts.
UnassignedAnyhow(c, ok, failed) ==
  /\ vms' \in {vms, vms \ {S(c).vm}} /\ Goes(c, ok, S(c)) /\ UNCHANGED trouble

\* unassign: an answer, a lost answer and an assignment list without the
\* endpoint, or an error after which the VM may live or not.
Unassigned(c, ok, failed) ==
  \/ vms' = vms \ {S(c).vm} /\ Goes(c, ok, S(c)) /\ UNCHANGED trouble
  \/ /\ Trouble \/ (S(c).vm \notin vms /\ UNCHANGED trouble)
     /\ vms' \in {vms, vms \ {S(c).vm}} /\ Goes(c, failed, S(c))

Releases(c) ==
  /\ At(c, "release")
  /\ IF Op(c) = "release" THEN Unassigned(c, "idle", "idle") ELSE Unassigned(c, "drop", "keep")
  /\ UNCHANGED <<made, known, store, daemons>>

Drops(c) ==
  /\ At(c, "drop") /\ Stores(c, Me(c), NoRecord, "idle", "idle")
  /\ UNCHANGED <<server, daemons>>

\* Mutant of Keeps: the record of an unconfirmed release is removed.
KeepsNothing(c) ==
  /\ At(c, "keep") /\ Stores(c, Me(c), NoRecord, "idle", "idle")
  /\ UNCHANGED <<server, daemons>>

\* An unconfirmed release keeps the record, or tells the user the endpoint.
Keeps(c) ==
  /\ At(c, "keep")
  /\ Adds(c, "idle", "idle")
  /\ known' = IF trouble' = trouble THEN known ELSE known \cup {S(c).vm}
  /\ UNCHANGED <<vms, made, daemons>>

\* stop --endpoint: only what no session tracks.
ReleaseLooks(c) ==
  /\ \E v \in 1..made :
       ~Claimed(v) /\ Begins(c, "release", "orphan", "none", [vm |-> v, pid |-> None])
  /\ UNCHANGED <<server, store, daemons, trouble>>

ReleaseLists(c) ==
  /\ At(c, "orphan") /\ Goes(c, IF S(c).vm \in vms THEN "release" ELSE "idle", S(c))
  /\ UNCHANGED <<server, store, daemons, trouble>>
-----------------------------------------------------------------------------
(* sync_sessions and prune_session *)

SyncReads(c) ==
  /\ "sync" \in Command /\ At(c, "idle")
  /\ \E n \in Name : Tracked(n)
  /\ cmd' = [cmd EXCEPT ![c] = [Idle EXCEPT !.op = "sync", !.pc = "list",
               !.local = {<<n, store[n].vm>> : n \in {m \in Name : Tracked(m)}}]]
  /\ UNCHANGED <<server, store, daemons, trouble>>

\* The assignments are listed after the local sessions.
Stale(local) == {e \in local : e[2] \notin vms}

SyncLists(c) ==
  /\ At(c, "list")
  /\ \/ LET stale == Stale(cmd[c].local) IN
        /\ cmd' = [cmd EXCEPT ![c] = IF stale = {} THEN Idle
                                     ELSE [@ EXCEPT !.pc = "prune", !.local = stale]]
        /\ UNCHANGED trouble
     \/ Trouble /\ Goes(c, "idle", NoRecord)
  /\ UNCHANGED <<server, store, daemons>>

\* prune_session knows the name only: it kills what the name has now.
PruneKills(c) ==
  /\ At(c, "prune")
  /\ \E e \in cmd[c].local :
       /\ Kill(store[e[1]].pid)
       /\ cmd' = [cmd EXCEPT ![c].pc = "forget", ![c].name = e[1], ![c].local = @ \ {e}]
  /\ UNCHANGED <<server, store, spawned, trouble>>

\* A failing removal, or a failing history entry after it, ends the command;
\* console and run write their record in any case.
PruneForgets(c) ==
  /\ At(c, "forget")
  /\ LET end == IF Op(c) \in {"console", "run"} THEN "final" ELSE "idle" IN
     \E next \in {end, IF cmd[c].local # {} THEN "prune" ELSE end} :
       Stores(c, Me(c), NoRecord, next, end)
  /\ UNCHANGED <<server, daemons>>
-----------------------------------------------------------------------------
(* exec, repl, console, and run with its script *)

UseReads(c) ==
  /\ \E n \in Name :
       /\ Tracked(n)
       /\ \/ Begins(c, "exec", "connect", n, store[n])
          \/ Begins(c, "console", "mark", n, store[n])
  /\ UNCHANGED <<server, store, daemons, trouble>>

\* exec and repl connect outside of the try statement with the finally clause.
Unguarded(c) == IF Op(c) = "exec" THEN "idle" ELSE "final"

Marks(c, op, ok, failed) ==
  /\ Op(c) = op /\ At(c, "mark") /\ Adds(c, ok, failed)
  /\ UNCHANGED <<server, daemons>>

\* exec stores the running marker, and a marker for each cell.
ExecMarks(c) == \E pc \in {"mark", "final"} : Marks(c, "exec", pc, "final")

\* run stores it for its script.
RunMarks(c) == Marks(c, "run", "final", "final")

\* repl stores it before the try statement.
ReplMarks(c) == Marks(c, "exec", "final", "idle")

\* console stores it before it connects.
ConsoleMarks(c) == Marks(c, "console", "connect", "idle")

\* A fresh kernel or session id is stored by a callback; the terminal of console
\* has no kernel.
UseCallsBack(c) ==
  /\ At(c, "connect") /\ Op(c) # "console"
  /\ Adds(c, "connect", Unguarded(c))
  /\ UNCHANGED <<server, daemons>>

UseConnects(c) ==
  /\ At(c, "connect") /\ S(c).vm \in vms
  /\ Goes(c, IF Op(c) = "console" THEN "final" ELSE "mark", S(c))
  /\ UNCHANGED <<server, store, daemons, trouble>>

\* Any other failure, or a timeout.
UseFails(c) ==
  /\ At(c, "connect") /\ Goes(c, Unguarded(c), S(c))
  /\ UNCHANGED <<server, store, daemons, trouble>>

\* is_terminal_error: the session is pruned.
Loses(c) ==
  /\ At(c, "connect")
  /\ cmd' = [cmd EXCEPT ![c].pc = "prune", ![c].local = {<<Me(c), S(c).vm>>}]
  /\ UNCHANGED <<server, store, daemons>>

\* 404 or 401 as the status: the VM is gone.
UseIsLost(c) == Loses(c) /\ S(c).vm \notin vms /\ UNCHANGED trouble

\* 404 or 401 anywhere in the text of another error.
UseMisreads(c) == Loses(c) /\ S(c).vm \in vms /\ Trouble

\* The finally clauses; run without --keep tears its VM down.
UseEnds(c) ==
  /\ At(c, "final")
  /\ \E pc \in {"idle"} \cup (IF Op(c) = "run" THEN {"kill"} ELSE {}) : Adds(c, pc, pc)
  /\ UNCHANGED <<server, daemons>>
-----------------------------------------------------------------------------
(* attach *)

AttachLooks(c) ==
  /\ \E n \in Name, v \in 1..made :
       ~Tracked(n) /\ ~Claimed(v) /\ Begins(c, "attach", "find", n, [vm |-> v, pid |-> None])
  /\ UNCHANGED <<server, store, daemons, trouble>>

\* The endpoint is in the assignment list, and takes a keep-alive ping.
AttachFinds(c) ==
  /\ At(c, "find")
  /\ \/ S(c).vm \in vms /\ Goes(c, "claim", S(c)) /\ UNCHANGED trouble
     \/ S(c).vm \notin vms /\ Goes(c, "idle", S(c)) /\ UNCHANGED trouble
     \/ Trouble /\ Goes(c, "idle", S(c))
  /\ UNCHANGED <<server, store, daemons>>

\* Mutant of Claimable: the endpoint may belong to another session.
ClaimableName(c) == ~Tracked(Me(c))

\* claim_strict.
Claimable(c) == ~Tracked(Me(c)) /\ ~Claimed(S(c).vm)
AttachClaims(c) ==
  /\ At(c, "claim")
  /\ IF Claimable(c) THEN Adds(c, "control", "idle")
     ELSE Goes(c, "idle", S(c)) /\ UNCHANGED <<store, trouble>>
  /\ UNCHANGED <<server, daemons>>

\* The kernel id is stored by the callback of open_remote_executor.
AttachConnects(c) ==
  /\ At(c, "control")
  /\ \/ Goes(c, "spawn", S(c)) /\ UNCHANGED <<store, trouble>>
     \/ Connect /\ Adds(c, "control", "undo")
     \/ Connect /\ Trouble /\ Goes(c, "undo", S(c)) /\ UNCHANGED store
  /\ UNCHANGED <<server, daemons>>

AttachSpawns(c) == Op(c) = "attach" /\ Spawns(c, "undo")

\* update_claim_strict.
AttachPublishes(c) ==
  /\ Op(c) = "attach" /\ At(c, "publish")
  /\ IF store[Me(c)].vm = S(c).vm THEN Adds(c, "idle", "undo")
     ELSE Goes(c, "undo", S(c)) /\ UNCHANGED <<store, trouble>>
  /\ UNCHANGED <<server, daemons>>

AttachUndoes(c) ==
  /\ At(c, "undo")
  /\ Kill(S(c).pid) /\ Goes(c, "unclaim", S(c))
  /\ UNCHANGED <<server, store, spawned, trouble>>

\* remove_claim_strict.
AttachUnclaims(c) ==
  /\ At(c, "unclaim")
  /\ IF store[Me(c)].vm = S(c).vm THEN Stores(c, Me(c), NoRecord, "idle", "idle")
     ELSE Goes(c, "idle", S(c)) /\ UNCHANGED <<store, trouble>>
  /\ UNCHANGED <<server, daemons>>
-----------------------------------------------------------------------------
(* The keep-alive daemon: store, then ping *)

Serves(p) == store[daemon[p].name].vm = daemon[p].vm

DaemonEnds(p) ==
  /\ daemon[p] # NoDaemon /\ ~Serves(p)
  /\ Kill(p)
  /\ UNCHANGED <<server, store, spawned, cmd, trouble>>

\* Mutant of DaemonMisses: a second client error is not the last.
DaemonMissesMore(p) ==
  daemon' = [daemon EXCEPT ![p] =
               IF @.misses >= 2 THEN NoDaemon
               ELSE [name |-> @.name, vm |-> @.vm, misses |-> @.misses + 1]]

\* The second client error without a success in between ends it.
DaemonMisses(p) ==
  daemon' = [daemon EXCEPT ![p] =
               IF @.misses >= 1 THEN NoDaemon
               ELSE [name |-> @.name, vm |-> @.vm, misses |-> @.misses + 1]]

\* Any error that is not a client error changes nothing.
DaemonPings(p) ==
  /\ daemon[p] # NoDaemon /\ Serves(p)
  /\ \/ /\ daemon[p].vm \in vms /\ daemon' = [daemon EXCEPT ![p].misses = 0]
        /\ UNCHANGED trouble
     \/ /\ (daemon[p].vm \notin vms /\ UNCHANGED trouble) \/ Trouble
        /\ DaemonMisses(p)
  /\ UNCHANGED <<server, store, spawned, cmd>>

Daemon(p) == DaemonEnds(p) \/ DaemonPings(p)
-----------------------------------------------------------------------------
\* _rollback_allocated_session, which stop and the teardown of run repeat.
RollsBack(c) == KillsDaemon(c) \/ Releases(c) \/ Drops(c) \/ Keeps(c)

New(c) == NewLooks(c) \/ NewAssigns(c) \/ NewRecords(c) \/ NewSpawns(c) \/ NewPublishes(c)
Stop(c) == StopReads(c) \/ StopClears(c) \/ RollsBack(c) \/ ReleaseLooks(c) \/ ReleaseLists(c)
Sync(c) == SyncReads(c) \/ SyncLists(c) \/ PruneKills(c) \/ PruneForgets(c)
Exec(c) == \/ UseReads(c) \/ UseCallsBack(c) \/ UseConnects(c) \/ UseFails(c)
           \/ UseIsLost(c) \/ ExecMarks(c) \/ UseEnds(c)
Use(c) == Exec(c) \/ RunMarks(c) \/ ReplMarks(c) \/ ConsoleMarks(c)
Attach(c) == \/ AttachLooks(c) \/ AttachFinds(c) \/ AttachClaims(c) \/ AttachConnects(c)
             \/ AttachSpawns(c) \/ AttachPublishes(c) \/ AttachUndoes(c) \/ AttachUnclaims(c)
Works(c) == New(c) \/ Stop(c) \/ Sync(c) \/ Use(c) \/ Attach(c)

\* Two commands meet on a session when one of them sets it up, or they have
\* different VMs for it (a prune has the one it read); and on a VM when one of them
\* created it, and the other is to attach it to another session or to release it.
Meets(c, d) ==
  /\ Me(c) \in Name
  /\ \/ Me(d) = Me(c) /\ (SetsUp(c) \/ S(d).vm # S(c).vm)
     \/ \E e \in cmd[d].local : e[1] = Me(c) /\ e[2] # S(c).vm
     \/ Creates(c) /\ Me(d) # Me(c) /\ S(d).vm = S(c).vm
Met == {v \in VM : \E c, d \in Slot : c # d /\ Meets(c, d) /\ v \in {S(c).vm, S(d).vm}}

\* A step spoils the VMs of a, and those of commands that meet.
Spoils(a) == spoilt' = spoilt \cup (a \cap VM) \cup Met'

Next ==
  \/ (Opens \/ Vanishes) /\ Spoils({})
  \/ \E c \in Slot : Works(c) /\ Spoils({})
  \/ \E c \in Slot : NewIsUnheard(c) /\ Spoils({made'})
  \/ \E c \in Slot : UseMisreads(c) /\ Spoils({S(c).vm})
  \/ \E c \in Slot : Dies(c) /\ Spoils(IF SetsUp(c) \/ TakesBack(c) THEN {S(c).vm} ELSE {})
  \/ \E p \in Pid : Daemon(p) /\ Spoils({})

Spec == Init /\ [][Next]_vars
-----------------------------------------------------------------------------
(* Properties *)

PC == {"idle", "assign", "record", "spawn", "publish", "kill", "clear", "release", "drop",
       "keep", "orphan", "list", "prune", "forget", "mark", "connect", "final", "find",
       "claim", "control", "undo", "unclaim"}

TypeOK ==
  /\ vms \subseteq 1..made /\ made \in 0..MaxVMs /\ known \subseteq 1..made
  /\ store \in [Name -> Record \cup {NoRecord}]
  /\ daemon \in [Pid -> [name : Name, vm : VM, misses : 0..1] \cup {NoDaemon}]
  /\ spawned \in 0..MaxPids
  /\ cmd \in [Slot -> [op : Command \cup {"none"}, pc : PC, name : Name \cup {"none"},
                       s : Record \cup {NoRecord}, local : SUBSET (Name \X VM)]]
  /\ trouble \in 0..MaxTrouble /\ spoilt \subseteq VM

Sound == vms \ spoilt

\* docs/01: "local initialization is a transaction", whose failure "unassigns
\* that endpoint": no VM that new assigned is left alone.  Every VM that lives
\* has a session record, or the user was told, or a command is busy with it,
\* unless it is spoilt: by a kill, an unheard assignment, a misread error or
\* commands that meet.
VMIsAccountedFor ==
  \A v \in Sound : v \in known \/ Claimed(v) \/ \E c \in Slot : S(c).vm = v

\* docs/01: "Remove the session from local state only after a successful
\* response or a server-side query confirms that the endpoint no longer
\* exists": no step removes or replaces the record of a VM that lives and is not
\* spoilt, whichever commands and prunes share the session, except attach its own
\* claim, when the setup fails.
RemovedIsGone ==
  [][\A n \in Name :
       store[n].vm \in Sound /\ store'[n].vm # store[n].vm =>
         \E c \in Slot : Me(c) = n /\ At(c, "unclaim")]_vars

\* skills/colab-operator: a session is cleaned up when "the backend pruned the VM".
\* The same, with no exception for what is spoilt.
CleanedUpIsGone ==
  [][\A n \in Name :
       store[n].vm \in vms /\ store'[n].vm # store[n].vm =>
         \E c \in Slot : Me(c) = n /\ At(c, "unclaim")]_vars

\* Between commands, a daemon either is the one its session record names, so
\* that stop and prune can end it, or its record is gone and it ends itself: no
\* rollback, retry or failed write, and no stop, exec or prune of the same
\* session at the same time, leaves a daemon nobody can name, unless its VM is
\* spoilt.
DaemonIsRecorded ==
  (\A c \in Slot : At(c, "idle")) =>
    \A p \in Pid : daemon[p] # NoDaemon /\ Serves(p) /\ daemon[p].vm \notin spoilt =>
      store[daemon[p].name].pid = p

\* ENDPOINT_ALREADY_ATTACHED: a VM that lives has one session, whoever attaches
\* it at the same time, unless it is spoilt.
OneSessionPerVM ==
  \A n, m \in Name : store[n].vm \in Sound /\ store[n].vm = store[m].vm => n = m
=============================================================================
