# A verification project for the Colab CLI

TLA+ models of the protocols inside `colab` (sources under `src/src/colab_cli/`;
file names below are relative to it), TLC runs that check them on small
instances, and TLAPS proofs for every size.

| module | models | checked by | proved in |
|---|---|---|---|
| `TargetOwnership` | what a transfer lease promises | (as a property of `TransferLease`) | |
| `TransferLease` | `transfer_lease.py` | run TransferLease | `TransferLeaseProofs` |
| `RemoteJob` | `remote_job_runtime.py`: submit, status, cancel, runner | run RemoteJob | `RemoteJobProofs` |
| `JobMonitor` | `monitor.py` and the tail of `remote_job_runtime.py` | runs JobMonitor, JobMonitorTwice, JobMonitorEarly | `JobMonitorProofs` |
| `JobWait` | `wait` and `tail` of `commands/jobs.py`, `jobs.py`, beside the monitor | run JobMonitor | `JobMonitorProofs` |
| `FileUpload` | uploads of `transfer.py`, `remote.py`, `contents.py` | runs FileUpload, FileUploadWindow (through `MCFileUpload`) | `FileUploadProofs` |
| `FileDownload` | downloads of `transfer.py`, `download` and `edit` of `commands/files.py` | run FileDownload (through `MCFileDownload`) | `FileDownloadProofs` |
| `Sessions` | `common.py`, `commands/session.py`, `commands/run.py`; of `client.py` and `commands/execution.py` what touches sessions | runs Sessions, SessionsMisread (through `MCSessions`) | `SessionsProofs` |
| `StoreOps`, `StoreTable` | what the operations of `state.py` mean, and what its stores promise | (as a property of `LockedStore`) | (the refinement: `UpdateCheckProofs`) |
| `LockedStore` | `_LockedFileStore`, `StateStore`, `SettingsStore` of `state.py` | run UpdateCheck | `UpdateCheckProofs` |
| `UpdateCheck` | `auto_update.py`, `colab update --install`, on `LockedStore` | run UpdateCheck (through `MCUpdateCheck`) | `UpdateCheckProofs` |
| `KernelExec` | `runtime.py`, `_jupyter_compat.py`, the consent of `commands/automation.py` | run KernelExec | `KernelExecProofs` |

`PROJECT.json` maps every definition to its source lines, lists the hazards the
properties are for, and names for every property a plausible bug (a mutant, the
definition above the one it replaces) that makes TLC find it violated.

## 1. The system

The CLI is a set of short-lived processes. They share files in
`~/.config/colab-cli` and beside transfer targets, talk to the Colab
control plane (assign, unassign, keep-alive) and, in the assigned VM, to a
Jupyter kernel (one per machine that attaches, one request at a time each) and a Contents server. Only two things
live longer than a command: the keep-alive daemon of a session, on the user's
machine, and the runner of a detached job, in the VM.

| component | state it keeps | operations | talks to | what is hard | what makes it correct |
|---|---|---|---|---|---|
| **Transfer lease** `transfer_lease.py` | OS lock file, JSON metadata | acquire, heartbeat, release | every transfer command takes it | deaths at any point, recycled pids, unreadable probes, failing writes | one writer per target; a live or unreadable owner is never recycled; the lock is given back |
| **Job runtime** `remote_job_runtime.py` | job directory: status.json, launcher.json, logs | submit, status/jobs, cancel, tail; the runner | kernel runs the operations, the runner is a process of its own | two writers of status.json without a lock, kernel restarts, runner crashes, VM replacement | what clients are told is true and final; cancel stops the job; dead runners are noticed |
| **Job monitor** `monitor.py` | local logs, monitor_state.json, offsets in memory | start, poll, drain, end | job runtime through the kernel | kills between log and state write, failing tails, another VM with the same job id | local logs are prefixes of the remote ones; completed means complete (both up to the two faults of section 3) |
| **Transfers** `transfer.py`, `remote.py`, `contents.py` | partial file, target, local part file | upload, download, finalize, stat, remove | Contents server (PUT), kernel (control calls) | lost, repeated and late PUTs, lost answers, edits, two clients with a kernel each | the target is always whole; success means delivery; spoilt partial files heal |
| **Session store** `state.py` | sessions.json, settings.json | add, claim, update, remove, list, strict or not | every command | read-modify-write of two commands, torn files | no claim is lost or resurrected; a strict operation never overwrites a damaged store (others do) |
| **Session bookkeeping** `common.py` | cached sessions | sync, prune, resolve, kill | store, control plane | decisions from an old list of assignments | only records whose endpoint is gone are pruned |
| **Session commands** `commands/session.py` | keep-alive daemon | new, attach, sessions, status, stop, restart-kernel, keep_alive | store, client, daemon | partial failures and rollbacks, two commands of one name | a VM is recorded or released; a daemon serves one endpoint |
| **Run** `commands/run.py` | none | assign, execute, release | client, store | interruption between the steps | the VM is released or reported |
| **Execution** `commands/execution.py` | running marker in the store | exec, repl, console | store, kernel | the record is written back after a prune | a pruned session stays pruned |
| **Assignment client** `client.py` | none (the control plane has it) | assign, unassign, list, keep-alive | control plane | lost POST answers | one VM per assign; release is confirmed before the record goes |
| **Job client** `jobs.py`, `commands/jobs.py` | offsets on the command line | submit, status, tail, wait, cancel | job runtime | drain after a terminal status, deadlines, a kernel that forgets the helper functions | a wait that returns the job's code has shown every byte |
| **Kernel transport** `runtime.py`, `_jupyter_compat.py` | connection, kernel id, guarded event, deadline backlog | execute, reset, stop | kernel, websocket thread | a reply that races the deadline, threads that share a client, tries after a kernel was created | bounded drain, no call in time is timed out, one kernel, one reply per question |
| **Update check** `auto_update.py` | cached latest version | check, upgrade | settings store | two operations of the store with a network call in between, a change of the source | only what this check fetched is installed; a cached version is one of its source |

File commands (`commands/files.py`, `transfer_output.py`, `transfer_models.py`)
wrap a transfer in a lease and print it. Authentication, terminals
(`console.py`, `repl.py`, `_winconsole.py`), observability,
doctor, history, conversion, accelerators, timeouts and the command-line shell
have no protocol state of their own; `PROJECT.json` gives the reason for each.

## 2. The modules

### TransferLease and TargetOwnership

`TransferLease` has the processes that use one pair of files. `live`, `start`
and `pc` are the process of each pid, its start token and its place in
`acquire ... release`; `osLock` is the holder of the `FileLock`; `meta` is the
metadata file: absent, garbage, or a record with state, pid, start token
(possibly unread, `known = FALSE`) and completed bytes. The steps of `acquire` are
`TryLock`, `Examine` or `Refuse`, `Publish` or `PublishFails`; those of
`release` are `Retire`, `Unlink`, `Unlock`, each of the first two possibly
without effect (an `OSError` that becomes a warning). `Unlocks` is the
best-effort release: an unlock that fails leaves the lock to the process
("stuck"). `Die` is any end of a process; `Spawn` reuses the pid with a new
start token; `IdentityState` has every answer `process_identity_state` may give.

`TargetOwnership` is the promise: processes own the target one at a time and
an announcement is replaced only when the process it names is gone. The
refinement mapping takes an identity to be a pid with its start token, the
owner to be the live process whose lease object has `_acquired`, and the
announcement to be the active record.

### RemoteJob

One job directory, two programs. `runner` is where the runner process is
(`_RUNNER_SOURCE`), with its variables `cancelReq` and `verdict` and its
`child`; `ctl` is the operation the kernel runs, with the record it has read in
`ctl.snap`. Every read and write of status.json is a step of its own, since
nothing locks the file: `Status...` is `_status`, `Cancel...` is
`_cancel`, which ends by running `_status` again as operation "report". `told`
is the last answer of the present VM. Kernel restarts, a kill of the runner
alone, failing writes of the runner and the replacement of the VM are actions
switched by constants.

### JobMonitor

The remote job is reduced to the size of its logs, a terminal flag and a
runtime id (`boot`); byte *i* of runtime *b* is `<<b, i>>`, so a local log shows
what it was made of. `mem` is the `MonitorState` in memory, `saved` the one in
monitor_state.json; `buf` the bytes of the open log file that are not closed
yet. `Start` is `_load_or_create_state` with `_reconcile_local_offsets`;
`GetStatus`, the drains (`DrainSkips`, `DrainTails`, `DrainCloses`) and
`FinishPoll` are one pass of the loop; `ControlError` is its except clause;
`Ends` the outer finally clause, which a kill does not reach. A run may be killed anywhere
and any call may fail. The history variable `spoilt` notes two faults after which the evidence is
no longer what `docs/07` promises (`Spoils`): a kill between the first status answer and the
state write of that poll, and a tail call that fails when an earlier one of its drain has brought bytes.

### FileUpload

One remote path. Contents are versions made of chunks `<<v, i>>`; `temp[v]` is the partial
file named by the digest of *v*, `target` the file at the path. A PUT is
applied and answered, or its answer is lost: applied, never applied, or `late`
and applied by the Contents server at any later time. The clients are on
different machines: each has attached for itself, so its control calls run in a kernel of its own,
one at a time there and beside those of the others. `kernel[u]` is the `finalize_upload` call of client
*u*, in its steps: choose a file (`Finalize`), size, digest and the look at the target (`Verify`,
`Confirm`), `os.replace` (`Move`, `MoveFails`). It goes on when its client is gone. The other control
calls are one step each. The constant `KernelWindow` says whether a PUT may reach a partial file
between its digest and the `os.replace`; the calls of other kernels may in any case.
`Begin` starts an upload and starts a failed one again.

### FileDownload

Any number of downloads and edits, each on one local path (`PathOf`) and the VM of
its session (`SourceOf`). A file is a sequence of blocks; `part[f]` is
`f.colab-download.part`. `StatDigest` and `StatSize` are the two calls of
`stat_file`, `Prepare` and `ComparePrefix` are `_verified_download_offset`, `Read`
is one chunk request with its append, `Verify` and `Replace` the end. The remote
file may change, shrink or vanish before every step (`RemoteChanges`);
`seen[p]` collects what it has been, so that properties can say "a file the VM
had while the run was at work". `WriteBreaks` cuts an append short, `Fails` is any
failing call or Ctrl-C, `Killed` a kill. The lease is the set `holding`, whose
implementation is `TransferLease`. An edit holds the lease of an upload to its
remote path, and has a temporary file of its own.

### StoreOps, StoreTable, LockedStore, UpdateCheck

`StoreOps` says which contents each operation of sessions.json and settings.json
accepts, refuses and writes. `StoreTable` is the promise: every operation takes
effect at one moment. `LockedStore` is what `state.py` does: lock the file
(shared or exclusive), load, truncate, write, fsync, unlock, each a step, any
of which may be the last (`Break`); an empty file reads as the default, a torn
one as damaged, which strict operations refuse. The refinement takes a write
under way for one that has not happened yet.
`UpdateCheck` adds the check: load the settings, replace a former source, ask the source for its
latest release, save what was loaded. Load and save are two operations with a call of
seconds in between; the other operations of `LockedStore` and other checks go on.

### KernelExec

One runtime object of the CLI, its client, the websocket thread, the kernel. A call goes
through `Connect`, `Remember`, `Channels` (three tries), `Install` (the guard),
`Send`, and the loop `Wait`, `Block`, `Expired`, `Clear`, `Take`, `Hook`, until
`Leave`. The websocket thread queues a message (`Receive`) and sets the event in a
step of its own (`Signal`), since that is where the races are. `work` is what
the kernel has to run, `asking` and `replies` are its questions and the answers on
their way. `Consent` is the thread that answers a Drive request.
`Exit` is the end of a command and the start of the next one, which knows only the kernel id
of the session record.

### Sessions

`store` is sessions.json, reduced to the endpoint (`vm`) and the keep-alive pid
of each name; every operation of `StateStore` is one step (`LockedStore` shows that
it may be taken for one) and may raise (`Stores`). `vms` are the VMs that live;
`known` those whose endpoint the user has in hand: opened in a browser, or printed with an
unconfirmed release or assignment. `cmd[c]` is the command in slot *c*: its place
in the code, its copy `s` of the session record, and for a prune the sessions
still to go. A command reads its copy once and writes it back whole, as the code
does. `New...` is `new`, and `run` up to its script, with `_rollback_allocated_session`
(`RollsBack`), which `stop` and the teardown of `run` repeat; `Attach...`, `Sync...`
with `Prune...`, and `Use...` with the markers of exec, repl, run and console
(`ExecMarks`, `ReplMarks`, `RunMarks`, `ConsoleMarks`) are the others. `Unassigned`
is `Client.unassign` as its callers see it: done, lost but gone from the
list, or failed with either outcome. `daemon[p]` is the keep-alive process *p*:
it ends when its name has another endpoint or none, or at the second client
error in a row. Commands may be killed between two steps (`Dies`).

Nothing in the CLI keeps two commands off one session, and nothing in the model does: every command
may start at any time on any session. An assignment may go unheard (`NewIsUnheard`: an HTTP error answers
the lookup after a lost POST, or an answer does not parse, and `new` prints an
allocation error), and any error may read like a missing VM (`UseMisreads`). What the
commands do not survive is named, not excluded: the history variable `spoilt` collects the VMs of four incidents
(`Spoils`), and the properties are about all other VMs:

- a command killed while it sets up a session or takes back one it created;
- an assignment nobody heard of;
- an error of a living VM taken for its loss;
- commands that meet (`Meets`): two commands have one session in hand and one of them is
  setting it up or they have different VMs for it; or a command that created a VM works on it while
  another one attaches or releases the same VM under another name.

So stop, exec, repl, console and prunes of one established session, attach beside attach or
`stop --endpoint` on one VM, and a prune beside anything that does not change what it has read are in the
properties; a command that meets a `new` of its own name is in the model and spoils the VM.

### JobWait

`JobWait` adds the other clients to `JobMonitor`: `w` is a wait or a tail with
its next offsets and the last status; `helper` says whether the kernel has the functions
that the first call of a client defines (`Answers`). A restart of the kernel forgets them, and
a client that has sent them once never sends them again. The job's side, and every
property of the monitor, is that of `JobMonitor`.

## 3. What the runs check

| run | constants | shows |
|---|---|---|
| TransferLease | two pids, three processes each | one writer (`SingleWriter`); fail-closed recycling (`LiveOwnerNeverRecycled`); the refinement `OwnershipSpec`; the inductive invariant `LeaseInv`; `LockIsGivenBack` |
| RemoteJob | two VMs, every failure | `LostIsTrue`, `VerdictIsReal`, `CancelStopsTheJob`, `AnswersAreFinal`; the inductive invariant `JobInv`; the liveness of `DeadRunnerIsNoticed` and `CancelEnds` |
| JobMonitor | 2 bytes per log, a byte per call, two runs, kills, failures, a replaced VM; or a wait or a tail, with deadlines and kernel restarts | `EvidenceIsPrefix`, `EvidenceIsComplete`, `WaitIsComplete`; the inductive invariant `MonitorInv`; `RunEnds` |
| JobMonitorTwice | tail fails mid-drain | **violated:** `NoByteTwice` |
| JobMonitorEarly | a kill before the first state write, a replaced VM | **violated:** `OneRuntime` |
| FileUpload | two clients with a kernel each, contents of 2 chunks and 1 | `TargetIsWhole`, `UploadHeals`, `DoneIsDelivered`, `NoOverwriteIsKept`; the inductive invariant `UploadInv` |
| FileUploadWindow | a PUT between check and replacement | **violated:** `ReplacementIsVerified` |
| FileDownload | two downloads of one target from two VMs, an edit on the first VM, two troubles | `TargetIsDelivered`, `ProgressIsKept`, `RunEnds`; the inductive invariant `DownloadInv` with `DoneIsDelivered`, `ErrorsAreTrue` |
| Sessions | any two commands at a time, two names, two VMs, one daemon process, one trouble | `VMIsAccountedFor`, `DaemonIsRecorded`, `OneSessionPerVM`, `RemovedIsGone`, `TypeOK` |
| SessionsMisread | one name, new and exec, nothing fails but the connection | **violated:** `CleanedUpIsGone` |
| UpdateCheck | two processes, one broken write, two releases | the refinement `AtomicStores`; `StrictKeepsDamaged`, `InstallIsVerified`; `UpdateInv` |
| KernelExec | two threads with a call each, one failure | `GuardIsOwn`, `InTimeIsNoTimeout`, `OneReply`, `KernelIsNamed`, `CallsEnd` |

### What the code does differently from its documents

1. `JobMonitorTwice`: `docs/07` promises no duplicated bytes. When a
   tail call fails after another of the same drain has delivered, the bytes
   are in the log and the offset in memory does not count them: the next poll
   appends them again, and after a restart the offset, now the size of a
   log that is too long, can even pass over a byte of the remote log.
2. `JobMonitorEarly`: `docs/07` binds the evidence to a runtime, but the binding is on disk only
   after the first drains. A kill before that, and a replacement of the VM, let the next run
   append the bytes of another runtime. `EvidenceIsPrefix` and `EvidenceIsComplete` hold until one of
   these two faults (`spoilt = {}`); after it a log may be mixed, repeat bytes or skip them, and a run that
   completes with such a log reports completeness that is not there.
3. `FileUploadWindow`: `docs/03` has the destination replaced only after
   verification. A PUT that is applied between digest and `os.replace` is moved
   unverified. The other properties of uploads are checked, and proved, where
   that window is closed (`KernelWindow = FALSE`).
4. `SessionsMisread`: the recovery notes of the colab-operator skill say that 404 or
   401 on exec means that the VM was pruned. `is_terminal_error` also looks for
   these digits in the text of any error, so a connection error that quotes a
   URL with `404` in a kernel id makes exec, repl and console kill the
   daemon and drop the record of a VM that lives on, idle and unnamed. In run
   Sessions such an error spoils the VM.

More disagreements have no run of their own:

- `docs/06:61` has a verdict as the last transition of a status. `_cancel` writes the record it read
  earlier back as `cancelling`; a runner that commits `succeeded` in between loses that record, and the
  job ends as `cancelled` (`CancelMarks` of `RemoteJob`). What still holds is `AnswersAreFinal`: no client that
  was told a terminal state hears another one in the same VM.
- `docs/06:62` calls a job lost when its runner is gone. A kernel that is restarted after the runner was
  started (line 407) and before launcher.json is written (415) leaves a runner nobody can name, and a query then
  calls the living job lost. `LostIsTrue` and `DeadRunnerIsNoticed` begin with launcher.json.
- `docs/01:3` has a lost assignment answer recovered. When an HTTP error answers the lookup, the note about an
  ambiguous assignment is not added, and the VM lives on unheard (`NewIsUnheard`).
- With `--no-overwrite` the finalize calls of two machines may both pass the check before either replaces
  (`remote.py:209-217`): the second replaces the file of the first. `NoOverwriteIsKept` has this
  race as its one exception (`raced`).
- `docs/06:3` says that the control timeout of a wait cannot be shorter than the user's
  deadline. `_remaining_wait_timeout` caps each call at 120 s, and a call that runs out
  of that ends the wait with 124 and "Wait timed out", whatever is left of `--timeout`
  (`TimesOutWaiting` while `late` is `FALSE`). The same answer is given when the status read
  last was terminal and only its drain met the deadline.
- The comment "never downgrade" of `auto_update.py` holds within one check. Two checks that
  overlap save what each loaded, and the older answer may be saved last; what matters, that
  nothing older is installed, is `InstallIsVerified`.
- `edit` removes the edited file in its finally clause also when its upload has failed
  (`Left` in `Cleanup`).

What meets in `Sessions` and spoils a VM: two `new` of one name hide the first VM, since both find the
name free and `add` replaces the record; attach may adopt the VM that `new` is about to
record; a late `remove` of stop or prune takes the record the name has
now; `console` writes its record back after the prune. No document promises
otherwise. After a misread error nobody is told of the VM, and when `attach` takes it up again under
another name and the `finally` clause of the pruned `console` then writes its record back, it has two sessions.

### Bounds, and why they are enough

*TransferLease*: a record is examined by one process while its author and a
third process with the author's pid may exist; two pids with the initial
process and two successors each give every such combination. `MaxProgress = 1`
tells an old record from a new one. *RemoteJob*: one job; jobs share nothing.
Two VMs are enough because a record is compared with the present boot id
only. *JobMonitor*: two runs (a kill and what follows); two bytes per log at one per
call and one call per poll leave a backlog over several polls, and a wait several calls per
drain; drains of the monitor with several calls (`MaxChunks = 1` in run JobMonitor) are in run JobMonitorTwice and in the proofs, which hold
for every number. *FileUpload*: two chunks are
the fewest with a first (truncating) and a later (appending) PUT; two clients, each with its
kernel, are the fewest whose finalize calls interleave; `MaxAttempts = 2` reaches a retry and the last attempt;
`MaxTrouble` counts everything that goes wrong. *FileDownload*: contents of three blocks
and of two that share their first, read two blocks at a time, so that a resumed part may start a file, differ from it
after a common prefix, or be longer; two troubles are a cut and a change. *UpdateCheck*: two
processes and one broken write, two releases of the fork and one of the former source. *KernelExec*: two calls and three
messages are enough for a leftover of the first in the queues of the second. *Sessions*: two commands are enough for every pair of steps; two names
and two VMs let a name change its VM and two names go for one; one trouble (a failing write, a lost or
unheard answer, a refused ping, a misread error, a kill during set-up) meets every pair of commands, and a failing
release after a failing setup is in the proofs, as is a second daemon: the run has one, which every rollback, prune and kill can leave behind. Names and slots are interchangeable (`SYMMETRY`; no liveness
is checked there), and the `VIEW` of `MCSessions` merges states that differ only in what no safety property will
ask for again: facts about VMs that are dead and forgotten, and all states in which every VM there can be is
spoilt or gone. Every bound is a constant named in its module's header.

### Fairness

*TransferLease*: started operations and transfers run on; no process has to
exit. *RemoteJob*: the kernel finishes what it runs, the runner is scheduled,
clients keep asking for the status (strongly fair, since other operations
interleave); nothing is assumed of the user's command, which may ignore SIGTERM
for ever. Restarts of the kernel may cut operations off: a restart leaves its mark in
`ctl` (`Cut`), `CancelEnds` is about the cancels that none cuts off, and
`DeadRunnerIsNoticed` about behaviours where they do not go on for ever (`KeepsRestarting`). *JobMonitor*: the run goes on polling; tail calls repeated
again and again succeed at last (`SF` on `DrainTails`). Without the latter the
run may poll for ever: an answered status resets the error count, so
`max_control_errors` is never reached. *FileUpload*: uploads run on and failed
ones are started again by the user; late requests need never arrive. *FileDownload*: a started run goes
on (every remote call ends by its timeout); nobody has to start one or to leave the
editor. *KernelExec*: threads are scheduled, the websocket thread included, and deadlines pass;
the kernel, the network and the user may do nothing for ever. *JobWait* leaves the monitor
as fair as it is alone and assumes nothing of waits, which end when their user likes. *Sessions*
and *UpdateCheck* state safety only, and no fairness.
Deadlock checking is off where bounded starts or finished uploads may end a behaviour,
and for RemoteJob, where a submission cut off before its first status leaves a
job nobody can run.

## 4. What is proved

All for every value of the constants that satisfies the modules' assumptions.

`TransferLeaseProofs`: `TypeCorrect`; `Invariance` (`Spec => []LeaseInv`);
`Exclusion` (`SingleWriter`); `Published` (`HolderIsPublished`); `FailClosed`
(`LiveOwnerNeverRecycled`); `Refinement` (`Spec => OwnershipSpec`). `SingleWriter`
is not inductive: a process between `Examine` and `Publish` relies on the OS
lock and on what it found in the file. `LeaseInv` says so: whoever is inside
acquire and release has the lock (`LockIsHeld`); a cleared record is not that of a running
process (`ClearedIsReplaceable`), because tokens of records never run ahead of
their pid (`NoFutureAuthor`), so no later process becomes its author; a
retiring process still finds its own record or none (`ReleasingIsOwn`). The
refinement proof takes `LeaseInv` as the invariant of each step.

`FileUploadProofs`: `TypeCorrect`, unconditionally; under the assumption
`~KernelWindow` also `Invariance` (`UploadInv`), `Atomicity` (`TargetIsWhole`),
`Delivery` (`DoneIsDelivered`) and `NoOverwrite` (`NoOverwriteIsKept`), for any number of clients with a kernel
each. `UploadInv` adds to the target's wholeness that a file a kernel has
verified stays as it is until that kernel moves it, or is gone because another one moved or removed it, and that
a protected target appears meanwhile only through a race (`CheckedStays`); and that
a waiting client waits for its own digest (`WaitsForOwn`). The assumption is
not a property of the code but the boundary of what it guarantees: run
FileUploadWindow shows what happens without it.

`RemoteJobProofs`: `TypeCorrect`, `Invariance` (`Spec => []JobInv`), `Lost`
(`LostIsTrue`), `NotBuried` (`VerdictIsNotBuried`), `Real` (`VerdictIsReal`),
`Cancelled` (`CancelStopsTheJob`) and `Final` (`AnswersAreFinal`), with every
failure of the model. The properties speak of two programs that see each other
only through files, so `JobInv` says what each may rely on: until the launcher
record is written the submission is the only operation, and a runner exists only
after its `spawn` (`SubmitOrder`); a live runner belongs to the present boot, and
so does its record (`RunnerOfThisBoot`, `FinishedIsOver`); the record an
operation has read is of the boot of the file's, and a terminal one has the
state of the file's (`SnapIsCurrent`); a runner once found gone stays gone
(`GoneIsGone`); the child runs only under a runner, and outcomes and codes are
those of the child (`ChildHasRunner`, `VerdictFollows`, `OutcomeHasChild`); a
terminal answer is what the file says (`AnswerIsRecorded`).

`JobMonitorProofs`: `TypeCorrect` and `OffsetsLocal` (`OffsetsAreLocal`),
`Invariance` (`Spec => []MonitorInv`), `Prefix` (`EvidenceIsPrefix`) and `Complete` (`EvidenceIsComplete`), all without
hypothesis: any call may fail and a run may be killed anywhere. What they say of the logs ends with the first of the two
faults of `Spoils`, and runs JobMonitorTwice and JobMonitorEarly show that either one is really the end. `MonitorInv` gives
every byte in the local logs and in the open buffer its place in the log of one
runtime (`LogsAreOrigin`, `BufferFollows`); offsets equal the local sizes unless
the runtime is gone (`OffsetsAreSizes`), which the next status then notices
(`BindingIsKnown`); and while the connection is alive the remote logs are ahead
(`RemoteIsAhead`). `OffsetsAreLocal` needs less: the bytes fetched since the
drain began are at least those its offset has advanced over. Completion needs
more: a stream that has caught up in this poll has every byte the status counted, though the
logs go on growing. The lemmas about
`Bytes` say that adjacent pieces of a log join and that a first part of a piece
is a piece.

And about `JobWait`: `AsAlone` (`ClientsSpec => Spec`), by which everything proved of the
monitor holds beside other clients, and `WaitComplete` (`WaitIsComplete`): the wait's offset passes
the size of the status before it leaves a stream, and neither deadlines nor restarts take it back.

`FileDownloadProofs`: `TypeCorrect`, `Invariance` (`DownloadInv`), `Delivery` (`TargetIsDelivered`)
and `Progress` (`ProgressIsKept`), unconditionally. `DownloadInv` is inductive with `Shape` and speaks of
one run and its own files at a time (`SafeAt`), so each action is one proof about its run, and one lemma (`Step`) for
all others: leases and temporary names keep the local files of two runs apart (`OtherPath`), and a change of
the remote file can only end the premise that it is steady (`ChangesSafe`). Lemmas about `Prefix` say that a
chunk continues the part (`SteadyChunk`) and that a part as long as its digest is the digest.

`UpdateCheckProofs`: `StoreInvariance` (`StoreSpec => []StoreInv`) and `LocksAreAtomic` (`StoreSpec =>
AtomicStores`) about the stores alone; `Invariance` (`Spec => []UpdateInv`), `ChecksAreAtomic`, `Strict`
(`StrictKeepsDamaged`), `Installed` (`InstallIsVerified`) and `Cached` beside update checks, each of whose steps is
one of the stores or none (`ChecksUseStores`). Atomicity rests on what the lock keeps (`SeenIsThere`): what a
writer has read is in the file until it truncates it, and from then on the abstract content is what it
has read. So truncate and write map to stutters, fsync to the operation (`SyncTable`), and a write that
breaks off to the loss it leaves behind (`BreakTable`). `Carries` is what one check takes from its load to its save;
`CheckFrame` proves each step for the process that takes it.

`KernelExecProofs`: `Invariance` (`Spec => []KernelInv`), `Guard` (`GuardIsOwn`), `InTime`
(`InTimeIsNoTimeout`), `OneAnswer` (`OneReply`) and `Named` (`KernelIsNamed`), unconditionally. `KernelInv` has a
part for each: the lock and the event are of one call, and ids are not used twice (`GuardInv`); who connects is
alone, and what the record says may lag behind only until the callback has run (`ConnectInv`); the question of the
kernel is at one place, on the wire, in the queue, with a hook, with the consent thread or as a reply on its way, and
nothing else runs on the kernel meanwhile (`QuestionInv`); a message that ends a call comes after its code, which is
the last in the kernel's queue (`OrderInv`); and the backlog a late call has counted reaches its end (`TimeInv`).
The parts need one another: a call in time does not stop for an input request, because with its end
queued the kernel has no code left that could ask (`NothingAsked`).

`SessionsProofs`, for any number of commands, names, VMs, daemons and failures, none with a hypothesis:
commands come together as they like. `TypeCorrect`: a command is where its code can be (`Placed`), with the
name and the record that place needs (`Carries`), and no copy or record names a VM that was never assigned;
`TypeOK` alone is not inductive, since what a step writes is the copy some earlier step has left. The others,
`Invariance` (`Spec => []SessionsInv`), `VMsAccountedFor` (`VMIsAccountedFor`), `DaemonsRecorded`
(`DaemonIsRecorded`), `OneSessionEach` (`OneSessionPerVM`) and `RemovedAreGone` (`RemovedIsGone`), are about
every VM that is not spoilt (section 2). None of the properties is inductive, since every command acts on a copy of its record
and on what it found out some steps ago. `SessionsInv` says
that this still holds, for what is not spoilt: commands that meet have spoilt their VMs (`Met \subseteq spoilt`, in
`VMInv`); what the store has for the session of a command, at each of its places (`Fits`: before the claim
nothing of this VM, while it works its VM, on a removal a VM that is gone); that a VM its creator works on is
in no other session (`Mine`), which a claim by `attach` needs besides the check of `claim_strict`; that a VM without a
record is known or held by its creator (`Accounted`), and one that attach works on is known (`Attaches`), so that
undoing the claim loses nothing; and for the daemons, that the copy of whoever may kill one names it
(`Watches`) and that the record does, unless a command that knows it is about to write or to kill (`Minded`). A step
changes one command and at most its own session's record: `MovesInv` says what it has to show of these
(`Moves`, `Writes`, `Hands`, `Shrinks`), and proves the rest once for all actions (`OthersFit` for the other commands,
`MovesOnes` for the VMs, `MovesKnown` and `MovesDaemons`); `GrowsInv` does so for the steps that make a VM.

Only model-checked: every liveness property (the prover has no rules for
`ENABLED`), `UploadHeals`, and, being violated, the properties of section 3's
findings.

## 5. Limits

A rename is atomic and a JSON file is written whole or not at all
(`_atomic_json`, `_write_state`); the power does not fail. Process ids of the
VM are not recycled in `RemoteJob`. The digest of a file identifies its
content. In `JobMonitor` two runs never overlap (the lock on the output
directory stops the second before it does anything); events, job.jsonl
and resource samples are left out. In `FileUpload` the two clients are
on different machines, so no lease holds between them. In `Sessions` the store
is never damaged, process ids are not reused, an HTTP error answer to the
assignment POST means that no VM was assigned, `kill` ends a daemon (it ignores
no signal). What a kill during set-up or roll-back leaves behind, a VM that only `colab sessions` shows, or a daemon
no record names, and what commands that meet do to a session, is in the model, but no property speaks of it: those
VMs are `spoilt`. `KernelIsNamed` excepts a kernel whose creation was answered by nothing the client saw (`lost`), which
includes a `start()` that fails after the creation; and the remote helper of a Drive request that gives up its own wait
is not in `KernelExec`. In `UpdateCheck` a custom `update_url` counts as the fork, whose tag it
then compares with, and versions that do not parse, which `_is_newer` compares for inequality, do not occur.

In `FileDownload` `stat_file` takes its digest at one moment. In `KernelExec` messages have
no contents, the reply on the shell channel that follows idle is not modelled, and a restart
of the kernel is not one of the requests. In `JobWait` a wait ends with the first failing
call, so it never sees a second VM.

## 6. Not modelled, and what is left

Not modelled, with the reason for each in `PROJECT.json`: what only reads or renders (observability,
doctor, status, sessions, the reports of transfers), what has no state of its own (accelerators, timeouts,
conversion, terminals), and authentication, whose state is that of a library.

Left to do, the most important first:

- the HTTP requests of `client.py` below the atomic `NewAssigns` and `Unassigned`;
- the end of orphaned keep-alive daemons as a liveness property.
