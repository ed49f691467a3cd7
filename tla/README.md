# pi-coder in TLA+

pi-coder extends the Pi coding agent with delegated agents, isolated Git
workspaces for them, reminders, compaction, a decision model and a sandbox.
This directory models the part of it that is hardest to test: what several
processes and many overlapping asynchronous calls do to state that outlives
them, and the shared services those calls queue for. Paths below are relative to the repository root `src/`.

1. [Inventory](#1-inventory)
2. [Modules and how they correspond to the code](#2-modules)
3. [Runs](#3-runs)
4. [Proofs](#4-proofs)
5. [What the models showed](#5-what-the-models-showed)
6. [What is not modelled](#6-what-is-not-modelled)
7. [Plan](#7-plan)

## 1. Inventory

| Component | State it keeps | Operations | Hard behaviour | What makes it correct |
|---|---|---|---|---|
| Continuation journal `src/tools/agent/runs/persistence`, `storage/run-{markers,snapshots,state,working-state}` | heads, leases, progress frames and snapshots in SQLite; markers in the parent transcript; per process what it believes the head to be and which lease tokens it holds | load, reserve, append marker, commit, progress frame, acquire, renew, release, close | two transactions and one file append make one checkpoint; processes share the rows; leases expire; processes stop anywhere | each checkpoint follows the one before it; a crash between the transactions is repaired by the next load; the owner of a lease knows the head; close ends |
| Run manager `runs/{manager,run-state,continuation-lease,checkpoint-store}` | one record per run: status, flags, child handle, lease, operation, settlement; registry; queue of saves | start, resume, cancel, collect, detach, shutdown, and the child that settles, asks or fails | every operation is an async function with many awaits; calls from the tool, from `/agents` and from session hooks overlap; saves, workspace checks and leases fail | one driver per child; results retained and collected only when durable; a removal is the last write; nothing is left running with nobody at work; leases come back; shutdown and cancel return |
| Workspace slots `workspaces/*` | rows of slots, results and checkpoints; worktrees, refs; the parent checkout | claim, transfer, recycle, continue, checkpoint, finalize, apply, retain, discard, recover, reset | Git commands and rows change at different times; several processes act on one slot; crashes between the two | a result is disposed of once and by one call; no edits of a worker are lost; the slot changes hands only when it may |
| Registry and retention `runs/registry`, `runs/manager` | registered runs, order of retained results | start, continue, move, retain, prune, collect, park | ids come back when a run is continued; pruning meets collect, cancel and recycling | every retained result can be pruned; never more than the budget |
| Restoration `runs/restore` | restored runs | restore | session closes during restoration | every open record is restored or left alone |
| Child sessions and grants `child/*` | one handle per run, tool gates | create, prompt, abort, dispose | late events after dispose | environment of the run manager |
| Tool dispatch and session hooks `action-dispatch`, `lifecycle`, `browser` | the current manager of a session | the actions of the agent tool, `/agents`, session start, tree and shutdown | actions during a session switch | order of flush, close, shutdown, new manager |
| Mailbox `presentation/mailbox`, `lifecycle` | at most 24 pending updates, a scheduled flush | queue, reconcile, flush, clear, close | eviction, stale updates, the parent starts or ends a turn meanwhile | the parent hears of every run that waits for it |
| SQLite adapter `common/sqlite` | one queue of operations, transaction scopes with queues of their own | run, transaction, nested transaction, close | savepoints, calls nobody awaits, views used after their end, close while work is queued | what is committed is what succeeded; every call is answered |
| Dialog queue `tui/dialog-queue` | one chain of dialogs, pending count and state per event bus | ask, abort, show, finish | abort at the turn | one dialog at a time in order of arrival; the bus follows the screen; the line empties |
| Reminders `modules/reminders` | cadence counters, rotation, declined ids | begin turn, decide, mid-run point | model answers late or not at all | at most the allowed reminders per turn, rotation is fair |
| Compaction `modules/compaction` | stages of one compaction | summarize, reduce, store | abort between stages | nothing is stored of an aborted one |
| Decision model `modules/decision`, `tools/decision-*` | rules, cached answers, failure cooldown | evaluate | answers after a settings change | an answer is used only for the question it was given to |
| Container session `modules/sandbox/container/{client,dispatch}` | pending requests of one container, processes inside | exec, spawn, fs, cancel, close | answer against backstop, exit against request | a request gets its own answer; nobody is forgotten; an aborted process ends |
| Container backend `modules/sandbox/container/index` | cached containers of a runtime | start, reload, tear down, close | all of them while a start is under way | no container without an owner |
| Memory, scratchpad, todolist `modules/*` | small stores of a session | edit, read | concurrent edits of files | the last edit wins whole |
| Commands, file and shell tools, heuristics, presentation | none shared | | | |

How they interact: a tool call or `/agents` calls the run manager; the manager
drives a child session, saves checkpoints through the journal and, for isolated
runs, checkpoints the workspace first; settling a run ends in a result that a
parent collects, and in a workspace result that is applied, retained or
discarded. The journal and the workspace store share one SQLite database with
every other Pi process of the user; the run manager is private to its session
and meets other sessions only through the lease.

`PROJECT.json` lists the hazards at their lines, each with the properties that
would notice.

## 2. Modules

### ContinuationJournal, CheckpointHistory, ContinuationJournalProofs, ContinuationLeaseProofs

One member of `Proc` is one operating-system process with the parent session
open; it starts once, and a restart is another member. `head`, `lease`,
`working` and `snapshots` are the rows of the tables of those names, `marks` is
the parent transcript, and `belief`, `active`, `lost`, `save`, `acquiring` and
`releasing` are the fields of `AgentRunJournalState`,
`ContinuationLeaseLedger` and of the state writer. A snapshot is named by its
`created_sequence`, a lease token by a number. A transaction is one action, the
marker's append belongs to the commit transaction, and everything else may
happen between two transactions. `CommitFailsAfterMarker` and
`CrashAfterMarker` are the two ways in which the marker survives the
transaction that was to record it. Expiry is an action of its own that may
strike any lease (`MaxExpiries` times).

`CheckpointHistory` is the promise of docs/agent-persistence.md: a run is one
growing chain of checkpoints, and only a run that a load has rolled back
(`rolledBack`) may branch.

### RunLifecycle, RunRecord, RunLifecycleProofs, RunLifecycleSerialProofs, RunLifecycleCalmProofs

One run of one `AgentRunManager`. A member of `Task` is one call (start,
resume, cancel, collect or shutdown) with the async functions it calls; `pc[t]`
names the await it is suspended at, and an action runs from one await to the
next, exactly as JavaScript does. Promise reactions run before any input:
`Turn` holds when no task is `Ready`, and actions that begin with I/O or a user
require it. Saves go through one queue (`queue`), as in `CheckpointStore`. The
child may settle, ask, reject or never end; whether it was told to stop is
`told`. The agent tool runs its calls one after the other
(`executionMode: "sequential"`, `tool`), `/agents` (`Browser`) may resume or
cancel meanwhile, and `Polls` lets the parent act on a status before it was
notified. `raced` remembers that two calls met, so that properties which the
code promises only to a parent that waits can say so.

`RunRecord` is what the next parent session relies on: a record opens, settles
once, and nothing is written over its removal.

### WorkspaceSlot, WorkspaceSlotProofs

One slot: its row, its worktree (`tree`: what is committed, what is in the
files; an edit is named by the task that made it), the checkpoints and results
of the runs that leased it one after the other, and the parent checkout
(`parent`). A member of `Task` is one call in one process, an action is what it
does up to the next statement, transaction or Git command that another process
can see. `saw` is who leased the slot when the call looked, which is what later
steps decide by. Where Git commands run inside a transaction (recycling and
reset) the step is atomic for the other processes, which wait for the database,
but a crash keeps the effect of Git without the rows (`Crash`). Finalizing a
foreground run and collecting a background one are the same step, with any delay.
The expiry of a reservation is taken to be reached once its process is dead. The
user may commit or revert in the checkout while something is applied.

`applying` is `activeApplyingResultIds` of each process. A recovery looks at it
(`Check`), takes the token in a transaction (`ClaimRecovery`) and only then adds
the result (`Register`); an application marks the row (`Mark`) and registers
next; whoever ends, in whichever way, removes the result, also for another call
of the process that relies on it (`Deregister`). Two calls of one process may
therefore both be between the look and the registration; `crossed` is a history
variable that remembers for which results this happened (`Enter`). `Sweep` is
`reconcileNoChangeAgentWorkspaceLeases`, with which every start and the
`/agents` browser begin: on behalf of the run that leases the slot, at work or
not, it goes through the release of a result without changes (`Vacate` to
`Free`). What the start does afterwards is another call.

The modules meet at their edges: the lease that `RunLifecycle` acquires and
releases (`ledger`) is the lease row of `ContinuationJournal`, its `durable` is
the newest checkpoint of that run, and `LeaseActive` in `WorkspaceSlot` is the
catalog status of `RunLifecycle`. They are checked separately, each with an
environment that is free to do whatever the other one may.

### DialogQueue

`pc[d]` is the await that the call of `withDialogQueue` for dialog `d` is
suspended at. The promise chain `dialogQueue` is `line`, the order of arrival,
with `released`, the links that have resolved: a turn has come when every
earlier link has (`TurnOf`). A signal may fire at any moment. That a turn is
granted and that the dialog is shown are two steps, since `waitForTurn` resolves
a promise which `withDialogQueue` awaits, and an abort fits in between. `Hide`
is the `finally` of the two prompts, `Finish` that of the queue.

### SqliteTransactions, SqliteRetentionProofs

A member of `Scope` is one call of `transaction()`, a member of `Stmt` one
statement, which is one write. `queue` is the promise chain of the root, `tail`
that of each scope. A callback calls what it likes while its scope is open,
awaited or not, and returns or throws at any time; a statement is run when its
turn comes, a scope is drained before COMMIT or ROLLBACK. `conn` is what the
connection sees, `db` what is committed, `saves` the stack of BEGIN and
SAVEPOINT. A statement that fails makes its transaction fail (`failed`), a
nested transaction that fails does not. This is what licenses the modules above
to take a transaction as one atomic step.

### ContainerSession, ContainerBackend

`ContainerSession` is one container with its two ends: `request`, `id`,
`signalled`, `backstop`, `shut` and `stopping` are the client, `running` and
`files` the dispatcher, `toBox` and `toHost` the pipes. A message carries the
request it is about in `of`, which the code does not see: `OwnAnswer` compares
it with the request that is settled by id. `late` are the requests sent after
the exit was seen.

`ContainerBackend` is the cache of such sessions: `sessions` is the map of the
runtime, `start` the promise of a session, `podman` the container itself, and
`unwanted` the containers on which `close()` will be called when their start
succeeds.

### RunRetention, SqliteRetentionProofs

Several runs of one manager, each reduced to its status and the stage of its
operation (`op`), because the question is what the registry, the retention
order and the mailbox make of many of them. A tool call of the parent is one
step up to its await (`tool`, `parking`); the user's browser, children and
microtasks act in between. `told` is the last status of a run that a delivered
update named. The mailbox is a JavaScript map, which keeps the order of
insertion: a sequence, of which `Kept` leaves the updates at the given positions
in their order. `RunLifecycle` looks inside one run, `RunRetention` across them.

### MCServices, ServicesProofs

`MCServices` starts one of these five services and leaves the others at rest: they
share no state, so that their product would show nothing more about each of
them. (`sqlite` underlies the journal and the workspace store; `ContainerBackend`
owns `ContainerSession`s; a dialog is asked for by a tool call. In each case the
caller's module takes the service to be what its properties say.)
`ServicesProofs` has the proofs of the dialog queue, the session and the cache,
and shows that each service at rest satisfies its invariant too, so that what is
proved of each holds of the process that `MCServices` describes.

Definitions that begin with "Mistake" or "The mistake" in their comment are
deliberate bugs; no behaviour uses them. They stand for what each property is meant to notice.

## 3. Runs

| Run | Question | Instance |
|---|---|---|
| `journal` | Does every interleaving of two processes, with a failing statement, an expiry and crashes, keep the chain of checkpoints and leave loads something to continue? | 2 processes, 1 run, 3 saves, 1 explicit acquisition, 1 fault, 1 expiry; 508 thousand states |
| `journal_close` | Does a writer that closes get to the end? | 2 saves, the rest as above, with fairness |
| `journal_fork` | Is the history linear even when a load saw an old transcript? (violated) | 4 saves, 1 expiry |
| `lifecycle` | Calls one after the other, each fault once: driver, durability, disposal, cancel, record | 4 calls |
| `lifecycle_shutdown` | `/agents` and polling overlap calls, at most one fault: leases, stuck runs, shutdown | 3 calls; 474 thousand states |
| `lifecycle_stops` | Do cancel and shutdown return although the child would not stop by itself? | 3 calls, no fault, with fairness |
| `lifecycle_stuck` | Can a failing workspace checkpoint leave a run that nobody settles? (violated) | 3 calls |
| `lifecycle_two_drivers` | Can two resumes prompt one child? (violated) | 3 calls with `/agents` |
| `workspace` | Reservations, results in the parent checkout, fate of results, and work in the slot under two processes | 2 processes, 2 runs, 3 calls, 2 results, 1 commit, 1 failure, 1 reset; 889 thousand states |
| `services` | Dialogs in order and announced; transactions atomic and every call answered; requests answered with their own answer, aborted processes gone; no container without an owner; the parent told of every run, retained results accounted for | 3 dialogs, 1 bus; 3 transactions, 2 writes, 1 failing command; 2 requests, 1 unreadable line; 3 containers, 2 keys, 1 reload; 2 runs, 1 retained result, 2 updates, 1 failing save; 340 thousand states |
| `container_exit` | Does the exit of a container answer every request, also one that is sent afterwards? (violated) | 1 request |
| `workspace_unfinalized` | Is a slot recycled before the latest end of its run was recorded? (violated) | 1 process, 2 runs, 3 calls |

Bounds. Every bound is a constant of the module: `MaxSaves`, `MaxAcquires`,
`MaxFaults`, `MaxExpiries`; the members of `Task`; `MaxResults`, `MaxCommits`,
`MaxErrors`, `MaxResets`. Three saves let a process save, a second one save on
top or beside it, and the first one come back; four calls are a start and the
three calls that can meet over it; two results give one result that is being
disposed of while another run holds the slot. `OneFault` cuts behaviours with
two faults in `lifecycle_shutdown`, and in `workspace` those where a failing
command meets another disturbance. Processes of the journal are symmetric; in
the other modules the next call takes the first unused task (and process, and
run), since unused ones are alike. In `services`, three dialogs are one on
screen and two that wait and may abort in either order; three transactions are
a nested one inside another with a rival at the root, or two levels of nesting;
two requests are a command and a file request, or two of a kind whose answers
cross; three containers are one that is replaced while it starts, its successor,
and another session's; two runs with a budget of one retained result make one
prune the other. `OneTrouble` keeps a cancel and a failing save of the registry
apart. `MaxUpdates` is not below the number of runs there, as `UpdatesReachParent`
requires; see section 5 for when it is.

`CHECK_DEADLOCK FALSE` stands in every configuration: all calls end, all
processes stop or close, and the bounds are reached.

Fairness. `journal_close` assumes that work queued in the database runs
(`OwnStep`); requests, timers, crashes and expiry are not assumed.
`lifecycle_stops` assumes that storage, the child factory and the workspace
answer, that promise reactions run, and that a child that was told to stop
settles; nothing is assumed of a child that was not, and no call is assumed.
`services` assumes that the event loop runs what is ready: for dialogs also that
the user answers, for transactions that the driver answers each command and that
callbacks end, for a container session that timers fire and both ends read their
pipes. Nothing is assumed of a command that was not aborted, of a file operation
or of a start. One weak fairness condition over all of these steps is enough,
because each of them can happen a bounded number of times.

## 4. Proofs

`ContinuationJournalProofs` proves, for any number of processes and runs and any
bounds and from `ConstantsAssumption` alone (the null values are not members,
the bounds are numbers):

| Theorem | States |
|---|---|
| `TypeCorrect` | `Spec => []TypeOK` |
| `JournalIsInvariant` | `Spec => []JournalInv`, the inductive invariant |
| `CheckpointsLinear` | `[]LinearUnlessRolledBack` |
| `OrderOfMarkers` | `[]MarkersInReserveOrder` |
| `HeadsFollow` | `[]HeadFollowsTranscript` |
| `JournalImplementsHistory` | the journal implements `CheckpointHistory` |
| `LoadsAdopt` | `LoadAdoptsHead`, an action property |

`ContinuationLeaseProofs`, from the same assumption and `JournalInv`:

| Theorem | States |
|---|---|
| `LeasesAreInvariant` | `Spec => []LeaseInv`, the inductive invariant |
| `OwnersKnowTheHead` | `[]OwnerKnowsHead` |
| `FramesContinue` | `[]FrameContinuesHead` |
| `ClosedWritersHoldNothing` | `[]ClosedHoldsNoLease` |

`WorkspaceSlotProofs`, for any processes, runs, calls and bounds, from
`SlotAssumption` (the null value is no member, the bounds are numbers):

| Theorem | States |
|---|---|
| `SlotIsInvariant` | `Spec => [](TypeOK /\ SlotInv)`, the inductive invariant |
| `SlotTypes` | `[]TypeOK` |
| `OneDisposesAtATime` | `[]TokenHolder` |
| `OfferedIsNotApplied` | `[]PreparedNotInParent` |
| `OfferedStaysReachable` | `[]ResultReachable` |
| `FatesAreFinal` | `FateIsFinal`, an action property |
| `SlotIsKept` | `SlotKept`, an action property |
| `WorkIsKept` | `WorkSurvives`, an action property |

`RunLifecycleProofs`, for any calls of parents and users, any overlap of them and
any faults, from `LifecycleAssumption` (the special values differ):

| Theorem | States |
|---|---|
| `LifeTypes` | `Spec => []TypeOK` |
| `CanceledRunsEnd` | `[]CancelEnds` |
| `LeaseComesBack` | `[]LeaseReturned` |

`RunLifecycleSerialProofs`, for any number of calls and any faults of a *serial
parent*, `~Browser /\ ~Polls`: one whose only caller is the agent tool, which runs
its calls one after the other:

| Theorem | States | Also assumes |
|---|---|---|
| `SerialParentDrivesOnce` | `[]OneDriver` | |
| `SerialParentPromptsOwned` | `PromptedByOwner`, an action property | |
| `SerialResultsDurable` | `[](~closing => RetainedIsDurable)` | |
| `SerialChildrenDisposed` | `[](~closing => ChildDisposed)` | |
| `SerialReleasesDurable` | `ReleasedDurable`, an action property | no shutdown |
| `SerialRecordForward` | `RecordMovesForward`: the manager implements `RunRecord` | no shutdown |

`RunLifecycleCalmProofs`, from `LifecycleAssumption`, for any number of calls of
parents and users, whether they poll, and with shutdowns, unless the last column
says so:

| Theorem | States | Also assumes |
|---|---|---|
| `RunsComeToRest` | `[]NoneStuck` | |
| `ShutdownLeavesRestorable` | `[]ShutdownParks` | |
| `DrivenOnceUnlessRaced` | `[](~raced => OneDriver)` | |
| `SerialParentNeverRaces` | `[]~raced` | a serial parent |
| `SerialNeverStuck` | `[](faults \subseteq {"lease"} => NeverStuck)` | a serial parent |

`SqliteRetentionProofs`, for any statements, transactions, runs and budgets, from
`SqliteAssumption` and `RetentionAssumption`:

| Theorem | States |
|---|---|
| `TransactionsAtomic` | `SqliteSpec => []CommittedExactly` |
| `ResultsAccounted` | `RetentionSpec => []Accounted` |
| `RoomyMailboxTells` | `RetentionSpec /\ [](Len(mailbox) < MaxUpdates) => []Told` |
| `UpdatesReachParent` | `RetentionSpec => []Told`, if there are at most `MaxUpdates` runs |
| `RetentionTypesHold` | `RetentionSpec => []RetentionTypeOK` |

`ServicesProofs`, for any numbers of dialogs, buses, requests, sessions and
containers, from the assumptions of the five services (`Spec` is the
specification of `MCServices`):

| Theorem | States |
|---|---|
| `OneDialogAtATime` | `DialogSpec => []OneOnScreen` |
| `ScreenIsAnnounced` | `DialogSpec => []ScreenAnnounced` |
| `ContainersAreOwned` | `BackendSpec => []NoneUnowned` |
| `AnswersAreOwn` | `SessionSpec => OwnAnswer` |
| `EveryoneIsAnswered` | `SessionSpec => []NobodyForgotten` |
| `ServicesTyped` | `Spec => []TypesOK` |
| `ServicesSafe` | `Spec => [](OneOnScreen /\ ScreenAnnounced /\ CommittedExactly /\ NobodyForgotten /\ NoneUnowned /\ Accounted) /\ OwnAnswer` |
| `ServicesTell` | `Spec => []Told`, if there are at most `MaxUpdates` runs |

The argument for the journal. That each marker continues the one before it is not inductive: a
commit appends what was reserved long ago. `JournalInv` adds what a reservation
was made on. A process believes in nothing but markers it has seen or written
(`BeliefsMarked`), and only the creator of a run looks at an empty row first
(`FirstLookIsCreators`), so a reservation that passes the comparison of its
belief with the head row is made on the newest marker (`HeadFollowsTranscript`)
unless a load has rolled the run back. Until its own marker is appended a
pending head is newer than all markers (`PendingAhead`) and belongs to one save
only (`ReservationsDistinct`). A commit requires that the head still is the
pending one it reserved, so what it appends is newer than all markers and
follows the last. `EveryStepHasAKind` sorts the steps into those that change
nothing of this (most), those that append a marker, those that reserve, those
that load and those that create a run; one lemma shows for each kind that
`JournalInv` is kept. The refinement maps the marks of a run with their rows to
the abstract history: a step that appends a marker is `Extend`, a load may be
`RollBack`, every other step leaves the history alone.

The argument for the leases (`LeaseInv`). That the owner of a lease row knows the
newest marker needs to know who may stand in a lease row at all: a token is
handed out once and lives in the row, in the ledger and in the acquisitions and
releases of one process only (`TokensOwned`), in a phase of that process that
goes with it (`LedgerInPhase`), and as long as no statement failed a live row is
known to its owner, which will give it back (`LeasesTracked`). While a head is
pending, the save that reserved it is the only one that could mark it
(`ReservedAlone`), so that a claim on a settled head, which takes over the head's
row as its belief, cannot be overtaken by a marker on its way. A frame is written
under a row of one's own, hence on the belief of its owner; a closed writer has
released, or is going to release, what it held.

The argument for the slot (`SlotInv`). A call that is past its reservation holds
it (`TokenHolder`) because every step that rewrites the reservation of a result
is made by its holder, or finds it free, or belongs to a process that stopped or
to a call that failed, and none of these can still be at a step that relies on
it: what stopped has no calls (`CallsPlaced`), and a recovery takes the token of
a live call only in its own process. `OneApplies` says why that is not the token
of a call at work: unless the result is in `crossed`, one call of a process at
most is on its way to apply or recover it, and once that one is registered
`applying` speaks for it. Both are conditional on `crossed` for a reason; the
code has no stronger promise (section 5). What a reservation is for follows the
status of the result (`PhaseOfResult`), which is why an end is final, whatever
crossed. That an offered result is not in the checkout rests on the revision
that was recorded before the patch: while HEAD is that revision, nothing the
user committed since contains the patch (`CheckoutTraced`), so a patch that is
not in the files was not applied, and as nobody else applies it, it will not be.
`Disposes` is the common form of all steps that touch a result, and one lemma
(`DisposesKeepsInv`) shows that it keeps the rules; `QuietKeepsDispositions`
does the same for the steps that touch none. For `WorkSurvives`, `OneDriver`
says that nobody restores the tree of a run that is at work: a run is driven by
one call at a time, at a step that fits its state.

The argument for the dialogs (`DialogInv`): a dialog that waits or is on screen
has its place in the line, one that has its turn has everybody before it
released, and only a dialog that is done is released; so of two on screen, the
later would have overtaken the earlier. For the announcements, the count of a bus is the number
of its dialogs in line that are neither shown nor gone, so that a dialog that
ends tells the bus exactly if no other would tell it otherwise; as long as no
signal fired, what is told late is told by the next one shown.

The argument for the containers: an entry of the cache leaves the map only by
being closed or by failing, and a failing start removes its own entry only. For
the answers: ids grow, so that two requests never share one, and every message
in a pipe, every process and every file operation carries the id of the request
it names. For `NobodyForgotten`: after an exit or a close nothing becomes pending
except what `late` holds, since a closed session refuses.

The argument for the run manager, whoever calls. A cancel removes the run behind
a write that stands in the queue of saves; `StateInv` says that each call that
waits for a save has one write there, and `CancelInv` that a run is settled by one
call, that the removal is begun once and by whom. So a cancel that returned found
the run removed or removed it. For the lease, `HolderInv` says which call will
give a held lease back: every path from an acquisition passes a release, and two
calls that share the lease after two resumes both come to it. Since a step moves
one call, each fact is shown for the call that moves (`CallSteps`, `SettleSteps`,
`LeaseSteps`, `OrderSteps`) and carried over to the others.

The argument for a serial parent. That a child is driven once is not inductive
either. `SerialInv` says that only one call works on the child (`OneWorks`) and
which call prepares one (`Prepared`, `Begins`): the tool starts or resumes a run
only when no call is in progress. The condition is needed: `/agents` may resume a
run that a failed save has parked while its operation still ends, and then two
operations meet (`lifecycle_two_drivers`). Until a shutdown `OpenInv` says more: at
most one call is busy at all (`Alone`), the tool waits for it or it works in the
background (`ToolWaits`), what the record says at each of its steps (`Staged`),
what the write it queued will say (`Content`), and what of that is on disk
(`Recorded`). Results are durable, children disposed, releases and the record in
order because of these. A shutdown makes a second call busy, so these theorems
speak of the time until one begins.

The argument for any parent (`CalmInv`). `raced` says that the agent tool acted on
a parked or ended run, or `/agents` on any run, while an earlier call was still
under way; what the code promises after that is little, and
`lifecycle_two_drivers` shows why. Until then one operation works on the child
(`WorksAlone`), also with `/agents`, polling and a shutdown. While no
write fails (`Mild`; the lease may go), an active run has somebody on the way to a
boundary (`Driven`). That is not inductive by itself: a settlement might take the
run from the operation that carried it and end without an outcome. `Settles` says
that a settlement ends without one only when the lease went, `StaysEnded` that a
run which ended is not made active again except by one that will be refused,
`TakenUp` that a parked run is resumed by one call alone, and `ToldToEnd` that an
operation goes on beside a settlement only if it was told to end. For
`ShutdownParks`, `WrittenOver` adds what storage will hold: the last record queued
that says somebody works on the run will be written over, by whoever works or by
a removal under way; a shutdown that has returned finds neither, so that what is
on disk can be restored. A serial parent never races, which gives it the first
theorem without that condition, also while it shuts down.

The argument for the transactions (`SqliteInv`). Calls stand in the line of their
view until they are answered (`InLineOnce`), so that a call at its turn belongs
to the innermost open transaction, and a drained transaction is the innermost.
The stack of snapshots therefore is the nesting of the transactions under way
(`Nested`). `SeenExactly` says what the connection sees, a write whose
transactions all succeeded or are under way, and that the snapshot of a
transaction differs from it in the writes inside that transaction: that is why a
rollback takes back exactly those. What is committed is what lies in no open
transaction. Facts about positions in a stack need an induction, which is done by
taking the least position at which they fail (`LeastNumber`).

The argument for the retention (`RegistryInv`): a run becomes a result only by a
step that then retains it, removing the first occurrence of an id loses no
other (`WithoutFirst`), and what is pruned leaves the registry with the order.

The argument for the mailbox (`MailInv`): it holds one update of a run at most
(`OnePerRun`), and in the background only a run whose result is complete has
nobody listening for it any more (`Listened`), so that the save of a question or
of an end is always followed by an update. The lemmas before say what the map
operations keep: `Kept` picks the updates at some positions by their rank among
them (`Ranks`, `EveryRank`), a reconciliation keeps exactly the updates that
still are the status of their run (`ReconciledUpdates`), and queueing evicts
nothing while there is room (`NoneEvicted`, with the pigeonhole principle when
there are few runs). A reconciliation therefore drops no update `Told` asks for,
and a delivery tells all that are left. The condition on the room cannot be
dropped, nor replaced by what the comment above `MAX_PENDING_UPDATES` counts; see
section 5.

The services together (`ServicesInv`): each step is one of the service that was
started and leaves the other four alone (`StepOfEach`), so that the conjunction of
the five invariants is inductive. For the types of a session, `Numbered` counts:
the next number is one more than the requests that have one, hence there is a
number for each.

Only model-checked:

- Liveness (`CloseTerminates`, `OperationsStop`, `EveryoneServed`, `CallsAnswered`,
  `AbortEnds`), since the proof system has neither fairness nor `ENABLED`.

Neither checked nor proved:

- `RetainedIsDurable`, `ChildDisposed`, `PromptedByOwner`, `ReleasedDurable` and
  `RecordMovesForward` with a parent that polls or whose user acts from `/agents`
  (section 5 names what breaks some of them), and all but `PromptedByOwner` once a
  shutdown began.
- `Told` with a full mailbox and more runs than it has places: it does not hold
  (section 5).

## 5. What the models showed

Runs that end in a violation, each a disagreement with a text of the repository
(quoted in `PROJECT.json`):

- `journal_fork`: a load whose view of the transcript is old settles an
  abandoned reservation behind the last marker, and the run forks.
- `lifecycle_stuck`: the settlement of a run is remembered for good; one that
  was downgraded to interrupted and continued never settles again.
- `lifecycle_two_drivers`: two resumes that are both accepted while the run is
  interrupted share the lease and both prompt the child.
- `container_exit`: the exit of a container fails the requests under way, but the
  session stays open; what is sent afterwards waits, a command until its caller
  aborts, a file request for good.
- `workspace_unfinalized`: a run continued after its result was prepared is
  recycled after its second end on the strength of the first result.

Observed in the models while writing them, and left out of the properties or
exempted there:

- Run manager. A parent that polls and cancels while a question is being parked
  may have its tombstone overwritten (`RecordMovesForward` is checked for a
  parent that waits). A shutdown that meets a run just finishing finalizes it a
  second time. A child whose creation ends after a shutdown gave up waiting is
  disposed by nobody. A cancel after the lease was lost waits for ever when the
  abort was announced before the child was prompted, and so does a shutdown.
  A prompt may go out although the lease was lost while the running checkpoint
  was written (`PromptedByOwner` allows `lost`). A cancel whose workspace check
  fails leaves the run for recovery in one order of events and removes it in
  another.
- Journal. An owner that died keeps its reservation from being superseded until
  its lease expires, because a load looks at the expiry only, although a claim
  reclaims the lease of a dead process at once. A progress frame is written on the word of this process's own ledger,
  so a process whose lease expired can overwrite the new owner's frame. A loss
  of the lease is forgotten by a claim that was queued before it.
- Workspace. Two calls of one process that apply the same abandoned
  application both pass the look at `activeApplyingResultIds`
  (`results.ts:218`) and both take the token (249-253 accepts any token of the
  same process): the first goes on without it. An application may lose its
  token in the same way between its transaction and `results.ts:609`. With the
  exemption of `crossed` taken out, TLC finds `TokenHolder` violated after 13
  states and `PreparedNotInParent` after 18: a recovery reads the checkout,
  the patch of the other call lands, and the recovery puts the result on offer
  although it is applied. Whoever ends first also removes the registration of
  the other (407, 625), so that a third call may take over what is still being
  applied. `agent-workspaces.md:15` says that "competing dispositions cannot
  silently act on the same result".
- Workspace. `reconcileNoChangeAgentWorkspaceLeases` does not ask whether the
  run that leases the slot is at work. If the release of a run without changes
  was interrupted and the run is continued, any start that looks before its
  first edit resets its worktree, discards its earlier result and gives the
  slot away; TLC reaches this in 15 states. `agent-workspaces.md:13` says that
  a live worker "cannot be reset underneath itself" (line 9 calls these rules
  the target behaviour).
- Workspace. A discard and a release without changes decide to reset the
  worktree before they reserve their result; the slot may have been recycled in
  between (`WorkSurvives` exempts exactly these resets). `/agents` may apply or
  retain the earlier result of a run that is being continued, which frees the
  slot under the worker (`SlotKept` exempts it). A user who commits while an
  abandoned application waits leaves it applying and reserved for good. A
  collect that comes after the slot was recycled may commit the edits of another
  worker as its result. A continuation that fails at its checkpoint keeps the
  slot it has just claimed. A discard that fails after it deleted the ref leaves
  a prepared result without commits; `ResultReachable` therefore speaks of
  executions in which nothing fails.

- Dialogs. When a queued dialog of a bus aborts while the last one shown has
  just ended, its bus may stay told that a dialog is on screen and the working
  indicator may stay hidden until the next dialog (`ScreenAnnounced` speaks of
  rest without aborts).
- SQLite. A callback that awaits `close()` waits for itself. `transaction()`
  called on an open view by code outside of its callback queues a new
  transaction of the root. A ROLLBACK that fails is swallowed.
- Container backend. A start that times out leaves its container up under the
  name of the session, so that the next start is refused the name while it lives
  (`NoneUnowned` exempts it).
- Retention. A run that is collected while its terminal save is under way is
  retained after it was removed (`retainBackgroundResult`), and a recycled run
  leaves the registry but not the retention order (`parkWorkspaceRunForReuse`).
  If such a run is continued under its old id, the next retention prunes the run
  at work. `Accounted` holds nevertheless: the order names every result, and more.
- Mailbox. A terminal save that fails after the slot of its run was given away
  makes more active runs than the limit. With more runs than updates the oldest
  update is evicted before a stale one is dropped (`lifecycle.ts:285` queues,
  `:286` reconciles), and the parent then misses a run that waits for it. The
  bound of 24 is "20 retained terminal results plus four active/waiting runs"
  (`mailbox.ts:7`), but a run whose terminal save is under way is neither, and one
  that was just pruned still has its update: with one active run, one retained
  result and two updates, TLC finds a third run whose question is evicted.
  Background runs that are interrupted or restored are announced to nobody. A
  continuation of a run without a workspace discards its retained result before
  the start is validated.

## 6. What is not modelled

- Journal: deletion of unreachable snapshots and rows, catalog columns, which
  transcript branch a run may resume from, the mode without markers, reuse of
  process ids. A claim and the watch it starts are one step, and a lease's clock
  is the action `Expire`.
- Run manager: restoration, progress frames, switching the session tree. Closing,
  two operations of one id at once and a start that fails are in `RunLifecycle`
  for one run and not in `RunRetention`. The lease
  acquired by `createRun` is part of the step that completes the reservation of
  the run, and an abort settles at once.
- Workspace: creating, setting up and discarding a slot, recovery of a stale
  lease (`recoverAgentWorkspaceLease`, `releaseAgentWorkspaceLeaseForRecovery`),
  reconciliation of the base revision, runs parked by a question to the parent
  (treated as interrupted). A recovery compares HEAD with the revision it read
  before it claimed; the model reads the row again, which only adds outcomes.
- SQLite: retries while the file is busy (part of the command they repeat), a
  failing ROLLBACK, migrations, several processes on one file (the journal and
  the workspace slot have them).
- Container: output chunks, a dispatcher of another protocol version, the error
  event of a pipe that breaks before the exit is seen, two working directories of
  session (their containers would compete for one name), the choice between
  container and bubblewrap. A command is one process that goes when it is killed:
  a descendant that ignores SIGTERM and survives its shell, or a dispatcher that
  hangs, is not in `AbortEnds`, and a forced removal of a container always works.
- Dialogs: the components on screen and their keys.
- Everything listed as `not_modelled` in `PROJECT.json`: formatting, rendering,
  text heuristics, configuration, statistics, vendored code.
- Liveness and `ENABLED` are checked by TLC only; the proof system handles neither.

## 7. Plan

Done: the journal, the run manager, the workspace slot, the dialog queue, SQLite
transactions, the container session and its cache, retention and mailbox, each
with the proofs that section 4 lists.

Next, in this order; the order follows what is lost when it goes wrong:

1. Restoration (`restore.ts`), composed with the records `RunLifecycle` leaves:
   `ShutdownParks` is what it may rely on.
2. The serial parent's durability and record during a shutdown.
3. Reminders, the failure cooldown and the decision gate; compaction.

Modules of one subject, or of services that share nothing, share a run.
