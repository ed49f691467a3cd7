---------------------------- MODULE RunLifecycle ----------------------------
(* The life of one delegated run in an AgentRunManager: start, continue,     *)
(* cancel, collect, detach and shutdown, each an async function whose awaits *)
(* let the others run in between.  A task is one call of such a function;    *)
(* pc[t] names the await it is suspended at.  An action is everything that   *)
(* runs from one await to the next.                                          *)
(*                                                                           *)
(* Durable snapshot markers are active (usesSnapshotMarkers): every boundary *)
(* waits for its checkpoint.  Progress frames, traces, events, usage and     *)
(* question texts are left out.                                              *)
EXTENDS Naturals, Sequences, FiniteSets, SequencesExt

CONSTANTS
  Task,       \* calls that can be made, each once
  Calls,      \* kinds of call that are made besides start
  Browser,    \* TRUE: /agents may act while the agent tool's call is pending
  Polls,      \* TRUE: the tool acts on a status before it is notified of it
  Faults,     \* faults that may happen, each once: "save", "checkpoint", "lease"
  None,
  Settled

Terminal == {"completed", "failed", "aborted", "canceled"}
Active   == {"starting", "running"}
Parked   == {"waiting_for_parent", "interrupted"}
Status   == Terminal \cup Active \cup Parked

ASSUME LifecycleAssumption ==
  /\ Calls \subseteq {"resume", "cancel", "collect", "shutdown"}
  /\ Browser \in BOOLEAN /\ Polls \in BOOLEAN
  /\ Faults \subseteq {"save", "checkpoint", "lease"}
  /\ None \notin Task /\ Settled \notin Task /\ None # Settled
  /\ None \notin Terminal

VARIABLES
  status,          \* run.status
  registered,      \* the registry holds the run
  background,      \* run.background
  detachable,      \* run.detachable
  handle,          \* run.handle is defined
  disposed,        \* run.disposed
  asked,           \* cancelRequested and shutdownRequested
  aborting,        \* run.abortPromise is defined
  told,            \* tasks whose child prompt was told to stop
  lease,           \* run.continuationLease is defined
  lost,            \* run.continuationLeaseLost
  ledger,          \* who owns the lease in the database
  operation,       \* run.operation: the task driving the child
  settled,         \* run.operationSettled
  backgroundTask,  \* run.backgroundTask
  outcome,         \* run.terminalOutcome
  completion,      \* run.terminalCompletion: its creator, or Settled
  retained,        \* the registry retains the run as a terminal result
  collected,       \* collectedOutcomes holds the run
  closing,         \* the manager is shutting down
  durable,         \* status of the last checkpoint that reached storage
  queue,           \* checkpoint writes in flight, oldest first
  tool,            \* the task whose agent tool call has not returned
  call,            \* what each task is
  pc,              \* the await a task is suspended at
  want,            \* terminal status to commit, or status to fall back to
  awaits,          \* operation a cancel or a shutdown waits for
  signalled,       \* tasks whose abort signal fired
  faults,          \* faults so far
  raced            \* a call was made while another one, or its end, was
                   \* pending: by /agents, or by a parent that polls

lifeVars  == <<status, registered, background, detachable>>
childVars == <<handle, disposed, aborting, told>>
leaseVars == <<lease, ledger>>
opVars    == <<operation, settled, backgroundTask>>
endVars   == <<outcome, completion, retained, collected>>
saveVars  == <<durable, queue, faults>>
taskVars  == <<call, pc, want, awaits>>
userVars  == <<asked, closing, tool, signalled, raced>>
vars == <<lifeVars, childVars, leaseVars, lost, opVars, endVars, saveVars,
          taskVars, userVars>>

Saving == {"reserve", "adopt", "repair", "revive", "begin", "settle", "park",
           "retain", "bury", "yield", "preserve"}
Label  == Saving \cup {"idle", "setup", "acquire", "prompt", "question",
           "finish", "interrupt", "join", "halt", "remove", "drainSetup",
           "drainOperation", "back", "done"}

TypeOK ==
  /\ status \in Status \cup {"none"}
  /\ registered \in BOOLEAN /\ background \in BOOLEAN /\ detachable \in BOOLEAN
  /\ handle \in BOOLEAN /\ disposed \in BOOLEAN /\ aborting \in BOOLEAN
  /\ told \subseteq Task
  /\ asked \subseteq {"cancel", "shutdown"}
  /\ lease \in BOOLEAN /\ lost \in BOOLEAN
  /\ ledger \in {"free", "mine", "other"}
  /\ operation \in Task \cup {None} /\ settled \in Task \cup {None}
  /\ backgroundTask \in Task \cup {None}
  /\ outcome \in Terminal \cup {None}
  /\ completion \in Task \cup {None, Settled}
  /\ retained \in BOOLEAN /\ collected \in BOOLEAN /\ closing \in BOOLEAN
  /\ durable \in Status \cup {"none", "removed"}
  /\ queue \in Seq([task: Task, status: Status \cup {"removed"}, refused: BOOLEAN])
  /\ tool \in Task \cup {None}
  /\ call \in [Task -> {"none", "start", "resume", "cancel", "collect", "shutdown"}]
  /\ pc \in [Task -> Label]
  /\ want \in [Task -> Status \cup {"none", "removed"}]
  /\ awaits \in [Task -> Task \cup {None}]
  /\ signalled \subseteq Task
  /\ faults \subseteq Faults
  /\ raced \in BOOLEAN

Init ==
  /\ status = "none" /\ registered = FALSE /\ background = FALSE
  /\ detachable = FALSE /\ handle = FALSE /\ disposed = FALSE
  /\ aborting = FALSE /\ told = {} /\ asked = {}
  /\ lease = FALSE /\ lost = FALSE /\ ledger = "free"
  /\ operation = None /\ settled = None /\ backgroundTask = None
  /\ outcome = None /\ completion = None /\ retained = FALSE
  /\ collected = FALSE /\ closing = FALSE /\ durable = "none"
  /\ queue = <<>> /\ tool = None
  /\ call = [t \in Task |-> "none"] /\ pc = [t \in Task |-> "idle"]
  /\ want = [t \in Task |-> "none"] /\ awaits = [t \in Task |-> None]
  /\ signalled = {} /\ faults = {} /\ raced = FALSE

-----------------------------------------------------------------------------
(* Promise reactions run before any I/O callback or user input.  A task is   *)
(* ready when what it awaits inside this process has settled.                *)

Over(t) == t \in Task => pc[t] = "done"

(* Mistake: a cancel does not wait for the background task.                  *)
ReadyAtOnce(t) ==
  \/ pc[t] \in {"back", "halt"}
  \/ pc[t] = "join" /\ completion = Settled
  \/ pc[t] = "remove" /\ queue = <<>>

(* back: its promise has settled; halt: cancel awaits the operation and the  *)
(* background task; remove: waitForPending; drain: the phases of shutdown.   *)
Ready(t) ==
  \/ pc[t] = "back"
  \/ pc[t] = "join" /\ completion = Settled
  \/ pc[t] = "halt" /\ Over(awaits[t]) /\ (background => backgroundTask = None)
  \/ pc[t] = "remove" /\ queue = <<>>
  \/ pc[t] = "drainSetup" /\ \A p \in Task : pc[p] # "setup"
  \/ pc[t] = "drainOperation" /\ Over(awaits[t])

(* No call is in progress and nothing is in flight.                          *)
Idle == \A t \in Task : pc[t] \in {"idle", "done"}

Turn == \A t \in Task : ~Ready(t)

At(t, label) == pc[t] = label /\ Turn

(* The next call takes any task that has not been used yet: they are alike.  *)
Unused(t) == pc[t] = "idle" /\ t = (CHOOSE u \in Task : pc[u] = "idle") /\ Turn

Goto(t, label) == pc' = [pc EXCEPT ![t] = label]

Fault(kind) == kind \in Faults \ faults /\ faults' = faults \cup {kind}

(* AgentRunCheckpointStore.save: a write projects the run when it is called, *)
(* writes reach storage in order, and a run that lost its lease writes       *)
(* nothing.                                                                  *)
Saved(q, t, s) == Append(q, [task |-> t, status |-> s, refused |-> lost])

Entry(t) == CHOOSE i \in DOMAIN queue : queue[i].task = t
Rest(t)  == RemoveAt(queue, Entry(t))

SaveEnds(t, ok) ==
  LET entry == queue[Entry(t)]
  IN  \/ /\ ok /\ ~entry.refused /\ Entry(t) = 1
         /\ durable' = entry.status /\ UNCHANGED faults
      \/ /\ ~ok /\ entry.refused
         /\ UNCHANGED <<durable, faults>>
      \/ /\ ~ok /\ ~entry.refused /\ Entry(t) = 1
         /\ Fault("save") /\ UNCHANGED durable

(* AgentRunManager.checkpointWorkspace settles or throws.                    *)
WorkspaceChecked(ok) ==
  \/ ok /\ UNCHANGED faults
  \/ ~ok /\ Fault("checkpoint")

(* Mistake: a busy lease is taken for granted.                               *)
AcquireBusy == ~lease /\ UNCHANGED leaseVars

Acquire ==
  /\ ~lease /\ ledger = "free"
  /\ lease' = TRUE /\ ledger' = "mine"

Release ==
  /\ lease' = FALSE
  /\ ledger' = IF lease /\ ledger = "mine" THEN "free" ELSE ledger

(* Mistake: the child is never told.                                         *)
AbortRunSilently == aborting' = handle /\ UNCHANGED told

(* Once: a second request returns the first one's promise.                   *)
AbortRun ==
  IF handle /\ ~aborting
    THEN /\ aborting' = TRUE
         /\ told' = told \cup {t \in Task : pc[t] = "prompt"}
    ELSE UNCHANGED <<aborting, told>>

DisposeRun ==
  /\ disposed' = TRUE
  /\ handle' = (handle /\ disposed)
  /\ aborting' = (aborting /\ disposed)
  /\ UNCHANGED told

-----------------------------------------------------------------------------
(* Settling.  Each fragment says where the task goes, what it wants and who  *)
(* created terminalCompletion.                                               *)

(* The first caller settles the run, later ones await that settlement.       *)
FinishTerminal(t, s) ==
  \/ /\ outcome # None \/ completion = Settled
     /\ Goto(t, "back") /\ UNCHANGED <<want, completion>>
  \/ /\ outcome = None /\ completion \in Task
     /\ Goto(t, "join") /\ UNCHANGED <<want, completion>>
  \/ /\ outcome = None /\ completion = None
     /\ Goto(t, "finish")
     /\ want' = [want EXCEPT ![t] = s] /\ completion' = t

(* Mistake: an interruption is committed as a terminal result.               *)
FinishInterruptedForGood(t) ==
  /\ Goto(t, "finish")
  /\ want' = [want EXCEPT ![t] = "interrupted"] /\ completion' = t

FinishInterrupted(t) == Goto(t, "interrupt") /\ UNCHANGED <<want, completion>>

(* Shutdown keeps a durable transcript restorable, anything else is aborted. *)
StopWork(t) ==
  IF closing THEN FinishInterrupted(t) ELSE FinishTerminal(t, "aborted")

(* Mistake: the record is projected before the status changes.               *)
FinalizeInterruptedLate(t, q) ==
  /\ status' = "interrupted"
  /\ queue' = Saved(q, t, status)
  /\ Goto(t, "yield")

(* The park shared by every path that must leave the run resumable.          *)
FinalizeInterrupted(t, q) ==
  /\ status' = "interrupted"
  /\ queue' = Saved(q, t, "interrupted")
  /\ Goto(t, "yield")

CompletionEnds(t) == completion' = IF completion = t THEN Settled ELSE completion

(* Out of the registry at once; the tombstone waits for writes in flight.    *)
RemoveRun(t) ==
  /\ registered' = FALSE /\ retained' = FALSE
  /\ Goto(t, "remove")

(* beginOperation: cancellation wins, then lost ownership, then shutdown or  *)
(* abort; a run becomes running only after those.                            *)
BeginOperation(t, q) ==
  /\ detachable' = (detachable \/ ~background)
  /\ settled' = IF background THEN settled ELSE t
  /\ \/ /\ "cancel" \in asked
        /\ FinishTerminal(t, "canceled")
        /\ queue' = q /\ UNCHANGED <<status, aborting, told>>
     \/ /\ "cancel" \notin asked /\ lost
        /\ FinishInterrupted(t)
        /\ queue' = q /\ UNCHANGED <<status, aborting, told>>
     \/ /\ "cancel" \notin asked /\ ~lost
        /\ closing \/ "shutdown" \in asked \/ t \in signalled
        /\ IF t \in signalled THEN AbortRun ELSE UNCHANGED <<aborting, told>>
        /\ StopWork(t)
        /\ queue' = q /\ UNCHANGED status
     \/ /\ asked = {} /\ ~lost /\ ~closing /\ t \notin signalled
        /\ status' = "running"
        /\ queue' = Saved(q, t, "running")
        /\ Goto(t, "begin")
        /\ UNCHANGED <<want, completion, aborting, told>>

-----------------------------------------------------------------------------
(* Starting.                                                                 *)

(* start: the identity is claimed and its checkpoint reserved.               *)
Start(t, inBackground) ==
  /\ Unused(t) /\ status = "none" /\ ~closing /\ tool = None
  /\ status' = "starting" /\ registered' = TRUE /\ background' = inBackground
  /\ queue' = Saved(queue, t, "starting")
  /\ call' = [call EXCEPT ![t] = "start"] /\ Goto(t, "reserve")
  /\ tool' = t
  /\ UNCHANGED <<detachable, childVars, leaseVars, lost, opVars, endVars,
                 durable, faults, want, awaits, asked, closing, signalled, raced>>

(* createRun after its reservation: the lease of a fresh instance is free;   *)
(* a background start returns to its caller and goes on by itself.           *)
Reserved(t, ok) ==
  /\ At(t, "reserve") /\ SaveEnds(t, ok) /\ queue' = Rest(t)
  /\ IF ok
       THEN /\ Acquire
            /\ Goto(t, "setup") /\ UNCHANGED registered
            /\ tool' = IF background THEN None ELSE tool
            /\ backgroundTask' = IF background THEN t ELSE backgroundTask
       ELSE /\ registered' = FALSE /\ Goto(t, "done") /\ tool' = None
            /\ UNCHANGED <<leaseVars, backgroundTask>>
  /\ collected' = (collected /\ ~ok)
  /\ UNCHANGED <<status, background, detachable, childVars, lost, operation,
                 settled, outcome, completion, retained, call, want, awaits,
                 asked, closing, signalled, raced>>

(* createChildSession: the factory resolves, or fails.                       *)
ChildCreated(t) ==
  /\ At(t, "setup")
  /\ handle' = TRUE
  /\ queue' = Saved(queue, t, status) /\ Goto(t, "adopt")
  /\ UNCHANGED <<lifeVars, disposed, aborting, told, leaseVars, lost, opVars,
                 endVars, durable, faults, call, want, awaits, userVars>>

ChildFailed(t) ==
  /\ At(t, "setup")
  /\ FinishTerminal(t, "failed")
  /\ UNCHANGED <<lifeVars, childVars, leaseVars, lost, opVars, outcome,
                 retained, collected, saveVars, call, awaits, userVars>>

(* setupRun after the child's checkpoint: settle what was asked meanwhile,   *)
(* or prompt the child.                                                      *)
Adopted(t, ok) ==
  /\ At(t, "adopt") /\ SaveEnds(t, ok)
  /\ \/ /\ ~ok
        /\ FinishTerminal(t, "failed") /\ queue' = Rest(t)
        /\ UNCHANGED <<status, detachable, settled, aborting, told>>
     \/ /\ ok /\ "cancel" \in asked
        /\ FinishTerminal(t, "canceled") /\ queue' = Rest(t)
        /\ UNCHANGED <<status, detachable, settled, aborting, told>>
     \/ /\ ok /\ "cancel" \notin asked
        /\ closing \/ "shutdown" \in asked \/ t \in signalled
        /\ IF t \in signalled THEN AbortRun ELSE UNCHANGED <<aborting, told>>
        /\ StopWork(t) /\ queue' = Rest(t)
        /\ UNCHANGED <<status, detachable, settled>>
     \/ /\ ok /\ asked = {} /\ ~closing /\ t \notin signalled
        /\ BeginOperation(t, Rest(t))
  /\ UNCHANGED <<registered, background, handle, disposed, leaseVars, lost,
                 operation, backgroundTask, outcome, retained, collected, call,
                 awaits, userVars>>

-----------------------------------------------------------------------------
(* Continuing a parked run.                                                  *)

(* The tool's calls are made one after the other, those of /agents whenever  *)
(* the user likes.  A parent that does not poll acts on a waiting or settled *)
(* run when it is notified: once what led there has ended.                   *)
ByTool(t) ==
  /\ tool = None /\ tool' = t
  /\ Polls \/ status \in Active \/ Idle
  /\ raced' = (raced \/ (status \notin Active /\ ~Idle))

ByBrowser == Browser /\ UNCHANGED tool /\ raced' = (raced \/ ~Idle)

(* Mistake: a run may be resumed whatever its status.                        *)
ResumeAnything(t, byTool) ==
  /\ Unused(t) /\ registered /\ ~closing
  /\ \/ byTool /\ ByTool(t)
     \/ ~byTool /\ ByBrowser /\ status = "interrupted"
  /\ call' = [call EXCEPT ![t] = "resume"] /\ Goto(t, "acquire")
  /\ want' = [want EXCEPT ![t] = status]
  /\ UNCHANGED <<lifeVars, childVars, leaseVars, lost, opVars, endVars,
                 saveVars, awaits, asked, closing, signalled>>

(* resume: the status is checked when it is called.  The browser resumes     *)
(* interrupted runs, whatever the tool is doing.                             *)
Resume(t, byTool) ==
  /\ Unused(t) /\ registered /\ status \in Parked /\ ~closing
  /\ \/ byTool /\ ByTool(t)
     \/ ~byTool /\ ByBrowser /\ status = "interrupted"
  /\ call' = [call EXCEPT ![t] = "resume"] /\ Goto(t, "acquire")
  /\ want' = [want EXCEPT ![t] = status]
  /\ UNCHANGED <<lifeVars, childVars, leaseVars, lost, opVars, endVars,
                 saveVars, awaits, asked, closing, signalled>>

(* acquireWithRecovery returns once run.continuationLease is set, by this    *)
(* call or by another; an interrupted transcript is repaired first.          *)
Acquired(t) ==
  /\ At(t, "acquire")
  /\ \/ Acquire
     \/ lease /\ UNCHANGED leaseVars
  /\ IF status = "interrupted"
       THEN /\ queue' = Saved(queue, t, "interrupted")
            /\ Goto(t, "repair") /\ UNCHANGED status
       ELSE /\ status' = "running"
            /\ queue' = Saved(queue, t, "running") /\ Goto(t, "revive")
  /\ UNCHANGED <<registered, background, detachable, childVars, lost, opVars,
                 endVars, durable, faults, call, want, awaits, userVars>>

(* Mistake: a failed preparation leaves the status as it is.                 *)
ResumeFailsRunning(t) ==
  /\ UNCHANGED status
  /\ Release
  /\ Goto(t, "done")
  /\ tool' = IF tool = t THEN None ELSE tool

(* A failed preparation puts the status back and gives the lease up.         *)
ResumeFails(t) ==
  /\ status' = want[t]
  /\ Release
  /\ Goto(t, "done")
  /\ tool' = IF tool = t THEN None ELSE tool

(* The wait for a busy lease ends: deadline, shutdown or abort.              *)
AcquireGivesUp(t) ==
  /\ At(t, "acquire")
  /\ closing \/ t \in signalled \/ (~lease /\ ledger # "free")
  /\ ResumeFails(t)
  /\ UNCHANGED <<registered, background, detachable, childVars, lost, opVars,
                 endVars, saveVars, call, want, awaits, asked, closing, signalled, raced>>

Repaired(t, ok) ==
  /\ At(t, "repair") /\ SaveEnds(t, ok)
  /\ IF ok
       THEN /\ status' = "running"
            /\ queue' = Saved(Rest(t), t, "running") /\ Goto(t, "revive")
            /\ UNCHANGED <<leaseVars, tool>>
       ELSE ResumeFails(t) /\ queue' = Rest(t)
  /\ UNCHANGED <<registered, background, detachable, childVars, lost, opVars,
                 endVars, call, want, awaits, asked, closing, signalled, raced>>

(* A background run goes on by itself, a foreground one keeps its caller.    *)
Revived(t, ok) ==
  /\ At(t, "revive") /\ SaveEnds(t, ok)
  /\ IF ok
       THEN /\ BeginOperation(t, Rest(t))
            /\ backgroundTask' = IF background THEN t ELSE backgroundTask
            /\ tool' = IF background /\ tool = t THEN None ELSE tool
            /\ UNCHANGED leaseVars
       ELSE /\ ResumeFails(t) /\ queue' = Rest(t)
            /\ UNCHANGED <<detachable, settled, aborting, told, want,
                           completion, backgroundTask>>
  /\ UNCHANGED <<registered, background, handle, disposed, lost, operation,
                 outcome, retained, collected, call, awaits, asked, closing,
                 signalled, raced>>

-----------------------------------------------------------------------------
(* Driving the child to its next boundary.                                   *)

Interrupted(t) ==
  "cancel" \in asked \/ lost \/ t \in signalled \/ "shutdown" \in asked \/ closing

(* resolveDriveInterruption.                                                 *)
DriveInterruption(t) ==
  \/ "cancel" \in asked /\ FinishTerminal(t, "canceled")
  \/ "cancel" \notin asked /\ lost /\ FinishInterrupted(t)
  \/ "cancel" \notin asked /\ ~lost /\ Interrupted(t) /\ StopWork(t)

(* A rejected prompt is a failure unless somebody asked for the end.         *)
PromptFailure(t) ==
  \/ lost /\ FinishInterrupted(t)
  \/ ~lost /\ asked = {} /\ t \notin signalled /\ FinishTerminal(t, "failed")
  \/ ~lost /\ (asked # {} \/ t \in signalled) /\ DriveInterruption(t)

(* beginOperation after its checkpoint, up to handle.prompt.  Only a         *)
(* cancellation or the caller's signal is looked at again.                   *)
Begun(t, ok) ==
  /\ At(t, "begin") /\ SaveEnds(t, ok) /\ queue' = Rest(t)
  /\ operation' = IF ok THEN t ELSE operation
  /\ settled' = IF ok THEN t ELSE settled
  /\ \/ /\ ~ok /\ FinishTerminal(t, "failed")
        /\ UNCHANGED <<aborting, told>>
     \/ /\ ok /\ "cancel" \in asked /\ DriveInterruption(t)
        /\ UNCHANGED <<aborting, told>>
     \/ /\ ok /\ "cancel" \notin asked /\ t \in signalled
        /\ IF background THEN UNCHANGED <<aborting, told>> ELSE AbortRun
        /\ DriveInterruption(t)
     \/ /\ ok /\ "cancel" \notin asked /\ t \notin signalled /\ ~handle
        /\ PromptFailure(t)
        /\ UNCHANGED <<aborting, told>>
     \/ /\ ok /\ "cancel" \notin asked /\ t \notin signalled /\ handle
        /\ Goto(t, "prompt")
        /\ UNCHANGED <<want, completion, aborting, told>>
  /\ UNCHANGED <<lifeVars, handle, disposed, leaseVars, lost, backgroundTask,
                 outcome, retained, collected, call, awaits, userVars>>

(* The child's prompt resolves: its transcript has to be checkpointed.       *)
PromptSettles(t) ==
  /\ At(t, "prompt")
  /\ IF lost THEN FinishInterrupted(t) /\ UNCHANGED queue
             ELSE /\ queue' = Saved(queue, t, status) /\ Goto(t, "settle")
                  /\ UNCHANGED <<want, completion>>
  /\ UNCHANGED <<lifeVars, childVars, leaseVars, lost, opVars, outcome,
                 retained, collected, durable, faults, call, awaits, userVars>>

PromptRejects(t) ==
  /\ At(t, "prompt") /\ PromptFailure(t)
  /\ UNCHANGED <<lifeVars, childVars, leaseVars, lost, opVars, outcome,
                 retained, collected, saveVars, call, awaits, userVars>>

(* The settled checkpoint, then the child's outcome: a question parks the    *)
(* run, an answer completes it, an error fails it.                           *)
OperationSettled(t, ok) ==
  /\ At(t, "settle") /\ SaveEnds(t, ok) /\ queue' = Rest(t)
  /\ \/ /\ ~ok /\ AbortRun /\ FinishInterrupted(t) /\ UNCHANGED status
     \/ /\ ok /\ Interrupted(t) /\ DriveInterruption(t)
        /\ UNCHANGED <<status, aborting, told>>
     \/ /\ ok /\ ~Interrupted(t)
        /\ status' = "waiting_for_parent" /\ Goto(t, "question")
        /\ UNCHANGED <<want, completion, aborting, told>>
     \/ /\ ok /\ ~Interrupted(t)
        /\ \E s \in {"completed", "failed"} : FinishTerminal(t, s)
        /\ UNCHANGED <<status, aborting, told>>
  /\ UNCHANGED <<registered, background, detachable, handle, disposed,
                 leaseVars, lost, opVars, outcome, retained, collected, call,
                 awaits, userVars>>

(* Mistake: the lease goes before the question is durable.                   *)
QuestionCheckedEarly(t, ok) ==
  /\ At(t, "question") /\ WorkspaceChecked(ok)
  /\ IF ok THEN /\ queue' = Saved(queue, t, status) /\ Goto(t, "park")
                /\ Release /\ UNCHANGED status
           ELSE FinalizeInterrupted(t, queue) /\ UNCHANGED leaseVars
  /\ UNCHANGED <<registered, background, detachable, childVars, lost, opVars,
                 endVars, durable, call, want, awaits, userVars>>

(* handleParentQuestion: the lease goes only once the question is durable.   *)
QuestionChecked(t, ok) ==
  /\ At(t, "question") /\ WorkspaceChecked(ok)
  /\ IF ok THEN queue' = Saved(queue, t, status) /\ Goto(t, "park") /\ UNCHANGED status
           ELSE FinalizeInterrupted(t, queue)
  /\ UNCHANGED <<registered, background, detachable, childVars, leaseVars, lost,
                 opVars, endVars, durable, call, want, awaits, userVars>>

QuestionSaved(t, ok) ==
  /\ At(t, "park") /\ SaveEnds(t, ok)
  /\ IF ok THEN queue' = Rest(t) /\ Release /\ Goto(t, "back") /\ UNCHANGED status
           ELSE FinalizeInterrupted(t, Rest(t)) /\ UNCHANGED leaseVars
  /\ UNCHANGED <<registered, background, detachable, childVars, lost, opVars,
                 endVars, call, want, awaits, userVars>>

-----------------------------------------------------------------------------
(* Finishing.                                                                *)

(* finishInterrupted: a failing workspace checkpoint only changes its text.  *)
InterruptChecked(t) ==
  /\ At(t, "interrupt")
  /\ FinalizeInterrupted(t, queue)
  /\ UNCHANGED <<registered, background, detachable, childVars, leaseVars, lost,
                 opVars, endVars, durable, faults, call, want, awaits, userVars>>

InterruptSaved(t, ok) ==
  /\ At(t, "yield") /\ SaveEnds(t, ok) /\ queue' = Rest(t)
  /\ Release /\ CompletionEnds(t) /\ Goto(t, "back")
  /\ UNCHANGED <<lifeVars, childVars, lost, opVars, outcome, retained,
                 collected, call, want, awaits, userVars>>

(* finishTerminalInternal: a failing workspace checkpoint parks the run, a   *)
(* foreground result is removed, a background one has to become durable.     *)
TerminalChecked(t, ok) ==
  /\ At(t, "finish") /\ WorkspaceChecked(ok)
  /\ IF ~ok
       THEN FinalizeInterrupted(t, queue) /\ UNCHANGED <<outcome, registered, retained>>
       ELSE /\ status' = want[t] /\ outcome' = want[t]
            /\ IF background
                 THEN /\ queue' = Saved(queue, t, want[t]) /\ Goto(t, "retain")
                      /\ UNCHANGED <<registered, retained>>
                 ELSE RemoveRun(t) /\ UNCHANGED queue
  /\ UNCHANGED <<background, detachable, childVars, leaseVars, lost, opVars,
                 completion, collected, durable, call, want, awaits, userVars>>

(* Mistake: a result that could not be written is retained.                  *)
ResultKept(t, ok) ==
  /\ At(t, "retain") /\ SaveEnds(t, ok) /\ queue' = Rest(t)
  /\ Release /\ CompletionEnds(t) /\ Goto(t, "back")
  /\ retained' = TRUE /\ DisposeRun
  /\ UNCHANGED <<lifeVars, lost, opVars, outcome, collected, call, want,
                 awaits, userVars>>

(* Mistake: the lease of a retained run is not released.                     *)
ResultSavedHolding(t, ok) ==
  /\ At(t, "retain") /\ SaveEnds(t, ok) /\ queue' = Rest(t)
  /\ CompletionEnds(t) /\ Goto(t, "back")
  /\ IF ok THEN retained' = TRUE /\ DisposeRun /\ UNCHANGED <<status, outcome>>
           ELSE /\ status' = "interrupted" /\ outcome' = None
                /\ UNCHANGED <<retained, childVars>>
  /\ UNCHANGED <<registered, background, detachable, leaseVars, lost, opVars,
                 collected, call, want, awaits, userVars>>

(* retainBackgroundResult, or revertTerminalToInterrupted.                   *)
ResultSaved(t, ok) ==
  /\ At(t, "retain") /\ SaveEnds(t, ok) /\ queue' = Rest(t)
  /\ Release /\ CompletionEnds(t) /\ Goto(t, "back")
  /\ IF ok THEN retained' = TRUE /\ DisposeRun /\ UNCHANGED <<status, outcome>>
           ELSE /\ status' = "interrupted" /\ outcome' = None
                /\ UNCHANGED <<retained, childVars>>
  /\ UNCHANGED <<registered, background, detachable, lost, opVars, collected,
                 call, want, awaits, userVars>>

(* removeRun after the writes in flight: shutdown leaves no tombstone.       *)
Unpending(t) ==
  /\ pc[t] = "remove" /\ queue = <<>>
  /\ IF call[t] = "shutdown"
       THEN Release /\ DisposeRun /\ Goto(t, "back") /\ UNCHANGED queue
       ELSE /\ queue' = Saved(queue, t, "removed") /\ Goto(t, "bury")
            /\ UNCHANGED <<leaseVars, childVars>>
  /\ UNCHANGED <<lifeVars, lost, opVars, endVars, durable, faults, call, want,
                 awaits, userVars>>

(* Mistake: the child is not disposed with its run.                          *)
BuriedAlive(t, ok) ==
  /\ At(t, "bury") /\ SaveEnds(t, ok) /\ queue' = Rest(t)
  /\ Release /\ CompletionEnds(t) /\ Goto(t, "back")
  /\ UNCHANGED <<lifeVars, childVars, lost, opVars, outcome, retained,
                 collected, call, want, awaits, userVars>>

(* A tombstone that does not reach storage is not retried.                   *)
Buried(t, ok) ==
  /\ At(t, "bury") /\ SaveEnds(t, ok) /\ queue' = Rest(t)
  /\ Release /\ DisposeRun /\ CompletionEnds(t) /\ Goto(t, "back")
  /\ UNCHANGED <<lifeVars, lost, opVars, outcome, retained, collected, call,
                 want, awaits, userVars>>

(* Awaiting the settlement another task created.                             *)
Joined(t) ==
  /\ pc[t] = "join" /\ completion = Settled
  /\ Goto(t, "back")
  /\ UNCHANGED <<lifeVars, childVars, leaseVars, lost, opVars, endVars,
                 saveVars, call, want, awaits, userVars>>

(* The operation's promise settles: its handles go, and the lease unless it  *)
(* was started in the background, whose settlement released it.              *)
WorkReturns(t) ==
  /\ pc[t] = "back" /\ call[t] \in {"start", "resume"}
  /\ IF call[t] = "resume" \/ detachable THEN Release ELSE UNCHANGED leaseVars
  /\ Goto(t, "done")
  /\ detachable' = FALSE
  /\ operation' = IF operation = t THEN None ELSE operation
  /\ backgroundTask' = IF backgroundTask = t THEN None ELSE backgroundTask
  /\ tool' = IF tool = t THEN None ELSE tool
  /\ UNCHANGED <<status, registered, background, childVars, lost, settled,
                 endVars, saveVars, call, want, awaits, asked, closing, signalled, raced>>

-----------------------------------------------------------------------------
(* Canceling, collecting, detaching, shutting down.                          *)

(* cancel: active work is told to stop and awaited, parked work is finished. *)
Cancel(t, byTool) ==
  /\ Unused(t) /\ registered /\ status \notin Terminal
  /\ \/ byTool /\ ByTool(t)
     \/ ~byTool /\ ByBrowser
  /\ call' = [call EXCEPT ![t] = "cancel"]
  /\ asked' = asked \cup {"cancel"}
  /\ IF status \in Active
       THEN /\ AbortRun
            /\ awaits' = [awaits EXCEPT ![t] = settled]
            /\ Goto(t, "halt") /\ UNCHANGED <<want, completion>>
       ELSE FinishTerminal(t, "canceled") /\ UNCHANGED <<awaits, aborting, told>>
  /\ UNCHANGED <<lifeVars, handle, disposed, leaseVars, lost, opVars, outcome,
                 retained, collected, saveVars, closing, signalled>>

(* The operation and the background task have settled.                       *)
Halted(t) ==
  /\ pc[t] = "halt" /\ Ready(t)
  /\ IF status \in Terminal
       THEN Goto(t, "back") /\ UNCHANGED <<want, completion>>
       ELSE FinishTerminal(t, "canceled")
  /\ UNCHANGED <<lifeVars, childVars, leaseVars, lost, opVars, outcome,
                 retained, collected, saveVars, call, awaits, userVars>>

(* Mistake: a canceled background run stays registered.                      *)
CancelReturnsAtOnce(t) ==
  /\ pc[t] = "back" /\ call[t] = "cancel"
  /\ Goto(t, "done") /\ tool' = IF tool = t THEN None ELSE tool
  /\ UNCHANGED <<lifeVars, childVars, leaseVars, lost, opVars, endVars,
                 saveVars, call, want, awaits, asked, closing, signalled, raced>>

(* A background run is removed whatever its settlement came to.              *)
CancelReturns(t) ==
  /\ pc[t] = "back" /\ call[t] = "cancel"
  /\ IF background /\ want[t] # "removed"
       THEN /\ RemoveRun(t) /\ want' = [want EXCEPT ![t] = "removed"]
            /\ UNCHANGED tool
       ELSE /\ Goto(t, "done") /\ tool' = IF tool = t THEN None ELSE tool
            /\ UNCHANGED <<registered, retained, want>>
  /\ UNCHANGED <<status, background, detachable, childVars, leaseVars, lost,
                 opVars, outcome, completion, collected, saveVars, call, awaits,
                 asked, closing, signalled, raced>>

(* collect: a terminal background result is handed over and removed.         *)
Collect(t) ==
  /\ Unused(t) /\ ByTool(t)
  /\ registered /\ background /\ status \in Terminal /\ outcome # None
  /\ call' = [call EXCEPT ![t] = "collect"]
  /\ RemoveRun(t)
  /\ UNCHANGED <<status, background, detachable, childVars, leaseVars, lost,
                 opVars, outcome, completion, collected, saveVars, want, awaits,
                 asked, closing, signalled>>

(* The outcome is read again after the removal; without it collect throws.   *)
CollectReturns(t) ==
  /\ pc[t] = "back" /\ call[t] = "collect"
  /\ collected' = (collected \/ outcome # None)
  /\ Goto(t, "done") /\ tool' = IF tool = t THEN None ELSE tool
  /\ UNCHANGED <<lifeVars, childVars, leaseVars, lost, opVars, outcome,
                 completion, retained, saveVars, call, want, awaits, asked,
                 closing, signalled, raced>>

(* moveForegroundToBackground: the operation becomes the background task and *)
(* the tool call that waits for it returns.                                  *)
Detach ==
  /\ Turn /\ registered /\ detachable /\ ~background
  /\ status = "running" /\ operation # None
  /\ background' = TRUE /\ backgroundTask' = operation
  /\ tool' = IF tool = operation THEN None ELSE tool
  /\ UNCHANGED <<status, registered, detachable, childVars, leaseVars, lost,
                 operation, settled, endVars, saveVars, taskVars, asked,
                 closing, signalled, raced>>

(* shutdown: interrupt, wait for setup, interrupt again, wait for the        *)
(* operation, then settle what is still registered.                          *)
Shutdown(t) ==
  /\ Unused(t) /\ ~closing /\ status # "none"
  /\ closing' = TRUE
  /\ call' = [call EXCEPT ![t] = "shutdown"]
  /\ asked' = IF registered THEN asked \cup {"shutdown"} ELSE asked
  /\ IF registered /\ status \in Active THEN AbortRun ELSE UNCHANGED <<aborting, told>>
  /\ Goto(t, IF registered THEN "drainSetup" ELSE "done")
  /\ collected' = (collected /\ registered)
  /\ UNCHANGED <<lifeVars, handle, disposed, leaseVars, lost, opVars, outcome,
                 completion, retained, saveVars, want, awaits, tool, signalled, raced>>

SetupDrained(t) ==
  /\ pc[t] = "drainSetup" /\ Ready(t)
  /\ IF status \in Active THEN AbortRun ELSE UNCHANGED <<aborting, told>>
  /\ awaits' = [awaits EXCEPT ![t] = operation]
  /\ Goto(t, "drainOperation")
  /\ UNCHANGED <<lifeVars, handle, disposed, leaseVars, lost, opVars, endVars,
                 saveVars, call, want, userVars>>

(* settleRunForShutdown.                                                     *)
OperationDrained(t) ==
  /\ pc[t] = "drainOperation" /\ Ready(t)
  /\ \/ /\ ~registered /\ Goto(t, "done") /\ collected' = FALSE
        /\ UNCHANGED <<registered, retained, queue, want, completion>>
     \/ /\ registered /\ status \in Parked
        /\ queue' = Saved(queue, t, status) /\ Goto(t, "preserve")
        /\ UNCHANGED <<registered, retained, collected, want, completion>>
     \/ /\ registered /\ status \in Terminal
        /\ RemoveRun(t) /\ want' = [want EXCEPT ![t] = "removed"]
        /\ UNCHANGED <<collected, queue, completion>>
     \/ /\ registered /\ status \in Active
        /\ FinishInterrupted(t)
        /\ UNCHANGED <<registered, retained, collected, queue>>
  /\ UNCHANGED <<status, background, detachable, childVars, leaseVars, lost,
                 opVars, outcome, durable, faults, call, awaits, userVars>>

Preserved(t, ok) ==
  /\ At(t, "preserve") /\ SaveEnds(t, ok) /\ queue' = Rest(t)
  /\ DisposeRun
  /\ RemoveRun(t) /\ want' = [want EXCEPT ![t] = "removed"]
  /\ UNCHANGED <<status, background, detachable, leaseVars, lost, opVars,
                 outcome, completion, collected, call, awaits, userVars>>

ShutdownReturns(t) ==
  /\ pc[t] = "back" /\ call[t] = "shutdown"
  /\ IF want[t] # "removed"
       THEN /\ RemoveRun(t) /\ want' = [want EXCEPT ![t] = "removed"]
            /\ UNCHANGED collected
       ELSE /\ Goto(t, "done") /\ collected' = FALSE
            /\ UNCHANGED <<registered, retained, want>>
  /\ UNCHANGED <<status, background, detachable, childVars, leaseVars, lost,
                 opVars, outcome, completion, saveVars, call, awaits, userVars>>

-----------------------------------------------------------------------------
(* The user, other parents and the lease heartbeat.                          *)

(* The signal of a foreground tool call; drive listens to it while the child *)
(* works.                                                                    *)
Signal(t) ==
  /\ Turn /\ tool = t /\ call[t] \in {"start", "resume"} /\ ~background
  /\ t \notin signalled
  /\ signalled' = signalled \cup {t}
  /\ IF pc[t] \in {"prompt", "settle"} THEN AbortRun ELSE UNCHANGED <<aborting, told>>
  /\ UNCHANGED <<lifeVars, handle, disposed, leaseVars, lost, opVars, endVars,
                 saveVars, taskVars, asked, closing, tool, raced>>

LoseLease ==
  /\ Turn /\ lease /\ ledger = "mine" /\ Fault("lease")
  /\ ledger' = "other" /\ lost' = TRUE
  /\ AbortRun
  /\ UNCHANGED <<lifeVars, handle, disposed, lease, opVars, endVars, durable,
                 queue, taskVars, userVars>>

OtherTakes ==
  /\ Turn /\ ledger = "free" /\ durable \in Parked
  /\ ledger' = "other"
  /\ UNCHANGED <<lifeVars, childVars, lease, lost, opVars, endVars, saveVars,
                 taskVars, userVars>>

OtherReleases ==
  /\ Turn /\ ledger = "other"
  /\ ledger' = "free"
  /\ UNCHANGED <<lifeVars, childVars, lease, lost, opVars, endVars, saveVars,
                 taskVars, userVars>>

-----------------------------------------------------------------------------

SaveCompletes(t, ok) ==
  \/ Reserved(t, ok) \/ Adopted(t, ok) \/ Repaired(t, ok) \/ Revived(t, ok)
  \/ Begun(t, ok) \/ OperationSettled(t, ok) \/ QuestionSaved(t, ok)
  \/ InterruptSaved(t, ok) \/ ResultSaved(t, ok) \/ Buried(t, ok)
  \/ Preserved(t, ok)

WorkspaceCompletes(t, ok) == QuestionChecked(t, ok) \/ TerminalChecked(t, ok)

Reacts(t) ==
  \/ Unpending(t) \/ Joined(t) \/ WorkReturns(t) \/ Halted(t)
  \/ CancelReturns(t) \/ CollectReturns(t) \/ SetupDrained(t)
  \/ OperationDrained(t) \/ ShutdownReturns(t)

Called(t) ==
  \/ \E inBackground \in BOOLEAN : Start(t, inBackground)
  \/ "resume" \in Calls /\ \E byTool \in BOOLEAN : Resume(t, byTool)
  \/ "cancel" \in Calls /\ \E byTool \in BOOLEAN : Cancel(t, byTool)
  \/ "collect" \in Calls /\ Collect(t)
  \/ "shutdown" \in Calls /\ Shutdown(t)

Next ==
  \/ \E t \in Task, ok \in BOOLEAN : SaveCompletes(t, ok) \/ WorkspaceCompletes(t, ok)
  \/ \E t \in Task :
       \/ Reacts(t) \/ Called(t) \/ ChildCreated(t) \/ ChildFailed(t)
       \/ Acquired(t) \/ AcquireGivesUp(t) \/ PromptSettles(t)
       \/ PromptRejects(t) \/ InterruptChecked(t) \/ Signal(t)
  \/ Detach \/ LoseLease \/ OtherTakes \/ OtherReleases

Spec == Init /\ [][Next]_vars

-----------------------------------------------------------------------------
(* Properties.                                                               *)

(* A child transcript is continued by one operation at a time: each handle   *)
(* of AgentRun has exactly one owner.                                        *)
OneDriver ==
  \A p, t \in Task : {pc[p], pc[t]} \subseteq {"prompt", "settle"} => p = t

(* The durable record only moves forward: removeRun waits for the writes in  *)
(* flight so that no earlier save ends up over its tombstone, and a result   *)
(* on disk is never reopened.                                                *)
Record ==
  CASE durable = "none"      -> "none"
    [] durable = "removed"   -> "removed"
    [] durable \in Terminal  -> "settled"
    [] OTHER                 -> "open"

Contract == INSTANCE RunRecord WITH record <- Record

RecordMovesForward == Contract!Spec

(* A result is offered for collection only once it is durable, so that a     *)
(* parent that restarts can still collect what it was promised.              *)
RetainedIsDurable == retained /\ registered => durable = outcome

(* A child session does not outlive its run.                                 *)
ChildDisposed == Idle /\ ~registered => ~handle

(* A canceled run is gone when cancel returns, unless its workspace could    *)
(* not be checkpointed: it is then kept for recovery.                        *)
CancelEnds ==
  \A t \in Task :
    call[t] = "cancel" /\ pc[t] = "done" /\ "checkpoint" \notin faults => ~registered

(* A child is prompted by the owner of its transcript, whatever else failed. *)
PromptedByOwner ==
  [][\A t \in Task : pc[t] # "prompt" /\ pc'[t] = "prompt" => lease \/ lost]_vars

(* As long as nothing fails, the lease goes only when what the run has become*)
(* is on disk: another parent that takes it over finds no record of work in  *)
(* progress.                                                                 *)
ReleasedDurable ==
  [][(lease /\ ~lease' /\ faults' = {}) => durable' \notin Active]_vars

(* Every path gives the continuation lease back: nothing is running and no   *)
(* lease is held that would keep other parents out.                          *)
LeaseReturned == Idle => ~lease

(* A run nobody works on is parked or settled, so that it can be continued,  *)
(* canceled or collected: a checkpoint that fails downgrades the run to      *)
(* interrupted, it never leaves it running with nobody to settle it.         *)
NeverStuck == Idle /\ registered => status \notin Active

(* The same while storage works and no two calls met.                        *)
NoneStuck == ~raced /\ faults \subseteq {"lease"} => NeverStuck

(* Shutdown leaves a record that the next parent session can restore, never  *)
(* one that says somebody is still working.                                  *)
ShutdownParks ==
  ~raced /\ faults = {} =>
    \A t \in Task : call[t] = "shutdown" /\ pc[t] = "done" /\ Idle => durable \notin Active

(* Storage, the factory and the workspace answer; a child that was told to   *)
(* stop stops, one that was not may go on for ever.                          *)
Fairness ==
  \A t \in Task :
    /\ WF_vars(\E ok \in BOOLEAN : SaveCompletes(t, ok))
    /\ WF_vars(\E ok \in BOOLEAN : WorkspaceCompletes(t, ok))
    /\ WF_vars(Reacts(t))
    /\ WF_vars(ChildCreated(t) \/ ChildFailed(t))
    /\ WF_vars(InterruptChecked(t))
    /\ WF_vars(Acquired(t) \/ AcquireGivesUp(t))
    /\ WF_vars(t \in told /\ (PromptSettles(t) \/ PromptRejects(t)))

FairSpec == Spec /\ Fairness

(* Cancel tells the child to stop, so it returns however long the child would*)
(* have gone on, or shutdown takes over; and the parent session can end:     *)
(* shutdown returns.                                                         *)
OperationsStop ==
  /\ \A t \in Task : call[t] = "cancel" /\ ~closing ~> pc[t] = "done" \/ closing
  /\ \A t \in Task : call[t] = "shutdown" ~> pc[t] = "done"
=============================================================================
