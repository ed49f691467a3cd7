---------------------------- MODULE WorkspaceSlot ----------------------------
(* One isolated Git worktree (a slot), the runs that lease it one after the *)
(* other and the results they leave behind:                                 *)
(*   src/tools/agent/workspaces/{store,lifecycle,results,checkpoints,       *)
(*   actions,parent-actions,setup,finalization}.ts                          *)
(*                                                                          *)
(* Every Pi process of the repository shares the worktree, the parent       *)
(* checkout and the metadata database.  A task is one call made in one      *)
(* process; an action is what it does up to the next statement, transaction *)
(* or Git command that another process can see.  A worker's edit is named   *)
(* by the task that drives it: a tree is a set of tasks, and the empty set  *)
(* is the parent's HEAD.                                                    *)
EXTENDS Naturals, Sequences, FiniteSets

CONSTANTS
  Proc,        \* operating-system processes
  Run,         \* physical runs (runInstanceId) whose workspace is this slot
  Task,        \* calls, each made once
  Calls,       \* kinds of call that are made besides start
  MaxResults,  \* bound: results recorded
  MaxCommits,  \* bound: commits the user makes in the parent checkout
  MaxErrors,   \* bound: statements and Git commands that fail
  MaxResets,   \* bound: resets of the slot
  None

ASSUME SlotAssumption ==
  /\ None \notin Task \cup Run \cup Proc
  /\ Calls \subseteq {"continue", "apply", "retain", "discard"}
  /\ MaxResults \in Nat /\ MaxCommits \in Nat /\ MaxErrors \in Nat /\ MaxResets \in Nat

VARIABLES
  slot,        \* workspaces row: the run that leases it, review_required
  tree,        \* the worktree: edits under HEAD and edits in its files
  state,       \* what became of each run
  checkpoint,  \* newest row of workspace_checkpoints of each run
  results,     \* workspace_results, oldest first
  parent,      \* the checkout: revision of HEAD, results applied to its
               \* files, results that are part of HEAD
  applying,    \* activeApplyingResultIds of each process: pairs of a process
               \* and a result
  crossed,     \* history: results that two calls of one process entered
               \* before either of them was in activeApplyingResultIds
  dead,        \* processes that stopped
  errors,      \* failures so far
  resets,      \* resets so far
  task         \* of each call: the step it is at, its kind, the process it
               \* runs in, the run it is for, the result it disposes of (0
               \* for none) and who leased the slot when it looked

runVars  == <<state, checkpoint>>
idVars   == <<applying, crossed>>
sysVars  == <<dead, errors, resets>>
vars == <<slot, tree, runVars, results, parent, idVars, sysVars, task>>

Edits == SUBSET Task

(* Steps of an application or a recovery whose id the process has yet to     *)
(* register, and of one that has registered it; of these, and of the other  *)
(* calls, the steps that come after the reservation of the result.          *)
Entering   == {"begin", "claim", "resume"}
Registered == {"patch", "landed", "reconcile", "offer"}
Applying   == Registered \cup {"begin", "resume"}
Disposing  == Applying \cup {"mark", "keep", "unref", "forget", "clear"}
Steps == Disposing \cup
  {"idle", "launch", "recycle", "acquire", "verify", "restore", "work", "finalize",
   "prepare", "vacate", "reserve", "check", "claim", "leave", "rebase", "free", "done"}

SlotRow == [held : Run \cup {None}, review : BOOLEAN]
Checkpoint == [status : {"none", "settled", "interrupted"}, work : Edits]
ResultRow == [run : Run, work : Edits, ref : BOOLEAN, rev : Nat,
              status : {"prepared", "applying", "applied", "discarded"},
              token : Task \cup {None}]
TaskRow == [pc : Steps, proc : Proc \cup {None}, run : Run \cup {None},
            call : {"none", "start", "continue", "apply", "retain", "discard", "sweep"},
            about : Nat, saw : Run \cup {None}]

TypeOK ==
  /\ slot \in SlotRow
  /\ tree \in [head : Edits, files : Edits]
  /\ state \in [Run -> {"new", "claimed", "active", "settled", "collected", "interrupted"}]
  /\ checkpoint \in [Run -> Checkpoint]
  /\ results \in Seq(ResultRow)
  /\ \A i \in DOMAIN results :
       results[i].token # None => results[i].status \in {"prepared", "applying"}
  /\ parent \in [rev : Nat, patch : SUBSET Nat, kept : SUBSET Nat]
  /\ applying \subseteq Proc \X DOMAIN results /\ crossed \subseteq DOMAIN results
  /\ dead \subseteq Proc /\ errors \in 0..MaxErrors /\ resets \in 0..MaxResets
  /\ task \in [Task -> TaskRow]
  /\ \A t \in Task : task[t].about \in {0} \cup DOMAIN results

NoCall == [pc |-> "idle", call |-> "none", proc |-> None, run |-> None,
           about |-> 0, saw |-> None]

Clean == [head |-> {}, files |-> {}]

Init ==
  /\ slot = [held |-> None, review |-> FALSE] /\ tree = Clean
  /\ state = [r \in Run |-> "new"]
  /\ checkpoint = [r \in Run |-> [status |-> "none", work |-> {}]]
  /\ results = <<>>
  /\ parent = [rev |-> 0, patch |-> {}, kept |-> {}]
  /\ applying = {} /\ crossed = {} /\ dead = {} /\ errors = 0 /\ resets = 0
  /\ task = [t \in Task |-> NoCall]

-----------------------------------------------------------------------------
(* What a call reads.                                                        *)

(* A continuation holds its run's continuation lease from before it looks   *)
(* for the slot until the run settles.                                      *)
Continuing(r) ==
  \E t \in Task : task[t].run = r /\ task[t].pc \in {"acquire", "verify", "restore"}

(* workspaceLeaseActive: the run is at work in a live process, or somebody  *)
(* continues it.  A run that is still being launched has no record yet.     *)
LeaseActive(r) == r # None /\ (state[r] = "active" \/ Continuing(r))

(* requireNoResultReservation.                                              *)
NoReservation == \A i \in DOMAIN results : results[i].token = None

Latest == Len(results)

(* The slot can be taken over from an inactive run: its tree is saved, and  *)
(* if the run ended, the newest result of the slot is its own and prepared. *)
Recyclable(x) ==
  /\ x # None /\ ~LeaseActive(x)
  /\ \/ checkpoint[x].status = "interrupted"
     \/ /\ checkpoint[x].status = "settled"
        /\ results # <<>> /\ results[Latest].run = x
        /\ results[Latest].status = "prepared"

(* A result is disposed of from its own tree only while that is untouched.  *)
Untouched(i) == tree.files = tree.head /\ tree.head = results[i].work

At(t, label) == task[t].pc = label

(* A call that has ended leaves nothing but, in a reservation, the process   *)
(* it ran in.                                                                *)
Ended(c) == [NoCall EXCEPT !.pc = "done", !.proc = c.proc]

(* The transaction of a call still finds the call's own token.               *)
Holds(t) ==
  /\ results[task[t].about].status = "applying" /\ results[task[t].about].token = t

Goto(t, label) ==
  task' = [task EXCEPT ![t] = IF label = "done" THEN Ended(@) ELSE [@ EXCEPT !.pc = label]]

Used(p) == \E t \in Task : task[t].proc = p

(* Of tasks, processes and runs that have not been used yet any one will do: *)
(* they are alike.                                                           *)
Called(t, kind, p, r, i, label) ==
  /\ At(t, "idle") /\ t = (CHOOSE u \in Task : At(u, "idle"))
  /\ p \notin dead
  /\ ~Used(p) => p = (CHOOSE q \in Proc : ~Used(q))
  /\ state[r] = "new" => r = (CHOOSE x \in Run : state[x] = "new")
  /\ task' = [task EXCEPT ![t] = [pc |-> label, call |-> kind, proc |-> p, run |-> r,
                                  about |-> i, saw |-> slot.held]]

(* UPDATE workspaces ... WHERE lease_run_id = ?: nothing happens when the   *)
(* slot has changed hands.                                                   *)
LeaveSlot(t, review) ==
  slot' = IF slot.held = task[t].run THEN [held |-> None, review |-> review] ELSE slot

-----------------------------------------------------------------------------
(* Taking the slot: a new run claims it when it is free, or recycles it from *)
(* an inactive run.                                                          *)

(* findAvailableAgentWorkspace and claimAgentWorkspace: a guarded update.    *)
Claim(t, p, r) ==
  /\ Called(t, "start", p, r, 0, "launch")
  /\ state[r] = "new" /\ slot = [held |-> None, review |-> FALSE]
  /\ slot' = [slot EXCEPT !.held = r]
  /\ state' = [state EXCEPT ![r] = "claimed"]
  /\ UNCHANGED <<tree, checkpoint, results, parent, idVars, sysVars>>

FindRecyclable(t, p, r) ==
  /\ Called(t, "start", p, r, 0, "recycle")
  /\ state[r] = "new" /\ Recyclable(slot.held)
  /\ state' = [state EXCEPT ![r] = "claimed"]
  /\ UNCHANGED <<slot, tree, checkpoint, results, parent, idVars, sysVars>>

(* Mistake: the transaction relies on the look before it at the lease.       *)
MayRecycleActive(x) == slot.held = x /\ NoReservation

(* recycleAgentWorkspaceForReuse, one transaction: its guards.               *)
MayRecycle(x) == slot.held = x /\ ~LeaseActive(x) /\ NoReservation

Recycle(t) ==
  /\ task[t].pc \in {"recycle", "acquire"} /\ task[t].saw \notin {None, task[t].run}
  /\ IF MayRecycle(task[t].saw)
       THEN /\ slot' = [held |-> task[t].run, review |-> FALSE] /\ tree' = Clean
            /\ Goto(t, IF At(t, "recycle") THEN "launch" ELSE "restore")
       ELSE Goto(t, "done") /\ UNCHANGED <<slot, tree>>
  /\ UNCHANGED <<runVars, results, parent, idVars, sysVars>>

(* transferAgentWorkspaceLease fails when the provisional lease is gone; a   *)
(* lease that goes between the transfer and the manager's record of the run  *)
(* is not missed.                                                            *)
Launch(t) ==
  /\ At(t, "launch")
  /\ \/ /\ state' = [state EXCEPT ![task[t].run] = "active"] /\ Goto(t, "work")
     \/ /\ slot.held # task[t].run
        /\ UNCHANGED state /\ Goto(t, "done")
  /\ UNCHANGED <<slot, tree, checkpoint, results, parent, idVars, sysVars>>

(* executeParentWorkspaceAction, continue: the workspace row is read, then   *)
(* the run's continuation lease is taken.                                    *)
Continue(t, p, r) ==
  /\ Called(t, "continue", p, r, 0, "acquire")
  /\ state[r] \in {"settled", "collected", "interrupted"} /\ ~Continuing(r)
  /\ checkpoint[r].status # "none"
  /\ slot.held \in {None, r} \/ Recyclable(slot.held)
  /\ UNCHANGED <<slot, tree, runVars, results, parent, idVars, sysVars>>

(* acquireContinuationWorkspace: the run still owns its slot, or claims it.  *)
AcquireSlot(t) ==
  /\ At(t, "acquire") /\ task[t].saw \in {None, task[t].run}
  /\ \/ /\ task[t].saw = task[t].run \/ slot.held = None
        /\ slot' = IF task[t].saw = None THEN [slot EXCEPT !.held = task[t].run] ELSE slot
        /\ Goto(t, "verify")
     \/ /\ task[t].saw = None /\ slot.held # None
        /\ UNCHANGED slot /\ Goto(t, "done")
  /\ UNCHANGED <<tree, runVars, results, parent, idVars, sysVars>>

(* A worktree that was not recycled must be at the checkpoint: if it is not, *)
(* the run keeps the lease it has just claimed.  restoreAgentWorkspace-      *)
(* Checkpoint, one transaction, then looks at the lease again.               *)
Restorable(t) ==
  /\ slot.held = task[t].run
  /\ At(t, "verify") => tree.head = checkpoint[task[t].run].work

Restore(t) ==
  LET work == checkpoint[task[t].run].work
  IN  /\ task[t].pc \in {"verify", "restore"}
      /\ IF Restorable(t)
           THEN /\ tree' = [head |-> work, files |-> work]
                /\ state' = [state EXCEPT ![task[t].run] = "active"] /\ Goto(t, "work")
           ELSE Goto(t, "done") /\ UNCHANGED <<tree, state>>
      /\ UNCHANGED <<slot, checkpoint, results, parent, idVars, sysVars>>

-----------------------------------------------------------------------------
(* Working, settling and finalizing.                                         *)

Edit(t) ==
  /\ At(t, "work") /\ t \notin tree.files
  /\ tree' = [tree EXCEPT !.files = @ \cup {t}]
  /\ UNCHANGED <<slot, runVars, results, parent, idVars, sysVars, task>>

(* createAgentWorkspaceCheckpoint commits the tree of the run that leases    *)
(* it; a run that lost its slot ends interrupted.  A parent finalizes a run  *)
(* that ended at once (foreground) or when it collects it.                   *)
Settle(t, status) ==
  /\ At(t, "work")
  /\ IF slot.held = task[t].run
       THEN /\ tree' = [tree EXCEPT !.head = tree.files]
            /\ checkpoint' = [checkpoint EXCEPT ![task[t].run] =
                                [status |-> status, work |-> tree.files]]
            /\ state' = [state EXCEPT ![task[t].run] = status]
            /\ Goto(t, IF status = "settled" THEN "finalize" ELSE "done")
       ELSE /\ state' = [state EXCEPT ![task[t].run] = "interrupted"] /\ Goto(t, "done")
            /\ UNCHANGED <<tree, checkpoint>>
  /\ UNCHANGED <<slot, results, parent, idVars, sysVars>>

(* prepareAgentWorkspaceApplication: workspaceForLease ...                   *)
Finalize(t) ==
  /\ At(t, "finalize")
  /\ Goto(t, IF slot.held = task[t].run THEN "prepare" ELSE "done")
  /\ UNCHANGED <<slot, tree, runVars, results, parent, idVars, sysVars>>

(* ... then whatever the worktree holds is committed, referenced and         *)
(* recorded as the result of the run.                                        *)
Prepare(t) ==
  /\ At(t, "prepare") /\ Len(results) < MaxResults
  /\ tree' = [tree EXCEPT !.head = tree.files]
  /\ results' = Append(results, [run |-> task[t].run, work |-> tree.files,
                                 ref |-> tree.files # {}, rev |-> 0,
                                 status |-> "prepared", token |-> None])
  /\ state' = IF state[task[t].run] = "settled"
                THEN [state EXCEPT ![task[t].run] = "collected"] ELSE state
  /\ IF tree.files = {}
       THEN task' = [task EXCEPT ![t].pc = "vacate", ![t].about = Len(results) + 1]
       ELSE Goto(t, "done")
  /\ UNCHANGED <<slot, checkpoint, parent, idVars, sysVars>>

(* reconcileNoChangeAgentWorkspaceLeases, which every start begins with and  *)
(* the /agents browser runs (what the start does next is another call): on   *)
(* behalf of the run that leases the slot, whether that is at work or not,   *)
(* it disposes of the run's newest result if that has no changes.            *)
Sweep(t, p) ==
  \E i \in DOMAIN results :
    /\ results[i].run = slot.held
    /\ \A j \in DOMAIN results : j > i => results[j].run # slot.held
    /\ results[i].status = "prepared" /\ results[i].work = {}
    /\ Called(t, "sweep", p, slot.held, i, "vacate")
    /\ UNCHANGED <<slot, tree, runVars, results, parent, idVars, sysVars>>

(* releaseAgentWorkspaceAfterNoChanges: the lease and the tree are looked at *)
(* before the reservation.                                                   *)
Vacate(t) ==
  /\ At(t, "vacate")
  /\ IF slot.held = task[t].run /\ Untouched(task[t].about)
       THEN task' = [task EXCEPT ![t].pc = "reserve", ![t].saw = slot.held]
       ELSE Goto(t, "done")
  /\ UNCHANGED <<slot, tree, runVars, results, parent, idVars, sysVars>>

-----------------------------------------------------------------------------
(* Disposing of a result.                                                    *)

Apply(t, p, i) ==
  /\ i \in DOMAIN results
  /\ Called(t, "apply", p, results[i].run, i,
            IF results[i].status = "applying" THEN "check" ELSE "reserve")
  /\ results[i].status \in {"prepared", "applying"}
  /\ UNCHANGED <<slot, tree, runVars, results, parent, idVars, sysVars>>

Retain(t, p, i) ==
  /\ i \in DOMAIN results
  /\ Called(t, "retain", p, results[i].run, i, "reserve")
  /\ results[i].status = "prepared" /\ results[i].work # {}
  /\ slot.held = results[i].run => Untouched(i)
  /\ UNCHANGED <<slot, tree, runVars, results, parent, idVars, sysVars>>

Discard(t, p, i) ==
  /\ i \in DOMAIN results
  /\ Called(t, "discard", p, results[i].run, i, "reserve")
  /\ results[i].status = "prepared"
  /\ slot.held = results[i].run => i = Latest /\ Untouched(i)
  /\ UNCHANGED <<slot, tree, runVars, results, parent, idVars, sysVars>>

Abandoned(t) == t # None /\ task[t].proc \in dead

(* Mistake: any reservation is taken over.                                   *)
ReservableAlways(i) == results[i].status = "prepared"

(* reserveResult, a compare-and-set: only the reservation of a process that  *)
(* died is taken over (once it has expired).                                 *)
Reservable(i) ==
  /\ results[i].status = "prepared"
  /\ results[i].token = None \/ Abandoned(results[i].token)

(* The step that follows the reservation.                                    *)
NextStep(t) ==
  CASE task[t].call = "apply"   -> "mark"
    [] task[t].call = "retain"  -> "keep"
    [] task[t].call = "discard" -> "unref"
    [] OTHER               -> "clear"

Reserve(t) ==
  /\ At(t, "reserve")
  /\ IF Reservable(task[t].about)
       THEN /\ results' = [results EXCEPT ![task[t].about].token = t]
            /\ Goto(t, NextStep(t))
       ELSE Goto(t, "done") /\ UNCHANGED results
  /\ UNCHANGED <<slot, tree, runVars, parent, idVars, sysVars>>

(* Mistake: a recovery does not ask what its own process is applying.        *)
StillApplyingNever(t) == FALSE

(* activeApplyingResultIds is consulted by a recovery and written by every   *)
(* application, but never together with the row: two calls of one process   *)
(* may be on their way to the same result before either is in it.            *)
StillApplying(t) == <<task[t].proc, task[t].about>> \in applying

Enter(t) ==
  crossed' = IF \E u \in Task \ {t} : /\ task[u].proc = task[t].proc
                                      /\ task[u].about = task[t].about /\ task[u].pc \in Entering
               THEN crossed \cup {task[t].about} ELSE crossed

Deregister(t) == applying' = applying \ {<<task[t].proc, task[t].about>>}

(* The checkout must be clean, the result intact and its patch applicable;   *)
(* then it is recorded that this revision is about to be changed.            *)
Mark(t) ==
  LET i == task[t].about
  IN  /\ At(t, "mark")
      /\ IF /\ parent.patch = {} /\ i \notin parent.kept
            /\ results[i].ref \/ results[i].work = {}
           THEN /\ results' = [results EXCEPT ![i].status = "applying",
                                              ![i].rev = parent.rev]
                /\ Enter(t) /\ Goto(t, "begin")
           ELSE /\ results' = [results EXCEPT ![i].token = None] /\ Goto(t, "done")
                /\ UNCHANGED crossed
      /\ UNCHANGED <<slot, tree, runVars, parent, applying, sysVars>>

(* activeApplyingResultIds.add, once the transaction has answered.           *)
Register(t) ==
  /\ task[t].pc \in {"begin", "resume"}
  /\ applying' = applying \cup {<<task[t].proc, task[t].about>>}
  /\ Goto(t, IF At(t, "begin") THEN "patch" ELSE "reconcile")
  /\ UNCHANGED <<slot, tree, runVars, results, parent, crossed, sysVars>>

(* git apply; an empty patch changes nothing, and one that is in the files   *)
(* already does not apply.                                                   *)
Patch(t) ==
  LET i == task[t].about
  IN  /\ At(t, "patch")
      /\ IF results[i].work # {} /\ i \in parent.patch \cup parent.kept
           THEN Goto(t, "done") /\ Deregister(t) /\ UNCHANGED parent
           ELSE /\ parent' = IF results[i].work = {} THEN parent
                                ELSE [parent EXCEPT !.patch = @ \cup {i}]
                /\ Goto(t, "landed") /\ UNCHANGED applying
      /\ UNCHANGED <<slot, tree, runVars, results, crossed, sysVars>>

(* markResultApplied, and the finally block around it.  The lease is         *)
(* released if the run held it at the call.                                  *)
MarkApplied(t) ==
  /\ At(t, "landed") /\ Deregister(t)
  /\ IF Holds(t)
       THEN /\ results' = [results EXCEPT ![task[t].about].status = "applied",
                                          ![task[t].about].token = None]
            /\ Goto(t, IF task[t].saw = task[t].run THEN "leave" ELSE "done")
       ELSE Goto(t, "done") /\ UNCHANGED results
  /\ UNCHANGED <<slot, tree, runVars, parent, crossed, sysVars>>

(* releaseAgentWorkspaceAfterApplication.                                    *)
Leave(t) ==
  /\ At(t, "leave") /\ LeaveSlot(t, TRUE) /\ Goto(t, "done")
  /\ UNCHANGED <<tree, runVars, results, parent, idVars, sysVars>>

(* claimApplyingResultRecovery: first what this process is applying ...      *)
Check(t) ==
  /\ At(t, "check")
  /\ IF StillApplying(t) THEN Goto(t, "done") /\ UNCHANGED crossed
                         ELSE Goto(t, "claim") /\ Enter(t)
  /\ UNCHANGED <<slot, tree, runVars, results, parent, applying, sysVars>>

(* ... then a transaction takes over the token of a process that died, or    *)
(* any token of its own process.                                             *)
Recoverable(t) ==
  LET row == results[task[t].about]
  IN  /\ row.status = "applying" /\ row.token # None
      /\ task[row.token].proc \in dead \cup {task[t].proc}

ClaimRecovery(t) ==
  /\ At(t, "claim")
  /\ IF Recoverable(t)
       THEN /\ results' = [results EXCEPT ![task[t].about].token = t] /\ Goto(t, "resume")
       ELSE Goto(t, "done") /\ UNCHANGED results
  /\ UNCHANGED <<slot, tree, runVars, parent, idVars, sysVars>>

(* recoverApplyingWorkspaceResult: while HEAD is the revision recorded, a    *)
(* patch that can be reversed was applied, one that still applies was not.   *)
(* Anything else, a checkout that fits neither among it, stays reserved.     *)
Reconcile(t) ==
  LET i == task[t].about
      in == i \in parent.patch \/ results[i].work = {}
  IN  /\ At(t, "reconcile")
      /\ \/ /\ parent.rev = results[i].rev
            /\ Goto(t, IF in THEN "landed" ELSE "offer") /\ UNCHANGED applying
         \/ Goto(t, "done") /\ Deregister(t)
      /\ UNCHANGED <<slot, tree, runVars, results, parent, crossed, sysVars>>

(* markResultPrepared: the call goes on to apply the result.                 *)
Offer(t) ==
  /\ At(t, "offer") /\ Deregister(t)
  /\ IF Holds(t)
       THEN /\ results' = [results EXCEPT ![task[t].about].status = "prepared",
                                          ![task[t].about].token = None]
            /\ Goto(t, "reserve")
       ELSE Goto(t, "done") /\ UNCHANGED results
  /\ UNCHANGED <<slot, tree, runVars, parent, crossed, sysVars>>

(* retainAgentWorkspaceResult, one transaction.                              *)
Keep(t) ==
  /\ At(t, "keep")
  /\ results' = [results EXCEPT ![task[t].about].token = None]
  /\ IF task[t].saw = task[t].run THEN LeaveSlot(t, TRUE) ELSE UNCHANGED slot
  /\ Goto(t, "done")
  /\ UNCHANGED <<tree, runVars, parent, idVars, sysVars>>

(* discardAgentWorkspaceResult deletes the ref, records the discard and only *)
(* then resets the worktree its run held when the call looked.               *)
Unref(t) ==
  /\ At(t, "unref")
  /\ results' = [results EXCEPT ![task[t].about].ref = FALSE]
  /\ Goto(t, "forget")
  /\ UNCHANGED <<slot, tree, runVars, parent, idVars, sysVars>>

(* Mistake: the reservation of a discarded result is left behind.            *)
ForgetReserved(t) ==
  /\ At(t, "forget")
  /\ results' = [results EXCEPT ![task[t].about].status = "discarded"]
  /\ Goto(t, IF task[t].call # "discard" THEN "free"
             ELSE IF task[t].saw = task[t].run THEN "rebase" ELSE "done")
  /\ UNCHANGED <<slot, tree, runVars, parent, idVars, sysVars>>

Forget(t) ==
  /\ At(t, "forget")
  /\ results' = [results EXCEPT ![task[t].about].status = "discarded",
                                ![task[t].about].ref = FALSE, ![task[t].about].token = None]
  /\ Goto(t, IF task[t].call # "discard" THEN "free"
             ELSE IF task[t].saw = task[t].run THEN "rebase" ELSE "done")
  /\ UNCHANGED <<slot, tree, runVars, parent, idVars, sysVars>>

(* resetReusableWorkspace: before the row of a run without changes is        *)
(* updated, after that of a discarded result.                                *)
ResetTree(t) ==
  /\ task[t].pc \in {"clear", "rebase"}
  /\ tree' = Clean
  /\ Goto(t, IF At(t, "clear") THEN "forget" ELSE "free")
  /\ UNCHANGED <<slot, runVars, results, parent, idVars, sysVars>>

Free(t) ==
  /\ At(t, "free") /\ LeaveSlot(t, FALSE) /\ Goto(t, "done")
  /\ UNCHANGED <<tree, runVars, results, parent, idVars, sysVars>>

-----------------------------------------------------------------------------
(* Resetting the slot, failures and the user.                                *)

(* Mistake: work in progress is not looked at.                               *)
MayResetActive == NoReservation

MayReset == ~LeaseActive(slot.held) /\ NoReservation

(* Mistake: applied results are recorded as discarded, too.                  *)
ClearedAll(list) ==
  [i \in DOMAIN list |->
     [list[i] EXCEPT !.ref = FALSE, !.token = None, !.status = "discarded"]]

Unreferenced(list) == [i \in DOMAIN list |-> [list[i] EXCEPT !.ref = FALSE]]

Cleared(list) ==
  [i \in DOMAIN list |->
     [list[i] EXCEPT !.ref = FALSE, !.token = None,
                     !.status = IF @ = "prepared" THEN "discarded" ELSE @]]

(* resetAgentWorkspaceForReuse, one transaction, from any session.           *)
Reset ==
  /\ MayReset /\ resets < MaxResets /\ resets' = resets + 1
  /\ tree' = Clean /\ slot' = [held |-> None, review |-> FALSE]
  /\ results' = Cleared(results)
  /\ UNCHANGED <<runVars, parent, idVars, dead, errors, task>>

(* A statement or a Git command of a disposition fails: the reservation is   *)
(* given back unless the checkout may already have changed.  Any other call  *)
(* that fails is one that goes no further.                                   *)
Fail(t) ==
  LET row == results[task[t].about]
  IN  /\ task[t].pc \in Disposing \ Entering
      /\ errors < MaxErrors /\ errors' = errors + 1
      /\ results' = IF row.status = "prepared" /\ row.token = t
                      THEN [results EXCEPT ![task[t].about].token = None] ELSE results
      /\ IF task[t].pc \in Registered THEN Deregister(t) ELSE UNCHANGED applying
      /\ Goto(t, "done")
      /\ UNCHANGED <<slot, tree, runVars, parent, crossed, dead, resets>>

(* A process that has finished its calls and left no reservation may as well *)
(* go on: its end would make no difference.                                  *)
Busy(p) ==
  \E t \in Task :
    /\ task[t].proc = p
    /\ ~At(t, "done") \/ \E i \in DOMAIN results : results[i].token = t

(* A process stops.  Git's effects inside a transaction that it had not      *)
(* committed stay: a tree reset for recycling, or for a reset with its refs. *)
Crash(p) ==
  /\ Proc \ dead # {p} /\ p \notin dead /\ Used(p)
  /\ dead' = dead \cup {p}
  /\ task' = [t \in Task |-> IF task[t].proc = p THEN Ended(task[t]) ELSE task[t]]
  /\ state' = [r \in Run |->
                 IF \E t \in Task : task[t].proc = p /\ task[t].run = r /\ At(t, "work")
                   THEN "interrupted" ELSE state[r]]
  /\ \/ Busy(p) /\ UNCHANGED <<tree, results>>
     \/ /\ \E t \in Task : /\ task[t].proc = p /\ task[t].pc \in {"recycle", "acquire"}
                           /\ task[t].saw \notin {None, task[t].run} /\ MayRecycle(task[t].saw)
        /\ tree' = Clean /\ UNCHANGED results
     \/ /\ MayReset /\ resets < MaxResets
        /\ tree' = Clean /\ results' = Unreferenced(results)
  /\ applying' = {e \in applying : e[1] # p}
  /\ UNCHANGED <<slot, checkpoint, parent, crossed, errors, resets>>

(* Commits made while nothing is being applied make no difference.           *)
UserCommits ==
  /\ parent.rev < MaxCommits
  /\ parent.patch # {} \/ \E i \in DOMAIN results : results[i].status = "applying"
  /\ parent' = [rev |-> parent.rev + 1, patch |-> {}, kept |-> parent.kept \cup parent.patch]
  /\ UNCHANGED <<slot, tree, runVars, results, idVars, sysVars, task>>

UserReverts ==
  /\ parent.patch # {} /\ parent' = [parent EXCEPT !.patch = {}]
  /\ UNCHANGED <<slot, tree, runVars, results, idVars, sysVars, task>>

-----------------------------------------------------------------------------

Step(t) ==
  \/ Recycle(t) \/ Launch(t) \/ AcquireSlot(t) \/ Restore(t)
  \/ Edit(t) \/ Finalize(t) \/ Prepare(t) \/ Vacate(t) \/ Reserve(t) \/ Mark(t) \/ Patch(t)
  \/ Register(t) \/ MarkApplied(t) \/ Leave(t) \/ Check(t) \/ ClaimRecovery(t) \/ Reconcile(t)
  \/ Offer(t) \/ Keep(t) \/ Unref(t) \/ Forget(t) \/ ResetTree(t) \/ Free(t) \/ Fail(t)
  \/ \E status \in {"settled", "interrupted"} : Settle(t, status)

CallMade(t, p) ==
  \/ \E r \in Run :
       \/ Claim(t, p, r) \/ FindRecyclable(t, p, r)
       \/ "continue" \in Calls /\ Continue(t, p, r)
  \/ \E i \in 1..MaxResults :
       \/ "apply" \in Calls /\ Apply(t, p, i)
       \/ "retain" \in Calls /\ Retain(t, p, i)
       \/ "discard" \in Calls /\ Discard(t, p, i)
  \/ Sweep(t, p)

Next ==
  \/ \E t \in Task : Step(t) \/ \E p \in Proc : CallMade(t, p)
  \/ Reset
  \/ \E p \in Proc : Crash(p)
  \/ UserCommits \/ UserReverts

Spec == Init /\ [][Next]_vars

-----------------------------------------------------------------------------
(* Properties.                                                               *)

(* Competing dispositions never act on the same result: a call that is past *)
(* its reservation still holds it, through recoveries, takeovers, sweeps,   *)
(* resets and recycling of the slot.  Only an application may lose it, and  *)
(* only to a call of its own process that began to recover the result       *)
(* before activeApplyingResultIds spoke for the application.                *)
TokenHolder ==
  \A t \in Task :
    task[t].pc \in Disposing =>
      \/ results[task[t].about].token = t
      \/ task[t].pc \in Applying /\ task[t].about \in crossed

(* A result that is on offer, or was thrown away, is not in the parent      *)
(* checkout: it would be applied a second time, or kept against the user's  *)
(* word.  Nothing is said of a result whose applications or recoveries      *)
(* crossed in one process.                                                  *)
PreparedNotInParent ==
  \A i \in DOMAIN results \ crossed :
    results[i].status \in {"prepared", "discarded"} => i \notin parent.patch \cup parent.kept

(* Results are never rewritten, and an applied or discarded one stays so.   *)
FateIsFinal ==
  [][\A i \in DOMAIN results :
       /\ i \in DOMAIN results' /\ results'[i].work = results[i].work
       /\ results[i].status \in {"applied", "discarded"} =>
            results'[i].status = results[i].status]_vars

(* As long as nothing breaks, the commits of a result that may still be     *)
(* applied stay reachable: the ref goes only with the result.               *)
ResultReachable ==
  dead = {} /\ errors = 0 =>
    \A i \in DOMAIN results :
      results[i].status \in {"prepared", "applying"} /\ results[i].work # {} =>
        results[i].ref \/ \E t \in Task : task[t].about = i /\ At(t, "forget")

(* The slot of a worker at work is not claimed, recycled or reset: starts   *)
(* and continuations of other runs wait.  It is let go by a disposition of  *)
(* the worker's own, earlier result; that of a result without changes may   *)
(* be begun by any start or browser (Sweep), at work or not.                *)
SlotKept ==
  [][\A r \in Run :
       state[r] = "active" /\ slot.held = r /\ slot'.held # r =>
         \E t \in Task : /\ task[t].run = r /\ task[t].pc \in {"leave", "keep", "free"}
                         /\ task'[t] # task[t]]_vars

(* No edit of a worker in possession of the slot is lost, except to a       *)
(* disposition that decided to reset the tree before it reserved its result,*)
(* be it begun by the worker's parent or by a start of somebody else.       *)
WorkSurvives ==
  [][\A r \in Run :
       state[r] = "active" /\ slot.held = r /\ ~(tree.files \subseteq tree'.files) =>
         \E t \in Task : task[t].pc \in {"clear", "rebase"} /\ task'[t] # task[t]]_vars

(* A run takes over the slot of another only after the latest end of that    *)
(* one was finalized: its result is durable, and no older one stands in.     *)
FinalizedFirst ==
  [][\A t \in Task :
       At(t, "idle") /\ task'[t].pc \in {"recycle", "acquire"} /\ slot.held \notin {None, task'[t].run} =>
         state[slot.held] # "settled"]_vars

=============================================================================
