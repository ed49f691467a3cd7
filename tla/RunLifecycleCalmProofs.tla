----------------------- MODULE RunLifecycleCalmProofs ----------------------
(* Proofs about the life of a run whatever its parent does: /agents acts on  *)
(* it, the agent tool polls it, and the parent session may shut down.  What  *)
(* they show holds as long as no two calls met and storage works.            *)
EXTENDS RunLifecycleSerialProofs

(* Nothing failed so far but the lease, and no two calls met. *)
Mild == ~raced /\ faults \subseteq {"lease"}

Calm == ~raced /\ faults = {}

(* A settlement came to its end, or has committed what the end is. *)
Ended == outcome # None \/ completion = Settled

(* A call that takes nothing further: it returned, or it is the shutdown. *)
Quiet(t) == pc[t] \in {"idle", "done"} \/ call[t] = "shutdown"

(* The write of a task was queued after the lease was lost. *)
Refused(t) == \A i \in DOMAIN queue : queue[i].task = t => queue[i].refused

(* Where an operation still has its way to a boundary before it. *)
Before == {"reserve", "setup", "adopt", "revive", "begin", "prompt", "settle"}

Carrying == Before \cup {"interrupt", "finish"}

(* Ownership is lost by a heartbeat only, an end is asked for by its caller, *)
(* and a result is committed by the task that settles.                       *)
Grounds ==
  /\ lost => "lease" \in faults
  /\ \A i \in DOMAIN queue : queue[i].refused => lost
  /\ \A t \in Task :
       /\ call[t] = "cancel" => "cancel" \in asked
       /\ call[t] = "shutdown" => closing
       /\ pc[t] = "retain" => completion = t
       /\ pc[t] = "reserve" => \A i \in DOMAIN queue : queue[i].task = t => ~queue[i].refused

WorksAlone == ~raced => OneWorks

(* While no write fails a settlement that began ends with an outcome, unless *)
(* the lease went, and a run is interrupted for shutdown or that loss.       *)
Settles ==
  Mild =>
    /\ completion \in Task /\ outcome = None => pc[completion] = "finish"
    /\ completion = Settled /\ outcome = None => lost
    /\ \A t \in Task : pc[t] = "interrupt" => closing \/ lost

(* After the end the run stays settled, and what still works has lost.       *)
StaysEnded ==
  Mild /\ Ended =>
    /\ ~closing /\ ~lost => status \in Terminal
    /\ status \in Active => \A t \in Task : Works(t) => pc[t] = "revive" /\ Refused(t)
    /\ \A t \in Task : pc[t] = "repair" => Refused(t)

(* A parked run that is taken up again is taken up alone. *)
TakenUp ==
  Mild =>
    \A t \in Task : pc[t] \in {"acquire", "repair"} =>
      /\ status \in Parked
      /\ completion # None => Ended /\ lost
      /\ \A u \in Task \ {t} : Quiet(u)

(* An operation goes on beside a settlement only when it was told to end.    *)
ToldToEnd ==
  Mild /\ completion # None =>
    \A t \in Task : pc[t] \in Before => "cancel" \in asked \/ lost

(* An active run has somebody who brings it to a boundary. *)
Driven == Mild /\ status \in Active => \E t \in Task : pc[t] \in Carrying

(* What storage will hold once the writes in flight have landed. *)
LastSaved == IF queue = <<>> THEN durable ELSE queue[Len(queue)].status

(* As long as nothing fails, the last record that says somebody works on the *)
(* run is written over: by whoever works, or by a removal under way.         *)
WrittenOver ==
  Calm =>
    /\ \A t \in Task : pc[t] = "question" => status \notin Active
    /\ LastSaved \in Active =>
         IF outcome = None THEN \E t \in Task : pc[t] \in Carrying \cup {"question"}
                           ELSE \E t \in Task : pc[t] = "remove" /\ call[t] # "shutdown"

CalmInv ==
  /\ Grounds /\ WorksAlone /\ Settles /\ StaysEnded
  /\ TakenUp /\ ToldToEnd /\ Driven /\ WrittenOver

-----------------------------------------------------------------------------
(* What a step may do. *)

(* Who may call, when no two calls meet. *)
CallerSteps ==
  /\ \A t \in Task : pc'[t] # pc[t] =>
       /\ pc[t] # "done"
       /\ call[t] = "none" =>
            /\ call'[t] # "none"
            /\ ~raced' /\ call'[t] \in {"resume", "collect"} => Idle
            /\ ~raced' /\ call'[t] = "cancel" => Idle \/ status \in Active
            /\ call'[t] = "cancel" => "cancel" \in asked'
  /\ raced => raced'
  /\ asked \subseteq asked'
  /\ lost => lost'

(* From where to where a task goes on. *)
FlowSteps ==
  \A t \in Task : pc'[t] # pc[t] =>
    /\ pc'[t] = "retain" => pc[t] = "finish"
    /\ pc'[t] = "question" => pc[t] = "settle"
    /\ pc'[t] = "acquire" => call[t] = "none" /\ call'[t] = "resume"
    /\ pc'[t] = "repair" => pc[t] = "acquire"
    /\ pc'[t] = "revive" => pc[t] \in {"acquire", "repair"}
    /\ pc'[t] = "begin" => pc[t] \in Before /\ "cancel" \notin asked /\ ~lost
    /\ pc'[t] \in Before \ {"reserve"} => pc[t] \in Before \cup {"acquire", "repair"}
    /\ pc[t] = "remove" /\ call[t] # "shutdown" => pc'[t] = "bury"
    /\ pc[t] = "revive" /\ Refused(t) => pc'[t] = "done"
    /\ pc[t] = "interrupt" => pc'[t] = "yield"
    /\ pc[t] = "question" => pc'[t] \in {"park", "yield"}
    /\ pc[t] = "finish" =>
         pc'[t] \in {"remove", "retain"} \/ (pc'[t] = "yield" /\ "checkpoint" \in faults')
    /\ pc'[t] = "interrupt" => closing \/ lost \/ "save" \in faults'
    /\ pc[t] \in Before =>
         \/ pc'[t] \in Carrying \cup {"question"}
         \/ pc'[t] = "join" /\ completion \in Task /\ outcome = None
         \/ pc'[t] = "back" /\ Ended
         \/ pc'[t] = "done" /\ pc[t] = "revive" /\ Refused(t)
         \/ pc'[t] = "done" /\ "save" \in faults'

Failed == lost \/ ~(faults' \subseteq {"lease"})

(* How the status and the settlement change with it. *)
StatusSteps ==
  /\ \A t \in Task : pc'[t] # pc[t] =>
       /\ \/ status' = status
          \/ pc'[t] = "reserve" /\ status = "none" /\ status' = "starting"
          \/ pc[t] = "acquire" /\ pc'[t] = "revive" /\ status' = "running"
          \/ pc[t] = "repair" /\ pc'[t] = "revive" /\ status' = "running" /\ ~Refused(t)
          \/ /\ pc[t] \in {"acquire", "repair", "revive"} /\ pc'[t] = "done"
             /\ status' = want[t] /\ (pc[t] = "acquire" \/ Failed)
          \/ /\ pc[t] \in {"adopt", "revive"} /\ pc'[t] = "begin"
             /\ status' = "running" /\ "cancel" \notin asked /\ ~lost /\ ~closing
          \/ /\ pc[t] = "settle" /\ pc'[t] = "question"
             /\ status' = "waiting_for_parent" /\ "cancel" \notin asked /\ ~lost
          \/ pc'[t] = "yield" /\ status' = "interrupted" /\ (pc[t] = "interrupt" \/ Failed)
          \/ pc[t] = "finish" /\ pc'[t] \in {"remove", "retain"} /\ status' = want[t]
          \/ pc[t] = "retain" /\ pc'[t] = "back" /\ status' = "interrupted" /\ Failed
       /\ pc'[t] = "question" => status' = "waiting_for_parent"
       /\ pc'[t] = "yield" => status' = "interrupted"
       /\ pc[t] = "revive" /\ pc'[t] = "done" => status' = want[t]
       /\ pc[t] = "finish" /\ pc'[t] \in {"remove", "retain"} =>
            status' = want[t] /\ outcome' = want[t]
       /\ \/ outcome' = outcome
          \/ pc[t] = "finish" /\ pc'[t] \in {"remove", "retain"}
          \/ pc[t] = "retain" /\ pc'[t] = "back" /\ outcome' = None /\ Failed
       /\ \/ completion' = completion
          \/ completion = None /\ completion' = t /\ pc'[t] = "finish"
          \/ completion = t /\ pc[t] \in {"retain", "bury", "yield"} /\ completion' = Settled
       /\ pc[t] = "retain" /\ pc'[t] = "back" /\ completion = t => completion' = Settled
  /\ pc' = pc => UNCHANGED <<status, outcome, completion>>

(* What becomes of the record. *)
RecordSteps ==
  /\ \A t \in Task : pc'[t] # pc[t] =>
       /\ IF pc[t] \in Saving THEN \E ok \in BOOLEAN : SaveEnds(t, ok) ELSE durable' = durable
       /\ pc'[t] \in Saving =>
            \E s \in Status \cup {"removed"} :
              /\ queue' = Saved(IF pc[t] \in Saving THEN Rest(t) ELSE queue, t, s)
              /\ s \in Active =>
                   \/ pc'[t] \in {"reserve", "revive", "begin"}
                   \/ pc[t] \in {"setup", "prompt", "question"} /\ s = status
  /\ pc' = pc => durable' = durable

LEMMA SaveMeets ==
  ASSUME StateInv, Grounds, NEW t \in Task, NEW ok \in BOOLEAN,
         pc[t] \in Saving, SaveEnds(t, ok)
  PROVE  /\ ok => ~Refused(t) /\ faults' = faults
         /\ ~ok => "save" \in faults' \/ (Refused(t) /\ lost /\ pc[t] # "reserve")
<1>1. /\ Entry(t) \in DOMAIN queue /\ queue[Entry(t)].task = t
      /\ \A i \in DOMAIN queue : queue[i].task = t => i = Entry(t)
  BY EntryFound DEF StateInv
<1>2. ok => ~queue[Entry(t)].refused /\ faults' = faults
  BY DEF SaveEnds
<1>3. ~ok => queue[Entry(t)].refused \/ "save" \in faults'
  BY DEF SaveEnds, Fault
<1> QED BY <1>1, <1>2, <1>3 DEF Refused, Grounds

LEMMA WorkspaceFails ==
  ASSUME NEW ok \in BOOLEAN, WorkspaceChecked(ok)
  PROVE  (ok => faults' = faults) /\ (~ok => "checkpoint" \in faults')
BY DEF WorkspaceChecked, Fault

(* No two calls meet unless the parent races. *)
LEMMA StepCaller ==
  ASSUME StateInv, Next
  PROVE  CallerSteps
<1> USE DEF StateInv, TaskTypes, At, Saving, Placed, CallerSteps, Goto, Active,
           Parked, Terminal
<1>1. ASSUME NEW t \in Task, NEW inBackground \in BOOLEAN, Start(t, inBackground)
     PROVE  CallerSteps
  BY <1>1, StartMoves DEF Start
<1>2. ASSUME NEW t \in Task, NEW ok \in BOOLEAN, Reserved(t, ok)
     PROVE  CallerSteps
  BY <1>2 DEF Reserved, Acquire, childVars, leaseVars
<1>3. ASSUME NEW t \in Task, ChildCreated(t)
     PROVE  CallerSteps
  BY <1>3 DEF ChildCreated, lifeVars, leaseVars, opVars, endVars, userVars
<1>4. ASSUME NEW t \in Task, ChildFailed(t)
     PROVE  CallerSteps
  BY <1>4 DEF ChildFailed, FinishTerminal, lifeVars, childVars, leaseVars, opVars,
      saveVars, userVars
<1>5. ASSUME NEW t \in Task, NEW ok \in BOOLEAN, Adopted(t, ok)
     PROVE  CallerSteps
  BY <1>5 DEF Adopted, FinishTerminal, StopWork, FinishInterrupted, BeginOperation,
      leaseVars, userVars
<1>6. ASSUME NEW t \in Task, NEW byTool \in BOOLEAN, Resume(t, byTool)
     PROVE  CallerSteps
  BY <1>6 DEF Resume, Unused, ByTool, ByBrowser, lifeVars, childVars, leaseVars,
      opVars, endVars, saveVars
<1>7. ASSUME NEW t \in Task, Acquired(t)
     PROVE  CallerSteps
  BY <1>7 DEF Acquired, Acquire, leaseVars, childVars, opVars, endVars, userVars
<1>8. ASSUME NEW t \in Task, AcquireGivesUp(t)
     PROVE  CallerSteps
  BY <1>8 DEF AcquireGivesUp, ResumeFails, childVars, opVars, endVars, saveVars
<1>9. ASSUME NEW t \in Task, NEW ok \in BOOLEAN, Repaired(t, ok)
     PROVE  CallerSteps
  BY <1>9 DEF Repaired, ResumeFails, leaseVars, childVars, opVars, endVars
<1>10. ASSUME NEW t \in Task, NEW ok \in BOOLEAN, Revived(t, ok)
     PROVE  CallerSteps
  BY <1>10 DEF Revived, ResumeFails, leaseVars, FinishTerminal, StopWork,
      FinishInterrupted, BeginOperation
<1>11. ASSUME NEW t \in Task, NEW ok \in BOOLEAN, Begun(t, ok)
     PROVE  CallerSteps
  BY <1>11 DEF Begun, FinishTerminal, StopWork, FinishInterrupted, DriveInterruption,
      PromptFailure, lifeVars, leaseVars, userVars
<1>12. ASSUME NEW t \in Task, PromptSettles(t)
     PROVE  CallerSteps
  BY <1>12 DEF PromptSettles, FinishInterrupted, lifeVars, childVars, leaseVars,
      opVars, userVars
<1>13. ASSUME NEW t \in Task, PromptRejects(t)
     PROVE  CallerSteps
  BY <1>13 DEF PromptRejects, PromptFailure, DriveInterruption, FinishTerminal,
      FinishInterrupted, StopWork, lifeVars, childVars, leaseVars, opVars,
      saveVars, userVars
<1>14. ASSUME NEW t \in Task, NEW ok \in BOOLEAN, OperationSettled(t, ok)
     PROVE  CallerSteps
  BY <1>14 DEF OperationSettled, FinishTerminal, StopWork, FinishInterrupted,
      DriveInterruption, leaseVars, opVars, userVars
<1>15. ASSUME NEW t \in Task, NEW ok \in BOOLEAN, QuestionChecked(t, ok)
     PROVE  CallerSteps
  BY <1>15 DEF QuestionChecked, FinalizeInterrupted, childVars, leaseVars, opVars,
      endVars, userVars
<1>16. ASSUME NEW t \in Task, NEW ok \in BOOLEAN, QuestionSaved(t, ok)
     PROVE  CallerSteps
  BY <1>16 DEF QuestionSaved, FinalizeInterrupted, leaseVars, childVars, opVars,
      endVars, userVars
<1>17. ASSUME NEW t \in Task, InterruptChecked(t)
     PROVE  CallerSteps
  BY <1>17 DEF InterruptChecked, FinalizeInterrupted, childVars, leaseVars, opVars,
      endVars, userVars
<1>18. ASSUME NEW t \in Task, NEW ok \in BOOLEAN, InterruptSaved(t, ok)
     PROVE  CallerSteps
  BY <1>18 DEF InterruptSaved, CompletionEnds, lifeVars, childVars, opVars, userVars
<1>19. ASSUME NEW t \in Task, NEW ok \in BOOLEAN, TerminalChecked(t, ok)
     PROVE  CallerSteps
  BY <1>19 DEF TerminalChecked, FinalizeInterrupted, RemoveRun, childVars, leaseVars,
      opVars, userVars
<1>20. ASSUME NEW t \in Task, NEW ok \in BOOLEAN, ResultSaved(t, ok)
     PROVE  CallerSteps
  BY <1>20 DEF ResultSaved, CompletionEnds, childVars, opVars, userVars
<1>21. ASSUME NEW t \in Task, Unpending(t)
     PROVE  CallerSteps
  BY <1>21 DEF Unpending, leaseVars, childVars, lifeVars, opVars, endVars, userVars
<1>22. ASSUME NEW t \in Task, NEW ok \in BOOLEAN, Buried(t, ok)
     PROVE  CallerSteps
  BY <1>22 DEF Buried, CompletionEnds, lifeVars, opVars, userVars
<1>23. ASSUME NEW t \in Task, Joined(t)
     PROVE  CallerSteps
  BY <1>23 DEF Joined, lifeVars, childVars, leaseVars, opVars, endVars, saveVars,
      userVars
<1>24. ASSUME NEW t \in Task, WorkReturns(t)
     PROVE  CallerSteps
  BY <1>24 DEF WorkReturns, leaseVars, childVars, endVars, saveVars
<1>25. ASSUME NEW t \in Task, NEW byTool \in BOOLEAN, Cancel(t, byTool)
     PROVE  CallerSteps
  BY <1>25, ZenonT(60) DEF Cancel, Unused, ByTool, ByBrowser, FinishTerminal, lifeVars,
      leaseVars, opVars, saveVars
<1>26. ASSUME NEW t \in Task, Halted(t)
     PROVE  CallerSteps
  BY <1>26 DEF Halted, FinishTerminal, lifeVars, childVars, leaseVars, opVars,
      saveVars, userVars
<1>27. ASSUME NEW t \in Task, CancelReturns(t)
     PROVE  CallerSteps
  BY <1>27 DEF CancelReturns, RemoveRun, childVars, leaseVars, opVars, saveVars
<1>28. ASSUME NEW t \in Task, Collect(t)
     PROVE  CallerSteps
  BY <1>28 DEF Collect, Unused, ByTool, RemoveRun, childVars, leaseVars, opVars,
      saveVars
<1>29. ASSUME NEW t \in Task, CollectReturns(t)
     PROVE  CallerSteps
  BY <1>29 DEF CollectReturns, lifeVars, childVars, leaseVars, opVars, saveVars
<1>30. ASSUME NEW t \in Task, Shutdown(t)
     PROVE  CallerSteps
  BY <1>30 DEF Shutdown, Unused, lifeVars, leaseVars, opVars, saveVars
<1>31. ASSUME NEW t \in Task, SetupDrained(t)
     PROVE  CallerSteps
  BY <1>31 DEF SetupDrained, lifeVars, leaseVars, opVars, endVars, saveVars, userVars
<1>32. ASSUME NEW t \in Task, OperationDrained(t)
     PROVE  CallerSteps
  BY <1>32 DEF OperationDrained, RemoveRun, FinishInterrupted, childVars, leaseVars,
      opVars, userVars
<1>33. ASSUME NEW t \in Task, NEW ok \in BOOLEAN, Preserved(t, ok)
     PROVE  CallerSteps
  BY <1>33 DEF Preserved, RemoveRun, leaseVars, opVars, userVars
<1>34. ASSUME NEW t \in Task, ShutdownReturns(t)
     PROVE  CallerSteps
  BY <1>34 DEF ShutdownReturns, RemoveRun, childVars, leaseVars, opVars, saveVars,
      userVars
<1>35. ASSUME NEW t \in Task, Signal(t)
     PROVE  CallerSteps
  BY <1>35 DEF Signal, lifeVars, leaseVars, opVars, endVars, saveVars, taskVars
<1>36. ASSUME Detach
     PROVE  CallerSteps
  BY <1>36 DEF Detach, childVars, leaseVars, endVars, saveVars, taskVars
<1>37. ASSUME LoseLease
     PROVE  CallerSteps
  BY <1>37 DEF LoseLease, lifeVars, opVars, endVars, taskVars, userVars
<1>38. ASSUME OtherTakes
     PROVE  CallerSteps
  BY <1>38 DEF OtherTakes, lifeVars, childVars, opVars, endVars, saveVars, taskVars,
      userVars
<1>39. ASSUME OtherReleases
     PROVE  CallerSteps
  BY <1>39 DEF OtherReleases, lifeVars, childVars, opVars, endVars, saveVars,
      taskVars, userVars
<1> HIDE DEF StateInv, TaskTypes, At, Saving, Placed, CallerSteps, Goto, Active,
           Parked, Terminal
<1> QED
  BY <1>1, <1>2, <1>3, <1>4, <1>5, <1>6, <1>7, <1>8, <1>9, <1>10, <1>11,
      <1>12, <1>13, <1>14, <1>15, <1>16, <1>17, <1>18, <1>19, <1>20, <1>21,
      <1>22, <1>23, <1>24, <1>25, <1>26, <1>27, <1>28, <1>29, <1>30, <1>31,
      <1>32, <1>33, <1>34, <1>35, <1>36, <1>37, <1>38, <1>39
  DEF Next, SaveCompletes, WorkspaceCompletes, Reacts, Called

(* A task takes the steps of its kind. *)
LEMMA StepFlow ==
  ASSUME StateInv, Grounds, OneSettles, Next
  PROVE  FlowSteps
<1> USE Distinct DEF StateInv, TaskTypes, At, Saving, Placed, WorkSteps, CancelSteps,
           ShutdownSteps, FlowSteps, Goto, Before, Carrying, Ended
<1>1. ASSUME NEW t \in Task, NEW inBackground \in BOOLEAN, Start(t, inBackground)
     PROVE  FlowSteps
  BY <1>1, StartMoves
<1>2. ASSUME NEW t \in Task, NEW ok \in BOOLEAN, Reserved(t, ok)
     PROVE  FlowSteps
  BY <1>2, SaveMeets DEF Reserved, Acquire, childVars, leaseVars
<1>3. ASSUME NEW t \in Task, ChildCreated(t)
     PROVE  FlowSteps
  BY <1>3 DEF ChildCreated, lifeVars, leaseVars, opVars, endVars, userVars
<1>4. ASSUME NEW t \in Task, ChildFailed(t)
     PROVE  FlowSteps
  BY <1>4 DEF ChildFailed, FinishTerminal, lifeVars, childVars, leaseVars, opVars,
      saveVars, userVars
<1>5. ASSUME NEW t \in Task, NEW ok \in BOOLEAN, Adopted(t, ok)
     PROVE  FlowSteps
  BY <1>5, SaveMeets DEF Adopted, FinishTerminal, StopWork, FinishInterrupted, BeginOperation,
      leaseVars, userVars
<1>6. ASSUME NEW t \in Task, NEW byTool \in BOOLEAN, Resume(t, byTool)
     PROVE  FlowSteps
  BY <1>6 DEF Resume, Unused, ByTool, ByBrowser, lifeVars, childVars, leaseVars,
      opVars, endVars, saveVars
<1>7. ASSUME NEW t \in Task, Acquired(t)
     PROVE  FlowSteps
  BY <1>7 DEF Acquired, Acquire, leaseVars, childVars, opVars, endVars, userVars
<1>8. ASSUME NEW t \in Task, AcquireGivesUp(t)
     PROVE  FlowSteps
  BY <1>8 DEF AcquireGivesUp, ResumeFails, childVars, opVars, endVars, saveVars
<1>9. ASSUME NEW t \in Task, NEW ok \in BOOLEAN, Repaired(t, ok)
     PROVE  FlowSteps
  BY <1>9, SaveMeets DEF Repaired, ResumeFails, leaseVars, childVars, opVars, endVars
<1>10. ASSUME NEW t \in Task, NEW ok \in BOOLEAN, Revived(t, ok)
     PROVE  FlowSteps
  BY <1>10, SaveMeets DEF Revived, ResumeFails, leaseVars, FinishTerminal, StopWork,
      FinishInterrupted, BeginOperation
<1>11. ASSUME NEW t \in Task, NEW ok \in BOOLEAN, Begun(t, ok)
     PROVE  FlowSteps
  BY <1>11, SaveMeets DEF Begun, FinishTerminal, StopWork, FinishInterrupted, DriveInterruption,
      PromptFailure, lifeVars, leaseVars, userVars
<1>12. ASSUME NEW t \in Task, PromptSettles(t)
     PROVE  FlowSteps
  BY <1>12 DEF PromptSettles, FinishInterrupted, lifeVars, childVars, leaseVars,
      opVars, userVars
<1>13. ASSUME NEW t \in Task, PromptRejects(t)
     PROVE  FlowSteps
  BY <1>13 DEF PromptRejects, PromptFailure, DriveInterruption, FinishTerminal,
      FinishInterrupted, StopWork, lifeVars, childVars, leaseVars, opVars,
      saveVars, userVars
<1>14. ASSUME NEW t \in Task, NEW ok \in BOOLEAN, OperationSettled(t, ok)
     PROVE  FlowSteps
  BY <1>14, SaveMeets DEF OperationSettled, FinishTerminal, StopWork, FinishInterrupted,
      DriveInterruption, leaseVars, opVars, userVars
<1>15. ASSUME NEW t \in Task, NEW ok \in BOOLEAN, QuestionChecked(t, ok)
     PROVE  FlowSteps
  BY <1>15, WorkspaceFails DEF QuestionChecked, FinalizeInterrupted, childVars, leaseVars, opVars,
      endVars, userVars
<1>16. ASSUME NEW t \in Task, NEW ok \in BOOLEAN, QuestionSaved(t, ok)
     PROVE  FlowSteps
  BY <1>16, SaveMeets DEF QuestionSaved, FinalizeInterrupted, leaseVars, childVars, opVars,
      endVars, userVars
<1>17. ASSUME NEW t \in Task, InterruptChecked(t)
     PROVE  FlowSteps
  BY <1>17 DEF InterruptChecked, FinalizeInterrupted, childVars, leaseVars, opVars,
      endVars, userVars
<1>18. ASSUME NEW t \in Task, NEW ok \in BOOLEAN, InterruptSaved(t, ok)
     PROVE  FlowSteps
  BY <1>18, SaveMeets DEF InterruptSaved, CompletionEnds, lifeVars, childVars, opVars, userVars
<1>19. ASSUME NEW t \in Task, NEW ok \in BOOLEAN, TerminalChecked(t, ok)
     PROVE  FlowSteps
  BY <1>19, WorkspaceFails DEF TerminalChecked, FinalizeInterrupted, RemoveRun, childVars, leaseVars,
      opVars, userVars
<1>20. ASSUME NEW t \in Task, NEW ok \in BOOLEAN, ResultSaved(t, ok)
     PROVE  FlowSteps
  BY <1>20, SaveMeets DEF ResultSaved, CompletionEnds, childVars, opVars, userVars
<1>21. ASSUME NEW t \in Task, Unpending(t)
     PROVE  FlowSteps
  BY <1>21 DEF Unpending, leaseVars, childVars, lifeVars, opVars, endVars, userVars
<1>22. ASSUME NEW t \in Task, NEW ok \in BOOLEAN, Buried(t, ok)
     PROVE  FlowSteps
  BY <1>22, SaveMeets DEF Buried, CompletionEnds, lifeVars, opVars, userVars
<1>23. ASSUME NEW t \in Task, Joined(t)
     PROVE  FlowSteps
  BY <1>23 DEF Joined, lifeVars, childVars, leaseVars, opVars, endVars, saveVars,
      userVars
<1>24. ASSUME NEW t \in Task, WorkReturns(t)
     PROVE  FlowSteps
  BY <1>24 DEF WorkReturns, leaseVars, childVars, endVars, saveVars
<1>25. ASSUME NEW t \in Task, NEW byTool \in BOOLEAN, Cancel(t, byTool)
     PROVE  FlowSteps
  BY <1>25, CancelMoves DEF FinishTerminal
<1>26. ASSUME NEW t \in Task, Halted(t)
     PROVE  FlowSteps
  BY <1>26 DEF Halted, FinishTerminal, lifeVars, childVars, leaseVars, opVars,
      saveVars, userVars
<1>27. ASSUME NEW t \in Task, CancelReturns(t)
     PROVE  FlowSteps
  BY <1>27 DEF CancelReturns, RemoveRun, childVars, leaseVars, opVars, saveVars
<1>28. ASSUME NEW t \in Task, Collect(t)
     PROVE  FlowSteps
  BY <1>28 DEF Collect, Unused, ByTool, RemoveRun, childVars, leaseVars, opVars,
      saveVars
<1>29. ASSUME NEW t \in Task, CollectReturns(t)
     PROVE  FlowSteps
  BY <1>29 DEF CollectReturns, lifeVars, childVars, leaseVars, opVars, saveVars
<1>30. ASSUME NEW t \in Task, Shutdown(t)
     PROVE  FlowSteps
  BY <1>30 DEF Shutdown, Unused
<1>31. ASSUME NEW t \in Task, SetupDrained(t)
     PROVE  FlowSteps
  BY <1>31 DEF SetupDrained, lifeVars, leaseVars, opVars, endVars, saveVars, userVars
<1>32. ASSUME NEW t \in Task, OperationDrained(t)
     PROVE  FlowSteps
  BY <1>32 DEF OperationDrained, RemoveRun, FinishInterrupted, childVars, leaseVars,
      opVars, userVars, Grounds
<1>33. ASSUME NEW t \in Task, NEW ok \in BOOLEAN, Preserved(t, ok)
     PROVE  FlowSteps
  BY <1>33, SaveMeets DEF Preserved, RemoveRun, leaseVars, opVars, userVars
<1>34. ASSUME NEW t \in Task, ShutdownReturns(t)
     PROVE  FlowSteps
  BY <1>34 DEF ShutdownReturns, RemoveRun, childVars, leaseVars, opVars, saveVars,
      userVars
<1>35. ASSUME NEW t \in Task, Signal(t)
     PROVE  FlowSteps
  BY <1>35 DEF Signal, lifeVars, leaseVars, opVars, endVars, saveVars, taskVars
<1>36. ASSUME Detach
     PROVE  FlowSteps
  BY <1>36 DEF Detach, childVars, leaseVars, endVars, saveVars, taskVars
<1>37. ASSUME LoseLease
     PROVE  FlowSteps
  BY <1>37 DEF LoseLease, lifeVars, opVars, endVars, taskVars, userVars, Fault
<1>38. ASSUME OtherTakes
     PROVE  FlowSteps
  BY <1>38 DEF OtherTakes, lifeVars, childVars, opVars, endVars, saveVars, taskVars,
      userVars
<1>39. ASSUME OtherReleases
     PROVE  FlowSteps
  BY <1>39 DEF OtherReleases, lifeVars, childVars, opVars, endVars, saveVars,
      taskVars, userVars
<1> HIDE DEF StateInv, TaskTypes, At, Saving, Placed, WorkSteps, CancelSteps,
           ShutdownSteps, FlowSteps, Goto, Before, Carrying, Ended
<1> QED
  BY <1>1, <1>2, <1>3, <1>4, <1>5, <1>6, <1>7, <1>8, <1>9, <1>10, <1>11,
      <1>12, <1>13, <1>14, <1>15, <1>16, <1>17, <1>18, <1>19, <1>20, <1>21,
      <1>22, <1>23, <1>24, <1>25, <1>26, <1>27, <1>28, <1>29, <1>30, <1>31,
      <1>32, <1>33, <1>34, <1>35, <1>36, <1>37, <1>38, <1>39
  DEF Next, SaveCompletes, WorkspaceCompletes, Reacts, Called

(* A status is left by the task whose step it is. *)
LEMMA StepStatus ==
  ASSUME StateInv, Grounds, OneSettles, Next
  PROVE  StatusSteps
<1> USE Distinct DEF StateInv, TaskTypes, At, Saving, Placed, OneSettles, Settling,
           WorkSteps, CancelSteps, ShutdownSteps, StatusSteps, Goto, Failed,
           Interrupted
<1>1. ASSUME NEW t \in Task, NEW inBackground \in BOOLEAN, Start(t, inBackground)
     PROVE  StatusSteps
  BY <1>1, StartMoves
<1>2. ASSUME NEW t \in Task, NEW ok \in BOOLEAN, Reserved(t, ok)
     PROVE  StatusSteps
  BY <1>2, SaveMeets DEF Reserved, Acquire, childVars, leaseVars
<1>3. ASSUME NEW t \in Task, ChildCreated(t)
     PROVE  StatusSteps
  BY <1>3 DEF ChildCreated, lifeVars, leaseVars, opVars, endVars, userVars
<1>4. ASSUME NEW t \in Task, ChildFailed(t)
     PROVE  StatusSteps
  BY <1>4 DEF ChildFailed, FinishTerminal, lifeVars, childVars, leaseVars, opVars,
      saveVars, userVars
<1>5. ASSUME NEW t \in Task, NEW ok \in BOOLEAN, Adopted(t, ok)
     PROVE  StatusSteps
  BY <1>5, SaveMeets DEF Adopted, FinishTerminal, StopWork, FinishInterrupted, BeginOperation,
      leaseVars, userVars
<1>6. ASSUME NEW t \in Task, NEW byTool \in BOOLEAN, Resume(t, byTool)
     PROVE  StatusSteps
  BY <1>6 DEF Resume, Unused, ByTool, ByBrowser, lifeVars, childVars, leaseVars,
      opVars, endVars, saveVars
<1>7. ASSUME NEW t \in Task, Acquired(t)
     PROVE  StatusSteps
  BY <1>7 DEF Acquired, Acquire, leaseVars, childVars, opVars, endVars, userVars
<1>8. ASSUME NEW t \in Task, AcquireGivesUp(t)
     PROVE  StatusSteps
  BY <1>8 DEF AcquireGivesUp, ResumeFails, childVars, opVars, endVars, saveVars
<1>9. ASSUME NEW t \in Task, NEW ok \in BOOLEAN, Repaired(t, ok)
     PROVE  StatusSteps
  BY <1>9, SaveMeets DEF Repaired, ResumeFails, leaseVars, childVars, opVars, endVars
<1>10. ASSUME NEW t \in Task, NEW ok \in BOOLEAN, Revived(t, ok)
     PROVE  StatusSteps
  BY <1>10, SaveMeets DEF Revived, ResumeFails, leaseVars, FinishTerminal, StopWork,
      FinishInterrupted, BeginOperation
<1>11. ASSUME NEW t \in Task, NEW ok \in BOOLEAN, Begun(t, ok)
     PROVE  StatusSteps
  BY <1>11, SaveMeets DEF Begun, FinishTerminal, StopWork, FinishInterrupted, DriveInterruption,
      PromptFailure, lifeVars, leaseVars, userVars
<1>12. ASSUME NEW t \in Task, PromptSettles(t)
     PROVE  StatusSteps
  BY <1>12 DEF PromptSettles, FinishInterrupted, lifeVars, childVars, leaseVars,
      opVars, userVars
<1>13. ASSUME NEW t \in Task, PromptRejects(t)
     PROVE  StatusSteps
  BY <1>13 DEF PromptRejects, PromptFailure, DriveInterruption, FinishTerminal,
      FinishInterrupted, StopWork, lifeVars, childVars, leaseVars, opVars,
      saveVars, userVars
<1>14. ASSUME NEW t \in Task, NEW ok \in BOOLEAN, OperationSettled(t, ok)
     PROVE  StatusSteps
  BY <1>14, SaveMeets DEF OperationSettled, FinishTerminal, StopWork, FinishInterrupted,
      DriveInterruption, leaseVars, opVars, userVars
<1>15. ASSUME NEW t \in Task, NEW ok \in BOOLEAN, QuestionChecked(t, ok)
     PROVE  StatusSteps
  BY <1>15, WorkspaceFails DEF QuestionChecked, FinalizeInterrupted, childVars, leaseVars, opVars,
      endVars, userVars
<1>16. ASSUME NEW t \in Task, NEW ok \in BOOLEAN, QuestionSaved(t, ok)
     PROVE  StatusSteps
  BY <1>16, SaveMeets DEF QuestionSaved, FinalizeInterrupted, leaseVars, childVars, opVars,
      endVars, userVars
<1>17. ASSUME NEW t \in Task, InterruptChecked(t)
     PROVE  StatusSteps
  BY <1>17 DEF InterruptChecked, FinalizeInterrupted, childVars, leaseVars, opVars,
      endVars, userVars
<1>18. ASSUME NEW t \in Task, NEW ok \in BOOLEAN, InterruptSaved(t, ok)
     PROVE  StatusSteps
  BY <1>18, SaveMeets DEF InterruptSaved, CompletionEnds, lifeVars, childVars, opVars, userVars
<1>19. ASSUME NEW t \in Task, NEW ok \in BOOLEAN, TerminalChecked(t, ok)
     PROVE  StatusSteps
  BY <1>19, WorkspaceFails DEF TerminalChecked, FinalizeInterrupted, RemoveRun, childVars, leaseVars,
      opVars, userVars
<1>20. ASSUME NEW t \in Task, NEW ok \in BOOLEAN, ResultSaved(t, ok)
     PROVE  StatusSteps
  BY <1>20, SaveMeets DEF ResultSaved, CompletionEnds, childVars, opVars, userVars
<1>21. ASSUME NEW t \in Task, Unpending(t)
     PROVE  StatusSteps
  BY <1>21 DEF Unpending, leaseVars, childVars, lifeVars, opVars, endVars, userVars
<1>22. ASSUME NEW t \in Task, NEW ok \in BOOLEAN, Buried(t, ok)
     PROVE  StatusSteps
  BY <1>22, SaveMeets DEF Buried, CompletionEnds, lifeVars, opVars, userVars
<1>23. ASSUME NEW t \in Task, Joined(t)
     PROVE  StatusSteps
  BY <1>23 DEF Joined, lifeVars, childVars, leaseVars, opVars, endVars, saveVars,
      userVars
<1>24. ASSUME NEW t \in Task, WorkReturns(t)
     PROVE  StatusSteps
  BY <1>24 DEF WorkReturns, leaseVars, childVars, endVars, saveVars
<1>25. ASSUME NEW t \in Task, NEW byTool \in BOOLEAN, Cancel(t, byTool)
     PROVE  StatusSteps
  BY <1>25, CancelMoves DEF FinishTerminal
<1>26. ASSUME NEW t \in Task, Halted(t)
     PROVE  StatusSteps
  BY <1>26 DEF Halted, FinishTerminal, lifeVars, childVars, leaseVars, opVars,
      saveVars, userVars
<1>27. ASSUME NEW t \in Task, CancelReturns(t)
     PROVE  StatusSteps
  BY <1>27 DEF CancelReturns, RemoveRun, childVars, leaseVars, opVars, saveVars
<1>28. ASSUME NEW t \in Task, Collect(t)
     PROVE  StatusSteps
  BY <1>28 DEF Collect, Unused, ByTool, RemoveRun, childVars, leaseVars, opVars,
      saveVars
<1>29. ASSUME NEW t \in Task, CollectReturns(t)
     PROVE  StatusSteps
  BY <1>29 DEF CollectReturns, lifeVars, childVars, leaseVars, opVars, saveVars
<1>30. ASSUME NEW t \in Task, Shutdown(t)
     PROVE  StatusSteps
  BY <1>30 DEF Shutdown, Unused, lifeVars
<1>31. ASSUME NEW t \in Task, SetupDrained(t)
     PROVE  StatusSteps
  BY <1>31 DEF SetupDrained, lifeVars, leaseVars, opVars, endVars, saveVars, userVars
<1>32. ASSUME NEW t \in Task, OperationDrained(t)
     PROVE  StatusSteps
  BY <1>32 DEF OperationDrained, RemoveRun, FinishInterrupted, childVars, leaseVars,
      opVars, userVars, Grounds
<1>33. ASSUME NEW t \in Task, NEW ok \in BOOLEAN, Preserved(t, ok)
     PROVE  StatusSteps
  BY <1>33, SaveMeets DEF Preserved, RemoveRun, leaseVars, opVars, userVars
<1>34. ASSUME NEW t \in Task, ShutdownReturns(t)
     PROVE  StatusSteps
  BY <1>34 DEF ShutdownReturns, RemoveRun, childVars, leaseVars, opVars, saveVars,
      userVars
<1>35. ASSUME NEW t \in Task, Signal(t)
     PROVE  StatusSteps
  BY <1>35 DEF Signal, lifeVars, leaseVars, opVars, endVars, saveVars, taskVars
<1>36. ASSUME Detach
     PROVE  StatusSteps
  BY <1>36 DEF Detach, childVars, leaseVars, endVars, saveVars, taskVars
<1>37. ASSUME LoseLease
     PROVE  StatusSteps
  BY <1>37 DEF LoseLease, lifeVars, opVars, endVars, taskVars, userVars, Fault
<1>38. ASSUME OtherTakes
     PROVE  StatusSteps
  BY <1>38 DEF OtherTakes, lifeVars, childVars, opVars, endVars, saveVars, taskVars,
      userVars
<1>39. ASSUME OtherReleases
     PROVE  StatusSteps
  BY <1>39 DEF OtherReleases, lifeVars, childVars, opVars, endVars, saveVars,
      taskVars, userVars
<1> HIDE DEF StateInv, TaskTypes, At, Saving, Placed, OneSettles, Settling,
           WorkSteps, CancelSteps, ShutdownSteps, StatusSteps, Goto, Failed,
           Interrupted
<1> QED
  BY <1>1, <1>2, <1>3, <1>4, <1>5, <1>6, <1>7, <1>8, <1>9, <1>10, <1>11,
      <1>12, <1>13, <1>14, <1>15, <1>16, <1>17, <1>18, <1>19, <1>20, <1>21,
      <1>22, <1>23, <1>24, <1>25, <1>26, <1>27, <1>28, <1>29, <1>30, <1>31,
      <1>32, <1>33, <1>34, <1>35, <1>36, <1>37, <1>38, <1>39
  DEF Next, SaveCompletes, WorkspaceCompletes, Reacts, Called

(* A record says what the run was when it was projected. *)
LEMMA StepRecord ==
  ASSUME StateInv, Next
  PROVE  RecordSteps
<1> USE DEF StateInv, TaskTypes, At, Saving, Placed, Wanted, WorkSteps, CancelSteps,
           ShutdownSteps, RecordSteps, Goto, Active, Parked, Terminal, Status
<1>1. ASSUME NEW t \in Task, NEW inBackground \in BOOLEAN, Start(t, inBackground)
     PROVE  RecordSteps
  BY <1>1, StartMoves
<1>2. ASSUME NEW t \in Task, NEW ok \in BOOLEAN, Reserved(t, ok)
     PROVE  RecordSteps
  BY <1>2 DEF Reserved, Acquire, childVars, leaseVars
<1>3. ASSUME NEW t \in Task, ChildCreated(t)
     PROVE  RecordSteps
  BY <1>3 DEF ChildCreated, lifeVars, leaseVars, opVars, endVars, userVars, NotYet,
      ValueTypes, Status
<1>4. ASSUME NEW t \in Task, ChildFailed(t)
     PROVE  RecordSteps
  BY <1>4 DEF ChildFailed, FinishTerminal, lifeVars, childVars, leaseVars, opVars,
      saveVars, userVars
<1>5. ASSUME NEW t \in Task, NEW ok \in BOOLEAN, Adopted(t, ok)
     PROVE  RecordSteps
  BY <1>5 DEF Adopted, FinishTerminal, StopWork, FinishInterrupted, BeginOperation,
      leaseVars, userVars
<1>6. ASSUME NEW t \in Task, NEW byTool \in BOOLEAN, Resume(t, byTool)
     PROVE  RecordSteps
  BY <1>6 DEF Resume, Unused, ByTool, ByBrowser, lifeVars, childVars, leaseVars,
      opVars, endVars, saveVars
<1>7. ASSUME NEW t \in Task, Acquired(t)
     PROVE  RecordSteps
  BY <1>7 DEF Acquired, Acquire, leaseVars, childVars, opVars, endVars, userVars
<1>8. ASSUME NEW t \in Task, AcquireGivesUp(t)
     PROVE  RecordSteps
  BY <1>8 DEF AcquireGivesUp, ResumeFails, childVars, opVars, endVars, saveVars
<1>9. ASSUME NEW t \in Task, NEW ok \in BOOLEAN, Repaired(t, ok)
     PROVE  RecordSteps
  BY <1>9 DEF Repaired, ResumeFails, leaseVars, childVars, opVars, endVars
<1>10. ASSUME NEW t \in Task, NEW ok \in BOOLEAN, Revived(t, ok)
     PROVE  RecordSteps
  BY <1>10 DEF Revived, ResumeFails, leaseVars, FinishTerminal, StopWork,
      FinishInterrupted, BeginOperation
<1>11. ASSUME NEW t \in Task, NEW ok \in BOOLEAN, Begun(t, ok)
     PROVE  RecordSteps
  BY <1>11 DEF Begun, FinishTerminal, StopWork, FinishInterrupted, DriveInterruption,
      PromptFailure, lifeVars, leaseVars, userVars
<1>12. ASSUME NEW t \in Task, PromptSettles(t)
     PROVE  RecordSteps
  BY <1>12 DEF PromptSettles, FinishInterrupted, lifeVars, childVars, leaseVars,
      opVars, userVars, NotYet, ValueTypes, Status
<1>13. ASSUME NEW t \in Task, PromptRejects(t)
     PROVE  RecordSteps
  BY <1>13 DEF PromptRejects, PromptFailure, DriveInterruption, FinishTerminal,
      FinishInterrupted, StopWork, lifeVars, childVars, leaseVars, opVars,
      saveVars, userVars
<1>14. ASSUME NEW t \in Task, NEW ok \in BOOLEAN, OperationSettled(t, ok)
     PROVE  RecordSteps
  BY <1>14 DEF OperationSettled, FinishTerminal, StopWork, FinishInterrupted,
      DriveInterruption, leaseVars, opVars, userVars
<1>15. ASSUME NEW t \in Task, NEW ok \in BOOLEAN, QuestionChecked(t, ok)
     PROVE  RecordSteps
  BY <1>15 DEF QuestionChecked, FinalizeInterrupted, childVars, leaseVars, opVars,
      endVars, userVars, NotYet, ValueTypes, Status
<1>16. ASSUME NEW t \in Task, NEW ok \in BOOLEAN, QuestionSaved(t, ok)
     PROVE  RecordSteps
  BY <1>16 DEF QuestionSaved, FinalizeInterrupted, leaseVars, childVars, opVars,
      endVars, userVars
<1>17. ASSUME NEW t \in Task, InterruptChecked(t)
     PROVE  RecordSteps
  BY <1>17 DEF InterruptChecked, FinalizeInterrupted, childVars, leaseVars, opVars,
      endVars, userVars
<1>18. ASSUME NEW t \in Task, NEW ok \in BOOLEAN, InterruptSaved(t, ok)
     PROVE  RecordSteps
  BY <1>18 DEF InterruptSaved, CompletionEnds, lifeVars, childVars, opVars, userVars
<1>19. ASSUME NEW t \in Task, NEW ok \in BOOLEAN, TerminalChecked(t, ok)
     PROVE  RecordSteps
  BY <1>19 DEF TerminalChecked, FinalizeInterrupted, RemoveRun, childVars, leaseVars,
      opVars, userVars
<1>20. ASSUME NEW t \in Task, NEW ok \in BOOLEAN, ResultSaved(t, ok)
     PROVE  RecordSteps
  BY <1>20 DEF ResultSaved, CompletionEnds, childVars, opVars, userVars
<1>21. ASSUME NEW t \in Task, Unpending(t)
     PROVE  RecordSteps
  BY <1>21 DEF Unpending, leaseVars, childVars, lifeVars, opVars, endVars, userVars
<1>22. ASSUME NEW t \in Task, NEW ok \in BOOLEAN, Buried(t, ok)
     PROVE  RecordSteps
  BY <1>22 DEF Buried, CompletionEnds, lifeVars, opVars, userVars
<1>23. ASSUME NEW t \in Task, Joined(t)
     PROVE  RecordSteps
  BY <1>23 DEF Joined, lifeVars, childVars, leaseVars, opVars, endVars, saveVars,
      userVars
<1>24. ASSUME NEW t \in Task, WorkReturns(t)
     PROVE  RecordSteps
  BY <1>24 DEF WorkReturns, leaseVars, childVars, endVars, saveVars
<1>25. ASSUME NEW t \in Task, NEW byTool \in BOOLEAN, Cancel(t, byTool)
     PROVE  RecordSteps
  <2>1. durable' = durable
    BY <1>25 DEF Cancel, saveVars
  <2>2. pc[t] = "idle" /\ pc' = [pc EXCEPT ![t] = pc'[t]]
    BY <1>25, CancelMoves DEF FinishTerminal
  <2>3. pc'[t] \in {"halt", "back", "join", "finish"}
    BY <1>25, CancelMoves DEF FinishTerminal
  <2> QED BY <2>1, <2>2, <2>3
<1>26. ASSUME NEW t \in Task, Halted(t)
     PROVE  RecordSteps
  BY <1>26 DEF Halted, FinishTerminal, lifeVars, childVars, leaseVars, opVars,
      saveVars, userVars
<1>27. ASSUME NEW t \in Task, CancelReturns(t)
     PROVE  RecordSteps
  BY <1>27 DEF CancelReturns, RemoveRun, childVars, leaseVars, opVars, saveVars
<1>28. ASSUME NEW t \in Task, Collect(t)
     PROVE  RecordSteps
  BY <1>28 DEF Collect, Unused, ByTool, RemoveRun, childVars, leaseVars, opVars,
      saveVars
<1>29. ASSUME NEW t \in Task, CollectReturns(t)
     PROVE  RecordSteps
  BY <1>29 DEF CollectReturns, lifeVars, childVars, leaseVars, opVars, saveVars
<1>30. ASSUME NEW t \in Task, Shutdown(t)
     PROVE  RecordSteps
  BY <1>30 DEF Shutdown, Unused, saveVars
<1>31. ASSUME NEW t \in Task, SetupDrained(t)
     PROVE  RecordSteps
  BY <1>31 DEF SetupDrained, lifeVars, leaseVars, opVars, endVars, saveVars, userVars
<1>32. ASSUME NEW t \in Task, OperationDrained(t)
     PROVE  RecordSteps
  BY <1>32 DEF OperationDrained, RemoveRun, FinishInterrupted, childVars, leaseVars,
      opVars, userVars
<1>33. ASSUME NEW t \in Task, NEW ok \in BOOLEAN, Preserved(t, ok)
     PROVE  RecordSteps
  BY <1>33 DEF Preserved, RemoveRun, leaseVars, opVars, userVars
<1>34. ASSUME NEW t \in Task, ShutdownReturns(t)
     PROVE  RecordSteps
  BY <1>34 DEF ShutdownReturns, RemoveRun, childVars, leaseVars, opVars, saveVars,
      userVars
<1>35. ASSUME NEW t \in Task, Signal(t)
     PROVE  RecordSteps
  BY <1>35 DEF Signal, lifeVars, leaseVars, opVars, endVars, saveVars, taskVars
<1>36. ASSUME Detach
     PROVE  RecordSteps
  BY <1>36 DEF Detach, childVars, leaseVars, endVars, saveVars, taskVars
<1>37. ASSUME LoseLease
     PROVE  RecordSteps
  BY <1>37 DEF LoseLease, lifeVars, opVars, endVars, taskVars, userVars
<1>38. ASSUME OtherTakes
     PROVE  RecordSteps
  BY <1>38 DEF OtherTakes, lifeVars, childVars, opVars, endVars, saveVars, taskVars,
      userVars
<1>39. ASSUME OtherReleases
     PROVE  RecordSteps
  BY <1>39 DEF OtherReleases, lifeVars, childVars, opVars, endVars, saveVars,
      taskVars, userVars
<1> HIDE DEF StateInv, TaskTypes, At, Saving, Placed, Wanted, WorkSteps, CancelSteps,
           ShutdownSteps, RecordSteps, Goto, Active, Parked, Terminal, Status
<1> QED
  BY <1>1, <1>2, <1>3, <1>4, <1>5, <1>6, <1>7, <1>8, <1>9, <1>10, <1>11,
      <1>12, <1>13, <1>14, <1>15, <1>16, <1>17, <1>18, <1>19, <1>20, <1>21,
      <1>22, <1>23, <1>24, <1>25, <1>26, <1>27, <1>28, <1>29, <1>30, <1>31,
      <1>32, <1>33, <1>34, <1>35, <1>36, <1>37, <1>38, <1>39
  DEF Next, SaveCompletes, WorkspaceCompletes, Reacts, Called

-----------------------------------------------------------------------------
(* What a step leaves of the invariant. *)

CalmSteps ==
  CallSteps /\ CallerSteps /\ FlowSteps /\ StatusSteps /\ RecordSteps /\ FaultSteps

(* A task that moves replaces its own write, and no other. *)
LEMMA EntriesKept ==
  ASSUME StateInv, NEW t \in Task, WriteStep(t)
  PROVE  \A i \in DOMAIN queue' :
           \/ queue'[i].task = t /\ queue'[i].refused = lost
           \/ queue'[i].task # t /\ \E k \in DOMAIN queue : queue'[i] = queue[k]
<1>1. queue \in Seq(Write) /\ Writes
  BY DEF StateInv
<1>2. pc[t] \in Saving =>
        /\ Rest(t) \in Seq(Write)
        /\ \A j \in DOMAIN Rest(t) :
             Rest(t)[j].task # t /\ \E k \in DOMAIN queue : Rest(t)[j] = queue[k]
  <2>1. SUFFICES ASSUME pc[t] \in Saving
                 PROVE  /\ Rest(t) \in Seq(Write)
                        /\ \A j \in DOMAIN Rest(t) :
                             /\ Rest(t)[j].task # t
                             /\ \E k \in DOMAIN queue : Rest(t)[j] = queue[k]
    OBVIOUS
  <2>2. \A i \in DOMAIN queue : queue[i].task = t => i = Entry(t)
    BY <1>1, <2>1, EntryFound
  <2>3. /\ Rest(t) \in Seq(Write)
        /\ \A j \in DOMAIN Rest(t) : \E k \in DOMAIN queue \ {Entry(t)} : Rest(t)[j] = queue[k]
    BY <1>1, <2>1, RestKeeps
  <2> QED BY <2>2, <2>3
<1>3. pc[t] \notin Saving => \A i \in DOMAIN queue : queue[i].task # t
  BY <1>1 DEF Writes, Matches
<1>4. ASSUME NEW q \in Seq(Write),
             \A j \in DOMAIN q : q[j].task # t /\ \E k \in DOMAIN queue : q[j] = queue[k],
             \/ queue' = q
             \/ \E s \in Status \cup {"removed"} : queue' = Saved(q, t, s)
      PROVE  \A i \in DOMAIN queue' :
               \/ queue'[i].task = t /\ queue'[i].refused = lost
               \/ queue'[i].task # t /\ \E k \in DOMAIN queue : queue'[i] = queue[k]
  <2>1. CASE queue' = q
    BY <1>4, <2>1
  <2>2. ASSUME NEW s \in Status \cup {"removed"}, queue' = Saved(q, t, s)
        PROVE  \A i \in DOMAIN queue' :
                 \/ queue'[i].task = t /\ queue'[i].refused = lost
                 \/ queue'[i].task # t /\ \E k \in DOMAIN queue : queue'[i] = queue[k]
    <3> DEFINE w == [task |-> t, status |-> s, refused |-> lost]
    <3>1. queue' = Append(q, w) /\ w.task = t /\ w.refused = lost
      BY <2>2 DEF Saved
    <3> HIDE DEF w
    <3>2. /\ Len(q) \in Nat /\ DOMAIN q = 1..Len(q)
          /\ DOMAIN Append(q, w) = 1..(Len(q) + 1)
          /\ \A i \in DOMAIN q : Append(q, w)[i] = q[i]
          /\ Append(q, w)[Len(q) + 1] = w
      BY <1>4
    <3>3. \A i \in DOMAIN Append(q, w) : i \in DOMAIN q \/ i = Len(q) + 1
      BY <3>2
    <3> QED BY <1>4, <3>1, <3>2, <3>3, ZenonT(60)
  <2> QED BY <1>4, <2>1, <2>2
<1>5. CASE pc[t] \in Saving
  BY <1>2, <1>4, <1>5 DEF WriteStep
<1>6. CASE pc[t] \notin Saving
  BY <1>1, <1>3, <1>4, <1>6 DEF WriteStep
<1> QED BY <1>5, <1>6

LEMMA RefusalsKept ==
  ASSUME StateInv, NEW t \in Task, WriteStep(t), NEW u \in Task \ {t}
  PROVE  /\ Refused(u) => Refused(u)'
         /\ (\A i \in DOMAIN queue : queue[i].task = u => ~queue[i].refused) =>
              \A i \in DOMAIN queue' : queue'[i].task = u => ~queue'[i].refused
BY EntriesKept DEF Refused

LEMMA GroundsKept ==
  ASSUME StateInv, Grounds, OneSettles, CalmSteps, StateInv', NEW t \in Task, WriteStep(t)
  PROVE  Grounds'
<1>1. /\ pc'[t] # pc[t]
      /\ \A u \in Task \ {t} : pc'[u] = pc[u] /\ call'[u] = call[u]
  BY OthersStay DEF CalmSteps
<1>2. lost' => "lease" \in faults'
  BY DEF Grounds, CalmSteps, FaultSteps
<1>3. \A i \in DOMAIN queue' : queue'[i].refused => lost'
  BY EntriesKept DEF Grounds, CalmSteps, CallerSteps
<1>4. \A u \in Task : call'[u] = "cancel" => "cancel" \in asked'
  <2>1. \A u \in Task \ {t} : call'[u] = "cancel" => "cancel" \in asked'
    BY <1>1 DEF Grounds, CalmSteps, CallerSteps
  <2>2. call'[t] = "cancel" => "cancel" \in asked'
    BY <1>1 DEF Grounds, CalmSteps, CallerSteps, CallSteps
  <2> QED BY <2>1, <2>2
<1>5. \A u \in Task : call'[u] = "shutdown" => closing'
  BY <1>1 DEF Grounds, CalmSteps, CallSteps
<1>6. \A u \in Task : pc'[u] = "retain" => completion' = u
  <2>1. CASE completion' = completion
    BY <1>1, <2>1 DEF Grounds, CalmSteps, FlowSteps, OneSettles
  <2>2. CASE completion' # completion
    <3>1. \/ completion = None /\ completion' = t /\ pc'[t] = "finish"
          \/ completion = t /\ pc[t] \in {"retain", "bury", "yield"}
      BY <1>1, <2>2 DEF CalmSteps, StatusSteps
    <3>2. pc'[t] # "retain"
      BY <1>1, <3>1 DEF Grounds, CalmSteps, FlowSteps, OneSettles
    <3>3. \A u \in Task \ {t} : pc[u] # "retain"
      BY <3>1, Distinct DEF Grounds
    <3> QED BY <1>1, <3>2, <3>3
  <2> QED BY <2>1, <2>2
<1>7. \A u \in Task : pc'[u] = "reserve" =>
         \A i \in DOMAIN queue' : queue'[i].task = u => ~queue'[i].refused
  <2>1. SUFFICES ASSUME NEW u \in Task, pc'[u] = "reserve"
                 PROVE  \A i \in DOMAIN queue' : queue'[i].task = u => ~queue'[i].refused
    OBVIOUS
  <2>2. CASE u = t
    <3>1. status = "none"
      BY <1>1, <2>1, <2>2 DEF CalmSteps, CallSteps
    <3>2. lost = FALSE
      BY <3>1 DEF StateInv, NotYet, RunTypes
    <3> QED BY <2>2, <3>2, EntriesKept
  <2>3. CASE u # t
    BY <1>1, <2>1, <2>3, RefusalsKept DEF Grounds
  <2> QED BY <2>2, <2>3
<1> QED BY <1>2, <1>3, <1>4, <1>5, <1>6, <1>7 DEF Grounds

(* A first call finds nobody, a further one an idle run. *)
LEMMA WorksAloneKept ==
  ASSUME StateInv, WorksAlone, CalmSteps, StateInv', NEW t \in Task, WriteStep(t)
  PROVE  WorksAlone'
<1>1. /\ pc'[t] # pc[t]
      /\ \A u \in Task \ {t} : pc'[u] = pc[u] /\ call'[u] = call[u]
  BY OthersStay DEF CalmSteps
<1>2. SUFFICES ASSUME ~raced', NEW u \in Task \ {t}, Works(u)', Works(t)'
               PROVE  FALSE
  BY <1>1 DEF WorksAlone, OneWorks, Works, CalmSteps, CallerSteps
<1>3. Works(u)
  BY <1>1, <1>2 DEF Works
<1>4. ~Works(t)
  BY <1>2, <1>3 DEF WorksAlone, OneWorks, CalmSteps, CallerSteps
<1>5. call[t] = "none"
  BY <1>1, <1>2, <1>4 DEF Works, CalmSteps, CallSteps, CallerSteps
<1>6. CASE call'[t] = "start"
  BY <1>1, <1>3, <1>5, <1>6 DEF CalmSteps, CallSteps, StateInv, NotYet, Works
<1>7. CASE call'[t] = "resume"
  <2>1. Idle
    BY <1>1, <1>2, <1>5, <1>7 DEF CalmSteps, CallerSteps
  <2> QED BY <1>3, <2>1 DEF Idle, Works, StateInv, Placed, WorkSteps
<1> QED BY <1>2, <1>6, <1>7 DEF Works

LEMMA NoneOutside == None \notin Terminal
BY LifecycleAssumption

(* What was mild after a step was so before it. *)
LEMMA MildBefore ==
  ASSUME CalmSteps, Mild'
  PROVE  Mild /\ (Calm' => Calm) /\ (Failed => lost)
         /\ "save" \notin faults' /\ "checkpoint" \notin faults'
BY DEF CalmSteps, CallerSteps, FaultSteps, Mild, Calm, Failed

(* The settlement, as long as the run stays mild. *)
LEMMA SettlementMoves ==
  ASSUME StateInv, OneSettles, CalmSteps, Mild', NEW t \in Task, WriteStep(t)
  PROVE  /\ \/ outcome' = outcome
            \/ pc[t] = "finish" /\ pc'[t] \in {"remove", "retain"}
            \/ pc[t] = "retain" /\ pc'[t] = "back" /\ outcome' = None /\ lost
         /\ pc[t] = "finish" =>
              /\ pc'[t] \in {"remove", "retain"}
              /\ outcome' # None /\ status' = outcome' /\ status' \in Terminal
         /\ \/ completion' = completion
            \/ completion = None /\ completion' = t /\ pc'[t] = "finish"
            \/ completion = t /\ pc[t] \in {"retain", "bury", "yield"} /\ completion' = Settled
         /\ pc[t] = "retain" /\ pc'[t] = "back" /\ completion = t => completion' = Settled
<1>1. pc'[t] # pc[t]
  BY OthersStay DEF CalmSteps
<1>2. (Failed => lost) /\ "checkpoint" \notin faults'
  BY MildBefore
<1>3. pc[t] = "finish" => want[t] \in Terminal /\ want[t] # None
  BY NoneOutside DEF StateInv, Wanted
<1> QED BY <1>1, <1>2, <1>3 DEF CalmSteps, StatusSteps, FlowSteps

LEMMA SettlesKept ==
  ASSUME StateInv, Grounds, OneSettles, Settles, CalmSteps, StateInv',
         NEW t \in Task, WriteStep(t)
  PROVE  Settles'
<1>1. /\ pc'[t] # pc[t]
      /\ \A u \in Task \ {t} : pc'[u] = pc[u] /\ call'[u] = call[u]
  BY OthersStay DEF CalmSteps
<1>2. SUFFICES ASSUME Mild'
               PROVE  /\ completion' \in Task /\ outcome' = None => pc'[completion'] = "finish"
                      /\ completion' = Settled /\ outcome' = None => lost'
                      /\ \A u \in Task : pc'[u] = "interrupt" => closing' \/ lost'
  BY DEF Settles
<1>3. /\ completion \in Task /\ outcome = None => pc[completion] = "finish"
      /\ completion = Settled /\ outcome = None => lost
      /\ \A u \in Task : pc[u] = "interrupt" => closing \/ lost
  BY <1>2, MildBefore DEF Settles
<1>4. (lost => lost') /\ (closing => closing') /\ "save" \notin faults'
  BY <1>2, MildBefore DEF CalmSteps, CallerSteps, CallSteps
<1>5. \A u \in Task : pc'[u] = "interrupt" => closing' \/ lost'
  BY <1>1, <1>3, <1>4 DEF CalmSteps, FlowSteps
<1>6. /\ \/ outcome' = outcome
         \/ pc[t] = "finish" /\ pc'[t] \in {"remove", "retain"}
         \/ pc[t] = "retain" /\ pc'[t] = "back" /\ outcome' = None /\ lost
      /\ pc[t] = "finish" => outcome' # None
      /\ \/ completion' = completion
         \/ completion = None /\ completion' = t /\ pc'[t] = "finish"
         \/ completion = t /\ pc[t] \in {"retain", "bury", "yield"} /\ completion' = Settled
      /\ pc[t] = "retain" /\ pc'[t] = "back" /\ completion = t => completion' = Settled
  BY <1>2, SettlementMoves
<1>7. pc[t] = "retain" => completion = t
  BY DEF Grounds
<1>8. ASSUME completion' \in Task, outcome' = None
      PROVE  pc'[completion'] = "finish"
  <2>1. outcome = None
    BY <1>6, <1>7, <1>8, Distinct
  <2> QED BY <1>1, <1>3, <1>6, <1>8, <2>1, Distinct
<1>9. ASSUME completion' = Settled, outcome' = None
      PROVE  lost'
  BY <1>3, <1>4, <1>6, <1>9, Distinct
<1> QED BY <1>5, <1>8, <1>9

(* The end is reached by a commitment; nothing takes it back. *)
LEMMA EndMoves ==
  ASSUME StateInv, Grounds, OneSettles, Settles, CalmSteps, StateInv', Mild',
         NEW t \in Task, WriteStep(t)
  PROVE  /\ Ended' => Ended \/ (pc[t] = "finish" /\ status' \in Terminal)
         /\ Ended => Ended'
         /\ Ended => completion # None
<1>1. Mild
  BY MildBefore
<1>2. pc[t] = "retain" => completion = t
  BY DEF Grounds
<1>3. completion = t => t \in Task
  OBVIOUS
<1> QED
  BY <1>1, <1>2, <1>3, SettlementMoves, Distinct DEF Settles, Ended, OneSettles

LEMMA TakenUpKept ==
  ASSUME StateInv, OneSettles, CalmInv, CalmSteps, StateInv', NEW t \in Task, WriteStep(t)
  PROVE  TakenUp'
<1>1. /\ pc'[t] # pc[t] /\ pc[t] # "done"
      /\ \A u \in Task \ {t} : pc'[u] = pc[u] /\ call'[u] = call[u]
  BY OthersStay DEF CalmSteps, CallerSteps
<1>2. SUFFICES ASSUME Mild', NEW u \in Task, pc'[u] \in {"acquire", "repair"}
               PROVE  /\ status' \in Parked
                      /\ completion' # None => Ended' /\ lost'
                      /\ \A v \in Task \ {u} : Quiet(v)'
  BY DEF TakenUp
<1>3. Mild /\ (lost => lost') /\ (closing => closing')
  BY <1>2, MildBefore DEF CalmSteps, CallerSteps, CallSteps
<1>4. Ended => Ended'
  BY <1>2, EndMoves DEF CalmInv
<1>5. \A v \in Task : pc[v] \in {"acquire", "repair"} =>
         /\ status \in Parked
         /\ completion # None => Ended /\ lost
         /\ \A w \in Task \ {v} : Quiet(w)
  BY <1>3 DEF CalmInv, TakenUp
<1>6. CASE u = t /\ pc'[t] = "acquire"
  <2>1. call[t] = "none" /\ call'[t] = "resume"
    BY <1>1, <1>6 DEF CalmSteps, FlowSteps
  <2>2. Idle /\ status \in Parked /\ ~closing
    BY <1>1, <1>2, <2>1 DEF CalmSteps, CallerSteps, CallSteps, Mild
  <2>3. pc[t] = "idle"
    BY <2>1 DEF StateInv, Placed
  <2>4. status' = status /\ completion' = completion
    BY <1>1, <1>6, <2>3 DEF CalmSteps, StatusSteps
  <2>5. completion # None => completion = Settled
    BY <2>2 DEF Idle, OneSettles, Settling, StateInv, ValueTypes
  <2>6. completion # None => Ended /\ lost
    BY <1>3, <2>2, <2>5 DEF CalmInv, StaysEnded, Ended, Terminal, Parked
  <2> QED BY <1>1, <1>3, <1>4, <1>6, <2>2, <2>4, <2>6 DEF Idle, Quiet
<1>7. CASE u = t /\ pc'[t] = "repair"
  <2>1. pc[t] = "acquire"
    BY <1>1, <1>7 DEF CalmSteps, FlowSteps
  <2>2. status' = status /\ completion' = completion
    BY <1>1, <1>7, <2>1 DEF CalmSteps, StatusSteps
  <2> QED BY <1>1, <1>3, <1>4, <1>5, <1>7, <2>1, <2>2 DEF Quiet
<1>8. CASE u # t
  <2>1. pc[u] \in {"acquire", "repair"}
    BY <1>1, <1>2, <1>8
  <2>2. Quiet(t) /\ \A w \in Task \ {u} : Quiet(w)
    BY <1>5, <1>8, <2>1
  <2>3. call'[t] = "shutdown"
    <3>1. CASE pc[t] = "idle"
      <4>1. call[t] = "none"
        BY <3>1 DEF StateInv, Placed, WorkSteps, CancelSteps, ShutdownSteps, TaskTypes
      <4>2. ~Idle /\ status \in Parked /\ status \notin Active /\ status # "none"
        BY <1>5, <2>1 DEF Idle, Parked, Active
      <4>3. call'[t] \notin {"none", "start", "resume", "collect", "cancel"}
        BY <1>1, <1>2, <4>1, <4>2 DEF CalmSteps, CallerSteps, CallSteps, Mild
      <4> QED BY <4>3 DEF StateInv, TaskTypes
    <3>2. CASE pc[t] # "idle"
      <4>1. call[t] = "shutdown"
        BY <1>1, <2>2, <3>2 DEF Quiet
      <4> QED BY <1>1, <4>1 DEF CalmSteps, CallSteps
    <3> QED BY <3>1, <3>2
  <2>4. pc[t] \in ShutdownSteps \cup {"idle"} /\ pc'[t] \in ShutdownSteps
    BY <2>2, <2>3 DEF Quiet, StateInv, Placed, ShutdownSteps
  <2>5. status' \in Parked
    BY <1>1, <1>5, <2>1, <2>4 DEF CalmSteps, StatusSteps, ShutdownSteps, Parked
  <2>6. completion' = completion
    <3>1. completion # t
      BY <1>1, <2>2 DEF OneSettles, Settling, Quiet
    <3> QED BY <1>1, <2>4, <3>1 DEF CalmSteps, StatusSteps, ShutdownSteps
  <2> QED BY <1>1, <1>3, <1>4, <1>5, <2>1, <2>2, <2>3, <2>5, <2>6 DEF Quiet
<1> QED BY <1>2, <1>6, <1>7, <1>8

LEMMA ToldToEndKept ==
  ASSUME StateInv, OneSettles, CalmInv, CalmSteps, StateInv', WorksAlone', Grounds',
         NEW t \in Task, WriteStep(t)
  PROVE  ToldToEnd'
<1>1. /\ pc'[t] # pc[t]
      /\ \A u \in Task \ {t} : pc'[u] = pc[u] /\ call'[u] = call[u]
  BY OthersStay DEF CalmSteps
<1>2. SUFFICES ASSUME Mild', completion' # None, NEW u \in Task, pc'[u] \in Before
               PROVE  "cancel" \in asked' \/ lost'
  BY DEF ToldToEnd
<1>3. Mild /\ (lost => lost') /\ asked \subseteq asked'
  BY <1>2, MildBefore DEF CalmSteps, CallerSteps
<1>4. Works(u)'
  BY <1>2 DEF Works, StateInv, Placed, TaskTypes, Before, CancelSteps, ShutdownSteps
<1>5. CASE completion = None
  <2>1. completion' = t /\ pc'[t] = "finish"
    BY <1>1, <1>2, <1>5, Distinct DEF CalmSteps, StatusSteps
  <2>2. u # t
    BY <1>2, <2>1 DEF Before
  <2>3. ~Works(t)'
    BY <1>2, <1>4, <2>2 DEF WorksAlone, OneWorks, Mild
  <2>4. call'[t] = "cancel"
    BY <2>1, <2>3 DEF Works, StateInv, Placed, TaskTypes, ShutdownSteps
  <2> QED BY <2>4 DEF Grounds
<1>6. CASE completion # None
  <2>1. \A v \in Task : pc[v] \in Before => "cancel" \in asked \/ lost
    BY <1>3, <1>6 DEF CalmInv, ToldToEnd
  <2>2. CASE u # t
    BY <1>1, <1>2, <1>3, <2>1, <2>2
  <2>3. CASE u = t
    <3>1. pc'[t] # "reserve"
      BY <1>1, <1>6 DEF CalmSteps, CallSteps, StateInv, NotYet
    <3>2. pc[t] \in Before \cup {"acquire", "repair"}
      BY <1>1, <1>2, <2>3, <3>1 DEF CalmSteps, FlowSteps
    <3>3. pc[t] \in {"acquire", "repair"} => lost
      BY <1>3, <1>6 DEF CalmInv, TakenUp
    <3> QED BY <1>3, <2>1, <3>2, <3>3
  <2> QED BY <2>2, <2>3
<1> QED BY <1>5, <1>6

(* What becomes of the status after the end. *)
LEMMA EndedStatus ==
  ASSUME StateInv, OneSettles, CalmInv, CalmSteps, StateInv', Mild', Ended,
         NEW t \in Task, WriteStep(t)
  PROVE  \/ status' = status
         \/ status' \in Terminal
         \/ status' \notin Active /\ (lost \/ closing)
         \/ pc[t] = "acquire" /\ pc'[t] = "revive" /\ status' = "running" /\ lost
<1>1. pc'[t] # pc[t] /\ Mild /\ completion # None /\ (Failed => lost)
  BY OthersStay, MildBefore, EndMoves DEF CalmSteps, CalmInv
<1>2. status # "none"
  BY <1>1 DEF StateInv, NotYet
<1>3. pc[t] \in {"acquire", "repair"} => lost
  BY <1>1 DEF CalmInv, TakenUp
<1>4. pc[t] \in Before => "cancel" \in asked \/ lost
  BY <1>1 DEF CalmInv, ToldToEnd
<1>5. pc[t] = "repair" => Refused(t)
  BY <1>1 DEF CalmInv, StaysEnded
<1>6. pc[t] = "interrupt" => closing \/ lost
  BY <1>1 DEF CalmInv, Settles
<1>7. pc[t] \in {"acquire", "repair", "revive"} => want[t] \in Parked
  BY DEF StateInv, Wanted
<1>8. pc[t] = "finish" => want[t] \in Terminal
  BY DEF StateInv, Wanted
<1> HIDE DEF Failed
<1> QED BY <1>1, <1>2, <1>3, <1>4, <1>5, <1>6, <1>7, <1>8
    DEF CalmSteps, StatusSteps, Active, Parked, Before

LEMMA StaysEndedKept ==
  ASSUME StateInv, OneSettles, CalmInv, CalmSteps, StateInv', NEW t \in Task, WriteStep(t)
  PROVE  StaysEnded'
<1>1. /\ pc'[t] # pc[t] /\ pc[t] # "done"
      /\ \A u \in Task \ {t} : pc'[u] = pc[u] /\ call'[u] = call[u]
  BY OthersStay DEF CalmSteps, CallerSteps
<1>2. SUFFICES ASSUME Mild', Ended'
               PROVE  /\ ~closing' /\ ~lost' => status' \in Terminal
                      /\ status' \in Active =>
                           \A u \in Task : Works(u)' => pc'[u] = "revive" /\ Refused(u)'
                      /\ \A u \in Task : pc'[u] = "repair" => Refused(u)'
  BY DEF StaysEnded
<1>3. Mild /\ (lost => lost') /\ (closing => closing')
  BY <1>2, MildBefore DEF CalmSteps, CallerSteps, CallSteps
<1>4. \/ Ended /\ completion # None
      \/ pc[t] = "finish" /\ status' \in Terminal
  BY <1>2, EndMoves DEF CalmInv
<1>5. Ended => /\ ~closing /\ ~lost => status \in Terminal
               /\ status \in Active => \A u \in Task : Works(u) => pc[u] = "revive" /\ Refused(u)
               /\ \A u \in Task : pc[u] = "repair" => Refused(u)
  BY <1>3 DEF CalmInv, StaysEnded
<1>6. \A u \in Task : pc[u] \in {"acquire", "repair"} =>
         /\ completion # None => lost
         /\ \A v \in Task \ {u} : Quiet(v)
  BY <1>3 DEF CalmInv, TakenUp
<1>7. ~closing' /\ ~lost' => status' \in Terminal
  BY <1>2, <1>3, <1>4, <1>5, EndedStatus
<1>8. ASSUME NEW u \in Task, pc'[u] = "repair"
      PROVE  Refused(u)'
  <2>1. CASE u = t
    <3>1. pc[t] = "acquire"
      BY <1>1, <1>8, <2>1 DEF CalmSteps, FlowSteps
    <3>2. lost
      BY <1>4, <1>6, <3>1
    <3> QED BY <2>1, <3>2, EntriesKept DEF Refused
  <2>2. CASE u # t
    <3>1. pc[u] = "repair" /\ pc[t] # "finish"
      BY <1>1, <1>6, <1>8, <2>2 DEF Quiet, StateInv, Placed, ShutdownSteps
    <3> QED BY <1>4, <1>5, <2>2, <3>1, RefusalsKept
  <2> QED BY <2>1, <2>2
<1>9. ASSUME status' \in Active, NEW u \in Task, Works(u)'
      PROVE  pc'[u] = "revive" /\ Refused(u)'
  <2>1. Ended /\ completion # None
    BY <1>4, <1>9 DEF Active, Terminal
  <2>2. \/ status' = status
        \/ pc[t] = "acquire" /\ pc'[t] = "revive" /\ lost
    BY <1>2, <1>9, <2>1, EndedStatus DEF Active, Terminal
  <2>3. CASE pc[t] = "acquire" /\ pc'[t] = "revive" /\ lost
    <3>1. u = t
      BY <1>1, <1>6, <1>9, <2>3 DEF Works, Quiet, StateInv, Placed, WorkSteps
    <3> QED BY <2>3, <3>1, EntriesKept DEF Refused
  <2>4. CASE status' = status
    <3>1. \A v \in Task : Works(v) => pc[v] = "revive" /\ Refused(v)
      BY <1>5, <1>9, <2>1, <2>4
    <3>2. CASE u # t
      BY <1>1, <1>9, <3>1, <3>2, RefusalsKept DEF Works
    <3>3. CASE u = t
      <4>1. Works(t)
        <5>1. SUFFICES ASSUME call[t] = "none"
                       PROVE  FALSE
          BY <1>1, <1>9, <3>3 DEF Works, CalmSteps, CallSteps
        <5>2. status \in Active /\ status # "none"
          BY <1>9, <2>4 DEF Active
        <5> QED BY <1>1, <1>9, <3>3, <5>1, <5>2
            DEF Works, CalmSteps, CallSteps, Active, Parked
      <4>2. pc[t] = "revive" /\ Refused(t)
        BY <3>1, <4>1
      <4>3. pc'[t] = "done"
        BY <1>1, <4>2 DEF CalmSteps, FlowSteps
      <4> QED BY <1>9, <3>3, <4>3 DEF Works
    <3> QED BY <3>2, <3>3
  <2> QED BY <2>2, <2>3, <2>4
<1> QED BY <1>7, <1>8, <1>9

LEMMA DrivenKept ==
  ASSUME StateInv, OneSettles, CalmInv, CalmSteps, StateInv', NEW t \in Task, WriteStep(t)
  PROVE  Driven'
<1>1. /\ pc'[t] # pc[t]
      /\ \A u \in Task \ {t} : pc'[u] = pc[u] /\ call'[u] = call[u]
  BY OthersStay DEF CalmSteps
<1>2. SUFFICES ASSUME Mild', status' \in Active
               PROVE  \E u \in Task : pc'[u] \in Carrying
  BY DEF Driven
<1>3. /\ Mild /\ (Failed => lost)
      /\ "save" \notin faults' /\ "checkpoint" \notin faults'
  BY <1>2, MildBefore
<1>4. CASE status' # status
  <2>1. pc'[t] \in {"reserve", "revive", "begin"}
    <3>1. pc[t] = "finish" => want[t] \in Terminal
      BY DEF StateInv, Wanted
    <3>2. pc[t] \in {"acquire", "repair", "revive"} => want[t] \in Parked
      BY DEF StateInv, Wanted
    <3> HIDE DEF Failed
    <3> QED BY <1>1, <1>2, <1>4, <3>1, <3>2
        DEF CalmSteps, StatusSteps, Active, Parked, Terminal
  <2> QED BY <2>1 DEF Carrying, Before
<1>5. CASE status' = status
  <2>1. PICK w \in Task : pc[w] \in Carrying
    BY <1>2, <1>3, <1>5 DEF CalmInv, Driven
  <2>2. CASE w # t
    BY <1>1, <2>1, <2>2
  <2>3. CASE w = t /\ pc[t] \in {"interrupt", "finish"}
    <3>1. pc'[t] # "yield"
      BY <1>1, <1>2 DEF CalmSteps, StatusSteps, Active
    <3>2. pc[t] = "finish" => status' \in Terminal
      BY <1>2, SettlementMoves
    <3> QED BY <1>1, <1>2, <1>3, <2>3, <3>1, <3>2 DEF CalmSteps, FlowSteps, Active, Terminal
  <2>4. CASE w = t /\ pc[t] \in Before
    <3>1. Works(t)
      BY <2>4 DEF Works, StateInv, Placed, TaskTypes, Before, CancelSteps, ShutdownSteps
    <3>2. Ended => pc[t] = "revive" /\ Refused(t)
      BY <1>2, <1>3, <1>5, <3>1 DEF CalmInv, StaysEnded
    <3>3. pc'[t] # "question"
      BY <1>1, <1>2 DEF CalmSteps, StatusSteps, Active
    <3>4. ~(pc[t] = "revive" /\ pc'[t] = "done")
      <4>1. pc[t] = "revive" => want[t] \in Parked
        BY DEF StateInv, Wanted
      <4> QED BY <1>1, <1>2, <4>1 DEF CalmSteps, StatusSteps, Active, Parked
    <3>5. pc'[t] # "back"
      BY <1>1, <3>2, <3>4, <2>4 DEF CalmSteps, FlowSteps, Carrying, Before
    <3>6. CASE pc'[t] = "join"
      <4>1. completion \in Task /\ pc[completion] = "finish"
        BY <1>1, <1>3, <2>4, <3>6 DEF CalmSteps, FlowSteps, CalmInv, Settles, Carrying, Before
      <4>2. completion # t
        BY <2>4, <4>1 DEF Before
      <4> QED BY <1>1, <4>1, <4>2 DEF Carrying, Before
    <3>7. CASE pc'[t] # "join"
      BY <1>1, <1>3, <2>4, <3>3, <3>4, <3>5, <3>7 DEF CalmSteps, FlowSteps
    <3> QED BY <3>6, <3>7
  <2> QED BY <2>1, <2>2, <2>3, <2>4 DEF Carrying, Before
<1> QED BY <1>4, <1>5

(* The first write in flight lands, or the only one. *)
LEMMA RestLast ==
  ASSUME StateInv, NEW t \in Task, pc[t] \in Saving, Entry(t) = 1
  PROVE  /\ queue # <<>>
         /\ IF Rest(t) = <<>> THEN queue[Len(queue)] = queue[1]
                              ELSE Rest(t)[Len(Rest(t))] = queue[Len(queue)]
<1>1. queue \in Seq(Write) /\ 1 \in DOMAIN queue
  BY EntryFound DEF StateInv
<1>2. /\ Rest(t) \in Seq(Write) /\ Len(Rest(t)) = Len(queue) - 1
      /\ \A j \in 1..(Len(queue) - 1) : Rest(t)[j] = IF j < 1 THEN queue[j] ELSE queue[j + 1]
  BY <1>1, RemovedAt DEF Rest
<1>3. Len(queue) \in Nat \ {0} /\ queue # <<>>
  BY <1>1
<1>4. CASE Len(queue) = 1
  <2>1. Rest(t) = <<>>
    BY <1>2, <1>4
  <2> QED BY <1>3, <1>4, <2>1
<1>5. CASE Len(queue) > 1
  <2>1. Rest(t) # <<>>
    BY <1>2, <1>5
  <2>2. Len(queue) - 1 \in 1..(Len(queue) - 1)
    BY <1>3, <1>5
  <2>3. Rest(t)[Len(queue) - 1] = queue[Len(queue) - 1 + 1]
    BY <1>2, <1>3, <2>2
  <2> QED BY <1>2, <1>3, <2>1, <2>3
<1>6. \A n \in Nat \ {0} : n = 1 \/ n > 1
  OBVIOUS
<1> QED BY <1>3, <1>4, <1>5, <1>6

LEMMA LastMoves ==
  ASSUME StateInv, Grounds, CalmSteps, Calm', NEW t \in Task, WriteStep(t)
  PROVE  \/ LastSaved' = LastSaved /\ pc'[t] \notin Saving
         \/ /\ pc'[t] \in Saving
            /\ LastSaved' \in Active =>
                 \/ pc'[t] \in {"reserve", "revive", "begin"}
                 \/ pc[t] \in {"setup", "prompt", "question"} /\ status \in Active
<1>1. pc'[t] # pc[t] /\ queue \in Seq(Write) /\ Writes
  BY OthersStay DEF CalmSteps, StateInv
<1>2. CASE pc'[t] \in Saving
  <2>1. PICK s \in Status \cup {"removed"} :
          /\ queue' = Saved(IF pc[t] \in Saving THEN Rest(t) ELSE queue, t, s)
          /\ s \in Active => \/ pc'[t] \in {"reserve", "revive", "begin"}
                             \/ pc[t] \in {"setup", "prompt", "question"} /\ s = status
    BY <1>1, <1>2 DEF CalmSteps, RecordSteps
  <2>2. ASSUME NEW q \in Seq(Write), queue' = Saved(q, t, s)
        PROVE  LastSaved' = s
    <3> DEFINE w == [task |-> t, status |-> s, refused |-> lost]
    <3>1. queue' = Append(q, w) /\ w.status = s
      BY <2>2 DEF Saved
    <3> HIDE DEF w
    <3>2. Append(q, w) # <<>> /\ Len(Append(q, w)) = Len(q) + 1 /\ Append(q, w)[Len(q) + 1] = w
      BY <2>2
    <3> QED BY <3>1, <3>2 DEF LastSaved
  <2>3. pc[t] \in Saving => Rest(t) \in Seq(Write)
    BY <1>1, RestKeeps
  <2>4. LastSaved' = s
    BY <1>1, <2>1, <2>2, <2>3
  <2> QED BY <1>2, <2>1, <2>4
<1>3. CASE pc'[t] \notin Saving /\ pc[t] \notin Saving
  <2>1. queue' = queue /\ durable' = durable
    BY <1>1, <1>3 DEF CalmSteps, RecordSteps, WriteStep
  <2> QED BY <1>3, <2>1 DEF LastSaved
<1>4. CASE pc'[t] \notin Saving /\ pc[t] \in Saving
  <2>1. PICK ok \in BOOLEAN : SaveEnds(t, ok)
    BY <1>1, <1>4 DEF CalmSteps, RecordSteps
  <2>2. ok
    <3>1. ~lost /\ faults' = {}
      BY DEF Grounds, CalmSteps, FaultSteps, Calm
    <3> QED BY <1>4, <2>1, <3>1, SaveMeets
  <2>3. Entry(t) = 1 /\ durable' = queue[1].status
    BY <2>1, <2>2 DEF SaveEnds
  <2>4. queue' = Rest(t)
    BY <1>4 DEF WriteStep
  <2> QED BY <1>4, <2>3, <2>4, RestLast DEF LastSaved
<1> QED BY <1>2, <1>3, <1>4

LEMMA WrittenOverKept ==
  ASSUME StateInv, OneSettles, CalmInv, CalmSteps, StateInv', NEW t \in Task, WriteStep(t)
  PROVE  WrittenOver'
<1>1. /\ pc'[t] # pc[t]
      /\ \A u \in Task \ {t} : pc'[u] = pc[u] /\ call'[u] = call[u]
  BY OthersStay DEF CalmSteps
<1>2. SUFFICES ASSUME Calm'
               PROVE  /\ \A u \in Task : pc'[u] = "question" => status' \notin Active
                      /\ LastSaved' \in Active =>
                           IF outcome' = None
                             THEN \E u \in Task : pc'[u] \in Carrying \cup {"question"}
                             ELSE \E u \in Task : pc'[u] = "remove" /\ call'[u] # "shutdown"
  BY DEF WrittenOver
<1>3. Mild' /\ Mild /\ Calm /\ ~raced /\ ~lost
  BY <1>2, MildBefore DEF Mild, Calm, CalmInv, Grounds
<1>4. /\ ~Failed
      /\ "save" \notin faults' /\ "checkpoint" \notin faults'
  BY <1>3, MildBefore
<1>5. /\ \A u \in Task : pc[u] = "question" => status \notin Active
      /\ LastSaved \in Active =>
           IF outcome = None
             THEN \E u \in Task : pc[u] \in Carrying \cup {"question"}
             ELSE \E u \in Task : pc[u] = "remove" /\ call[u] # "shutdown"
  BY <1>3 DEF CalmInv, WrittenOver
<1>6. ~Refused(t) \/ pc[t] \notin Saving
  BY <1>3, EntryFound DEF Refused, CalmInv, Grounds, StateInv
<1>7. \/ LastSaved' = LastSaved /\ pc'[t] \notin Saving
      \/ /\ pc'[t] \in Saving
         /\ LastSaved' \in Active =>
              \/ pc'[t] \in {"reserve", "revive", "begin"}
              \/ pc[t] \in {"setup", "prompt", "question"} /\ status \in Active
  BY <1>2, LastMoves DEF CalmInv
<1>8. \A u \in Task : pc[u] \in {"acquire", "repair"} =>
         completion = None /\ \A v \in Task \ {u} : Quiet(v)
  BY <1>3 DEF CalmInv, TakenUp
<1>9. ASSUME NEW u \in Task, pc'[u] = "question"
      PROVE  status' \notin Active
  <2>1. CASE u = t
    BY <1>1, <1>9, <2>1 DEF CalmSteps, StatusSteps, Active
  <2>2. CASE u # t
    <3>1. pc[u] = "question" /\ status \notin Active /\ Works(u)
      BY <1>1, <1>5, <1>9, <2>2
          DEF Works, StateInv, Placed, TaskTypes, CancelSteps, ShutdownSteps
    <3>2. ~Works(t)
      BY <1>3, <2>2, <3>1 DEF CalmInv, WorksAlone, OneWorks
    <3>3. pc[t] \notin Before \cup {"acquire", "repair"}
      BY <3>2 DEF Works, StateInv, Placed, TaskTypes, Before, CancelSteps, ShutdownSteps
    <3>4. status # "none"
      BY <3>1 DEF Works, StateInv, NotYet
    <3>5. pc[t] = "finish" => want[t] \in Terminal
      BY DEF StateInv, Wanted
    <3> QED BY <1>1, <3>1, <3>3, <3>4, <3>5
        DEF CalmSteps, StatusSteps, Active, Parked, Terminal, Before
  <2> QED BY <2>1, <2>2
<1>10. ASSUME LastSaved' \in Active, outcome' = None
       PROVE  \E u \in Task : pc'[u] \in Carrying \cup {"question"}
  <2>1. outcome = None
    BY <1>3, <1>10, SettlementMoves
  <2>2. CASE LastSaved' = LastSaved /\ pc'[t] \notin Saving
    <3>1. PICK w \in Task : pc[w] \in Carrying \cup {"question"}
      BY <1>5, <1>10, <2>1, <2>2
    <3>2. CASE w # t
      BY <1>1, <3>1, <3>2
    <3>3. CASE w = t /\ pc[t] \in {"interrupt", "finish", "question"}
      <4>1. pc[t] = "finish" => outcome' # None
        BY <1>3, SettlementMoves
      <4> QED BY <1>1, <1>4, <1>10, <2>2, <3>3, <4>1 DEF CalmSteps, FlowSteps, Saving
    <3>4. CASE w = t /\ pc[t] \in Before
      <4>1. ~Ended
        BY <1>3, <2>1 DEF Ended, CalmInv, Settles
      <4>2. \/ pc'[t] \in Carrying \cup {"question"}
            \/ pc'[t] = "join" /\ completion \in Task
            \/ pc'[t] = "done" /\ pc[t] = "revive" /\ Refused(t)
        BY <1>1, <1>4, <3>4, <4>1 DEF CalmSteps, FlowSteps
      <4>3. CASE pc'[t] = "join" /\ completion \in Task
        <5>1. pc[completion] = "finish"
          BY <1>3, <2>1, <4>3 DEF CalmInv, Settles
        <5>2. completion # t
          BY <3>4, <5>1 DEF Before
        <5> QED BY <1>1, <4>3, <5>1, <5>2 DEF Carrying, Before
      <4> QED BY <1>6, <4>2, <4>3 DEF Saving
    <3> QED BY <3>1, <3>2, <3>3, <3>4 DEF Carrying, Before
  <2>3. CASE pc'[t] \in {"reserve", "revive", "begin"}
    BY <2>3 DEF Carrying, Before
  <2>4. CASE pc'[t] \in Saving /\ pc[t] \in {"setup", "prompt", "question"} /\ status \in Active
    <3>1. pc[t] \in {"setup", "prompt"}
      BY <1>5, <2>4
    <3>2. pc'[t] \in Carrying
      BY <1>1, <1>4, <2>4, <3>1 DEF CalmSteps, FlowSteps, Before, Saving
    <3> QED BY <3>2
  <2> QED BY <1>7, <1>10, <2>2, <2>3, <2>4
<1>11. ASSUME LastSaved' \in Active, outcome' # None
       PROVE  \E u \in Task : pc'[u] = "remove" /\ call'[u] # "shutdown"
  <2>1. CASE outcome = None
    <3>1. pc[t] = "finish" /\ pc'[t] \in {"remove", "retain"}
      BY <1>3, <1>11, <2>1, SettlementMoves
    <3>2. pc'[t] = "remove"
      BY <1>7, <1>11, <3>1 DEF Saving
    <3>3. call[t] # "shutdown" /\ call[t] # "none"
      BY <3>1 DEF StateInv, Placed, ShutdownSteps
    <3> QED BY <1>1, <3>2, <3>3 DEF CalmSteps, CallSteps
  <2>2. CASE outcome # None
    <3>1. Ended /\ completion # None
      BY <2>2 DEF Ended, OneSettles
    <3>2. CASE LastSaved' = LastSaved /\ pc'[t] \notin Saving
      <4>1. PICK w \in Task : pc[w] = "remove" /\ call[w] # "shutdown"
        BY <1>5, <1>11, <2>2, <3>2
      <4>2. w # t
        BY <1>1, <3>2, <4>1 DEF CalmSteps, FlowSteps, Saving
      <4> QED BY <1>1, <4>1, <4>2
    <3>3. pc'[t] # "reserve"
      BY <1>1, <3>1 DEF CalmSteps, CallSteps, StateInv, NotYet
    <3>4. pc[t] \notin {"acquire", "repair"}
      BY <1>8, <3>1
    <3>5. pc[t] \in Before => "cancel" \in asked
      BY <1>3, <3>1 DEF CalmInv, ToldToEnd
    <3>6. pc'[t] # "begin"
      BY <1>1, <3>5 DEF CalmSteps, FlowSteps
    <3>7. pc'[t] # "revive"
      BY <1>1, <3>4 DEF CalmSteps, FlowSteps
    <3>8. ~(pc[t] \in {"setup", "prompt", "question"} /\ status \in Active)
      <4>1. pc[t] \in {"setup", "prompt", "question"} => Works(t)
        BY DEF Works, StateInv, Placed, TaskTypes, CancelSteps, ShutdownSteps
      <4> QED BY <1>3, <3>1, <4>1 DEF CalmInv, StaysEnded
    <3> QED BY <1>7, <1>11, <3>2, <3>3, <3>6, <3>7, <3>8
  <2> QED BY <2>1, <2>2
<1> QED BY <1>9, <1>10, <1>11

(* The heartbeat, the signal and the other parents move no task. *)
LEMMA CalmUnmoved ==
  ASSUME StateInv, CalmInv, CalmSteps, StateInv', pc' = pc, queue' = queue
  PROVE  CalmInv'
<1>1. UNCHANGED <<status, outcome, completion, durable, call>>
  <2>1. \A t \in Task : call'[t] = call[t]
    BY DEF CalmSteps, CallSteps
  <2> QED BY <2>1 DEF CalmSteps, StatusSteps, RecordSteps, StateInv, TaskTypes
<1>2. /\ (lost => lost') /\ (closing => closing') /\ asked \subseteq asked'
      /\ raced => raced'
      /\ lost' => lost \/ "lease" \in faults'
      /\ faults \subseteq faults'
  BY DEF CalmSteps, CallerSteps, CallSteps, FaultSteps
<1>3. Grounds'
  BY <1>1, <1>2 DEF CalmInv, Grounds
<1>4. WorksAlone'
  BY <1>1, <1>2 DEF CalmInv, WorksAlone, OneWorks, Works
<1>5. Mild' => Mild
  BY <1>2 DEF Mild
<1>6. Settles'
  BY <1>1, <1>2, <1>5 DEF CalmInv, Settles
<1>7. StaysEnded'
  BY <1>1, <1>2, <1>5 DEF CalmInv, StaysEnded, Ended, Refused, Works
<1>8. TakenUp'
  BY <1>1, <1>2, <1>5 DEF CalmInv, TakenUp, Ended, Quiet
<1>9. ToldToEnd'
  BY <1>1, <1>2, <1>5 DEF CalmInv, ToldToEnd
<1>10. Driven'
  BY <1>1, <1>2, <1>5 DEF CalmInv, Driven
<1>11. WrittenOver'
  BY <1>1, <1>2 DEF CalmInv, WrittenOver, LastSaved, Calm
<1> QED BY <1>3, <1>4, <1>6, <1>7, <1>8, <1>9, <1>10, <1>11 DEF CalmInv

LEMMA CalmStarts ==
  ASSUME Init
  PROVE  CalmInv
BY Distinct DEF Init, CalmInv, Grounds, WorksAlone, OneWorks, Works, Settles, StaysEnded,
    Ended, TakenUp, ToldToEnd, Driven, WrittenOver, LastSaved, Calm, Mild, Active, Terminal

LEMMA CalmStep ==
  ASSUME StateInv, OneSettles, CalmInv, StateInv', [Next]_vars
  PROVE  CalmInv'
<1>1. CASE UNCHANGED vars
  BY <1>1 DEF vars, lifeVars, childVars, leaseVars, opVars, endVars, saveVars, taskVars,
      userVars, CalmInv, Grounds, WorksAlone, OneWorks, Works, Settles, StaysEnded, Ended,
      TakenUp, Quiet, ToldToEnd, Driven, WrittenOver, LastSaved, Calm, Mild, Refused
<1>2. CASE Next
  <2>1. CalmSteps /\ QueueStep
    BY <1>2, StepCalls, StepCaller, StepFlow, StepStatus, StepRecord, StepFaults, StepWrites
        DEF CalmSteps, CalmInv
  <2>2. CASE UNCHANGED <<pc, queue>>
    BY <2>1, <2>2, CalmUnmoved
  <2>3. ASSUME NEW t \in Task, WriteStep(t)
        PROVE  CalmInv'
    <3>1. Grounds' /\ WorksAlone'
      BY <2>1, <2>3, GroundsKept, WorksAloneKept DEF CalmInv
    <3>2. Settles' /\ StaysEnded' /\ TakenUp'
      BY <2>1, <2>3, SettlesKept, StaysEndedKept, TakenUpKept DEF CalmInv
    <3>3. ToldToEnd' /\ Driven' /\ WrittenOver'
      BY <2>1, <2>3, <3>1, ToldToEndKept, DrivenKept, WrittenOverKept
    <3> QED BY <3>1, <3>2, <3>3 DEF CalmInv
  <2> QED BY <2>1, <2>2, <2>3 DEF QueueStep
<1> QED BY <1>1, <1>2

LEMMA CalmAlways == Spec => [](StateInv /\ CalmInv)
<1>1. Init => StateInv /\ CancelInv /\ CalmInv
  BY StateStarts, CancelStarts, CalmStarts
<1>2. StateInv /\ CancelInv /\ CalmInv /\ [Next]_vars => (StateInv /\ CancelInv /\ CalmInv)'
  BY StateStep, CancelStep, CalmStep DEF CancelInv
<1> QED BY <1>1, <1>2, PTL DEF Spec

-----------------------------------------------------------------------------
(* What follows. *)

(* Nobody works on a run and nothing is in flight: it is not active. *)
LEMMA DrivenToRest ==
  ASSUME StateInv, CalmInv
  PROVE  NoneStuck
BY DEF NoneStuck, NeverStuck, Idle, CalmInv, Driven, Mild, Carrying, Before

(* A run that no call works on is parked or settled while storage works and  *)
(* no two calls met, whoever called and also through a shutdown: every path  *)
(* of the manager hands an active run on or settles it.                      *)
THEOREM RunsComeToRest == Spec => []NoneStuck
<1>1. StateInv /\ CalmInv => NoneStuck
  BY DrivenToRest
<1> QED BY <1>1, CalmAlways, PTL

LEMMA RestIsOnDisk ==
  ASSUME StateInv, CalmInv
  PROVE  ShutdownParks
<1>1. SUFFICES ASSUME Calm, Idle, durable \in Active
               PROVE  FALSE
  BY DEF ShutdownParks, Calm
<1>2. \A t \in Task : pc[t] \notin Saving \cup Carrying \cup {"question", "remove"}
  BY <1>1 DEF Idle, Saving, Carrying, Before
<1>3. queue = <<>>
  BY <1>2, NoWrite
<1> QED BY <1>1, <1>2, <1>3 DEF CalmInv, WrittenOver, LastSaved

(* When shutdown has returned, the record in storage says that the run waits,*)
(* was interrupted, ended or is gone, never that somebody works on it, unless*)
(* a write or a checkpoint failed, the lease was lost or two calls met.      *)
THEOREM ShutdownLeavesRestorable == Spec => []ShutdownParks
<1>1. StateInv /\ CalmInv => ShutdownParks
  BY RestIsOnDisk
<1> QED BY <1>1, CalmAlways, PTL

(* The child is driven by one operation at a time as long as no two calls    *)
(* met: also under /agents and a polling tool, and whatever fails.           *)
THEOREM DrivenOnceUnlessRaced == Spec => [](~raced => OneDriver)
<1>1. StateInv /\ CalmInv => (~raced => OneDriver)
  BY WorkingAlone DEF CalmInv, WorksAlone
<1> QED BY <1>1, CalmAlways, PTL

(* A serial parent calls when nothing is in progress, or to end what is. *)
LEMMA StepRaces ==
  ASSUME SerialParent, RunTypes, Next
  PROVE  raced' => raced
<1> USE DEF SerialParent, RunTypes
<1>1. ASSUME NEW t \in Task, NEW inBackground \in BOOLEAN, Start(t, inBackground)
     PROVE  raced' => raced
  BY <1>1 DEF Start, Unused
<1>2. ASSUME NEW t \in Task, NEW ok \in BOOLEAN, Reserved(t, ok)
     PROVE  raced' => raced
  BY <1>2 DEF Reserved
<1>3. ASSUME NEW t \in Task, ChildCreated(t)
     PROVE  raced' => raced
  BY <1>3 DEF ChildCreated, userVars
<1>4. ASSUME NEW t \in Task, ChildFailed(t)
     PROVE  raced' => raced
  BY <1>4 DEF ChildFailed, userVars
<1>5. ASSUME NEW t \in Task, NEW ok \in BOOLEAN, Adopted(t, ok)
     PROVE  raced' => raced
  BY <1>5 DEF Adopted, userVars
<1>6. ASSUME NEW t \in Task, NEW byTool \in BOOLEAN, Resume(t, byTool)
     PROVE  raced' => raced
  BY <1>6 DEF Resume, Unused, ByTool, ByBrowser
<1>7. ASSUME NEW t \in Task, Acquired(t)
     PROVE  raced' => raced
  BY <1>7 DEF Acquired, userVars
<1>8. ASSUME NEW t \in Task, AcquireGivesUp(t)
     PROVE  raced' => raced
  BY <1>8 DEF AcquireGivesUp
<1>9. ASSUME NEW t \in Task, NEW ok \in BOOLEAN, Repaired(t, ok)
     PROVE  raced' => raced
  BY <1>9 DEF Repaired
<1>10. ASSUME NEW t \in Task, NEW ok \in BOOLEAN, Revived(t, ok)
     PROVE  raced' => raced
  BY <1>10 DEF Revived
<1>11. ASSUME NEW t \in Task, NEW ok \in BOOLEAN, Begun(t, ok)
     PROVE  raced' => raced
  BY <1>11 DEF Begun, userVars
<1>12. ASSUME NEW t \in Task, PromptSettles(t)
     PROVE  raced' => raced
  BY <1>12 DEF PromptSettles, userVars
<1>13. ASSUME NEW t \in Task, PromptRejects(t)
     PROVE  raced' => raced
  BY <1>13 DEF PromptRejects, userVars
<1>14. ASSUME NEW t \in Task, NEW ok \in BOOLEAN, OperationSettled(t, ok)
     PROVE  raced' => raced
  BY <1>14 DEF OperationSettled, userVars
<1>15. ASSUME NEW t \in Task, NEW ok \in BOOLEAN, QuestionChecked(t, ok)
     PROVE  raced' => raced
  BY <1>15 DEF QuestionChecked, userVars
<1>16. ASSUME NEW t \in Task, NEW ok \in BOOLEAN, QuestionSaved(t, ok)
     PROVE  raced' => raced
  BY <1>16 DEF QuestionSaved, userVars
<1>17. ASSUME NEW t \in Task, InterruptChecked(t)
     PROVE  raced' => raced
  BY <1>17 DEF InterruptChecked, userVars
<1>18. ASSUME NEW t \in Task, NEW ok \in BOOLEAN, InterruptSaved(t, ok)
     PROVE  raced' => raced
  BY <1>18 DEF InterruptSaved, userVars
<1>19. ASSUME NEW t \in Task, NEW ok \in BOOLEAN, TerminalChecked(t, ok)
     PROVE  raced' => raced
  BY <1>19 DEF TerminalChecked, userVars
<1>20. ASSUME NEW t \in Task, NEW ok \in BOOLEAN, ResultSaved(t, ok)
     PROVE  raced' => raced
  BY <1>20 DEF ResultSaved, userVars
<1>21. ASSUME NEW t \in Task, Unpending(t)
     PROVE  raced' => raced
  BY <1>21 DEF Unpending, userVars
<1>22. ASSUME NEW t \in Task, NEW ok \in BOOLEAN, Buried(t, ok)
     PROVE  raced' => raced
  BY <1>22 DEF Buried, userVars
<1>23. ASSUME NEW t \in Task, Joined(t)
     PROVE  raced' => raced
  BY <1>23 DEF Joined, userVars
<1>24. ASSUME NEW t \in Task, WorkReturns(t)
     PROVE  raced' => raced
  BY <1>24 DEF WorkReturns
<1>25. ASSUME NEW t \in Task, NEW byTool \in BOOLEAN, Cancel(t, byTool)
     PROVE  raced' => raced
  BY <1>25 DEF Cancel, Unused, ByTool, ByBrowser
<1>26. ASSUME NEW t \in Task, Halted(t)
     PROVE  raced' => raced
  BY <1>26 DEF Halted, userVars
<1>27. ASSUME NEW t \in Task, CancelReturns(t)
     PROVE  raced' => raced
  BY <1>27 DEF CancelReturns
<1>28. ASSUME NEW t \in Task, Collect(t)
     PROVE  raced' => raced
  BY <1>28 DEF Collect, Unused, ByTool
<1>29. ASSUME NEW t \in Task, CollectReturns(t)
     PROVE  raced' => raced
  BY <1>29 DEF CollectReturns
<1>30. ASSUME NEW t \in Task, Shutdown(t)
     PROVE  raced' => raced
  BY <1>30 DEF Shutdown, Unused
<1>31. ASSUME NEW t \in Task, SetupDrained(t)
     PROVE  raced' => raced
  BY <1>31 DEF SetupDrained, userVars
<1>32. ASSUME NEW t \in Task, OperationDrained(t)
     PROVE  raced' => raced
  BY <1>32 DEF OperationDrained, userVars
<1>33. ASSUME NEW t \in Task, NEW ok \in BOOLEAN, Preserved(t, ok)
     PROVE  raced' => raced
  BY <1>33 DEF Preserved, userVars
<1>34. ASSUME NEW t \in Task, ShutdownReturns(t)
     PROVE  raced' => raced
  BY <1>34 DEF ShutdownReturns, userVars
<1>35. ASSUME NEW t \in Task, Signal(t)
     PROVE  raced' => raced
  BY <1>35 DEF Signal, taskVars
<1>36. ASSUME Detach
     PROVE  raced' => raced
  BY <1>36 DEF Detach, taskVars
<1>37. ASSUME LoseLease
     PROVE  raced' => raced
  BY <1>37 DEF LoseLease, taskVars, userVars
<1>38. ASSUME OtherTakes
     PROVE  raced' => raced
  BY <1>38 DEF OtherTakes, taskVars, userVars
<1>39. ASSUME OtherReleases
     PROVE  raced' => raced
  BY <1>39 DEF OtherReleases, taskVars, userVars
<1> HIDE DEF SerialParent, RunTypes
<1> QED
  BY <1>1, <1>2, <1>3, <1>4, <1>5, <1>6, <1>7, <1>8, <1>9, <1>10, <1>11,
      <1>12, <1>13, <1>14, <1>15, <1>16, <1>17, <1>18, <1>19, <1>20, <1>21,
      <1>22, <1>23, <1>24, <1>25, <1>26, <1>27, <1>28, <1>29, <1>30, <1>31,
      <1>32, <1>33, <1>34, <1>35, <1>36, <1>37, <1>38, <1>39
  DEF Next, SaveCompletes, WorkspaceCompletes, Reacts, Called

(* A serial parent never races: with it these hold whatever it calls. *)
THEOREM SerialParentNeverRaces ==
  ASSUME ~Browser, ~Polls
  PROVE  Spec => []~raced
<1>1. SerialParent
  BY DEF SerialParent
<1>2. Init => RunTypes /\ ~raced
  BY StateStarts DEF Init, StateInv
<1>3. StateInv /\ ~raced /\ [Next]_vars => (~raced)'
  BY <1>1, StepRaces DEF StateInv, vars, userVars
<1> QED BY <1>2, <1>3, CalmAlways, PTL DEF Spec

(* A run of a serial parent that nobody works on is parked or settled, also  *)
(* when it shuts down, unless storage or a workspace checkpoint failed.      *)
THEOREM SerialNeverStuck ==
  ASSUME ~Browser, ~Polls
  PROVE  Spec => [](faults \subseteq {"lease"} => NeverStuck)
<1>1. ~raced /\ NoneStuck => (faults \subseteq {"lease"} => NeverStuck)
  BY DEF NoneStuck
<1> QED BY <1>1, SerialParentNeverRaces, RunsComeToRest, PTL

=============================================================================
