--------------------- MODULE RunLifecycleSerialProofs ----------------------
(* Proofs about the life of a run whose parent is serial: the agent tool     *)
(* makes its calls one after the other, acts on a run that waits or has      *)
(* settled once it is notified of it, and /agents only looks on.             *)
EXTENDS RunLifecycleProofs

SerialParent == ~Browser /\ ~Polls

-----------------------------------------------------------------------------
(* One operation at a time. *)

Works(t) == call[t] \in {"start", "resume"} /\ pc[t] # "done"

OneWorks == \A t, u \in Task : Works(t) /\ Works(u) => t = u

(* Until somebody asks for the end, a start or a resume is alone while it    *)
(* prepares, and holds the lease once it has it.                             *)
Prepared ==
  \A t \in Task :
    /\ pc[t] \in {"reserve", "acquire", "setup", "adopt", "repair", "revive"}
    /\ asked = {} /\ ~closing
    =>
        /\ \A u \in Task \ {t} : pc[u] \in {"idle", "done"}
        /\ pc[t] \in {"setup", "adopt", "repair", "revive"} => lease

(* An operation that begins holds the lease until its write is done, since   *)
(* what would release the lease waits for a later write.                     *)
Begins ==
  \A t \in Task : pc[t] = "begin" =>
    \/ lost
    \/ /\ lease
       /\ queue # <<>> /\ queue[1].task = t
       /\ \A i \in DOMAIN queue : ~queue[i].refused

SerialInv == OneWorks /\ Prepared /\ Begins

(* What a step of a call does to the preparation of an operation. *)
PrepareSteps ==
  /\ \A t \in Task : pc'[t] # pc[t] =>
       /\ call[t] = "none" =>
            /\ call'[t] \in {"resume", "collect"} => Idle \/ Browser \/ Polls
            /\ call'[t] = "cancel" => asked' # {}
            /\ call'[t] # "none"
       /\ lease /\ ~lease' => pc[t] \in Saving \cup {"remove"} \/ call[t] \in {"start", "resume"}
       /\ pc'[t] \in {"setup", "adopt", "repair", "revive"} =>
            /\ pc[t] \in {"reserve", "acquire", "setup", "repair"}
            /\ lease' # lease => lease'
            /\ pc[t] \in {"reserve", "acquire"} => lease'
       /\ pc'[t] = "begin" =>
            /\ pc[t] \in {"adopt", "revive"} /\ lease' = lease
            /\ asked = {} /\ ~closing /\ ~lost
       /\ pc'[t] = "prompt" => pc[t] = "begin"
       /\ pc[t] # "done"
       /\ pc'[t] = "acquire" => call[t] = "none" /\ call'[t] = "resume"
       /\ call'[t] = "none" => pc'[t] = "idle"
  /\ asked' = {} => asked = {}
  /\ lost => lost'

(* An operation begins when it is alone and was not asked to end. *)
LEMMA StepPrepare ==
  ASSUME StateInv, Next
  PROVE  PrepareSteps
<1> USE DEF StateInv, TaskTypes, At, Saving, Placed, NotYet, WorkSteps, CancelSteps,
           ShutdownSteps, PrepareSteps, Goto, Active, Parked, Terminal
<1>1. ASSUME NEW t \in Task, NEW inBackground \in BOOLEAN, Start(t, inBackground)
     PROVE  PrepareSteps
  BY <1>1 DEF Start, Unused, childVars, leaseVars, opVars, endVars
<1>2. ASSUME NEW t \in Task, NEW ok \in BOOLEAN, Reserved(t, ok)
     PROVE  PrepareSteps
  <2>1. ok => lease'
    BY <1>2 DEF Reserved, Acquire
  <2>2. ~ok => Goto(t, "done") /\ lease' = lease
    BY <1>2 DEF Reserved, leaseVars
  <2>3. ok => Goto(t, "setup")
    BY <1>2 DEF Reserved
  <2>4. pc[t] = "reserve" /\ call' = call /\ asked' = asked /\ lost' = lost
    BY <1>2 DEF Reserved
  <2> QED BY <2>1, <2>2, <2>3, <2>4
<1>3. ASSUME NEW t \in Task, ChildCreated(t)
     PROVE  PrepareSteps
  BY <1>3 DEF ChildCreated, lifeVars, leaseVars, opVars, endVars, userVars
<1>4. ASSUME NEW t \in Task, ChildFailed(t)
     PROVE  PrepareSteps
  BY <1>4 DEF ChildFailed, FinishTerminal, lifeVars, childVars, leaseVars, opVars,
      saveVars, userVars
<1>5. ASSUME NEW t \in Task, NEW ok \in BOOLEAN, Adopted(t, ok)
     PROVE  PrepareSteps
  BY <1>5 DEF Adopted, FinishTerminal, StopWork, FinishInterrupted, BeginOperation,
      leaseVars, userVars
<1>6. ASSUME NEW t \in Task, NEW byTool \in BOOLEAN, Resume(t, byTool)
     PROVE  PrepareSteps
  BY <1>6 DEF Resume, Unused, ByTool, ByBrowser, lifeVars, childVars, leaseVars,
      opVars, endVars, saveVars
<1>7. ASSUME NEW t \in Task, Acquired(t)
     PROVE  PrepareSteps
  <2>1. lease'
    BY <1>7 DEF Acquired, Acquire, leaseVars
  <2>2. Goto(t, "repair") \/ Goto(t, "revive")
    BY <1>7 DEF Acquired
  <2>3. pc[t] = "acquire" /\ call' = call /\ asked' = asked /\ lost' = lost
    BY <1>7 DEF Acquired, userVars
  <2> QED BY <2>1, <2>2, <2>3, ZenonT(60)
<1>8. ASSUME NEW t \in Task, AcquireGivesUp(t)
     PROVE  PrepareSteps
  BY <1>8 DEF AcquireGivesUp, ResumeFails, Release, childVars, opVars, endVars,
      saveVars
<1>9. ASSUME NEW t \in Task, NEW ok \in BOOLEAN, Repaired(t, ok)
     PROVE  PrepareSteps
  BY <1>9 DEF Repaired, ResumeFails, Release, leaseVars, childVars, opVars, endVars
<1>10. ASSUME NEW t \in Task, NEW ok \in BOOLEAN, Revived(t, ok)
     PROVE  PrepareSteps
  BY <1>10 DEF Revived, ResumeFails, Release, leaseVars, FinishTerminal, StopWork,
      FinishInterrupted, BeginOperation
<1>11. ASSUME NEW t \in Task, NEW ok \in BOOLEAN, Begun(t, ok)
     PROVE  PrepareSteps
  BY <1>11 DEF Begun, FinishTerminal, StopWork, FinishInterrupted, DriveInterruption,
      PromptFailure, lifeVars, leaseVars, userVars
<1>12. ASSUME NEW t \in Task, PromptSettles(t)
     PROVE  PrepareSteps
  BY <1>12 DEF PromptSettles, FinishInterrupted, lifeVars, childVars, leaseVars,
      opVars, userVars
<1>13. ASSUME NEW t \in Task, PromptRejects(t)
     PROVE  PrepareSteps
  BY <1>13 DEF PromptRejects, PromptFailure, DriveInterruption, FinishTerminal,
      FinishInterrupted, StopWork, lifeVars, childVars, leaseVars, opVars,
      saveVars, userVars
<1>14. ASSUME NEW t \in Task, NEW ok \in BOOLEAN, OperationSettled(t, ok)
     PROVE  PrepareSteps
  BY <1>14 DEF OperationSettled, FinishTerminal, StopWork, FinishInterrupted,
      DriveInterruption, leaseVars, opVars, userVars
<1>15. ASSUME NEW t \in Task, NEW ok \in BOOLEAN, QuestionChecked(t, ok)
     PROVE  PrepareSteps
  BY <1>15 DEF QuestionChecked, WorkspaceChecked, FinalizeInterrupted, childVars,
      leaseVars, opVars, endVars, userVars
<1>16. ASSUME NEW t \in Task, NEW ok \in BOOLEAN, QuestionSaved(t, ok)
     PROVE  PrepareSteps
  BY <1>16 DEF QuestionSaved, FinalizeInterrupted, Release, leaseVars, childVars,
      opVars, endVars, userVars
<1>17. ASSUME NEW t \in Task, InterruptChecked(t)
     PROVE  PrepareSteps
  BY <1>17 DEF InterruptChecked, FinalizeInterrupted, childVars, leaseVars, opVars,
      endVars, userVars
<1>18. ASSUME NEW t \in Task, NEW ok \in BOOLEAN, InterruptSaved(t, ok)
     PROVE  PrepareSteps
  BY <1>18 DEF InterruptSaved, Release, CompletionEnds, lifeVars, childVars, opVars,
      userVars
<1>19. ASSUME NEW t \in Task, NEW ok \in BOOLEAN, TerminalChecked(t, ok)
     PROVE  PrepareSteps
  BY <1>19 DEF TerminalChecked, WorkspaceChecked, FinalizeInterrupted, RemoveRun,
      childVars, leaseVars, opVars, userVars
<1>20. ASSUME NEW t \in Task, NEW ok \in BOOLEAN, ResultSaved(t, ok)
     PROVE  PrepareSteps
  BY <1>20 DEF ResultSaved, Release, CompletionEnds, childVars, opVars, userVars
<1>21. ASSUME NEW t \in Task, Unpending(t)
     PROVE  PrepareSteps
  BY <1>21 DEF Unpending, Release, leaseVars, childVars, lifeVars, opVars, endVars,
      userVars
<1>22. ASSUME NEW t \in Task, NEW ok \in BOOLEAN, Buried(t, ok)
     PROVE  PrepareSteps
  BY <1>22 DEF Buried, Release, CompletionEnds, lifeVars, opVars, userVars
<1>23. ASSUME NEW t \in Task, Joined(t)
     PROVE  PrepareSteps
  BY <1>23 DEF Joined, lifeVars, childVars, leaseVars, opVars, endVars, saveVars,
      userVars
<1>24. ASSUME NEW t \in Task, WorkReturns(t)
     PROVE  PrepareSteps
  BY <1>24 DEF WorkReturns, Release, leaseVars, childVars, endVars, saveVars
<1>25. ASSUME NEW t \in Task, NEW byTool \in BOOLEAN, Cancel(t, byTool)
     PROVE  PrepareSteps
  <2>1. asked' # {} /\ (asked' = {} => asked = {})
    BY <1>25 DEF Cancel
  <2>2. UNCHANGED <<lease, lost>>
    BY <1>25 DEF Cancel, leaseVars
  <2> QED BY <1>25, <2>1, <2>2, CancelMoves DEF FinishTerminal
<1>26. ASSUME NEW t \in Task, Halted(t)
     PROVE  PrepareSteps
  BY <1>26 DEF Halted, FinishTerminal, lifeVars, childVars, leaseVars, opVars,
      saveVars, userVars
<1>27. ASSUME NEW t \in Task, CancelReturns(t)
     PROVE  PrepareSteps
  BY <1>27 DEF CancelReturns, RemoveRun, childVars, leaseVars, opVars, saveVars
<1>28. ASSUME NEW t \in Task, Collect(t)
     PROVE  PrepareSteps
  BY <1>28 DEF Collect, Unused, ByTool, RemoveRun, childVars, leaseVars, opVars,
      saveVars
<1>29. ASSUME NEW t \in Task, CollectReturns(t)
     PROVE  PrepareSteps
  BY <1>29 DEF CollectReturns, lifeVars, childVars, leaseVars, opVars, saveVars
<1>30. ASSUME NEW t \in Task, Shutdown(t)
     PROVE  PrepareSteps
  BY <1>30 DEF Shutdown, Unused, lifeVars, leaseVars, opVars, saveVars
<1>31. ASSUME NEW t \in Task, SetupDrained(t)
     PROVE  PrepareSteps
  BY <1>31 DEF SetupDrained, lifeVars, leaseVars, opVars, endVars, saveVars, userVars
<1>32. ASSUME NEW t \in Task, OperationDrained(t)
     PROVE  PrepareSteps
  BY <1>32 DEF OperationDrained, RemoveRun, FinishInterrupted, childVars, leaseVars,
      opVars, userVars
<1>33. ASSUME NEW t \in Task, NEW ok \in BOOLEAN, Preserved(t, ok)
     PROVE  PrepareSteps
  BY <1>33 DEF Preserved, RemoveRun, leaseVars, opVars, userVars
<1>34. ASSUME NEW t \in Task, ShutdownReturns(t)
     PROVE  PrepareSteps
  BY <1>34 DEF ShutdownReturns, RemoveRun, childVars, leaseVars, opVars, saveVars,
      userVars
<1>35. ASSUME NEW t \in Task, Signal(t)
     PROVE  PrepareSteps
  BY <1>35 DEF Signal, lifeVars, leaseVars, opVars, endVars, saveVars, taskVars
<1>36. ASSUME Detach
     PROVE  PrepareSteps
  BY <1>36 DEF Detach, childVars, leaseVars, endVars, saveVars, taskVars
<1>37. ASSUME LoseLease
     PROVE  PrepareSteps
  BY <1>37 DEF LoseLease, lifeVars, opVars, endVars, taskVars, userVars
<1>38. ASSUME OtherTakes
     PROVE  PrepareSteps
  BY <1>38 DEF OtherTakes, lifeVars, childVars, opVars, endVars, saveVars, taskVars,
      userVars
<1>39. ASSUME OtherReleases
     PROVE  PrepareSteps
  BY <1>39 DEF OtherReleases, lifeVars, childVars, opVars, endVars, saveVars,
      taskVars, userVars
<1> HIDE DEF StateInv, TaskTypes, At, Saving, Placed, NotYet, WorkSteps, CancelSteps,
           ShutdownSteps, PrepareSteps, Goto, Active, Parked, Terminal
<1> QED
  BY <1>1, <1>2, <1>3, <1>4, <1>5, <1>6, <1>7, <1>8, <1>9, <1>10, <1>11,
      <1>12, <1>13, <1>14, <1>15, <1>16, <1>17, <1>18, <1>19, <1>20, <1>21,
      <1>22, <1>23, <1>24, <1>25, <1>26, <1>27, <1>28, <1>29, <1>30, <1>31,
      <1>32, <1>33, <1>34, <1>35, <1>36, <1>37, <1>38, <1>39
      DEF Next, SaveCompletes, WorkspaceCompletes, Reacts, Called

LEMMA SerialStarts ==
  ASSUME Init
  PROVE  SerialInv
BY DEF Init, SerialInv, OneWorks, Works, Prepared, Begins

LEMMA SerialStutters ==
  ASSUME SerialInv, UNCHANGED vars
  PROVE  SerialInv'
BY DEF vars, lifeVars, childVars, leaseVars, opVars, endVars, saveVars, taskVars,
   userVars, SerialInv, OneWorks, Works, Prepared, Begins

(* A start or a resume is made while no other call is in progress. *)
LEMMA OneWorksKept ==
  ASSUME SerialParent, StateInv, StateInv', SerialInv, CallSteps, PrepareSteps,
         NEW t \in Task, WriteStep(t)
  PROVE  OneWorks'
<1>1. pc'[t] # pc[t] /\ \A u \in Task \ {t} : pc'[u] = pc[u] /\ call'[u] = call[u]
  BY OthersStay
<1>2. \A u \in Task \ {t} : Works(u)' => Works(u)
  BY <1>1 DEF Works
<1>3. CASE call[t] = "none" /\ call'[t] \in {"start", "resume"}
  <2>1. \A u \in Task : pc[u] \in {"idle", "done"}
    BY <1>1, <1>3
      DEF CallSteps, PrepareSteps, SerialParent, Idle, StateInv, NotYet, Placed
  <2>2. \A u \in Task : ~Works(u)
    BY <2>1 DEF Works, StateInv, Placed, WorkSteps
  <2> QED BY <1>2, <2>2 DEF OneWorks
<1>4. CASE ~(call[t] = "none" /\ call'[t] \in {"start", "resume"})
  <2>1. call[t] \in {"none", "start", "resume", "cancel", "collect", "shutdown"}
    BY DEF StateInv, TaskTypes
  <2>2. Works(t)' => call[t] \in {"start", "resume"}
    BY <1>1, <1>4 DEF Works, CallSteps
  <2>3. Works(t)' => Works(t)
    BY <1>1, <2>2 DEF Works, PrepareSteps
  <2>4. \A u \in Task : Works(u)' => Works(u)
    BY <1>2, <2>3
  <2> QED BY <2>4 DEF OneWorks, SerialInv
<1> QED BY <1>3, <1>4

(* Whoever calls while it prepares asks for the end. *)
LEMMA PreparedKept ==
  ASSUME SerialParent, StateInv, StateInv', SerialInv, CallSteps, PrepareSteps,
         NEW t \in Task, WriteStep(t)
  PROVE  Prepared'
<1>1. pc'[t] # pc[t] /\ \A u \in Task \ {t} : pc'[u] = pc[u] /\ call'[u] = call[u]
  BY OthersStay
<1>2. call[t] \in {"none", "start", "resume", "cancel", "collect", "shutdown"}
      /\ call'[t] \in {"none", "start", "resume", "cancel", "collect", "shutdown"}
  BY DEF StateInv, TaskTypes
<1> DEFINE preparing == {"reserve", "acquire", "setup", "adopt", "repair", "revive"}
<1>3. SUFFICES ASSUME NEW u \in Task, pc'[u] \in preparing, asked' = {}, ~closing'
               PROVE  /\ \A v \in Task \ {u} : pc'[v] \in {"idle", "done"}
                      /\ pc'[u] \in {"setup", "adopt", "repair", "revive"} => lease'
  BY DEF Prepared
<1>4. asked = {} /\ ~closing
  BY <1>3 DEF PrepareSteps, CallSteps
<1>5. CASE u # t
  <2>1. pc[u] \in preparing
    BY <1>1, <1>3, <1>5
  <2>2. pc[t] \in {"idle", "done"}
    BY <1>4, <1>5, <2>1 DEF SerialInv, Prepared
  <2>3. call[t] = "none"
    BY <1>1, <1>2, <2>2
      DEF PrepareSteps, StateInv, Placed, WorkSteps, CancelSteps, ShutdownSteps
  <2>4. call[u] # "none" /\ ~Idle
    BY <2>1 DEF StateInv, Placed, Idle
  <2> QED BY <1>1, <1>2, <1>3, <2>3, <2>4 DEF CallSteps, PrepareSteps, SerialParent,
      StateInv, NotYet
<1>6. CASE u = t
  <2>1. CASE pc'[t] = "reserve"
    <3>1. \A v \in Task : pc[v] = "idle"
      BY <1>1, <2>1 DEF CallSteps, StateInv, NotYet, Placed
    <3> QED BY <1>1, <1>6, <2>1, <3>1
  <2>2. CASE pc'[t] = "acquire"
    <3>1. Idle
      BY <1>1, <2>2 DEF PrepareSteps, SerialParent
    <3> QED BY <1>1, <1>6, <2>2, <3>1 DEF Idle
  <2>3. CASE pc'[t] \in {"setup", "adopt", "repair", "revive"}
    <3>1. pc[t] \in preparing
      BY <1>1, <2>3 DEF PrepareSteps
    <3>2. \A v \in Task \ {t} : pc[v] \in {"idle", "done"}
      BY <1>4, <3>1 DEF SerialInv, Prepared
    <3>3. pc[t] \in {"setup", "repair"} => lease
      BY <1>4, <3>1 DEF SerialInv, Prepared
    <3>4. lease'
      BY <1>1, <2>3, <3>3 DEF PrepareSteps
    <3> QED BY <1>1, <1>6, <3>2, <3>4
  <2> QED BY <1>3, <1>6, <2>1, <2>2, <2>3
<1> QED BY <1>5, <1>6

(* A beginning operation keeps the lease behind its own write. *)
LEMMA BeginsKept ==
  ASSUME StateInv, StateInv', SerialInv, CallSteps, PrepareSteps, OrderSteps, QueueStep,
         NEW t \in Task, WriteStep(t)
  PROVE  Begins'
<1>1. pc'[t] # pc[t] /\ \A u \in Task \ {t} : pc'[u] = pc[u] /\ call'[u] = call[u]
  BY OthersStay
<1>2. SUFFICES ASSUME NEW u \in Task, pc'[u] = "begin", ~lost'
               PROVE  /\ lease'
                      /\ queue' # <<>> /\ queue'[1].task = u
                      /\ \A i \in DOMAIN queue' : ~queue'[i].refused
  BY DEF Begins
<1>3. ~lost
  BY <1>2 DEF PrepareSteps
<1>4. queue \in Seq(Write) /\ Writes
  BY DEF StateInv
<1>5. CASE u = t
  <2>1. pc[t] \in {"adopt", "revive"} /\ lease' = lease /\ asked = {} /\ ~closing
    BY <1>1, <1>2, <1>5 DEF PrepareSteps
  <2>2. lease /\ \A v \in Task \ {t} : pc[v] \in {"idle", "done"}
    BY <2>1 DEF SerialInv, Prepared
  <2>3. Rest(t) \in Seq(Write) /\ MatchesBut(Rest(t), pc, t)
    BY <1>4, <2>1, RestMatches DEF Saving
  <2>4. DOMAIN Rest(t) = {}
    <3>1. \A i \in DOMAIN Rest(t) : Rest(t)[i] \in Write
      BY <2>3
    <3> QED BY <2>2, <2>3, <3>1 DEF MatchesBut, Write, Saving
  <2>5. Rest(t) = <<>>
    BY <2>3, <2>4
  <2>6. PICK s \in Status \cup {"removed"} :
          queue' = Append(<<>>, [task |-> t, status |-> s, refused |-> lost])
    BY <1>2, <1>5, <2>1, <2>5 DEF WriteStep, Saved, Saving
  <2>7. queue' = <<[task |-> t, status |-> s, refused |-> lost]>>
    BY <2>6
  <2> QED BY <1>3, <1>5, <2>1, <2>2, <2>7
<1>6. CASE u # t
  <2>1. pc[u] = "begin" /\ pc'[u] = pc[u]
    BY <1>1, <1>2, <1>6
  <2>2. /\ lease /\ queue # <<>> /\ queue[1].task = u
        /\ \A i \in DOMAIN queue : ~queue[i].refused
    BY <1>3, <2>1 DEF SerialInv, Begins
  <2>3. /\ queue' # <<>> /\ queue'[1].task = u
        /\ \A i \in DOMAIN queue' : ~queue'[i].refused
    BY <1>3, <2>1, <2>2, FrontKept DEF Saving
  <2>4. pc[t] \notin Saving
    <3>1. SUFFICES ASSUME pc[t] \in Saving PROVE FALSE
      OBVIOUS
    <3>2. Entry(t) \in DOMAIN queue /\ queue[Entry(t)].task = t
      BY <1>4, <3>1, EntryFound
    <3> QED BY <1>1, <1>6, <2>2, <3>1, <3>2 DEF OrderSteps
  <2>5. pc[t] # "remove"
    BY <1>1, <2>2 DEF OrderSteps
  <2>6. call[t] \notin {"start", "resume"}
    <3>1. call[u] \in {"none", "start", "resume", "cancel", "collect", "shutdown"}
      BY DEF StateInv, TaskTypes
    <3>2. Works(u)
      BY <2>1, <3>1 DEF Works, StateInv, Placed, CancelSteps, ShutdownSteps
    <3>3. pc[t] # "done"
      BY <1>1 DEF PrepareSteps
    <3> QED BY <1>6, <3>2, <3>3 DEF Works, SerialInv, OneWorks
  <2> QED BY <1>1, <2>2, <2>3, <2>4, <2>5, <2>6 DEF PrepareSteps
<1> QED BY <1>5, <1>6

LEMMA SerialStep ==
  ASSUME SerialParent, StateInv, SerialInv, [Next]_vars
  PROVE  SerialInv'
<1>1. CASE UNCHANGED vars
  BY <1>1, SerialStutters
<1>2. CASE Next
  <2>1. CallSteps /\ PrepareSteps /\ OrderSteps /\ QueueStep
    BY <1>2, StepCalls, StepPrepare, StepOrder, StepWrites
  <2>2. StateInv'
    BY <1>2, StateStep
  <2>3. CASE UNCHANGED <<pc, queue>>
    <3>1. pc' = pc /\ queue' = queue /\ lease' = lease
      BY <1>2, <2>3, StepLease DEF LeaseSteps
    <3>2. \A u \in Task : call'[u] = call[u]
      BY <2>1, <3>1 DEF CallSteps
    <3>3. OneWorks'
      BY <3>1, <3>2 DEF SerialInv, OneWorks, Works
    <3>4. Prepared'
      BY <2>1, <3>1 DEF SerialInv, Prepared, PrepareSteps, CallSteps
    <3>5. Begins'
      BY <2>1, <3>1 DEF SerialInv, Begins, PrepareSteps
    <3> QED BY <3>3, <3>4, <3>5 DEF SerialInv
  <2>4. ASSUME NEW t \in Task, WriteStep(t)
        PROVE  SerialInv'
    BY <2>1, <2>2, <2>4, OneWorksKept, PreparedKept, BeginsKept DEF SerialInv
  <2> QED BY <2>1, <2>3, <2>4 DEF QueueStep
<1> QED BY <1>1, <1>2

LEMMA SerialAlways ==
  ASSUME SerialParent
  PROVE  Spec => [](StateInv /\ SerialInv)
<1>1. Init => StateInv /\ SerialInv
  BY StateStarts, SerialStarts
<1>2. StateInv /\ SerialInv /\ [Next]_vars => (StateInv /\ SerialInv)'
  BY StateStep, SerialStep
<1> QED BY <1>1, <1>2, PTL DEF Spec

LEMMA WorkingAlone ==
  ASSUME StateInv, OneWorks
  PROVE  OneDriver
<1>1. \A t \in Task : call[t] \in {"none", "start", "resume", "cancel", "collect", "shutdown"}
  BY DEF StateInv, TaskTypes
<1>2. \A t \in Task : pc[t] \in {"prompt", "settle"} => Works(t)
  BY <1>1 DEF StateInv, Placed, Works, CancelSteps, ShutdownSteps
<1> QED BY <1>2 DEF OneDriver, OneWorks

(* A serial parent never has two operations on one child transcript: it      *)
(* starts or resumes a run only when no call is in progress.  The condition  *)
(* is needed: /agents can resume a run that a failed save has parked while   *)
(* its operation still ends.                                                 *)
THEOREM SerialParentDrivesOnce ==
  ASSUME ~Browser, ~Polls
  PROVE  Spec => []OneDriver
<1>1. Spec => [](StateInv /\ SerialInv)
  BY SerialAlways DEF SerialParent
<1>2. StateInv /\ SerialInv => OneDriver
  BY WorkingAlone DEF SerialInv
<1> QED BY <1>1, <1>2, PTL

LEMMA PromptIsOwned ==
  ASSUME StateInv, SerialInv, Next
  PROVE  \A t \in Task : pc[t] # "prompt" /\ pc'[t] = "prompt" => lease \/ lost
<1>1. PrepareSteps
  BY StepPrepare
<1> QED BY <1>1 DEF PrepareSteps, SerialInv, Begins

(* With a serial parent a child is prompted by the owner of its transcript,  *)
(* or by one that lost it and will notice: a shutdown or a cancellation that *)
(* overtakes the operation's begin releases the lease only behind its write. *)
THEOREM SerialParentPromptsOwned ==
  ASSUME ~Browser, ~Polls
  PROVE  Spec => PromptedByOwner
<1>1. Spec => [](StateInv /\ SerialInv)
  BY SerialAlways DEF SerialParent
<1>2. StateInv /\ SerialInv /\ [Next]_vars =>
        [\A t \in Task : pc[t] # "prompt" /\ pc'[t] = "prompt" => lease \/ lost]_vars
  BY PromptIsOwned
<1> QED BY <1>1, <1>2, PTL DEF Spec, PromptedByOwner
-----------------------------------------------------------------------------
(* Until a shutdown: one call at a time works on the run. *)

(* A cancellation that waits for the work does nothing meanwhile. *)
Busy(t) == pc[t] \notin {"idle", "halt", "done"}

(* No two calls are busy, and none finds a settlement in progress. *)
Alone ==
  /\ ~closing /\ \A t \in Task : call[t] # "shutdown" /\ pc[t] # "join"
  /\ \A t, u \in Task : Busy(t) /\ Busy(u) => t = u

(* The agent tool waits for its call, or the call has gone to the background *)
(* and a cancellation waits for it there.                                    *)
ToolWaits ==
  /\ \A t \in Task :
       /\ Works(t) => tool = t \/ (background /\ backgroundTask = t)
       /\ pc[t] \in {"reserve", "acquire", "repair", "revive"} => tool = t
       /\ call[t] \in {"cancel", "collect"} /\ pc[t] # "done" => tool = t
       /\ pc[t] = "halt" => registered
  /\ operation \in Task =>
       /\ Works(operation)
       /\ pc[operation] \notin {"reserve", "setup", "adopt", "acquire", "repair",
                               "revive", "begin"}

(* What the status says while a call is at a step. *)
Staged ==
  \A t \in Task :
    /\ pc[t] \in {"reserve", "setup", "adopt"} => status = "starting"
    /\ pc[t] = "acquire" => status \in Parked
    /\ pc[t] \in {"repair", "yield"} => status = "interrupted"
    /\ pc[t] \in {"revive", "begin", "prompt", "settle"} => status = "running"
    /\ pc[t] \in {"question", "park"} => status = "waiting_for_parent"
    /\ pc[t] = "interrupt" => status \in Active
    /\ pc[t] = "finish" => status \notin Terminal
    /\ pc[t] = "retain" => status \in Terminal /\ outcome = status
    /\ pc[t] \in {"remove", "bury"} /\ completion = t => status \in Terminal

(* What a write says that was made at a step. *)
Written(t) ==
  CASE pc[t] = "bury"              -> {"removed"}
    [] pc[t] = "retain"            -> {outcome}
    [] pc[t] \in {"park", "yield"} -> Parked
    [] OTHER                       -> Active \cup Parked

Content ==
  /\ \A i \in DOMAIN queue : /\ queue[i].status \in Written(queue[i].task)
                             /\ queue[i].refused => lost
  /\ lost => "lease" \in faults

(* What the record on disk allows. *)
Recorded ==
  /\ status = "none" => durable = "none" /\ ~retained
  /\ \A t \in Task :
       pc[t] \in {"remove", "bury"} /\ call[t] = "cancel" /\ background => want[t] = "removed"
  /\ durable = "none" =>
       /\ \A t \in Task : pc[t] \in {"idle", "reserve", "done"}
       /\ registered => \E t \in Task : pc[t] = "reserve"
  /\ durable # "none" => \A t \in Task : pc[t] # "reserve"
  /\ durable \in Terminal =>
       /\ status = durable /\ outcome = durable
       /\ \A t \in Task : pc[t] \in {"idle", "done", "halt", "back", "remove", "bury"}
  /\ durable = "removed" =>
       /\ ~registered
       /\ \A t \in Task : pc[t] \in {"idle", "done", "back"}
       /\ \A t \in Task : pc[t] = "back" /\ call[t] = "cancel" /\ background => want[t] = "removed"
  /\ retained /\ registered => durable \in Terminal

(* The child is created once, and disposed with its run. *)
ChildKept ==
  /\ disposed => ~handle
  /\ status = "none" => ~disposed /\ ~handle
  /\ \A t \in Task : pc[t] \in {"reserve", "setup"} => ~disposed /\ registered
  /\ \A t \in Task : pc[t] = "reserve" => ~handle
  /\ ~registered /\ handle => \E t \in Task : pc[t] \in {"remove", "bury"}

(* As long as nothing failed, a settled run has settled for good, and no     *)
(* call keeps the lease behind its settlement.                               *)
LetGo ==
  /\ \A t \in Task : pc[t] = "acquire" => ~lease
  /\ faults = {} /\ (completion = Settled \/ outcome # None) => status \in Terminal
  /\ faults = {} =>
       \A t \in Task : pc[t] = "back" /\ call[t] \in {"start", "resume"} => ~lease

OpenInv == Alone /\ ToolWaits /\ Staged /\ Content /\ Recorded /\ ChildKept /\ LetGo

-----------------------------------------------------------------------------
(* What the calls of a serial parent find. *)

LEMMA StartMoves ==
  ASSUME StateInv, NEW t \in Task, NEW inBackground \in BOOLEAN, Start(t, inBackground)
  PROVE  /\ \A u \in Task : pc[u] = "idle" /\ call[u] = "none"
         /\ status = "none" /\ status' = "starting" /\ tool = None /\ tool' = t
         /\ call' = [call EXCEPT ![t] = "start"] /\ Goto(t, "reserve")
         /\ queue' = Saved(queue, t, "starting") /\ registered'
         /\ durable' = durable /\ closing' = closing /\ want' = want
         /\ faults' = faults /\ lease' = lease /\ lost' = lost
         /\ UNCHANGED <<operation, backgroundTask, handle, disposed, retained, outcome, completion>>
<1>1. \A u \in Task : pc[u] = "idle" /\ call[u] = "none"
  BY DEF Start, StateInv, NotYet, Placed
<1>2. /\ status = "none" /\ status' = "starting" /\ tool = None /\ tool' = t
      /\ call' = [call EXCEPT ![t] = "start"] /\ Goto(t, "reserve")
      /\ queue' = Saved(queue, t, "starting") /\ registered'
  BY DEF Start
<1>3. /\ durable' = durable /\ closing' = closing /\ want' = want
      /\ faults' = faults /\ lease' = lease /\ lost' = lost
      /\ UNCHANGED <<operation, backgroundTask, handle, disposed, retained, outcome, completion>>
  BY DEF Start, leaseVars, opVars, childVars, endVars
<1> QED BY <1>1, <1>2, <1>3

LEMMA ResumeMoves ==
  ASSUME SerialParent, StateInv, NEW t \in Task, NEW byTool \in BOOLEAN, Resume(t, byTool)
  PROVE  /\ \A u \in Task : pc[u] \in {"idle", "done"}
         /\ pc[t] = "idle" /\ registered /\ status \in Parked
         /\ tool = None /\ tool' = t
         /\ call' = [call EXCEPT ![t] = "resume"] /\ Goto(t, "acquire")
         /\ UNCHANGED <<status, registered, background, handle, disposed, lease, lost>>
         /\ UNCHANGED <<operation, backgroundTask, outcome, completion, retained>>
         /\ UNCHANGED <<durable, queue, faults, closing>>
<1>1. ByTool(t) /\ pc[t] = "idle" /\ registered /\ status \in Parked
  BY DEF Resume, Unused, SerialParent, ByBrowser
<1>2. Idle /\ tool = None /\ tool' = t
  BY <1>1 DEF ByTool, SerialParent, Parked, Active
<1>3. call' = [call EXCEPT ![t] = "resume"] /\ Goto(t, "acquire")
  BY DEF Resume
<1>4. UNCHANGED <<status, registered, background, handle, disposed, lease, lost>>
  BY DEF Resume, lifeVars, childVars, leaseVars
<1>5. UNCHANGED <<operation, backgroundTask, outcome, completion, retained>>
  BY DEF Resume, opVars, endVars
<1>6. UNCHANGED <<durable, queue, faults, closing>>
  BY DEF Resume, saveVars
<1> QED BY <1>1, <1>2, <1>3, <1>4, <1>5, <1>6 DEF Idle

LEMMA CollectMoves ==
  ASSUME SerialParent, StateInv, NEW t \in Task, Collect(t)
  PROVE  /\ \A u \in Task : pc[u] \in {"idle", "done"}
         /\ pc[t] = "idle" /\ registered /\ status \in Terminal /\ background
         /\ outcome # None /\ ~registered' /\ ~retained'
         /\ tool = None /\ tool' = t
         /\ call' = [call EXCEPT ![t] = "collect"] /\ Goto(t, "remove")
         /\ UNCHANGED <<status, background, handle, disposed, lease, lost>>
         /\ UNCHANGED <<operation, backgroundTask, outcome, completion>>
         /\ UNCHANGED <<durable, queue, faults, closing, want>>
<1>1. /\ ByTool(t) /\ pc[t] = "idle" /\ registered /\ status \in Terminal
      /\ background /\ outcome # None
  BY DEF Collect, Unused
<1>2. Idle /\ tool = None /\ tool' = t
  BY <1>1 DEF ByTool, SerialParent, Terminal, Active
<1>3. /\ call' = [call EXCEPT ![t] = "collect"] /\ Goto(t, "remove")
      /\ ~registered' /\ ~retained'
  BY DEF Collect, RemoveRun
<1>4. UNCHANGED <<status, background, handle, disposed, lease, lost>>
  BY DEF Collect, childVars, leaseVars
<1>5. UNCHANGED <<operation, backgroundTask, outcome, completion>>
  BY DEF Collect, opVars
<1>6. UNCHANGED <<durable, queue, faults, closing, want>>
  BY DEF Collect, saveVars
<1> QED BY <1>1, <1>2, <1>3, <1>4, <1>5, <1>6 DEF Idle

LEMMA CancelFinds ==
  ASSUME SerialParent, StateInv, NEW t \in Task, NEW byTool \in BOOLEAN, Cancel(t, byTool)
  PROVE  /\ tool = None /\ tool' = t /\ status \notin Terminal
         /\ \/ status \in Active /\ Goto(t, "halt") /\ want' = want /\ completion' = completion
            \/ /\ \A u \in Task : pc[u] \in {"idle", "done"}
               /\ status \notin Active /\ FinishTerminal(t, "canceled")
         /\ UNCHANGED <<handle, disposed, operation, backgroundTask, retained, durable>>
<1>1. ByTool(t) /\ status \notin Terminal
  BY DEF Cancel, SerialParent, ByBrowser
<1>2. tool = None /\ tool' = t /\ (status \in Active \/ Idle)
  BY <1>1 DEF ByTool, SerialParent
<1>3. \/ status \in Active /\ Goto(t, "halt") /\ want' = want /\ completion' = completion
      \/ status \notin Active /\ FinishTerminal(t, "canceled")
  BY DEF Cancel
<1>4. UNCHANGED <<handle, disposed>>
  BY DEF Cancel
<1>5. UNCHANGED <<operation, backgroundTask, retained, durable>>
  BY DEF Cancel, opVars, saveVars
<1> QED BY <1>1, <1>2, <1>3, <1>4, <1>5 DEF Idle

(* A call that gets busy finds no other one busy. *)
LEMMA StepAlone ==
  ASSUME SerialParent, StateInv, OneSettles, OpenInv, ~closing', Next
  PROVE  Alone'
<1> USE Distinct DEF StateInv, TaskTypes, ValueTypes, RunTypes, OneSettles, OpenInv, At,
           Placed, NotYet, Alone, ToolWaits, Busy, Works, Settling, WorkSteps,
           CancelSteps, ShutdownSteps, Goto, Active, Parked
<1>1. ASSUME NEW t \in Task, NEW inBackground \in BOOLEAN, Start(t, inBackground)
     PROVE  Alone'
  BY <1>1, StartMoves
<1>2. ASSUME NEW t \in Task, NEW ok \in BOOLEAN, Reserved(t, ok)
     PROVE  Alone'
  BY <1>2 DEF Reserved, Acquire, childVars, leaseVars
<1>3. ASSUME NEW t \in Task, ChildCreated(t)
     PROVE  Alone'
  BY <1>3 DEF ChildCreated, lifeVars, leaseVars, opVars, endVars, userVars
<1>4. ASSUME NEW t \in Task, ChildFailed(t)
     PROVE  Alone'
  BY <1>4 DEF ChildFailed, FinishTerminal, lifeVars, childVars, leaseVars, opVars,
      saveVars, userVars
<1>5. ASSUME NEW t \in Task, NEW ok \in BOOLEAN, Adopted(t, ok)
     PROVE  Alone'
  BY <1>5 DEF Adopted, FinishTerminal, StopWork, FinishInterrupted, BeginOperation,
      leaseVars, userVars
<1>6. ASSUME NEW t \in Task, NEW byTool \in BOOLEAN, Resume(t, byTool)
     PROVE  Alone'
  BY <1>6, ResumeMoves
<1>7. ASSUME NEW t \in Task, Acquired(t)
     PROVE  Alone'
  BY <1>7 DEF Acquired, Acquire, leaseVars, childVars, opVars, endVars, userVars
<1>8. ASSUME NEW t \in Task, AcquireGivesUp(t)
     PROVE  Alone'
  BY <1>8 DEF AcquireGivesUp, ResumeFails, childVars, opVars, endVars, saveVars
<1>9. ASSUME NEW t \in Task, NEW ok \in BOOLEAN, Repaired(t, ok)
     PROVE  Alone'
  BY <1>9 DEF Repaired, ResumeFails, leaseVars, childVars, opVars, endVars
<1>10. ASSUME NEW t \in Task, NEW ok \in BOOLEAN, Revived(t, ok)
     PROVE  Alone'
  BY <1>10 DEF Revived, ResumeFails, leaseVars, FinishTerminal, StopWork,
      FinishInterrupted, BeginOperation
<1>11. ASSUME NEW t \in Task, NEW ok \in BOOLEAN, Begun(t, ok)
     PROVE  Alone'
  BY <1>11 DEF Begun, FinishTerminal, StopWork, FinishInterrupted, DriveInterruption,
      PromptFailure, lifeVars, leaseVars, userVars
<1>12. ASSUME NEW t \in Task, PromptSettles(t)
     PROVE  Alone'
  BY <1>12 DEF PromptSettles, FinishInterrupted, lifeVars, childVars, leaseVars,
      opVars, userVars
<1>13. ASSUME NEW t \in Task, PromptRejects(t)
     PROVE  Alone'
  BY <1>13 DEF PromptRejects, PromptFailure, DriveInterruption, FinishTerminal,
      FinishInterrupted, StopWork, lifeVars, childVars, leaseVars, opVars,
      saveVars, userVars
<1>14. ASSUME NEW t \in Task, NEW ok \in BOOLEAN, OperationSettled(t, ok)
     PROVE  Alone'
  BY <1>14 DEF OperationSettled, FinishTerminal, StopWork, FinishInterrupted,
      DriveInterruption, leaseVars, opVars, userVars
<1>15. ASSUME NEW t \in Task, NEW ok \in BOOLEAN, QuestionChecked(t, ok)
     PROVE  Alone'
  BY <1>15 DEF QuestionChecked, WorkspaceChecked, FinalizeInterrupted, childVars,
      leaseVars, opVars, endVars, userVars
<1>16. ASSUME NEW t \in Task, NEW ok \in BOOLEAN, QuestionSaved(t, ok)
     PROVE  Alone'
  BY <1>16 DEF QuestionSaved, FinalizeInterrupted, leaseVars, childVars, opVars,
      endVars, userVars
<1>17. ASSUME NEW t \in Task, InterruptChecked(t)
     PROVE  Alone'
  BY <1>17 DEF InterruptChecked, FinalizeInterrupted, childVars, leaseVars, opVars,
      endVars, userVars
<1>18. ASSUME NEW t \in Task, NEW ok \in BOOLEAN, InterruptSaved(t, ok)
     PROVE  Alone'
  BY <1>18 DEF InterruptSaved, CompletionEnds, lifeVars, childVars, opVars, userVars
<1>19. ASSUME NEW t \in Task, NEW ok \in BOOLEAN, TerminalChecked(t, ok)
     PROVE  Alone'
  BY <1>19 DEF TerminalChecked, WorkspaceChecked, FinalizeInterrupted, RemoveRun,
      childVars, leaseVars, opVars, userVars
<1>20. ASSUME NEW t \in Task, NEW ok \in BOOLEAN, ResultSaved(t, ok)
     PROVE  Alone'
  BY <1>20 DEF ResultSaved, CompletionEnds, childVars, opVars, userVars
<1>21. ASSUME NEW t \in Task, Unpending(t)
     PROVE  Alone'
  BY <1>21 DEF Unpending, leaseVars, childVars, lifeVars, opVars, endVars, userVars
<1>22. ASSUME NEW t \in Task, NEW ok \in BOOLEAN, Buried(t, ok)
     PROVE  Alone'
  BY <1>22 DEF Buried, CompletionEnds, lifeVars, opVars, userVars
<1>23. ASSUME NEW t \in Task, Joined(t)
     PROVE  Alone'
  BY <1>23 DEF Joined, lifeVars, childVars, leaseVars, opVars, endVars, saveVars,
      userVars
<1>24. ASSUME NEW t \in Task, WorkReturns(t)
     PROVE  Alone'
  BY <1>24 DEF WorkReturns, leaseVars, childVars, endVars, saveVars
<1>25. ASSUME NEW t \in Task, NEW byTool \in BOOLEAN, Cancel(t, byTool)
     PROVE  Alone'
  BY <1>25, CancelMoves, CancelFinds DEF FinishTerminal
<1>26. ASSUME NEW t \in Task, Halted(t)
     PROVE  Alone'
  BY <1>26 DEF Halted, FinishTerminal, lifeVars, childVars, leaseVars, opVars,
      saveVars, userVars, Ready, Over
<1>27. ASSUME NEW t \in Task, CancelReturns(t)
     PROVE  Alone'
  BY <1>27 DEF CancelReturns, RemoveRun, childVars, leaseVars, opVars, saveVars
<1>28. ASSUME NEW t \in Task, Collect(t)
     PROVE  Alone'
  BY <1>28, CollectMoves
<1>29. ASSUME NEW t \in Task, CollectReturns(t)
     PROVE  Alone'
  BY <1>29 DEF CollectReturns, lifeVars, childVars, leaseVars, opVars, saveVars
<1>30. ASSUME NEW t \in Task, Shutdown(t)
     PROVE  Alone'
  BY <1>30 DEF Shutdown
<1>31. ASSUME NEW t \in Task, SetupDrained(t)
     PROVE  Alone'
  BY <1>31 DEF SetupDrained, lifeVars, leaseVars, opVars, endVars, saveVars, userVars
<1>32. ASSUME NEW t \in Task, OperationDrained(t)
     PROVE  Alone'
  BY <1>32 DEF OperationDrained, RemoveRun, FinishInterrupted, childVars, leaseVars,
      opVars, userVars
<1>33. ASSUME NEW t \in Task, NEW ok \in BOOLEAN, Preserved(t, ok)
     PROVE  Alone'
  BY <1>33 DEF Preserved, RemoveRun, leaseVars, opVars, userVars
<1>34. ASSUME NEW t \in Task, ShutdownReturns(t)
     PROVE  Alone'
  BY <1>34 DEF ShutdownReturns, RemoveRun, childVars, leaseVars, opVars, saveVars,
      userVars
<1>35. ASSUME NEW t \in Task, Signal(t)
     PROVE  Alone'
  BY <1>35 DEF Signal, lifeVars, leaseVars, opVars, endVars, saveVars, taskVars
<1>36. ASSUME Detach
     PROVE  Alone'
  BY <1>36 DEF Detach, childVars, leaseVars, endVars, saveVars, taskVars
<1>37. ASSUME LoseLease
     PROVE  Alone'
  BY <1>37 DEF LoseLease, lifeVars, opVars, endVars, taskVars, userVars
<1>38. ASSUME OtherTakes
     PROVE  Alone'
  BY <1>38 DEF OtherTakes, lifeVars, childVars, opVars, endVars, saveVars, taskVars,
      userVars
<1>39. ASSUME OtherReleases
     PROVE  Alone'
  BY <1>39 DEF OtherReleases, lifeVars, childVars, opVars, endVars, saveVars,
      taskVars, userVars
<1> HIDE DEF StateInv, TaskTypes, ValueTypes, RunTypes, OneSettles, OpenInv, At,
           Placed, NotYet, Alone, ToolWaits, Busy, Works, Settling, WorkSteps,
           CancelSteps, ShutdownSteps, Goto, Active, Parked
<1> QED
  BY <1>1, <1>2, <1>3, <1>4, <1>5, <1>6, <1>7, <1>8, <1>9, <1>10, <1>11,
      <1>12, <1>13, <1>14, <1>15, <1>16, <1>17, <1>18, <1>19, <1>20, <1>21,
      <1>22, <1>23, <1>24, <1>25, <1>26, <1>27, <1>28, <1>29, <1>30, <1>31,
      <1>32, <1>33, <1>34, <1>35, <1>36, <1>37, <1>38, <1>39
      DEF Next, SaveCompletes, WorkspaceCompletes, Reacts, Called

(* The agent tool waits for a foreground call, and nobody else uses it. *)
LEMMA StepTool ==
  ASSUME SerialParent, StateInv, OneSettles, OpenInv, ~closing', Next
  PROVE  ToolWaits'
<1> USE Distinct
DEF StateInv, TaskTypes, ValueTypes, RunTypes, OpenInv, At, Placed, NotYet,
           Alone, ToolWaits, Busy, Works, WorkSteps, CancelSteps, ShutdownSteps,
           Goto
<1>1. ASSUME NEW t \in Task, NEW inBackground \in BOOLEAN, Start(t, inBackground)
     PROVE  ToolWaits'
  BY <1>1, StartMoves
<1>2. ASSUME NEW t \in Task, NEW ok \in BOOLEAN, Reserved(t, ok)
     PROVE  ToolWaits'
  BY <1>2 DEF Reserved, Acquire, childVars, leaseVars
<1>3. ASSUME NEW t \in Task, ChildCreated(t)
     PROVE  ToolWaits'
  BY <1>3 DEF ChildCreated, lifeVars, leaseVars, opVars, endVars, userVars
<1>4. ASSUME NEW t \in Task, ChildFailed(t)
     PROVE  ToolWaits'
  BY <1>4 DEF ChildFailed, FinishTerminal, lifeVars, childVars, leaseVars, opVars,
      saveVars, userVars
<1>5. ASSUME NEW t \in Task, NEW ok \in BOOLEAN, Adopted(t, ok)
     PROVE  ToolWaits'
  BY <1>5 DEF Adopted, FinishTerminal, StopWork, FinishInterrupted, BeginOperation,
      leaseVars, userVars
<1>6. ASSUME NEW t \in Task, NEW byTool \in BOOLEAN, Resume(t, byTool)
     PROVE  ToolWaits'
  BY <1>6, ResumeMoves
<1>7. ASSUME NEW t \in Task, Acquired(t)
     PROVE  ToolWaits'
  BY <1>7 DEF Acquired, Acquire, leaseVars, childVars, opVars, endVars, userVars
<1>8. ASSUME NEW t \in Task, AcquireGivesUp(t)
     PROVE  ToolWaits'
  BY <1>8 DEF AcquireGivesUp, ResumeFails, childVars, opVars, endVars, saveVars
<1>9. ASSUME NEW t \in Task, NEW ok \in BOOLEAN, Repaired(t, ok)
     PROVE  ToolWaits'
  BY <1>9 DEF Repaired, ResumeFails, leaseVars, childVars, opVars, endVars
<1>10. ASSUME NEW t \in Task, NEW ok \in BOOLEAN, Revived(t, ok)
     PROVE  ToolWaits'
  BY <1>10 DEF Revived, ResumeFails, leaseVars, FinishTerminal, StopWork,
      FinishInterrupted, BeginOperation
<1>11. ASSUME NEW t \in Task, NEW ok \in BOOLEAN, Begun(t, ok)
     PROVE  ToolWaits'
  BY <1>11 DEF Begun, FinishTerminal, StopWork, FinishInterrupted, DriveInterruption,
      PromptFailure, lifeVars, leaseVars, userVars
<1>12. ASSUME NEW t \in Task, PromptSettles(t)
     PROVE  ToolWaits'
  BY <1>12 DEF PromptSettles, FinishInterrupted, lifeVars, childVars, leaseVars,
      opVars, userVars
<1>13. ASSUME NEW t \in Task, PromptRejects(t)
     PROVE  ToolWaits'
  BY <1>13 DEF PromptRejects, PromptFailure, DriveInterruption, FinishTerminal,
      FinishInterrupted, StopWork, lifeVars, childVars, leaseVars, opVars,
      saveVars, userVars
<1>14. ASSUME NEW t \in Task, NEW ok \in BOOLEAN, OperationSettled(t, ok)
     PROVE  ToolWaits'
  BY <1>14 DEF OperationSettled, FinishTerminal, StopWork, FinishInterrupted,
      DriveInterruption, leaseVars, opVars, userVars
<1>15. ASSUME NEW t \in Task, NEW ok \in BOOLEAN, QuestionChecked(t, ok)
     PROVE  ToolWaits'
  BY <1>15 DEF QuestionChecked, WorkspaceChecked, FinalizeInterrupted, childVars,
      leaseVars, opVars, endVars, userVars
<1>16. ASSUME NEW t \in Task, NEW ok \in BOOLEAN, QuestionSaved(t, ok)
     PROVE  ToolWaits'
  BY <1>16 DEF QuestionSaved, FinalizeInterrupted, leaseVars, childVars, opVars,
      endVars, userVars
<1>17. ASSUME NEW t \in Task, InterruptChecked(t)
     PROVE  ToolWaits'
  BY <1>17 DEF InterruptChecked, FinalizeInterrupted, childVars, leaseVars, opVars,
      endVars, userVars
<1>18. ASSUME NEW t \in Task, NEW ok \in BOOLEAN, InterruptSaved(t, ok)
     PROVE  ToolWaits'
  BY <1>18 DEF InterruptSaved, CompletionEnds, lifeVars, childVars, opVars, userVars
<1>19. ASSUME NEW t \in Task, NEW ok \in BOOLEAN, TerminalChecked(t, ok)
     PROVE  ToolWaits'
  BY <1>19 DEF TerminalChecked, WorkspaceChecked, FinalizeInterrupted, RemoveRun,
      childVars, leaseVars, opVars, userVars
<1>20. ASSUME NEW t \in Task, NEW ok \in BOOLEAN, ResultSaved(t, ok)
     PROVE  ToolWaits'
  BY <1>20 DEF ResultSaved, CompletionEnds, childVars, opVars, userVars
<1>21. ASSUME NEW t \in Task, Unpending(t)
     PROVE  ToolWaits'
  BY <1>21 DEF Unpending, leaseVars, childVars, lifeVars, opVars, endVars, userVars
<1>22. ASSUME NEW t \in Task, NEW ok \in BOOLEAN, Buried(t, ok)
     PROVE  ToolWaits'
  BY <1>22 DEF Buried, CompletionEnds, lifeVars, opVars, userVars
<1>23. ASSUME NEW t \in Task, Joined(t)
     PROVE  ToolWaits'
  BY <1>23 DEF Joined, lifeVars, childVars, leaseVars, opVars, endVars, saveVars,
      userVars
<1>24. ASSUME NEW t \in Task, WorkReturns(t)
     PROVE  ToolWaits'
  BY <1>24 DEF WorkReturns, leaseVars, childVars, endVars, saveVars
<1>25. ASSUME NEW t \in Task, NEW byTool \in BOOLEAN, Cancel(t, byTool)
     PROVE  ToolWaits'
  BY <1>25, CancelMoves, CancelFinds DEF FinishTerminal
<1>26. ASSUME NEW t \in Task, Halted(t)
     PROVE  ToolWaits'
  BY <1>26 DEF Halted, FinishTerminal, lifeVars, childVars, leaseVars, opVars,
      saveVars, userVars
<1>27. ASSUME NEW t \in Task, CancelReturns(t)
     PROVE  ToolWaits'
  BY <1>27 DEF CancelReturns, RemoveRun, childVars, leaseVars, opVars, saveVars
<1>28. ASSUME NEW t \in Task, Collect(t)
     PROVE  ToolWaits'
  BY <1>28, CollectMoves
<1>29. ASSUME NEW t \in Task, CollectReturns(t)
     PROVE  ToolWaits'
  BY <1>29 DEF CollectReturns, lifeVars, childVars, leaseVars, opVars, saveVars
<1>30. ASSUME NEW t \in Task, Shutdown(t)
     PROVE  ToolWaits'
  BY <1>30 DEF Shutdown
<1>31. ASSUME NEW t \in Task, SetupDrained(t)
     PROVE  ToolWaits'
  BY <1>31 DEF SetupDrained, lifeVars, leaseVars, opVars, endVars, saveVars, userVars
<1>32. ASSUME NEW t \in Task, OperationDrained(t)
     PROVE  ToolWaits'
  BY <1>32 DEF OperationDrained, RemoveRun, FinishInterrupted, childVars, leaseVars,
      opVars, userVars
<1>33. ASSUME NEW t \in Task, NEW ok \in BOOLEAN, Preserved(t, ok)
     PROVE  ToolWaits'
  BY <1>33 DEF Preserved, RemoveRun, leaseVars, opVars, userVars
<1>34. ASSUME NEW t \in Task, ShutdownReturns(t)
     PROVE  ToolWaits'
  BY <1>34 DEF ShutdownReturns, RemoveRun, childVars, leaseVars, opVars, saveVars,
      userVars
<1>35. ASSUME NEW t \in Task, Signal(t)
     PROVE  ToolWaits'
  BY <1>35 DEF Signal, lifeVars, leaseVars, opVars, endVars, saveVars, taskVars
<1>36. ASSUME Detach
     PROVE  ToolWaits'
  BY <1>36 DEF Detach, childVars, leaseVars, endVars, saveVars, taskVars
<1>37. ASSUME LoseLease
     PROVE  ToolWaits'
  BY <1>37 DEF LoseLease, lifeVars, opVars, endVars, taskVars, userVars
<1>38. ASSUME OtherTakes
     PROVE  ToolWaits'
  BY <1>38 DEF OtherTakes, lifeVars, childVars, opVars, endVars, saveVars, taskVars,
      userVars
<1>39. ASSUME OtherReleases
     PROVE  ToolWaits'
  BY <1>39 DEF OtherReleases, lifeVars, childVars, opVars, endVars, saveVars,
      taskVars, userVars
<1> HIDE DEF StateInv, TaskTypes, ValueTypes, RunTypes, OpenInv, At, Placed, NotYet,
           Alone, ToolWaits, Busy, Works, WorkSteps, CancelSteps, ShutdownSteps,
           Goto
<1> QED
  BY <1>1, <1>2, <1>3, <1>4, <1>5, <1>6, <1>7, <1>8, <1>9, <1>10, <1>11,
      <1>12, <1>13, <1>14, <1>15, <1>16, <1>17, <1>18, <1>19, <1>20, <1>21,
      <1>22, <1>23, <1>24, <1>25, <1>26, <1>27, <1>28, <1>29, <1>30, <1>31,
      <1>32, <1>33, <1>34, <1>35, <1>36, <1>37, <1>38, <1>39
      DEF Next, SaveCompletes, WorkspaceCompletes, Reacts, Called

(* Only the busy call changes the status. *)
LEMMA StepStaged ==
  ASSUME SerialParent, StateInv, OneSettles, OpenInv, ~closing', Next
  PROVE  Staged'
<1> USE Distinct DEF StateInv, TaskTypes, ValueTypes, OneSettles, OpenInv, At, Placed,
           NotYet, Wanted, Alone, Staged, Busy, Works, Settling, WorkSteps,
           CancelSteps, ShutdownSteps, Goto, Active, Parked, Terminal
<1>1. ASSUME NEW t \in Task, NEW inBackground \in BOOLEAN, Start(t, inBackground)
     PROVE  Staged'
  BY <1>1, StartMoves
<1>2. ASSUME NEW t \in Task, NEW ok \in BOOLEAN, Reserved(t, ok)
     PROVE  Staged'
  BY <1>2 DEF Reserved, Acquire, childVars, leaseVars
<1>3. ASSUME NEW t \in Task, ChildCreated(t)
     PROVE  Staged'
  BY <1>3 DEF ChildCreated, lifeVars, leaseVars, opVars, endVars, userVars
<1>4. ASSUME NEW t \in Task, ChildFailed(t)
     PROVE  Staged'
  BY <1>4 DEF ChildFailed, FinishTerminal, lifeVars, childVars, leaseVars, opVars,
      saveVars, userVars
<1>5. ASSUME NEW t \in Task, NEW ok \in BOOLEAN, Adopted(t, ok)
     PROVE  Staged'
  BY <1>5 DEF Adopted, FinishTerminal, StopWork, FinishInterrupted, BeginOperation,
      leaseVars, userVars
<1>6. ASSUME NEW t \in Task, NEW byTool \in BOOLEAN, Resume(t, byTool)
     PROVE  Staged'
  BY <1>6, ResumeMoves
<1>7. ASSUME NEW t \in Task, Acquired(t)
     PROVE  Staged'
  BY <1>7 DEF Acquired, Acquire, leaseVars, childVars, opVars, endVars, userVars
<1>8. ASSUME NEW t \in Task, AcquireGivesUp(t)
     PROVE  Staged'
  BY <1>8 DEF AcquireGivesUp, ResumeFails, childVars, opVars, endVars, saveVars
<1>9. ASSUME NEW t \in Task, NEW ok \in BOOLEAN, Repaired(t, ok)
     PROVE  Staged'
  BY <1>9 DEF Repaired, ResumeFails, leaseVars, childVars, opVars, endVars
<1>10. ASSUME NEW t \in Task, NEW ok \in BOOLEAN, Revived(t, ok)
     PROVE  Staged'
  BY <1>10 DEF Revived, ResumeFails, leaseVars, FinishTerminal, StopWork,
      FinishInterrupted, BeginOperation
<1>11. ASSUME NEW t \in Task, NEW ok \in BOOLEAN, Begun(t, ok)
     PROVE  Staged'
  BY <1>11 DEF Begun, FinishTerminal, StopWork, FinishInterrupted, DriveInterruption,
      PromptFailure, lifeVars, leaseVars, userVars
<1>12. ASSUME NEW t \in Task, PromptSettles(t)
     PROVE  Staged'
  BY <1>12 DEF PromptSettles, FinishInterrupted, lifeVars, childVars, leaseVars,
      opVars, userVars
<1>13. ASSUME NEW t \in Task, PromptRejects(t)
     PROVE  Staged'
  BY <1>13 DEF PromptRejects, PromptFailure, DriveInterruption, FinishTerminal,
      FinishInterrupted, StopWork, lifeVars, childVars, leaseVars, opVars,
      saveVars, userVars
<1>14. ASSUME NEW t \in Task, NEW ok \in BOOLEAN, OperationSettled(t, ok)
     PROVE  Staged'
  BY <1>14 DEF OperationSettled, FinishTerminal, StopWork, FinishInterrupted,
      DriveInterruption, leaseVars, opVars, userVars
<1>15. ASSUME NEW t \in Task, NEW ok \in BOOLEAN, QuestionChecked(t, ok)
     PROVE  Staged'
  BY <1>15 DEF QuestionChecked, WorkspaceChecked, FinalizeInterrupted, childVars,
      leaseVars, opVars, endVars, userVars
<1>16. ASSUME NEW t \in Task, NEW ok \in BOOLEAN, QuestionSaved(t, ok)
     PROVE  Staged'
  BY <1>16 DEF QuestionSaved, FinalizeInterrupted, leaseVars, childVars, opVars,
      endVars, userVars
<1>17. ASSUME NEW t \in Task, InterruptChecked(t)
     PROVE  Staged'
  BY <1>17 DEF InterruptChecked, FinalizeInterrupted, childVars, leaseVars, opVars,
      endVars, userVars
<1>18. ASSUME NEW t \in Task, NEW ok \in BOOLEAN, InterruptSaved(t, ok)
     PROVE  Staged'
  BY <1>18 DEF InterruptSaved, CompletionEnds, lifeVars, childVars, opVars, userVars
<1>19. ASSUME NEW t \in Task, NEW ok \in BOOLEAN, TerminalChecked(t, ok)
     PROVE  Staged'
  BY <1>19 DEF TerminalChecked, WorkspaceChecked, FinalizeInterrupted, RemoveRun,
      childVars, leaseVars, opVars, userVars
<1>20. ASSUME NEW t \in Task, NEW ok \in BOOLEAN, ResultSaved(t, ok)
     PROVE  Staged'
  BY <1>20 DEF ResultSaved, CompletionEnds, childVars, opVars, userVars
<1>21. ASSUME NEW t \in Task, Unpending(t)
     PROVE  Staged'
  BY <1>21 DEF Unpending, leaseVars, childVars, lifeVars, opVars, endVars, userVars
<1>22. ASSUME NEW t \in Task, NEW ok \in BOOLEAN, Buried(t, ok)
     PROVE  Staged'
  BY <1>22 DEF Buried, CompletionEnds, lifeVars, opVars, userVars
<1>23. ASSUME NEW t \in Task, Joined(t)
     PROVE  Staged'
  BY <1>23 DEF Joined, lifeVars, childVars, leaseVars, opVars, endVars, saveVars,
      userVars
<1>24. ASSUME NEW t \in Task, WorkReturns(t)
     PROVE  Staged'
  BY <1>24 DEF WorkReturns, leaseVars, childVars, endVars, saveVars
<1>25. ASSUME NEW t \in Task, NEW byTool \in BOOLEAN, Cancel(t, byTool)
     PROVE  Staged'
  BY <1>25, CancelMoves, CancelFinds DEF FinishTerminal
<1>26. ASSUME NEW t \in Task, Halted(t)
     PROVE  Staged'
  BY <1>26 DEF Halted, FinishTerminal, lifeVars, childVars, leaseVars, opVars,
      saveVars, userVars
<1>27. ASSUME NEW t \in Task, CancelReturns(t)
     PROVE  Staged'
  BY <1>27 DEF CancelReturns, RemoveRun, childVars, leaseVars, opVars, saveVars
<1>28. ASSUME NEW t \in Task, Collect(t)
     PROVE  Staged'
  BY <1>28, CollectMoves
<1>29. ASSUME NEW t \in Task, CollectReturns(t)
     PROVE  Staged'
  BY <1>29 DEF CollectReturns, lifeVars, childVars, leaseVars, opVars, saveVars
<1>30. ASSUME NEW t \in Task, Shutdown(t)
     PROVE  Staged'
  BY <1>30 DEF Shutdown
<1>31. ASSUME NEW t \in Task, SetupDrained(t)
     PROVE  Staged'
  BY <1>31 DEF SetupDrained, lifeVars, leaseVars, opVars, endVars, saveVars, userVars
<1>32. ASSUME NEW t \in Task, OperationDrained(t)
     PROVE  Staged'
  BY <1>32 DEF OperationDrained, RemoveRun, FinishInterrupted, childVars, leaseVars,
      opVars, userVars
<1>33. ASSUME NEW t \in Task, NEW ok \in BOOLEAN, Preserved(t, ok)
     PROVE  Staged'
  BY <1>33 DEF Preserved, RemoveRun, leaseVars, opVars, userVars
<1>34. ASSUME NEW t \in Task, ShutdownReturns(t)
     PROVE  Staged'
  BY <1>34 DEF ShutdownReturns, RemoveRun, childVars, leaseVars, opVars, saveVars,
      userVars
<1>35. ASSUME NEW t \in Task, Signal(t)
     PROVE  Staged'
  BY <1>35 DEF Signal, lifeVars, leaseVars, opVars, endVars, saveVars, taskVars
<1>36. ASSUME Detach
     PROVE  Staged'
  BY <1>36 DEF Detach, childVars, leaseVars, endVars, saveVars, taskVars
<1>37. ASSUME LoseLease
     PROVE  Staged'
  BY <1>37 DEF LoseLease, lifeVars, opVars, endVars, taskVars, userVars
<1>38. ASSUME OtherTakes
     PROVE  Staged'
  BY <1>38 DEF OtherTakes, lifeVars, childVars, opVars, endVars, saveVars, taskVars,
      userVars
<1>39. ASSUME OtherReleases
     PROVE  Staged'
  BY <1>39 DEF OtherReleases, lifeVars, childVars, opVars, endVars, saveVars,
      taskVars, userVars
<1> HIDE DEF StateInv, TaskTypes, ValueTypes, OneSettles, OpenInv, At, Placed,
           NotYet, Wanted, Alone, Staged, Busy, Works, Settling, WorkSteps,
           CancelSteps, ShutdownSteps, Goto, Active, Parked, Terminal
<1> QED
  BY <1>1, <1>2, <1>3, <1>4, <1>5, <1>6, <1>7, <1>8, <1>9, <1>10, <1>11,
      <1>12, <1>13, <1>14, <1>15, <1>16, <1>17, <1>18, <1>19, <1>20, <1>21,
      <1>22, <1>23, <1>24, <1>25, <1>26, <1>27, <1>28, <1>29, <1>30, <1>31,
      <1>32, <1>33, <1>34, <1>35, <1>36, <1>37, <1>38, <1>39
      DEF Next, SaveCompletes, WorkspaceCompletes, Reacts, Called

-----------------------------------------------------------------------------
(* One write at a time. *)

(* A queue in which one call writes has one entry. *)
LEMMA OneEntry ==
  ASSUME NEW q \in Seq(Write), NEW p, Matches(q, p),
         NEW t \in Task, p[t] \in Saving, \A u \in Task : p[u] \in Saving => u = t
  PROVE  DOMAIN q = {1} /\ q = <<q[1]>> /\ q[1].task = t
<1>1. \A i \in DOMAIN q : q[i] \in Write
  OBVIOUS
<1>2. \A i \in DOMAIN q : q[i].task = t
  BY <1>1 DEF Matches, Write
<1>3. \E i \in DOMAIN q : q[i].task = t
  BY DEF Matches
<1>4. \A i, j \in DOMAIN q : i = j
  BY <1>2 DEF Matches
<1>5. Len(q) \in Nat /\ DOMAIN q = 1..Len(q)
  OBVIOUS
<1>6. Len(q) = 1
  <2>1. Len(q) # 0
    BY <1>3, <1>5
  <2>2. Len(q) > 1 => 1 \in DOMAIN q /\ 2 \in DOMAIN q
    BY <1>5
  <2> QED BY <1>4, <1>5, <2>1, <2>2
<1>7. DOMAIN q = {1}
  BY <1>5, <1>6
<1>8. q = <<q[1]>>
  BY <1>6
<1> QED BY <1>2, <1>7, <1>8

LEMMA NoEntry ==
  ASSUME NEW q \in Seq(Write), \A i \in DOMAIN q : FALSE
  PROVE  q = <<>>
<1>1. Len(q) \in Nat /\ DOMAIN q = 1..Len(q)
  OBVIOUS
<1>2. Len(q) # 0 => 1 \in DOMAIN q
  BY <1>1
<1>3. Len(q) = 0
  BY <1>2
<1> QED BY <1>3

LEMMA OneWrite ==
  ASSUME StateInv, Alone, NEW t \in Task, pc[t] \in Saving
  PROVE  /\ DOMAIN queue = {1} /\ queue = <<queue[1]>> /\ queue[1].task = t
         /\ Entry(t) = 1 /\ Rest(t) = <<>>
<1>1. queue \in Seq(Write) /\ Writes
  BY DEF StateInv
<1>2. \A u \in Task : pc[u] \in Saving => u = t
  BY DEF Alone, Busy, Saving
<1>3. DOMAIN queue = {1} /\ queue = <<queue[1]>> /\ queue[1].task = t
  BY <1>1, <1>2, OneEntry DEF Writes
<1>4. Entry(t) = 1
  BY <1>1, <1>3, EntryFound
<1>5. Rest(t) \in Seq(Write) /\ MatchesBut(Rest(t), pc, t)
  BY <1>1, RestMatches
<1>6. \A i \in DOMAIN Rest(t) : Rest(t)[i] \in Write
  BY <1>5
<1>7. \A i \in DOMAIN Rest(t) : FALSE
  BY <1>2, <1>5, <1>6 DEF MatchesBut, Write
<1>8. Rest(t) = <<>>
  BY <1>5, <1>7, NoEntry
<1> QED BY <1>3, <1>4, <1>8

LEMMA NoWrite ==
  ASSUME StateInv, \A t \in Task : pc[t] \notin Saving
  PROVE  queue = <<>>
<1>1. queue \in Seq(Write) /\ Writes
  BY DEF StateInv
<1>2. \A i \in DOMAIN queue : queue[i] \in Write
  BY <1>1
<1>3. \A i \in DOMAIN queue : FALSE
  BY <1>1, <1>2 DEF Writes, Matches, Write
<1> QED BY <1>1, <1>3, NoEntry

LEMMA SaveFaults ==
  ASSUME NEW t \in Task, NEW ok \in BOOLEAN, SaveEnds(t, ok)
  PROVE  faults \subseteq faults'
BY DEF SaveEnds, Fault

LEMMA WorkspaceFaults ==
  ASSUME NEW ok \in BOOLEAN, WorkspaceChecked(ok)
  PROVE  faults \subseteq faults' /\ (ok => faults' = faults) /\ (~ok => faults' # {})
BY DEF WorkspaceChecked, Fault

(* A save leaves on disk what was written, or a fault behind it. *)
LEMMA OpenSave ==
  ASSUME StateInv, Alone, Content, NEW t \in Task, pc[t] \in Saving,
         NEW ok \in BOOLEAN, SaveEnds(t, ok)
  PROVE  /\ ok => durable' \in Written(t) /\ faults' = faults
         /\ ~ok => durable' = durable /\ faults' # {}
<1>1. Entry(t) = 1 /\ queue[1].task = t /\ 1 \in DOMAIN queue
  BY OneWrite
<1>2. queue[1].status \in Written(t) /\ (queue[1].refused => faults # {})
  BY <1>1 DEF Content
<1> QED BY <1>1, <1>2 DEF SaveEnds, Fault

(* What a step writes, and what it leaves of what was written. *)
WrittenSteps ==
  /\ \A t \in Task : pc'[t] # pc[t] =>
       /\ pc'[t] \in Saving =>
            \E s \in Written(t)' :
              queue' = Saved(IF pc[t] \in Saving THEN Rest(t) ELSE queue, t, s)
       /\ outcome' = outcome \/ pc[t] \in {"finish", "retain"}
  /\ pc' = pc => outcome' = outcome

FaultSteps ==
  /\ faults \subseteq faults'
  /\ lost' => lost \/ "lease" \in faults'

SaveSteps ==
  \/ durable' = durable
  \/ \E t \in Task, ok \in BOOLEAN : pc[t] \in Saving /\ SaveEnds(t, ok)

(* A write tells the status the run then has. *)
LEMMA StepWritten ==
  ASSUME SerialParent, StateInv, OneSettles, OpenInv, ~closing', Next
  PROVE  WrittenSteps
<1> USE Distinct
DEF StateInv, TaskTypes, ValueTypes, OpenInv, Staged, At, Placed, Alone,
           Wanted, Written, WrittenSteps, Goto, Active, Parked, Terminal, Saving,
           WorkSteps, CancelSteps, ShutdownSteps
<1>1. ASSUME NEW t \in Task, NEW inBackground \in BOOLEAN, Start(t, inBackground)
     PROVE  WrittenSteps
  BY <1>1, StartMoves
<1>2. ASSUME NEW t \in Task, NEW ok \in BOOLEAN, Reserved(t, ok)
     PROVE  WrittenSteps
  BY <1>2 DEF Reserved, Acquire, childVars, leaseVars
<1>3. ASSUME NEW t \in Task, ChildCreated(t)
     PROVE  WrittenSteps
  BY <1>3 DEF ChildCreated, lifeVars, leaseVars, opVars, endVars, userVars
<1>4. ASSUME NEW t \in Task, ChildFailed(t)
     PROVE  WrittenSteps
  BY <1>4 DEF ChildFailed, FinishTerminal, lifeVars, childVars, leaseVars, opVars,
      saveVars, userVars
<1>5. ASSUME NEW t \in Task, NEW ok \in BOOLEAN, Adopted(t, ok)
     PROVE  WrittenSteps
  BY <1>5 DEF Adopted, FinishTerminal, StopWork, FinishInterrupted, BeginOperation,
      leaseVars, userVars
<1>6. ASSUME NEW t \in Task, NEW byTool \in BOOLEAN, Resume(t, byTool)
     PROVE  WrittenSteps
  BY <1>6, ResumeMoves
<1>7. ASSUME NEW t \in Task, Acquired(t)
     PROVE  WrittenSteps
  BY <1>7 DEF Acquired, Acquire, leaseVars, childVars, opVars, endVars, userVars
<1>8. ASSUME NEW t \in Task, AcquireGivesUp(t)
     PROVE  WrittenSteps
  BY <1>8 DEF AcquireGivesUp, ResumeFails, childVars, opVars, endVars, saveVars
<1>9. ASSUME NEW t \in Task, NEW ok \in BOOLEAN, Repaired(t, ok)
     PROVE  WrittenSteps
  BY <1>9 DEF Repaired, ResumeFails, leaseVars, childVars, opVars, endVars
<1>10. ASSUME NEW t \in Task, NEW ok \in BOOLEAN, Revived(t, ok)
     PROVE  WrittenSteps
  BY <1>10 DEF Revived, ResumeFails, leaseVars, FinishTerminal, StopWork,
      FinishInterrupted, BeginOperation
<1>11. ASSUME NEW t \in Task, NEW ok \in BOOLEAN, Begun(t, ok)
     PROVE  WrittenSteps
  BY <1>11 DEF Begun, FinishTerminal, StopWork, FinishInterrupted, DriveInterruption,
      PromptFailure, lifeVars, leaseVars, userVars
<1>12. ASSUME NEW t \in Task, PromptSettles(t)
     PROVE  WrittenSteps
  BY <1>12 DEF PromptSettles, FinishInterrupted, lifeVars, childVars, leaseVars,
      opVars, userVars
<1>13. ASSUME NEW t \in Task, PromptRejects(t)
     PROVE  WrittenSteps
  BY <1>13 DEF PromptRejects, PromptFailure, DriveInterruption, FinishTerminal,
      FinishInterrupted, StopWork, lifeVars, childVars, leaseVars, opVars,
      saveVars, userVars
<1>14. ASSUME NEW t \in Task, NEW ok \in BOOLEAN, OperationSettled(t, ok)
     PROVE  WrittenSteps
  BY <1>14 DEF OperationSettled, FinishTerminal, StopWork, FinishInterrupted,
      DriveInterruption, leaseVars, opVars, userVars
<1>15. ASSUME NEW t \in Task, NEW ok \in BOOLEAN, QuestionChecked(t, ok)
     PROVE  WrittenSteps
  BY <1>15 DEF QuestionChecked, WorkspaceChecked, FinalizeInterrupted, childVars,
      leaseVars, opVars, endVars, userVars
<1>16. ASSUME NEW t \in Task, NEW ok \in BOOLEAN, QuestionSaved(t, ok)
     PROVE  WrittenSteps
  BY <1>16 DEF QuestionSaved, FinalizeInterrupted, leaseVars, childVars, opVars,
      endVars, userVars
<1>17. ASSUME NEW t \in Task, InterruptChecked(t)
     PROVE  WrittenSteps
  BY <1>17 DEF InterruptChecked, FinalizeInterrupted, childVars, leaseVars, opVars,
      endVars, userVars
<1>18. ASSUME NEW t \in Task, NEW ok \in BOOLEAN, InterruptSaved(t, ok)
     PROVE  WrittenSteps
  BY <1>18 DEF InterruptSaved, CompletionEnds, lifeVars, childVars, opVars, userVars
<1>19. ASSUME NEW t \in Task, NEW ok \in BOOLEAN, TerminalChecked(t, ok)
     PROVE  WrittenSteps
  BY <1>19 DEF TerminalChecked, WorkspaceChecked, FinalizeInterrupted, RemoveRun,
      childVars, leaseVars, opVars, userVars
<1>20. ASSUME NEW t \in Task, NEW ok \in BOOLEAN, ResultSaved(t, ok)
     PROVE  WrittenSteps
  BY <1>20 DEF ResultSaved, CompletionEnds, childVars, opVars, userVars
<1>21. ASSUME NEW t \in Task, Unpending(t)
     PROVE  WrittenSteps
  BY <1>21 DEF Unpending, leaseVars, childVars, lifeVars, opVars, endVars, userVars
<1>22. ASSUME NEW t \in Task, NEW ok \in BOOLEAN, Buried(t, ok)
     PROVE  WrittenSteps
  BY <1>22 DEF Buried, CompletionEnds, lifeVars, opVars, userVars
<1>23. ASSUME NEW t \in Task, Joined(t)
     PROVE  WrittenSteps
  BY <1>23 DEF Joined, lifeVars, childVars, leaseVars, opVars, endVars, saveVars,
      userVars
<1>24. ASSUME NEW t \in Task, WorkReturns(t)
     PROVE  WrittenSteps
  BY <1>24 DEF WorkReturns, leaseVars, childVars, endVars, saveVars
<1>25. ASSUME NEW t \in Task, NEW byTool \in BOOLEAN, Cancel(t, byTool)
     PROVE  WrittenSteps
  BY <1>25, CancelMoves, CancelFinds DEF FinishTerminal
<1>26. ASSUME NEW t \in Task, Halted(t)
     PROVE  WrittenSteps
  BY <1>26 DEF Halted, FinishTerminal, lifeVars, childVars, leaseVars, opVars,
      saveVars, userVars
<1>27. ASSUME NEW t \in Task, CancelReturns(t)
     PROVE  WrittenSteps
  BY <1>27 DEF CancelReturns, RemoveRun, childVars, leaseVars, opVars, saveVars
<1>28. ASSUME NEW t \in Task, Collect(t)
     PROVE  WrittenSteps
  BY <1>28, CollectMoves
<1>29. ASSUME NEW t \in Task, CollectReturns(t)
     PROVE  WrittenSteps
  BY <1>29 DEF CollectReturns, lifeVars, childVars, leaseVars, opVars, saveVars
<1>30. ASSUME NEW t \in Task, Shutdown(t)
     PROVE  WrittenSteps
  BY <1>30 DEF Shutdown
<1>31. ASSUME NEW t \in Task, SetupDrained(t)
     PROVE  WrittenSteps
  BY <1>31 DEF SetupDrained, lifeVars, leaseVars, opVars, endVars, saveVars, userVars
<1>32. ASSUME NEW t \in Task, OperationDrained(t)
     PROVE  WrittenSteps
  BY <1>32 DEF OperationDrained, RemoveRun, FinishInterrupted, childVars, leaseVars,
      opVars, userVars
<1>33. ASSUME NEW t \in Task, NEW ok \in BOOLEAN, Preserved(t, ok)
     PROVE  WrittenSteps
  BY <1>33 DEF Preserved, RemoveRun, leaseVars, opVars, userVars
<1>34. ASSUME NEW t \in Task, ShutdownReturns(t)
     PROVE  WrittenSteps
  BY <1>34 DEF ShutdownReturns, RemoveRun, childVars, leaseVars, opVars, saveVars,
      userVars
<1>35. ASSUME NEW t \in Task, Signal(t)
     PROVE  WrittenSteps
  BY <1>35 DEF Signal, lifeVars, leaseVars, opVars, endVars, saveVars, taskVars
<1>36. ASSUME Detach
     PROVE  WrittenSteps
  BY <1>36 DEF Detach, childVars, leaseVars, endVars, saveVars, taskVars
<1>37. ASSUME LoseLease
     PROVE  WrittenSteps
  BY <1>37 DEF LoseLease, lifeVars, opVars, endVars, taskVars, userVars
<1>38. ASSUME OtherTakes
     PROVE  WrittenSteps
  BY <1>38 DEF OtherTakes, lifeVars, childVars, opVars, endVars, saveVars, taskVars,
      userVars
<1>39. ASSUME OtherReleases
     PROVE  WrittenSteps
  BY <1>39 DEF OtherReleases, lifeVars, childVars, opVars, endVars, saveVars,
      taskVars, userVars
<1> HIDE DEF StateInv, TaskTypes, ValueTypes, OpenInv, Staged, At, Placed, Alone,
           Wanted, Written, WrittenSteps, Goto, Active, Parked, Terminal, Saving,
           WorkSteps, CancelSteps, ShutdownSteps
<1> QED
  BY <1>1, <1>2, <1>3, <1>4, <1>5, <1>6, <1>7, <1>8, <1>9, <1>10, <1>11,
      <1>12, <1>13, <1>14, <1>15, <1>16, <1>17, <1>18, <1>19, <1>20, <1>21,
      <1>22, <1>23, <1>24, <1>25, <1>26, <1>27, <1>28, <1>29, <1>30, <1>31,
      <1>32, <1>33, <1>34, <1>35, <1>36, <1>37, <1>38, <1>39
      DEF Next, SaveCompletes, WorkspaceCompletes, Reacts, Called

LEMMA ContentKept ==
  ASSUME StateInv, StateInv', Alone, Alone', Content, WrittenSteps, FaultSteps,
         lost => lost', QueueStep
  PROVE  Content'
<1>1. lost' => "lease" \in faults'
  BY DEF Content, FaultSteps
<1>2. /\ queue \in Seq(Write) /\ Matches(queue, pc)
      /\ queue' \in Seq(Write) /\ Matches(queue', pc')
  BY DEF StateInv, Writes
<1>3. SUFFICES ASSUME NEW i \in DOMAIN queue'
               PROVE  /\ queue'[i].status \in Written(queue[i].task)'
                      /\ queue'[i].refused => lost'
  BY <1>1 DEF Content
<1>4. PICK u \in Task : queue'[i].task = u /\ pc'[u] \in Saving
  <2>1. queue'[i] \in Write
    BY <1>2
  <2> QED BY <1>2, <2>1 DEF Matches, Write
<1>5. \A v \in Task : pc'[v] \in Saving => v = u
  BY <1>4 DEF Alone, Busy, Saving
<1>6. DOMAIN queue' = {1} /\ queue' = <<queue'[1]>> /\ i = 1
  BY <1>2, <1>4, <1>5, OneEntry
<1>7. CASE pc' = pc /\ queue' = queue
  <2>1. outcome' = outcome
    BY <1>7 DEF WrittenSteps
  <2> QED BY <1>4, <1>7, <2>1 DEF Content, Written
<1>8. ASSUME NEW t \in Task, WriteStep(t)
      PROVE  /\ queue'[i].status \in Written(queue[i].task)'
             /\ queue'[i].refused => lost'
  <2>1. pc'[t] # pc[t] /\ \A v \in Task \ {t} : pc'[v] = pc[v]
    BY <1>8 DEF WriteStep, StateInv, TaskTypes
  <2>2. CASE u = t
    <3>1. PICK s \in Written(t)' :
            queue' = Saved(IF pc[t] \in Saving THEN Rest(t) ELSE queue, t, s)
      BY <1>4, <2>1, <2>2 DEF WrittenSteps
    <3>2. pc[t] \in Saving => Rest(t) = <<>>
      BY OneWrite
    <3>3. pc[t] \notin Saving => queue = <<>>
      BY <1>5, <2>1, <2>2, NoWrite
    <3>4. queue' = Saved(<<>>, t, s)
      BY <3>1, <3>2, <3>3
    <3>5. queue' = <<[task |-> t, status |-> s, refused |-> lost]>>
      BY <3>4 DEF Saved
    <3> QED BY <1>4, <1>6, <2>2, <3>1, <3>5
  <2>3. CASE u # t
    <3>1. pc[u] = pc'[u] /\ pc[u] \in Saving
      BY <1>4, <2>1, <2>3
    <3>2. pc[t] \notin {"finish", "retain"} /\ pc[t] \notin Saving /\ pc'[t] \notin Saving
      BY <1>4, <1>5, <2>3, <3>1 DEF Alone, Busy, Saving
    <3>3. queue' = queue /\ outcome' = outcome
      BY <1>8, <2>1, <3>2 DEF WriteStep, WrittenSteps
    <3> QED BY <1>4, <3>1, <3>3 DEF Content, Written
  <2> QED BY <2>2, <2>3
<1> QED BY <1>7, <1>8 DEF QueueStep

(* What is on disk follows the call that works. *)
LEMMA StepRecorded ==
  ASSUME SerialParent, StateInv, CancelInv, OpenInv, ~closing', Next
  PROVE  Recorded'
<1> USE Distinct DEF StateInv, TaskTypes, ValueTypes, RunTypes, CancelInv, OneSettles,
           Removal, OpenInv, Alone, Busy, At, Placed, NotYet, Goto, Active, Parked,
           Terminal, WorkSteps, CancelSteps, ShutdownSteps, Staged, ToolWaits,
           Works, Recorded, Written, Saving
<1>1. ASSUME NEW t \in Task, NEW inBackground \in BOOLEAN, Start(t, inBackground)
     PROVE  Recorded'
  BY <1>1, StartMoves
<1>2. ASSUME NEW t \in Task, NEW ok \in BOOLEAN, Reserved(t, ok)
     PROVE  Recorded'
  BY <1>2, OpenSave DEF Reserved, Acquire, childVars, leaseVars
<1>3. ASSUME NEW t \in Task, ChildCreated(t)
     PROVE  Recorded'
  BY <1>3 DEF ChildCreated, lifeVars, leaseVars, opVars, endVars, userVars
<1>4. ASSUME NEW t \in Task, ChildFailed(t)
     PROVE  Recorded'
  BY <1>4 DEF ChildFailed, FinishTerminal, lifeVars, childVars, leaseVars, opVars,
      saveVars, userVars
<1>5. ASSUME NEW t \in Task, NEW ok \in BOOLEAN, Adopted(t, ok)
     PROVE  Recorded'
  BY <1>5, OpenSave
    DEF Adopted, FinishTerminal, StopWork, FinishInterrupted, BeginOperation,
      leaseVars, userVars
<1>6. ASSUME NEW t \in Task, NEW byTool \in BOOLEAN, Resume(t, byTool)
     PROVE  Recorded'
  BY <1>6, ResumeMoves
<1>7. ASSUME NEW t \in Task, Acquired(t)
     PROVE  Recorded'
  BY <1>7 DEF Acquired, Acquire, leaseVars, childVars, opVars, endVars, userVars
<1>8. ASSUME NEW t \in Task, AcquireGivesUp(t)
     PROVE  Recorded'
  BY <1>8 DEF AcquireGivesUp, ResumeFails, childVars, opVars, endVars, saveVars,
      Wanted
<1>9. ASSUME NEW t \in Task, NEW ok \in BOOLEAN, Repaired(t, ok)
     PROVE  Recorded'
  BY <1>9, OpenSave
    DEF Repaired, ResumeFails, leaseVars, childVars, opVars, endVars, Wanted
<1>10. ASSUME NEW t \in Task, NEW ok \in BOOLEAN, Revived(t, ok)
     PROVE  Recorded'
  BY <1>10, OpenSave DEF Revived, ResumeFails, leaseVars, FinishTerminal, StopWork,
      FinishInterrupted, BeginOperation, Wanted
<1>11. ASSUME NEW t \in Task, NEW ok \in BOOLEAN, Begun(t, ok)
     PROVE  Recorded'
  BY <1>11, OpenSave
    DEF Begun, FinishTerminal, StopWork, FinishInterrupted, DriveInterruption,
      PromptFailure, lifeVars, leaseVars, userVars
<1>12. ASSUME NEW t \in Task, PromptSettles(t)
     PROVE  Recorded'
  BY <1>12 DEF PromptSettles, FinishInterrupted, lifeVars, childVars, leaseVars,
      opVars, userVars
<1>13. ASSUME NEW t \in Task, PromptRejects(t)
     PROVE  Recorded'
  BY <1>13 DEF PromptRejects, PromptFailure, DriveInterruption, FinishTerminal,
      FinishInterrupted, StopWork, lifeVars, childVars, leaseVars, opVars,
      saveVars, userVars
<1>14. ASSUME NEW t \in Task, NEW ok \in BOOLEAN, OperationSettled(t, ok)
     PROVE  Recorded'
  BY <1>14, OpenSave DEF OperationSettled, FinishTerminal, StopWork, FinishInterrupted,
      DriveInterruption, leaseVars, opVars, userVars
<1>15. ASSUME NEW t \in Task, NEW ok \in BOOLEAN, QuestionChecked(t, ok)
     PROVE  Recorded'
  BY <1>15 DEF QuestionChecked, FinalizeInterrupted, childVars, leaseVars, opVars,
      endVars, userVars
<1>16. ASSUME NEW t \in Task, NEW ok \in BOOLEAN, QuestionSaved(t, ok)
     PROVE  Recorded'
  BY <1>16, OpenSave
    DEF QuestionSaved, FinalizeInterrupted, leaseVars, childVars, opVars,
      endVars, userVars
<1>17. ASSUME NEW t \in Task, InterruptChecked(t)
     PROVE  Recorded'
  BY <1>17 DEF InterruptChecked, FinalizeInterrupted, childVars, leaseVars, opVars,
      endVars, userVars
<1>18. ASSUME NEW t \in Task, NEW ok \in BOOLEAN, InterruptSaved(t, ok)
     PROVE  Recorded'
  BY <1>18, OpenSave
    DEF InterruptSaved, CompletionEnds, lifeVars, childVars, opVars, userVars
<1>19. ASSUME NEW t \in Task, NEW ok \in BOOLEAN, TerminalChecked(t, ok)
     PROVE  Recorded'
  BY <1>19 DEF TerminalChecked, FinalizeInterrupted, RemoveRun, childVars, leaseVars,
      opVars, userVars, Wanted
<1>20. ASSUME NEW t \in Task, NEW ok \in BOOLEAN, ResultSaved(t, ok)
     PROVE  Recorded'
  BY <1>20, OpenSave DEF ResultSaved, CompletionEnds, childVars, opVars, userVars
<1>21. ASSUME NEW t \in Task, Unpending(t)
     PROVE  Recorded'
  BY <1>21 DEF Unpending, leaseVars, childVars, lifeVars, opVars, endVars, userVars
<1>22. ASSUME NEW t \in Task, NEW ok \in BOOLEAN, Buried(t, ok)
     PROVE  Recorded'
  BY <1>22, OpenSave DEF Buried, CompletionEnds, lifeVars, opVars, userVars
<1>23. ASSUME NEW t \in Task, Joined(t)
     PROVE  Recorded'
  BY <1>23 DEF Joined, lifeVars, childVars, leaseVars, opVars, endVars, saveVars,
      userVars
<1>24. ASSUME NEW t \in Task, WorkReturns(t)
     PROVE  Recorded'
  BY <1>24 DEF WorkReturns, leaseVars, childVars, endVars, saveVars
<1>25. ASSUME NEW t \in Task, NEW byTool \in BOOLEAN, Cancel(t, byTool)
     PROVE  Recorded'
  BY <1>25, CancelMoves, CancelFinds DEF FinishTerminal
<1>26. ASSUME NEW t \in Task, Halted(t)
     PROVE  Recorded'
  BY <1>26 DEF Halted, FinishTerminal, lifeVars, childVars, leaseVars, opVars,
      saveVars, userVars
<1>27. ASSUME NEW t \in Task, CancelReturns(t)
     PROVE  Recorded'
  BY <1>27 DEF CancelReturns, RemoveRun, childVars, leaseVars, opVars, saveVars
<1>28. ASSUME NEW t \in Task, Collect(t)
     PROVE  Recorded'
  BY <1>28, CollectMoves
<1>29. ASSUME NEW t \in Task, CollectReturns(t)
     PROVE  Recorded'
  BY <1>29 DEF CollectReturns, lifeVars, childVars, leaseVars, opVars, saveVars
<1>30. ASSUME NEW t \in Task, Shutdown(t)
     PROVE  Recorded'
  BY <1>30 DEF Shutdown
<1>31. ASSUME NEW t \in Task, SetupDrained(t)
     PROVE  Recorded'
  BY <1>31 DEF SetupDrained, lifeVars, leaseVars, opVars, endVars, saveVars, userVars
<1>32. ASSUME NEW t \in Task, OperationDrained(t)
     PROVE  Recorded'
  BY <1>32 DEF OperationDrained, RemoveRun, FinishInterrupted, childVars, leaseVars,
      opVars, userVars
<1>33. ASSUME NEW t \in Task, NEW ok \in BOOLEAN, Preserved(t, ok)
     PROVE  Recorded'
  BY <1>33, OpenSave DEF Preserved, RemoveRun, leaseVars, opVars, userVars
<1>34. ASSUME NEW t \in Task, ShutdownReturns(t)
     PROVE  Recorded'
  BY <1>34 DEF ShutdownReturns, RemoveRun, childVars, leaseVars, opVars, saveVars,
      userVars
<1>35. ASSUME NEW t \in Task, Signal(t)
     PROVE  Recorded'
  BY <1>35 DEF Signal, lifeVars, leaseVars, opVars, endVars, saveVars, taskVars
<1>36. ASSUME Detach
     PROVE  Recorded'
  BY <1>36 DEF Detach, childVars, leaseVars, endVars, saveVars, taskVars
<1>37. ASSUME LoseLease
     PROVE  Recorded'
  BY <1>37 DEF LoseLease, lifeVars, opVars, endVars, taskVars, userVars
<1>38. ASSUME OtherTakes
     PROVE  Recorded'
  BY <1>38 DEF OtherTakes, lifeVars, childVars, opVars, endVars, saveVars, taskVars,
      userVars
<1>39. ASSUME OtherReleases
     PROVE  Recorded'
  BY <1>39 DEF OtherReleases, lifeVars, childVars, opVars, endVars, saveVars,
      taskVars, userVars
<1> HIDE DEF StateInv, TaskTypes, ValueTypes, RunTypes, CancelInv, OneSettles,
           Removal, OpenInv, Alone, Busy, At, Placed, NotYet, Goto, Active, Parked,
           Terminal, WorkSteps, CancelSteps, ShutdownSteps, Staged, ToolWaits,
           Works, Recorded, Written, Saving
<1> QED
  BY <1>1, <1>2, <1>3, <1>4, <1>5, <1>6, <1>7, <1>8, <1>9, <1>10, <1>11,
      <1>12, <1>13, <1>14, <1>15, <1>16, <1>17, <1>18, <1>19, <1>20, <1>21,
      <1>22, <1>23, <1>24, <1>25, <1>26, <1>27, <1>28, <1>29, <1>30, <1>31,
      <1>32, <1>33, <1>34, <1>35, <1>36, <1>37, <1>38, <1>39
      DEF Next, SaveCompletes, WorkspaceCompletes, Reacts, Called

(* A child is disposed with its run. *)
LEMMA StepChild ==
  ASSUME SerialParent, StateInv, CancelInv, OpenInv, ~closing', Next
  PROVE  ChildKept'
<1> USE Distinct DEF StateInv, TaskTypes, ValueTypes, RunTypes, CancelInv, OneSettles,
           Removal, OpenInv, Alone, Busy, At, Placed, NotYet, Goto, Active, Parked,
           Terminal, WorkSteps, CancelSteps, ShutdownSteps, Staged, Recorded,
           ChildKept
<1>1. ASSUME NEW t \in Task, NEW inBackground \in BOOLEAN, Start(t, inBackground)
     PROVE  ChildKept'
  BY <1>1, StartMoves
<1>2. ASSUME NEW t \in Task, NEW ok \in BOOLEAN, Reserved(t, ok)
     PROVE  ChildKept'
  BY <1>2 DEF Reserved, Acquire, childVars, leaseVars
<1>3. ASSUME NEW t \in Task, ChildCreated(t)
     PROVE  ChildKept'
  BY <1>3 DEF ChildCreated, lifeVars, leaseVars, opVars, endVars, userVars
<1>4. ASSUME NEW t \in Task, ChildFailed(t)
     PROVE  ChildKept'
  BY <1>4 DEF ChildFailed, FinishTerminal, lifeVars, childVars, leaseVars, opVars,
      saveVars, userVars
<1>5. ASSUME NEW t \in Task, NEW ok \in BOOLEAN, Adopted(t, ok)
     PROVE  ChildKept'
  BY <1>5 DEF Adopted, FinishTerminal, StopWork, FinishInterrupted, BeginOperation,
      leaseVars, userVars
<1>6. ASSUME NEW t \in Task, NEW byTool \in BOOLEAN, Resume(t, byTool)
     PROVE  ChildKept'
  BY <1>6, ResumeMoves
<1>7. ASSUME NEW t \in Task, Acquired(t)
     PROVE  ChildKept'
  BY <1>7 DEF Acquired, Acquire, leaseVars, childVars, opVars, endVars, userVars
<1>8. ASSUME NEW t \in Task, AcquireGivesUp(t)
     PROVE  ChildKept'
  BY <1>8 DEF AcquireGivesUp, ResumeFails, childVars, opVars, endVars, saveVars,
      Wanted
<1>9. ASSUME NEW t \in Task, NEW ok \in BOOLEAN, Repaired(t, ok)
     PROVE  ChildKept'
  BY <1>9 DEF Repaired, ResumeFails, leaseVars, childVars, opVars, endVars, Wanted
<1>10. ASSUME NEW t \in Task, NEW ok \in BOOLEAN, Revived(t, ok)
     PROVE  ChildKept'
  BY <1>10 DEF Revived, ResumeFails, leaseVars, FinishTerminal, StopWork,
      FinishInterrupted, BeginOperation, Wanted
<1>11. ASSUME NEW t \in Task, NEW ok \in BOOLEAN, Begun(t, ok)
     PROVE  ChildKept'
  BY <1>11 DEF Begun, FinishTerminal, StopWork, FinishInterrupted, DriveInterruption,
      PromptFailure, lifeVars, leaseVars, userVars
<1>12. ASSUME NEW t \in Task, PromptSettles(t)
     PROVE  ChildKept'
  BY <1>12 DEF PromptSettles, FinishInterrupted, lifeVars, childVars, leaseVars,
      opVars, userVars
<1>13. ASSUME NEW t \in Task, PromptRejects(t)
     PROVE  ChildKept'
  BY <1>13 DEF PromptRejects, PromptFailure, DriveInterruption, FinishTerminal,
      FinishInterrupted, StopWork, lifeVars, childVars, leaseVars, opVars,
      saveVars, userVars
<1>14. ASSUME NEW t \in Task, NEW ok \in BOOLEAN, OperationSettled(t, ok)
     PROVE  ChildKept'
  BY <1>14 DEF OperationSettled, FinishTerminal, StopWork, FinishInterrupted,
      DriveInterruption, leaseVars, opVars, userVars
<1>15. ASSUME NEW t \in Task, NEW ok \in BOOLEAN, QuestionChecked(t, ok)
     PROVE  ChildKept'
  BY <1>15 DEF QuestionChecked, FinalizeInterrupted, childVars, leaseVars, opVars,
      endVars, userVars
<1>16. ASSUME NEW t \in Task, NEW ok \in BOOLEAN, QuestionSaved(t, ok)
     PROVE  ChildKept'
  BY <1>16 DEF QuestionSaved, FinalizeInterrupted, leaseVars, childVars, opVars,
      endVars, userVars
<1>17. ASSUME NEW t \in Task, InterruptChecked(t)
     PROVE  ChildKept'
  BY <1>17 DEF InterruptChecked, FinalizeInterrupted, childVars, leaseVars, opVars,
      endVars, userVars
<1>18. ASSUME NEW t \in Task, NEW ok \in BOOLEAN, InterruptSaved(t, ok)
     PROVE  ChildKept'
  BY <1>18 DEF InterruptSaved, CompletionEnds, lifeVars, childVars, opVars, userVars
<1>19. ASSUME NEW t \in Task, NEW ok \in BOOLEAN, TerminalChecked(t, ok)
     PROVE  ChildKept'
  BY <1>19 DEF TerminalChecked, FinalizeInterrupted, RemoveRun, childVars, leaseVars,
      opVars, userVars, Wanted
<1>20. ASSUME NEW t \in Task, NEW ok \in BOOLEAN, ResultSaved(t, ok)
     PROVE  ChildKept'
  BY <1>20 DEF ResultSaved, CompletionEnds, DisposeRun, childVars, opVars, userVars
<1>21. ASSUME NEW t \in Task, Unpending(t)
     PROVE  ChildKept'
  BY <1>21 DEF Unpending, DisposeRun, leaseVars, childVars, lifeVars, opVars,
      endVars, userVars
<1>22. ASSUME NEW t \in Task, NEW ok \in BOOLEAN, Buried(t, ok)
     PROVE  ChildKept'
  BY <1>22 DEF Buried, DisposeRun, CompletionEnds, lifeVars, opVars, userVars
<1>23. ASSUME NEW t \in Task, Joined(t)
     PROVE  ChildKept'
  BY <1>23 DEF Joined, lifeVars, childVars, leaseVars, opVars, endVars, saveVars,
      userVars
<1>24. ASSUME NEW t \in Task, WorkReturns(t)
     PROVE  ChildKept'
  BY <1>24 DEF WorkReturns, leaseVars, childVars, endVars, saveVars
<1>25. ASSUME NEW t \in Task, NEW byTool \in BOOLEAN, Cancel(t, byTool)
     PROVE  ChildKept'
  BY <1>25, CancelMoves, CancelFinds DEF FinishTerminal
<1>26. ASSUME NEW t \in Task, Halted(t)
     PROVE  ChildKept'
  BY <1>26 DEF Halted, FinishTerminal, lifeVars, childVars, leaseVars, opVars,
      saveVars, userVars
<1>27. ASSUME NEW t \in Task, CancelReturns(t)
     PROVE  ChildKept'
  BY <1>27 DEF CancelReturns, RemoveRun, childVars, leaseVars, opVars, saveVars
<1>28. ASSUME NEW t \in Task, Collect(t)
     PROVE  ChildKept'
  BY <1>28, CollectMoves
<1>29. ASSUME NEW t \in Task, CollectReturns(t)
     PROVE  ChildKept'
  BY <1>29 DEF CollectReturns, lifeVars, childVars, leaseVars, opVars, saveVars
<1>30. ASSUME NEW t \in Task, Shutdown(t)
     PROVE  ChildKept'
  BY <1>30 DEF Shutdown
<1>31. ASSUME NEW t \in Task, SetupDrained(t)
     PROVE  ChildKept'
  BY <1>31 DEF SetupDrained, lifeVars, leaseVars, opVars, endVars, saveVars, userVars
<1>32. ASSUME NEW t \in Task, OperationDrained(t)
     PROVE  ChildKept'
  BY <1>32 DEF OperationDrained, RemoveRun, FinishInterrupted, childVars, leaseVars,
      opVars, userVars
<1>33. ASSUME NEW t \in Task, NEW ok \in BOOLEAN, Preserved(t, ok)
     PROVE  ChildKept'
  BY <1>33 DEF Preserved, DisposeRun, RemoveRun, leaseVars, opVars, userVars
<1>34. ASSUME NEW t \in Task, ShutdownReturns(t)
     PROVE  ChildKept'
  BY <1>34 DEF ShutdownReturns, RemoveRun, childVars, leaseVars, opVars, saveVars,
      userVars
<1>35. ASSUME NEW t \in Task, Signal(t)
     PROVE  ChildKept'
  BY <1>35 DEF Signal, lifeVars, leaseVars, opVars, endVars, saveVars, taskVars
<1>36. ASSUME Detach
     PROVE  ChildKept'
  BY <1>36 DEF Detach, childVars, leaseVars, endVars, saveVars, taskVars
<1>37. ASSUME LoseLease
     PROVE  ChildKept'
  BY <1>37 DEF LoseLease, lifeVars, opVars, endVars, taskVars, userVars
<1>38. ASSUME OtherTakes
     PROVE  ChildKept'
  BY <1>38 DEF OtherTakes, lifeVars, childVars, opVars, endVars, saveVars, taskVars,
      userVars
<1>39. ASSUME OtherReleases
     PROVE  ChildKept'
  BY <1>39 DEF OtherReleases, lifeVars, childVars, opVars, endVars, saveVars,
      taskVars, userVars
<1> HIDE DEF StateInv, TaskTypes, ValueTypes, RunTypes, CancelInv, OneSettles,
           Removal, OpenInv, Alone, Busy, At, Placed, NotYet, Goto, Active, Parked,
           Terminal, WorkSteps, CancelSteps, ShutdownSteps, Staged, Recorded,
           ChildKept
<1> QED
  BY <1>1, <1>2, <1>3, <1>4, <1>5, <1>6, <1>7, <1>8, <1>9, <1>10, <1>11,
      <1>12, <1>13, <1>14, <1>15, <1>16, <1>17, <1>18, <1>19, <1>20, <1>21,
      <1>22, <1>23, <1>24, <1>25, <1>26, <1>27, <1>28, <1>29, <1>30, <1>31,
      <1>32, <1>33, <1>34, <1>35, <1>36, <1>37, <1>38, <1>39
      DEF Next, SaveCompletes, WorkspaceCompletes, Reacts, Called

(* A settlement that did not fail is for good. *)
LEMMA StepLetGo ==
  ASSUME SerialParent, StateInv, CancelInv, LeaseReturned, OpenInv, ~closing', Next
  PROVE  LetGo'
<1> USE Distinct DEF StateInv, TaskTypes, ValueTypes, RunTypes, CancelInv, OneSettles,
           Removal, OpenInv, Alone, Busy, At, Placed, NotYet, Goto, Active, Parked,
           Terminal, WorkSteps, CancelSteps, ShutdownSteps, Staged, Wanted, LetGo,
           Saving
<1>1. ASSUME NEW t \in Task, NEW inBackground \in BOOLEAN, Start(t, inBackground)
     PROVE  LetGo'
  BY <1>1, StartMoves
<1>2. ASSUME NEW t \in Task, NEW ok \in BOOLEAN, Reserved(t, ok)
     PROVE  LetGo'
  BY <1>2, OpenSave DEF Reserved, Acquire, childVars, leaseVars
<1>3. ASSUME NEW t \in Task, ChildCreated(t)
     PROVE  LetGo'
  BY <1>3 DEF ChildCreated, lifeVars, leaseVars, opVars, endVars, userVars
<1>4. ASSUME NEW t \in Task, ChildFailed(t)
     PROVE  LetGo'
  BY <1>4 DEF ChildFailed, FinishTerminal, lifeVars, childVars, leaseVars, opVars,
      saveVars, userVars
<1>5. ASSUME NEW t \in Task, NEW ok \in BOOLEAN, Adopted(t, ok)
     PROVE  LetGo'
  BY <1>5, OpenSave
    DEF Adopted, FinishTerminal, StopWork, FinishInterrupted, BeginOperation,
      leaseVars, userVars
<1>6. ASSUME NEW t \in Task, NEW byTool \in BOOLEAN, Resume(t, byTool)
     PROVE  LetGo'
  BY <1>6, ResumeMoves DEF LeaseReturned, Idle
<1>7. ASSUME NEW t \in Task, Acquired(t)
     PROVE  LetGo'
  BY <1>7 DEF Acquired, Acquire, leaseVars, childVars, opVars, endVars, userVars
<1>8. ASSUME NEW t \in Task, AcquireGivesUp(t)
     PROVE  LetGo'
  BY <1>8 DEF AcquireGivesUp, ResumeFails, Release, childVars, opVars, endVars,
      saveVars
<1>9. ASSUME NEW t \in Task, NEW ok \in BOOLEAN, Repaired(t, ok)
     PROVE  LetGo'
  BY <1>9, OpenSave
    DEF Repaired, ResumeFails, Release, leaseVars, childVars, opVars, endVars
<1>10. ASSUME NEW t \in Task, NEW ok \in BOOLEAN, Revived(t, ok)
     PROVE  LetGo'
  BY <1>10, OpenSave
    DEF Revived, ResumeFails, Release, leaseVars, FinishTerminal, StopWork,
      FinishInterrupted, BeginOperation
<1>11. ASSUME NEW t \in Task, NEW ok \in BOOLEAN, Begun(t, ok)
     PROVE  LetGo'
  BY <1>11, OpenSave
    DEF Begun, FinishTerminal, StopWork, FinishInterrupted, DriveInterruption,
      PromptFailure, lifeVars, leaseVars, userVars
<1>12. ASSUME NEW t \in Task, PromptSettles(t)
     PROVE  LetGo'
  BY <1>12 DEF PromptSettles, FinishInterrupted, lifeVars, childVars, leaseVars,
      opVars, userVars
<1>13. ASSUME NEW t \in Task, PromptRejects(t)
     PROVE  LetGo'
  BY <1>13 DEF PromptRejects, PromptFailure, DriveInterruption, FinishTerminal,
      FinishInterrupted, StopWork, lifeVars, childVars, leaseVars, opVars,
      saveVars, userVars
<1>14. ASSUME NEW t \in Task, NEW ok \in BOOLEAN, OperationSettled(t, ok)
     PROVE  LetGo'
  BY <1>14, OpenSave DEF OperationSettled, FinishTerminal, StopWork, FinishInterrupted,
      DriveInterruption, leaseVars, opVars, userVars
<1>15. ASSUME NEW t \in Task, NEW ok \in BOOLEAN, QuestionChecked(t, ok)
     PROVE  LetGo'
  BY <1>15, WorkspaceFaults
    DEF QuestionChecked, FinalizeInterrupted, childVars, leaseVars, opVars,
      endVars, userVars
<1>16. ASSUME NEW t \in Task, NEW ok \in BOOLEAN, QuestionSaved(t, ok)
     PROVE  LetGo'
  BY <1>16, OpenSave
    DEF QuestionSaved, FinalizeInterrupted, Release, leaseVars, childVars,
      opVars, endVars, userVars
<1>17. ASSUME NEW t \in Task, InterruptChecked(t)
     PROVE  LetGo'
  BY <1>17 DEF InterruptChecked, FinalizeInterrupted, childVars, leaseVars, opVars,
      endVars, userVars
<1>18. ASSUME NEW t \in Task, NEW ok \in BOOLEAN, InterruptSaved(t, ok)
     PROVE  LetGo'
  BY <1>18, OpenSave
    DEF InterruptSaved, Release, CompletionEnds, lifeVars, childVars, opVars,
      userVars
<1>19. ASSUME NEW t \in Task, NEW ok \in BOOLEAN, TerminalChecked(t, ok)
     PROVE  LetGo'
  BY <1>19, WorkspaceFaults
    DEF TerminalChecked, FinalizeInterrupted, RemoveRun, childVars, leaseVars,
      opVars, userVars
<1>20. ASSUME NEW t \in Task, NEW ok \in BOOLEAN, ResultSaved(t, ok)
     PROVE  LetGo'
  BY <1>20, OpenSave
    DEF ResultSaved, Release, CompletionEnds, childVars, opVars, userVars
<1>21. ASSUME NEW t \in Task, Unpending(t)
     PROVE  LetGo'
  BY <1>21 DEF Unpending, Release, leaseVars, childVars, lifeVars, opVars, endVars,
      userVars
<1>22. ASSUME NEW t \in Task, NEW ok \in BOOLEAN, Buried(t, ok)
     PROVE  LetGo'
  BY <1>22, OpenSave DEF Buried, Release, CompletionEnds, lifeVars, opVars, userVars
<1>23. ASSUME NEW t \in Task, Joined(t)
     PROVE  LetGo'
  BY <1>23 DEF Joined, lifeVars, childVars, leaseVars, opVars, endVars, saveVars,
      userVars
<1>24. ASSUME NEW t \in Task, WorkReturns(t)
     PROVE  LetGo'
  BY <1>24 DEF WorkReturns, Release, leaseVars, childVars, endVars, saveVars
<1>25. ASSUME NEW t \in Task, NEW byTool \in BOOLEAN, Cancel(t, byTool)
     PROVE  LetGo'
  BY <1>25, CancelMoves, CancelFinds DEF FinishTerminal
<1>26. ASSUME NEW t \in Task, Halted(t)
     PROVE  LetGo'
  BY <1>26 DEF Halted, FinishTerminal, lifeVars, childVars, leaseVars, opVars,
      saveVars, userVars
<1>27. ASSUME NEW t \in Task, CancelReturns(t)
     PROVE  LetGo'
  BY <1>27 DEF CancelReturns, RemoveRun, childVars, leaseVars, opVars, saveVars
<1>28. ASSUME NEW t \in Task, Collect(t)
     PROVE  LetGo'
  <2>1. /\ \A u \in Task : pc[u] \in {"idle", "done"}
        /\ status \in Terminal /\ pc' = [pc EXCEPT ![t] = "remove"]
        /\ UNCHANGED <<status, lease, outcome, completion, faults>>
    BY <1>28, CollectMoves
  <2>2. \A u \in Task : pc'[u] \notin {"acquire", "back"}
    BY <2>1
  <2> QED BY <2>1, <2>2
<1>29. ASSUME NEW t \in Task, CollectReturns(t)
     PROVE  LetGo'
  BY <1>29 DEF CollectReturns, lifeVars, childVars, leaseVars, opVars, saveVars
<1>30. ASSUME NEW t \in Task, Shutdown(t)
     PROVE  LetGo'
  BY <1>30 DEF Shutdown
<1>31. ASSUME NEW t \in Task, SetupDrained(t)
     PROVE  LetGo'
  BY <1>31 DEF SetupDrained, lifeVars, leaseVars, opVars, endVars, saveVars, userVars
<1>32. ASSUME NEW t \in Task, OperationDrained(t)
     PROVE  LetGo'
  BY <1>32 DEF OperationDrained, RemoveRun, FinishInterrupted, childVars, leaseVars,
      opVars, userVars
<1>33. ASSUME NEW t \in Task, NEW ok \in BOOLEAN, Preserved(t, ok)
     PROVE  LetGo'
  BY <1>33, OpenSave DEF Preserved, RemoveRun, leaseVars, opVars, userVars
<1>34. ASSUME NEW t \in Task, ShutdownReturns(t)
     PROVE  LetGo'
  BY <1>34 DEF ShutdownReturns, RemoveRun, childVars, leaseVars, opVars, saveVars,
      userVars
<1>35. ASSUME NEW t \in Task, Signal(t)
     PROVE  LetGo'
  BY <1>35 DEF Signal, lifeVars, leaseVars, opVars, endVars, saveVars, taskVars
<1>36. ASSUME Detach
     PROVE  LetGo'
  BY <1>36 DEF Detach, childVars, leaseVars, endVars, saveVars, taskVars
<1>37. ASSUME LoseLease
     PROVE  LetGo'
  BY <1>37 DEF LoseLease, lifeVars, opVars, endVars, taskVars, userVars, Fault
<1>38. ASSUME OtherTakes
     PROVE  LetGo'
  BY <1>38 DEF OtherTakes, lifeVars, childVars, opVars, endVars, saveVars, taskVars,
      userVars
<1>39. ASSUME OtherReleases
     PROVE  LetGo'
  BY <1>39 DEF OtherReleases, lifeVars, childVars, opVars, endVars, saveVars,
      taskVars, userVars
<1> HIDE DEF StateInv, TaskTypes, ValueTypes, RunTypes, CancelInv, OneSettles,
           Removal, OpenInv, Alone, Busy, At, Placed, NotYet, Goto, Active, Parked,
           Terminal, WorkSteps, CancelSteps, ShutdownSteps, Staged, Wanted, LetGo,
           Saving
<1> QED
  BY <1>1, <1>2, <1>3, <1>4, <1>5, <1>6, <1>7, <1>8, <1>9, <1>10, <1>11,
      <1>12, <1>13, <1>14, <1>15, <1>16, <1>17, <1>18, <1>19, <1>20, <1>21,
      <1>22, <1>23, <1>24, <1>25, <1>26, <1>27, <1>28, <1>29, <1>30, <1>31,
      <1>32, <1>33, <1>34, <1>35, <1>36, <1>37, <1>38, <1>39
      DEF Next, SaveCompletes, WorkspaceCompletes, Reacts, Called

(* Faults are not forgotten; a lease that is lost is one of them. *)
LEMMA StepFaults ==
  ASSUME Next
  PROVE  FaultSteps
<1> USE DEF FaultSteps
<1>1. ASSUME NEW t \in Task, NEW inBackground \in BOOLEAN, Start(t, inBackground)
     PROVE  FaultSteps
  BY <1>1 DEF Start, childVars, leaseVars, opVars, endVars
<1>2. ASSUME NEW t \in Task, NEW ok \in BOOLEAN, Reserved(t, ok)
     PROVE  FaultSteps
  BY <1>2, SaveFaults DEF Reserved, childVars, leaseVars
<1>3. ASSUME NEW t \in Task, ChildCreated(t)
     PROVE  FaultSteps
  BY <1>3 DEF ChildCreated, lifeVars, leaseVars, opVars, endVars, userVars
<1>4. ASSUME NEW t \in Task, ChildFailed(t)
     PROVE  FaultSteps
  BY <1>4 DEF ChildFailed, lifeVars, childVars, leaseVars, opVars, saveVars,
      userVars
<1>5. ASSUME NEW t \in Task, NEW ok \in BOOLEAN, Adopted(t, ok)
     PROVE  FaultSteps
  BY <1>5, SaveFaults DEF Adopted, leaseVars, userVars
<1>6. ASSUME NEW t \in Task, NEW byTool \in BOOLEAN, Resume(t, byTool)
     PROVE  FaultSteps
  BY <1>6 DEF Resume, lifeVars, childVars, leaseVars, opVars, endVars, saveVars
<1>7. ASSUME NEW t \in Task, Acquired(t)
     PROVE  FaultSteps
  BY <1>7 DEF Acquired, leaseVars, childVars, opVars, endVars, userVars
<1>8. ASSUME NEW t \in Task, AcquireGivesUp(t)
     PROVE  FaultSteps
  BY <1>8 DEF AcquireGivesUp, ResumeFails, childVars, opVars, endVars, saveVars
<1>9. ASSUME NEW t \in Task, NEW ok \in BOOLEAN, Repaired(t, ok)
     PROVE  FaultSteps
  BY <1>9, SaveFaults DEF Repaired, ResumeFails, leaseVars, childVars, opVars, endVars
<1>10. ASSUME NEW t \in Task, NEW ok \in BOOLEAN, Revived(t, ok)
     PROVE  FaultSteps
  BY <1>10, SaveFaults DEF Revived, ResumeFails, leaseVars
<1>11. ASSUME NEW t \in Task, NEW ok \in BOOLEAN, Begun(t, ok)
     PROVE  FaultSteps
  BY <1>11, SaveFaults DEF Begun, lifeVars, leaseVars, userVars
<1>12. ASSUME NEW t \in Task, PromptSettles(t)
     PROVE  FaultSteps
  BY <1>12 DEF PromptSettles, lifeVars, childVars, leaseVars, opVars, userVars
<1>13. ASSUME NEW t \in Task, PromptRejects(t)
     PROVE  FaultSteps
  BY <1>13 DEF PromptRejects, lifeVars, childVars, leaseVars, opVars, saveVars,
      userVars
<1>14. ASSUME NEW t \in Task, NEW ok \in BOOLEAN, OperationSettled(t, ok)
     PROVE  FaultSteps
  BY <1>14, SaveFaults DEF OperationSettled, leaseVars, opVars, userVars
<1>15. ASSUME NEW t \in Task, NEW ok \in BOOLEAN, QuestionChecked(t, ok)
     PROVE  FaultSteps
  BY <1>15, WorkspaceFaults
    DEF QuestionChecked, childVars, leaseVars, opVars, endVars, userVars
<1>16. ASSUME NEW t \in Task, NEW ok \in BOOLEAN, QuestionSaved(t, ok)
     PROVE  FaultSteps
  BY <1>16, SaveFaults
    DEF QuestionSaved, leaseVars, childVars, opVars, endVars, userVars
<1>17. ASSUME NEW t \in Task, InterruptChecked(t)
     PROVE  FaultSteps
  BY <1>17 DEF InterruptChecked, childVars, leaseVars, opVars, endVars, userVars
<1>18. ASSUME NEW t \in Task, NEW ok \in BOOLEAN, InterruptSaved(t, ok)
     PROVE  FaultSteps
  BY <1>18, SaveFaults DEF InterruptSaved, lifeVars, childVars, opVars, userVars
<1>19. ASSUME NEW t \in Task, NEW ok \in BOOLEAN, TerminalChecked(t, ok)
     PROVE  FaultSteps
  BY <1>19, WorkspaceFaults DEF TerminalChecked, childVars, leaseVars, opVars, userVars
<1>20. ASSUME NEW t \in Task, NEW ok \in BOOLEAN, ResultSaved(t, ok)
     PROVE  FaultSteps
  BY <1>20, SaveFaults DEF ResultSaved, childVars, opVars, userVars
<1>21. ASSUME NEW t \in Task, Unpending(t)
     PROVE  FaultSteps
  BY <1>21 DEF Unpending, leaseVars, childVars, lifeVars, opVars, endVars, userVars
<1>22. ASSUME NEW t \in Task, NEW ok \in BOOLEAN, Buried(t, ok)
     PROVE  FaultSteps
  BY <1>22, SaveFaults DEF Buried, lifeVars, opVars, userVars
<1>23. ASSUME NEW t \in Task, Joined(t)
     PROVE  FaultSteps
  BY <1>23 DEF Joined, lifeVars, childVars, leaseVars, opVars, endVars, saveVars,
      userVars
<1>24. ASSUME NEW t \in Task, WorkReturns(t)
     PROVE  FaultSteps
  BY <1>24 DEF WorkReturns, leaseVars, childVars, endVars, saveVars
<1>25. ASSUME NEW t \in Task, NEW byTool \in BOOLEAN, Cancel(t, byTool)
     PROVE  FaultSteps
  BY <1>25 DEF Cancel, lifeVars, leaseVars, opVars, saveVars
<1>26. ASSUME NEW t \in Task, Halted(t)
     PROVE  FaultSteps
  BY <1>26 DEF Halted, lifeVars, childVars, leaseVars, opVars, saveVars, userVars
<1>27. ASSUME NEW t \in Task, CancelReturns(t)
     PROVE  FaultSteps
  BY <1>27 DEF CancelReturns, childVars, leaseVars, opVars, saveVars
<1>28. ASSUME NEW t \in Task, Collect(t)
     PROVE  FaultSteps
  BY <1>28 DEF Collect, childVars, leaseVars, opVars, saveVars
<1>29. ASSUME NEW t \in Task, CollectReturns(t)
     PROVE  FaultSteps
  BY <1>29 DEF CollectReturns, lifeVars, childVars, leaseVars, opVars, saveVars
<1>30. ASSUME NEW t \in Task, Shutdown(t)
     PROVE  FaultSteps
  BY <1>30 DEF Shutdown, lifeVars, leaseVars, opVars, saveVars
<1>31. ASSUME NEW t \in Task, SetupDrained(t)
     PROVE  FaultSteps
  BY <1>31 DEF SetupDrained, lifeVars, leaseVars, opVars, endVars, saveVars, userVars
<1>32. ASSUME NEW t \in Task, OperationDrained(t)
     PROVE  FaultSteps
  BY <1>32 DEF OperationDrained, childVars, leaseVars, opVars, userVars
<1>33. ASSUME NEW t \in Task, NEW ok \in BOOLEAN, Preserved(t, ok)
     PROVE  FaultSteps
  BY <1>33, SaveFaults DEF Preserved, leaseVars, opVars, userVars
<1>34. ASSUME NEW t \in Task, ShutdownReturns(t)
     PROVE  FaultSteps
  BY <1>34 DEF ShutdownReturns, childVars, leaseVars, opVars, saveVars, userVars
<1>35. ASSUME NEW t \in Task, Signal(t)
     PROVE  FaultSteps
  BY <1>35 DEF Signal, lifeVars, leaseVars, opVars, endVars, saveVars, taskVars
<1>36. ASSUME Detach
     PROVE  FaultSteps
  BY <1>36 DEF Detach, childVars, leaseVars, endVars, saveVars, taskVars
<1>37. ASSUME LoseLease
     PROVE  FaultSteps
  BY <1>37 DEF LoseLease, lifeVars, opVars, endVars, taskVars, userVars, Fault
<1>38. ASSUME OtherTakes
     PROVE  FaultSteps
  BY <1>38 DEF OtherTakes, lifeVars, childVars, opVars, endVars, saveVars, taskVars,
      userVars
<1>39. ASSUME OtherReleases
     PROVE  FaultSteps
  BY <1>39 DEF OtherReleases, lifeVars, childVars, opVars, endVars, saveVars,
      taskVars, userVars
<1> HIDE DEF FaultSteps
<1> QED
  BY <1>1, <1>2, <1>3, <1>4, <1>5, <1>6, <1>7, <1>8, <1>9, <1>10, <1>11,
      <1>12, <1>13, <1>14, <1>15, <1>16, <1>17, <1>18, <1>19, <1>20, <1>21,
      <1>22, <1>23, <1>24, <1>25, <1>26, <1>27, <1>28, <1>29, <1>30, <1>31,
      <1>32, <1>33, <1>34, <1>35, <1>36, <1>37, <1>38, <1>39
      DEF Next, SaveCompletes, WorkspaceCompletes, Reacts, Called

(* Only a shutdown closes the manager. *)
LEMMA StaysOpen ==
  ASSUME "shutdown" \notin Calls, ~closing, Next
  PROVE  ~closing'
<1>1. ASSUME NEW t \in Task, NEW inBackground \in BOOLEAN, Start(t, inBackground)
     PROVE  ~closing'
  BY <1>1 DEF Start, childVars, leaseVars, opVars, endVars
<1>2. ASSUME NEW t \in Task, NEW ok \in BOOLEAN, Reserved(t, ok)
     PROVE  ~closing'
  BY <1>2 DEF Reserved, childVars, leaseVars
<1>3. ASSUME NEW t \in Task, ChildCreated(t)
     PROVE  ~closing'
  BY <1>3 DEF ChildCreated, lifeVars, leaseVars, opVars, endVars, userVars
<1>4. ASSUME NEW t \in Task, ChildFailed(t)
     PROVE  ~closing'
  BY <1>4 DEF ChildFailed, lifeVars, childVars, leaseVars, opVars, saveVars,
      userVars
<1>5. ASSUME NEW t \in Task, NEW ok \in BOOLEAN, Adopted(t, ok)
     PROVE  ~closing'
  BY <1>5 DEF Adopted, leaseVars, userVars
<1>6. ASSUME NEW t \in Task, NEW byTool \in BOOLEAN, Resume(t, byTool)
     PROVE  ~closing'
  BY <1>6 DEF Resume, lifeVars, childVars, leaseVars, opVars, endVars, saveVars
<1>7. ASSUME NEW t \in Task, Acquired(t)
     PROVE  ~closing'
  BY <1>7 DEF Acquired, leaseVars, childVars, opVars, endVars, userVars
<1>8. ASSUME NEW t \in Task, AcquireGivesUp(t)
     PROVE  ~closing'
  BY <1>8 DEF AcquireGivesUp, ResumeFails, childVars, opVars, endVars, saveVars
<1>9. ASSUME NEW t \in Task, NEW ok \in BOOLEAN, Repaired(t, ok)
     PROVE  ~closing'
  BY <1>9 DEF Repaired, ResumeFails, leaseVars, childVars, opVars, endVars
<1>10. ASSUME NEW t \in Task, NEW ok \in BOOLEAN, Revived(t, ok)
     PROVE  ~closing'
  BY <1>10 DEF Revived, ResumeFails, leaseVars
<1>11. ASSUME NEW t \in Task, NEW ok \in BOOLEAN, Begun(t, ok)
     PROVE  ~closing'
  BY <1>11 DEF Begun, lifeVars, leaseVars, userVars
<1>12. ASSUME NEW t \in Task, PromptSettles(t)
     PROVE  ~closing'
  BY <1>12 DEF PromptSettles, lifeVars, childVars, leaseVars, opVars, userVars
<1>13. ASSUME NEW t \in Task, PromptRejects(t)
     PROVE  ~closing'
  BY <1>13 DEF PromptRejects, lifeVars, childVars, leaseVars, opVars, saveVars,
      userVars
<1>14. ASSUME NEW t \in Task, NEW ok \in BOOLEAN, OperationSettled(t, ok)
     PROVE  ~closing'
  BY <1>14 DEF OperationSettled, leaseVars, opVars, userVars
<1>15. ASSUME NEW t \in Task, NEW ok \in BOOLEAN, QuestionChecked(t, ok)
     PROVE  ~closing'
  BY <1>15 DEF QuestionChecked, childVars, leaseVars, opVars, endVars, userVars
<1>16. ASSUME NEW t \in Task, NEW ok \in BOOLEAN, QuestionSaved(t, ok)
     PROVE  ~closing'
  BY <1>16 DEF QuestionSaved, leaseVars, childVars, opVars, endVars, userVars
<1>17. ASSUME NEW t \in Task, InterruptChecked(t)
     PROVE  ~closing'
  BY <1>17 DEF InterruptChecked, childVars, leaseVars, opVars, endVars, userVars
<1>18. ASSUME NEW t \in Task, NEW ok \in BOOLEAN, InterruptSaved(t, ok)
     PROVE  ~closing'
  BY <1>18 DEF InterruptSaved, lifeVars, childVars, opVars, userVars
<1>19. ASSUME NEW t \in Task, NEW ok \in BOOLEAN, TerminalChecked(t, ok)
     PROVE  ~closing'
  BY <1>19 DEF TerminalChecked, childVars, leaseVars, opVars, userVars
<1>20. ASSUME NEW t \in Task, NEW ok \in BOOLEAN, ResultSaved(t, ok)
     PROVE  ~closing'
  BY <1>20 DEF ResultSaved, childVars, opVars, userVars
<1>21. ASSUME NEW t \in Task, Unpending(t)
     PROVE  ~closing'
  BY <1>21 DEF Unpending, leaseVars, childVars, lifeVars, opVars, endVars, userVars
<1>22. ASSUME NEW t \in Task, NEW ok \in BOOLEAN, Buried(t, ok)
     PROVE  ~closing'
  BY <1>22 DEF Buried, lifeVars, opVars, userVars
<1>23. ASSUME NEW t \in Task, Joined(t)
     PROVE  ~closing'
  BY <1>23 DEF Joined, lifeVars, childVars, leaseVars, opVars, endVars, saveVars,
      userVars
<1>24. ASSUME NEW t \in Task, WorkReturns(t)
     PROVE  ~closing'
  BY <1>24 DEF WorkReturns, leaseVars, childVars, endVars, saveVars
<1>25. ASSUME NEW t \in Task, NEW byTool \in BOOLEAN, Cancel(t, byTool)
     PROVE  ~closing'
  BY <1>25 DEF Cancel, lifeVars, leaseVars, opVars, saveVars
<1>26. ASSUME NEW t \in Task, Halted(t)
     PROVE  ~closing'
  BY <1>26 DEF Halted, lifeVars, childVars, leaseVars, opVars, saveVars, userVars
<1>27. ASSUME NEW t \in Task, CancelReturns(t)
     PROVE  ~closing'
  BY <1>27 DEF CancelReturns, childVars, leaseVars, opVars, saveVars
<1>28. ASSUME NEW t \in Task, Collect(t)
     PROVE  ~closing'
  BY <1>28 DEF Collect, childVars, leaseVars, opVars, saveVars
<1>29. ASSUME NEW t \in Task, CollectReturns(t)
     PROVE  ~closing'
  BY <1>29 DEF CollectReturns, lifeVars, childVars, leaseVars, opVars, saveVars
<1>30. ASSUME NEW t \in Task, SetupDrained(t)
     PROVE  ~closing'
  BY <1>30 DEF SetupDrained, lifeVars, leaseVars, opVars, endVars, saveVars, userVars
<1>31. ASSUME NEW t \in Task, OperationDrained(t)
     PROVE  ~closing'
  BY <1>31 DEF OperationDrained, childVars, leaseVars, opVars, userVars
<1>32. ASSUME NEW t \in Task, NEW ok \in BOOLEAN, Preserved(t, ok)
     PROVE  ~closing'
  BY <1>32 DEF Preserved, leaseVars, opVars, userVars
<1>33. ASSUME NEW t \in Task, ShutdownReturns(t)
     PROVE  ~closing'
  BY <1>33 DEF ShutdownReturns, childVars, leaseVars, opVars, saveVars, userVars
<1>34. ASSUME NEW t \in Task, Signal(t)
     PROVE  ~closing'
  BY <1>34 DEF Signal, lifeVars, leaseVars, opVars, endVars, saveVars, taskVars
<1>35. ASSUME Detach
     PROVE  ~closing'
  BY <1>35 DEF Detach, childVars, leaseVars, endVars, saveVars, taskVars
<1>36. ASSUME LoseLease
     PROVE  ~closing'
  BY <1>36 DEF LoseLease, lifeVars, opVars, endVars, taskVars, userVars
<1>37. ASSUME OtherTakes
     PROVE  ~closing'
  BY <1>37 DEF OtherTakes, lifeVars, childVars, opVars, endVars, saveVars, taskVars,
      userVars
<1>38. ASSUME OtherReleases
     PROVE  ~closing'
  BY <1>38 DEF OtherReleases, lifeVars, childVars, opVars, endVars, saveVars,
      taskVars, userVars
<1> QED
  BY <1>1, <1>2, <1>3, <1>4, <1>5, <1>6, <1>7, <1>8, <1>9, <1>10, <1>11,
      <1>12, <1>13, <1>14, <1>15, <1>16, <1>17, <1>18, <1>19, <1>20, <1>21,
      <1>22, <1>23, <1>24, <1>25, <1>26, <1>27, <1>28, <1>29, <1>30, <1>31,
      <1>32, <1>33, <1>34, <1>35, <1>36, <1>37, <1>38
      DEF Next, SaveCompletes, WorkspaceCompletes, Reacts, Called

(* Only a save changes what is on disk. *)
LEMMA StepSaves ==
  ASSUME Next
  PROVE  SaveSteps
<1> USE DEF At, Saving, SaveSteps
<1>1. ASSUME NEW t \in Task, NEW inBackground \in BOOLEAN, Start(t, inBackground)
     PROVE  SaveSteps
  BY <1>1 DEF Start, childVars, leaseVars, opVars, endVars
<1>2. ASSUME NEW t \in Task, NEW ok \in BOOLEAN, Reserved(t, ok)
     PROVE  SaveSteps
  BY <1>2 DEF Reserved, childVars, leaseVars
<1>3. ASSUME NEW t \in Task, ChildCreated(t)
     PROVE  SaveSteps
  BY <1>3 DEF ChildCreated, lifeVars, leaseVars, opVars, endVars, userVars
<1>4. ASSUME NEW t \in Task, ChildFailed(t)
     PROVE  SaveSteps
  BY <1>4 DEF ChildFailed, lifeVars, childVars, leaseVars, opVars, saveVars,
      userVars
<1>5. ASSUME NEW t \in Task, NEW ok \in BOOLEAN, Adopted(t, ok)
     PROVE  SaveSteps
  BY <1>5 DEF Adopted, leaseVars, userVars
<1>6. ASSUME NEW t \in Task, NEW byTool \in BOOLEAN, Resume(t, byTool)
     PROVE  SaveSteps
  BY <1>6 DEF Resume, lifeVars, childVars, leaseVars, opVars, endVars, saveVars
<1>7. ASSUME NEW t \in Task, Acquired(t)
     PROVE  SaveSteps
  BY <1>7 DEF Acquired, leaseVars, childVars, opVars, endVars, userVars
<1>8. ASSUME NEW t \in Task, AcquireGivesUp(t)
     PROVE  SaveSteps
  BY <1>8 DEF AcquireGivesUp, ResumeFails, childVars, opVars, endVars, saveVars
<1>9. ASSUME NEW t \in Task, NEW ok \in BOOLEAN, Repaired(t, ok)
     PROVE  SaveSteps
  BY <1>9 DEF Repaired, ResumeFails, leaseVars, childVars, opVars, endVars
<1>10. ASSUME NEW t \in Task, NEW ok \in BOOLEAN, Revived(t, ok)
     PROVE  SaveSteps
  BY <1>10 DEF Revived, ResumeFails, leaseVars
<1>11. ASSUME NEW t \in Task, NEW ok \in BOOLEAN, Begun(t, ok)
     PROVE  SaveSteps
  BY <1>11 DEF Begun, lifeVars, leaseVars, userVars
<1>12. ASSUME NEW t \in Task, PromptSettles(t)
     PROVE  SaveSteps
  BY <1>12 DEF PromptSettles, lifeVars, childVars, leaseVars, opVars, userVars
<1>13. ASSUME NEW t \in Task, PromptRejects(t)
     PROVE  SaveSteps
  BY <1>13 DEF PromptRejects, lifeVars, childVars, leaseVars, opVars, saveVars,
      userVars
<1>14. ASSUME NEW t \in Task, NEW ok \in BOOLEAN, OperationSettled(t, ok)
     PROVE  SaveSteps
  BY <1>14 DEF OperationSettled, leaseVars, opVars, userVars
<1>15. ASSUME NEW t \in Task, NEW ok \in BOOLEAN, QuestionChecked(t, ok)
     PROVE  SaveSteps
  BY <1>15 DEF QuestionChecked, childVars, leaseVars, opVars, endVars, userVars
<1>16. ASSUME NEW t \in Task, NEW ok \in BOOLEAN, QuestionSaved(t, ok)
     PROVE  SaveSteps
  BY <1>16 DEF QuestionSaved, leaseVars, childVars, opVars, endVars, userVars
<1>17. ASSUME NEW t \in Task, InterruptChecked(t)
     PROVE  SaveSteps
  BY <1>17 DEF InterruptChecked, childVars, leaseVars, opVars, endVars, userVars
<1>18. ASSUME NEW t \in Task, NEW ok \in BOOLEAN, InterruptSaved(t, ok)
     PROVE  SaveSteps
  BY <1>18 DEF InterruptSaved, lifeVars, childVars, opVars, userVars
<1>19. ASSUME NEW t \in Task, NEW ok \in BOOLEAN, TerminalChecked(t, ok)
     PROVE  SaveSteps
  BY <1>19 DEF TerminalChecked, childVars, leaseVars, opVars, userVars
<1>20. ASSUME NEW t \in Task, NEW ok \in BOOLEAN, ResultSaved(t, ok)
     PROVE  SaveSteps
  BY <1>20 DEF ResultSaved, childVars, opVars, userVars
<1>21. ASSUME NEW t \in Task, Unpending(t)
     PROVE  SaveSteps
  BY <1>21 DEF Unpending, leaseVars, childVars, lifeVars, opVars, endVars, userVars
<1>22. ASSUME NEW t \in Task, NEW ok \in BOOLEAN, Buried(t, ok)
     PROVE  SaveSteps
  BY <1>22 DEF Buried, lifeVars, opVars, userVars
<1>23. ASSUME NEW t \in Task, Joined(t)
     PROVE  SaveSteps
  BY <1>23 DEF Joined, lifeVars, childVars, leaseVars, opVars, endVars, saveVars,
      userVars
<1>24. ASSUME NEW t \in Task, WorkReturns(t)
     PROVE  SaveSteps
  BY <1>24 DEF WorkReturns, leaseVars, childVars, endVars, saveVars
<1>25. ASSUME NEW t \in Task, NEW byTool \in BOOLEAN, Cancel(t, byTool)
     PROVE  SaveSteps
  BY <1>25 DEF Cancel, lifeVars, leaseVars, opVars, saveVars
<1>26. ASSUME NEW t \in Task, Halted(t)
     PROVE  SaveSteps
  BY <1>26 DEF Halted, lifeVars, childVars, leaseVars, opVars, saveVars, userVars
<1>27. ASSUME NEW t \in Task, CancelReturns(t)
     PROVE  SaveSteps
  BY <1>27 DEF CancelReturns, childVars, leaseVars, opVars, saveVars
<1>28. ASSUME NEW t \in Task, Collect(t)
     PROVE  SaveSteps
  BY <1>28 DEF Collect, childVars, leaseVars, opVars, saveVars
<1>29. ASSUME NEW t \in Task, CollectReturns(t)
     PROVE  SaveSteps
  BY <1>29 DEF CollectReturns, lifeVars, childVars, leaseVars, opVars, saveVars
<1>30. ASSUME NEW t \in Task, Shutdown(t)
     PROVE  SaveSteps
  BY <1>30 DEF Shutdown, lifeVars, leaseVars, opVars, saveVars
<1>31. ASSUME NEW t \in Task, SetupDrained(t)
     PROVE  SaveSteps
  BY <1>31 DEF SetupDrained, lifeVars, leaseVars, opVars, endVars, saveVars, userVars
<1>32. ASSUME NEW t \in Task, OperationDrained(t)
     PROVE  SaveSteps
  BY <1>32 DEF OperationDrained, childVars, leaseVars, opVars, userVars
<1>33. ASSUME NEW t \in Task, NEW ok \in BOOLEAN, Preserved(t, ok)
     PROVE  SaveSteps
  BY <1>33 DEF Preserved, leaseVars, opVars, userVars
<1>34. ASSUME NEW t \in Task, ShutdownReturns(t)
     PROVE  SaveSteps
  BY <1>34 DEF ShutdownReturns, childVars, leaseVars, opVars, saveVars, userVars
<1>35. ASSUME NEW t \in Task, Signal(t)
     PROVE  SaveSteps
  BY <1>35 DEF Signal, lifeVars, leaseVars, opVars, endVars, saveVars, taskVars
<1>36. ASSUME Detach
     PROVE  SaveSteps
  BY <1>36 DEF Detach, childVars, leaseVars, endVars, saveVars, taskVars
<1>37. ASSUME LoseLease
     PROVE  SaveSteps
  BY <1>37 DEF LoseLease, lifeVars, opVars, endVars, taskVars, userVars
<1>38. ASSUME OtherTakes
     PROVE  SaveSteps
  BY <1>38 DEF OtherTakes, lifeVars, childVars, opVars, endVars, saveVars, taskVars,
      userVars
<1>39. ASSUME OtherReleases
     PROVE  SaveSteps
  BY <1>39 DEF OtherReleases, lifeVars, childVars, opVars, endVars, saveVars,
      taskVars, userVars
<1> HIDE DEF At, Saving, SaveSteps
<1> QED
  BY <1>1, <1>2, <1>3, <1>4, <1>5, <1>6, <1>7, <1>8, <1>9, <1>10, <1>11,
      <1>12, <1>13, <1>14, <1>15, <1>16, <1>17, <1>18, <1>19, <1>20, <1>21,
      <1>22, <1>23, <1>24, <1>25, <1>26, <1>27, <1>28, <1>29, <1>30, <1>31,
      <1>32, <1>33, <1>34, <1>35, <1>36, <1>37, <1>38, <1>39
      DEF Next, SaveCompletes, WorkspaceCompletes, Reacts, Called

(* The lease goes behind what the run has become. *)
LEMMA StepReleased ==
  ASSUME SerialParent, StateInv, CancelInv, OpenInv, ~closing', Next,
         lease, ~lease', faults' = {}
  PROVE  durable' \notin Active
<1> USE Distinct
DEF StateInv, OpenInv, Alone, Staged, Recorded, LetGo, At, Active, Parked,
           Terminal, Saving, Written
<1>1. ASSUME NEW t \in Task, NEW inBackground \in BOOLEAN, Start(t, inBackground)
     PROVE  durable' \notin Active
  BY <1>1, StartMoves
<1>2. ASSUME NEW t \in Task, NEW ok \in BOOLEAN, Reserved(t, ok)
     PROVE  durable' \notin Active
  BY <1>2, OpenSave DEF Reserved, Acquire, childVars, leaseVars
<1>3. ASSUME NEW t \in Task, ChildCreated(t)
     PROVE  durable' \notin Active
  BY <1>3 DEF ChildCreated, lifeVars, leaseVars, opVars, endVars, userVars
<1>4. ASSUME NEW t \in Task, ChildFailed(t)
     PROVE  durable' \notin Active
  BY <1>4 DEF ChildFailed, FinishTerminal, lifeVars, childVars, leaseVars, opVars,
      saveVars, userVars
<1>5. ASSUME NEW t \in Task, NEW ok \in BOOLEAN, Adopted(t, ok)
     PROVE  durable' \notin Active
  BY <1>5, OpenSave
    DEF Adopted, FinishTerminal, StopWork, FinishInterrupted, BeginOperation,
      leaseVars, userVars
<1>6. ASSUME NEW t \in Task, NEW byTool \in BOOLEAN, Resume(t, byTool)
     PROVE  durable' \notin Active
  BY <1>6, ResumeMoves
<1>7. ASSUME NEW t \in Task, Acquired(t)
     PROVE  durable' \notin Active
  BY <1>7 DEF Acquired, Acquire, leaseVars, childVars, opVars, endVars, userVars
<1>8. ASSUME NEW t \in Task, AcquireGivesUp(t)
     PROVE  durable' \notin Active
  BY <1>8 DEF AcquireGivesUp, ResumeFails, Release, childVars, opVars, endVars,
      saveVars
<1>9. ASSUME NEW t \in Task, NEW ok \in BOOLEAN, Repaired(t, ok)
     PROVE  durable' \notin Active
  BY <1>9, OpenSave
    DEF Repaired, ResumeFails, Release, leaseVars, childVars, opVars, endVars
<1>10. ASSUME NEW t \in Task, NEW ok \in BOOLEAN, Revived(t, ok)
     PROVE  durable' \notin Active
  BY <1>10, OpenSave
    DEF Revived, ResumeFails, Release, leaseVars, FinishTerminal, StopWork,
      FinishInterrupted, BeginOperation
<1>11. ASSUME NEW t \in Task, NEW ok \in BOOLEAN, Begun(t, ok)
     PROVE  durable' \notin Active
  BY <1>11, OpenSave
    DEF Begun, FinishTerminal, StopWork, FinishInterrupted, DriveInterruption,
      PromptFailure, lifeVars, leaseVars, userVars
<1>12. ASSUME NEW t \in Task, PromptSettles(t)
     PROVE  durable' \notin Active
  BY <1>12 DEF PromptSettles, FinishInterrupted, lifeVars, childVars, leaseVars,
      opVars, userVars
<1>13. ASSUME NEW t \in Task, PromptRejects(t)
     PROVE  durable' \notin Active
  BY <1>13 DEF PromptRejects, PromptFailure, DriveInterruption, FinishTerminal,
      FinishInterrupted, StopWork, lifeVars, childVars, leaseVars, opVars,
      saveVars, userVars
<1>14. ASSUME NEW t \in Task, NEW ok \in BOOLEAN, OperationSettled(t, ok)
     PROVE  durable' \notin Active
  BY <1>14, OpenSave DEF OperationSettled, FinishTerminal, StopWork, FinishInterrupted,
      DriveInterruption, leaseVars, opVars, userVars
<1>15. ASSUME NEW t \in Task, NEW ok \in BOOLEAN, QuestionChecked(t, ok)
     PROVE  durable' \notin Active
  BY <1>15 DEF QuestionChecked, FinalizeInterrupted, childVars, leaseVars, opVars,
      endVars, userVars
<1>16. ASSUME NEW t \in Task, NEW ok \in BOOLEAN, QuestionSaved(t, ok)
     PROVE  durable' \notin Active
  BY <1>16, OpenSave
    DEF QuestionSaved, FinalizeInterrupted, Release, leaseVars, childVars,
      opVars, endVars, userVars
<1>17. ASSUME NEW t \in Task, InterruptChecked(t)
     PROVE  durable' \notin Active
  BY <1>17 DEF InterruptChecked, FinalizeInterrupted, childVars, leaseVars, opVars,
      endVars, userVars
<1>18. ASSUME NEW t \in Task, NEW ok \in BOOLEAN, InterruptSaved(t, ok)
     PROVE  durable' \notin Active
  BY <1>18, OpenSave
    DEF InterruptSaved, Release, CompletionEnds, lifeVars, childVars, opVars,
      userVars
<1>19. ASSUME NEW t \in Task, NEW ok \in BOOLEAN, TerminalChecked(t, ok)
     PROVE  durable' \notin Active
  BY <1>19 DEF TerminalChecked, FinalizeInterrupted, RemoveRun, childVars, leaseVars,
      opVars, userVars
<1>20. ASSUME NEW t \in Task, NEW ok \in BOOLEAN, ResultSaved(t, ok)
     PROVE  durable' \notin Active
  BY <1>20, OpenSave
    DEF ResultSaved, Release, CompletionEnds, childVars, opVars, userVars
<1>21. ASSUME NEW t \in Task, Unpending(t)
     PROVE  durable' \notin Active
  BY <1>21 DEF Unpending, Release, leaseVars, childVars, lifeVars, opVars, endVars,
      userVars
<1>22. ASSUME NEW t \in Task, NEW ok \in BOOLEAN, Buried(t, ok)
     PROVE  durable' \notin Active
  BY <1>22, OpenSave DEF Buried, Release, CompletionEnds, lifeVars, opVars, userVars
<1>23. ASSUME NEW t \in Task, Joined(t)
     PROVE  durable' \notin Active
  BY <1>23 DEF Joined, lifeVars, childVars, leaseVars, opVars, endVars, saveVars,
      userVars
<1>24. ASSUME NEW t \in Task, WorkReturns(t)
     PROVE  durable' \notin Active
  BY <1>24 DEF WorkReturns, Release, leaseVars, childVars, endVars, saveVars
<1>25. ASSUME NEW t \in Task, NEW byTool \in BOOLEAN, Cancel(t, byTool)
     PROVE  durable' \notin Active
  BY <1>25, CancelMoves
<1>26. ASSUME NEW t \in Task, Halted(t)
     PROVE  durable' \notin Active
  BY <1>26 DEF Halted, FinishTerminal, lifeVars, childVars, leaseVars, opVars,
      saveVars, userVars
<1>27. ASSUME NEW t \in Task, CancelReturns(t)
     PROVE  durable' \notin Active
  BY <1>27 DEF CancelReturns, RemoveRun, childVars, leaseVars, opVars, saveVars
<1>28. ASSUME NEW t \in Task, Collect(t)
     PROVE  durable' \notin Active
  BY <1>28, CollectMoves
<1>29. ASSUME NEW t \in Task, CollectReturns(t)
     PROVE  durable' \notin Active
  BY <1>29 DEF CollectReturns, lifeVars, childVars, leaseVars, opVars, saveVars
<1>30. ASSUME NEW t \in Task, Shutdown(t)
     PROVE  durable' \notin Active
  BY <1>30 DEF Shutdown
<1>31. ASSUME NEW t \in Task, SetupDrained(t)
     PROVE  durable' \notin Active
  BY <1>31 DEF SetupDrained, lifeVars, leaseVars, opVars, endVars, saveVars, userVars
<1>32. ASSUME NEW t \in Task, OperationDrained(t)
     PROVE  durable' \notin Active
  BY <1>32 DEF OperationDrained, RemoveRun, FinishInterrupted, childVars, leaseVars,
      opVars, userVars
<1>33. ASSUME NEW t \in Task, NEW ok \in BOOLEAN, Preserved(t, ok)
     PROVE  durable' \notin Active
  BY <1>33, OpenSave DEF Preserved, RemoveRun, leaseVars, opVars, userVars
<1>34. ASSUME NEW t \in Task, ShutdownReturns(t)
     PROVE  durable' \notin Active
  BY <1>34 DEF ShutdownReturns, RemoveRun, childVars, leaseVars, opVars, saveVars,
      userVars
<1>35. ASSUME NEW t \in Task, Signal(t)
     PROVE  durable' \notin Active
  BY <1>35 DEF Signal, lifeVars, leaseVars, opVars, endVars, saveVars, taskVars
<1>36. ASSUME Detach
     PROVE  durable' \notin Active
  BY <1>36 DEF Detach, childVars, leaseVars, endVars, saveVars, taskVars
<1>37. ASSUME LoseLease
     PROVE  durable' \notin Active
  BY <1>37 DEF LoseLease, lifeVars, opVars, endVars, taskVars, userVars, Fault
<1>38. ASSUME OtherTakes
     PROVE  durable' \notin Active
  BY <1>38 DEF OtherTakes, lifeVars, childVars, opVars, endVars, saveVars, taskVars,
      userVars
<1>39. ASSUME OtherReleases
     PROVE  durable' \notin Active
  BY <1>39 DEF OtherReleases, lifeVars, childVars, opVars, endVars, saveVars,
      taskVars, userVars
<1> HIDE DEF StateInv, OpenInv, Alone, Staged, Recorded, LetGo, At, Active, Parked,
           Terminal, Saving, Written
<1> QED
  BY <1>1, <1>2, <1>3, <1>4, <1>5, <1>6, <1>7, <1>8, <1>9, <1>10, <1>11,
      <1>12, <1>13, <1>14, <1>15, <1>16, <1>17, <1>18, <1>19, <1>20, <1>21,
      <1>22, <1>23, <1>24, <1>25, <1>26, <1>27, <1>28, <1>29, <1>30, <1>31,
      <1>32, <1>33, <1>34, <1>35, <1>36, <1>37, <1>38, <1>39
      DEF Next, SaveCompletes, WorkspaceCompletes, Reacts, Called


LEMMA OpenStarts ==
  ASSUME Init
  PROVE  OpenInv
<1> USE Distinct DEF Init
<1>1. Alone /\ ToolWaits /\ Staged /\ Content
  BY DEF Alone, Busy, ToolWaits, Works, Staged, Content
<1>2. Recorded /\ ChildKept /\ LetGo
  BY DEF Recorded, Terminal, ChildKept, LetGo
<1> QED BY <1>1, <1>2 DEF OpenInv

LEMMA OpenStutters ==
  ASSUME OpenInv, UNCHANGED vars
  PROVE  OpenInv'
<1> USE DEF vars, lifeVars, childVars, leaseVars, opVars, endVars, saveVars,
        taskVars, userVars
<1>1. Alone' /\ ToolWaits' /\ Staged'
  BY DEF OpenInv, Alone, Busy, ToolWaits, Works, Staged
<1>2. Content'
  BY DEF OpenInv, Content, Written
<1>3. Recorded' /\ ChildKept' /\ LetGo'
  BY DEF OpenInv, Recorded, ChildKept, LetGo
<1> QED BY <1>1, <1>2, <1>3 DEF OpenInv

LEMMA OpenStep ==
  ASSUME SerialParent, StateInv, CancelInv, LeaseReturned, closing \/ OpenInv, [Next]_vars
  PROVE  closing' \/ OpenInv'
<1>1. CASE UNCHANGED vars
  BY <1>1, OpenStutters DEF vars, userVars
<1>2. CASE Next
  <2>1. CallSteps /\ PrepareSteps /\ QueueStep /\ FaultSteps /\ StateInv'
    BY <1>2, StepCalls, StepPrepare, StepWrites, StepFaults, StateStep
  <2>2. SUFFICES ASSUME OpenInv, ~closing' PROVE OpenInv'
    BY <2>1 DEF CallSteps
  <2>3. OneSettles
    BY DEF CancelInv
  <2>4. Alone' /\ ToolWaits' /\ Staged'
    BY <1>2, <2>2, <2>3, StepAlone, StepTool, StepStaged
  <2>5. Content'
    <3>1. WrittenSteps
      BY <1>2, <2>2, <2>3, StepWritten
    <3> QED BY <2>1, <2>2, <2>4, <3>1, ContentKept DEF OpenInv, PrepareSteps
  <2>6. Recorded' /\ ChildKept' /\ LetGo'
    BY <1>2, <2>2, StepRecorded, StepChild, StepLetGo
  <2> QED BY <2>4, <2>5, <2>6 DEF OpenInv
<1> QED BY <1>1, <1>2

LEMMA OpenAlways ==
  ASSUME SerialParent
  PROVE  Spec => [](StateInv /\ CancelInv /\ LeaseReturned /\ (closing \/ OpenInv))
<1>1. Init => closing \/ OpenInv
  BY OpenStarts
<1>2. StateInv /\ CancelInv /\ LeaseReturned /\ (closing \/ OpenInv) /\ [Next]_vars =>
        (closing \/ OpenInv)'
  BY OpenStep
<1>3. Init => StateInv /\ CancelInv
  BY StateStarts, CancelStarts
<1>4. StateInv /\ CancelInv /\ [Next]_vars => (StateInv /\ CancelInv)'
  BY StateStep, CancelStep
<1> QED BY <1>1, <1>2, <1>3, <1>4, LeaseComesBack, PTL DEF Spec

(* Until a shutdown, a serial parent is offered no result that is not on     *)
(* disk.                                                                     *)
THEOREM SerialResultsDurable ==
  ASSUME ~Browser, ~Polls
  PROVE  Spec => [](~closing => RetainedIsDurable)
<1>1. Spec => [](StateInv /\ CancelInv /\ LeaseReturned /\ (closing \/ OpenInv))
  BY OpenAlways DEF SerialParent
<1>2. OpenInv => RetainedIsDurable
  BY DEF OpenInv, Recorded, RetainedIsDurable
<1> QED BY <1>1, <1>2, PTL

(* Until a shutdown, a serial parent leaves no child session behind.         *)
THEOREM SerialChildrenDisposed ==
  ASSUME ~Browser, ~Polls
  PROVE  Spec => [](~closing => ChildDisposed)
<1>1. Spec => [](StateInv /\ CancelInv /\ LeaseReturned /\ (closing \/ OpenInv))
  BY OpenAlways DEF SerialParent
<1>2. OpenInv => ChildDisposed
  BY DEF OpenInv, ChildKept, ChildDisposed, Idle
<1> QED BY <1>1, <1>2, PTL

LEMMA StaysOpenAlways ==
  ASSUME "shutdown" \notin Calls
  PROVE  Spec => []~closing
<1>1. Init => ~closing
  BY DEF Init
<1>2. ~closing /\ [Next]_vars => ~closing'
  BY StaysOpen DEF vars, userVars
<1> QED BY <1>1, <1>2, PTL DEF Spec

(* As long as nothing fails and the manager is not shut down, a serial       *)
(* parent gives the lease up only behind a record that says nobody works.    *)
THEOREM SerialReleasesDurable ==
  ASSUME ~Browser, ~Polls, "shutdown" \notin Calls
  PROVE  Spec => ReleasedDurable
<1>1. Spec => [](StateInv /\ CancelInv /\ LeaseReturned /\ (closing \/ OpenInv))
  BY OpenAlways DEF SerialParent
<1>2. StateInv /\ CancelInv /\ OpenInv /\ ~closing' /\ [Next]_vars =>
        [(lease /\ ~lease' /\ faults' = {}) => durable' \notin Active]_vars
  BY StepReleased DEF SerialParent
<1> QED BY <1>1, <1>2, StaysOpenAlways, PTL DEF Spec, ReleasedDurable

(* A save moves the record forward, or leaves it. *)
LEMMA SaveForward ==
  ASSUME StateInv, OpenInv, NEW t \in Task, NEW ok \in BOOLEAN,
         pc[t] \in Saving, SaveEnds(t, ok)
  PROVE  \/ durable' = durable
         \/ durable = "none" /\ durable' \in Active \cup Parked
         \/ durable \in Active \cup Parked /\ durable' \in Status \cup {"removed"}
         \/ durable \in Terminal /\ durable' = "removed"
<1>1. ok => durable' \in Written(t)
  BY OpenSave DEF OpenInv
<1>2. ~ok => durable' = durable
  BY OpenSave DEF OpenInv
<1>3. CASE durable = "none"
  <2>1. pc[t] = "reserve"
    BY <1>3 DEF OpenInv, Recorded, Saving
  <2> QED BY <1>1, <1>2, <1>3, <2>1 DEF Written
<1>4. CASE durable \in Terminal
  <2>1. pc[t] = "bury"
    BY <1>4 DEF OpenInv, Recorded, Saving
  <2> QED BY <1>1, <1>2, <1>4, <2>1 DEF Written
<1>5. CASE durable = "removed"
  BY <1>5 DEF OpenInv, Recorded, Saving
<1>6. CASE durable \in Active \cup Parked
  <2>1. Written(t) \subseteq Status \cup {"removed"}
    BY DEF Written, OpenInv, Staged, Status
  <2> QED BY <1>1, <1>2, <1>6, <2>1
<1>7. durable \in Status \cup {"none", "removed"}
  BY DEF StateInv, ValueTypes
<1> QED BY <1>3, <1>4, <1>5, <1>6, <1>7 DEF Status

(* A step changes the record the way the contract allows. *)
LEMMA RecordStep ==
  ASSUME StateInv, OpenInv, [Next]_vars
  PROVE  [Contract!Next]_Record
<1>1. CASE durable' = durable
  BY <1>1 DEF Record, Contract!Next
<1>2. ASSUME NEW u \in Task, NEW done \in BOOLEAN, pc[u] \in Saving, SaveEnds(u, done)
      PROVE  [Contract!Next]_Record
  <2>1. \/ durable' = durable
        \/ durable = "none" /\ durable' \in Active \cup Parked
        \/ durable \in Active \cup Parked /\ durable' \in Status \cup {"removed"}
        \/ durable \in Terminal /\ durable' = "removed"
    BY <1>2, SaveForward
  <2> QED BY <2>1 DEF Record, Contract!Next, Contract!Reserve, Contract!Settle,
      Contract!Remove, Status, Active, Parked, Terminal
<1>3. CASE Next
  BY <1>1, <1>2, <1>3, StepSaves DEF SaveSteps
<1>4. CASE UNCHANGED vars
  BY <1>1, <1>4 DEF vars, saveVars
<1> QED BY <1>3, <1>4

(* With a serial parent and no shutdown, the record on disk of a run keeps   *)
(* the promise of RunRecord: it opens, settles once and is removed, and what *)
(* was in flight never ends up over a result or a tombstone.                 *)
THEOREM SerialRecordForward ==
  ASSUME ~Browser, ~Polls, "shutdown" \notin Calls
  PROVE  Spec => RecordMovesForward
<1>1. Spec => [](StateInv /\ CancelInv /\ LeaseReturned /\ (closing \/ OpenInv))
  BY OpenAlways DEF SerialParent
<1>2. Init => Contract!Init
  BY DEF Init, Contract!Init, Record, Terminal
<1>3. StateInv /\ OpenInv /\ [Next]_vars => [Contract!Next]_Record
  BY RecordStep
<1> QED BY <1>1, <1>2, <1>3, StaysOpenAlways, PTL
DEF Spec, RecordMovesForward, Contract!Spec
=============================================================================
