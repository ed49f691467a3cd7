------------------------- MODULE RunLifecycleProofs -------------------------
(* Proofs about the life of a run, for any calls in any number, made by the  *)
(* tool or from /agents in any order, and with any of the faults.           *)
EXTENDS RunLifecycle, SequenceTheorems, TLAPS

-----------------------------------------------------------------------------
(* Which steps a call goes through, and the writes in flight. *)

WorkSteps == {"begin", "prompt", "settle", "question", "park", "interrupt",
              "yield", "finish", "join", "retain", "remove", "bury", "back", "done"}

CancelSteps == {"halt", "finish", "join", "yield", "retain", "remove", "bury",
                "back", "done"}

ShutdownSteps == {"drainSetup", "drainOperation", "interrupt", "yield",
                  "preserve", "remove", "back", "done"}

(* A call is at one of its own steps. *)
Placed ==
  \A t \in Task :
    /\ call[t] = "none" => pc[t] = "idle"
    /\ call[t] = "start" => pc[t] \in WorkSteps \cup {"reserve", "setup", "adopt"}
    /\ call[t] = "resume" => pc[t] \in WorkSteps \cup {"acquire", "repair", "revive"}
    /\ call[t] = "cancel" => pc[t] \in CancelSteps
    /\ call[t] = "collect" => pc[t] \in {"remove", "bury", "back", "done"}
    /\ call[t] = "shutdown" => pc[t] \in ShutdownSteps

(* What a settlement commits, and what a failed preparation goes back to.   *)
Wanted ==
  \A t \in Task :
    /\ call[t] = "none" => want[t] = "none"
    /\ pc[t] = "finish" => want[t] \in Terminal
    /\ pc[t] \in {"acquire", "repair", "revive"} => want[t] \in Parked

(* Nothing happens before the run is started. *)
NotYet ==
  status = "none" =>
    /\ \A t \in Task : call[t] = "none"
    /\ ~registered /\ ~lease /\ ~lost /\ ~detachable
    /\ completion = None /\ outcome = None

Write == [task : Task, status : Status \cup {"removed"}, refused : BOOLEAN]

(* The queue holds one write of each call that waits for one. *)
Matches(q, p) ==
  /\ \A t \in Task : p[t] \in Saving => \E i \in DOMAIN q : q[i].task = t
  /\ \A i \in DOMAIN q : p[q[i].task] \in Saving
  /\ \A i, j \in DOMAIN q : q[i].task = q[j].task => i = j

Writes == Matches(queue, pc)

(* The same of all calls but t, which has no write. *)
MatchesBut(q, p, t) ==
  /\ \A u \in Task \ {t} : p[u] \in Saving => \E i \in DOMAIN q : q[i].task = u
  /\ \A i \in DOMAIN q : q[i].task # t /\ p[q[i].task] \in Saving
  /\ \A i, j \in DOMAIN q : q[i].task = q[j].task => i = j

(* What is left of a sequence without its i-th element. *)
LEMMA RemovedAt ==
  ASSUME NEW S, NEW q \in Seq(S), NEW i \in DOMAIN q
  PROVE  /\ RemoveAt(q, i) \in Seq(S)
         /\ Len(RemoveAt(q, i)) = Len(q) - 1
         /\ \A j \in 1..(Len(q) - 1) : RemoveAt(q, i)[j] = IF j < i THEN q[j] ELSE q[j + 1]
<1> DEFINE a == SubSeq(q, 1, i - 1)
           b == SubSeq(q, i + 1, Len(q))
<1>1. Len(q) \in Nat /\ i \in 1..Len(q) /\ DOMAIN q = 1..Len(q)
  OBVIOUS
<1>2. /\ a \in Seq(S) /\ Len(a) = i - 1
      /\ \A j \in 1..(i - 1) : a[j] = q[j]
  BY <1>1
<1>3. /\ b \in Seq(S) /\ Len(b) = Len(q) - i
      /\ \A j \in 1..(Len(q) - i) : b[j] = q[i + j]
  BY <1>1
<1>4. RemoveAt(q, i) = a \o b
  BY DEF RemoveAt
<1> HIDE DEF a, b
<1>5. a \o b \in Seq(S) /\ Len(a \o b) = Len(a) + Len(b)
  BY <1>2, <1>3, ConcatProperties
<1>6. ASSUME NEW j \in 1..(Len(q) - 1)
      PROVE  (a \o b)[j] = IF j < i THEN q[j] ELSE q[j + 1]
  <2>1. CASE j < i
    BY <1>1, <1>2, <1>3, <2>1
  <2>2. CASE ~(j < i)
    <3>1. (a \o b)[j] = b[j - Len(a)]
      BY <1>1, <1>2, <1>3, <2>2
    <3>2. j - Len(a) \in 1..(Len(q) - i) /\ i + (j - Len(a)) = j + 1
      BY <1>1, <1>2, <2>2
    <3> QED BY <1>3, <3>1, <3>2, <2>2
  <2> QED BY <2>1, <2>2
<1> QED BY <1>1, <1>2, <1>3, <1>4, <1>5, <1>6

(* The write of a call that waits for one is in the queue, at one place. *)
LEMMA EntryFound ==
  ASSUME NEW t \in Task, Writes, pc[t] \in Saving
  PROVE  /\ Entry(t) \in DOMAIN queue /\ queue[Entry(t)].task = t
         /\ \A i \in DOMAIN queue : queue[i].task = t => i = Entry(t)
<1>1. \E i \in DOMAIN queue : queue[i].task = t
  BY DEF Writes, Matches
<1>2. Entry(t) \in DOMAIN queue /\ queue[Entry(t)].task = t
  BY <1>1 DEF Entry
<1> QED BY <1>2 DEF Writes, Matches

(* Its removal leaves the others, in their order. *)
LEMMA RestKeeps ==
  ASSUME NEW t \in Task, queue \in Seq(Write), Writes, pc[t] \in Saving
  PROVE  /\ Rest(t) \in Seq(Write)
         /\ \A j \in DOMAIN Rest(t) : \E k \in DOMAIN queue \ {Entry(t)} : Rest(t)[j] = queue[k]
         /\ \A k \in DOMAIN queue : queue[k].task # t => \E j \in DOMAIN Rest(t) : Rest(t)[j] = queue[k]
         /\ \A i, j \in DOMAIN Rest(t) : Rest(t)[i].task = Rest(t)[j].task => i = j
         /\ Entry(t) # 1 => Rest(t) # <<>> /\ Rest(t)[1] = queue[1]
<1> DEFINE e == Entry(t)
           r == Rest(t)
<1>1. /\ e \in DOMAIN queue /\ queue[e].task = t
      /\ \A i \in DOMAIN queue : queue[i].task = t => i = e
  BY EntryFound
<1>2. /\ Len(queue) \in Nat /\ DOMAIN queue = 1..Len(queue)
      /\ e \in 1..Len(queue)
  BY <1>1
<1>3. r = RemoveAt(queue, e)
  BY DEF Rest
<1> HIDE DEF e, r
<1>4. /\ r \in Seq(Write) /\ Len(r) = Len(queue) - 1
      /\ \A j \in 1..(Len(queue) - 1) : r[j] = IF j < e THEN queue[j] ELSE queue[j + 1]
  BY <1>1, <1>3, RemovedAt
<1>5. DOMAIN r = 1..(Len(queue) - 1)
  BY <1>4
<1>6. \A j \in DOMAIN r : /\ j < e => j \in DOMAIN queue \ {e} /\ r[j] = queue[j]
                          /\ ~(j < e) => j + 1 \in DOMAIN queue \ {e} /\ r[j] = queue[j + 1]
  BY <1>2, <1>4, <1>5
<1>7. \A j \in DOMAIN r : \E k \in DOMAIN queue \ {e} : r[j] = queue[k]
  BY <1>6
<1>8. ASSUME NEW k \in DOMAIN queue, queue[k].task # t
      PROVE  \E j \in DOMAIN r : r[j] = queue[k]
  <2>1. CASE k < e
    <3>1. k \in DOMAIN r
      BY <1>2, <1>5, <2>1
    <3> QED BY <3>1, <1>6, <2>1
  <2>2. CASE ~(k < e)
    <3>1. k > e
      BY <1>1, <1>2, <1>8, <2>2
    <3>2. k - 1 \in DOMAIN r /\ ~(k - 1 < e) /\ (k - 1) + 1 = k
      BY <1>2, <1>5, <3>1
    <3> QED BY <3>2, <1>6
  <2> QED BY <2>1, <2>2
<1>9. ASSUME NEW i \in DOMAIN r, NEW j \in DOMAIN r, r[i].task = r[j].task
      PROVE  i = j
  <2>1. \A k, l \in DOMAIN queue : queue[k].task = queue[l].task => k = l
    BY DEF Writes, Matches
  <2> QED BY <1>2, <1>5, <1>6, <1>9, <2>1
<1>10. e # 1 => r # <<>> /\ r[1] = queue[1]
  <2>1. SUFFICES ASSUME e # 1 PROVE r # <<>> /\ r[1] = queue[1]
    OBVIOUS
  <2>2. 1 \in 1..(Len(queue) - 1) /\ 1 < e
    BY <1>2, <2>1
  <2> QED BY <1>4, <1>5, <2>2
<1> QED BY <1>4, <1>7, <1>8, <1>9, <1>10 DEF e, r

(* Without its write, a call is the only one that has none. *)
LEMMA RestMatches ==
  ASSUME NEW t \in Task, queue \in Seq(Write), Writes, pc[t] \in Saving
  PROVE  Rest(t) \in Seq(Write) /\ MatchesBut(Rest(t), pc, t)
<1>1. \A i \in DOMAIN queue : queue[i].task = t => i = Entry(t)
  BY EntryFound
<1>2. \A j \in DOMAIN Rest(t) : Rest(t)[j].task # t /\ pc[Rest(t)[j].task] \in Saving
  BY <1>1, RestKeeps DEF Writes, Matches
<1>3. ASSUME NEW u \in Task \ {t}, pc[u] \in Saving
      PROVE  \E j \in DOMAIN Rest(t) : Rest(t)[j].task = u
  <2>1. PICK k \in DOMAIN queue : queue[k].task = u
    BY <1>3 DEF Writes, Matches
  <2>2. \E j \in DOMAIN Rest(t) : Rest(t)[j] = queue[k]
    BY <2>1, RestKeeps
  <2> QED BY <2>1, <2>2
<1> QED BY <1>2, <1>3, RestKeeps DEF MatchesBut

(* A call that waits for no write has none. *)
LEMMA QueueMatches ==
  ASSUME NEW t \in Task, Writes, pc[t] \notin Saving
  PROVE  MatchesBut(queue, pc, t)
BY DEF Writes, Matches, MatchesBut

(* A call goes on without a write, or with a new one. *)
LEMMA GoesUnwritten ==
  ASSUME NEW q \in Seq(Write), NEW p \in [Task -> Label], NEW t \in Task,
         NEW label \in Label \ Saving, MatchesBut(q, p, t)
  PROVE  Matches(q, [p EXCEPT ![t] = label])
<1>1. \A i \in DOMAIN q : q[i] \in Write
  OBVIOUS
<1> QED BY <1>1 DEF Matches, MatchesBut, Write

(* With a new one, it is the call of that write. *)
LEMMA GoesWriting ==
  ASSUME NEW q \in Seq(Write), NEW p \in [Task -> Label], NEW t \in Task,
         NEW label \in Saving, NEW w \in Write, w.task = t, MatchesBut(q, p, t)
  PROVE  Append(q, w) \in Seq(Write) /\ Matches(Append(q, w), [p EXCEPT ![t] = label])
<1> DEFINE a == Append(q, w)
           p2 == [p EXCEPT ![t] = label]
<1>1. /\ a \in Seq(Write) /\ Len(q) \in Nat
      /\ DOMAIN q = 1..Len(q) /\ DOMAIN a = 1..(Len(q) + 1)
      /\ \A i \in DOMAIN q : a[i] = q[i]
      /\ a[Len(q) + 1] = w
  OBVIOUS
<1>2. \A i \in DOMAIN q : q[i].task \in Task
  <2>1. \A i \in DOMAIN q : q[i] \in Write
    OBVIOUS
  <2> QED BY <2>1 DEF Write
<1>3. p2[t] = label /\ \A u \in Task \ {t} : p2[u] = p[u]
  OBVIOUS
<1> HIDE DEF a, p2
<1>4. \A i \in DOMAIN a : i \in DOMAIN q \/ i = Len(q) + 1
  BY <1>1
<1>5. \A u \in Task : p2[u] \in Saving => \E i \in DOMAIN a : a[i].task = u
  <2>1. Len(q) + 1 \in DOMAIN a /\ \A i \in DOMAIN q : i \in DOMAIN a
    BY <1>1
  <2>2. \A u \in Task \ {t} : p[u] \in Saving => \E i \in DOMAIN q : q[i].task = u
    BY DEF MatchesBut
  <2>3. \A u \in Task \ {t} : p[u] \in Saving => \E i \in DOMAIN a : a[i].task = u
    BY <2>1, <2>2, <1>1
  <2> QED BY <1>1, <1>3, <2>1, <2>3
<1>6. \A i \in DOMAIN a : p2[a[i].task] \in Saving
  BY <1>1, <1>2, <1>3, <1>4 DEF MatchesBut
<1>7. \A i, j \in DOMAIN a : a[i].task = a[j].task => i = j
  <2>1. \A i, j \in DOMAIN q : q[i].task = q[j].task => i = j
    BY DEF MatchesBut
  <2>2. \A i \in DOMAIN q : q[i].task # t
    BY DEF MatchesBut
  <2> QED BY <1>1, <1>4, <2>1, <2>2
<1> QED BY <1>1, <1>5, <1>6, <1>7 DEF Matches, a, p2

-----------------------------------------------------------------------------
(* Types of everything but the queue. *)
RunTypes ==
  /\ registered \in BOOLEAN /\ background \in BOOLEAN /\ detachable \in BOOLEAN
  /\ handle \in BOOLEAN /\ disposed \in BOOLEAN /\ aborting \in BOOLEAN
  /\ lease \in BOOLEAN /\ lost \in BOOLEAN
  /\ retained \in BOOLEAN /\ collected \in BOOLEAN /\ closing \in BOOLEAN
  /\ raced \in BOOLEAN

SetTypes ==
  /\ told \subseteq Task
  /\ asked \subseteq {"cancel", "shutdown"}
  /\ signalled \subseteq Task
  /\ faults \subseteq Faults

ValueTypes ==
  /\ status \in Status \cup {"none"}
  /\ ledger \in {"free", "mine", "other"}
  /\ operation \in Task \cup {None} /\ settled \in Task \cup {None}
  /\ backgroundTask \in Task \cup {None}
  /\ outcome \in Terminal \cup {None}
  /\ completion \in Task \cup {None, Settled}
  /\ durable \in Status \cup {"none", "removed"}
  /\ tool \in Task \cup {None}

TaskTypes ==
  /\ call \in [Task -> {"none", "start", "resume", "cancel", "collect", "shutdown"}]
  /\ pc \in [Task -> Label]
  /\ want \in [Task -> Status \cup {"none", "removed"}]
  /\ awaits \in [Task -> Task \cup {None}]

StateInv ==
  /\ RunTypes /\ SetTypes /\ ValueTypes /\ TaskTypes
  /\ queue \in Seq(Write)
  /\ Placed /\ Wanted /\ NotYet
  /\ Writes

(* How a step changes the queue with the place of the call it is about. *)
WriteStep(t) ==
  /\ pc' = [pc EXCEPT ![t] = pc'[t]] /\ pc'[t] # pc[t]
  /\ \/ /\ pc[t] \notin Saving /\ pc'[t] \notin Saving
        /\ queue' = queue
     \/ /\ pc[t] \notin Saving /\ pc'[t] \in Saving
        /\ \E s \in Status \cup {"removed"} : queue' = Saved(queue, t, s)
     \/ /\ pc[t] \in Saving /\ pc'[t] \notin Saving
        /\ queue' = Rest(t)
     \/ /\ pc[t] \in Saving /\ pc'[t] \in Saving
        /\ \E s \in Status \cup {"removed"} : queue' = Saved(Rest(t), t, s)

QueueStep == UNCHANGED <<pc, queue>> \/ \E t \in Task : WriteStep(t)

(* A cancellation waits for the work to halt, or settles the run itself. *)
LEMMA CancelMoves ==
  ASSUME NEW t \in Task, NEW byTool \in BOOLEAN, Cancel(t, byTool)
  PROVE  /\ pc[t] = "idle" /\ registered
         /\ call' = [call EXCEPT ![t] = "cancel"]
         /\ \/ Goto(t, "halt") /\ want' = want /\ completion' = completion
            \/ FinishTerminal(t, "canceled")
         /\ status' = status /\ registered' = registered /\ background' = background
         /\ lease' = lease /\ lost' = lost /\ outcome' = outcome
         /\ queue' = queue /\ faults' = faults /\ closing' = closing
<1>1. pc[t] = "idle" /\ registered
  BY DEF Cancel, Unused
<1>2. \/ Goto(t, "halt") /\ want' = want /\ completion' = completion
      \/ FinishTerminal(t, "canceled")
  BY DEF Cancel
<1>3. call' = [call EXCEPT ![t] = "cancel"] /\ closing' = closing
  BY DEF Cancel
<1>4. /\ status' = status /\ registered' = registered /\ background' = background
      /\ lease' = lease /\ lost' = lost /\ outcome' = outcome
      /\ queue' = queue /\ faults' = faults
  BY DEF Cancel, lifeVars, leaseVars, saveVars
<1> QED BY <1>1, <1>2, <1>3, <1>4

(* The end of a write changes the record and the faults, nothing else. *)
LEMMA SaveEndsTypes ==
  ASSUME StateInv, NEW t \in Task, NEW ok \in BOOLEAN, pc[t] \in Saving, SaveEnds(t, ok)
  PROVE  /\ durable' \in Status \cup {"none", "removed"}
         /\ faults' \subseteq Faults /\ faults \subseteq faults'
         /\ "checkpoint" \in faults' => "checkpoint" \in faults
<1>1. Entry(t) \in DOMAIN queue
  BY EntryFound DEF StateInv
<1>2. queue[Entry(t)] \in Write
  BY <1>1 DEF StateInv
<1> QED BY <1>2 DEF SaveEnds, Fault, Write, StateInv, ValueTypes, SetTypes

(* Flags stay flags. *)
LEMMA StepRun ==
  ASSUME StateInv, Next
  PROVE  RunTypes'
<1> USE DEF StateInv, RunTypes
<1>1. ASSUME NEW t \in Task, NEW inBackground \in BOOLEAN, Start(t, inBackground)
     PROVE  RunTypes'
  BY <1>1 DEF Start, Unused, childVars, leaseVars, opVars, endVars
<1>2. ASSUME NEW t \in Task, NEW ok \in BOOLEAN, Reserved(t, ok)
     PROVE  RunTypes'
  BY <1>2 DEF Reserved, Acquire, childVars, leaseVars
<1>3. ASSUME NEW t \in Task, ChildCreated(t)
     PROVE  RunTypes'
  BY <1>3 DEF ChildCreated, lifeVars, leaseVars, opVars, endVars, userVars
<1>4. ASSUME NEW t \in Task, ChildFailed(t)
     PROVE  RunTypes'
  BY <1>4 DEF ChildFailed, lifeVars, childVars, leaseVars, opVars, saveVars,
      userVars
<1>5. ASSUME NEW t \in Task, NEW ok \in BOOLEAN, Adopted(t, ok)
     PROVE  RunTypes'
  <2>1. detachable' \in BOOLEAN
    BY <1>5 DEF Adopted, BeginOperation
  <2>2. aborting' \in BOOLEAN
    BY <1>5 DEF Adopted, BeginOperation, AbortRun
  <2> QED
    BY <1>5, <2>1, <2>2 DEF Adopted, leaseVars, userVars
<1>6. ASSUME NEW t \in Task, NEW byTool \in BOOLEAN, Resume(t, byTool)
     PROVE  RunTypes'
  BY <1>6 DEF Resume, Unused, ByTool, ByBrowser, lifeVars, childVars, leaseVars,
      opVars, endVars, saveVars
<1>7. ASSUME NEW t \in Task, Acquired(t)
     PROVE  RunTypes'
  BY <1>7, ZenonT(60) DEF Acquired, Acquire, leaseVars, childVars, opVars, endVars, userVars
<1>8. ASSUME NEW t \in Task, AcquireGivesUp(t)
     PROVE  RunTypes'
  BY <1>8 DEF AcquireGivesUp, ResumeFails, Release, childVars, opVars, endVars,
      saveVars
<1>9. ASSUME NEW t \in Task, NEW ok \in BOOLEAN, Repaired(t, ok)
     PROVE  RunTypes'
  BY <1>9, ZenonT(60) DEF Repaired, ResumeFails, Release, leaseVars, childVars, opVars, endVars
<1>10. ASSUME NEW t \in Task, NEW ok \in BOOLEAN, Revived(t, ok)
     PROVE  RunTypes'
  <2>1. detachable' \in BOOLEAN
    BY <1>10 DEF Revived, BeginOperation
  <2>2. aborting' \in BOOLEAN
    BY <1>10 DEF Revived, BeginOperation, AbortRun
  <2>3. lease' \in BOOLEAN
    BY <1>10 DEF Revived, ResumeFails, Release, leaseVars
  <2> QED
    BY <1>10, <2>1, <2>2, <2>3 DEF Revived
<1>11. ASSUME NEW t \in Task, NEW ok \in BOOLEAN, Begun(t, ok)
     PROVE  RunTypes'
  <2>1. aborting' \in BOOLEAN
    BY <1>11 DEF Begun, AbortRun
  <2> QED
    BY <1>11, <2>1 DEF Begun, lifeVars, leaseVars, userVars
<1>12. ASSUME NEW t \in Task, PromptSettles(t)
     PROVE  RunTypes'
  BY <1>12 DEF PromptSettles, FinishInterrupted, lifeVars, childVars, leaseVars,
      opVars, userVars
<1>13. ASSUME NEW t \in Task, PromptRejects(t)
     PROVE  RunTypes'
  BY <1>13 DEF PromptRejects, FinishInterrupted, StopWork, lifeVars, childVars,
      leaseVars, opVars, saveVars, userVars
<1>14. ASSUME NEW t \in Task, NEW ok \in BOOLEAN, OperationSettled(t, ok)
     PROVE  RunTypes'
  BY <1>14, ZenonT(60) DEF OperationSettled, StopWork, FinishInterrupted, AbortRun, leaseVars,
      opVars, userVars
<1>15. ASSUME NEW t \in Task, NEW ok \in BOOLEAN, QuestionChecked(t, ok)
     PROVE  RunTypes'
  BY <1>15 DEF QuestionChecked, WorkspaceChecked, FinalizeInterrupted, childVars,
      leaseVars, opVars, endVars, userVars
<1>16. ASSUME NEW t \in Task, NEW ok \in BOOLEAN, QuestionSaved(t, ok)
     PROVE  RunTypes'
  BY <1>16, ZenonT(60) DEF QuestionSaved, FinalizeInterrupted, Release, leaseVars, childVars,
      opVars, endVars, userVars
<1>17. ASSUME NEW t \in Task, InterruptChecked(t)
     PROVE  RunTypes'
  BY <1>17 DEF InterruptChecked, FinalizeInterrupted, childVars, leaseVars, opVars,
      endVars, userVars
<1>18. ASSUME NEW t \in Task, NEW ok \in BOOLEAN, InterruptSaved(t, ok)
     PROVE  RunTypes'
  BY <1>18 DEF InterruptSaved, Release, CompletionEnds, lifeVars, childVars, opVars,
      userVars
<1>19. ASSUME NEW t \in Task, NEW ok \in BOOLEAN, TerminalChecked(t, ok)
     PROVE  RunTypes'
  BY <1>19, ZenonT(60) DEF TerminalChecked, WorkspaceChecked, FinalizeInterrupted, RemoveRun,
      childVars, leaseVars, opVars, userVars
<1>20. ASSUME NEW t \in Task, NEW ok \in BOOLEAN, ResultSaved(t, ok)
     PROVE  RunTypes'
  BY <1>20, ZenonT(60) DEF ResultSaved, Release, CompletionEnds, DisposeRun, childVars, opVars,
      userVars
<1>21. ASSUME NEW t \in Task, Unpending(t)
     PROVE  RunTypes'
  BY <1>21, ZenonT(60) DEF Unpending, Release, DisposeRun, leaseVars, childVars, lifeVars,
      opVars, endVars, userVars
<1>22. ASSUME NEW t \in Task, NEW ok \in BOOLEAN, Buried(t, ok)
     PROVE  RunTypes'
  BY <1>22 DEF Buried, Release, DisposeRun, CompletionEnds, lifeVars, opVars,
      userVars
<1>23. ASSUME NEW t \in Task, Joined(t)
     PROVE  RunTypes'
  BY <1>23 DEF Joined, lifeVars, childVars, leaseVars, opVars, endVars, saveVars,
      userVars
<1>24. ASSUME NEW t \in Task, WorkReturns(t)
     PROVE  RunTypes'
  BY <1>24 DEF WorkReturns, Release, leaseVars, childVars, endVars, saveVars
<1>25. ASSUME NEW t \in Task, NEW byTool \in BOOLEAN, Cancel(t, byTool)
     PROVE  RunTypes'
  BY <1>25 DEF Cancel, Unused, ByTool, ByBrowser, AbortRun, lifeVars, leaseVars,
      opVars, saveVars
<1>26. ASSUME NEW t \in Task, Halted(t)
     PROVE  RunTypes'
  BY <1>26 DEF Halted, lifeVars, childVars, leaseVars, opVars, saveVars, userVars
<1>27. ASSUME NEW t \in Task, CancelReturns(t)
     PROVE  RunTypes'
  BY <1>27 DEF CancelReturns, RemoveRun, childVars, leaseVars, opVars, saveVars
<1>28. ASSUME NEW t \in Task, Collect(t)
     PROVE  RunTypes'
  BY <1>28 DEF Collect, Unused, ByTool, RemoveRun, childVars, leaseVars, opVars,
      saveVars
<1>29. ASSUME NEW t \in Task, CollectReturns(t)
     PROVE  RunTypes'
  BY <1>29 DEF CollectReturns, lifeVars, childVars, leaseVars, opVars, saveVars
<1>30. ASSUME NEW t \in Task, Shutdown(t)
     PROVE  RunTypes'
  BY <1>30 DEF Shutdown, Unused, AbortRun, lifeVars, leaseVars, opVars, saveVars
<1>31. ASSUME NEW t \in Task, SetupDrained(t)
     PROVE  RunTypes'
  BY <1>31, ZenonT(60) DEF SetupDrained, AbortRun, lifeVars, leaseVars, opVars, endVars,
      saveVars, userVars
<1>32. ASSUME NEW t \in Task, OperationDrained(t)
     PROVE  RunTypes'
  BY <1>32, ZenonT(60) DEF OperationDrained, RemoveRun, FinishInterrupted, childVars, leaseVars,
      opVars, userVars
<1>33. ASSUME NEW t \in Task, NEW ok \in BOOLEAN, Preserved(t, ok)
     PROVE  RunTypes'
  BY <1>33 DEF Preserved, DisposeRun, RemoveRun, leaseVars, opVars, userVars
<1>34. ASSUME NEW t \in Task, ShutdownReturns(t)
     PROVE  RunTypes'
  BY <1>34 DEF ShutdownReturns, RemoveRun, childVars, leaseVars, opVars, saveVars,
      userVars
<1>35. ASSUME NEW t \in Task, Signal(t)
     PROVE  RunTypes'
  BY <1>35 DEF Signal, AbortRun, lifeVars, leaseVars, opVars, endVars, saveVars,
      taskVars
<1>36. ASSUME Detach
     PROVE  RunTypes'
  BY <1>36 DEF Detach, childVars, leaseVars, endVars, saveVars, taskVars
<1>37. ASSUME LoseLease
     PROVE  RunTypes'
  BY <1>37 DEF LoseLease, AbortRun, lifeVars, opVars, endVars, taskVars, userVars
<1>38. ASSUME OtherTakes
     PROVE  RunTypes'
  BY <1>38 DEF OtherTakes, lifeVars, childVars, opVars, endVars, saveVars, taskVars,
      userVars
<1>39. ASSUME OtherReleases
     PROVE  RunTypes'
  BY <1>39 DEF OtherReleases, lifeVars, childVars, opVars, endVars, saveVars,
      taskVars, userVars
<1> HIDE DEF StateInv, RunTypes
<1> QED
  BY <1>1, <1>2, <1>3, <1>4, <1>5, <1>6, <1>7, <1>8, <1>9, <1>10, <1>11,
      <1>12, <1>13, <1>14, <1>15, <1>16, <1>17, <1>18, <1>19, <1>20, <1>21,
      <1>22, <1>23, <1>24, <1>25, <1>26, <1>27, <1>28, <1>29, <1>30, <1>31,
      <1>32, <1>33, <1>34, <1>35, <1>36, <1>37, <1>38, <1>39
      DEF Next, SaveCompletes, WorkspaceCompletes, Reacts, Called

(* Sets of calls, requests and faults. *)
LEMMA StepSets ==
  ASSUME StateInv, Next
  PROVE  SetTypes'
<1> USE DEF StateInv, SetTypes, At, Saving
<1>1. ASSUME NEW t \in Task, NEW inBackground \in BOOLEAN, Start(t, inBackground)
     PROVE  SetTypes'
  BY <1>1 DEF Start, Unused, childVars, leaseVars, opVars, endVars
<1>2. ASSUME NEW t \in Task, NEW ok \in BOOLEAN, Reserved(t, ok)
     PROVE  SetTypes'
  BY <1>2, SaveEndsTypes DEF Reserved, Acquire, childVars, leaseVars
<1>3. ASSUME NEW t \in Task, ChildCreated(t)
     PROVE  SetTypes'
  BY <1>3 DEF ChildCreated, lifeVars, leaseVars, opVars, endVars, userVars
<1>4. ASSUME NEW t \in Task, ChildFailed(t)
     PROVE  SetTypes'
  BY <1>4 DEF ChildFailed, FinishTerminal, lifeVars, childVars, leaseVars, opVars,
      saveVars, userVars
<1>5. ASSUME NEW t \in Task, NEW ok \in BOOLEAN, Adopted(t, ok)
     PROVE  SetTypes'
  BY <1>5, SaveEndsTypes
    DEF Adopted, FinishTerminal, StopWork, FinishInterrupted, AbortRun,
      BeginOperation, leaseVars, userVars
<1>6. ASSUME NEW t \in Task, NEW byTool \in BOOLEAN, Resume(t, byTool)
     PROVE  SetTypes'
  BY <1>6 DEF Resume, Unused, ByTool, ByBrowser, lifeVars, childVars, leaseVars,
      opVars, endVars, saveVars
<1>7. ASSUME NEW t \in Task, Acquired(t)
     PROVE  SetTypes'
  BY <1>7 DEF Acquired, Acquire, leaseVars, childVars, opVars, endVars, userVars
<1>8. ASSUME NEW t \in Task, AcquireGivesUp(t)
     PROVE  SetTypes'
  BY <1>8 DEF AcquireGivesUp, ResumeFails, Release, childVars, opVars, endVars,
      saveVars
<1>9. ASSUME NEW t \in Task, NEW ok \in BOOLEAN, Repaired(t, ok)
     PROVE  SetTypes'
  BY <1>9, SaveEndsTypes
    DEF Repaired, ResumeFails, Release, leaseVars, childVars, opVars, endVars
<1>10. ASSUME NEW t \in Task, NEW ok \in BOOLEAN, Revived(t, ok)
     PROVE  SetTypes'
  BY <1>10, SaveEndsTypes
    DEF Revived, ResumeFails, Release, leaseVars, FinishTerminal, StopWork,
      FinishInterrupted, AbortRun, BeginOperation
<1>11. ASSUME NEW t \in Task, NEW ok \in BOOLEAN, Begun(t, ok)
     PROVE  SetTypes'
  BY <1>11, SaveEndsTypes
    DEF Begun, FinishTerminal, StopWork, FinishInterrupted, AbortRun,
      DriveInterruption, PromptFailure, lifeVars, leaseVars, userVars
<1>12. ASSUME NEW t \in Task, PromptSettles(t)
     PROVE  SetTypes'
  BY <1>12 DEF PromptSettles, FinishInterrupted, lifeVars, childVars, leaseVars,
      opVars, userVars
<1>13. ASSUME NEW t \in Task, PromptRejects(t)
     PROVE  SetTypes'
  BY <1>13 DEF PromptRejects, PromptFailure, DriveInterruption, FinishTerminal,
      FinishInterrupted, StopWork, lifeVars, childVars, leaseVars, opVars,
      saveVars, userVars
<1>14. ASSUME NEW t \in Task, NEW ok \in BOOLEAN, OperationSettled(t, ok)
     PROVE  SetTypes'
  BY <1>14, SaveEndsTypes
    DEF OperationSettled, FinishTerminal, StopWork, FinishInterrupted,
      AbortRun, DriveInterruption, leaseVars, opVars, userVars
<1>15. ASSUME NEW t \in Task, NEW ok \in BOOLEAN, QuestionChecked(t, ok)
     PROVE  SetTypes'
  BY <1>15 DEF QuestionChecked, WorkspaceChecked, Fault, FinalizeInterrupted,
      childVars, leaseVars, opVars, endVars, userVars
<1>16. ASSUME NEW t \in Task, NEW ok \in BOOLEAN, QuestionSaved(t, ok)
     PROVE  SetTypes'
  BY <1>16, SaveEndsTypes
    DEF QuestionSaved, FinalizeInterrupted, Release, leaseVars, childVars,
      opVars, endVars, userVars
<1>17. ASSUME NEW t \in Task, InterruptChecked(t)
     PROVE  SetTypes'
  BY <1>17 DEF InterruptChecked, FinalizeInterrupted, childVars, leaseVars, opVars,
      endVars, userVars
<1>18. ASSUME NEW t \in Task, NEW ok \in BOOLEAN, InterruptSaved(t, ok)
     PROVE  SetTypes'
  BY <1>18, SaveEndsTypes
    DEF InterruptSaved, Release, CompletionEnds, lifeVars, childVars, opVars,
      userVars
<1>19. ASSUME NEW t \in Task, NEW ok \in BOOLEAN, TerminalChecked(t, ok)
     PROVE  SetTypes'
  BY <1>19 DEF TerminalChecked, WorkspaceChecked, Fault, FinalizeInterrupted,
      RemoveRun, childVars, leaseVars, opVars, userVars
<1>20. ASSUME NEW t \in Task, NEW ok \in BOOLEAN, ResultSaved(t, ok)
     PROVE  SetTypes'
  BY <1>20, SaveEndsTypes
    DEF ResultSaved, Release, CompletionEnds, DisposeRun, childVars, opVars,
      userVars
<1>21. ASSUME NEW t \in Task, Unpending(t)
     PROVE  SetTypes'
  BY <1>21 DEF Unpending, Release, DisposeRun, leaseVars, childVars, lifeVars,
      opVars, endVars, userVars
<1>22. ASSUME NEW t \in Task, NEW ok \in BOOLEAN, Buried(t, ok)
     PROVE  SetTypes'
  BY <1>22, SaveEndsTypes
    DEF Buried, Release, DisposeRun, CompletionEnds, lifeVars, opVars,
      userVars
<1>23. ASSUME NEW t \in Task, Joined(t)
     PROVE  SetTypes'
  BY <1>23 DEF Joined, lifeVars, childVars, leaseVars, opVars, endVars, saveVars,
      userVars
<1>24. ASSUME NEW t \in Task, WorkReturns(t)
     PROVE  SetTypes'
  BY <1>24 DEF WorkReturns, Release, leaseVars, childVars, endVars, saveVars
<1>25. ASSUME NEW t \in Task, NEW byTool \in BOOLEAN, Cancel(t, byTool)
     PROVE  SetTypes'
  BY <1>25 DEF Cancel, Unused, ByTool, ByBrowser, AbortRun, FinishTerminal, lifeVars,
      leaseVars, opVars, saveVars
<1>26. ASSUME NEW t \in Task, Halted(t)
     PROVE  SetTypes'
  BY <1>26 DEF Halted, FinishTerminal, lifeVars, childVars, leaseVars, opVars,
      saveVars, userVars
<1>27. ASSUME NEW t \in Task, CancelReturns(t)
     PROVE  SetTypes'
  BY <1>27 DEF CancelReturns, RemoveRun, childVars, leaseVars, opVars, saveVars
<1>28. ASSUME NEW t \in Task, Collect(t)
     PROVE  SetTypes'
  BY <1>28 DEF Collect, Unused, ByTool, RemoveRun, childVars, leaseVars, opVars,
      saveVars
<1>29. ASSUME NEW t \in Task, CollectReturns(t)
     PROVE  SetTypes'
  BY <1>29 DEF CollectReturns, lifeVars, childVars, leaseVars, opVars, saveVars
<1>30. ASSUME NEW t \in Task, Shutdown(t)
     PROVE  SetTypes'
  BY <1>30 DEF Shutdown, Unused, AbortRun, lifeVars, leaseVars, opVars, saveVars
<1>31. ASSUME NEW t \in Task, SetupDrained(t)
     PROVE  SetTypes'
  BY <1>31 DEF SetupDrained, AbortRun, lifeVars, leaseVars, opVars, endVars,
      saveVars, userVars
<1>32. ASSUME NEW t \in Task, OperationDrained(t)
     PROVE  SetTypes'
  BY <1>32 DEF OperationDrained, RemoveRun, FinishInterrupted, childVars, leaseVars,
      opVars, userVars
<1>33. ASSUME NEW t \in Task, NEW ok \in BOOLEAN, Preserved(t, ok)
     PROVE  SetTypes'
  BY <1>33, SaveEndsTypes
    DEF Preserved, DisposeRun, RemoveRun, leaseVars, opVars, userVars
<1>34. ASSUME NEW t \in Task, ShutdownReturns(t)
     PROVE  SetTypes'
  BY <1>34 DEF ShutdownReturns, RemoveRun, childVars, leaseVars, opVars, saveVars,
      userVars
<1>35. ASSUME NEW t \in Task, Signal(t)
     PROVE  SetTypes'
  BY <1>35 DEF Signal, AbortRun, lifeVars, leaseVars, opVars, endVars, saveVars,
      taskVars
<1>36. ASSUME Detach
     PROVE  SetTypes'
  BY <1>36 DEF Detach, childVars, leaseVars, endVars, saveVars, taskVars
<1>37. ASSUME LoseLease
     PROVE  SetTypes'
  BY <1>37 DEF LoseLease, Fault, AbortRun, lifeVars, opVars, endVars, taskVars,
      userVars
<1>38. ASSUME OtherTakes
     PROVE  SetTypes'
  BY <1>38 DEF OtherTakes, lifeVars, childVars, opVars, endVars, saveVars, taskVars,
      userVars
<1>39. ASSUME OtherReleases
     PROVE  SetTypes'
  BY <1>39 DEF OtherReleases, lifeVars, childVars, opVars, endVars, saveVars,
      taskVars, userVars
<1> HIDE DEF StateInv, SetTypes, At, Saving
<1> QED
  BY <1>1, <1>2, <1>3, <1>4, <1>5, <1>6, <1>7, <1>8, <1>9, <1>10, <1>11,
      <1>12, <1>13, <1>14, <1>15, <1>16, <1>17, <1>18, <1>19, <1>20, <1>21,
      <1>22, <1>23, <1>24, <1>25, <1>26, <1>27, <1>28, <1>29, <1>30, <1>31,
      <1>32, <1>33, <1>34, <1>35, <1>36, <1>37, <1>38, <1>39
      DEF Next, SaveCompletes, WorkspaceCompletes, Reacts, Called

(* Values of the run, its settlement and its record. *)
LEMMA StepValues ==
  ASSUME StateInv, Next
  PROVE  ValueTypes'
<1> USE DEF StateInv, ValueTypes, At, Saving, Terminal, Active, Parked, Status,
           Wanted
<1>1. ASSUME NEW t \in Task, NEW inBackground \in BOOLEAN, Start(t, inBackground)
     PROVE  ValueTypes'
  BY <1>1 DEF Start, Unused, childVars, leaseVars, opVars, endVars
<1>2. ASSUME NEW t \in Task, NEW ok \in BOOLEAN, Reserved(t, ok)
     PROVE  ValueTypes'
  BY <1>2, SaveEndsTypes DEF Reserved, Acquire, childVars, leaseVars
<1>3. ASSUME NEW t \in Task, ChildCreated(t)
     PROVE  ValueTypes'
  BY <1>3 DEF ChildCreated, lifeVars, leaseVars, opVars, endVars, userVars
<1>4. ASSUME NEW t \in Task, ChildFailed(t)
     PROVE  ValueTypes'
  BY <1>4 DEF ChildFailed, FinishTerminal, lifeVars, childVars, leaseVars, opVars,
      saveVars, userVars
<1>5. ASSUME NEW t \in Task, NEW ok \in BOOLEAN, Adopted(t, ok)
     PROVE  ValueTypes'
  BY <1>5, SaveEndsTypes
    DEF Adopted, FinishTerminal, StopWork, FinishInterrupted, AbortRun,
      BeginOperation, leaseVars, userVars
<1>6. ASSUME NEW t \in Task, NEW byTool \in BOOLEAN, Resume(t, byTool)
     PROVE  ValueTypes'
  BY <1>6 DEF Resume, Unused, ByTool, ByBrowser, lifeVars, childVars, leaseVars,
      opVars, endVars, saveVars
<1>7. ASSUME NEW t \in Task, Acquired(t)
     PROVE  ValueTypes'
  BY <1>7 DEF Acquired, Acquire, leaseVars, childVars, opVars, endVars, userVars
<1>8. ASSUME NEW t \in Task, AcquireGivesUp(t)
     PROVE  ValueTypes'
  BY <1>8 DEF AcquireGivesUp, ResumeFails, Release, childVars, opVars, endVars,
      saveVars
<1>9. ASSUME NEW t \in Task, NEW ok \in BOOLEAN, Repaired(t, ok)
     PROVE  ValueTypes'
  BY <1>9, SaveEndsTypes
    DEF Repaired, ResumeFails, Release, leaseVars, childVars, opVars, endVars
<1>10. ASSUME NEW t \in Task, NEW ok \in BOOLEAN, Revived(t, ok)
     PROVE  ValueTypes'
  BY <1>10, SaveEndsTypes
    DEF Revived, ResumeFails, Release, leaseVars, FinishTerminal, StopWork,
      FinishInterrupted, AbortRun, BeginOperation
<1>11. ASSUME NEW t \in Task, NEW ok \in BOOLEAN, Begun(t, ok)
     PROVE  ValueTypes'
  BY <1>11, SaveEndsTypes
    DEF Begun, FinishTerminal, StopWork, FinishInterrupted, AbortRun,
      DriveInterruption, PromptFailure, lifeVars, leaseVars, userVars
<1>12. ASSUME NEW t \in Task, PromptSettles(t)
     PROVE  ValueTypes'
  BY <1>12 DEF PromptSettles, FinishInterrupted, lifeVars, childVars, leaseVars,
      opVars, userVars
<1>13. ASSUME NEW t \in Task, PromptRejects(t)
     PROVE  ValueTypes'
  BY <1>13 DEF PromptRejects, PromptFailure, DriveInterruption, FinishTerminal,
      FinishInterrupted, StopWork, lifeVars, childVars, leaseVars, opVars,
      saveVars, userVars
<1>14. ASSUME NEW t \in Task, NEW ok \in BOOLEAN, OperationSettled(t, ok)
     PROVE  ValueTypes'
  BY <1>14, SaveEndsTypes
    DEF OperationSettled, FinishTerminal, StopWork, FinishInterrupted,
      AbortRun, DriveInterruption, leaseVars, opVars, userVars
<1>15. ASSUME NEW t \in Task, NEW ok \in BOOLEAN, QuestionChecked(t, ok)
     PROVE  ValueTypes'
  BY <1>15 DEF QuestionChecked, WorkspaceChecked, Fault, FinalizeInterrupted,
      childVars, leaseVars, opVars, endVars, userVars
<1>16. ASSUME NEW t \in Task, NEW ok \in BOOLEAN, QuestionSaved(t, ok)
     PROVE  ValueTypes'
  BY <1>16, SaveEndsTypes
    DEF QuestionSaved, FinalizeInterrupted, Release, leaseVars, childVars,
      opVars, endVars, userVars
<1>17. ASSUME NEW t \in Task, InterruptChecked(t)
     PROVE  ValueTypes'
  BY <1>17 DEF InterruptChecked, FinalizeInterrupted, childVars, leaseVars, opVars,
      endVars, userVars
<1>18. ASSUME NEW t \in Task, NEW ok \in BOOLEAN, InterruptSaved(t, ok)
     PROVE  ValueTypes'
  BY <1>18, SaveEndsTypes
    DEF InterruptSaved, Release, CompletionEnds, lifeVars, childVars, opVars,
      userVars
<1>19. ASSUME NEW t \in Task, NEW ok \in BOOLEAN, TerminalChecked(t, ok)
     PROVE  ValueTypes'
  BY <1>19 DEF TerminalChecked, WorkspaceChecked, Fault, FinalizeInterrupted,
      RemoveRun, childVars, leaseVars, opVars, userVars
<1>20. ASSUME NEW t \in Task, NEW ok \in BOOLEAN, ResultSaved(t, ok)
     PROVE  ValueTypes'
  BY <1>20, SaveEndsTypes
    DEF ResultSaved, Release, CompletionEnds, DisposeRun, childVars, opVars,
      userVars
<1>21. ASSUME NEW t \in Task, Unpending(t)
     PROVE  ValueTypes'
  BY <1>21 DEF Unpending, Release, DisposeRun, leaseVars, childVars, lifeVars,
      opVars, endVars, userVars
<1>22. ASSUME NEW t \in Task, NEW ok \in BOOLEAN, Buried(t, ok)
     PROVE  ValueTypes'
  BY <1>22, SaveEndsTypes
    DEF Buried, Release, DisposeRun, CompletionEnds, lifeVars, opVars,
      userVars
<1>23. ASSUME NEW t \in Task, Joined(t)
     PROVE  ValueTypes'
  BY <1>23 DEF Joined, lifeVars, childVars, leaseVars, opVars, endVars, saveVars,
      userVars
<1>24. ASSUME NEW t \in Task, WorkReturns(t)
     PROVE  ValueTypes'
  BY <1>24 DEF WorkReturns, Release, leaseVars, childVars, endVars, saveVars
<1>25. ASSUME NEW t \in Task, NEW byTool \in BOOLEAN, Cancel(t, byTool)
     PROVE  ValueTypes'
  BY <1>25 DEF Cancel, Unused, ByTool, ByBrowser, AbortRun, FinishTerminal, lifeVars,
      leaseVars, opVars, saveVars
<1>26. ASSUME NEW t \in Task, Halted(t)
     PROVE  ValueTypes'
  BY <1>26 DEF Halted, FinishTerminal, lifeVars, childVars, leaseVars, opVars,
      saveVars, userVars
<1>27. ASSUME NEW t \in Task, CancelReturns(t)
     PROVE  ValueTypes'
  BY <1>27 DEF CancelReturns, RemoveRun, childVars, leaseVars, opVars, saveVars
<1>28. ASSUME NEW t \in Task, Collect(t)
     PROVE  ValueTypes'
  BY <1>28 DEF Collect, Unused, ByTool, RemoveRun, childVars, leaseVars, opVars,
      saveVars
<1>29. ASSUME NEW t \in Task, CollectReturns(t)
     PROVE  ValueTypes'
  BY <1>29 DEF CollectReturns, lifeVars, childVars, leaseVars, opVars, saveVars
<1>30. ASSUME NEW t \in Task, Shutdown(t)
     PROVE  ValueTypes'
  BY <1>30 DEF Shutdown, Unused, AbortRun, lifeVars, leaseVars, opVars, saveVars
<1>31. ASSUME NEW t \in Task, SetupDrained(t)
     PROVE  ValueTypes'
  BY <1>31 DEF SetupDrained, AbortRun, lifeVars, leaseVars, opVars, endVars,
      saveVars, userVars
<1>32. ASSUME NEW t \in Task, OperationDrained(t)
     PROVE  ValueTypes'
  BY <1>32 DEF OperationDrained, RemoveRun, FinishInterrupted, childVars, leaseVars,
      opVars, userVars
<1>33. ASSUME NEW t \in Task, NEW ok \in BOOLEAN, Preserved(t, ok)
     PROVE  ValueTypes'
  BY <1>33, SaveEndsTypes
    DEF Preserved, DisposeRun, RemoveRun, leaseVars, opVars, userVars
<1>34. ASSUME NEW t \in Task, ShutdownReturns(t)
     PROVE  ValueTypes'
  BY <1>34 DEF ShutdownReturns, RemoveRun, childVars, leaseVars, opVars, saveVars,
      userVars
<1>35. ASSUME NEW t \in Task, Signal(t)
     PROVE  ValueTypes'
  BY <1>35 DEF Signal, AbortRun, lifeVars, leaseVars, opVars, endVars, saveVars,
      taskVars
<1>36. ASSUME Detach
     PROVE  ValueTypes'
  BY <1>36 DEF Detach, childVars, leaseVars, endVars, saveVars, taskVars
<1>37. ASSUME LoseLease
     PROVE  ValueTypes'
  BY <1>37 DEF LoseLease, Fault, AbortRun, lifeVars, opVars, endVars, taskVars,
      userVars
<1>38. ASSUME OtherTakes
     PROVE  ValueTypes'
  BY <1>38 DEF OtherTakes, lifeVars, childVars, opVars, endVars, saveVars, taskVars,
      userVars
<1>39. ASSUME OtherReleases
     PROVE  ValueTypes'
  BY <1>39 DEF OtherReleases, lifeVars, childVars, opVars, endVars, saveVars,
      taskVars, userVars
<1> HIDE DEF StateInv, ValueTypes, At, Saving, Terminal, Active, Parked, Status,
           Wanted
<1> QED
  BY <1>1, <1>2, <1>3, <1>4, <1>5, <1>6, <1>7, <1>8, <1>9, <1>10, <1>11,
      <1>12, <1>13, <1>14, <1>15, <1>16, <1>17, <1>18, <1>19, <1>20, <1>21,
      <1>22, <1>23, <1>24, <1>25, <1>26, <1>27, <1>28, <1>29, <1>30, <1>31,
      <1>32, <1>33, <1>34, <1>35, <1>36, <1>37, <1>38, <1>39
      DEF Next, SaveCompletes, WorkspaceCompletes, Reacts, Called

(* The calls. *)
LEMMA StepTask ==
  ASSUME StateInv, Next
  PROVE  TaskTypes'
<1> USE DEF StateInv, TaskTypes, Label, Saving, Terminal, Parked, Active, Status,
           Goto
<1>1. ASSUME NEW t \in Task, NEW inBackground \in BOOLEAN, Start(t, inBackground)
     PROVE  TaskTypes'
  BY <1>1 DEF Start, Unused, childVars, leaseVars, opVars, endVars
<1>2. ASSUME NEW t \in Task, NEW ok \in BOOLEAN, Reserved(t, ok)
     PROVE  TaskTypes'
  BY <1>2 DEF Reserved, Acquire, childVars, leaseVars
<1>3. ASSUME NEW t \in Task, ChildCreated(t)
     PROVE  TaskTypes'
  BY <1>3 DEF ChildCreated, lifeVars, leaseVars, opVars, endVars, userVars
<1>4. ASSUME NEW t \in Task, ChildFailed(t)
     PROVE  TaskTypes'
  BY <1>4 DEF ChildFailed, FinishTerminal, lifeVars, childVars, leaseVars, opVars,
      saveVars, userVars
<1>5. ASSUME NEW t \in Task, NEW ok \in BOOLEAN, Adopted(t, ok)
     PROVE  TaskTypes'
  BY <1>5 DEF Adopted, FinishTerminal, StopWork, FinishInterrupted, BeginOperation,
      leaseVars, userVars
<1>6. ASSUME NEW t \in Task, NEW byTool \in BOOLEAN, Resume(t, byTool)
     PROVE  TaskTypes'
  BY <1>6 DEF Resume, Unused, ByTool, ByBrowser, lifeVars, childVars, leaseVars,
      opVars, endVars, saveVars
<1>7. ASSUME NEW t \in Task, Acquired(t)
     PROVE  TaskTypes'
  BY <1>7 DEF Acquired, Acquire, leaseVars, childVars, opVars, endVars, userVars
<1>8. ASSUME NEW t \in Task, AcquireGivesUp(t)
     PROVE  TaskTypes'
  BY <1>8 DEF AcquireGivesUp, ResumeFails, Release, childVars, opVars, endVars,
      saveVars
<1>9. ASSUME NEW t \in Task, NEW ok \in BOOLEAN, Repaired(t, ok)
     PROVE  TaskTypes'
  BY <1>9 DEF Repaired, ResumeFails, Release, leaseVars, childVars, opVars, endVars
<1>10. ASSUME NEW t \in Task, NEW ok \in BOOLEAN, Revived(t, ok)
     PROVE  TaskTypes'
  BY <1>10 DEF Revived, ResumeFails, Release, leaseVars, FinishTerminal, StopWork,
      FinishInterrupted, BeginOperation
<1>11. ASSUME NEW t \in Task, NEW ok \in BOOLEAN, Begun(t, ok)
     PROVE  TaskTypes'
  BY <1>11 DEF Begun, FinishTerminal, StopWork, FinishInterrupted, DriveInterruption,
      PromptFailure, lifeVars, leaseVars, userVars
<1>12. ASSUME NEW t \in Task, PromptSettles(t)
     PROVE  TaskTypes'
  BY <1>12 DEF PromptSettles, FinishInterrupted, lifeVars, childVars, leaseVars,
      opVars, userVars
<1>13. ASSUME NEW t \in Task, PromptRejects(t)
     PROVE  TaskTypes'
  BY <1>13 DEF PromptRejects, PromptFailure, DriveInterruption, FinishTerminal,
      FinishInterrupted, StopWork, lifeVars, childVars, leaseVars, opVars,
      saveVars, userVars
<1>14. ASSUME NEW t \in Task, NEW ok \in BOOLEAN, OperationSettled(t, ok)
     PROVE  TaskTypes'
  BY <1>14 DEF OperationSettled, FinishTerminal, StopWork, FinishInterrupted,
      DriveInterruption, leaseVars, opVars, userVars
<1>15. ASSUME NEW t \in Task, NEW ok \in BOOLEAN, QuestionChecked(t, ok)
     PROVE  TaskTypes'
  BY <1>15 DEF QuestionChecked, WorkspaceChecked, FinalizeInterrupted, childVars,
      leaseVars, opVars, endVars, userVars
<1>16. ASSUME NEW t \in Task, NEW ok \in BOOLEAN, QuestionSaved(t, ok)
     PROVE  TaskTypes'
  BY <1>16 DEF QuestionSaved, FinalizeInterrupted, Release, leaseVars, childVars,
      opVars, endVars, userVars
<1>17. ASSUME NEW t \in Task, InterruptChecked(t)
     PROVE  TaskTypes'
  BY <1>17 DEF InterruptChecked, FinalizeInterrupted, childVars, leaseVars, opVars,
      endVars, userVars
<1>18. ASSUME NEW t \in Task, NEW ok \in BOOLEAN, InterruptSaved(t, ok)
     PROVE  TaskTypes'
  BY <1>18 DEF InterruptSaved, Release, CompletionEnds, lifeVars, childVars, opVars,
      userVars
<1>19. ASSUME NEW t \in Task, NEW ok \in BOOLEAN, TerminalChecked(t, ok)
     PROVE  TaskTypes'
  BY <1>19 DEF TerminalChecked, WorkspaceChecked, FinalizeInterrupted, RemoveRun,
      childVars, leaseVars, opVars, userVars
<1>20. ASSUME NEW t \in Task, NEW ok \in BOOLEAN, ResultSaved(t, ok)
     PROVE  TaskTypes'
  BY <1>20 DEF ResultSaved, Release, CompletionEnds, DisposeRun, childVars, opVars,
      userVars
<1>21. ASSUME NEW t \in Task, Unpending(t)
     PROVE  TaskTypes'
  BY <1>21 DEF Unpending, Release, DisposeRun, leaseVars, childVars, lifeVars,
      opVars, endVars, userVars
<1>22. ASSUME NEW t \in Task, NEW ok \in BOOLEAN, Buried(t, ok)
     PROVE  TaskTypes'
  BY <1>22 DEF Buried, Release, DisposeRun, CompletionEnds, lifeVars, opVars,
      userVars
<1>23. ASSUME NEW t \in Task, Joined(t)
     PROVE  TaskTypes'
  BY <1>23 DEF Joined, lifeVars, childVars, leaseVars, opVars, endVars, saveVars,
      userVars
<1>24. ASSUME NEW t \in Task, WorkReturns(t)
     PROVE  TaskTypes'
  BY <1>24 DEF WorkReturns, Release, leaseVars, childVars, endVars, saveVars
<1>25. ASSUME NEW t \in Task, NEW byTool \in BOOLEAN, Cancel(t, byTool)
     PROVE  TaskTypes'
  BY <1>25, ZenonT(60) DEF Cancel, Unused, ByTool, ByBrowser, FinishTerminal, lifeVars,
      leaseVars, opVars, saveVars, ValueTypes
<1>26. ASSUME NEW t \in Task, Halted(t)
     PROVE  TaskTypes'
  BY <1>26 DEF Halted, FinishTerminal, lifeVars, childVars, leaseVars, opVars,
      saveVars, userVars
<1>27. ASSUME NEW t \in Task, CancelReturns(t)
     PROVE  TaskTypes'
  BY <1>27 DEF CancelReturns, RemoveRun, childVars, leaseVars, opVars, saveVars
<1>28. ASSUME NEW t \in Task, Collect(t)
     PROVE  TaskTypes'
  BY <1>28 DEF Collect, Unused, ByTool, RemoveRun, childVars, leaseVars, opVars,
      saveVars
<1>29. ASSUME NEW t \in Task, CollectReturns(t)
     PROVE  TaskTypes'
  BY <1>29 DEF CollectReturns, lifeVars, childVars, leaseVars, opVars, saveVars
<1>30. ASSUME NEW t \in Task, Shutdown(t)
     PROVE  TaskTypes'
  BY <1>30 DEF Shutdown, Unused, lifeVars, leaseVars, opVars, saveVars
<1>31. ASSUME NEW t \in Task, SetupDrained(t)
     PROVE  TaskTypes'
  BY <1>31 DEF SetupDrained, lifeVars, leaseVars, opVars, endVars, saveVars,
      userVars, ValueTypes
<1>32. ASSUME NEW t \in Task, OperationDrained(t)
     PROVE  TaskTypes'
  BY <1>32 DEF OperationDrained, RemoveRun, FinishInterrupted, childVars, leaseVars,
      opVars, userVars
<1>33. ASSUME NEW t \in Task, NEW ok \in BOOLEAN, Preserved(t, ok)
     PROVE  TaskTypes'
  BY <1>33 DEF Preserved, DisposeRun, RemoveRun, leaseVars, opVars, userVars
<1>34. ASSUME NEW t \in Task, ShutdownReturns(t)
     PROVE  TaskTypes'
  BY <1>34 DEF ShutdownReturns, RemoveRun, childVars, leaseVars, opVars, saveVars,
      userVars
<1>35. ASSUME NEW t \in Task, Signal(t)
     PROVE  TaskTypes'
  BY <1>35 DEF Signal, lifeVars, leaseVars, opVars, endVars, saveVars, taskVars
<1>36. ASSUME Detach
     PROVE  TaskTypes'
  BY <1>36 DEF Detach, childVars, leaseVars, endVars, saveVars, taskVars
<1>37. ASSUME LoseLease
     PROVE  TaskTypes'
  BY <1>37 DEF LoseLease, lifeVars, opVars, endVars, taskVars, userVars
<1>38. ASSUME OtherTakes
     PROVE  TaskTypes'
  BY <1>38 DEF OtherTakes, lifeVars, childVars, opVars, endVars, saveVars, taskVars,
      userVars
<1>39. ASSUME OtherReleases
     PROVE  TaskTypes'
  BY <1>39 DEF OtherReleases, lifeVars, childVars, opVars, endVars, saveVars,
      taskVars, userVars
<1> HIDE DEF StateInv, TaskTypes, Label, Saving, Terminal, Parked, Active, Status,
           Goto
<1> QED
  BY <1>1, <1>2, <1>3, <1>4, <1>5, <1>6, <1>7, <1>8, <1>9, <1>10, <1>11,
      <1>12, <1>13, <1>14, <1>15, <1>16, <1>17, <1>18, <1>19, <1>20, <1>21,
      <1>22, <1>23, <1>24, <1>25, <1>26, <1>27, <1>28, <1>29, <1>30, <1>31,
      <1>32, <1>33, <1>34, <1>35, <1>36, <1>37, <1>38, <1>39
      DEF Next, SaveCompletes, WorkspaceCompletes, Reacts, Called

(* A call goes through the steps of its kind. *)
LEMMA StepPlaced ==
  ASSUME StateInv, Next
  PROVE  Placed'
<1> USE DEF StateInv, TaskTypes, At, Label, Saving, Placed, Goto, WorkSteps,
           CancelSteps, ShutdownSteps
<1>1. ASSUME NEW t \in Task, NEW inBackground \in BOOLEAN, Start(t, inBackground)
     PROVE  Placed'
  BY <1>1 DEF Start, Unused, childVars, leaseVars, opVars, endVars
<1>2. ASSUME NEW t \in Task, NEW ok \in BOOLEAN, Reserved(t, ok)
     PROVE  Placed'
  BY <1>2 DEF Reserved, Acquire, childVars, leaseVars
<1>3. ASSUME NEW t \in Task, ChildCreated(t)
     PROVE  Placed'
  BY <1>3 DEF ChildCreated, lifeVars, leaseVars, opVars, endVars, userVars
<1>4. ASSUME NEW t \in Task, ChildFailed(t)
     PROVE  Placed'
  BY <1>4 DEF ChildFailed, FinishTerminal, lifeVars, childVars, leaseVars, opVars,
      saveVars, userVars
<1>5. ASSUME NEW t \in Task, NEW ok \in BOOLEAN, Adopted(t, ok)
     PROVE  Placed'
  BY <1>5 DEF Adopted, FinishTerminal, StopWork, FinishInterrupted, BeginOperation,
      leaseVars, userVars
<1>6. ASSUME NEW t \in Task, NEW byTool \in BOOLEAN, Resume(t, byTool)
     PROVE  Placed'
  BY <1>6 DEF Resume, Unused, ByTool, ByBrowser, lifeVars, childVars, leaseVars,
      opVars, endVars, saveVars
<1>7. ASSUME NEW t \in Task, Acquired(t)
     PROVE  Placed'
  BY <1>7 DEF Acquired, Acquire, leaseVars, childVars, opVars, endVars, userVars
<1>8. ASSUME NEW t \in Task, AcquireGivesUp(t)
     PROVE  Placed'
  BY <1>8 DEF AcquireGivesUp, ResumeFails, Release, childVars, opVars, endVars,
      saveVars
<1>9. ASSUME NEW t \in Task, NEW ok \in BOOLEAN, Repaired(t, ok)
     PROVE  Placed'
  BY <1>9 DEF Repaired, ResumeFails, Release, leaseVars, childVars, opVars, endVars
<1>10. ASSUME NEW t \in Task, NEW ok \in BOOLEAN, Revived(t, ok)
     PROVE  Placed'
  BY <1>10 DEF Revived, ResumeFails, Release, leaseVars, FinishTerminal, StopWork,
      FinishInterrupted, BeginOperation
<1>11. ASSUME NEW t \in Task, NEW ok \in BOOLEAN, Begun(t, ok)
     PROVE  Placed'
  BY <1>11 DEF Begun, FinishTerminal, StopWork, FinishInterrupted, DriveInterruption,
      PromptFailure, lifeVars, leaseVars, userVars
<1>12. ASSUME NEW t \in Task, PromptSettles(t)
     PROVE  Placed'
  BY <1>12 DEF PromptSettles, FinishInterrupted, lifeVars, childVars, leaseVars,
      opVars, userVars
<1>13. ASSUME NEW t \in Task, PromptRejects(t)
     PROVE  Placed'
  BY <1>13 DEF PromptRejects, PromptFailure, DriveInterruption, FinishTerminal,
      FinishInterrupted, StopWork, lifeVars, childVars, leaseVars, opVars,
      saveVars, userVars
<1>14. ASSUME NEW t \in Task, NEW ok \in BOOLEAN, OperationSettled(t, ok)
     PROVE  Placed'
  BY <1>14 DEF OperationSettled, FinishTerminal, StopWork, FinishInterrupted,
      DriveInterruption, leaseVars, opVars, userVars
<1>15. ASSUME NEW t \in Task, NEW ok \in BOOLEAN, QuestionChecked(t, ok)
     PROVE  Placed'
  BY <1>15 DEF QuestionChecked, WorkspaceChecked, FinalizeInterrupted, childVars,
      leaseVars, opVars, endVars, userVars
<1>16. ASSUME NEW t \in Task, NEW ok \in BOOLEAN, QuestionSaved(t, ok)
     PROVE  Placed'
  BY <1>16 DEF QuestionSaved, FinalizeInterrupted, Release, leaseVars, childVars,
      opVars, endVars, userVars
<1>17. ASSUME NEW t \in Task, InterruptChecked(t)
     PROVE  Placed'
  BY <1>17 DEF InterruptChecked, FinalizeInterrupted, childVars, leaseVars, opVars,
      endVars, userVars
<1>18. ASSUME NEW t \in Task, NEW ok \in BOOLEAN, InterruptSaved(t, ok)
     PROVE  Placed'
  BY <1>18 DEF InterruptSaved, Release, CompletionEnds, lifeVars, childVars, opVars,
      userVars
<1>19. ASSUME NEW t \in Task, NEW ok \in BOOLEAN, TerminalChecked(t, ok)
     PROVE  Placed'
  BY <1>19 DEF TerminalChecked, WorkspaceChecked, FinalizeInterrupted, RemoveRun,
      childVars, leaseVars, opVars, userVars
<1>20. ASSUME NEW t \in Task, NEW ok \in BOOLEAN, ResultSaved(t, ok)
     PROVE  Placed'
  BY <1>20 DEF ResultSaved, Release, CompletionEnds, DisposeRun, childVars, opVars,
      userVars
<1>21. ASSUME NEW t \in Task, Unpending(t)
     PROVE  Placed'
  BY <1>21 DEF Unpending, Release, DisposeRun, leaseVars, childVars, lifeVars,
      opVars, endVars, userVars
<1>22. ASSUME NEW t \in Task, NEW ok \in BOOLEAN, Buried(t, ok)
     PROVE  Placed'
  BY <1>22 DEF Buried, Release, DisposeRun, CompletionEnds, lifeVars, opVars,
      userVars
<1>23. ASSUME NEW t \in Task, Joined(t)
     PROVE  Placed'
  BY <1>23 DEF Joined, lifeVars, childVars, leaseVars, opVars, endVars, saveVars,
      userVars
<1>24. ASSUME NEW t \in Task, WorkReturns(t)
     PROVE  Placed'
  BY <1>24 DEF WorkReturns, Release, leaseVars, childVars, endVars, saveVars
<1>25. ASSUME NEW t \in Task, NEW byTool \in BOOLEAN, Cancel(t, byTool)
     PROVE  Placed'
  BY <1>25, CancelMoves DEF FinishTerminal
<1>26. ASSUME NEW t \in Task, Halted(t)
     PROVE  Placed'
  BY <1>26 DEF Halted, FinishTerminal, lifeVars, childVars, leaseVars, opVars,
      saveVars, userVars
<1>27. ASSUME NEW t \in Task, CancelReturns(t)
     PROVE  Placed'
  BY <1>27 DEF CancelReturns, RemoveRun, childVars, leaseVars, opVars, saveVars
<1>28. ASSUME NEW t \in Task, Collect(t)
     PROVE  Placed'
  BY <1>28 DEF Collect, Unused, ByTool, RemoveRun, childVars, leaseVars, opVars,
      saveVars
<1>29. ASSUME NEW t \in Task, CollectReturns(t)
     PROVE  Placed'
  BY <1>29 DEF CollectReturns, lifeVars, childVars, leaseVars, opVars, saveVars
<1>30. ASSUME NEW t \in Task, Shutdown(t)
     PROVE  Placed'
  BY <1>30 DEF Shutdown, Unused, lifeVars, leaseVars, opVars, saveVars
<1>31. ASSUME NEW t \in Task, SetupDrained(t)
     PROVE  Placed'
  BY <1>31 DEF SetupDrained, lifeVars, leaseVars, opVars, endVars, saveVars, userVars
<1>32. ASSUME NEW t \in Task, OperationDrained(t)
     PROVE  Placed'
  BY <1>32 DEF OperationDrained, RemoveRun, FinishInterrupted, childVars, leaseVars,
      opVars, userVars
<1>33. ASSUME NEW t \in Task, NEW ok \in BOOLEAN, Preserved(t, ok)
     PROVE  Placed'
  BY <1>33 DEF Preserved, DisposeRun, RemoveRun, leaseVars, opVars, userVars
<1>34. ASSUME NEW t \in Task, ShutdownReturns(t)
     PROVE  Placed'
  BY <1>34 DEF ShutdownReturns, RemoveRun, childVars, leaseVars, opVars, saveVars,
      userVars
<1>35. ASSUME NEW t \in Task, Signal(t)
     PROVE  Placed'
  BY <1>35 DEF Signal, lifeVars, leaseVars, opVars, endVars, saveVars, taskVars
<1>36. ASSUME Detach
     PROVE  Placed'
  BY <1>36 DEF Detach, childVars, leaseVars, endVars, saveVars, taskVars
<1>37. ASSUME LoseLease
     PROVE  Placed'
  BY <1>37 DEF LoseLease, lifeVars, opVars, endVars, taskVars, userVars
<1>38. ASSUME OtherTakes
     PROVE  Placed'
  BY <1>38 DEF OtherTakes, lifeVars, childVars, opVars, endVars, saveVars, taskVars,
      userVars
<1>39. ASSUME OtherReleases
     PROVE  Placed'
  BY <1>39 DEF OtherReleases, lifeVars, childVars, opVars, endVars, saveVars,
      taskVars, userVars
<1> HIDE DEF StateInv, TaskTypes, At, Label, Saving, Placed, Goto, WorkSteps,
           CancelSteps, ShutdownSteps
<1> QED
  BY <1>1, <1>2, <1>3, <1>4, <1>5, <1>6, <1>7, <1>8, <1>9, <1>10, <1>11,
      <1>12, <1>13, <1>14, <1>15, <1>16, <1>17, <1>18, <1>19, <1>20, <1>21,
      <1>22, <1>23, <1>24, <1>25, <1>26, <1>27, <1>28, <1>29, <1>30, <1>31,
      <1>32, <1>33, <1>34, <1>35, <1>36, <1>37, <1>38, <1>39
      DEF Next, SaveCompletes, WorkspaceCompletes, Reacts, Called

(* A settlement wants a terminal status, a preparation a parked one. *)
LEMMA StepWanted ==
  ASSUME StateInv, Next
  PROVE  Wanted'
<1> USE DEF StateInv, TaskTypes, At, Wanted, Placed, WorkSteps, CancelSteps,
           ShutdownSteps, Terminal, Active, Parked, Status, Goto
<1>1. ASSUME NEW t \in Task, NEW inBackground \in BOOLEAN, Start(t, inBackground)
     PROVE  Wanted'
  BY <1>1 DEF Start, Unused, childVars, leaseVars, opVars, endVars
<1>2. ASSUME NEW t \in Task, NEW ok \in BOOLEAN, Reserved(t, ok)
     PROVE  Wanted'
  BY <1>2 DEF Reserved, Acquire, childVars, leaseVars
<1>3. ASSUME NEW t \in Task, ChildCreated(t)
     PROVE  Wanted'
  BY <1>3 DEF ChildCreated, lifeVars, leaseVars, opVars, endVars, userVars
<1>4. ASSUME NEW t \in Task, ChildFailed(t)
     PROVE  Wanted'
  BY <1>4 DEF ChildFailed, FinishTerminal, lifeVars, childVars, leaseVars, opVars,
      saveVars, userVars
<1>5. ASSUME NEW t \in Task, NEW ok \in BOOLEAN, Adopted(t, ok)
     PROVE  Wanted'
  BY <1>5 DEF Adopted, FinishTerminal, StopWork, FinishInterrupted, BeginOperation,
      leaseVars, userVars
<1>6. ASSUME NEW t \in Task, NEW byTool \in BOOLEAN, Resume(t, byTool)
     PROVE  Wanted'
  BY <1>6 DEF Resume, Unused, ByTool, ByBrowser, lifeVars, childVars, leaseVars,
      opVars, endVars, saveVars
<1>7. ASSUME NEW t \in Task, Acquired(t)
     PROVE  Wanted'
  BY <1>7 DEF Acquired, Acquire, leaseVars, childVars, opVars, endVars, userVars
<1>8. ASSUME NEW t \in Task, AcquireGivesUp(t)
     PROVE  Wanted'
  BY <1>8 DEF AcquireGivesUp, ResumeFails, Release, childVars, opVars, endVars,
      saveVars
<1>9. ASSUME NEW t \in Task, NEW ok \in BOOLEAN, Repaired(t, ok)
     PROVE  Wanted'
  BY <1>9 DEF Repaired, ResumeFails, Release, leaseVars, childVars, opVars, endVars
<1>10. ASSUME NEW t \in Task, NEW ok \in BOOLEAN, Revived(t, ok)
     PROVE  Wanted'
  BY <1>10 DEF Revived, ResumeFails, Release, leaseVars, FinishTerminal, StopWork,
      FinishInterrupted, BeginOperation
<1>11. ASSUME NEW t \in Task, NEW ok \in BOOLEAN, Begun(t, ok)
     PROVE  Wanted'
  BY <1>11 DEF Begun, FinishTerminal, StopWork, FinishInterrupted, DriveInterruption,
      PromptFailure, lifeVars, leaseVars, userVars
<1>12. ASSUME NEW t \in Task, PromptSettles(t)
     PROVE  Wanted'
  BY <1>12 DEF PromptSettles, FinishInterrupted, lifeVars, childVars, leaseVars,
      opVars, userVars
<1>13. ASSUME NEW t \in Task, PromptRejects(t)
     PROVE  Wanted'
  BY <1>13 DEF PromptRejects, PromptFailure, DriveInterruption, FinishTerminal,
      FinishInterrupted, StopWork, lifeVars, childVars, leaseVars, opVars,
      saveVars, userVars
<1>14. ASSUME NEW t \in Task, NEW ok \in BOOLEAN, OperationSettled(t, ok)
     PROVE  Wanted'
  BY <1>14 DEF OperationSettled, FinishTerminal, StopWork, FinishInterrupted,
      DriveInterruption, leaseVars, opVars, userVars
<1>15. ASSUME NEW t \in Task, NEW ok \in BOOLEAN, QuestionChecked(t, ok)
     PROVE  Wanted'
  BY <1>15 DEF QuestionChecked, WorkspaceChecked, FinalizeInterrupted, childVars,
      leaseVars, opVars, endVars, userVars
<1>16. ASSUME NEW t \in Task, NEW ok \in BOOLEAN, QuestionSaved(t, ok)
     PROVE  Wanted'
  BY <1>16 DEF QuestionSaved, FinalizeInterrupted, Release, leaseVars, childVars,
      opVars, endVars, userVars
<1>17. ASSUME NEW t \in Task, InterruptChecked(t)
     PROVE  Wanted'
  BY <1>17 DEF InterruptChecked, FinalizeInterrupted, childVars, leaseVars, opVars,
      endVars, userVars
<1>18. ASSUME NEW t \in Task, NEW ok \in BOOLEAN, InterruptSaved(t, ok)
     PROVE  Wanted'
  BY <1>18 DEF InterruptSaved, Release, CompletionEnds, lifeVars, childVars, opVars,
      userVars
<1>19. ASSUME NEW t \in Task, NEW ok \in BOOLEAN, TerminalChecked(t, ok)
     PROVE  Wanted'
  BY <1>19 DEF TerminalChecked, WorkspaceChecked, FinalizeInterrupted, RemoveRun,
      childVars, leaseVars, opVars, userVars
<1>20. ASSUME NEW t \in Task, NEW ok \in BOOLEAN, ResultSaved(t, ok)
     PROVE  Wanted'
  BY <1>20 DEF ResultSaved, Release, CompletionEnds, DisposeRun, childVars, opVars,
      userVars
<1>21. ASSUME NEW t \in Task, Unpending(t)
     PROVE  Wanted'
  BY <1>21 DEF Unpending, Release, DisposeRun, leaseVars, childVars, lifeVars,
      opVars, endVars, userVars
<1>22. ASSUME NEW t \in Task, NEW ok \in BOOLEAN, Buried(t, ok)
     PROVE  Wanted'
  BY <1>22 DEF Buried, Release, DisposeRun, CompletionEnds, lifeVars, opVars,
      userVars
<1>23. ASSUME NEW t \in Task, Joined(t)
     PROVE  Wanted'
  BY <1>23 DEF Joined, lifeVars, childVars, leaseVars, opVars, endVars, saveVars,
      userVars
<1>24. ASSUME NEW t \in Task, WorkReturns(t)
     PROVE  Wanted'
  BY <1>24 DEF WorkReturns, Release, leaseVars, childVars, endVars, saveVars
<1>25. ASSUME NEW t \in Task, NEW byTool \in BOOLEAN, Cancel(t, byTool)
     PROVE  Wanted'
  BY <1>25, CancelMoves DEF FinishTerminal
<1>26. ASSUME NEW t \in Task, Halted(t)
     PROVE  Wanted'
  BY <1>26 DEF Halted, FinishTerminal, lifeVars, childVars, leaseVars, opVars,
      saveVars, userVars
<1>27. ASSUME NEW t \in Task, CancelReturns(t)
     PROVE  Wanted'
  BY <1>27 DEF CancelReturns, RemoveRun, childVars, leaseVars, opVars, saveVars
<1>28. ASSUME NEW t \in Task, Collect(t)
     PROVE  Wanted'
  BY <1>28 DEF Collect, Unused, ByTool, RemoveRun, childVars, leaseVars, opVars,
      saveVars
<1>29. ASSUME NEW t \in Task, CollectReturns(t)
     PROVE  Wanted'
  BY <1>29 DEF CollectReturns, lifeVars, childVars, leaseVars, opVars, saveVars
<1>30. ASSUME NEW t \in Task, Shutdown(t)
     PROVE  Wanted'
  BY <1>30 DEF Shutdown, Unused, lifeVars, leaseVars, opVars, saveVars
<1>31. ASSUME NEW t \in Task, SetupDrained(t)
     PROVE  Wanted'
  BY <1>31 DEF SetupDrained, lifeVars, leaseVars, opVars, endVars, saveVars, userVars
<1>32. ASSUME NEW t \in Task, OperationDrained(t)
     PROVE  Wanted'
  BY <1>32 DEF OperationDrained, RemoveRun, FinishInterrupted, childVars, leaseVars,
      opVars, userVars
<1>33. ASSUME NEW t \in Task, NEW ok \in BOOLEAN, Preserved(t, ok)
     PROVE  Wanted'
  BY <1>33 DEF Preserved, DisposeRun, RemoveRun, leaseVars, opVars, userVars
<1>34. ASSUME NEW t \in Task, ShutdownReturns(t)
     PROVE  Wanted'
  BY <1>34 DEF ShutdownReturns, RemoveRun, childVars, leaseVars, opVars, saveVars,
      userVars
<1>35. ASSUME NEW t \in Task, Signal(t)
     PROVE  Wanted'
  BY <1>35 DEF Signal, lifeVars, leaseVars, opVars, endVars, saveVars, taskVars
<1>36. ASSUME Detach
     PROVE  Wanted'
  BY <1>36 DEF Detach, childVars, leaseVars, endVars, saveVars, taskVars
<1>37. ASSUME LoseLease
     PROVE  Wanted'
  BY <1>37 DEF LoseLease, lifeVars, opVars, endVars, taskVars, userVars
<1>38. ASSUME OtherTakes
     PROVE  Wanted'
  BY <1>38 DEF OtherTakes, lifeVars, childVars, opVars, endVars, saveVars, taskVars,
      userVars
<1>39. ASSUME OtherReleases
     PROVE  Wanted'
  BY <1>39 DEF OtherReleases, lifeVars, childVars, opVars, endVars, saveVars,
      taskVars, userVars
<1> HIDE DEF StateInv, TaskTypes, At, Wanted, Placed, WorkSteps, CancelSteps,
           ShutdownSteps, Terminal, Active, Parked, Status, Goto
<1> QED
  BY <1>1, <1>2, <1>3, <1>4, <1>5, <1>6, <1>7, <1>8, <1>9, <1>10, <1>11,
      <1>12, <1>13, <1>14, <1>15, <1>16, <1>17, <1>18, <1>19, <1>20, <1>21,
      <1>22, <1>23, <1>24, <1>25, <1>26, <1>27, <1>28, <1>29, <1>30, <1>31,
      <1>32, <1>33, <1>34, <1>35, <1>36, <1>37, <1>38, <1>39
      DEF Next, SaveCompletes, WorkspaceCompletes, Reacts, Called

(* Whatever a step does, the run was started before it, or by it. *)
LEMMA StepNotYet ==
  ASSUME StateInv, Next
  PROVE  NotYet'
<1> USE DEF StateInv, TaskTypes, At, NotYet, Placed, Wanted, Terminal, Active,
           Parked, Status, Goto
<1>1. ASSUME NEW t \in Task, NEW inBackground \in BOOLEAN, Start(t, inBackground)
     PROVE  NotYet'
  BY <1>1 DEF Start, Unused, childVars, leaseVars, opVars, endVars
<1>2. ASSUME NEW t \in Task, NEW ok \in BOOLEAN, Reserved(t, ok)
     PROVE  NotYet'
  BY <1>2 DEF Reserved, Acquire, childVars, leaseVars
<1>3. ASSUME NEW t \in Task, ChildCreated(t)
     PROVE  NotYet'
  BY <1>3 DEF ChildCreated, lifeVars, leaseVars, opVars, endVars, userVars
<1>4. ASSUME NEW t \in Task, ChildFailed(t)
     PROVE  NotYet'
  BY <1>4 DEF ChildFailed, FinishTerminal, lifeVars, childVars, leaseVars, opVars,
      saveVars, userVars
<1>5. ASSUME NEW t \in Task, NEW ok \in BOOLEAN, Adopted(t, ok)
     PROVE  NotYet'
  BY <1>5 DEF Adopted, FinishTerminal, StopWork, FinishInterrupted, BeginOperation,
      leaseVars, userVars
<1>6. ASSUME NEW t \in Task, NEW byTool \in BOOLEAN, Resume(t, byTool)
     PROVE  NotYet'
  BY <1>6 DEF Resume, Unused, ByTool, ByBrowser, lifeVars, childVars, leaseVars,
      opVars, endVars, saveVars
<1>7. ASSUME NEW t \in Task, Acquired(t)
     PROVE  NotYet'
  BY <1>7 DEF Acquired, Acquire, leaseVars, childVars, opVars, endVars, userVars
<1>8. ASSUME NEW t \in Task, AcquireGivesUp(t)
     PROVE  NotYet'
  BY <1>8 DEF AcquireGivesUp, ResumeFails, Release, childVars, opVars, endVars,
      saveVars
<1>9. ASSUME NEW t \in Task, NEW ok \in BOOLEAN, Repaired(t, ok)
     PROVE  NotYet'
  BY <1>9 DEF Repaired, ResumeFails, Release, leaseVars, childVars, opVars, endVars
<1>10. ASSUME NEW t \in Task, NEW ok \in BOOLEAN, Revived(t, ok)
     PROVE  NotYet'
  BY <1>10 DEF Revived, ResumeFails, Release, leaseVars, FinishTerminal, StopWork,
      FinishInterrupted, BeginOperation
<1>11. ASSUME NEW t \in Task, NEW ok \in BOOLEAN, Begun(t, ok)
     PROVE  NotYet'
  BY <1>11 DEF Begun, FinishTerminal, StopWork, FinishInterrupted, DriveInterruption,
      PromptFailure, lifeVars, leaseVars, userVars
<1>12. ASSUME NEW t \in Task, PromptSettles(t)
     PROVE  NotYet'
  BY <1>12 DEF PromptSettles, FinishInterrupted, lifeVars, childVars, leaseVars,
      opVars, userVars
<1>13. ASSUME NEW t \in Task, PromptRejects(t)
     PROVE  NotYet'
  BY <1>13 DEF PromptRejects, PromptFailure, DriveInterruption, FinishTerminal,
      FinishInterrupted, StopWork, lifeVars, childVars, leaseVars, opVars,
      saveVars, userVars
<1>14. ASSUME NEW t \in Task, NEW ok \in BOOLEAN, OperationSettled(t, ok)
     PROVE  NotYet'
  BY <1>14 DEF OperationSettled, FinishTerminal, StopWork, FinishInterrupted,
      DriveInterruption, leaseVars, opVars, userVars
<1>15. ASSUME NEW t \in Task, NEW ok \in BOOLEAN, QuestionChecked(t, ok)
     PROVE  NotYet'
  BY <1>15 DEF QuestionChecked, WorkspaceChecked, FinalizeInterrupted, childVars,
      leaseVars, opVars, endVars, userVars
<1>16. ASSUME NEW t \in Task, NEW ok \in BOOLEAN, QuestionSaved(t, ok)
     PROVE  NotYet'
  BY <1>16 DEF QuestionSaved, FinalizeInterrupted, Release, leaseVars, childVars,
      opVars, endVars, userVars
<1>17. ASSUME NEW t \in Task, InterruptChecked(t)
     PROVE  NotYet'
  BY <1>17 DEF InterruptChecked, FinalizeInterrupted, childVars, leaseVars, opVars,
      endVars, userVars
<1>18. ASSUME NEW t \in Task, NEW ok \in BOOLEAN, InterruptSaved(t, ok)
     PROVE  NotYet'
  BY <1>18 DEF InterruptSaved, Release, CompletionEnds, lifeVars, childVars, opVars,
      userVars
<1>19. ASSUME NEW t \in Task, NEW ok \in BOOLEAN, TerminalChecked(t, ok)
     PROVE  NotYet'
  BY <1>19 DEF TerminalChecked, WorkspaceChecked, FinalizeInterrupted, RemoveRun,
      childVars, leaseVars, opVars, userVars
<1>20. ASSUME NEW t \in Task, NEW ok \in BOOLEAN, ResultSaved(t, ok)
     PROVE  NotYet'
  BY <1>20 DEF ResultSaved, Release, CompletionEnds, DisposeRun, childVars, opVars,
      userVars
<1>21. ASSUME NEW t \in Task, Unpending(t)
     PROVE  NotYet'
  BY <1>21 DEF Unpending, Release, DisposeRun, leaseVars, childVars, lifeVars,
      opVars, endVars, userVars
<1>22. ASSUME NEW t \in Task, NEW ok \in BOOLEAN, Buried(t, ok)
     PROVE  NotYet'
  BY <1>22 DEF Buried, Release, DisposeRun, CompletionEnds, lifeVars, opVars,
      userVars
<1>23. ASSUME NEW t \in Task, Joined(t)
     PROVE  NotYet'
  BY <1>23 DEF Joined, lifeVars, childVars, leaseVars, opVars, endVars, saveVars,
      userVars
<1>24. ASSUME NEW t \in Task, WorkReturns(t)
     PROVE  NotYet'
  BY <1>24 DEF WorkReturns, Release, leaseVars, childVars, endVars, saveVars
<1>25. ASSUME NEW t \in Task, NEW byTool \in BOOLEAN, Cancel(t, byTool)
     PROVE  NotYet'
  BY <1>25 DEF Cancel, Unused, ByTool, ByBrowser, FinishTerminal, lifeVars,
      leaseVars, opVars, saveVars
<1>26. ASSUME NEW t \in Task, Halted(t)
     PROVE  NotYet'
  BY <1>26 DEF Halted, FinishTerminal, lifeVars, childVars, leaseVars, opVars,
      saveVars, userVars
<1>27. ASSUME NEW t \in Task, CancelReturns(t)
     PROVE  NotYet'
  BY <1>27 DEF CancelReturns, RemoveRun, childVars, leaseVars, opVars, saveVars
<1>28. ASSUME NEW t \in Task, Collect(t)
     PROVE  NotYet'
  BY <1>28 DEF Collect, Unused, ByTool, RemoveRun, childVars, leaseVars, opVars,
      saveVars
<1>29. ASSUME NEW t \in Task, CollectReturns(t)
     PROVE  NotYet'
  BY <1>29 DEF CollectReturns, lifeVars, childVars, leaseVars, opVars, saveVars
<1>30. ASSUME NEW t \in Task, Shutdown(t)
     PROVE  NotYet'
  BY <1>30 DEF Shutdown, Unused, lifeVars, leaseVars, opVars, saveVars
<1>31. ASSUME NEW t \in Task, SetupDrained(t)
     PROVE  NotYet'
  BY <1>31 DEF SetupDrained, lifeVars, leaseVars, opVars, endVars, saveVars, userVars
<1>32. ASSUME NEW t \in Task, OperationDrained(t)
     PROVE  NotYet'
  BY <1>32 DEF OperationDrained, RemoveRun, FinishInterrupted, childVars, leaseVars,
      opVars, userVars
<1>33. ASSUME NEW t \in Task, NEW ok \in BOOLEAN, Preserved(t, ok)
     PROVE  NotYet'
  BY <1>33 DEF Preserved, DisposeRun, RemoveRun, leaseVars, opVars, userVars
<1>34. ASSUME NEW t \in Task, ShutdownReturns(t)
     PROVE  NotYet'
  BY <1>34 DEF ShutdownReturns, RemoveRun, childVars, leaseVars, opVars, saveVars,
      userVars
<1>35. ASSUME NEW t \in Task, Signal(t)
     PROVE  NotYet'
  BY <1>35 DEF Signal, lifeVars, leaseVars, opVars, endVars, saveVars, taskVars
<1>36. ASSUME Detach
     PROVE  NotYet'
  BY <1>36 DEF Detach, childVars, leaseVars, endVars, saveVars, taskVars
<1>37. ASSUME LoseLease
     PROVE  NotYet'
  BY <1>37 DEF LoseLease, lifeVars, opVars, endVars, taskVars, userVars
<1>38. ASSUME OtherTakes
     PROVE  NotYet'
  BY <1>38 DEF OtherTakes, lifeVars, childVars, opVars, endVars, saveVars, taskVars,
      userVars
<1>39. ASSUME OtherReleases
     PROVE  NotYet'
  BY <1>39 DEF OtherReleases, lifeVars, childVars, opVars, endVars, saveVars,
      taskVars, userVars
<1> HIDE DEF StateInv, TaskTypes, At, NotYet, Placed, Wanted, Terminal, Active,
           Parked, Status, Goto
<1> QED
  BY <1>1, <1>2, <1>3, <1>4, <1>5, <1>6, <1>7, <1>8, <1>9, <1>10, <1>11,
      <1>12, <1>13, <1>14, <1>15, <1>16, <1>17, <1>18, <1>19, <1>20, <1>21,
      <1>22, <1>23, <1>24, <1>25, <1>26, <1>27, <1>28, <1>29, <1>30, <1>31,
      <1>32, <1>33, <1>34, <1>35, <1>36, <1>37, <1>38, <1>39
      DEF Next, SaveCompletes, WorkspaceCompletes, Reacts, Called

(* The queue follows the call that moves. *)
LEMMA StepWrites ==
  ASSUME StateInv, Next
  PROVE  QueueStep
<1> USE DEF StateInv, TaskTypes, ValueTypes, At, Label, Saving, Placed, Wanted,
           NotYet, Terminal, Active, Parked, Status, Goto, QueueStep, WriteStep
<1>1. ASSUME NEW t \in Task, NEW inBackground \in BOOLEAN, Start(t, inBackground)
     PROVE  QueueStep
  BY <1>1 DEF Start, Unused, childVars, leaseVars, opVars, endVars
<1>2. ASSUME NEW t \in Task, NEW ok \in BOOLEAN, Reserved(t, ok)
     PROVE  QueueStep
  BY <1>2 DEF Reserved, Acquire, childVars, leaseVars
<1>3. ASSUME NEW t \in Task, ChildCreated(t)
     PROVE  QueueStep
  BY <1>3 DEF ChildCreated, lifeVars, leaseVars, opVars, endVars, userVars
<1>4. ASSUME NEW t \in Task, ChildFailed(t)
     PROVE  QueueStep
  <2>1. pc[t] = "setup" /\ queue' = queue
    BY <1>4 DEF ChildFailed, saveVars
  <2>2. Goto(t, "back") \/ Goto(t, "join") \/ Goto(t, "finish")
    BY <1>4 DEF ChildFailed, FinishTerminal
  <2> QED BY <2>1, <2>2
<1>5. ASSUME NEW t \in Task, NEW ok \in BOOLEAN, Adopted(t, ok)
     PROVE  QueueStep
  BY <1>5 DEF Adopted, FinishTerminal, StopWork, FinishInterrupted, BeginOperation,
      leaseVars, userVars
<1>6. ASSUME NEW t \in Task, NEW byTool \in BOOLEAN, Resume(t, byTool)
     PROVE  QueueStep
  BY <1>6 DEF Resume, Unused, ByTool, ByBrowser, lifeVars, childVars, leaseVars,
      opVars, endVars, saveVars
<1>7. ASSUME NEW t \in Task, Acquired(t)
     PROVE  QueueStep
  BY <1>7 DEF Acquired, Acquire, leaseVars, childVars, opVars, endVars, userVars
<1>8. ASSUME NEW t \in Task, AcquireGivesUp(t)
     PROVE  QueueStep
  BY <1>8 DEF AcquireGivesUp, ResumeFails, Release, childVars, opVars, endVars,
      saveVars
<1>9. ASSUME NEW t \in Task, NEW ok \in BOOLEAN, Repaired(t, ok)
     PROVE  QueueStep
  BY <1>9 DEF Repaired, ResumeFails, Release, leaseVars, childVars, opVars, endVars
<1>10. ASSUME NEW t \in Task, NEW ok \in BOOLEAN, Revived(t, ok)
     PROVE  QueueStep
  BY <1>10 DEF Revived, ResumeFails, Release, leaseVars, FinishTerminal, StopWork,
      FinishInterrupted, BeginOperation
<1>11. ASSUME NEW t \in Task, NEW ok \in BOOLEAN, Begun(t, ok)
     PROVE  QueueStep
  BY <1>11 DEF Begun, FinishTerminal, StopWork, FinishInterrupted, DriveInterruption,
      PromptFailure, lifeVars, leaseVars, userVars
<1>12. ASSUME NEW t \in Task, PromptSettles(t)
     PROVE  QueueStep
  BY <1>12 DEF PromptSettles, FinishInterrupted, lifeVars, childVars, leaseVars,
      opVars, userVars
<1>13. ASSUME NEW t \in Task, PromptRejects(t)
     PROVE  QueueStep
  BY <1>13 DEF PromptRejects, PromptFailure, DriveInterruption, FinishTerminal,
      FinishInterrupted, StopWork, lifeVars, childVars, leaseVars, opVars,
      saveVars, userVars
<1>14. ASSUME NEW t \in Task, NEW ok \in BOOLEAN, OperationSettled(t, ok)
     PROVE  QueueStep
  BY <1>14 DEF OperationSettled, FinishTerminal, StopWork, FinishInterrupted,
      DriveInterruption, leaseVars, opVars, userVars
<1>15. ASSUME NEW t \in Task, NEW ok \in BOOLEAN, QuestionChecked(t, ok)
     PROVE  QueueStep
  BY <1>15 DEF QuestionChecked, WorkspaceChecked, FinalizeInterrupted, childVars,
      leaseVars, opVars, endVars, userVars
<1>16. ASSUME NEW t \in Task, NEW ok \in BOOLEAN, QuestionSaved(t, ok)
     PROVE  QueueStep
  BY <1>16 DEF QuestionSaved, FinalizeInterrupted, Release, leaseVars, childVars,
      opVars, endVars, userVars
<1>17. ASSUME NEW t \in Task, InterruptChecked(t)
     PROVE  QueueStep
  BY <1>17 DEF InterruptChecked, FinalizeInterrupted, childVars, leaseVars, opVars,
      endVars, userVars
<1>18. ASSUME NEW t \in Task, NEW ok \in BOOLEAN, InterruptSaved(t, ok)
     PROVE  QueueStep
  BY <1>18 DEF InterruptSaved, Release, CompletionEnds, lifeVars, childVars, opVars,
      userVars
<1>19. ASSUME NEW t \in Task, NEW ok \in BOOLEAN, TerminalChecked(t, ok)
     PROVE  QueueStep
  BY <1>19 DEF TerminalChecked, WorkspaceChecked, FinalizeInterrupted, RemoveRun,
      childVars, leaseVars, opVars, userVars
<1>20. ASSUME NEW t \in Task, NEW ok \in BOOLEAN, ResultSaved(t, ok)
     PROVE  QueueStep
  BY <1>20 DEF ResultSaved, Release, CompletionEnds, DisposeRun, childVars, opVars,
      userVars
<1>21. ASSUME NEW t \in Task, Unpending(t)
     PROVE  QueueStep
  BY <1>21 DEF Unpending, Release, DisposeRun, leaseVars, childVars, lifeVars,
      opVars, endVars, userVars
<1>22. ASSUME NEW t \in Task, NEW ok \in BOOLEAN, Buried(t, ok)
     PROVE  QueueStep
  BY <1>22 DEF Buried, Release, DisposeRun, CompletionEnds, lifeVars, opVars,
      userVars
<1>23. ASSUME NEW t \in Task, Joined(t)
     PROVE  QueueStep
  BY <1>23 DEF Joined, lifeVars, childVars, leaseVars, opVars, endVars, saveVars,
      userVars
<1>24. ASSUME NEW t \in Task, WorkReturns(t)
     PROVE  QueueStep
  BY <1>24 DEF WorkReturns, Release, leaseVars, childVars, endVars, saveVars
<1>25. ASSUME NEW t \in Task, NEW byTool \in BOOLEAN, Cancel(t, byTool)
     PROVE  QueueStep
  BY <1>25, CancelMoves DEF FinishTerminal
<1>26. ASSUME NEW t \in Task, Halted(t)
     PROVE  QueueStep
  BY <1>26 DEF Halted, FinishTerminal, lifeVars, childVars, leaseVars, opVars,
      saveVars, userVars
<1>27. ASSUME NEW t \in Task, CancelReturns(t)
     PROVE  QueueStep
  BY <1>27 DEF CancelReturns, RemoveRun, childVars, leaseVars, opVars, saveVars
<1>28. ASSUME NEW t \in Task, Collect(t)
     PROVE  QueueStep
  BY <1>28 DEF Collect, Unused, ByTool, RemoveRun, childVars, leaseVars, opVars,
      saveVars
<1>29. ASSUME NEW t \in Task, CollectReturns(t)
     PROVE  QueueStep
  BY <1>29 DEF CollectReturns, lifeVars, childVars, leaseVars, opVars, saveVars
<1>30. ASSUME NEW t \in Task, Shutdown(t)
     PROVE  QueueStep
  BY <1>30 DEF Shutdown, Unused, lifeVars, leaseVars, opVars, saveVars
<1>31. ASSUME NEW t \in Task, SetupDrained(t)
     PROVE  QueueStep
  BY <1>31 DEF SetupDrained, lifeVars, leaseVars, opVars, endVars, saveVars, userVars
<1>32. ASSUME NEW t \in Task, OperationDrained(t)
     PROVE  QueueStep
  BY <1>32 DEF OperationDrained, RemoveRun, FinishInterrupted, childVars, leaseVars,
      opVars, userVars
<1>33. ASSUME NEW t \in Task, NEW ok \in BOOLEAN, Preserved(t, ok)
     PROVE  QueueStep
  BY <1>33 DEF Preserved, DisposeRun, RemoveRun, leaseVars, opVars, userVars
<1>34. ASSUME NEW t \in Task, ShutdownReturns(t)
     PROVE  QueueStep
  BY <1>34 DEF ShutdownReturns, RemoveRun, childVars, leaseVars, opVars, saveVars,
      userVars
<1>35. ASSUME NEW t \in Task, Signal(t)
     PROVE  QueueStep
  BY <1>35 DEF Signal, lifeVars, leaseVars, opVars, endVars, saveVars, taskVars
<1>36. ASSUME Detach
     PROVE  QueueStep
  BY <1>36 DEF Detach, childVars, leaseVars, endVars, saveVars, taskVars
<1>37. ASSUME LoseLease
     PROVE  QueueStep
  BY <1>37 DEF LoseLease, lifeVars, opVars, endVars, taskVars, userVars
<1>38. ASSUME OtherTakes
     PROVE  QueueStep
  BY <1>38 DEF OtherTakes, lifeVars, childVars, opVars, endVars, saveVars, taskVars,
      userVars
<1>39. ASSUME OtherReleases
     PROVE  QueueStep
  BY <1>39 DEF OtherReleases, lifeVars, childVars, opVars, endVars, saveVars,
      taskVars, userVars
<1> HIDE DEF StateInv, TaskTypes, ValueTypes, At, Label, Saving, Placed, Wanted,
           NotYet, Terminal, Active, Parked, Status, Goto, QueueStep, WriteStep
<1> QED
  BY <1>1, <1>2, <1>3, <1>4, <1>5, <1>6, <1>7, <1>8, <1>9, <1>10, <1>11,
      <1>12, <1>13, <1>14, <1>15, <1>16, <1>17, <1>18, <1>19, <1>20, <1>21,
      <1>22, <1>23, <1>24, <1>25, <1>26, <1>27, <1>28, <1>29, <1>30, <1>31,
      <1>32, <1>33, <1>34, <1>35, <1>36, <1>37, <1>38, <1>39
      DEF Next, SaveCompletes, WorkspaceCompletes, Reacts, Called

(* Such a change keeps one write for each call that waits for one. *)
LEMMA QueueStepKeeps ==
  ASSUME StateInv, TaskTypes', RunTypes, QueueStep
  PROVE  queue' \in Seq(Write) /\ Writes'
<1>1. CASE UNCHANGED <<pc, queue>>
  BY <1>1 DEF StateInv, Writes
<1>2. ASSUME NEW t \in Task, WriteStep(t)
      PROVE  queue' \in Seq(Write) /\ Writes'
  <2>1. /\ pc \in [Task -> Label] /\ pc'[t] \in Label
        /\ pc' = [pc EXCEPT ![t] = pc'[t]]
        /\ queue \in Seq(Write) /\ Writes
    BY <1>2 DEF WriteStep, TaskTypes, StateInv
  <2>2. ASSUME NEW q \in Seq(Write), NEW s \in Status \cup {"removed"},
               MatchesBut(q, pc, t), pc'[t] \in Saving, queue' = Saved(q, t, s)
        PROVE  queue' \in Seq(Write) /\ Writes'
    <3>1. [task |-> t, status |-> s, refused |-> lost] \in Write
      BY DEF Write, RunTypes
    <3> QED BY <2>1, <2>2, <3>1, GoesWriting DEF Saved, Writes
  <2>3. ASSUME NEW q \in Seq(Write),
               MatchesBut(q, pc, t), pc'[t] \notin Saving, queue' = q
        PROVE  queue' \in Seq(Write) /\ Writes'
    BY <2>1, <2>3, GoesUnwritten DEF Writes
  <2>4. pc[t] \notin Saving => MatchesBut(queue, pc, t)
    BY <2>1, QueueMatches
  <2>5. pc[t] \in Saving => Rest(t) \in Seq(Write) /\ MatchesBut(Rest(t), pc, t)
    BY <2>1, RestMatches
  <2> QED BY <1>2, <2>1, <2>2, <2>3, <2>4, <2>5 DEF WriteStep
<1> QED BY <1>1, <1>2 DEF QueueStep

LEMMA StateStep ==
  ASSUME StateInv, [Next]_vars
  PROVE  StateInv'
<1>1. CASE Next
  BY <1>1, StepRun, StepSets, StepValues, StepTask, StepPlaced, StepWanted,
     StepNotYet, StepWrites, QueueStepKeeps DEF StateInv
<1>2. CASE UNCHANGED vars
  BY <1>2 DEF vars, lifeVars, childVars, leaseVars, opVars, endVars, saveVars,
     taskVars, userVars, StateInv, RunTypes, SetTypes, ValueTypes, TaskTypes,
     Placed, Wanted, NotYet, Writes
<1> QED BY <1>1, <1>2

LEMMA StateStarts ==
  ASSUME Init
  PROVE  StateInv
<1> USE DEF Init
<1>1. RunTypes /\ SetTypes
  BY DEF RunTypes, SetTypes
<1>2. ValueTypes /\ TaskTypes
  BY DEF ValueTypes, TaskTypes, Label
<1>3. queue \in Seq(Write) /\ Writes
  BY DEF Writes, Matches, Saving
<1>4. Placed /\ Wanted /\ NotYet
  BY DEF Placed, Wanted, NotYet
<1> QED BY <1>1, <1>2, <1>3, <1>4 DEF StateInv

LEMMA StateTyped ==
  ASSUME StateInv
  PROVE  TypeOK
BY DEF StateInv, TypeOK, RunTypes, SetTypes, ValueTypes, TaskTypes, Write

(* Every variable keeps its type, every write in flight belongs to the one   *)
(* call that waits for it, and every call is at a step of its own kind.     *)
THEOREM LifeTypes == Spec => []TypeOK
<1>1. Spec => []StateInv
  BY StateStarts, StateStep, PTL DEF Spec
<1> QED BY <1>1, StateTyped, PTL

-----------------------------------------------------------------------------
(* Who settles the run. *)

Settling == {"finish", "retain", "remove", "bury", "yield"}

(* A settlement that was begun is in the hands of one call, until it ends. *)
OneSettles ==
  /\ completion \in Task =>
       pc[completion] \in Settling /\ call[completion] \in {"start", "resume", "cancel"}
  /\ \A t \in Task : pc[t] = "finish" => completion = t
  /\ outcome # None => completion # None

(* A run leaves the registry for good; only a workspace checkpoint that      *)
(* failed turns a cancellation into a park.                                  *)
Removal ==
  \A t \in Task :
    /\ want[t] = "removed" \/ pc[t] \in {"remove", "bury"} => ~registered
    /\ pc[t] = "retain" => background
    /\ pc[t] = "yield" /\ (completion = t \/ call[t] = "cancel") => "checkpoint" \in faults
    /\ call[t] = "cancel" /\ pc[t] = "back" /\ "checkpoint" \notin faults =>
         background \/ ~registered

(* A foreground run that is registered has not settled. *)
ForegroundOpen ==
  registered /\ ~background /\ "checkpoint" \notin faults =>
    /\ outcome = None /\ completion # Settled
    /\ status \notin Terminal

CancelInv == OneSettles /\ Removal /\ ForegroundOpen /\ CancelEnds


(* The owner of a settlement is a call, not one of the marks. *)
LEMMA Distinct == None \notin Task /\ Settled \notin Task /\ None # Settled
BY LifecycleAssumption

(* A settlement begins when there is none, and stays in the hands of its call. *)
LEMMA StepSettles ==
  ASSUME StateInv, OneSettles, Next
  PROVE  OneSettles'
<1> USE Distinct DEF StateInv, TaskTypes, ValueTypes, At, Placed, NotYet, OneSettles,
           Settling, Goto, WorkSteps, CancelSteps, ShutdownSteps
<1>1. ASSUME NEW t \in Task, NEW inBackground \in BOOLEAN, Start(t, inBackground)
     PROVE  OneSettles'
  BY <1>1 DEF Start, Unused, childVars, leaseVars, opVars, endVars
<1>2. ASSUME NEW t \in Task, NEW ok \in BOOLEAN, Reserved(t, ok)
     PROVE  OneSettles'
  BY <1>2 DEF Reserved, Acquire, childVars, leaseVars
<1>3. ASSUME NEW t \in Task, ChildCreated(t)
     PROVE  OneSettles'
  BY <1>3 DEF ChildCreated, lifeVars, leaseVars, opVars, endVars, userVars
<1>4. ASSUME NEW t \in Task, ChildFailed(t)
     PROVE  OneSettles'
  BY <1>4 DEF ChildFailed, FinishTerminal, lifeVars, childVars, leaseVars, opVars,
      saveVars, userVars
<1>5. ASSUME NEW t \in Task, NEW ok \in BOOLEAN, Adopted(t, ok)
     PROVE  OneSettles'
  BY <1>5 DEF Adopted, FinishTerminal, StopWork, FinishInterrupted, BeginOperation,
      leaseVars, userVars
<1>6. ASSUME NEW t \in Task, NEW byTool \in BOOLEAN, Resume(t, byTool)
     PROVE  OneSettles'
  BY <1>6 DEF Resume, Unused, ByTool, ByBrowser, lifeVars, childVars, leaseVars,
      opVars, endVars, saveVars
<1>7. ASSUME NEW t \in Task, Acquired(t)
     PROVE  OneSettles'
  BY <1>7 DEF Acquired, Acquire, leaseVars, childVars, opVars, endVars, userVars
<1>8. ASSUME NEW t \in Task, AcquireGivesUp(t)
     PROVE  OneSettles'
  BY <1>8 DEF AcquireGivesUp, ResumeFails, childVars, opVars, endVars, saveVars
<1>9. ASSUME NEW t \in Task, NEW ok \in BOOLEAN, Repaired(t, ok)
     PROVE  OneSettles'
  BY <1>9 DEF Repaired, ResumeFails, leaseVars, childVars, opVars, endVars
<1>10. ASSUME NEW t \in Task, NEW ok \in BOOLEAN, Revived(t, ok)
     PROVE  OneSettles'
  BY <1>10 DEF Revived, ResumeFails, leaseVars, FinishTerminal, StopWork,
      FinishInterrupted, BeginOperation
<1>11. ASSUME NEW t \in Task, NEW ok \in BOOLEAN, Begun(t, ok)
     PROVE  OneSettles'
  BY <1>11 DEF Begun, FinishTerminal, StopWork, FinishInterrupted, DriveInterruption,
      PromptFailure, lifeVars, leaseVars, userVars
<1>12. ASSUME NEW t \in Task, PromptSettles(t)
     PROVE  OneSettles'
  BY <1>12 DEF PromptSettles, FinishInterrupted, lifeVars, childVars, leaseVars,
      opVars, userVars
<1>13. ASSUME NEW t \in Task, PromptRejects(t)
     PROVE  OneSettles'
  BY <1>13 DEF PromptRejects, PromptFailure, DriveInterruption, FinishTerminal,
      FinishInterrupted, StopWork, lifeVars, childVars, leaseVars, opVars,
      saveVars, userVars
<1>14. ASSUME NEW t \in Task, NEW ok \in BOOLEAN, OperationSettled(t, ok)
     PROVE  OneSettles'
  BY <1>14 DEF OperationSettled, FinishTerminal, StopWork, FinishInterrupted,
      DriveInterruption, leaseVars, opVars, userVars
<1>15. ASSUME NEW t \in Task, NEW ok \in BOOLEAN, QuestionChecked(t, ok)
     PROVE  OneSettles'
  BY <1>15 DEF QuestionChecked, WorkspaceChecked, FinalizeInterrupted, childVars,
      leaseVars, opVars, endVars, userVars
<1>16. ASSUME NEW t \in Task, NEW ok \in BOOLEAN, QuestionSaved(t, ok)
     PROVE  OneSettles'
  BY <1>16 DEF QuestionSaved, FinalizeInterrupted, leaseVars, childVars, opVars,
      endVars, userVars
<1>17. ASSUME NEW t \in Task, InterruptChecked(t)
     PROVE  OneSettles'
  BY <1>17 DEF InterruptChecked, FinalizeInterrupted, childVars, leaseVars, opVars,
      endVars, userVars
<1>18. ASSUME NEW t \in Task, NEW ok \in BOOLEAN, InterruptSaved(t, ok)
     PROVE  OneSettles'
  BY <1>18 DEF InterruptSaved, CompletionEnds, lifeVars, childVars, opVars, userVars
<1>19. ASSUME NEW t \in Task, NEW ok \in BOOLEAN, TerminalChecked(t, ok)
     PROVE  OneSettles'
  BY <1>19 DEF TerminalChecked, WorkspaceChecked, FinalizeInterrupted, RemoveRun,
      childVars, leaseVars, opVars, userVars
<1>20. ASSUME NEW t \in Task, NEW ok \in BOOLEAN, ResultSaved(t, ok)
     PROVE  OneSettles'
  BY <1>20 DEF ResultSaved, CompletionEnds, childVars, opVars, userVars
<1>21. ASSUME NEW t \in Task, Unpending(t)
     PROVE  OneSettles'
  BY <1>21 DEF Unpending, leaseVars, childVars, lifeVars, opVars, endVars, userVars
<1>22. ASSUME NEW t \in Task, NEW ok \in BOOLEAN, Buried(t, ok)
     PROVE  OneSettles'
  BY <1>22 DEF Buried, CompletionEnds, lifeVars, opVars, userVars
<1>23. ASSUME NEW t \in Task, Joined(t)
     PROVE  OneSettles'
  BY <1>23 DEF Joined, lifeVars, childVars, leaseVars, opVars, endVars, saveVars,
      userVars
<1>24. ASSUME NEW t \in Task, WorkReturns(t)
     PROVE  OneSettles'
  BY <1>24 DEF WorkReturns, leaseVars, childVars, endVars, saveVars
<1>25. ASSUME NEW t \in Task, NEW byTool \in BOOLEAN, Cancel(t, byTool)
     PROVE  OneSettles'
  BY <1>25, CancelMoves DEF FinishTerminal
<1>26. ASSUME NEW t \in Task, Halted(t)
     PROVE  OneSettles'
  BY <1>26 DEF Halted, FinishTerminal, lifeVars, childVars, leaseVars, opVars,
      saveVars, userVars
<1>27. ASSUME NEW t \in Task, CancelReturns(t)
     PROVE  OneSettles'
  BY <1>27 DEF CancelReturns, RemoveRun, childVars, leaseVars, opVars, saveVars
<1>28. ASSUME NEW t \in Task, Collect(t)
     PROVE  OneSettles'
  BY <1>28 DEF Collect, Unused, ByTool, RemoveRun, childVars, leaseVars, opVars,
      saveVars
<1>29. ASSUME NEW t \in Task, CollectReturns(t)
     PROVE  OneSettles'
  BY <1>29 DEF CollectReturns, lifeVars, childVars, leaseVars, opVars, saveVars
<1>30. ASSUME NEW t \in Task, Shutdown(t)
     PROVE  OneSettles'
  BY <1>30 DEF Shutdown, Unused, lifeVars, leaseVars, opVars, saveVars
<1>31. ASSUME NEW t \in Task, SetupDrained(t)
     PROVE  OneSettles'
  BY <1>31 DEF SetupDrained, lifeVars, leaseVars, opVars, endVars, saveVars, userVars
<1>32. ASSUME NEW t \in Task, OperationDrained(t)
     PROVE  OneSettles'
  BY <1>32 DEF OperationDrained, RemoveRun, FinishInterrupted, childVars, leaseVars,
      opVars, userVars
<1>33. ASSUME NEW t \in Task, NEW ok \in BOOLEAN, Preserved(t, ok)
     PROVE  OneSettles'
  BY <1>33 DEF Preserved, RemoveRun, leaseVars, opVars, userVars
<1>34. ASSUME NEW t \in Task, ShutdownReturns(t)
     PROVE  OneSettles'
  BY <1>34 DEF ShutdownReturns, RemoveRun, childVars, leaseVars, opVars, saveVars,
      userVars
<1>35. ASSUME NEW t \in Task, Signal(t)
     PROVE  OneSettles'
  BY <1>35 DEF Signal, lifeVars, leaseVars, opVars, endVars, saveVars, taskVars
<1>36. ASSUME Detach
     PROVE  OneSettles'
  BY <1>36 DEF Detach, childVars, leaseVars, endVars, saveVars, taskVars
<1>37. ASSUME LoseLease
     PROVE  OneSettles'
  BY <1>37 DEF LoseLease, lifeVars, opVars, endVars, taskVars, userVars
<1>38. ASSUME OtherTakes
     PROVE  OneSettles'
  BY <1>38 DEF OtherTakes, lifeVars, childVars, opVars, endVars, saveVars, taskVars,
      userVars
<1>39. ASSUME OtherReleases
     PROVE  OneSettles'
  BY <1>39 DEF OtherReleases, lifeVars, childVars, opVars, endVars, saveVars,
      taskVars, userVars
<1> HIDE DEF StateInv, TaskTypes, ValueTypes, At, Placed, NotYet, OneSettles,
           Settling, Goto, WorkSteps, CancelSteps, ShutdownSteps
<1> QED
  BY <1>1, <1>2, <1>3, <1>4, <1>5, <1>6, <1>7, <1>8, <1>9, <1>10, <1>11,
      <1>12, <1>13, <1>14, <1>15, <1>16, <1>17, <1>18, <1>19, <1>20, <1>21,
      <1>22, <1>23, <1>24, <1>25, <1>26, <1>27, <1>28, <1>29, <1>30, <1>31,
      <1>32, <1>33, <1>34, <1>35, <1>36, <1>37, <1>38, <1>39
      DEF Next, SaveCompletes, WorkspaceCompletes, Reacts, Called

(* A run that left the registry stays out of it. *)
LEMMA StepRemoval ==
  ASSUME StateInv, CancelInv, Next
  PROVE  Removal'
<1> USE Distinct
DEF StateInv, CancelInv, TaskTypes, RunTypes, At, Saving, Placed, Wanted,
           NotYet, OneSettles, Removal, ForegroundOpen, Settling, Goto, WorkSteps,
           CancelSteps, ShutdownSteps, Terminal, Parked, Active, Status
<1>1. ASSUME NEW t \in Task, NEW inBackground \in BOOLEAN, Start(t, inBackground)
     PROVE  Removal'
  BY <1>1 DEF Start, Unused, childVars, leaseVars, opVars, endVars
<1>2. ASSUME NEW t \in Task, NEW ok \in BOOLEAN, Reserved(t, ok)
     PROVE  Removal'
  BY <1>2, SaveEndsTypes DEF Reserved, Acquire, childVars, leaseVars
<1>3. ASSUME NEW t \in Task, ChildCreated(t)
     PROVE  Removal'
  BY <1>3 DEF ChildCreated, lifeVars, leaseVars, opVars, endVars, userVars
<1>4. ASSUME NEW t \in Task, ChildFailed(t)
     PROVE  Removal'
  BY <1>4 DEF ChildFailed, FinishTerminal, lifeVars, childVars, leaseVars, opVars,
      saveVars, userVars
<1>5. ASSUME NEW t \in Task, NEW ok \in BOOLEAN, Adopted(t, ok)
     PROVE  Removal'
  BY <1>5, SaveEndsTypes
    DEF Adopted, FinishTerminal, StopWork, FinishInterrupted, BeginOperation,
      leaseVars, userVars
<1>6. ASSUME NEW t \in Task, NEW byTool \in BOOLEAN, Resume(t, byTool)
     PROVE  Removal'
  BY <1>6 DEF Resume, Unused, ByTool, ByBrowser, lifeVars, childVars, leaseVars,
      opVars, endVars, saveVars
<1>7. ASSUME NEW t \in Task, Acquired(t)
     PROVE  Removal'
  BY <1>7 DEF Acquired, Acquire, leaseVars, childVars, opVars, endVars, userVars
<1>8. ASSUME NEW t \in Task, AcquireGivesUp(t)
     PROVE  Removal'
  BY <1>8 DEF AcquireGivesUp, ResumeFails, childVars, opVars, endVars, saveVars
<1>9. ASSUME NEW t \in Task, NEW ok \in BOOLEAN, Repaired(t, ok)
     PROVE  Removal'
  BY <1>9, SaveEndsTypes
    DEF Repaired, ResumeFails, leaseVars, childVars, opVars, endVars
<1>10. ASSUME NEW t \in Task, NEW ok \in BOOLEAN, Revived(t, ok)
     PROVE  Removal'
  BY <1>10, SaveEndsTypes DEF Revived, ResumeFails, leaseVars, FinishTerminal, StopWork,
      FinishInterrupted, BeginOperation
<1>11. ASSUME NEW t \in Task, NEW ok \in BOOLEAN, Begun(t, ok)
     PROVE  Removal'
  BY <1>11, SaveEndsTypes
    DEF Begun, FinishTerminal, StopWork, FinishInterrupted, DriveInterruption,
      PromptFailure, lifeVars, leaseVars, userVars
<1>12. ASSUME NEW t \in Task, PromptSettles(t)
     PROVE  Removal'
  BY <1>12 DEF PromptSettles, FinishInterrupted, lifeVars, childVars, leaseVars,
      opVars, userVars
<1>13. ASSUME NEW t \in Task, PromptRejects(t)
     PROVE  Removal'
  BY <1>13 DEF PromptRejects, PromptFailure, DriveInterruption, FinishTerminal,
      FinishInterrupted, StopWork, lifeVars, childVars, leaseVars, opVars,
      saveVars, userVars
<1>14. ASSUME NEW t \in Task, NEW ok \in BOOLEAN, OperationSettled(t, ok)
     PROVE  Removal'
  BY <1>14, SaveEndsTypes
    DEF OperationSettled, FinishTerminal, StopWork, FinishInterrupted,
      DriveInterruption, leaseVars, opVars, userVars
<1>15. ASSUME NEW t \in Task, NEW ok \in BOOLEAN, QuestionChecked(t, ok)
     PROVE  Removal'
  BY <1>15 DEF QuestionChecked, WorkspaceChecked, Fault, FinalizeInterrupted,
      childVars, leaseVars, opVars, endVars, userVars
<1>16. ASSUME NEW t \in Task, NEW ok \in BOOLEAN, QuestionSaved(t, ok)
     PROVE  Removal'
  BY <1>16, SaveEndsTypes
    DEF QuestionSaved, FinalizeInterrupted, leaseVars, childVars, opVars,
      endVars, userVars
<1>17. ASSUME NEW t \in Task, InterruptChecked(t)
     PROVE  Removal'
  BY <1>17 DEF InterruptChecked, FinalizeInterrupted, childVars, leaseVars, opVars,
      endVars, userVars
<1>18. ASSUME NEW t \in Task, NEW ok \in BOOLEAN, InterruptSaved(t, ok)
     PROVE  Removal'
  BY <1>18, SaveEndsTypes
    DEF InterruptSaved, CompletionEnds, lifeVars, childVars, opVars, userVars
<1>19. ASSUME NEW t \in Task, NEW ok \in BOOLEAN, TerminalChecked(t, ok)
     PROVE  Removal'
  BY <1>19 DEF TerminalChecked, WorkspaceChecked, Fault, FinalizeInterrupted,
      RemoveRun, childVars, leaseVars, opVars, userVars
<1>20. ASSUME NEW t \in Task, NEW ok \in BOOLEAN, ResultSaved(t, ok)
     PROVE  Removal'
  BY <1>20, SaveEndsTypes DEF ResultSaved, CompletionEnds, childVars, opVars, userVars
<1>21. ASSUME NEW t \in Task, Unpending(t)
     PROVE  Removal'
  BY <1>21 DEF Unpending, leaseVars, childVars, lifeVars, opVars, endVars, userVars
<1>22. ASSUME NEW t \in Task, NEW ok \in BOOLEAN, Buried(t, ok)
     PROVE  Removal'
  BY <1>22, SaveEndsTypes DEF Buried, CompletionEnds, lifeVars, opVars, userVars
<1>23. ASSUME NEW t \in Task, Joined(t)
     PROVE  Removal'
  BY <1>23 DEF Joined, lifeVars, childVars, leaseVars, opVars, endVars, saveVars,
      userVars
<1>24. ASSUME NEW t \in Task, WorkReturns(t)
     PROVE  Removal'
  BY <1>24 DEF WorkReturns, leaseVars, childVars, endVars, saveVars
<1>25. ASSUME NEW t \in Task, NEW byTool \in BOOLEAN, Cancel(t, byTool)
     PROVE  Removal'
  BY <1>25, CancelMoves DEF FinishTerminal
<1>26. ASSUME NEW t \in Task, Halted(t)
     PROVE  Removal'
  BY <1>26 DEF Halted, FinishTerminal, lifeVars, childVars, leaseVars, opVars,
      saveVars, userVars
<1>27. ASSUME NEW t \in Task, CancelReturns(t)
     PROVE  Removal'
  BY <1>27 DEF CancelReturns, RemoveRun, childVars, leaseVars, opVars, saveVars
<1>28. ASSUME NEW t \in Task, Collect(t)
     PROVE  Removal'
  BY <1>28 DEF Collect, Unused, ByTool, RemoveRun, childVars, leaseVars, opVars,
      saveVars
<1>29. ASSUME NEW t \in Task, CollectReturns(t)
     PROVE  Removal'
  BY <1>29 DEF CollectReturns, lifeVars, childVars, leaseVars, opVars, saveVars
<1>30. ASSUME NEW t \in Task, Shutdown(t)
     PROVE  Removal'
  BY <1>30 DEF Shutdown, Unused, lifeVars, leaseVars, opVars, saveVars
<1>31. ASSUME NEW t \in Task, SetupDrained(t)
     PROVE  Removal'
  BY <1>31 DEF SetupDrained, lifeVars, leaseVars, opVars, endVars, saveVars, userVars
<1>32. ASSUME NEW t \in Task, OperationDrained(t)
     PROVE  Removal'
  BY <1>32 DEF OperationDrained, RemoveRun, FinishInterrupted, childVars, leaseVars,
      opVars, userVars
<1>33. ASSUME NEW t \in Task, NEW ok \in BOOLEAN, Preserved(t, ok)
     PROVE  Removal'
  BY <1>33, SaveEndsTypes DEF Preserved, RemoveRun, leaseVars, opVars, userVars
<1>34. ASSUME NEW t \in Task, ShutdownReturns(t)
     PROVE  Removal'
  BY <1>34 DEF ShutdownReturns, RemoveRun, childVars, leaseVars, opVars, saveVars,
      userVars
<1>35. ASSUME NEW t \in Task, Signal(t)
     PROVE  Removal'
  BY <1>35 DEF Signal, lifeVars, leaseVars, opVars, endVars, saveVars, taskVars
<1>36. ASSUME Detach
     PROVE  Removal'
  BY <1>36 DEF Detach, childVars, leaseVars, endVars, saveVars, taskVars
<1>37. ASSUME LoseLease
     PROVE  Removal'
  BY <1>37 DEF LoseLease, Fault, lifeVars, opVars, endVars, taskVars, userVars
<1>38. ASSUME OtherTakes
     PROVE  Removal'
  BY <1>38 DEF OtherTakes, lifeVars, childVars, opVars, endVars, saveVars, taskVars,
      userVars
<1>39. ASSUME OtherReleases
     PROVE  Removal'
  BY <1>39 DEF OtherReleases, lifeVars, childVars, opVars, endVars, saveVars,
      taskVars, userVars
<1> HIDE DEF StateInv, CancelInv, TaskTypes, RunTypes, At, Saving, Placed, Wanted,
           NotYet, OneSettles, Removal, ForegroundOpen, Settling, Goto, WorkSteps,
           CancelSteps, ShutdownSteps, Terminal, Parked, Active, Status
<1> QED
  BY <1>1, <1>2, <1>3, <1>4, <1>5, <1>6, <1>7, <1>8, <1>9, <1>10, <1>11,
      <1>12, <1>13, <1>14, <1>15, <1>16, <1>17, <1>18, <1>19, <1>20, <1>21,
      <1>22, <1>23, <1>24, <1>25, <1>26, <1>27, <1>28, <1>29, <1>30, <1>31,
      <1>32, <1>33, <1>34, <1>35, <1>36, <1>37, <1>38, <1>39
      DEF Next, SaveCompletes, WorkspaceCompletes, Reacts, Called

(* A foreground run leaves the registry when it settles. *)
LEMMA StepForeground ==
  ASSUME StateInv, CancelInv, Next
  PROVE  ForegroundOpen'
<1> USE Distinct DEF StateInv, TaskTypes, At, Saving, Placed, Wanted, NotYet, CancelInv,
           OneSettles, Removal, ForegroundOpen, Settling, Goto, Terminal, Parked,
           Active, Status
<1>1. ASSUME NEW t \in Task, NEW inBackground \in BOOLEAN, Start(t, inBackground)
     PROVE  ForegroundOpen'
  BY <1>1 DEF Start, Unused, childVars, leaseVars, opVars, endVars
<1>2. ASSUME NEW t \in Task, NEW ok \in BOOLEAN, Reserved(t, ok)
     PROVE  ForegroundOpen'
  BY <1>2, SaveEndsTypes, ZenonT(60) DEF Reserved, Acquire, childVars, leaseVars
<1>3. ASSUME NEW t \in Task, ChildCreated(t)
     PROVE  ForegroundOpen'
  BY <1>3 DEF ChildCreated, lifeVars, leaseVars, opVars, endVars, userVars
<1>4. ASSUME NEW t \in Task, ChildFailed(t)
     PROVE  ForegroundOpen'
  BY <1>4 DEF ChildFailed, FinishTerminal, lifeVars, childVars, leaseVars, opVars,
      saveVars, userVars
<1>5. ASSUME NEW t \in Task, NEW ok \in BOOLEAN, Adopted(t, ok)
     PROVE  ForegroundOpen'
  BY <1>5, SaveEndsTypes
    DEF Adopted, FinishTerminal, StopWork, FinishInterrupted, BeginOperation,
      leaseVars, userVars
<1>6. ASSUME NEW t \in Task, NEW byTool \in BOOLEAN, Resume(t, byTool)
     PROVE  ForegroundOpen'
  BY <1>6 DEF Resume, Unused, ByTool, ByBrowser, lifeVars, childVars, leaseVars,
      opVars, endVars, saveVars
<1>7. ASSUME NEW t \in Task, Acquired(t)
     PROVE  ForegroundOpen'
  BY <1>7 DEF Acquired, Acquire, leaseVars, childVars, opVars, endVars, userVars
<1>8. ASSUME NEW t \in Task, AcquireGivesUp(t)
     PROVE  ForegroundOpen'
  BY <1>8 DEF AcquireGivesUp, ResumeFails, childVars, opVars, endVars, saveVars
<1>9. ASSUME NEW t \in Task, NEW ok \in BOOLEAN, Repaired(t, ok)
     PROVE  ForegroundOpen'
  BY <1>9, SaveEndsTypes
    DEF Repaired, ResumeFails, leaseVars, childVars, opVars, endVars
<1>10. ASSUME NEW t \in Task, NEW ok \in BOOLEAN, Revived(t, ok)
     PROVE  ForegroundOpen'
  BY <1>10, SaveEndsTypes DEF Revived, ResumeFails, leaseVars, FinishTerminal, StopWork,
      FinishInterrupted, BeginOperation
<1>11. ASSUME NEW t \in Task, NEW ok \in BOOLEAN, Begun(t, ok)
     PROVE  ForegroundOpen'
  BY <1>11, SaveEndsTypes
    DEF Begun, FinishTerminal, StopWork, FinishInterrupted, DriveInterruption,
      PromptFailure, lifeVars, leaseVars, userVars
<1>12. ASSUME NEW t \in Task, PromptSettles(t)
     PROVE  ForegroundOpen'
  BY <1>12 DEF PromptSettles, FinishInterrupted, lifeVars, childVars, leaseVars,
      opVars, userVars
<1>13. ASSUME NEW t \in Task, PromptRejects(t)
     PROVE  ForegroundOpen'
  BY <1>13 DEF PromptRejects, PromptFailure, DriveInterruption, FinishTerminal,
      FinishInterrupted, StopWork, lifeVars, childVars, leaseVars, opVars,
      saveVars, userVars
<1>14. ASSUME NEW t \in Task, NEW ok \in BOOLEAN, OperationSettled(t, ok)
     PROVE  ForegroundOpen'
  BY <1>14, SaveEndsTypes
    DEF OperationSettled, FinishTerminal, StopWork, FinishInterrupted,
      DriveInterruption, leaseVars, opVars, userVars
<1>15. ASSUME NEW t \in Task, NEW ok \in BOOLEAN, QuestionChecked(t, ok)
     PROVE  ForegroundOpen'
  BY <1>15 DEF QuestionChecked, WorkspaceChecked, Fault, FinalizeInterrupted,
      childVars, leaseVars, opVars, endVars, userVars
<1>16. ASSUME NEW t \in Task, NEW ok \in BOOLEAN, QuestionSaved(t, ok)
     PROVE  ForegroundOpen'
  BY <1>16, SaveEndsTypes
    DEF QuestionSaved, FinalizeInterrupted, leaseVars, childVars, opVars,
      endVars, userVars
<1>17. ASSUME NEW t \in Task, InterruptChecked(t)
     PROVE  ForegroundOpen'
  BY <1>17 DEF InterruptChecked, FinalizeInterrupted, childVars, leaseVars, opVars,
      endVars, userVars
<1>18. ASSUME NEW t \in Task, NEW ok \in BOOLEAN, InterruptSaved(t, ok)
     PROVE  ForegroundOpen'
  BY <1>18, SaveEndsTypes
    DEF InterruptSaved, CompletionEnds, lifeVars, childVars, opVars, userVars
<1>19. ASSUME NEW t \in Task, NEW ok \in BOOLEAN, TerminalChecked(t, ok)
     PROVE  ForegroundOpen'
  BY <1>19 DEF TerminalChecked, WorkspaceChecked, Fault, FinalizeInterrupted,
      RemoveRun, childVars, leaseVars, opVars, userVars
<1>20. ASSUME NEW t \in Task, NEW ok \in BOOLEAN, ResultSaved(t, ok)
     PROVE  ForegroundOpen'
  BY <1>20, SaveEndsTypes DEF ResultSaved, CompletionEnds, childVars, opVars, userVars
<1>21. ASSUME NEW t \in Task, Unpending(t)
     PROVE  ForegroundOpen'
  BY <1>21 DEF Unpending, leaseVars, childVars, lifeVars, opVars, endVars, userVars
<1>22. ASSUME NEW t \in Task, NEW ok \in BOOLEAN, Buried(t, ok)
     PROVE  ForegroundOpen'
  BY <1>22, SaveEndsTypes DEF Buried, CompletionEnds, lifeVars, opVars, userVars
<1>23. ASSUME NEW t \in Task, Joined(t)
     PROVE  ForegroundOpen'
  BY <1>23 DEF Joined, lifeVars, childVars, leaseVars, opVars, endVars, saveVars,
      userVars
<1>24. ASSUME NEW t \in Task, WorkReturns(t)
     PROVE  ForegroundOpen'
  BY <1>24 DEF WorkReturns, leaseVars, childVars, endVars, saveVars
<1>25. ASSUME NEW t \in Task, NEW byTool \in BOOLEAN, Cancel(t, byTool)
     PROVE  ForegroundOpen'
  <2>1. completion' = completion \/ completion' = t
    BY <1>25, CancelMoves DEF FinishTerminal
  <2> QED BY <1>25, <2>1, CancelMoves, ZenonT(60)
<1>26. ASSUME NEW t \in Task, Halted(t)
     PROVE  ForegroundOpen'
  BY <1>26 DEF Halted, FinishTerminal, lifeVars, childVars, leaseVars, opVars,
      saveVars, userVars
<1>27. ASSUME NEW t \in Task, CancelReturns(t)
     PROVE  ForegroundOpen'
  BY <1>27 DEF CancelReturns, RemoveRun, childVars, leaseVars, opVars, saveVars
<1>28. ASSUME NEW t \in Task, Collect(t)
     PROVE  ForegroundOpen'
  BY <1>28 DEF Collect, Unused, ByTool, RemoveRun, childVars, leaseVars, opVars,
      saveVars
<1>29. ASSUME NEW t \in Task, CollectReturns(t)
     PROVE  ForegroundOpen'
  BY <1>29 DEF CollectReturns, lifeVars, childVars, leaseVars, opVars, saveVars
<1>30. ASSUME NEW t \in Task, Shutdown(t)
     PROVE  ForegroundOpen'
  BY <1>30 DEF Shutdown, Unused, lifeVars, leaseVars, opVars, saveVars
<1>31. ASSUME NEW t \in Task, SetupDrained(t)
     PROVE  ForegroundOpen'
  BY <1>31 DEF SetupDrained, lifeVars, leaseVars, opVars, endVars, saveVars, userVars
<1>32. ASSUME NEW t \in Task, OperationDrained(t)
     PROVE  ForegroundOpen'
  BY <1>32 DEF OperationDrained, RemoveRun, FinishInterrupted, childVars, leaseVars,
      opVars, userVars
<1>33. ASSUME NEW t \in Task, NEW ok \in BOOLEAN, Preserved(t, ok)
     PROVE  ForegroundOpen'
  BY <1>33, SaveEndsTypes DEF Preserved, RemoveRun, leaseVars, opVars, userVars
<1>34. ASSUME NEW t \in Task, ShutdownReturns(t)
     PROVE  ForegroundOpen'
  BY <1>34 DEF ShutdownReturns, RemoveRun, childVars, leaseVars, opVars, saveVars,
      userVars
<1>35. ASSUME NEW t \in Task, Signal(t)
     PROVE  ForegroundOpen'
  BY <1>35 DEF Signal, lifeVars, leaseVars, opVars, endVars, saveVars, taskVars
<1>36. ASSUME Detach
     PROVE  ForegroundOpen'
  BY <1>36 DEF Detach, childVars, leaseVars, endVars, saveVars, taskVars
<1>37. ASSUME LoseLease
     PROVE  ForegroundOpen'
  BY <1>37 DEF LoseLease, Fault, lifeVars, opVars, endVars, taskVars, userVars
<1>38. ASSUME OtherTakes
     PROVE  ForegroundOpen'
  BY <1>38 DEF OtherTakes, lifeVars, childVars, opVars, endVars, saveVars, taskVars,
      userVars
<1>39. ASSUME OtherReleases
     PROVE  ForegroundOpen'
  BY <1>39 DEF OtherReleases, lifeVars, childVars, opVars, endVars, saveVars,
      taskVars, userVars
<1> HIDE DEF StateInv, TaskTypes, At, Saving, Placed, Wanted, NotYet, CancelInv,
           OneSettles, Removal, ForegroundOpen, Settling, Goto, Terminal, Parked,
           Active, Status
<1> QED
  BY <1>1, <1>2, <1>3, <1>4, <1>5, <1>6, <1>7, <1>8, <1>9, <1>10, <1>11,
      <1>12, <1>13, <1>14, <1>15, <1>16, <1>17, <1>18, <1>19, <1>20, <1>21,
      <1>22, <1>23, <1>24, <1>25, <1>26, <1>27, <1>28, <1>29, <1>30, <1>31,
      <1>32, <1>33, <1>34, <1>35, <1>36, <1>37, <1>38, <1>39
      DEF Next, SaveCompletes, WorkspaceCompletes, Reacts, Called

(* A cancel that returns leaves no registered run. *)
LEMMA StepCancelEnds ==
  ASSUME StateInv, CancelInv, Next
  PROVE  CancelEnds'
<1> USE Distinct
DEF StateInv, TaskTypes, At, Saving, Placed, NotYet, CancelInv, Removal,
           CancelEnds, WorkSteps, CancelSteps, Goto
<1>1. ASSUME NEW t \in Task, NEW inBackground \in BOOLEAN, Start(t, inBackground)
     PROVE  CancelEnds'
  BY <1>1 DEF Start, Unused, childVars, leaseVars, opVars, endVars
<1>2. ASSUME NEW t \in Task, NEW ok \in BOOLEAN, Reserved(t, ok)
     PROVE  CancelEnds'
  BY <1>2, SaveEndsTypes DEF Reserved, Acquire, childVars, leaseVars
<1>3. ASSUME NEW t \in Task, ChildCreated(t)
     PROVE  CancelEnds'
  BY <1>3 DEF ChildCreated, lifeVars, leaseVars, opVars, endVars, userVars
<1>4. ASSUME NEW t \in Task, ChildFailed(t)
     PROVE  CancelEnds'
  BY <1>4 DEF ChildFailed, FinishTerminal, lifeVars, childVars, leaseVars, opVars,
      saveVars, userVars
<1>5. ASSUME NEW t \in Task, NEW ok \in BOOLEAN, Adopted(t, ok)
     PROVE  CancelEnds'
  BY <1>5, SaveEndsTypes
    DEF Adopted, FinishTerminal, StopWork, FinishInterrupted, BeginOperation,
      leaseVars, userVars
<1>6. ASSUME NEW t \in Task, NEW byTool \in BOOLEAN, Resume(t, byTool)
     PROVE  CancelEnds'
  BY <1>6 DEF Resume, Unused, ByTool, ByBrowser, lifeVars, childVars, leaseVars,
      opVars, endVars, saveVars
<1>7. ASSUME NEW t \in Task, Acquired(t)
     PROVE  CancelEnds'
  BY <1>7 DEF Acquired, Acquire, leaseVars, childVars, opVars, endVars, userVars
<1>8. ASSUME NEW t \in Task, AcquireGivesUp(t)
     PROVE  CancelEnds'
  BY <1>8 DEF AcquireGivesUp, ResumeFails, childVars, opVars, endVars, saveVars
<1>9. ASSUME NEW t \in Task, NEW ok \in BOOLEAN, Repaired(t, ok)
     PROVE  CancelEnds'
  BY <1>9, SaveEndsTypes
    DEF Repaired, ResumeFails, leaseVars, childVars, opVars, endVars
<1>10. ASSUME NEW t \in Task, NEW ok \in BOOLEAN, Revived(t, ok)
     PROVE  CancelEnds'
  BY <1>10, SaveEndsTypes DEF Revived, ResumeFails, leaseVars, FinishTerminal, StopWork,
      FinishInterrupted, BeginOperation
<1>11. ASSUME NEW t \in Task, NEW ok \in BOOLEAN, Begun(t, ok)
     PROVE  CancelEnds'
  BY <1>11, SaveEndsTypes
    DEF Begun, FinishTerminal, StopWork, FinishInterrupted, DriveInterruption,
      PromptFailure, lifeVars, leaseVars, userVars
<1>12. ASSUME NEW t \in Task, PromptSettles(t)
     PROVE  CancelEnds'
  BY <1>12 DEF PromptSettles, FinishInterrupted, lifeVars, childVars, leaseVars,
      opVars, userVars
<1>13. ASSUME NEW t \in Task, PromptRejects(t)
     PROVE  CancelEnds'
  BY <1>13 DEF PromptRejects, PromptFailure, DriveInterruption, FinishTerminal,
      FinishInterrupted, StopWork, lifeVars, childVars, leaseVars, opVars,
      saveVars, userVars
<1>14. ASSUME NEW t \in Task, NEW ok \in BOOLEAN, OperationSettled(t, ok)
     PROVE  CancelEnds'
  BY <1>14, SaveEndsTypes
    DEF OperationSettled, FinishTerminal, StopWork, FinishInterrupted,
      DriveInterruption, leaseVars, opVars, userVars
<1>15. ASSUME NEW t \in Task, NEW ok \in BOOLEAN, QuestionChecked(t, ok)
     PROVE  CancelEnds'
  BY <1>15 DEF QuestionChecked, WorkspaceChecked, Fault, FinalizeInterrupted,
      childVars, leaseVars, opVars, endVars, userVars
<1>16. ASSUME NEW t \in Task, NEW ok \in BOOLEAN, QuestionSaved(t, ok)
     PROVE  CancelEnds'
  BY <1>16, SaveEndsTypes
    DEF QuestionSaved, FinalizeInterrupted, leaseVars, childVars, opVars,
      endVars, userVars
<1>17. ASSUME NEW t \in Task, InterruptChecked(t)
     PROVE  CancelEnds'
  BY <1>17 DEF InterruptChecked, FinalizeInterrupted, childVars, leaseVars, opVars,
      endVars, userVars
<1>18. ASSUME NEW t \in Task, NEW ok \in BOOLEAN, InterruptSaved(t, ok)
     PROVE  CancelEnds'
  BY <1>18, SaveEndsTypes
    DEF InterruptSaved, CompletionEnds, lifeVars, childVars, opVars, userVars
<1>19. ASSUME NEW t \in Task, NEW ok \in BOOLEAN, TerminalChecked(t, ok)
     PROVE  CancelEnds'
  BY <1>19 DEF TerminalChecked, WorkspaceChecked, Fault, FinalizeInterrupted,
      RemoveRun, childVars, leaseVars, opVars, userVars
<1>20. ASSUME NEW t \in Task, NEW ok \in BOOLEAN, ResultSaved(t, ok)
     PROVE  CancelEnds'
  BY <1>20, SaveEndsTypes DEF ResultSaved, CompletionEnds, childVars, opVars, userVars
<1>21. ASSUME NEW t \in Task, Unpending(t)
     PROVE  CancelEnds'
  BY <1>21 DEF Unpending, leaseVars, childVars, lifeVars, opVars, endVars, userVars
<1>22. ASSUME NEW t \in Task, NEW ok \in BOOLEAN, Buried(t, ok)
     PROVE  CancelEnds'
  BY <1>22, SaveEndsTypes DEF Buried, CompletionEnds, lifeVars, opVars, userVars
<1>23. ASSUME NEW t \in Task, Joined(t)
     PROVE  CancelEnds'
  BY <1>23 DEF Joined, lifeVars, childVars, leaseVars, opVars, endVars, saveVars,
      userVars
<1>24. ASSUME NEW t \in Task, WorkReturns(t)
     PROVE  CancelEnds'
  BY <1>24 DEF WorkReturns, leaseVars, childVars, endVars, saveVars
<1>25. ASSUME NEW t \in Task, NEW byTool \in BOOLEAN, Cancel(t, byTool)
     PROVE  CancelEnds'
  BY <1>25, CancelMoves DEF FinishTerminal
<1>26. ASSUME NEW t \in Task, Halted(t)
     PROVE  CancelEnds'
  BY <1>26 DEF Halted, FinishTerminal, lifeVars, childVars, leaseVars, opVars,
      saveVars, userVars
<1>27. ASSUME NEW t \in Task, CancelReturns(t)
     PROVE  CancelEnds'
  BY <1>27 DEF CancelReturns, RemoveRun, childVars, leaseVars, opVars, saveVars
<1>28. ASSUME NEW t \in Task, Collect(t)
     PROVE  CancelEnds'
  BY <1>28 DEF Collect, Unused, ByTool, RemoveRun, childVars, leaseVars, opVars,
      saveVars
<1>29. ASSUME NEW t \in Task, CollectReturns(t)
     PROVE  CancelEnds'
  BY <1>29 DEF CollectReturns, lifeVars, childVars, leaseVars, opVars, saveVars
<1>30. ASSUME NEW t \in Task, Shutdown(t)
     PROVE  CancelEnds'
  BY <1>30 DEF Shutdown, Unused, lifeVars, leaseVars, opVars, saveVars
<1>31. ASSUME NEW t \in Task, SetupDrained(t)
     PROVE  CancelEnds'
  BY <1>31 DEF SetupDrained, lifeVars, leaseVars, opVars, endVars, saveVars, userVars
<1>32. ASSUME NEW t \in Task, OperationDrained(t)
     PROVE  CancelEnds'
  BY <1>32 DEF OperationDrained, RemoveRun, FinishInterrupted, childVars, leaseVars,
      opVars, userVars
<1>33. ASSUME NEW t \in Task, NEW ok \in BOOLEAN, Preserved(t, ok)
     PROVE  CancelEnds'
  BY <1>33, SaveEndsTypes DEF Preserved, RemoveRun, leaseVars, opVars, userVars
<1>34. ASSUME NEW t \in Task, ShutdownReturns(t)
     PROVE  CancelEnds'
  BY <1>34 DEF ShutdownReturns, RemoveRun, childVars, leaseVars, opVars, saveVars,
      userVars
<1>35. ASSUME NEW t \in Task, Signal(t)
     PROVE  CancelEnds'
  BY <1>35 DEF Signal, lifeVars, leaseVars, opVars, endVars, saveVars, taskVars
<1>36. ASSUME Detach
     PROVE  CancelEnds'
  BY <1>36 DEF Detach, childVars, leaseVars, endVars, saveVars, taskVars
<1>37. ASSUME LoseLease
     PROVE  CancelEnds'
  BY <1>37 DEF LoseLease, Fault, lifeVars, opVars, endVars, taskVars, userVars
<1>38. ASSUME OtherTakes
     PROVE  CancelEnds'
  BY <1>38 DEF OtherTakes, lifeVars, childVars, opVars, endVars, saveVars, taskVars,
      userVars
<1>39. ASSUME OtherReleases
     PROVE  CancelEnds'
  BY <1>39 DEF OtherReleases, lifeVars, childVars, opVars, endVars, saveVars,
      taskVars, userVars
<1> HIDE DEF StateInv, TaskTypes, At, Saving, Placed, NotYet, CancelInv, Removal,
           CancelEnds, WorkSteps, CancelSteps, Goto
<1> QED
  BY <1>1, <1>2, <1>3, <1>4, <1>5, <1>6, <1>7, <1>8, <1>9, <1>10, <1>11,
      <1>12, <1>13, <1>14, <1>15, <1>16, <1>17, <1>18, <1>19, <1>20, <1>21,
      <1>22, <1>23, <1>24, <1>25, <1>26, <1>27, <1>28, <1>29, <1>30, <1>31,
      <1>32, <1>33, <1>34, <1>35, <1>36, <1>37, <1>38, <1>39
      DEF Next, SaveCompletes, WorkspaceCompletes, Reacts, Called

LEMMA CancelStarts ==
  ASSUME Init
  PROVE  CancelInv
BY Distinct DEF Init, CancelInv, OneSettles, Removal, ForegroundOpen, CancelEnds

LEMMA CancelStep ==
  ASSUME StateInv, CancelInv, [Next]_vars
  PROVE  CancelInv'
<1>1. CASE Next
  BY <1>1, StepSettles, StepRemoval, StepForeground, StepCancelEnds DEF CancelInv
<1>2. CASE UNCHANGED vars
  BY <1>2 DEF vars, lifeVars, childVars, leaseVars, opVars, endVars, saveVars,
     taskVars, userVars, CancelInv, OneSettles, Removal, ForegroundOpen, CancelEnds
<1> QED BY <1>1, <1>2

(* A canceled run has left the registry when cancel returns, whatever other  *)
(* calls and /agents do meanwhile, unless its workspace could not be        *)
(* checkpointed: a settlement that somebody else began is waited for, a run *)
(* that left never comes back.                                              *)
THEOREM CanceledRunsEnd == Spec => []CancelEnds
<1>1. Spec => [](StateInv /\ CancelInv)
  BY StateStarts, CancelStarts, StateStep, CancelStep, PTL DEF Spec
<1>2. CancelInv => CancelEnds
  BY DEF CancelInv
<1> QED BY <1>1, <1>2, PTL

-----------------------------------------------------------------------------
(* Who holds the lease. *)

(* While the identity of the run is being reserved, either nobody has begun  *)
(* to settle the run or its settlement waits behind the reservation.        *)
OpenReserve ==
  /\ completion # Settled /\ (completion \in Task => pc[completion] = "finish")
  /\ ~lost /\ ~lease
  /\ status = "starting" \/ closing
  /\ \A t \in Task : call[t] # "resume"
  /\ \A i \in DOMAIN queue : ~queue[i].refused

SettledReserve ==
  /\ completion \in Task /\ pc[completion] \in {"remove", "retain", "yield"}
  /\ \A i \in DOMAIN queue : queue[i].task = completion => ~queue[i].refused

ReserveFirst ==
  \A r \in Task : pc[r] = "reserve" =>
    /\ queue # <<>> /\ queue[1].task = r
    /\ OpenReserve \/ SettledReserve

(* A run is started once; a shutdown closes the manager. *)
StartedOnce ==
  /\ \A t, u \in Task : call[t] = "start" /\ call[u] = "start" => t = u
  /\ \A t \in Task : call[t] = "shutdown" => closing

(* A call that will give the lease up, and one that does so unless another   *)
(* call settles the run.                                                     *)
Strong(t) ==
  \/ call[t] = "resume" /\ pc[t] \notin {"acquire", "done"}
  \/ pc[t] \in Settling \cup {"interrupt", "park", "question"}

Weak(t) == pc[t] \in {"setup", "adopt", "begin", "prompt", "settle"}

LeaseHeld ==
  /\ lease => \E t \in Task : Strong(t) \/ Weak(t)
  /\ lease /\ completion = Settled => \E t \in Task : Strong(t)

HolderInv == StartedOnce /\ ReserveFirst /\ LeaseHeld

(* What a step does to the calls, the settlement, the lease and the writes,  *)
(* told by the call that moves.                                              *)
CallSteps ==
  /\ \A t \in Task : pc'[t] = pc[t] => call'[t] = call[t]
  /\ \A t \in Task : pc'[t] # pc[t] =>
       /\ call[t] # "none" => call'[t] = call[t]
       /\ call[t] = "none" =>
            /\ call'[t] = "start" => status = "none" /\ pc'[t] = "reserve"
            /\ call'[t] = "resume" => status \in Parked /\ ~closing
            /\ call'[t] = "shutdown" => closing'
  /\ \A t \in Task : pc'[t] = "reserve" /\ pc[t] # "reserve" =>
       status = "none" /\ status' = "starting"
  /\ closing => closing'

SettleSteps ==
  /\ \A t \in Task : pc'[t] # pc[t] =>
       /\ \/ completion' = completion
          \/ completion = None /\ completion' = t /\ pc'[t] = "finish"
          \/ completion = t /\ pc[t] \in Saving /\ ~lease'
       /\ pc[t] = "finish" => pc'[t] \in {"remove", "retain", "yield"} /\ completion' = completion
       /\ status' = status \/ pc[t] \in Saving \cup {"finish"} \/ pc'[t] = "reserve"
            \/ call[t] \in {"start", "resume", "shutdown"}
  /\ pc' = pc => completion' = completion /\ status' = status

LeaseSteps ==
  /\ \A t \in Task : pc'[t] # pc[t] =>
       /\ \/ lease' => lease
          \/ pc[t] = "reserve" /\ pc'[t] = "setup"
          \/ pc[t] = "acquire" /\ pc'[t] \in {"repair", "revive"} /\ call[t] = "resume"
       /\ lease' /\ Strong(t) => Strong(t)'
       /\ lease' /\ Weak(t) /\ completion = None /\ outcome = None => Weak(t)' \/ Strong(t)'
  /\ pc' = pc => lease' = lease
  /\ lost' => lost \/ lease

OrderSteps ==
  \A t \in Task : pc'[t] # pc[t] =>
    /\ pc[t] \in Saving => Entry(t) = 1 \/ queue[Entry(t)].refused
    /\ pc[t] = "remove" => queue = <<>>

(* A call keeps its kind; only a first call starts the run. *)
LEMMA StepCalls ==
  ASSUME StateInv, Next
  PROVE  CallSteps
<1> USE DEF StateInv, TaskTypes, At, Placed, NotYet, WorkSteps, CancelSteps,
           ShutdownSteps, CallSteps, Goto
<1>1. ASSUME NEW t \in Task, NEW inBackground \in BOOLEAN, Start(t, inBackground)
     PROVE  CallSteps
  BY <1>1 DEF Start, Unused, childVars, leaseVars, opVars, endVars
<1>2. ASSUME NEW t \in Task, NEW ok \in BOOLEAN, Reserved(t, ok)
     PROVE  CallSteps
  BY <1>2 DEF Reserved, Acquire, childVars, leaseVars
<1>3. ASSUME NEW t \in Task, ChildCreated(t)
     PROVE  CallSteps
  BY <1>3 DEF ChildCreated, lifeVars, leaseVars, opVars, endVars, userVars
<1>4. ASSUME NEW t \in Task, ChildFailed(t)
     PROVE  CallSteps
  BY <1>4 DEF ChildFailed, FinishTerminal, lifeVars, childVars, leaseVars, opVars,
      saveVars, userVars
<1>5. ASSUME NEW t \in Task, NEW ok \in BOOLEAN, Adopted(t, ok)
     PROVE  CallSteps
  BY <1>5 DEF Adopted, FinishTerminal, StopWork, FinishInterrupted, BeginOperation,
      leaseVars, userVars
<1>6. ASSUME NEW t \in Task, NEW byTool \in BOOLEAN, Resume(t, byTool)
     PROVE  CallSteps
  BY <1>6 DEF Resume, Unused, ByTool, ByBrowser, lifeVars, childVars, leaseVars,
      opVars, endVars, saveVars
<1>7. ASSUME NEW t \in Task, Acquired(t)
     PROVE  CallSteps
  BY <1>7 DEF Acquired, Acquire, leaseVars, childVars, opVars, endVars, userVars
<1>8. ASSUME NEW t \in Task, AcquireGivesUp(t)
     PROVE  CallSteps
  BY <1>8 DEF AcquireGivesUp, ResumeFails, childVars, opVars, endVars, saveVars
<1>9. ASSUME NEW t \in Task, NEW ok \in BOOLEAN, Repaired(t, ok)
     PROVE  CallSteps
  BY <1>9 DEF Repaired, ResumeFails, leaseVars, childVars, opVars, endVars
<1>10. ASSUME NEW t \in Task, NEW ok \in BOOLEAN, Revived(t, ok)
     PROVE  CallSteps
  BY <1>10 DEF Revived, ResumeFails, leaseVars, FinishTerminal, StopWork,
      FinishInterrupted, BeginOperation
<1>11. ASSUME NEW t \in Task, NEW ok \in BOOLEAN, Begun(t, ok)
     PROVE  CallSteps
  BY <1>11 DEF Begun, FinishTerminal, StopWork, FinishInterrupted, DriveInterruption,
      PromptFailure, lifeVars, leaseVars, userVars
<1>12. ASSUME NEW t \in Task, PromptSettles(t)
     PROVE  CallSteps
  BY <1>12 DEF PromptSettles, FinishInterrupted, lifeVars, childVars, leaseVars,
      opVars, userVars
<1>13. ASSUME NEW t \in Task, PromptRejects(t)
     PROVE  CallSteps
  BY <1>13 DEF PromptRejects, PromptFailure, DriveInterruption, FinishTerminal,
      FinishInterrupted, StopWork, lifeVars, childVars, leaseVars, opVars,
      saveVars, userVars
<1>14. ASSUME NEW t \in Task, NEW ok \in BOOLEAN, OperationSettled(t, ok)
     PROVE  CallSteps
  BY <1>14 DEF OperationSettled, FinishTerminal, StopWork, FinishInterrupted,
      DriveInterruption, leaseVars, opVars, userVars
<1>15. ASSUME NEW t \in Task, NEW ok \in BOOLEAN, QuestionChecked(t, ok)
     PROVE  CallSteps
  BY <1>15 DEF QuestionChecked, WorkspaceChecked, FinalizeInterrupted, childVars,
      leaseVars, opVars, endVars, userVars
<1>16. ASSUME NEW t \in Task, NEW ok \in BOOLEAN, QuestionSaved(t, ok)
     PROVE  CallSteps
  BY <1>16 DEF QuestionSaved, FinalizeInterrupted, leaseVars, childVars, opVars,
      endVars, userVars
<1>17. ASSUME NEW t \in Task, InterruptChecked(t)
     PROVE  CallSteps
  BY <1>17 DEF InterruptChecked, FinalizeInterrupted, childVars, leaseVars, opVars,
      endVars, userVars
<1>18. ASSUME NEW t \in Task, NEW ok \in BOOLEAN, InterruptSaved(t, ok)
     PROVE  CallSteps
  BY <1>18 DEF InterruptSaved, CompletionEnds, lifeVars, childVars, opVars, userVars
<1>19. ASSUME NEW t \in Task, NEW ok \in BOOLEAN, TerminalChecked(t, ok)
     PROVE  CallSteps
  BY <1>19 DEF TerminalChecked, WorkspaceChecked, FinalizeInterrupted, RemoveRun,
      childVars, leaseVars, opVars, userVars
<1>20. ASSUME NEW t \in Task, NEW ok \in BOOLEAN, ResultSaved(t, ok)
     PROVE  CallSteps
  BY <1>20 DEF ResultSaved, CompletionEnds, childVars, opVars, userVars
<1>21. ASSUME NEW t \in Task, Unpending(t)
     PROVE  CallSteps
  BY <1>21 DEF Unpending, leaseVars, childVars, lifeVars, opVars, endVars, userVars
<1>22. ASSUME NEW t \in Task, NEW ok \in BOOLEAN, Buried(t, ok)
     PROVE  CallSteps
  BY <1>22 DEF Buried, CompletionEnds, lifeVars, opVars, userVars
<1>23. ASSUME NEW t \in Task, Joined(t)
     PROVE  CallSteps
  BY <1>23 DEF Joined, lifeVars, childVars, leaseVars, opVars, endVars, saveVars,
      userVars
<1>24. ASSUME NEW t \in Task, WorkReturns(t)
     PROVE  CallSteps
  BY <1>24 DEF WorkReturns, leaseVars, childVars, endVars, saveVars
<1>25. ASSUME NEW t \in Task, NEW byTool \in BOOLEAN, Cancel(t, byTool)
     PROVE  CallSteps
  BY <1>25, CancelMoves DEF FinishTerminal
<1>26. ASSUME NEW t \in Task, Halted(t)
     PROVE  CallSteps
  BY <1>26 DEF Halted, FinishTerminal, lifeVars, childVars, leaseVars, opVars,
      saveVars, userVars
<1>27. ASSUME NEW t \in Task, CancelReturns(t)
     PROVE  CallSteps
  BY <1>27 DEF CancelReturns, RemoveRun, childVars, leaseVars, opVars, saveVars
<1>28. ASSUME NEW t \in Task, Collect(t)
     PROVE  CallSteps
  BY <1>28 DEF Collect, Unused, ByTool, RemoveRun, childVars, leaseVars, opVars,
      saveVars
<1>29. ASSUME NEW t \in Task, CollectReturns(t)
     PROVE  CallSteps
  BY <1>29 DEF CollectReturns, lifeVars, childVars, leaseVars, opVars, saveVars
<1>30. ASSUME NEW t \in Task, Shutdown(t)
     PROVE  CallSteps
  BY <1>30 DEF Shutdown, Unused, lifeVars, leaseVars, opVars, saveVars
<1>31. ASSUME NEW t \in Task, SetupDrained(t)
     PROVE  CallSteps
  BY <1>31 DEF SetupDrained, lifeVars, leaseVars, opVars, endVars, saveVars, userVars
<1>32. ASSUME NEW t \in Task, OperationDrained(t)
     PROVE  CallSteps
  BY <1>32 DEF OperationDrained, RemoveRun, FinishInterrupted, childVars, leaseVars,
      opVars, userVars
<1>33. ASSUME NEW t \in Task, NEW ok \in BOOLEAN, Preserved(t, ok)
     PROVE  CallSteps
  BY <1>33 DEF Preserved, RemoveRun, leaseVars, opVars, userVars
<1>34. ASSUME NEW t \in Task, ShutdownReturns(t)
     PROVE  CallSteps
  BY <1>34 DEF ShutdownReturns, RemoveRun, childVars, leaseVars, opVars, saveVars,
      userVars
<1>35. ASSUME NEW t \in Task, Signal(t)
     PROVE  CallSteps
  BY <1>35 DEF Signal, lifeVars, leaseVars, opVars, endVars, saveVars, taskVars
<1>36. ASSUME Detach
     PROVE  CallSteps
  BY <1>36 DEF Detach, childVars, leaseVars, endVars, saveVars, taskVars
<1>37. ASSUME LoseLease
     PROVE  CallSteps
  BY <1>37 DEF LoseLease, lifeVars, opVars, endVars, taskVars, userVars
<1>38. ASSUME OtherTakes
     PROVE  CallSteps
  BY <1>38 DEF OtherTakes, lifeVars, childVars, opVars, endVars, saveVars, taskVars,
      userVars
<1>39. ASSUME OtherReleases
     PROVE  CallSteps
  BY <1>39 DEF OtherReleases, lifeVars, childVars, opVars, endVars, saveVars,
      taskVars, userVars
<1> HIDE DEF StateInv, TaskTypes, At, Placed, NotYet, WorkSteps, CancelSteps,
           ShutdownSteps, CallSteps, Goto
<1> QED
  BY <1>1, <1>2, <1>3, <1>4, <1>5, <1>6, <1>7, <1>8, <1>9, <1>10, <1>11,
      <1>12, <1>13, <1>14, <1>15, <1>16, <1>17, <1>18, <1>19, <1>20, <1>21,
      <1>22, <1>23, <1>24, <1>25, <1>26, <1>27, <1>28, <1>29, <1>30, <1>31,
      <1>32, <1>33, <1>34, <1>35, <1>36, <1>37, <1>38, <1>39
      DEF Next, SaveCompletes, WorkspaceCompletes, Reacts, Called

(* A settlement ends when its call has let the lease go. *)
LEMMA StepSettlement ==
  ASSUME StateInv, OneSettles, Next
  PROVE  SettleSteps
<1> USE DEF StateInv, TaskTypes, At, Saving, Placed, NotYet, OneSettles, Settling,
           WorkSteps, CancelSteps, ShutdownSteps, SettleSteps, Goto
<1>1. ASSUME NEW t \in Task, NEW inBackground \in BOOLEAN, Start(t, inBackground)
     PROVE  SettleSteps
  BY <1>1 DEF Start, Unused, childVars, leaseVars, opVars, endVars
<1>2. ASSUME NEW t \in Task, NEW ok \in BOOLEAN, Reserved(t, ok)
     PROVE  SettleSteps
  BY <1>2 DEF Reserved, Acquire, childVars, leaseVars
<1>3. ASSUME NEW t \in Task, ChildCreated(t)
     PROVE  SettleSteps
  BY <1>3 DEF ChildCreated, lifeVars, leaseVars, opVars, endVars, userVars
<1>4. ASSUME NEW t \in Task, ChildFailed(t)
     PROVE  SettleSteps
  BY <1>4 DEF ChildFailed, FinishTerminal, lifeVars, childVars, leaseVars, opVars,
      saveVars, userVars
<1>5. ASSUME NEW t \in Task, NEW ok \in BOOLEAN, Adopted(t, ok)
     PROVE  SettleSteps
  BY <1>5 DEF Adopted, FinishTerminal, StopWork, FinishInterrupted, BeginOperation,
      leaseVars, userVars
<1>6. ASSUME NEW t \in Task, NEW byTool \in BOOLEAN, Resume(t, byTool)
     PROVE  SettleSteps
  BY <1>6 DEF Resume, Unused, ByTool, ByBrowser, lifeVars, childVars, leaseVars,
      opVars, endVars, saveVars
<1>7. ASSUME NEW t \in Task, Acquired(t)
     PROVE  SettleSteps
  BY <1>7 DEF Acquired, Acquire, leaseVars, childVars, opVars, endVars, userVars
<1>8. ASSUME NEW t \in Task, AcquireGivesUp(t)
     PROVE  SettleSteps
  BY <1>8 DEF AcquireGivesUp, ResumeFails, Release, childVars, opVars, endVars,
      saveVars
<1>9. ASSUME NEW t \in Task, NEW ok \in BOOLEAN, Repaired(t, ok)
     PROVE  SettleSteps
  BY <1>9 DEF Repaired, ResumeFails, Release, leaseVars, childVars, opVars, endVars
<1>10. ASSUME NEW t \in Task, NEW ok \in BOOLEAN, Revived(t, ok)
     PROVE  SettleSteps
  BY <1>10 DEF Revived, ResumeFails, Release, leaseVars, FinishTerminal, StopWork,
      FinishInterrupted, BeginOperation
<1>11. ASSUME NEW t \in Task, NEW ok \in BOOLEAN, Begun(t, ok)
     PROVE  SettleSteps
  BY <1>11 DEF Begun, FinishTerminal, StopWork, FinishInterrupted, DriveInterruption,
      PromptFailure, lifeVars, leaseVars, userVars
<1>12. ASSUME NEW t \in Task, PromptSettles(t)
     PROVE  SettleSteps
  BY <1>12 DEF PromptSettles, FinishInterrupted, lifeVars, childVars, leaseVars,
      opVars, userVars
<1>13. ASSUME NEW t \in Task, PromptRejects(t)
     PROVE  SettleSteps
  BY <1>13 DEF PromptRejects, PromptFailure, DriveInterruption, FinishTerminal,
      FinishInterrupted, StopWork, lifeVars, childVars, leaseVars, opVars,
      saveVars, userVars
<1>14. ASSUME NEW t \in Task, NEW ok \in BOOLEAN, OperationSettled(t, ok)
     PROVE  SettleSteps
  BY <1>14 DEF OperationSettled, FinishTerminal, StopWork, FinishInterrupted,
      DriveInterruption, leaseVars, opVars, userVars
<1>15. ASSUME NEW t \in Task, NEW ok \in BOOLEAN, QuestionChecked(t, ok)
     PROVE  SettleSteps
  BY <1>15 DEF QuestionChecked, WorkspaceChecked, FinalizeInterrupted, childVars,
      leaseVars, opVars, endVars, userVars
<1>16. ASSUME NEW t \in Task, NEW ok \in BOOLEAN, QuestionSaved(t, ok)
     PROVE  SettleSteps
  BY <1>16 DEF QuestionSaved, FinalizeInterrupted, Release, leaseVars, childVars,
      opVars, endVars, userVars
<1>17. ASSUME NEW t \in Task, InterruptChecked(t)
     PROVE  SettleSteps
  BY <1>17 DEF InterruptChecked, FinalizeInterrupted, childVars, leaseVars, opVars,
      endVars, userVars
<1>18. ASSUME NEW t \in Task, NEW ok \in BOOLEAN, InterruptSaved(t, ok)
     PROVE  SettleSteps
  BY <1>18 DEF InterruptSaved, Release, CompletionEnds, lifeVars, childVars, opVars,
      userVars
<1>19. ASSUME NEW t \in Task, NEW ok \in BOOLEAN, TerminalChecked(t, ok)
     PROVE  SettleSteps
  BY <1>19 DEF TerminalChecked, WorkspaceChecked, FinalizeInterrupted, RemoveRun,
      childVars, leaseVars, opVars, userVars
<1>20. ASSUME NEW t \in Task, NEW ok \in BOOLEAN, ResultSaved(t, ok)
     PROVE  SettleSteps
  BY <1>20 DEF ResultSaved, Release, CompletionEnds, childVars, opVars, userVars
<1>21. ASSUME NEW t \in Task, Unpending(t)
     PROVE  SettleSteps
  BY <1>21 DEF Unpending, Release, leaseVars, childVars, lifeVars, opVars, endVars,
      userVars
<1>22. ASSUME NEW t \in Task, NEW ok \in BOOLEAN, Buried(t, ok)
     PROVE  SettleSteps
  BY <1>22 DEF Buried, Release, CompletionEnds, lifeVars, opVars, userVars
<1>23. ASSUME NEW t \in Task, Joined(t)
     PROVE  SettleSteps
  BY <1>23 DEF Joined, lifeVars, childVars, leaseVars, opVars, endVars, saveVars,
      userVars
<1>24. ASSUME NEW t \in Task, WorkReturns(t)
     PROVE  SettleSteps
  BY <1>24 DEF WorkReturns, Release, leaseVars, childVars, endVars, saveVars
<1>25. ASSUME NEW t \in Task, NEW byTool \in BOOLEAN, Cancel(t, byTool)
     PROVE  SettleSteps
  BY <1>25, CancelMoves DEF FinishTerminal
<1>26. ASSUME NEW t \in Task, Halted(t)
     PROVE  SettleSteps
  BY <1>26 DEF Halted, FinishTerminal, lifeVars, childVars, leaseVars, opVars,
      saveVars, userVars
<1>27. ASSUME NEW t \in Task, CancelReturns(t)
     PROVE  SettleSteps
  BY <1>27 DEF CancelReturns, RemoveRun, childVars, leaseVars, opVars, saveVars
<1>28. ASSUME NEW t \in Task, Collect(t)
     PROVE  SettleSteps
  BY <1>28 DEF Collect, Unused, ByTool, RemoveRun, childVars, leaseVars, opVars,
      saveVars
<1>29. ASSUME NEW t \in Task, CollectReturns(t)
     PROVE  SettleSteps
  BY <1>29 DEF CollectReturns, lifeVars, childVars, leaseVars, opVars, saveVars
<1>30. ASSUME NEW t \in Task, Shutdown(t)
     PROVE  SettleSteps
  BY <1>30 DEF Shutdown, Unused, lifeVars, leaseVars, opVars, saveVars
<1>31. ASSUME NEW t \in Task, SetupDrained(t)
     PROVE  SettleSteps
  BY <1>31 DEF SetupDrained, lifeVars, leaseVars, opVars, endVars, saveVars, userVars
<1>32. ASSUME NEW t \in Task, OperationDrained(t)
     PROVE  SettleSteps
  BY <1>32 DEF OperationDrained, RemoveRun, FinishInterrupted, childVars, leaseVars,
      opVars, userVars
<1>33. ASSUME NEW t \in Task, NEW ok \in BOOLEAN, Preserved(t, ok)
     PROVE  SettleSteps
  BY <1>33 DEF Preserved, RemoveRun, leaseVars, opVars, userVars
<1>34. ASSUME NEW t \in Task, ShutdownReturns(t)
     PROVE  SettleSteps
  BY <1>34 DEF ShutdownReturns, RemoveRun, childVars, leaseVars, opVars, saveVars,
      userVars
<1>35. ASSUME NEW t \in Task, Signal(t)
     PROVE  SettleSteps
  BY <1>35 DEF Signal, lifeVars, leaseVars, opVars, endVars, saveVars, taskVars
<1>36. ASSUME Detach
     PROVE  SettleSteps
  BY <1>36 DEF Detach, childVars, leaseVars, endVars, saveVars, taskVars
<1>37. ASSUME LoseLease
     PROVE  SettleSteps
  BY <1>37 DEF LoseLease, lifeVars, opVars, endVars, taskVars, userVars
<1>38. ASSUME OtherTakes
     PROVE  SettleSteps
  BY <1>38 DEF OtherTakes, lifeVars, childVars, opVars, endVars, saveVars, taskVars,
      userVars
<1>39. ASSUME OtherReleases
     PROVE  SettleSteps
  BY <1>39 DEF OtherReleases, lifeVars, childVars, opVars, endVars, saveVars,
      taskVars, userVars
<1> HIDE DEF StateInv, TaskTypes, At, Saving, Placed, NotYet, OneSettles, Settling,
           WorkSteps, CancelSteps, ShutdownSteps, SettleSteps, Goto
<1> QED
  BY <1>1, <1>2, <1>3, <1>4, <1>5, <1>6, <1>7, <1>8, <1>9, <1>10, <1>11,
      <1>12, <1>13, <1>14, <1>15, <1>16, <1>17, <1>18, <1>19, <1>20, <1>21,
      <1>22, <1>23, <1>24, <1>25, <1>26, <1>27, <1>28, <1>29, <1>30, <1>31,
      <1>32, <1>33, <1>34, <1>35, <1>36, <1>37, <1>38, <1>39
      DEF Next, SaveCompletes, WorkspaceCompletes, Reacts, Called

(* The lease is taken by a reservation or a resume, and given up on the way out. *)
LEMMA StepLease ==
  ASSUME StateInv, Next
  PROVE  LeaseSteps
<1> USE Distinct DEF StateInv, TaskTypes, At, Placed, NotYet, Settling, WorkSteps,
           CancelSteps, ShutdownSteps, LeaseSteps, Strong, Weak, Goto
<1>1. ASSUME NEW t \in Task, NEW inBackground \in BOOLEAN, Start(t, inBackground)
     PROVE  LeaseSteps
  BY <1>1 DEF Start, Unused, childVars, leaseVars, opVars, endVars
<1>2. ASSUME NEW t \in Task, NEW ok \in BOOLEAN, Reserved(t, ok)
     PROVE  LeaseSteps
  BY <1>2 DEF Reserved, Acquire, childVars, leaseVars
<1>3. ASSUME NEW t \in Task, ChildCreated(t)
     PROVE  LeaseSteps
  BY <1>3 DEF ChildCreated, lifeVars, leaseVars, opVars, endVars, userVars
<1>4. ASSUME NEW t \in Task, ChildFailed(t)
     PROVE  LeaseSteps
  BY <1>4 DEF ChildFailed, FinishTerminal, lifeVars, childVars, leaseVars, opVars,
      saveVars, userVars
<1>5. ASSUME NEW t \in Task, NEW ok \in BOOLEAN, Adopted(t, ok)
     PROVE  LeaseSteps
  BY <1>5 DEF Adopted, FinishTerminal, StopWork, FinishInterrupted, BeginOperation,
      leaseVars, userVars
<1>6. ASSUME NEW t \in Task, NEW byTool \in BOOLEAN, Resume(t, byTool)
     PROVE  LeaseSteps
  BY <1>6 DEF Resume, Unused, ByTool, ByBrowser, lifeVars, childVars, leaseVars,
      opVars, endVars, saveVars
<1>7. ASSUME NEW t \in Task, Acquired(t)
     PROVE  LeaseSteps
  BY <1>7 DEF Acquired, Acquire, leaseVars, childVars, opVars, endVars, userVars
<1>8. ASSUME NEW t \in Task, AcquireGivesUp(t)
     PROVE  LeaseSteps
  BY <1>8 DEF AcquireGivesUp, ResumeFails, Release, childVars, opVars, endVars,
      saveVars
<1>9. ASSUME NEW t \in Task, NEW ok \in BOOLEAN, Repaired(t, ok)
     PROVE  LeaseSteps
  BY <1>9 DEF Repaired, ResumeFails, Release, leaseVars, childVars, opVars, endVars
<1>10. ASSUME NEW t \in Task, NEW ok \in BOOLEAN, Revived(t, ok)
     PROVE  LeaseSteps
  BY <1>10 DEF Revived, ResumeFails, Release, leaseVars, FinishTerminal, StopWork,
      FinishInterrupted, BeginOperation
<1>11. ASSUME NEW t \in Task, NEW ok \in BOOLEAN, Begun(t, ok)
     PROVE  LeaseSteps
  BY <1>11 DEF Begun, FinishTerminal, StopWork, FinishInterrupted, DriveInterruption,
      PromptFailure, lifeVars, leaseVars, userVars
<1>12. ASSUME NEW t \in Task, PromptSettles(t)
     PROVE  LeaseSteps
  BY <1>12 DEF PromptSettles, FinishInterrupted, lifeVars, childVars, leaseVars,
      opVars, userVars
<1>13. ASSUME NEW t \in Task, PromptRejects(t)
     PROVE  LeaseSteps
  BY <1>13 DEF PromptRejects, PromptFailure, DriveInterruption, FinishTerminal,
      FinishInterrupted, StopWork, lifeVars, childVars, leaseVars, opVars,
      saveVars, userVars
<1>14. ASSUME NEW t \in Task, NEW ok \in BOOLEAN, OperationSettled(t, ok)
     PROVE  LeaseSteps
  BY <1>14 DEF OperationSettled, FinishTerminal, StopWork, FinishInterrupted,
      DriveInterruption, leaseVars, opVars, userVars
<1>15. ASSUME NEW t \in Task, NEW ok \in BOOLEAN, QuestionChecked(t, ok)
     PROVE  LeaseSteps
  BY <1>15 DEF QuestionChecked, WorkspaceChecked, FinalizeInterrupted, childVars,
      leaseVars, opVars, endVars, userVars
<1>16. ASSUME NEW t \in Task, NEW ok \in BOOLEAN, QuestionSaved(t, ok)
     PROVE  LeaseSteps
  BY <1>16 DEF QuestionSaved, FinalizeInterrupted, Release, leaseVars, childVars,
      opVars, endVars, userVars
<1>17. ASSUME NEW t \in Task, InterruptChecked(t)
     PROVE  LeaseSteps
  BY <1>17 DEF InterruptChecked, FinalizeInterrupted, childVars, leaseVars, opVars,
      endVars, userVars
<1>18. ASSUME NEW t \in Task, NEW ok \in BOOLEAN, InterruptSaved(t, ok)
     PROVE  LeaseSteps
  BY <1>18 DEF InterruptSaved, Release, CompletionEnds, lifeVars, childVars, opVars,
      userVars
<1>19. ASSUME NEW t \in Task, NEW ok \in BOOLEAN, TerminalChecked(t, ok)
     PROVE  LeaseSteps
  BY <1>19 DEF TerminalChecked, WorkspaceChecked, FinalizeInterrupted, RemoveRun,
      childVars, leaseVars, opVars, userVars
<1>20. ASSUME NEW t \in Task, NEW ok \in BOOLEAN, ResultSaved(t, ok)
     PROVE  LeaseSteps
  BY <1>20 DEF ResultSaved, Release, CompletionEnds, childVars, opVars, userVars
<1>21. ASSUME NEW t \in Task, Unpending(t)
     PROVE  LeaseSteps
  BY <1>21 DEF Unpending, Release, leaseVars, childVars, lifeVars, opVars, endVars,
      userVars
<1>22. ASSUME NEW t \in Task, NEW ok \in BOOLEAN, Buried(t, ok)
     PROVE  LeaseSteps
  BY <1>22 DEF Buried, Release, CompletionEnds, lifeVars, opVars, userVars
<1>23. ASSUME NEW t \in Task, Joined(t)
     PROVE  LeaseSteps
  BY <1>23 DEF Joined, lifeVars, childVars, leaseVars, opVars, endVars, saveVars,
      userVars
<1>24. ASSUME NEW t \in Task, WorkReturns(t)
     PROVE  LeaseSteps
  BY <1>24 DEF WorkReturns, Release, leaseVars, childVars, endVars, saveVars
<1>25. ASSUME NEW t \in Task, NEW byTool \in BOOLEAN, Cancel(t, byTool)
     PROVE  LeaseSteps
  BY <1>25, CancelMoves DEF FinishTerminal
<1>26. ASSUME NEW t \in Task, Halted(t)
     PROVE  LeaseSteps
  BY <1>26 DEF Halted, FinishTerminal, lifeVars, childVars, leaseVars, opVars,
      saveVars, userVars
<1>27. ASSUME NEW t \in Task, CancelReturns(t)
     PROVE  LeaseSteps
  BY <1>27 DEF CancelReturns, RemoveRun, childVars, leaseVars, opVars, saveVars
<1>28. ASSUME NEW t \in Task, Collect(t)
     PROVE  LeaseSteps
  BY <1>28 DEF Collect, Unused, ByTool, RemoveRun, childVars, leaseVars, opVars,
      saveVars
<1>29. ASSUME NEW t \in Task, CollectReturns(t)
     PROVE  LeaseSteps
  BY <1>29 DEF CollectReturns, lifeVars, childVars, leaseVars, opVars, saveVars
<1>30. ASSUME NEW t \in Task, Shutdown(t)
     PROVE  LeaseSteps
  BY <1>30 DEF Shutdown, Unused, lifeVars, leaseVars, opVars, saveVars
<1>31. ASSUME NEW t \in Task, SetupDrained(t)
     PROVE  LeaseSteps
  BY <1>31 DEF SetupDrained, lifeVars, leaseVars, opVars, endVars, saveVars, userVars
<1>32. ASSUME NEW t \in Task, OperationDrained(t)
     PROVE  LeaseSteps
  BY <1>32 DEF OperationDrained, RemoveRun, FinishInterrupted, childVars, leaseVars,
      opVars, userVars
<1>33. ASSUME NEW t \in Task, NEW ok \in BOOLEAN, Preserved(t, ok)
     PROVE  LeaseSteps
  BY <1>33 DEF Preserved, RemoveRun, leaseVars, opVars, userVars
<1>34. ASSUME NEW t \in Task, ShutdownReturns(t)
     PROVE  LeaseSteps
  BY <1>34 DEF ShutdownReturns, RemoveRun, childVars, leaseVars, opVars, saveVars,
      userVars
<1>35. ASSUME NEW t \in Task, Signal(t)
     PROVE  LeaseSteps
  BY <1>35 DEF Signal, lifeVars, leaseVars, opVars, endVars, saveVars, taskVars
<1>36. ASSUME Detach
     PROVE  LeaseSteps
  BY <1>36 DEF Detach, childVars, leaseVars, endVars, saveVars, taskVars
<1>37. ASSUME LoseLease
     PROVE  LeaseSteps
  BY <1>37 DEF LoseLease, lifeVars, opVars, endVars, taskVars, userVars
<1>38. ASSUME OtherTakes
     PROVE  LeaseSteps
  BY <1>38 DEF OtherTakes, lifeVars, childVars, opVars, endVars, saveVars, taskVars,
      userVars
<1>39. ASSUME OtherReleases
     PROVE  LeaseSteps
  BY <1>39 DEF OtherReleases, lifeVars, childVars, opVars, endVars, saveVars,
      taskVars, userVars
<1> HIDE DEF StateInv, TaskTypes, At, Placed, NotYet, Settling, WorkSteps,
           CancelSteps, ShutdownSteps, LeaseSteps, Strong, Weak, Goto
<1> QED
  BY <1>1, <1>2, <1>3, <1>4, <1>5, <1>6, <1>7, <1>8, <1>9, <1>10, <1>11,
      <1>12, <1>13, <1>14, <1>15, <1>16, <1>17, <1>18, <1>19, <1>20, <1>21,
      <1>22, <1>23, <1>24, <1>25, <1>26, <1>27, <1>28, <1>29, <1>30, <1>31,
      <1>32, <1>33, <1>34, <1>35, <1>36, <1>37, <1>38, <1>39
      DEF Next, SaveCompletes, WorkspaceCompletes, Reacts, Called

(* Writes reach storage in order; a removal waits for all of them. *)
LEMMA StepOrder ==
  ASSUME StateInv, Next
  PROVE  OrderSteps
<1> USE DEF StateInv, TaskTypes, At, Saving, OrderSteps, Goto
<1>1. ASSUME NEW t \in Task, NEW inBackground \in BOOLEAN, Start(t, inBackground)
     PROVE  OrderSteps
  BY <1>1 DEF Start, Unused, childVars, leaseVars, opVars, endVars
<1>2. ASSUME NEW t \in Task, NEW ok \in BOOLEAN, Reserved(t, ok)
     PROVE  OrderSteps
  BY <1>2 DEF Reserved, Acquire, SaveEnds, childVars, leaseVars
<1>3. ASSUME NEW t \in Task, ChildCreated(t)
     PROVE  OrderSteps
  BY <1>3 DEF ChildCreated, lifeVars, leaseVars, opVars, endVars, userVars
<1>4. ASSUME NEW t \in Task, ChildFailed(t)
     PROVE  OrderSteps
  BY <1>4 DEF ChildFailed, FinishTerminal, lifeVars, childVars, leaseVars, opVars,
      saveVars, userVars
<1>5. ASSUME NEW t \in Task, NEW ok \in BOOLEAN, Adopted(t, ok)
     PROVE  OrderSteps
  BY <1>5 DEF Adopted, SaveEnds, FinishTerminal, StopWork, FinishInterrupted,
      BeginOperation, leaseVars, userVars
<1>6. ASSUME NEW t \in Task, NEW byTool \in BOOLEAN, Resume(t, byTool)
     PROVE  OrderSteps
  BY <1>6 DEF Resume, Unused, ByTool, ByBrowser, lifeVars, childVars, leaseVars,
      opVars, endVars, saveVars
<1>7. ASSUME NEW t \in Task, Acquired(t)
     PROVE  OrderSteps
  BY <1>7 DEF Acquired, Acquire, leaseVars, childVars, opVars, endVars, userVars
<1>8. ASSUME NEW t \in Task, AcquireGivesUp(t)
     PROVE  OrderSteps
  BY <1>8 DEF AcquireGivesUp, ResumeFails, childVars, opVars, endVars, saveVars
<1>9. ASSUME NEW t \in Task, NEW ok \in BOOLEAN, Repaired(t, ok)
     PROVE  OrderSteps
  BY <1>9 DEF Repaired, SaveEnds, ResumeFails, leaseVars, childVars, opVars, endVars
<1>10. ASSUME NEW t \in Task, NEW ok \in BOOLEAN, Revived(t, ok)
     PROVE  OrderSteps
  BY <1>10 DEF Revived, SaveEnds, ResumeFails, leaseVars, FinishTerminal, StopWork,
      FinishInterrupted, BeginOperation
<1>11. ASSUME NEW t \in Task, NEW ok \in BOOLEAN, Begun(t, ok)
     PROVE  OrderSteps
  BY <1>11 DEF Begun, SaveEnds, FinishTerminal, StopWork, FinishInterrupted,
      DriveInterruption, PromptFailure, lifeVars, leaseVars, userVars
<1>12. ASSUME NEW t \in Task, PromptSettles(t)
     PROVE  OrderSteps
  BY <1>12 DEF PromptSettles, FinishInterrupted, lifeVars, childVars, leaseVars,
      opVars, userVars
<1>13. ASSUME NEW t \in Task, PromptRejects(t)
     PROVE  OrderSteps
  BY <1>13 DEF PromptRejects, PromptFailure, DriveInterruption, FinishTerminal,
      FinishInterrupted, StopWork, lifeVars, childVars, leaseVars, opVars,
      saveVars, userVars
<1>14. ASSUME NEW t \in Task, NEW ok \in BOOLEAN, OperationSettled(t, ok)
     PROVE  OrderSteps
  BY <1>14 DEF OperationSettled, SaveEnds, FinishTerminal, StopWork,
      FinishInterrupted, DriveInterruption, leaseVars, opVars, userVars
<1>15. ASSUME NEW t \in Task, NEW ok \in BOOLEAN, QuestionChecked(t, ok)
     PROVE  OrderSteps
  BY <1>15 DEF QuestionChecked, WorkspaceChecked, FinalizeInterrupted, childVars,
      leaseVars, opVars, endVars, userVars
<1>16. ASSUME NEW t \in Task, NEW ok \in BOOLEAN, QuestionSaved(t, ok)
     PROVE  OrderSteps
  BY <1>16 DEF QuestionSaved, SaveEnds, FinalizeInterrupted, leaseVars, childVars,
      opVars, endVars, userVars
<1>17. ASSUME NEW t \in Task, InterruptChecked(t)
     PROVE  OrderSteps
  BY <1>17 DEF InterruptChecked, FinalizeInterrupted, childVars, leaseVars, opVars,
      endVars, userVars
<1>18. ASSUME NEW t \in Task, NEW ok \in BOOLEAN, InterruptSaved(t, ok)
     PROVE  OrderSteps
  BY <1>18 DEF InterruptSaved, SaveEnds, CompletionEnds, lifeVars, childVars, opVars,
      userVars
<1>19. ASSUME NEW t \in Task, NEW ok \in BOOLEAN, TerminalChecked(t, ok)
     PROVE  OrderSteps
  BY <1>19 DEF TerminalChecked, WorkspaceChecked, FinalizeInterrupted, RemoveRun,
      childVars, leaseVars, opVars, userVars
<1>20. ASSUME NEW t \in Task, NEW ok \in BOOLEAN, ResultSaved(t, ok)
     PROVE  OrderSteps
  BY <1>20 DEF ResultSaved, SaveEnds, CompletionEnds, childVars, opVars, userVars
<1>21. ASSUME NEW t \in Task, Unpending(t)
     PROVE  OrderSteps
  BY <1>21 DEF Unpending, leaseVars, childVars, lifeVars, opVars, endVars, userVars
<1>22. ASSUME NEW t \in Task, NEW ok \in BOOLEAN, Buried(t, ok)
     PROVE  OrderSteps
  BY <1>22 DEF Buried, SaveEnds, CompletionEnds, lifeVars, opVars, userVars
<1>23. ASSUME NEW t \in Task, Joined(t)
     PROVE  OrderSteps
  BY <1>23 DEF Joined, lifeVars, childVars, leaseVars, opVars, endVars, saveVars,
      userVars
<1>24. ASSUME NEW t \in Task, WorkReturns(t)
     PROVE  OrderSteps
  BY <1>24 DEF WorkReturns, leaseVars, childVars, endVars, saveVars
<1>25. ASSUME NEW t \in Task, NEW byTool \in BOOLEAN, Cancel(t, byTool)
     PROVE  OrderSteps
  BY <1>25, CancelMoves DEF FinishTerminal
<1>26. ASSUME NEW t \in Task, Halted(t)
     PROVE  OrderSteps
  BY <1>26 DEF Halted, FinishTerminal, lifeVars, childVars, leaseVars, opVars,
      saveVars, userVars
<1>27. ASSUME NEW t \in Task, CancelReturns(t)
     PROVE  OrderSteps
  BY <1>27 DEF CancelReturns, RemoveRun, childVars, leaseVars, opVars, saveVars
<1>28. ASSUME NEW t \in Task, Collect(t)
     PROVE  OrderSteps
  BY <1>28 DEF Collect, Unused, ByTool, RemoveRun, childVars, leaseVars, opVars,
      saveVars
<1>29. ASSUME NEW t \in Task, CollectReturns(t)
     PROVE  OrderSteps
  BY <1>29 DEF CollectReturns, lifeVars, childVars, leaseVars, opVars, saveVars
<1>30. ASSUME NEW t \in Task, Shutdown(t)
     PROVE  OrderSteps
  BY <1>30 DEF Shutdown, Unused, lifeVars, leaseVars, opVars, saveVars
<1>31. ASSUME NEW t \in Task, SetupDrained(t)
     PROVE  OrderSteps
  BY <1>31 DEF SetupDrained, lifeVars, leaseVars, opVars, endVars, saveVars, userVars
<1>32. ASSUME NEW t \in Task, OperationDrained(t)
     PROVE  OrderSteps
  BY <1>32 DEF OperationDrained, RemoveRun, FinishInterrupted, childVars, leaseVars,
      opVars, userVars
<1>33. ASSUME NEW t \in Task, NEW ok \in BOOLEAN, Preserved(t, ok)
     PROVE  OrderSteps
  BY <1>33 DEF Preserved, SaveEnds, RemoveRun, leaseVars, opVars, userVars
<1>34. ASSUME NEW t \in Task, ShutdownReturns(t)
     PROVE  OrderSteps
  BY <1>34 DEF ShutdownReturns, RemoveRun, childVars, leaseVars, opVars, saveVars,
      userVars
<1>35. ASSUME NEW t \in Task, Signal(t)
     PROVE  OrderSteps
  BY <1>35 DEF Signal, lifeVars, leaseVars, opVars, endVars, saveVars, taskVars
<1>36. ASSUME Detach
     PROVE  OrderSteps
  BY <1>36 DEF Detach, childVars, leaseVars, endVars, saveVars, taskVars
<1>37. ASSUME LoseLease
     PROVE  OrderSteps
  BY <1>37 DEF LoseLease, lifeVars, opVars, endVars, taskVars, userVars
<1>38. ASSUME OtherTakes
     PROVE  OrderSteps
  BY <1>38 DEF OtherTakes, lifeVars, childVars, opVars, endVars, saveVars, taskVars,
      userVars
<1>39. ASSUME OtherReleases
     PROVE  OrderSteps
  BY <1>39 DEF OtherReleases, lifeVars, childVars, opVars, endVars, saveVars,
      taskVars, userVars
<1> HIDE DEF StateInv, TaskTypes, At, Saving, OrderSteps, Goto
<1> QED
  BY <1>1, <1>2, <1>3, <1>4, <1>5, <1>6, <1>7, <1>8, <1>9, <1>10, <1>11,
      <1>12, <1>13, <1>14, <1>15, <1>16, <1>17, <1>18, <1>19, <1>20, <1>21,
      <1>22, <1>23, <1>24, <1>25, <1>26, <1>27, <1>28, <1>29, <1>30, <1>31,
      <1>32, <1>33, <1>34, <1>35, <1>36, <1>37, <1>38, <1>39
      DEF Next, SaveCompletes, WorkspaceCompletes, Reacts, Called

(* A write at the head of the queue stays there until its own call goes on,  *)
(* and no other write is added but one that is refused if the lease is lost. *)
LEMMA FrontKept ==
  ASSUME StateInv, NEW r \in Task, pc[r] \in Saving,
         queue # <<>>, queue[1].task = r, pc'[r] = pc[r], QueueStep
  PROVE  /\ queue' # <<>> /\ queue'[1].task = r
         /\ \A i \in DOMAIN queue' :
              \/ \E k \in DOMAIN queue : queue'[i] = queue[k]
              \/ queue'[i].refused = lost /\ pc'[queue'[i].task] # pc[queue'[i].task]
<1>1. CASE UNCHANGED <<pc, queue>>
  BY <1>1
<1>2. ASSUME NEW t \in Task, WriteStep(t)
      PROVE  /\ queue' # <<>> /\ queue'[1].task = r
             /\ \A i \in DOMAIN queue' :
                  \/ \E k \in DOMAIN queue : queue'[i] = queue[k]
                  \/ queue'[i].refused = lost /\ pc'[queue'[i].task] # pc[queue'[i].task]
  <2>1. t # r /\ pc'[t] # pc[t]
    BY <1>2 DEF WriteStep
  <2>2. queue \in Seq(Write) /\ Writes
    BY DEF StateInv
  <2>3. pc[t] \in Saving =>
          /\ Rest(t) \in Seq(Write) /\ Rest(t) # <<>> /\ Rest(t)[1] = queue[1]
          /\ \A j \in DOMAIN Rest(t) : \E k \in DOMAIN queue : Rest(t)[j] = queue[k]
    <3>1. SUFFICES ASSUME pc[t] \in Saving
                   PROVE  /\ Rest(t) \in Seq(Write) /\ Rest(t) # <<>> /\ Rest(t)[1] = queue[1]
                          /\ \A j \in DOMAIN Rest(t) : \E k \in DOMAIN queue : Rest(t)[j] = queue[k]
      OBVIOUS
    <3>2. queue[Entry(t)].task = t
      BY <2>2, <3>1, EntryFound
    <3>3. Entry(t) # 1
      BY <2>1, <3>2
    <3> QED BY <2>2, <3>1, <3>3, RestKeeps
  <2>4. ASSUME NEW q \in Seq(Write), q # <<>>, q[1] = queue[1],
               \A j \in DOMAIN q : \E k \in DOMAIN queue : q[j] = queue[k],
               \/ queue' = q
               \/ \E s \in Status \cup {"removed"} : queue' = Saved(q, t, s)
        PROVE  /\ queue' # <<>> /\ queue'[1].task = r
               /\ \A i \in DOMAIN queue' :
                    \/ \E k \in DOMAIN queue : queue'[i] = queue[k]
                    \/ queue'[i].refused = lost /\ pc'[queue'[i].task] # pc[queue'[i].task]
    <3>1. CASE queue' = q
      BY <2>4, <3>1
    <3>2. ASSUME NEW s \in Status \cup {"removed"}, queue' = Saved(q, t, s)
          PROVE  /\ queue' # <<>> /\ queue'[1].task = r
                 /\ \A i \in DOMAIN queue' :
                      \/ \E k \in DOMAIN queue : queue'[i] = queue[k]
                      \/ queue'[i].refused = lost /\ pc'[queue'[i].task] # pc[queue'[i].task]
      <4> DEFINE w == [task |-> t, status |-> s, refused |-> lost]
      <4>1. queue' = Append(q, w) /\ w.task = t /\ w.refused = lost
        BY <3>2 DEF Saved
      <4> HIDE DEF w
      <4>2. /\ Len(q) \in Nat \ {0} /\ DOMAIN q = 1..Len(q)
            /\ DOMAIN Append(q, w) = 1..(Len(q) + 1)
            /\ \A i \in DOMAIN q : Append(q, w)[i] = q[i]
            /\ Append(q, w)[Len(q) + 1] = w
            /\ Append(q, w) # <<>>
        BY <2>4
      <4>3. \A i \in DOMAIN Append(q, w) : i \in DOMAIN q \/ i = Len(q) + 1
        BY <4>2
      <4>4. 1 \in DOMAIN q
        BY <4>2
      <4>5. queue' # <<>> /\ queue'[1].task = r
        BY <2>4, <4>1, <4>2, <4>4
      <4>6. \A i \in DOMAIN q : \E k \in DOMAIN queue : queue'[i] = queue[k]
        BY <2>4, <4>1, <4>2
      <4>7. queue'[Len(q) + 1] = w /\ pc'[w.task] # pc[w.task]
        BY <2>1, <4>1, <4>2
      <4> QED BY <4>1, <4>3, <4>5, <4>6, <4>7
    <3> QED BY <2>4, <3>1, <3>2
  <2>5. CASE pc[t] \in Saving
    BY <1>2, <2>3, <2>4, <2>5 DEF WriteStep
  <2>6. CASE pc[t] \notin Saving
    BY <1>2, <2>2, <2>4, <2>6 DEF WriteStep
  <2> QED BY <2>5, <2>6
<1> QED BY <1>1, <1>2 DEF QueueStep

(* One call moves at a time. *)
LEMMA OthersStay ==
  ASSUME StateInv, CallSteps, NEW t \in Task, WriteStep(t)
  PROVE  /\ pc'[t] # pc[t]
         /\ \A u \in Task \ {t} : pc'[u] = pc[u] /\ call'[u] = call[u]
BY DEF WriteStep, CallSteps, StateInv, TaskTypes

LEMMA StartedOnceKept ==
  ASSUME StateInv, StartedOnce, CallSteps, StateInv', NEW t \in Task, WriteStep(t)
  PROVE  StartedOnce'
<1>1. pc'[t] # pc[t] /\ \A u \in Task \ {t} : call'[u] = call[u]
  BY OthersStay
<1>2. call'[t] = "start" /\ call[t] # "start" => \A u \in Task : call[u] = "none"
  BY <1>1 DEF CallSteps, StateInv, NotYet
<1>3. \A u, v \in Task : call'[u] = "start" /\ call'[v] = "start" => u = v
  BY <1>1, <1>2 DEF StartedOnce
<1>4. \A u \in Task : call'[u] = "shutdown" => closing'
  BY <1>1 DEF StartedOnce, CallSteps
<1> QED BY <1>3, <1>4 DEF StartedOnce

(* A reservation that was there: no write overtakes it that was not refused. *)
LEMMA ReserveKept ==
  ASSUME StateInv, OneSettles, HolderInv, CallSteps, SettleSteps, LeaseSteps, OrderSteps,
         QueueStep, StateInv', NEW t \in Task, WriteStep(t),
         NEW r \in Task, pc[r] = "reserve", pc'[r] = "reserve"
  PROVE  /\ queue' # <<>> /\ queue'[1].task = r
         /\ OpenReserve' \/ SettledReserve'
<1>1. pc'[t] # pc[t] /\ \A u \in Task \ {t} : pc'[u] = pc[u] /\ call'[u] = call[u]
  BY OthersStay
<1>2. t # r
  BY <1>1
<1>3. /\ queue # <<>> /\ queue[1].task = r
      /\ OpenReserve \/ SettledReserve
  BY DEF HolderInv, ReserveFirst
<1>4. /\ queue' # <<>> /\ queue'[1].task = r
      /\ \A i \in DOMAIN queue' :
           \/ \E k \in DOMAIN queue : queue'[i] = queue[k]
           \/ queue'[i].refused = lost /\ pc'[queue'[i].task] # pc[queue'[i].task]
  BY <1>3, FrontKept DEF Saving
<1>5. pc[t] \in Saving => Entry(t) \in DOMAIN queue /\ queue[Entry(t)].task = t /\ queue[Entry(t)].refused
  <2>1. SUFFICES ASSUME pc[t] \in Saving
                 PROVE  Entry(t) \in DOMAIN queue /\ queue[Entry(t)].task = t /\ queue[Entry(t)].refused
    OBVIOUS
  <2>2. Entry(t) \in DOMAIN queue /\ queue[Entry(t)].task = t
    BY <2>1, EntryFound DEF StateInv
  <2>3. Entry(t) # 1
    BY <1>2, <1>3, <2>2
  <2> QED BY <1>1, <2>1, <2>2, <2>3 DEF OrderSteps
<1>6. pc[t] # "remove"
  BY <1>1, <1>3 DEF OrderSteps
<1>7. CASE SettledReserve
  <2>1. completion \in Task /\ completion # t
    BY <1>5, <1>6, <1>7 DEF SettledReserve, Saving
  <2>2. completion' = completion /\ pc'[completion] = pc[completion]
    BY <1>1, <2>1, Distinct DEF SettleSteps
  <2>3. \A i \in DOMAIN queue' : queue'[i].task = completion => ~queue'[i].refused
    BY <1>4, <1>7, <2>2 DEF SettledReserve
  <2> QED BY <1>4, <1>7, <2>1, <2>2, <2>3 DEF SettledReserve
<1>8. CASE OpenReserve
  <2>1. pc[t] \notin Saving
    BY <1>5, <1>8 DEF OpenReserve
  <2>2. \A i \in DOMAIN queue' : ~queue'[i].refused
    BY <1>4, <1>8 DEF OpenReserve
  <2>3. call[r] = "start" /\ call[t] \notin {"start", "resume"}
    <3>1. call[r] \in {"none", "start", "resume", "cancel", "collect", "shutdown"}
      BY DEF StateInv, TaskTypes
    <3>2. call[r] = "start"
      BY <3>1 DEF StateInv, Placed, WorkSteps, CancelSteps, ShutdownSteps
    <3> QED BY <1>2, <1>8, <3>2 DEF OpenReserve, HolderInv, StartedOnce
  <2>4. ~lost' /\ ~lease'
    BY <1>1, <1>2, <1>8, <2>1, <2>3 DEF OpenReserve, LeaseSteps, Saving
  <2>5. CASE pc[t] = "finish"
    <3>1. /\ completion = t /\ completion' = t
          /\ pc'[t] \in {"remove", "retain", "yield"}
      BY <1>1, <2>5 DEF OneSettles, SettleSteps
    <3> QED BY <1>4, <2>2, <3>1 DEF SettledReserve
  <2>6. CASE pc[t] # "finish"
    <3>1. /\ completion' # Settled
          /\ completion' \in Task => pc'[completion'] = "finish"
      BY <1>1, <1>8, <2>1, <2>6, Distinct DEF OpenReserve, SettleSteps
    <3>2. \A u \in Task : call'[u] # "resume"
      BY <1>1, <1>8, <2>3 DEF OpenReserve, CallSteps, Parked, StateInv, TaskTypes
    <3>3. status' = "starting" \/ closing'
      <4>1. CASE call[t] = "shutdown"
        BY <4>1 DEF HolderInv, StartedOnce, CallSteps
      <4>2. CASE pc'[t] = "reserve"
        BY <1>1, <2>1, <4>2 DEF CallSteps, Saving
      <4>3. CASE call[t] # "shutdown" /\ pc'[t] # "reserve"
        BY <1>1, <1>8, <2>1, <2>3, <2>6, <4>3 DEF OpenReserve, SettleSteps, CallSteps
      <4> QED BY <4>1, <4>2, <4>3
    <3> QED BY <1>4, <2>2, <2>4, <3>1, <3>2, <3>3 DEF OpenReserve
  <2> QED BY <2>5, <2>6
<1> QED BY <1>3, <1>7, <1>8

(* A new one: nothing has happened before it. *)
LEMMA ReserveBegins ==
  ASSUME StateInv, CallSteps, SettleSteps, LeaseSteps, QueueStep, StateInv',
         NEW t \in Task, WriteStep(t), pc[t] # "reserve", pc'[t] = "reserve"
  PROVE  /\ queue' # <<>> /\ queue'[1].task = t
         /\ OpenReserve'
<1>1. pc'[t] # pc[t] /\ \A u \in Task \ {t} : pc'[u] = pc[u] /\ call'[u] = call[u]
  BY OthersStay
<1>2. /\ status = "none" /\ status' = "starting"
      /\ \A u \in Task : call[u] = "none" /\ pc[u] = "idle"
      /\ ~lease /\ ~lost /\ completion = None
  BY <1>1 DEF CallSteps, StateInv, NotYet, Placed
<1>3. queue = <<>>
  <2>1. \A i \in DOMAIN queue : queue[i] \in Write
    BY DEF StateInv
  <2>2. DOMAIN queue = {}
    BY <1>2, <2>1 DEF StateInv, Writes, Matches, Saving, Write
  <2> QED BY <2>2 DEF StateInv
<1>4. \E s \in Status \cup {"removed"} : queue' = Saved(<<>>, t, s)
  BY <1>2, <1>3 DEF WriteStep, Saving
<1>5. PICK s \in Status \cup {"removed"} : queue' = Append(<<>>, [task |-> t, status |-> s, refused |-> lost])
  BY <1>4 DEF Saved
<1>6. queue' = <<[task |-> t, status |-> s, refused |-> lost]>>
  BY <1>5
<1>7. completion' = None
  BY <1>1, <1>2, Distinct DEF SettleSteps
<1>8. ~lease' /\ ~lost'
  BY <1>1, <1>2 DEF LeaseSteps
<1>9. \A u \in Task : call'[u] # "resume"
  BY <1>1, <1>2 DEF StateInv, Placed, WorkSteps
<1> QED BY <1>2, <1>6, <1>7, <1>8, <1>9, Distinct DEF OpenReserve

(* The lease passes from one call that will give it up to another. *)
LEMMA LeaseKept ==
  ASSUME StateInv, OneSettles, HolderInv, CallSteps, SettleSteps, LeaseSteps,
         StateInv', NEW t \in Task, WriteStep(t)
  PROVE  LeaseHeld'
<1>1. pc'[t] # pc[t] /\ \A u \in Task \ {t} : pc'[u] = pc[u] /\ call'[u] = call[u]
  BY OthersStay
<1>2. \A u \in Task : lease' /\ Strong(u) => Strong(u)'
  <2>1. \A u \in Task \ {t} : Strong(u) => Strong(u)'
    BY <1>1 DEF Strong
  <2> QED BY <1>1, <2>1 DEF LeaseSteps
<1>3. \A u \in Task \ {t} : Weak(u) => Weak(u)'
  BY <1>1 DEF Weak
<1>4. completion \in Task => Strong(completion)
  BY DEF OneSettles, Strong
<1>5. CASE ~lease /\ lease'
  <2>1. CASE pc[t] = "reserve" /\ pc'[t] = "setup"
    <3>1. completion # Settled
      BY <2>1, Distinct DEF HolderInv, ReserveFirst, OpenReserve, SettledReserve
    <3>2. completion' # Settled
      BY <1>1, <1>5, <3>1, Distinct DEF SettleSteps
    <3> QED BY <2>1, <3>2 DEF LeaseHeld, Weak
  <2>2. CASE pc[t] = "acquire" /\ pc'[t] \in {"repair", "revive"} /\ call[t] = "resume"
    <3>1. call'[t] = "resume"
      BY <1>1, <2>2 DEF CallSteps
    <3>2. Strong(t)'
      BY <2>2, <3>1 DEF Strong
    <3> QED BY <3>2 DEF LeaseHeld
  <2> QED BY <1>1, <1>5, <2>1, <2>2 DEF LeaseSteps
<1>6. CASE lease /\ lease'
  <2>1. completion' = Settled => completion = Settled
    BY <1>1, <1>6, Distinct DEF SettleSteps
  <2>2. completion = Settled => \E u \in Task : Strong(u)'
    BY <1>2, <1>6 DEF HolderInv, LeaseHeld
  <2>3. completion \in Task => \E u \in Task : Strong(u)'
    BY <1>2, <1>4, <1>6
  <2>4. completion = None => \E u \in Task : Strong(u)' \/ Weak(u)'
    <3>1. SUFFICES ASSUME completion = None PROVE \E u \in Task : Strong(u)' \/ Weak(u)'
      OBVIOUS
    <3>2. outcome = None
      BY <3>1 DEF OneSettles
    <3>3. PICK u \in Task : Strong(u) \/ Weak(u)
      BY <1>6 DEF HolderInv, LeaseHeld
    <3>4. Weak(t) => Weak(t)' \/ Strong(t)'
      BY <1>1, <1>6, <3>1, <3>2 DEF LeaseSteps
    <3> QED BY <1>2, <1>3, <1>6, <3>3, <3>4
  <2>5. completion \in Task \cup {None, Settled}
    BY DEF StateInv, ValueTypes
  <2> QED BY <2>1, <2>2, <2>3, <2>4, <2>5 DEF LeaseHeld
<1>7. CASE ~lease'
  BY <1>7 DEF LeaseHeld
<1> QED BY <1>5, <1>6, <1>7

LEMMA HolderStep ==
  ASSUME StateInv, OneSettles, HolderInv, [Next]_vars
  PROVE  HolderInv'
<1>1. CASE UNCHANGED vars
  BY <1>1 DEF vars, lifeVars, childVars, leaseVars, opVars, endVars, saveVars,
     taskVars, userVars, HolderInv, StartedOnce, ReserveFirst, OpenReserve,
     SettledReserve, LeaseHeld, Strong, Weak
<1>2. CASE Next
  <2>1. CallSteps /\ SettleSteps /\ LeaseSteps /\ OrderSteps /\ QueueStep
    BY <1>2, StepCalls, StepSettlement, StepLease, StepOrder, StepWrites
  <2>2. StateInv'
    BY <1>2, StateStep
  <2>3. CASE UNCHANGED <<pc, queue>>
    <3>1. /\ pc' = pc /\ queue' = queue /\ completion' = completion
          /\ status' = status /\ lease' = lease
      BY <2>1, <2>3 DEF SettleSteps, LeaseSteps
    <3>2. \A u \in Task : call'[u] = call[u]
      BY <2>1, <3>1 DEF CallSteps
    <3>3. StartedOnce'
      BY <2>1, <3>2 DEF HolderInv, StartedOnce, CallSteps
    <3>4. LeaseHeld'
      BY <3>1, <3>2 DEF HolderInv, LeaseHeld, Strong, Weak
    <3>5. ReserveFirst'
      BY <2>1, <3>1, <3>2 DEF HolderInv, ReserveFirst, OpenReserve, SettledReserve,
         LeaseSteps, CallSteps
    <3> QED BY <3>3, <3>4, <3>5 DEF HolderInv
  <2>4. ASSUME NEW t \in Task, WriteStep(t)
        PROVE  HolderInv'
    <3>1. StartedOnce'
      BY <2>1, <2>2, <2>4, StartedOnceKept DEF HolderInv
    <3>2. LeaseHeld'
      BY <2>1, <2>2, <2>4, LeaseKept
    <3>3. ASSUME NEW r \in Task, pc'[r] = "reserve"
          PROVE  /\ queue' # <<>> /\ queue'[1].task = r
                 /\ OpenReserve' \/ SettledReserve'
      <4>1. CASE pc[r] = "reserve"
        BY <2>1, <2>2, <2>4, <3>3, <4>1, ReserveKept
      <4>2. CASE pc[r] # "reserve"
        <5>1. r = t
          BY <2>1, <2>4, <3>3, <4>2, OthersStay
        <5> QED BY <2>1, <2>2, <2>4, <3>3, <4>2, <5>1, ReserveBegins
      <4> QED BY <4>1, <4>2
    <3>4. ReserveFirst'
      BY <3>3 DEF ReserveFirst
    <3> QED BY <3>1, <3>2, <3>4 DEF HolderInv
  <2> QED BY <2>1, <2>3, <2>4 DEF QueueStep
<1> QED BY <1>1, <1>2

LEMMA HolderStarts ==
  ASSUME Init
  PROVE  HolderInv
BY DEF Init, HolderInv, StartedOnce, ReserveFirst, LeaseHeld

LEMMA NobodyHolds ==
  ASSUME StateInv, HolderInv
  PROVE  LeaseReturned
<1>1. \A t \in Task : pc[t] \in {"idle", "done"} => ~Strong(t) /\ ~Weak(t)
  BY DEF StateInv, Placed, TaskTypes, WorkSteps, Strong, Weak, Settling
<1> QED BY <1>1 DEF LeaseReturned, Idle, HolderInv, LeaseHeld

(* Every path gives the continuation lease back, whatever fails and whoever  *)
(* calls: the lease is held by a call that releases it before it ends, or by *)
(* the start, whose settlement passes to another call that releases it; and *)
(* no settlement is over before the start has reserved its identity.        *)
THEOREM LeaseComesBack == Spec => []LeaseReturned
<1>1. Spec => [](StateInv /\ CancelInv /\ HolderInv)
  <2>1. Init => StateInv /\ CancelInv /\ HolderInv
    BY StateStarts, CancelStarts, HolderStarts
  <2>2. StateInv /\ CancelInv /\ HolderInv /\ [Next]_vars => (StateInv /\ CancelInv /\ HolderInv)'
    BY StateStep, CancelStep, HolderStep DEF CancelInv
  <2> QED BY <2>1, <2>2, PTL DEF Spec
<1> QED BY <1>1, NobodyHolds, PTL
=============================================================================
