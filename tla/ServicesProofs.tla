--------------------------- MODULE ServicesProofs ---------------------------
(* The services of one process for any number of dialogs, requests, keys and *)
(* containers: the dialog queue shows one dialog at a time and its buses and *)
(* the working indicator say so; no container is without an owner, no        *)
(* request without an answer and no answer goes to the wrong request; and    *)
(* what holds of each service holds of the process that runs them.           *)
EXTENDS MCServices, SqliteRetentionProofs

-----------------------------------------------------------------------------
(* The dialog queue.                                                         *)

(* Beyond the types: a dialog resolves its link of the chain only when it is *)
(* done, and one that was granted its turn has the whole chain before it     *)
(* resolved; a dialog that waits or is on screen has its place in the line.  *)
Chained(d) ==
  /\ d \in released => pc[d] = "done"
  /\ pc[d] \in {"granted"} \cup OnScreen => Earlier(d) \subseteq released
  /\ pc[d] \in InLine \cup OnScreen => \E i \in DOMAIN line : line[i] = d

DialogInv ==
  /\ DialogTypeOK
  /\ \A d \in Dialog : Chained(d)

(* Who stands before a dialog does not change when another joins the line.   *)
LEMMA EarlierKept ==
  ASSUME line \in Seq(Dialog), NEW d \in Dialog, NEW x \in Dialog, d # x,
         line' = Append(line, x)
  PROVE  Earlier(d)' = Earlier(d)
<1>1. /\ DOMAIN line = 1..Len(line) /\ DOMAIN line' = 1..Len(line) + 1
      /\ \A i \in 1..Len(line) : line'[i] = line[i]
      /\ line'[Len(line) + 1] = x
  OBVIOUS
<1>2. Len(line) \in Nat
  OBVIOUS
<1>3. ASSUME NEW k \in DOMAIN line', line'[k] = d
      PROVE  k \in DOMAIN line /\ line[k] = d
  BY <1>1, <1>2, <1>3
<1>4. ASSUME NEW k \in DOMAIN line, line[k] = d
      PROVE  k \in DOMAIN line' /\ line'[k] = d
  BY <1>1, <1>2, <1>4
<1>5. ASSUME NEW e \in Earlier(d)
      PROVE  e \in Earlier(d)'
  <2>1. PICK j \in DOMAIN line : (\E k \in DOMAIN line : j < k /\ line[k] = d) /\ e = line[j]
    BY DEF Earlier
  <2>2. j \in DOMAIN line' /\ line'[j] = line[j]
    BY <1>1, <1>2
  <2> QED
    BY <1>4, <2>1, <2>2 DEF Earlier
<1>6. ASSUME NEW e \in Earlier(d)'
      PROVE  e \in Earlier(d)
  <2>1. PICK j \in DOMAIN line' : (\E k \in DOMAIN line' : j < k /\ line'[k] = d) /\ e = line'[j]
    BY DEF Earlier
  <2>2. PICK k \in DOMAIN line' : j < k /\ line'[k] = d
    BY <2>1
  <2>3. k \in DOMAIN line /\ line[k] = d
    BY <1>3, <2>2
  <2>4. j \in DOMAIN line /\ line'[j] = line[j]
    BY <1>1, <1>2, <2>2, <2>3
  <2> QED
    BY <2>1, <2>2, <2>3, <2>4 DEF Earlier
<1> QED
  BY <1>5, <1>6

LEMMA DialogInitInv == DialogInit => DialogInv
<1> SUFFICES ASSUME DialogInit PROVE DialogInv
  OBVIOUS
<1>1. DialogTypeOK
  BY DEF DialogInit, DialogTypeOK, Position, Unasked
<1>2. ASSUME NEW d \in Dialog PROVE Chained(d)
  BY DEF DialogInit, Chained, InLine, OnScreen, Unasked
<1> QED
  BY <1>1, <1>2 DEF DialogInv

(* The count of a bus that a step changes stays a natural number.            *)
LEMMA CountsTyped ==
  ASSUME DialogTypeOK, NEW d \in Dialog, Increment(d) \/ Decrement(d) \/ UNCHANGED pending
  PROVE  pending' \in [Bus -> Nat]
<1>1. CASE Increment(d)
  BY <1>1 DEF DialogTypeOK, Increment
<1>2. CASE Decrement(d)
  BY <1>2 DEF DialogTypeOK, Decrement
<1> QED
  BY <1>1, <1>2 DEF DialogTypeOK

LEMMA DialogNextType == DialogTypeOK /\ [DialogNext]_dialogVars => DialogTypeOK'
<1> SUFFICES ASSUME DialogTypeOK, [DialogNext]_dialogVars PROVE DialogTypeOK'
  OBVIOUS
<1> USE DEF DialogTypeOK, Position, InLine, OnScreen, Unasked
<1>1. CASE UNCHANGED dialogVars
  BY <1>1 DEF dialogVars
<1>2. ASSUME NEW d \in Dialog, AskAborted(d) PROVE DialogTypeOK'
  BY <1>2 DEF AskAborted
<1>3. ASSUME NEW d \in Dialog, Ask(d) PROVE DialogTypeOK'
  <2>1. pending' \in [Bus -> Nat]
    BY <1>3, CountsTyped DEF Ask
  <2> QED
    BY <1>3, <2>1 DEF Ask
<1>4. ASSUME NEW d \in Dialog, TurnComes(d) PROVE DialogTypeOK'
  BY <1>4 DEF TurnComes
<1>5. ASSUME NEW d \in Dialog, Abort(d) PROVE DialogTypeOK'
  BY <1>5 DEF Abort, AbortedTo
<1>6. ASSUME NEW d \in Dialog, Leave(d) PROVE DialogTypeOK'
  <2>1. pending' \in [Bus -> Nat]
    BY <1>6, CountsTyped DEF Leave
  <2> QED
    BY <1>6, <2>1 DEF Leave
<1>7. ASSUME NEW d \in Dialog, Show(d) PROVE DialogTypeOK'
  <2>1. pending' \in [Bus -> Nat]
    BY <1>7, CountsTyped DEF Show
  <2> QED
    BY <1>7, <2>1 DEF Show
<1>8. ASSUME NEW d \in Dialog, Answer(d) PROVE DialogTypeOK'
  BY <1>8 DEF Answer
<1>9. ASSUME NEW d \in Dialog, Hide(d) PROVE DialogTypeOK'
  BY <1>9 DEF Hide
<1>10. ASSUME NEW d \in Dialog, Finish(d) PROVE DialogTypeOK'
  BY <1>10 DEF Finish
<1> QED
  BY <1>1, <1>2, <1>3, <1>4, <1>5, <1>6, <1>7, <1>8, <1>9, <1>10 DEF DialogNext

(* A step that moves one dialog on and leaves the line alone keeps the chain *)
(* if the dialog resolves its link only when it is done, and is granted its  *)
(* turn only at its turn.                                                    *)
LEMMA ChainKept ==
  ASSUME DialogInv, NEW d \in Dialog, NEW to,
         UNCHANGED line, pc' = [pc EXCEPT ![d] = to],
         released' \in {released, released \cup {d}},
         pc[d] = "done" => to = "done",
         d \in released' => to = "done",
         to \in {"granted"} \cup OnScreen => TurnOf(d),
         to \in InLine \cup OnScreen => pc[d] \in InLine \cup OnScreen,
         NEW e \in Dialog
  PROVE  Chained(e)'
<1>1. Chained(e) /\ Chained(d) /\ pc \in [Dialog -> Position] /\ released \subseteq released'
  BY DEF DialogInv, DialogTypeOK
<1>2. Earlier(e)' = Earlier(e) /\ line' = line
  BY DEF Earlier
<1>3. CASE e = d
  <2>1. pc'[e] = to
    BY <1>1, <1>3
  <2> QED
    BY <1>1, <1>2, <1>3, <2>1 DEF Chained, TurnOf
<1>4. CASE e # d
  <2>1. pc'[e] = pc[e] /\ (e \in released' => e \in released)
    BY <1>1, <1>4
  <2> QED
    BY <1>1, <1>2, <2>1 DEF Chained
<1> QED
  BY <1>3, <1>4

LEMMA DialogNextInv == DialogInv /\ [DialogNext]_dialogVars => DialogInv'
<1> SUFFICES ASSUME DialogInv, [DialogNext]_dialogVars, NEW e \in Dialog PROVE Chained(e)'
  BY DialogNextType DEF DialogInv
<1>1. pc \in [Dialog -> Position] /\ line \in Seq(Dialog) /\ Chained(e)
  BY DEF DialogInv, DialogTypeOK
<1>2. CASE UNCHANGED dialogVars
  BY <1>1, <1>2 DEF dialogVars, Chained, Earlier
<1>3. ASSUME NEW d \in Dialog, AskAborted(d) PROVE Chained(e)'
  BY <1>3, ChainKept DEF AskAborted, InLine, OnScreen
<1>4. ASSUME NEW d \in Dialog, Ask(d) PROVE Chained(e)'
  <2>1. line' = Append(line, d) /\ pc' = [pc EXCEPT ![d] = "waiting"] /\ released' = released
    BY <1>4 DEF Ask
  <2>2. CASE e = d
    <3>1. pc'[e] = "waiting" /\ pc[e] = "unasked"
      BY <1>1, <1>4, <2>1, <2>2 DEF Ask, Unasked
    <3>2. Len(line') \in DOMAIN line' /\ line'[Len(line')] = e
      BY <1>1, <2>1, <2>2
    <3> QED
      BY <1>1, <2>1, <3>1, <3>2 DEF Chained, OnScreen
  <2>3. CASE e # d
    <3>1. Earlier(e)' = Earlier(e)
      BY <1>1, <2>1, <2>3, EarlierKept
    <3>2. pc'[e] = pc[e]
      BY <1>1, <2>1, <2>3
    <3>3. (\E i \in DOMAIN line : line[i] = e) => \E i \in DOMAIN line' : line'[i] = e
      BY <1>1, <2>1
    <3> QED
      BY <1>1, <2>1, <3>1, <3>2, <3>3 DEF Chained
  <2> QED
    BY <2>2, <2>3
<1>5. ASSUME NEW d \in Dialog, TurnComes(d) PROVE Chained(e)'
  <2>1. d \notin released
    BY <1>5 DEF DialogInv, Chained, TurnComes
  <2> QED
    BY <1>5, <2>1, ChainKept DEF TurnComes, InLine, OnScreen
<1>6. ASSUME NEW d \in Dialog, Abort(d) PROVE Chained(e)'
  <2>1. Chained(d)
    BY DEF DialogInv
  <2> QED
    BY <1>6, <2>1, ChainKept DEF Abort, AbortedTo, InLine, OnScreen, Chained, TurnOf
<1>7. ASSUME NEW d \in Dialog, Leave(d) PROVE Chained(e)'
  BY <1>7, ChainKept DEF Leave, InLine, OnScreen
<1>8. ASSUME NEW d \in Dialog, Show(d) PROVE Chained(e)'
  <2>1. Chained(d)
    BY DEF DialogInv
  <2> QED
    BY <1>8, <2>1, ChainKept DEF Show, InLine, OnScreen, Chained, TurnOf
<1>9. ASSUME NEW d \in Dialog, Answer(d) PROVE Chained(e)'
  <2>1. Chained(d)
    BY DEF DialogInv
  <2> QED
    BY <1>9, <2>1, ChainKept DEF Answer, InLine, OnScreen, Chained, TurnOf
<1>10. ASSUME NEW d \in Dialog, Hide(d) PROVE Chained(e)'
  <2>1. Chained(d)
    BY DEF DialogInv
  <2> QED
    BY <1>10, <2>1, ChainKept DEF Hide, InLine, OnScreen, Chained, TurnOf
<1>11. ASSUME NEW d \in Dialog, Finish(d) PROVE Chained(e)'
  BY <1>11, ChainKept DEF Finish, InLine, OnScreen
<1> QED
  BY <1>2, <1>3, <1>4, <1>5, <1>6, <1>7, <1>8, <1>9, <1>10, <1>11 DEF DialogNext

(* Of two dialogs in line one came earlier, and the later one is granted its *)
(* turn only when that one is done.                                          *)
LEMMA InvOneOnScreen == DialogInv => OneOnScreen
<1> SUFFICES ASSUME DialogInv, NEW d \in Dialog, pc[d] \in OnScreen
             PROVE  /\ \A e \in Dialog \ {d} : pc[e] \notin OnScreen
                    /\ \A e \in Earlier(d) : pc[e] = "done"
  BY DEF OneOnScreen
<1>1. line \in Seq(Dialog)
  BY DEF DialogInv, DialogTypeOK
<1>2. ASSUME NEW x \in Dialog, pc[x] \in OnScreen, NEW e \in Earlier(x) PROVE pc[e] = "done"
  <2>1. e \in Dialog
    BY <1>1 DEF Earlier
  <2> QED
    BY <1>2, <2>1 DEF DialogInv, Chained
<1>3. ASSUME NEW e \in Dialog \ {d}, pc[e] \in OnScreen PROVE FALSE
  <2>1. PICK i \in DOMAIN line : line[i] = d
    BY DEF DialogInv, Chained
  <2>2. PICK j \in DOMAIN line : line[j] = e
    BY <1>3 DEF DialogInv, Chained
  <2>3. DOMAIN line \subseteq Nat
    BY <1>1
  <2>4. i < j \/ j < i
    BY <1>3, <2>1, <2>2, <2>3
  <2>5. d \in Earlier(e) \/ e \in Earlier(d)
    BY <2>1, <2>2, <2>4 DEF Earlier
  <2> QED
    BY <1>2, <1>3, <2>5 DEF OnScreen
<1> QED
  BY <1>2, <1>3

(* For any dialogs and buses: whatever aborts and in whatever order they are *)
(* asked for, two dialogs are never on screen together, and one that waited  *)
(* longer is never overtaken.                                                *)
THEOREM OneDialogAtATime == DialogSpec => []OneOnScreen
<1>1. DialogSpec => []DialogInv
  BY DialogInitInv, DialogNextInv, PTL DEF DialogSpec
<1> QED
  BY <1>1, InvOneOnScreen, PTL
-----------------------------------------------------------------------------
(* What the buses and the indicator are told.                                *)

Queue(b) == {d \in Dialog : pc[d] \in InLine /\ busOf[d] = b}

(* pendingDialogs counts the dialogs of the bus that are in line.            *)
Counted(b) == IsFiniteSet(Queue(b)) /\ pending[b] = Cardinality(Queue(b))

Shown == {"showing", "answered"}

Announced(d) ==
  pc[d] \in Shown => ~working /\ (busOf[d] \in Bus => active[busOf[d]])

(* As long as no signal has fired, a bus that believes in a dialog has one,  *)
(* in line or on screen, and so has a hidden indicator.                      *)
BelievedRightly ==
  aborted = {} =>
    /\ \A d \in Dialog : pc[d] # "refused"
    /\ ~working => \E d \in Dialog : pc[d] \in InLine \cup Shown
    /\ \A b \in Bus : active[b] =>
         \E d \in Dialog : pc[d] \in InLine \cup OnScreen /\ busOf[d] = b

ScreenInv ==
  /\ DialogInv
  /\ \A b \in Bus : Counted(b)
  /\ \A d \in Dialog : Announced(d)
  /\ BelievedRightly

(* A bus counts a dialog that joins the line, and one that leaves it.        *)
LEMMA CountKept ==
  ASSUME DialogTypeOK, NEW d \in Dialog, NEW to, pc' = [pc EXCEPT ![d] = to],
         UNCHANGED busOf, NEW b \in Bus, Counted(b),
         \/ pc[d] \notin InLine /\ to \in InLine /\ Increment(d)
         \/ pc[d] \in InLine /\ to \notin InLine /\ Decrement(d)
         \/ (pc[d] \in InLine <=> to \in InLine) /\ UNCHANGED pending
  PROVE  Counted(b)'
<1>1. /\ pc \in [Dialog -> Position] /\ pending \in [Bus -> Nat]
      /\ IsFiniteSet(Queue(b)) /\ pending[b] = Cardinality(Queue(b))
  BY DEF DialogTypeOK, Counted
<1>2. CASE busOf[d] # b
  <2>1. Queue(b)' = Queue(b)
    BY <1>1, <1>2 DEF Queue
  <2>2. pending'[b] = pending[b]
    BY <1>1, <1>2 DEF Increment, Decrement
  <2> QED
    BY <1>1, <2>1, <2>2 DEF Counted
<1>3. CASE busOf[d] = b /\ pc[d] \notin InLine /\ to \in InLine /\ Increment(d)
  <2>1. Queue(b)' = Queue(b) \cup {d} /\ d \notin Queue(b)
    BY <1>1, <1>3 DEF Queue
  <2>2. pending'[b] = pending[b] + 1
    BY <1>1, <1>3 DEF Increment
  <2>3. IsFiniteSet(Queue(b) \cup {d}) /\ Cardinality(Queue(b) \cup {d}) = Cardinality(Queue(b)) + 1
    BY <1>1, <2>1, FS_AddElement
  <2> QED
    BY <1>1, <2>1, <2>2, <2>3 DEF Counted
<1>4. CASE busOf[d] = b /\ pc[d] \in InLine /\ to \notin InLine /\ Decrement(d)
  <2>1. Queue(b)' = Queue(b) \ {d} /\ d \in Queue(b)
    BY <1>1, <1>4 DEF Queue
  <2>2. IsFiniteSet(Queue(b) \ {d}) /\ Cardinality(Queue(b) \ {d}) = Cardinality(Queue(b)) - 1
    BY <1>1, <2>1, FS_RemoveElement
  <2>3. pending[b] > 0
    <3>1. Cardinality(Queue(b) \ {d}) \in Nat
      BY <2>2, FS_CardinalityType
    <3> QED
      BY <1>1, <2>2, <3>1
  <2>4. pending'[b] = pending[b] - 1
    BY <1>1, <1>4, <2>3 DEF Decrement
  <2> QED
    BY <1>1, <2>1, <2>2, <2>4 DEF Counted
<1>5. CASE busOf[d] = b /\ (pc[d] \in InLine <=> to \in InLine) /\ UNCHANGED pending
  <2>1. Queue(b)' = Queue(b)
    BY <1>1, <1>5 DEF Queue
  <2> QED
    BY <1>1, <1>5, <2>1 DEF Counted
<1> QED
  BY <1>2, <1>3, <1>4, <1>5

(* What a dialog is told of a queued one is true.                            *)
LEMMA QueuedIsInLine ==
  ASSUME \A b \in Bus : Counted(b), NEW d \in Dialog, HasQueued(d)
  PROVE  \E x \in Dialog : pc[x] \in InLine /\ busOf[x] = busOf[d]
<1>1. Cardinality(Queue(busOf[d])) # 0 /\ busOf[d] \in Bus
  BY DEF HasQueued, Counted
<1>2. Queue(busOf[d]) # {}
  BY <1>1, FS_EmptySet
<1> QED
  BY <1>1, <1>2 DEF Queue

LEMMA ScreenInitInv == DialogInit => ScreenInv
<1> SUFFICES ASSUME DialogInit PROVE ScreenInv
  OBVIOUS
<1>1. ASSUME NEW b \in Bus PROVE Counted(b)
  <2>1. Queue(b) = {}
    BY DEF DialogInit, Queue, InLine, Unasked
  <2> QED
    BY <2>1, FS_EmptySet DEF DialogInit, Counted
<1>2. (\A d \in Dialog : Announced(d)) /\ BelievedRightly
  BY DEF DialogInit, Announced, BelievedRightly, Shown, Unasked
<1> QED
  BY <1>1, <1>2, DialogInitInv DEF ScreenInv

LEMMA CountsKept == ScreenInv /\ DialogNext => \A b \in Bus : Counted(b)'
<1> SUFFICES ASSUME ScreenInv, DialogNext, NEW b \in Bus PROVE Counted(b)'
  OBVIOUS
<1>1. DialogTypeOK /\ Counted(b)
  BY DEF ScreenInv, DialogInv
<1> USE DEF InLine, Unasked
<1>2. ASSUME NEW d \in Dialog, AskAborted(d) PROVE Counted(b)'
  <2>1. /\ pc' = [pc EXCEPT ![d] = "done"]
        /\ (pc[d] \in InLine <=> "done" \in InLine) /\ UNCHANGED <<busOf, pending>>
    BY <1>2 DEF AskAborted
  <2> QED
    BY ONLY <1>1, <2>1, CountKept DEF InLine
<1>3. ASSUME NEW d \in Dialog, Ask(d) PROVE Counted(b)'
  <2>1. pc' = [pc EXCEPT ![d] = "waiting"] /\ UNCHANGED busOf /\ pc[d] \notin InLine /\ Increment(d)
    BY <1>3 DEF Ask
  <2> QED
    BY ONLY <1>1, <2>1, CountKept DEF InLine
<1>4. ASSUME NEW d \in Dialog, TurnComes(d) PROVE Counted(b)'
  <2>1. /\ pc' = [pc EXCEPT ![d] = "granted"]
        /\ (pc[d] \in InLine <=> "granted" \in InLine) /\ UNCHANGED <<busOf, pending>>
    BY <1>4 DEF TurnComes
  <2> QED
    BY ONLY <1>1, <2>1, CountKept DEF InLine
<1>5. ASSUME NEW d \in Dialog, Abort(d) PROVE Counted(b)'
  <2>1. /\ pc' = [pc EXCEPT ![d] = AbortedTo(d)]
        /\ (pc[d] \in InLine <=> AbortedTo(d) \in InLine) /\ UNCHANGED <<busOf, pending>>
    BY <1>5 DEF Abort, AbortedTo
  <2> QED
    BY ONLY <1>1, <2>1, CountKept DEF InLine
<1>6. ASSUME NEW d \in Dialog, Leave(d) PROVE Counted(b)'
  <2>1. pc' = [pc EXCEPT ![d] = "done"] /\ UNCHANGED busOf 
    BY <1>6 DEF Leave
  <2>2. pc[d] \in InLine /\ "done" \notin InLine /\ Decrement(d)
    BY <1>6 DEF Leave
  <2> HIDE DEF InLine
  <2> QED
    BY <1>1, <2>1, <2>2, CountKept
<1>7. ASSUME NEW d \in Dialog, Show(d) PROVE Counted(b)'
  <2>1. pc' = [pc EXCEPT ![d] = "showing"] /\ UNCHANGED busOf 
    BY <1>7 DEF Show
  <2>2. pc[d] \in InLine /\ "showing" \notin InLine /\ Decrement(d)
    BY <1>7 DEF Show
  <2> HIDE DEF InLine
  <2> QED
    BY <1>1, <2>1, <2>2, CountKept
<1>8. ASSUME NEW d \in Dialog, Answer(d) PROVE Counted(b)'
  <2>1. /\ pc' = [pc EXCEPT ![d] = "answered"]
        /\ (pc[d] \in InLine <=> "answered" \in InLine) /\ UNCHANGED <<busOf, pending>>
    BY <1>8 DEF Answer
  <2> QED
    BY ONLY <1>1, <2>1, CountKept DEF InLine
<1>9. ASSUME NEW d \in Dialog, Hide(d) PROVE Counted(b)'
  <2>1. /\ pc' = [pc EXCEPT ![d] = "hidden"]
        /\ (pc[d] \in InLine <=> "hidden" \in InLine) /\ UNCHANGED <<busOf, pending>>
    BY <1>9 DEF Hide
  <2> QED
    BY ONLY <1>1, <2>1, CountKept DEF InLine
<1>10. ASSUME NEW d \in Dialog, Finish(d) PROVE Counted(b)'
  <2>1. /\ pc' = [pc EXCEPT ![d] = "done"]
        /\ (pc[d] \in InLine <=> "done" \in InLine) /\ UNCHANGED <<busOf, pending>>
    BY <1>10 DEF Finish
  <2> QED
    BY ONLY <1>1, <2>1, CountKept DEF InLine
<1> QED
  BY <1>2, <1>3, <1>4, <1>5, <1>6, <1>7, <1>8, <1>9, <1>10 DEF DialogNext

(* Only the dialog on screen hides, and it is the only one there.            *)
LEMMA AnnouncementsKept ==
  ASSUME ScreenInv, DialogNext, NEW e \in Dialog
  PROVE  Announced(e)'
<1>1. pc \in [Dialog -> Position] /\ active \in [Bus -> BOOLEAN] /\ Announced(e)
  BY DEF ScreenInv, DialogInv, DialogTypeOK
<1>2. OneOnScreen
  BY InvOneOnScreen DEF ScreenInv
<1>3. ASSUME NEW d \in Dialog, AskAborted(d) PROVE Announced(e)'
  BY <1>1, <1>3 DEF AskAborted, Announced, Shown
<1>4. ASSUME NEW d \in Dialog, Ask(d) PROVE Announced(e)'
  BY <1>1, <1>4 DEF Ask, Announced, Shown
<1>5. ASSUME NEW d \in Dialog, TurnComes(d) PROVE Announced(e)'
  BY <1>1, <1>5 DEF TurnComes, Announced, Shown
<1>6. ASSUME NEW d \in Dialog, Abort(d) PROVE Announced(e)'
  BY <1>1, <1>6 DEF Abort, AbortedTo, Announced, Shown
<1>7. ASSUME NEW d \in Dialog, Leave(d) PROVE Announced(e)'
  BY <1>1, <1>7 DEF Leave, Announced, Shown
<1>8. ASSUME NEW d \in Dialog, Show(d) PROVE Announced(e)'
  BY <1>1, <1>8 DEF Show, Announced, Shown
<1>9. ASSUME NEW d \in Dialog, Answer(d) PROVE Announced(e)'
  BY <1>1, <1>9 DEF Answer, Announced, Shown
<1>10. ASSUME NEW d \in Dialog, Hide(d) PROVE Announced(e)'
  <2>1. pc'[e] \notin Shown
    BY <1>1, <1>2, <1>10 DEF Hide, OneOnScreen, OnScreen, Shown
  <2> QED
    BY <2>1 DEF Announced
<1>11. ASSUME NEW d \in Dialog, Finish(d) PROVE Announced(e)'
  <2>1. pc'[e] \notin Shown
    BY <1>1, <1>2, <1>11 DEF Finish, OneOnScreen, OnScreen, Shown
  <2> QED
    BY <2>1 DEF Announced
<1> QED
  BY <1>3, <1>4, <1>5, <1>6, <1>7, <1>8, <1>9, <1>10, <1>11 DEF DialogNext

(* A step after which a dialog is in line or on screen that was before, while*)
(* nobody else moved and no bus and no indicator was told anything.          *)
LEMMA BeliefsKept ==
  ASSUME ScreenInv, NEW d \in Dialog, NEW to, pc' = [pc EXCEPT ![d] = to],
         UNCHANGED <<busOf, aborted>>, to # "refused",
         pc[d] \in InLine \cup OnScreen => to \in InLine \cup OnScreen,
         pc[d] \in InLine \cup Shown => to \in InLine \cup Shown,
         UNCHANGED <<active, working>>
  PROVE  BelievedRightly'
<1>1. pc \in [Dialog -> Position] /\ BelievedRightly
  BY DEF ScreenInv, DialogInv, DialogTypeOK
<1>2. \A x \in Dialog : /\ pc[x] \in InLine \cup OnScreen => pc'[x] \in InLine \cup OnScreen
                        /\ pc[x] \in InLine \cup Shown => pc'[x] \in InLine \cup Shown
                        /\ pc[x] # "refused" => pc'[x] # "refused"
  BY <1>1
<1> QED
  BY <1>1, <1>2 DEF BelievedRightly

(* The dialog that leaves the screen withdraws what was told of it, except   *)
(* what is true of a dialog in line as well.                                 *)
LEMMA BeliefsNext == ScreenInv /\ DialogNext => BelievedRightly'
<1> SUFFICES ASSUME ScreenInv, DialogNext PROVE BelievedRightly'
  OBVIOUS
<1>1. /\ pc \in [Dialog -> Position] /\ active \in [Bus -> BOOLEAN]
      /\ busOf \in [Dialog -> Bus \cup {NoBus}] /\ BelievedRightly
  BY DEF ScreenInv, DialogInv, DialogTypeOK
<1>2. ASSUME NEW d \in Dialog, AskAborted(d) PROVE BelievedRightly'
  <2>1. d \in aborted' /\ d \in aborted
    BY <1>2 DEF AskAborted
  <2> QED
    BY <2>1 DEF BelievedRightly
<1>3. ASSUME NEW d \in Dialog, Ask(d) PROVE BelievedRightly'
  BY <1>3, BeliefsKept DEF Ask, InLine, OnScreen, Shown, Unasked
<1>4. ASSUME NEW d \in Dialog, TurnComes(d) PROVE BelievedRightly'
  BY <1>4, BeliefsKept DEF TurnComes, InLine, OnScreen, Shown
<1>5. ASSUME NEW d \in Dialog, Abort(d) PROVE BelievedRightly'
  BY <1>5 DEF Abort, BelievedRightly
<1>6. ASSUME NEW d \in Dialog, Leave(d) PROVE BelievedRightly'
  <2>1. aborted # {}
    BY <1>1, <1>6 DEF Leave, BelievedRightly
  <2> QED
    BY <1>6, <2>1 DEF Leave, BelievedRightly
<1>7. ASSUME NEW d \in Dialog, Show(d) PROVE BelievedRightly'
  <2>1. \A x \in Dialog : pc[x] \in InLine \cup OnScreen => pc'[x] \in InLine \cup OnScreen
    BY <1>1, <1>7 DEF Show, InLine, OnScreen
  <2>2. pc'[d] \in Shown /\ pc'[d] \in OnScreen /\ \A x \in Dialog : pc[x] # "refused" => pc'[x] # "refused"
    BY <1>1, <1>7 DEF Show, Shown, OnScreen
  <2>3. \A b \in Bus : active'[b] => active[b] \/ b = busOf[d]
    BY <1>1, <1>7 DEF Show
  <2>4. UNCHANGED <<aborted, busOf>>
    BY <1>7 DEF Show
  <2> QED
    BY <1>1, <2>1, <2>2, <2>3, <2>4 DEF BelievedRightly
<1>8. ASSUME NEW d \in Dialog, Answer(d) PROVE BelievedRightly'
  BY <1>8, BeliefsKept DEF Answer, InLine, OnScreen, Shown
<1>9. ASSUME NEW d \in Dialog, Hide(d) PROVE BelievedRightly'
  <2>1. \A x \in Dialog : /\ pc[x] \in InLine \cup OnScreen => pc'[x] \in InLine \cup OnScreen
                          /\ pc[x] # "refused" => pc'[x] # "refused"
    BY <1>1, <1>9 DEF Hide, InLine, OnScreen
  <2>2. UNCHANGED <<aborted, busOf, active>> /\ (~working' => HasQueued(d))
    BY <1>1, <1>9 DEF Hide, ScreenInv, Announced
  <2>3. \A x \in Dialog : pc[x] \in InLine => pc'[x] \in InLine
    BY <1>1, <1>9 DEF Hide, InLine
  <2>4. HasQueued(d) => \E x \in Dialog : pc[x] \in InLine
    BY QueuedIsInLine DEF ScreenInv
  <2> QED
    BY <1>1, <2>1, <2>2, <2>3, <2>4 DEF BelievedRightly
<1>10. ASSUME NEW d \in Dialog, Finish(d) PROVE BelievedRightly'
  <2> SUFFICES ASSUME aborted' = {} PROVE BelievedRightly'
    BY DEF BelievedRightly
  <2>1. /\ UNCHANGED <<aborted, busOf, working>> /\ pc' = [pc EXCEPT ![d] = "done"]
        /\ pc[d] = "hidden"
    BY <1>10 DEF Finish
  <2>2. \A x \in Dialog : pc'[x] # "refused"
    BY <1>1, <2>1 DEF BelievedRightly
  <2>3. \A b \in Bus : active'[b] =>
          \E x \in Dialog : pc'[x] \in InLine \cup OnScreen /\ busOf'[x] = b
    <3> SUFFICES ASSUME NEW b \in Bus, active'[b]
                 PROVE  \E x \in Dialog : pc'[x] \in InLine \cup OnScreen /\ busOf'[x] = b
      OBVIOUS
    <3>1. CASE b = busOf[d]
      <4>1. HasQueued(d)
        BY <1>10, <3>1 DEF Finish
      <4>2. PICK x \in Dialog : pc[x] \in InLine /\ busOf[x] = b
        BY <3>1, <4>1, QueuedIsInLine DEF ScreenInv
      <4>3. pc'[x] \in InLine
        BY <1>1, <2>1, <4>2 DEF InLine
      <4> QED
        BY <2>1, <4>2, <4>3
    <3>2. CASE b # busOf[d]
      <4>1. active[b]
        BY <1>10, <3>2 DEF Finish
      <4>2. PICK x \in Dialog : pc[x] \in InLine \cup OnScreen /\ busOf[x] = b
        BY <1>1, <2>1, <4>1 DEF BelievedRightly
      <4> QED
        BY <1>1, <2>1, <3>2, <4>2
    <3> QED
      BY <3>1, <3>2
  <2>4. ~working' => \E x \in Dialog : pc'[x] \in InLine \cup Shown
    BY <1>1, <2>1 DEF BelievedRightly, InLine, Shown
  <2> QED
    BY <2>2, <2>3, <2>4 DEF BelievedRightly
<1> QED
  BY <1>2, <1>3, <1>4, <1>5, <1>6, <1>7, <1>8, <1>9, <1>10 DEF DialogNext

LEMMA ScreenNextInv == ScreenInv /\ [DialogNext]_dialogVars => ScreenInv'
<1> SUFFICES ASSUME ScreenInv, [DialogNext]_dialogVars PROVE ScreenInv'
  OBVIOUS
<1>1. DialogInv'
  BY DialogNextInv DEF ScreenInv
<1>2. CASE DialogNext
  BY <1>1, <1>2, CountsKept, AnnouncementsKept, BeliefsNext DEF ScreenInv
<1>3. CASE UNCHANGED dialogVars
  <2>1. (\A b \in Bus : Counted(b)')
    BY <1>3 DEF ScreenInv, Counted, Queue, dialogVars
  <2>2. (\A d \in Dialog : Announced(d)') /\ BelievedRightly'
    BY <1>3 DEF ScreenInv, Announced, BelievedRightly, dialogVars
  <2> QED
    BY <1>1, <2>1, <2>2 DEF ScreenInv
<1> QED
  BY <1>2, <1>3

LEMMA InvScreenAnnounced == ScreenInv => ScreenAnnounced
<1> SUFFICES ASSUME ScreenInv PROVE ScreenAnnounced
  OBVIOUS
<1>1. working \in BOOLEAN /\ active \in [Bus -> BOOLEAN]
  BY DEF ScreenInv, DialogInv, DialogTypeOK
<1>2. \A d \in Dialog :
        pc[d] \in {"showing", "answered"} => ~working /\ (busOf[d] \in Bus => active[busOf[d]])
  BY DEF ScreenInv, Announced, Shown
<1>3. ASSUME aborted = {}, \A d \in Dialog : pc[d] \in {Unasked, "done"}
      PROVE  working /\ \A b \in Bus : ~active[b]
  BY <1>1, <1>3 DEF ScreenInv, BelievedRightly, InLine, OnScreen, Shown, Unasked
<1> QED
  BY <1>2, <1>3 DEF ScreenAnnounced

(* For any dialogs and buses: the terminal's indicator is hidden and the bus *)
(* of a dialog is told while it is on screen, and as long as no signal fires *)
(* neither is left behind when nobody asks any more.                         *)
THEOREM ScreenIsAnnounced == DialogSpec => []ScreenAnnounced
<1>1. DialogSpec => []ScreenInv
  BY ScreenInitInv, ScreenNextInv, PTL DEF DialogSpec
<1> QED
  BY <1>1, InvScreenAnnounced, PTL
-----------------------------------------------------------------------------
(* The cache of containers.                                                  *)

(* The entry of a key is a container that was started for it, and only those *)
(* that were started are known to anybody.                                   *)
BackendInv ==
  /\ sessions \in [Key -> Box \cup {NoBox}]
  /\ keyOf \in [Box -> Key \cup {NoKey}]
  /\ start \in [Box -> {"unused", "preparing", "launched", "ready", "failed"}]
  /\ podman \in [Box -> {"none", "up", "gone"}]
  /\ \A b \in Box : start[b] \in {"unused", "preparing"} => podman[b] = "none"
  /\ \A b \in Box : start[b] # "unused" => keyOf[b] \in Key
  /\ \A k \in Key : sessions[k] # NoBox =>
       start[sessions[k]] # "unused" /\ keyOf[sessions[k]] = k
  /\ NoneUnowned

LEMMA BackendInitInv == BackendInit => BackendInv
BY DEF BackendInit, BackendInv, NoneUnowned

(* The container that is replaced has an owner that closes it.               *)
LEMMA StartForKeepsOwners ==
  ASSUME BackendInv, NEW k \in Key, NEW old, StartFor(k, old), UNCHANGED podman
  PROVE  BackendInv'
<1>1. PICK b \in Fresh :
        /\ sessions' = [sessions EXCEPT ![k] = b]
        /\ keyOf' = [keyOf EXCEPT ![b] = k]
        /\ start' = [start EXCEPT ![b] = "preparing"]
  BY DEF StartFor
<1>2. b \in Box /\ start[b] = "unused" /\ NoBox \notin Box
  BY <1>1, BackendAssumption DEF Fresh
<1>3. unwanted' = unwanted \cup ({sessions[k]} \ {NoBox}) /\ podman' = podman
  BY DEF StartFor
<1> USE DEF BackendInv
<1>4. /\ sessions' \in [Key -> Box \cup {NoBox}]
      /\ keyOf' \in [Box -> Key \cup {NoKey}]
      /\ start' \in [Box -> {"unused", "preparing", "launched", "ready", "failed"}]
  BY <1>1, <1>2
<1>5. \A c \in Box : start'[c] # "unused" => keyOf'[c] \in Key
  BY <1>1, <1>2
<1>6. \A j \in Key : sessions'[j] # NoBox =>
        start'[sessions'[j]] # "unused" /\ keyOf'[sessions'[j]] = j
  <2> SUFFICES ASSUME NEW j \in Key, sessions'[j] # NoBox
               PROVE  start'[sessions'[j]] # "unused" /\ keyOf'[sessions'[j]] = j
    OBVIOUS
  <2>1. CASE j = k
    BY <1>1, <1>2, <2>1
  <2>2. CASE j # k
    <3>1. sessions'[j] = sessions[j] /\ sessions[j] # b
      BY <1>1, <1>2, <2>2
    <3> QED
      BY <1>1, <1>2, <3>1
  <2> QED
    BY <2>1, <2>2
<1>7. NoneUnowned'
  <2> SUFFICES ASSUME NEW c \in Box, start'[c] \in {"preparing", "launched", "ready"},
                      podman'[c] # "gone", c \notin unwanted'
               PROVE  sessions'[keyOf'[c]] = c
    BY DEF NoneUnowned
  <2>1. CASE c = b
    BY <1>1, <1>2, <2>1
  <2>2. CASE c # b
    <3>1. start'[c] = start[c] /\ keyOf'[c] = keyOf[c] /\ keyOf[c] \in Key
      BY <1>1, <1>2, <2>2
    <3>2. sessions[keyOf[c]] = c
      BY <1>3, <3>1 DEF NoneUnowned
    <3>3. keyOf[c] # k
      BY <1>2, <1>3, <3>2
    <3> QED
      BY <1>1, <3>1, <3>2, <3>3
  <2> QED
    BY <2>1, <2>2
<1>8. \A c \in Box : start'[c] \in {"unused", "preparing"} => podman'[c] = "none"
  BY <1>1, <1>2, <1>3
<1> QED
  BY <1>3, <1>4, <1>5, <1>6, <1>7, <1>8

(* A failed start takes its own entry along and no other.                    *)
LEMMA StartFailsKeepsOwners ==
  ASSUME BackendInv, NEW b \in Box, start[b] # "unused", StartFails(b),
         UNCHANGED <<keyOf, unwanted>>,
         podman' \in [Box -> {"none", "up", "gone"}],
         \A c \in Box \ {b} : podman'[c] = podman[c]
  PROVE  BackendInv'
<1>1. /\ start' = [start EXCEPT ![b] = "failed"]
      /\ sessions' = [k \in Key |-> IF sessions[k] = b THEN NoBox ELSE sessions[k]]
      /\ keyOf' = keyOf /\ unwanted' = unwanted
  BY DEF StartFails, Forget
<1> USE DEF BackendInv
<1>2. /\ sessions' \in [Key -> Box \cup {NoBox}]
      /\ start' \in [Box -> {"unused", "preparing", "launched", "ready", "failed"}]
  BY <1>1
<1>3. \A c \in Box : start'[c] # "unused" => keyOf'[c] \in Key
  BY <1>1
<1>4. \A k \in Key : sessions'[k] # NoBox =>
        start'[sessions'[k]] # "unused" /\ keyOf'[sessions'[k]] = k
  BY <1>1
<1>5. NoneUnowned'
  <2> SUFFICES ASSUME NEW c \in Box, start'[c] \in {"preparing", "launched", "ready"},
                      podman'[c] # "gone", c \notin unwanted
               PROVE  sessions'[keyOf[c]] = c
    BY <1>1 DEF NoneUnowned
  <2>1. c # b
    BY <1>1
  <2>2. sessions[keyOf[c]] = c /\ keyOf[c] \in Key
    BY <1>1, <2>1 DEF NoneUnowned
  <2> QED
    BY <1>1, <2>1, <2>2
<1> QED
  BY <1>1, <1>2, <1>3, <1>4, <1>5

(* What a session switch or the end of the runtime removes from the cache is *)
(* closed.                                                                   *)
LEMMA TearDownKeepsOwners ==
  ASSUME BackendInv, TearDown, UNCHANGED <<keyOf, start, podman>>
  PROVE  BackendInv'
<1>1. /\ sessions' = [k \in Key |-> NoBox]
      /\ unwanted' = unwanted \cup Cached
  BY DEF TearDown
<1>2. \A k \in Key : sessions[k] # NoBox => sessions[k] \in Cached
  BY DEF Cached
<1>3. NoneUnowned'
  BY <1>1, <1>2, BackendAssumption DEF BackendInv, NoneUnowned
<1> QED
  BY <1>1, <1>3 DEF BackendInv

LEMMA BackendNextInv == BackendInv /\ [BackendNext]_backendVars => BackendInv'
<1> SUFFICES ASSUME BackendInv, [BackendNext]_backendVars PROVE BackendInv'
  OBVIOUS
<1>1. CASE UNCHANGED backendVars
  BY <1>1 DEF backendVars, BackendInv, NoneUnowned
<1>2. ASSUME NEW k \in Key, Command(k) PROVE BackendInv'
  BY <1>2, StartForKeepsOwners DEF Command
<1>3. ASSUME NEW k \in Key, Reload(k) PROVE BackendInv'
  BY <1>3, StartForKeepsOwners DEF Reload
<1>4. ASSUME NEW b \in Box, PreparationFails(b) PROVE BackendInv'
  <2>1. /\ start[b] # "unused" /\ UNCHANGED <<keyOf, unwanted>>
        /\ podman' \in [Box -> {"none", "up", "gone"}]
        /\ \A c \in Box \ {b} : podman'[c] = podman[c]
    BY <1>4 DEF PreparationFails, BackendInv
  <2> QED
    BY <1>4, <2>1, StartFailsKeepsOwners DEF PreparationFails
<1>5. ASSUME NEW b \in Box, Launched(b) PROVE BackendInv'
  <2>1. NoneUnowned'
    BY <1>5 DEF Launched, BackendInv, NoneUnowned
  <2> QED
    BY <1>5, <2>1 DEF Launched, BackendInv
<1>6. ASSUME NEW b \in Box, ExitsAtOnce(b) PROVE BackendInv'
  <2>1. podman' \in [Box -> {"none", "up", "gone"}] /\ \A c \in Box \ {b} : podman'[c] = podman[c]
    BY <1>6 DEF ExitsAtOnce, BackendInv
  <2> QED
    BY <1>6, <2>1, StartFailsKeepsOwners DEF ExitsAtOnce
<1>7. ASSUME NEW b \in Box, IsReady(b) PROVE BackendInv'
  <2>1. NoneUnowned'
    BY <1>7 DEF IsReady, BackendInv, NoneUnowned
  <2> QED
    BY <1>7, <2>1 DEF IsReady, BackendInv
<1>8. ASSUME NEW b \in Box, StartTimesOut(b) PROVE BackendInv'
  <2>1. /\ start[b] # "unused" /\ UNCHANGED <<keyOf, unwanted>>
        /\ podman' \in [Box -> {"none", "up", "gone"}]
        /\ \A c \in Box \ {b} : podman'[c] = podman[c]
    BY <1>8 DEF StartTimesOut, BackendInv
  <2> QED
    BY <1>8, <2>1, StartFailsKeepsOwners DEF StartTimesOut
<1>9. ASSUME NEW b \in Box, Dies(b) PROVE BackendInv'
  <2>1. NoneUnowned'
    BY <1>9 DEF Dies, BackendInv, NoneUnowned
  <2> QED
    BY <1>9, <2>1 DEF Dies, BackendInv
<1>10. ASSUME NEW b \in Box, Reaps(b) PROVE BackendInv'
  <2>1. NoneUnowned'
    BY <1>10 DEF Reaps, BackendInv, NoneUnowned
  <2> QED
    BY <1>10, <2>1 DEF Reaps, BackendInv
<1>11. ASSUME SessionShutdown PROVE BackendInv'
  BY <1>11, TearDownKeepsOwners DEF SessionShutdown
<1>12. ASSUME CloseAll PROVE BackendInv'
  BY <1>12, TearDownKeepsOwners DEF CloseAll
<1>13. ASSUME TornDown PROVE BackendInv'
  BY <1>13 DEF TornDown, BackendInv, NoneUnowned
<1> QED
  BY <1>1, <1>2, <1>3, <1>4, <1>5, <1>6, <1>7, <1>8, <1>9, <1>10, <1>11, <1>12, <1>13
  DEF BackendNext

(* For any sessions and any number of containers and reloads: a container    *)
(* that is up or on its way is the cached one of its session or will be      *)
(* closed.                                                                   *)
THEOREM ContainersAreOwned == BackendSpec => []NoneUnowned
<1>1. BackendSpec => []BackendInv
  BY BackendInitInv, BackendNextInv, PTL DEF BackendSpec
<1>2. BackendInv => NoneUnowned
  BY DEF BackendInv
<1> QED
  BY <1>1, <1>2, PTL

-----------------------------------------------------------------------------
(* The requests of a session.                                                *)

(* A message, a process and a file request carry the id of the request they  *)
(* are about; no two requests have the same.                                 *)
Addressed == [what : {"exec", "fs", "cancel", "result", "error"}, id : Nat, of : Request]
Notices == [what : {"ready", "garbage"}, id : {NoId}, of : {"nobody"}]
Letters == {m \in Addressed : id[m.of] = m.id} \cup Notices

Processes == [of : Request \cup {"nobody"}, at : {"idle", "runs", "told", "ended"}]

SessionTyped ==
  /\ kind \in [Request -> {"exec", "fs"}]
  /\ request \in [Request -> {"idle", "pending", "resolved", "rejected"}]
  /\ id \in [Request -> Nat \cup {NoId}]
  /\ nextId \in Nat
  /\ running \in [Id -> Processes]
  /\ files \subseteq [of : Request, id : Nat]

IdsUnique ==
  /\ \A r \in Request : request[r] = "idle" => id[r] = NoId
  /\ \A r \in Request : request[r] = "pending" => id[r] # NoId
  /\ \A r \in Request : id[r] # NoId => id[r] < nextId
  /\ \A r, s \in Request : id[r] # NoId /\ id[r] = id[s] => r = s

WorkNamed ==
  /\ \A i \in Id : running[i].at # "idle" => running[i].of \in Request /\ id[running[i].of] = i
  /\ \A f \in files : id[f.of] = f.id

SessionInv ==
  /\ SessionTyped
  /\ IdsUnique
  /\ WorkNamed
  /\ toBox \in Seq(Letters) /\ toHost \in Seq(Letters)

LEMMA SessionInitInv == SessionInit => SessionInv
<1> SUFFICES ASSUME SessionInit PROVE SessionInv
  OBVIOUS
<1>1. SessionTyped
  <2>1. running \in [Id -> Processes]
    BY DEF SessionInit, Processes, Idle
  <2> QED
    BY <2>1 DEF SessionInit, SessionTyped
<1>2. IdsUnique
  BY DEF SessionInit, IdsUnique
<1>3. WorkNamed
  BY DEF SessionInit, WorkNamed, Idle
<1>4. toBox \in Seq(Letters) /\ toHost \in Seq(Letters)
  BY DEF SessionInit
<1> QED
  BY <1>1, <1>2, <1>3, <1>4 DEF SessionInv

(* A step that issues no request keeps the names; how requests are answered  *)
(* does not matter to them.                                                  *)
LEMMA NamesKept ==
  ASSUME SessionInv, UNCHANGED <<kind, id, nextId>>,
         request' \in [Request -> {"idle", "pending", "resolved", "rejected"}],
         \A r \in Request : request'[r] # request[r] => request'[r] \in {"resolved", "rejected"},
         running' \in [Id -> Processes],
         \A i \in Id : running'[i].at # "idle" => running'[i].of \in Request /\ id[running'[i].of] = i,
         files' \subseteq [of : Request, id : Nat],
         \A f \in files' : id[f.of] = f.id,
         toBox' \in Seq(Letters), toHost' \in Seq(Letters)
  PROVE  SessionInv'
<1>1. SessionTyped'
  BY DEF SessionInv, SessionTyped
<1>2. IdsUnique'
  BY DEF SessionInv, IdsUnique, SessionTyped
<1>3. WorkNamed'
  BY DEF WorkNamed
<1>4. Letters' = Letters
  BY DEF Letters
<1> QED
  BY <1>1, <1>2, <1>3, <1>4 DEF SessionInv

(* The same for a step of the client, and for one of the dispatcher.         *)
LEMMA HostKeepsNames ==
  ASSUME SessionInv, UNCHANGED <<kind, id, nextId, inside>>,
         request' \in [Request -> {"idle", "pending", "resolved", "rejected"}],
         \A r \in Request : request'[r] # request[r] => request'[r] \in {"resolved", "rejected"},
         toBox' \in Seq(Letters), toHost' \in Seq(Letters)
  PROVE  SessionInv'
BY NamesKept DEF SessionInv, SessionTyped, WorkNamed, inside

LEMMA BoxKeepsNames ==
  ASSUME SessionInv, UNCHANGED host,
         running' \in [Id -> Processes],
         \A i \in Id : running'[i].at # "idle" => running'[i].of \in Request /\ id[running'[i].of] = i,
         files' \subseteq [of : Request, id : Nat],
         \A f \in files' : id[f.of] = f.id,
         toBox' \in Seq(Letters), toHost' \in Seq(Letters)
  PROVE  SessionInv'
BY NamesKept DEF SessionInv, SessionTyped, host

LEMMA SettlesTyped ==
  ASSUME SessionTyped, NEW S, NEW how \in {"resolved", "rejected"}, Settles(S, how)
  PROVE  /\ request' \in [Request -> {"idle", "pending", "resolved", "rejected"}]
         /\ \A r \in Request : request'[r] # request[r] => request'[r] = how
BY DEF SessionTyped, Settles

(* A letter that is taken leaves letters; one that is written is one more.   *)
LEMMA LettersTaken ==
  ASSUME NEW q \in Seq(Letters), q # <<>>
  PROVE  Head(q) \in Letters /\ Tail(q) \in Seq(Letters)
OBVIOUS

LEMMA LetterOf ==
  ASSUME NEW i \in Nat, NEW r \in Request, id[r] = i,
         NEW what \in {"exec", "fs", "cancel", "result", "error"}
  PROVE  Message(what, i, r) \in Letters
BY DEF Letters, Addressed, Message

LEMMA IssueKeepsNames ==
  ASSUME SessionInv, NEW r \in Request, Issue(r)
  PROVE  SessionInv'
<1>1. /\ request[r] = "idle" /\ id[r] = NoId
      /\ request' = [request EXCEPT ![r] = "pending"]
      /\ id' = [id EXCEPT ![r] = nextId]
      /\ nextId' = nextId + 1 /\ nextId \in Nat
      /\ UNCHANGED <<kind, toHost, running, files>>
      /\ kind[r] \in {"exec", "fs"}
  BY DEF Issue, NewId, SessionInv, IdsUnique, SessionTyped, inside
<1>2. SessionTyped'
  BY <1>1 DEF SessionInv, SessionTyped
<1>3. NoId \notin Nat
  BY SessionAssumption
<1>4. IdsUnique'
  <2> USE <1>1, <1>3 DEF SessionInv, IdsUnique, SessionTyped
  <2>1. \A s \in Request : s # r => id'[s] = id[s] /\ request'[s] = request[s]
    OBVIOUS
  <2>2. id'[r] = nextId /\ request'[r] = "pending"
    OBVIOUS
  <2>3. \A s \in Request : id'[s] # NoId => id'[s] < nextId'
    BY <2>1, <2>2
  <2>4. \A s, t \in Request : id'[s] # NoId /\ id'[s] = id'[t] => s = t
    <3> SUFFICES ASSUME NEW s \in Request, NEW t \in Request, id'[s] # NoId, id'[s] = id'[t], s # t
                 PROVE  FALSE
      OBVIOUS
    <3>1. CASE s # r /\ t # r
      BY <2>1, <3>1
    <3>2. CASE s = r
      BY <2>1, <2>2, <3>2
    <3>3. CASE t = r
      BY <2>1, <2>2, <3>3
    <3> QED
      BY <3>1, <3>2, <3>3
  <2> QED
    BY <2>1, <2>2, <2>3, <2>4
<1>5. \A s \in Request : id[s] # NoId => id'[s] = id[s]
  BY <1>1 DEF SessionInv, SessionTyped
<1>6. WorkNamed'
  <2>1. \A i \in Id : i # NoId
    BY <1>3 DEF Id
  <2> QED
    BY <1>1, <1>3, <1>5, <2>1 DEF SessionInv, WorkNamed, SessionTyped
<1>7. Letters \subseteq Letters'
  <2> SUFFICES ASSUME NEW m \in Letters PROVE m \in Letters'
    OBVIOUS
  <2>1. CASE m \in Notices
    BY <2>1 DEF Letters
  <2>2. CASE m \in Addressed /\ id[m.of] = m.id
    <3>1. m.of \in Request /\ m.id \in Nat
      BY <2>2 DEF Addressed
    <3>2. id'[m.of] = m.id
      BY <1>3, <1>5, <2>2, <3>1
    <3> QED
      BY <2>2, <3>2 DEF Letters
  <2> QED
    BY <2>1, <2>2 DEF Letters
<1>8. toHost' \in Seq(Letters')
  BY <1>1, <1>7, SeqMonotonic DEF SessionInv
<1>9. toBox \in Seq(Letters')
  BY <1>7, SeqMonotonic DEF SessionInv
<1>10. Message(kind[r], nextId, r) \in Letters'
  <2>1. id'[r] = nextId
    BY <1>1 DEF SessionInv, SessionTyped
  <2> QED
    BY <1>1, <2>1 DEF Letters, Addressed, Message
<1>11. toBox' \in Seq(Letters')
  <2>1. toBox' = toBox \/ toBox' = Append(toBox, Message(kind[r], nextId, r))
    BY DEF Issue, Send, NewId
  <2> QED
    BY <1>9, <1>10, <2>1
<1> QED
  BY <1>2, <1>4, <1>6, <1>8, <1>11 DEF SessionInv

LEMMA SessionNextInv == SessionInv /\ [SessionNext]_sessionVars => SessionInv'
<1> SUFFICES ASSUME SessionInv, [SessionNext]_sessionVars PROVE SessionInv'
  OBVIOUS
<1>1. SessionTyped /\ IdsUnique /\ WorkNamed /\ toBox \in Seq(Letters) /\ toHost \in Seq(Letters)
  BY DEF SessionInv
<1>2. request \in [Request -> {"idle", "pending", "resolved", "rejected"}]
  BY <1>1 DEF SessionTyped
<1>3. CASE UNCHANGED sessionVars
  BY <1>1, <1>2, <1>3, HostKeepsNames DEF sessionVars, inside
<1>4. ASSUME NEW r \in Request, Refused(r) PROVE SessionInv'
  BY <1>1, <1>2, <1>4, HostKeepsNames DEF Refused
<1>5. ASSUME NEW r \in Request, Issue(r) PROVE SessionInv'
  BY <1>5, IssueKeepsNames
<1>6. ASSUME NEW r \in Request, Signal(r) PROVE SessionInv'
  <2>1. toBox' \in Seq(Letters)
    <3>1. CASE request[r] = "pending"
      <4>1. id[r] \in Nat
        BY <1>1, <3>1 DEF SessionTyped, IdsUnique
      <4>2. Message("cancel", id[r], r) \in Letters
        BY <4>1, LetterOf
      <4> QED
        BY <1>1, <1>6, <3>1, <4>2, SMTT(30) DEF Signal, Send
    <3>2. CASE request[r] # "pending"
      BY <1>1, <1>6, <3>2 DEF Signal
    <3> QED
      BY <3>1, <3>2
  <2> QED
    BY <1>1, <1>2, <1>6, <2>1, HostKeepsNames DEF Signal
<1>7. ASSUME NEW r \in Request, Backstop(r) PROVE SessionInv'
  BY <1>1, <1>7, SettlesTyped, HostKeepsNames DEF Backstop
<1>8. ASSUME StartTimeout PROVE SessionInv'
  BY <1>1, <1>2, <1>8, HostKeepsNames DEF StartTimeout
<1>9. ASSUME ReceiveReady PROVE SessionInv'
  BY <1>1, <1>2, <1>9, LettersTaken, HostKeepsNames DEF ReceiveReady
<1>10. ASSUME ReceiveAnswer PROVE SessionInv'
  <2>1. toHost' \in Seq(Letters)
    BY <1>1, <1>10, LettersTaken DEF ReceiveAnswer
  <2>2. PICK how \in {"resolved", "rejected"} : Settles(Answered(Head(toHost).id), how)
    BY <1>10 DEF ReceiveAnswer
  <2> QED
    BY <1>1, <1>10, <2>1, <2>2, SettlesTyped, HostKeepsNames DEF ReceiveAnswer
<1>11. ASSUME ReceiveGarbage PROVE SessionInv'
  <2>1. toHost' \in Seq(Letters)
    BY <1>1, <1>11, LettersTaken DEF ReceiveGarbage
  <2> QED
    BY <1>1, <1>11, <2>1, SettlesTyped, HostKeepsNames DEF ReceiveGarbage
<1>12. ASSUME SeeExit PROVE SessionInv'
  <2>1. request' = request \/ Settles(FailAll, "rejected")
    BY <1>12 DEF SeeExit
  <2> QED
    BY <1>1, <1>2, <1>12, <2>1, SettlesTyped, HostKeepsNames DEF SeeExit
<1>13. ASSUME Close PROVE SessionInv'
  BY <1>1, <1>13, SettlesTyped, HostKeepsNames DEF Close
<1>14. ASSUME CloseReturns PROVE SessionInv'
  BY <1>1, <1>2, <1>14, HostKeepsNames DEF CloseReturns
<1>15. ASSUME CloseByForce \/ Die PROVE SessionInv'
  <2>1. running' = [i \in Id |-> Idle] /\ files' = {} /\ toBox' = <<>> /\ toHost' = toHost
    BY <1>15 DEF CloseByForce, Die, host
  <2>2. UNCHANGED <<kind, id, nextId, request>>
    BY <1>15 DEF CloseByForce, Die, host
  <2>3. running' \in [Id -> Processes] /\ \A i \in Id : running'[i].at = "idle"
    BY <2>1 DEF Processes, Idle
  <2> QED
    BY <1>1, <1>2, <2>1, <2>2, <2>3, NamesKept
<1>16. ASSUME Boot PROVE SessionInv'
  <2>1. Message("ready", NoId, "nobody") \in Letters
    BY DEF Letters, Notices, Message
  <2>2. toHost' \in Seq(Letters)
    BY <1>1, <1>16, <2>1 DEF Boot
  <2> QED
    BY <1>1, <1>16, <2>2, BoxKeepsNames DEF Boot, SessionTyped, WorkNamed
<1>17. ASSUME NEW what \in {"exec", "fs", "cancel"}, Taken(what), toBox' = Tail(toBox)
       PROVE  /\ toBox' \in Seq(Letters)
              /\ Head(toBox).id \in Nat /\ Head(toBox).of \in Request
              /\ id[Head(toBox).of] = Head(toBox).id
  <2>1. Head(toBox) \in Letters /\ Head(toBox).what = what
    BY <1>1, <1>17, LettersTaken DEF Taken
  <2>2. Head(toBox) \notin Notices
    BY <1>17, <2>1 DEF Notices
  <2> QED
    BY <1>1, <1>17, <2>1, <2>2, LettersTaken DEF Taken, Letters, Addressed
<1>18. ASSUME Launch PROVE SessionInv'
  <2> DEFINE m == Head(toBox)
  <2>1. toBox' \in Seq(Letters) /\ m.id \in Nat /\ m.of \in Request /\ id[m.of] = m.id
    BY <1>17, <1>18 DEF Launch
  <2>2. running' = [running EXCEPT ![m.id] = [of |-> m.of, at |-> "runs"]]
    BY <1>18 DEF Launch
  <2>3. [of |-> m.of, at |-> "runs"] \in Processes
    BY <2>1 DEF Processes
  <2>4. running' \in [Id -> Processes]
    BY <1>1, <2>2, <2>3 DEF SessionTyped
  <2>5. ASSUME NEW i \in Id, running'[i].at # "idle"
        PROVE  running'[i].of \in Request /\ id[running'[i].of] = i
    BY <1>1, <2>1, <2>2, <2>5 DEF SessionTyped, WorkNamed
  <2> QED
    BY <1>1, <1>18, <2>1, <2>4, <2>5, BoxKeepsNames DEF Launch, SessionTyped, WorkNamed
<1>19. ASSUME LaunchFails PROVE SessionInv'
  <2> DEFINE m == Head(toBox)
  <2>1. toBox' \in Seq(Letters) /\ m.id \in Nat /\ m.of \in Request /\ id[m.of] = m.id
    BY <1>17, <1>19 DEF LaunchFails
  <2>2. Message("error", m.id, m.of) \in Letters
    BY <2>1, LetterOf
  <2>3. toHost' \in Seq(Letters)
    BY <1>1, <1>19, <2>2 DEF LaunchFails, Write
  <2> QED
    BY <1>1, <1>19, <2>1, <2>3, BoxKeepsNames DEF LaunchFails, inside, SessionTyped, WorkNamed
<1>20. ASSUME TakeFile PROVE SessionInv'
  <2> DEFINE m == Head(toBox)
  <2>1. toBox' \in Seq(Letters) /\ m.id \in Nat /\ m.of \in Request /\ id[m.of] = m.id
    BY <1>17, <1>20 DEF TakeFile
  <2>2. files' = files \cup {[of |-> m.of, id |-> m.id]}
    BY <1>20 DEF TakeFile
  <2>3. files' \subseteq [of : Request, id : Nat] /\ \A f \in files' : id[f.of] = f.id
    BY <1>1, <2>1, <2>2 DEF SessionTyped, WorkNamed
  <2> QED
    BY <1>1, <1>20, <2>1, <2>3, BoxKeepsNames DEF TakeFile, SessionTyped, WorkNamed
<1>21. ASSUME NEW f \in files, FileDone(f) PROVE SessionInv'
  <2>1. f.of \in Request /\ f.id \in Nat /\ id[f.of] = f.id
    BY <1>1 DEF SessionTyped, WorkNamed
  <2>2. PICK what \in {"result", "error"} : Write(Message(what, f.id, f.of))
    BY <1>21 DEF FileDone
  <2>3. Message(what, f.id, f.of) \in Letters
    BY <2>1, LetterOf
  <2>4. toHost' \in Seq(Letters)
    BY <1>1, <2>2, <2>3 DEF Write
  <2> QED
    BY <1>1, <1>21, <2>4, BoxKeepsNames DEF FileDone, SessionTyped, WorkNamed
<1>22. ASSUME TakeCancel PROVE SessionInv'
  <2>1. toBox' \in Seq(Letters)
    BY <1>17, <1>22 DEF TakeCancel
  <2>2. running' = [running EXCEPT ![Head(toBox).id] = Canceled(@)]
    BY <1>22 DEF TakeCancel
  <2>3. \A p \in Processes : Canceled(p) \in Processes /\ Canceled(p).of = p.of
                             /\ (Canceled(p).at # "idle" => p.at # "idle")
    BY DEF Processes, Canceled
  <2>4. running' \in [Id -> Processes]
    BY <1>1, <2>2, <2>3 DEF SessionTyped
  <2>5. ASSUME NEW i \in Id, running'[i].at # "idle"
        PROVE  running'[i].of \in Request /\ id[running'[i].of] = i
    BY <1>1, <2>2, <2>3, <2>5 DEF SessionTyped, WorkNamed
  <2> QED
    BY <1>1, <1>22, <2>1, <2>4, <2>5, BoxKeepsNames DEF TakeCancel, SessionTyped, WorkNamed
<1>23. ASSUME NEW i \in Id, Ends(i) PROVE SessionInv'
  <2>1. /\ running' = [running EXCEPT ![i] = [of |-> running[i].of, at |-> "ended"]]
        /\ running[i] \in Processes /\ running[i].at # "idle"
    BY <1>1, <1>23 DEF Ends, SessionTyped
  <2>2. running' \in [Id -> Processes]
    BY <1>1, <2>1 DEF SessionTyped, Processes
  <2>3. ASSUME NEW j \in Id, running'[j].at # "idle"
        PROVE  running'[j].of \in Request /\ id[running'[j].of] = j
    BY <1>1, <2>1, <2>3 DEF SessionTyped, WorkNamed
  <2> QED
    BY <1>1, <1>23, <2>2, <2>3, BoxKeepsNames DEF Ends, SessionTyped, WorkNamed
<1>24. ASSUME NEW i \in Id, Finalize(i) PROVE SessionInv'
  <2>1. i \in Nat /\ running[i].of \in Request /\ id[running[i].of] = i
    BY <1>1, <1>24 DEF Finalize, WorkNamed, Id
  <2>2. Message("result", i, running[i].of) \in Letters
    BY <2>1, LetterOf
  <2>3. toHost' \in Seq(Letters)
    BY <1>1, <1>24, <2>2 DEF Finalize, Write
  <2>4. running' = [running EXCEPT ![i] = Idle] /\ Idle \in Processes /\ Idle.at = "idle"
    BY <1>24 DEF Finalize, Idle, Processes
  <2>5. running' \in [Id -> Processes]
    BY <1>1, <2>4 DEF SessionTyped
  <2>6. ASSUME NEW j \in Id, running'[j].at # "idle"
        PROVE  running'[j].of \in Request /\ id[running'[j].of] = j
    BY <1>1, <2>4, <2>6 DEF SessionTyped, WorkNamed
  <2> QED
    BY <1>1, <1>24, <2>3, <2>5, <2>6, BoxKeepsNames DEF Finalize, SessionTyped, WorkNamed
<1>25. ASSUME Shutdown PROVE SessionInv'
  <2>1. running' = [i \in Id |-> Idle] /\ files' = {}
    BY <1>25 DEF Shutdown
  <2>2. running' \in [Id -> Processes] /\ \A i \in Id : running'[i].at = "idle"
    BY <2>1 DEF Processes, Idle
  <2> QED
    BY <1>1, <1>25, <2>1, <2>2, BoxKeepsNames DEF Shutdown
<1>26. ASSUME Leaves PROVE SessionInv'
  BY <1>1, <1>26, BoxKeepsNames DEF Leaves, SessionTyped, WorkNamed
<1>27. ASSUME Garble PROVE SessionInv'
  <2>1. Message("garbage", NoId, "nobody") \in Letters
    BY DEF Letters, Notices, Message
  <2>2. toHost' \in Seq(Letters)
    BY <1>1, <1>27, <2>1 DEF Garble
  <2> QED
    BY <1>1, <1>27, <2>2, BoxKeepsNames DEF Garble, SessionTyped, WorkNamed
<1> QED
  BY <1>3, <1>4, <1>5, <1>6, <1>7, <1>8, <1>9, <1>10, <1>11, <1>12, <1>13, <1>14, <1>15,
     <1>16, <1>18, <1>19, <1>20, <1>21, <1>22, <1>23, <1>24, <1>25, <1>26, <1>27
  DEF SessionNext

(* An answer resolves the request whose id it carries, and no other has it.  *)
LEMMA StepOwnAnswer ==
  ASSUME SessionInv, [SessionNext]_sessionVars, NEW r \in Request,
         request[r] = "pending", request'[r] = "resolved"
  PROVE  Head(toHost).of = r
<1>1. request \in [Request -> {"idle", "pending", "resolved", "rejected"}]
  BY DEF SessionInv, SessionTyped
<1>2. ReceiveAnswer
  BY <1>1 DEF SessionNext, sessionVars, host, inside, Refused, Issue, Signal, Backstop, Settles,
     StartTimeout, ReceiveReady, ReceiveGarbage, SeeExit, Close, CloseReturns, CloseByForce,
     Boot, Launch, LaunchFails, TakeFile, FileDone, TakeCancel, Ends, Finalize, Shutdown, Leaves,
     Die, Garble
<1>3. r \in Pending /\ id[r] = Head(toHost).id
  BY <1>1, <1>2 DEF ReceiveAnswer, Settles, Answered
<1>4. Head(toHost) \in Letters /\ Head(toHost).what \in {"result", "error"}
  BY <1>2, LettersTaken DEF ReceiveAnswer, SessionInv
<1>5. Head(toHost) \in Addressed /\ id[Head(toHost).of] = Head(toHost).id
  BY <1>4 DEF Letters, Notices
<1>6. Head(toHost).of \in Request
  BY <1>5 DEF Addressed
<1>7. id[r] # NoId
  BY <1>3 DEF Pending, SessionInv, IdsUnique
<1> QED
  BY <1>3, <1>5, <1>6, <1>7 DEF SessionInv, IdsUnique

(* For any number of requests: a request is resolved with the answer to      *)
(* itself, whatever was answered, aborted, garbled or given up before.       *)
THEOREM AnswersAreOwn == SessionSpec => OwnAnswer
<1>1. SessionSpec => []SessionInv
  BY SessionInitInv, SessionNextInv, PTL DEF SessionSpec
<1>2. SessionInv /\ [SessionNext]_sessionVars =>
        [\A r \in Request :
           (request[r] = "pending" /\ request'[r] = "resolved") => Head(toHost).of = r]_sessionVars
  BY StepOwnAnswer
<1> QED
  BY <1>1, <1>2, PTL DEF SessionSpec, OwnAnswer

LEMMA ForgottenStep ==
  SessionTyped /\ NobodyForgotten /\ [SessionNext]_sessionVars => NobodyForgotten'
<1> SUFFICES ASSUME SessionTyped, NobodyForgotten, [SessionNext]_sessionVars PROVE NobodyForgotten'
  OBVIOUS
<1>1. request \in [Request -> {"idle", "pending", "resolved", "rejected"}]
  BY DEF SessionTyped
<1>2. ASSUME NEW S, NEW how \in {"resolved", "rejected"}, Settles(S, how)
      PROVE  Pending' \subseteq Pending \ S
  BY <1>1, <1>2 DEF Settles, Pending
<1> USE DEF NobodyForgotten
<1>3. ASSUME UNCHANGED <<request, shut, exitSeen, late>> PROVE NobodyForgotten'
  BY <1>3 DEF Pending
<1>4. ASSUME NEW r \in Request, Refused(r) PROVE NobodyForgotten'
  <2>1. Pending' \subseteq Pending
    BY <1>1, <1>4 DEF Refused, Pending
  <2> QED
    BY <1>4, <2>1 DEF Refused
<1>5. ASSUME NEW r \in Request, Issue(r) PROVE NobodyForgotten'
  <2>1. Pending' \subseteq Pending \cup {r} /\ ~shut'
    BY <1>1, <1>5 DEF Issue, Pending
  <2> QED
    BY <1>5, <2>1 DEF Issue
<1>6. ASSUME NEW r \in Request, Backstop(r) PROVE NobodyForgotten'
  <2>1. Pending' \subseteq Pending
    BY <1>2, <1>6 DEF Backstop
  <2> QED
    BY <1>6, <2>1 DEF Backstop
<1>7. ASSUME ReceiveAnswer PROVE NobodyForgotten'
  <2>1. Pending' \subseteq Pending
    BY <1>2, <1>7 DEF ReceiveAnswer
  <2> QED
    BY <1>7, <2>1 DEF ReceiveAnswer
<1>8. ASSUME ReceiveGarbage PROVE NobodyForgotten'
  <2>1. Pending' \subseteq Pending
    BY <1>2, <1>8 DEF ReceiveGarbage
  <2> QED
    BY <1>8, <2>1 DEF ReceiveGarbage
<1>9. ASSUME SeeExit PROVE NobodyForgotten'
  <2>1. CASE shut
    BY <1>9, <2>1 DEF SeeExit, Pending
  <2>2. CASE ~shut
    <3>1. Pending' = {}
      BY <1>2, <1>9, <2>2 DEF SeeExit, FailAll
    <3> QED
      BY <3>1
  <2> QED
    BY <2>1, <2>2
<1>10. ASSUME Close PROVE NobodyForgotten'
  <2>1. Pending' = {}
    BY <1>2, <1>10 DEF Close, FailAll
  <2> QED
    BY <2>1
<1>11. ASSUME NEW r \in Request, Signal(r) PROVE NobodyForgotten'
  BY <1>3, <1>11 DEF Signal
<1>12. ASSUME NEW f \in files, FileDone(f) PROVE NobodyForgotten'
  BY <1>3, <1>12 DEF FileDone, host
<1>13. ASSUME NEW i \in Id, Ends(i) \/ Finalize(i) PROVE NobodyForgotten'
  BY <1>3, <1>13 DEF Ends, Finalize, host
<1>14. ASSUME \/ StartTimeout \/ ReceiveReady \/ CloseReturns \/ CloseByForce \/ UNCHANGED sessionVars
       PROVE  NobodyForgotten'
  BY <1>3, <1>14 DEF StartTimeout, ReceiveReady, CloseReturns, CloseByForce, sessionVars
<1>15. ASSUME \/ Boot \/ Launch \/ LaunchFails \/ TakeFile \/ TakeCancel
              \/ Shutdown \/ Leaves \/ Die \/ Garble
       PROVE  NobodyForgotten'
  <2>1. UNCHANGED host
    BY <1>15 DEF Boot, Launch, LaunchFails, TakeFile, TakeCancel, Shutdown, Leaves, Die, Garble
  <2> QED
    BY <1>3, <2>1 DEF host
<1> QED
  BY <1>4, <1>5, <1>6, <1>7, <1>8, <1>9, <1>10, <1>11, <1>12, <1>13, <1>14, <1>15
  DEF SessionNext

(* For any number of requests: a closed session has answered everyone, and   *)
(* an exit answers every request that was sent before it was seen.           *)
THEOREM EveryoneIsAnswered == SessionSpec => []NobodyForgotten
<1>1. SessionSpec => []SessionInv
  BY SessionInitInv, SessionNextInv, PTL DEF SessionSpec
<1>2. SessionInit => NobodyForgotten
  BY DEF SessionInit, NobodyForgotten
<1>3. SessionInv /\ NobodyForgotten /\ [SessionNext]_sessionVars => NobodyForgotten'
  BY ForgottenStep DEF SessionInv
<1> QED
  BY <1>1, <1>2, <1>3, PTL DEF SessionSpec
-----------------------------------------------------------------------------
(* The types of the cache and of a session.                                  *)

(* What the cache still knows to be stale is cached, and whatever a teardown *)
(* waits for will be closed.                                                 *)
BackendTyped ==
  /\ stale \subseteq Cached
  /\ unwanted \subseteq Box /\ reaped \subseteq unwanted
  /\ backend \in {"open", "closing", "closed"}
  /\ reloads \in 0..MaxReloads

LEMMA StartForTyped ==
  ASSUME BackendInv, BackendTyped, NEW k \in Key, NEW old \in SUBSET Cached, StartFor(k, old)
  PROVE  stale' \subseteq Cached' /\ unwanted' \subseteq Box /\ unwanted \subseteq unwanted'
<1>1. PICK b \in Fresh : sessions' = [sessions EXCEPT ![k] = b]
  BY DEF StartFor
<1>2. /\ unwanted' = unwanted \cup ({sessions[k]} \ {NoBox})
      /\ stale' = old \ {sessions[k]}
  BY DEF StartFor
<1>3. sessions \in [Key -> Box \cup {NoBox}]
  BY DEF BackendInv
<1>4. ASSUME NEW x \in stale'
      PROVE  x \in Cached'
  <2>1. x # sessions[k] /\ x # NoBox
    BY <1>2, <1>4 DEF Cached
  <2>2. PICK j \in Key : sessions[j] = x
    BY <1>2, <1>4 DEF Cached
  <2>3. sessions'[j] = x
    BY <1>1, <1>3, <2>1, <2>2
  <2> QED BY <2>1, <2>3 DEF Cached
<1> QED BY <1>2, <1>3, <1>4 DEF BackendTyped

LEMMA StartFailsTyped ==
  ASSUME BackendTyped, NEW b \in Box, StartFails(b)
  PROVE  stale' \subseteq Cached'
<1>1. /\ sessions' = [k \in Key |-> IF sessions[k] = b THEN NoBox ELSE sessions[k]]
      /\ stale' = stale \ {b}
  BY DEF StartFails, Forget
<1>2. ASSUME NEW x \in stale'
      PROVE  x \in Cached'
  <2>1. x # b /\ x # NoBox
    BY <1>1, <1>2 DEF Cached, BackendTyped
  <2>2. PICK j \in Key : sessions[j] = x
    BY <1>1, <1>2 DEF Cached, BackendTyped
  <2>3. sessions'[j] = x
    BY <1>1, <2>1, <2>2
  <2> QED BY <2>1, <2>3 DEF Cached
<1> QED BY <1>2

LEMMA BackendTypesKept ==
  ASSUME BackendInv, BackendTyped, [BackendNext]_backendVars
  PROVE  BackendTyped'
<1>1. Cached \subseteq Box /\ (UNCHANGED sessions => Cached' = Cached)
  BY DEF Cached, BackendInv
<1>2. MaxReloads \in Nat
  BY BackendAssumption
<1>3. ASSUME NEW k \in Key, Command(k)
      PROVE  BackendTyped'
  <2>1. StartFor(k, stale) /\ UNCHANGED <<reaped, backend, reloads>> /\ stale \in SUBSET Cached
    BY <1>3 DEF Command, BackendTyped
  <2> QED BY <2>1, StartForTyped DEF BackendTyped
<1>4. ASSUME NEW k \in Key, Reload(k)
      PROVE  BackendTyped'
  <2>1. StartFor(k, Cached) /\ UNCHANGED <<reaped, backend>> /\ Cached \in SUBSET Cached
    BY <1>4 DEF Reload
  <2>2. reloads' \in 0..MaxReloads
    BY <1>2, <1>4 DEF Reload, BackendTyped
  <2> QED BY <2>1, <2>2, StartForTyped DEF BackendTyped
<1>5. ASSUME NEW b \in Box, PreparationFails(b) \/ ExitsAtOnce(b) \/ StartTimesOut(b)
      PROVE  BackendTyped'
  <2>1. StartFails(b) /\ UNCHANGED <<unwanted, reaped, backend, reloads>>
    BY <1>5 DEF PreparationFails, ExitsAtOnce, StartTimesOut
  <2> QED BY <2>1, StartFailsTyped DEF BackendTyped
<1>6. CASE UNCHANGED backendVars
           \/ \E b \in Box : Launched(b) \/ IsReady(b) \/ Dies(b) \/ Reaps(b)
  <2>1. UNCHANGED <<sessions, stale, unwanted, reaped, backend, reloads>>
    BY <1>6 DEF backendVars, Launched, IsReady, Dies, Reaps
  <2> QED BY <1>1, <2>1 DEF BackendTyped
<1>7. CASE SessionShutdown \/ CloseAll
  <2>1. /\ stale' = {} /\ reaped' = Cached /\ unwanted' = unwanted \cup Cached
        /\ backend' \in {backend, "closing"} /\ UNCHANGED reloads
    BY <1>7 DEF SessionShutdown, CloseAll, TearDown
  <2> QED BY <1>1, <2>1 DEF BackendTyped
<1>8. CASE TornDown
  <2>1. /\ UNCHANGED <<sessions, stale, unwanted, reloads>>
        /\ reaped' = {} /\ backend' \in {backend, "closed"}
    BY <1>8 DEF TornDown
  <2> QED BY <1>1, <2>1 DEF BackendTyped
<1> QED BY <1>3, <1>4, <1>5, <1>6, <1>7, <1>8 DEF BackendNext

LEMMA BackendIsTyped ==
  ASSUME BackendInv, BackendTyped
  PROVE  BackendTypeOK
BY DEF BackendInv, BackendTyped, BackendTypeOK

(* Requests are numbered without a gap, so that there is a number for each;  *)
(* only a request that is under way has a backstop.                          *)
Sent == {r \in Request : id[r] # NoId}

Numbered == id \in [Request -> Id \cup {NoId}] /\ nextId = Cardinality(Sent) + 1

ClientTyped ==
  /\ signalled \subseteq Request /\ backstop \subseteq Pending /\ late \subseteq Request
  /\ ready \in {"awaited", "ready", "failed"}
  /\ shut \in BOOLEAN /\ exitSeen \in BOOLEAN
  /\ stopping \in {"no", "waiting", "done"}
  /\ box \in {"booting", "up", "leaving", "gone"}
  /\ garbage \in 0..MaxGarbage

LEMMA NumbersKept ==
  ASSUME SessionInv, Numbered, [SessionNext]_sessionVars
  PROVE  Numbered'
<1>1. CASE UNCHANGED <<id, nextId>>
  BY <1>1 DEF Numbered, Sent
<1>2. ASSUME NEW r \in Request, Issue(r)
      PROVE  Numbered'
  <2>1. /\ id' = [id EXCEPT ![r] = nextId] /\ nextId' = nextId + 1 /\ id[r] = NoId
    BY <1>2 DEF Issue, NewId, SessionInv, IdsUnique
  <2>2. IsFiniteSet(Request) /\ Sent \in SUBSET Request /\ r \notin Sent
    BY <2>1, SessionAssumption DEF Sent
  <2>3. /\ IsFiniteSet(Sent) /\ Cardinality(Sent) \in Nat /\ Cardinality(Request) \in Nat
        /\ Cardinality(Sent) <= Cardinality(Request)
        /\ Cardinality(Sent) # Cardinality(Request)
    BY <2>2, FS_Subset, FS_CardinalityType
  <2>4. nextId \in Id /\ nextId # NoId
    BY <2>3, SessionAssumption DEF Numbered, Id
  <2>5. Sent' = Sent \cup {r}
    BY <2>1, <2>4 DEF Numbered, Sent
  <2>6. Cardinality(Sent') = Cardinality(Sent) + 1
    BY <2>2, <2>3, <2>5, FS_AddElement
  <2>7. id' \in [Request -> Id \cup {NoId}]
    BY <2>1, <2>4 DEF Numbered
  <2> QED BY <2>1, <2>6, <2>7 DEF Numbered, Id
<1>3. CASE ~(\E r \in Request : Issue(r))
  <2>1. UNCHANGED <<id, nextId>>
    BY <1>3 DEF SessionNext, sessionVars, host, Refused, Signal, Backstop, StartTimeout,
       ReceiveReady, ReceiveAnswer, ReceiveGarbage, SeeExit, Close, CloseReturns, CloseByForce,
       Boot, Launch, LaunchFails, TakeFile, FileDone, TakeCancel, Ends, Finalize, Shutdown,
       Leaves, Die, Garble
  <2> QED BY <1>1, <2>1
<1> QED BY <1>2, <1>3

(* Who is answered has no backstop any more.                                 *)
LEMMA SettlesBackstop ==
  ASSUME SessionInv, ClientTyped, NEW S, NEW how, Settles(S, how)
  PROVE  backstop' \subseteq Pending'
BY DEF SessionInv, SessionTyped, ClientTyped, Settles, Pending

LEMMA ClientTypesKept ==
  ASSUME SessionInv, ClientTyped, [SessionNext]_sessionVars
  PROVE  ClientTyped'
<1>1. request \in [Request -> {"idle", "pending", "resolved", "rejected"}]
  BY DEF SessionInv, SessionTyped
<1>2. ASSUME NEW r \in Request, Refused(r)
      PROVE  ClientTyped'
  BY <1>1, <1>2 DEF Refused, inside, ClientTyped, Pending
<1>3. ASSUME NEW r \in Request, Issue(r)
      PROVE  ClientTyped'
  BY <1>1, <1>3 DEF Issue, inside, ClientTyped, Pending
<1>4. ASSUME NEW r \in Request, Signal(r)
      PROVE  ClientTyped'
  BY <1>1, <1>4 DEF Signal, inside, ClientTyped, Pending
<1>5. ASSUME NEW S, NEW how, Settles(S, how),
             UNCHANGED <<signalled, exitSeen, late, inside>>,
             ready' \in {ready, "failed"}, shut' \in {shut, TRUE}, stopping' \in {stopping, "waiting"}
      PROVE  ClientTyped'
  BY <1>5, SettlesBackstop DEF ClientTyped, inside
<1>6. ASSUME NEW r \in Request, Backstop(r)
      PROVE  ClientTyped'
  BY <1>5, <1>6 DEF Backstop
<1>7. CASE ReceiveAnswer
  BY <1>5, <1>7 DEF ReceiveAnswer
<1>8. CASE ReceiveGarbage \/ Close
  BY <1>5, <1>8 DEF ReceiveGarbage, Close
<1>9. CASE SeeExit
  <2>1. /\ UNCHANGED <<signalled, shut, stopping, late, inside>>
        /\ exitSeen' = TRUE /\ ready' \in {ready, "failed"}
        /\ UNCHANGED <<request, backstop>> \/ Settles(FailAll, "rejected")
    BY <1>9 DEF SeeExit
  <2>2. backstop' \subseteq Pending'
    BY <2>1, SettlesBackstop DEF ClientTyped, Pending
  <2> QED BY <2>1, <2>2 DEF ClientTyped, inside
<1>10. CASE StartTimeout \/ ReceiveReady \/ CloseReturns \/ CloseByForce \/ UNCHANGED sessionVars
  <2>1. /\ UNCHANGED <<request, signalled, backstop, exitSeen, shut, late, garbage>>
        /\ ready' \in {ready, "failed", "ready"} /\ stopping' \in {stopping, "done"}
        /\ box' \in {box, "gone"}
    BY <1>10 DEF StartTimeout, ReceiveReady, CloseReturns, CloseByForce, sessionVars, inside
  <2> QED BY <2>1 DEF ClientTyped, Pending
<1>11. CASE \/ Boot \/ Launch \/ LaunchFails \/ TakeFile \/ TakeCancel
            \/ Shutdown \/ Leaves \/ Die \/ Garble
            \/ \E f \in files : FileDone(f)
            \/ \E i \in Id : Ends(i) \/ Finalize(i)
  <2>1. /\ UNCHANGED host /\ box' \in {box, "up", "leaving", "gone"}
        /\ UNCHANGED garbage \/ (garbage < MaxGarbage /\ garbage' = garbage + 1)
    BY <1>11 DEF Boot, Launch, LaunchFails, TakeFile, TakeCancel, Shutdown, Leaves, Die, Garble,
       FileDone, Ends, Finalize, inside
  <2>2. garbage' \in 0..MaxGarbage
    BY <2>1, SessionAssumption DEF ClientTyped
  <2> QED BY <2>1, <2>2 DEF ClientTyped, host, Pending
<1> QED
  BY <1>2, <1>3, <1>4, <1>6, <1>7, <1>8, <1>9, <1>10, <1>11 DEF SessionNext

LEMMA SessionIsTyped ==
  ASSUME SessionInv, Numbered, ClientTyped
  PROVE  SessionTypeOK
<1>1. Cardinality(Request) \in Nat /\ NoId \notin Nat /\ Id \subseteq Nat
  BY SessionAssumption, FS_CardinalityType DEF Id
<1>2. nextId \in 1..Cardinality(Request) + 1
  <2>1. Sent \in SUBSET Request /\ IsFiniteSet(Request)
    BY SessionAssumption DEF Sent
  <2>2. Cardinality(Sent) \in Nat /\ Cardinality(Sent) <= Cardinality(Request)
    BY <2>1, FS_Subset, FS_CardinalityType
  <2> QED BY <1>1, <2>2 DEF Numbered
<1>3. ASSUME NEW m \in Letters
      PROVE  m \in Messages
  <2>1. CASE m \in Notices
    BY <2>1 DEF Notices, Messages
  <2>2. CASE m \in Addressed /\ id[m.of] = m.id
    <3>1. m.of \in Request /\ m.id \in Nat
      BY <2>2 DEF Addressed
    <3>2. m.id \in Id
      BY <1>1, <2>2, <3>1 DEF Numbered
    <3> QED BY <2>2, <3>2 DEF Addressed, Messages
  <2> QED BY <2>1, <2>2 DEF Letters
<1>4. toBox \in Seq(Messages) /\ toHost \in Seq(Messages)
  <2>1. Letters \subseteq Messages
    BY <1>3
  <2> QED BY <2>1, SeqMonotonic DEF SessionInv
<1>5. files \subseteq [of : Request, id : Id]
  <2>1. ASSUME NEW f \in files
        PROVE  f \in [of : Request, id : Id]
    <3>1. f \in [of : Request, id : Nat] /\ id[f.of] = f.id
      BY DEF SessionInv, SessionTyped, WorkNamed
    <3>2. f.id \in Id
      BY <1>1, <3>1 DEF Numbered
    <3> QED BY <3>1, <3>2
  <2> QED BY <2>1
<1> QED
  BY <1>2, <1>4, <1>5 DEF SessionTypeOK, SessionInv, SessionTyped, Processes, Numbered, ClientTyped
-----------------------------------------------------------------------------
(* The services of one process.                                              *)

(* What holds of a service holds whether it is started or at rest.           *)
SessionHolds == SessionInv /\ Numbered /\ ClientTyped /\ NobodyForgotten
BackendHolds == BackendInv /\ BackendTyped
RetentionHolds == MailInv

ServicesInv == ScreenInv /\ SqliteInv /\ SessionHolds /\ BackendHolds /\ RetentionHolds

LEMMA ScreenRests ==
  ASSUME DialogRests
  PROVE  ScreenInv
<1>1. ASSUME NEW b \in Bus
      PROVE  Counted(b)
  <2>1. Queue(b) = {}
    BY DEF DialogRests, Queue, InLine
  <2> QED BY <2>1, FS_EmptySet DEF DialogRests, Counted
<1>2. DialogInv
  BY DEF DialogRests, DialogInv, DialogTypeOK, Chained, Position, InLine, OnScreen
<1>3. (\A d \in Dialog : Announced(d)) /\ BelievedRightly
  BY DEF DialogRests, Announced, Shown, BelievedRightly
<1> QED BY <1>1, <1>2, <1>3 DEF ScreenInv

(* A session without a request, before it starts or when it could not.       *)
LEMMA SessionStarts ==
  ASSUME SessionInit \/ SessionRests
  PROVE  SessionHolds
<1>1. /\ kind \in [Request -> {"exec", "fs"}]
      /\ request \in [Request -> {"idle", "rejected"}]
      /\ id = [r \in Request |-> NoId] /\ nextId = 1
      /\ signalled = {} /\ backstop = {} /\ late = {}
      /\ ready \in {"awaited", "failed"} /\ shut = FALSE /\ stopping = "no" /\ exitSeen \in BOOLEAN
      /\ toBox = <<>> /\ toHost = <<>>
      /\ box \in {"booting", "gone"} /\ running = [i \in Id |-> Idle]
      /\ files = {} /\ garbage = 0
  BY DEF SessionInit, SessionRests
<1>2. SessionInv
  <2>1. running \in [Id -> Processes]
    BY <1>1 DEF Processes, Idle
  <2>2. SessionTyped
    BY <1>1, <2>1 DEF SessionTyped
  <2>3. IdsUnique
    BY <1>1 DEF IdsUnique
  <2>4. WorkNamed
    BY <1>1 DEF WorkNamed, Idle
  <2>5. toBox \in Seq(Letters) /\ toHost \in Seq(Letters)
    BY <1>1
  <2> QED BY <2>2, <2>3, <2>4, <2>5 DEF SessionInv
<1>3. Numbered
  <2>1. Sent = {}
    BY <1>1 DEF Sent
  <2>2. Cardinality(Sent) = 0
    BY <2>1, FS_EmptySet
  <2> QED BY <1>1, <2>2 DEF Numbered
<1>4. ClientTyped
  <2>1. shut \in BOOLEAN /\ exitSeen \in BOOLEAN
    BY <1>1
  <2>2. /\ signalled \subseteq Request /\ backstop \subseteq Pending /\ late \subseteq Request
        /\ ready \in {"awaited", "ready", "failed"} /\ stopping \in {"no", "waiting", "done"}
        /\ box \in {"booting", "up", "leaving", "gone"} /\ garbage \in 0..MaxGarbage
    BY <1>1, SessionAssumption
  <2> QED BY <2>1, <2>2 DEF ClientTyped
<1>5. NobodyForgotten
  BY <1>1 DEF NobodyForgotten, Pending
<1> QED BY <1>2, <1>3, <1>4, <1>5 DEF SessionHolds

LEMMA SessionKept ==
  ASSUME SessionHolds, [SessionNext]_sessionVars
  PROVE  SessionHolds'
BY SessionNextInv, NumbersKept, ClientTypesKept, ForgottenStep DEF SessionHolds, SessionInv

LEMMA BackendStarts ==
  ASSUME BackendInit \/ BackendRests
  PROVE  BackendHolds
<1>1. /\ sessions = [k \in Key |-> NoBox] /\ stale = {}
      /\ keyOf = [b \in Box |-> NoKey]
      /\ start = [b \in Box |-> "unused"] /\ podman = [b \in Box |-> "none"]
      /\ unwanted = {} /\ reaped = {} /\ backend \in {"open", "closed"} /\ reloads = 0
  BY DEF BackendInit, BackendRests
<1>2. BackendInv
  BY <1>1 DEF BackendInv, NoneUnowned
<1>3. BackendTyped
  BY <1>1, BackendAssumption DEF BackendTyped
<1> QED BY <1>2, <1>3 DEF BackendHolds

LEMMA ServicesStart == Init => ServicesInv
<1> SUFFICES ASSUME Init
             PROVE  ServicesInv
  OBVIOUS
<1>1. ScreenInv
  BY ScreenInitInv, ScreenRests DEF Init
<1>2. SqliteInv
  <2>1. SqliteInit \/ SqliteRests
    BY DEF Init
  <2>2. Uncalled
    BY <2>1 DEF SqliteInit, SqliteRests, Uncalled
  <2> QED BY <2>2, UncalledInv
<1>3. SessionHolds
  BY SessionStarts DEF Init
<1>4. BackendHolds
  BY BackendStarts DEF Init
<1>5. RetentionHolds
  BY MailStarts DEF Init, RetentionHolds
<1> QED BY <1>1, <1>2, <1>3, <1>4, <1>5 DEF ServicesInv

(* A step is one of the service that is started, or leaves it alone.         *)
LEMMA StepOfEach ==
  ASSUME [Next]_vars
  PROVE  /\ [DialogNext]_dialogVars /\ [SqliteNext]_sqliteVars /\ [SessionNext]_sessionVars
         /\ [BackendNext]_backendVars /\ [RetentionNext]_retentionVars
<1>1. CASE Dialogs
  BY <1>1 DEF Dialogs
<1>2. CASE Sqlite
  BY <1>2 DEF Sqlite
<1>3. CASE Session
  BY <1>3 DEF Session
<1>4. CASE Backend
  BY <1>4 DEF Backend
<1>5. CASE Retention
  BY <1>5 DEF Retention
<1>6. CASE UNCHANGED vars
  BY <1>6 DEF vars
<1> QED BY <1>1, <1>2, <1>3, <1>4, <1>5, <1>6 DEF Next

LEMMA ServicesKept == ServicesInv /\ [Next]_vars => ServicesInv'
<1> SUFFICES ASSUME ServicesInv, [Next]_vars
             PROVE  ServicesInv'
  OBVIOUS
<1>1. ScreenInv'
  BY StepOfEach, ScreenNextInv DEF ServicesInv
<1>2. SqliteInv'
  BY StepOfEach, SqliteInvKept DEF ServicesInv
<1>3. SessionHolds'
  BY StepOfEach, SessionKept DEF ServicesInv
<1>4. BackendHolds'
  BY StepOfEach, BackendNextInv, BackendTypesKept DEF ServicesInv, BackendHolds
<1>5. RetentionHolds'
  BY StepOfEach, MailKept DEF ServicesInv, RetentionHolds
<1> QED BY <1>1, <1>2, <1>3, <1>4, <1>5 DEF ServicesInv

(* For any constants: whichever service is started, the variables of all     *)
(* have their types; in a session there is a number for every request, and   *)
(* the cache holds every container that a rebuild may yet replace.           *)
THEOREM ServicesTyped == Spec => []TypesOK
<1>1. Spec => []ServicesInv
  BY ServicesStart, ServicesKept, PTL DEF Spec
<1>2. ServicesInv => TypesOK
  BY BackendIsTyped, SessionIsTyped, RetentionTyped
     DEF ServicesInv, ScreenInv, DialogInv, SqliteInv, SessionHolds, BackendHolds, RetentionHolds,
         MailInv, TypesOK
<1> QED BY <1>1, <1>2, PTL

(* What the services promise, they promise together: one dialog at a time,   *)
(* announced rightly; only committed writes in the file; an answer for every *)
(* request, and only to itself; an owner for every container; a place in the *)
(* order for every result that is kept.                                      *)
THEOREM ServicesSafe ==
  Spec => /\ [](/\ OneOnScreen /\ ScreenAnnounced /\ CommittedExactly /\ NobodyForgotten
                /\ NoneUnowned /\ Accounted)
          /\ OwnAnswer
<1>1. Spec => []ServicesInv
  BY ServicesStart, ServicesKept, PTL DEF Spec
<1>2. ServicesInv => /\ OneOnScreen /\ ScreenAnnounced /\ CommittedExactly /\ NobodyForgotten
                     /\ NoneUnowned /\ Accounted
  BY InvOneOnScreen, InvScreenAnnounced, OnlyCommitted
     DEF ServicesInv, ScreenInv, SessionHolds, BackendHolds, BackendInv, RetentionHolds, MailInv,
         RegistryInv
<1>3. ServicesInv /\ [Next]_vars =>
        [\A r \in Request :
           (request[r] = "pending" /\ request'[r] = "resolved") => Head(toHost).of = r]_sessionVars
  BY StepOfEach, StepOwnAnswer DEF ServicesInv, SessionHolds
<1> QED BY <1>1, <1>2, <1>3, PTL DEF Spec, OwnAnswer

(* In a process with no more runs than the mailbox holds updates, the parent *)
(* is told of them all.                                                      *)
THEOREM ServicesTell ==
  ASSUME IsFiniteSet(AgentRun), Cardinality(AgentRun) <= MaxUpdates
  PROVE  Spec => []Told
<1>1. Spec => []ServicesInv
  BY ServicesStart, ServicesKept, PTL DEF Spec
<1>2. Init => Told
  BY MailStarts DEF Init
<1>3. ServicesInv /\ Told /\ [Next]_vars => Told'
  BY StepOfEach, ToldKept DEF ServicesInv, RetentionHolds, Room, FewRuns, ToldInv
<1> QED BY <1>1, <1>2, <1>3, PTL DEF Spec
=============================================================================
