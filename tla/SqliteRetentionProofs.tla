------------------------ MODULE SqliteRetentionProofs ------------------------
(* Two services for any number of callers: the SQLite connection, whose file *)
(* holds exactly what was committed, and the registry of runs, in which      *)
(* every result that waits to be collected can be pruned, and whose mailbox  *)
(* tells the parent of every run that waits for it.                          *)
EXTENDS SqliteTransactions, RunRetention, SequenceTheorems, FiniteSetTheorems,
        WellFoundedInduction, TLAPS

(* A set of numbers with a member has a least one; everything below that     *)
(* needs an induction takes the least number for which it fails.             *)
LEMMA LeastNumber ==
  ASSUME NEW T \in SUBSET Nat, T # {}
  PROVE  \E n \in T : \A m \in T : n <= m
<1> DEFINE Before == {ss \in Nat \X Nat : ss[1] < ss[2]}
<1>1. IsWellFoundedOn(Before, Nat)
  BY NatLessThanWellFounded, Zenon DEF OpToRel
<1>2. PICK n \in T : \A m \in T : ~ (<<m, n>> \in Before)
  BY <1>1, WFMin, Zenon
<1>3. \A m \in Nat : m < n => <<m, n>> \in Before
  BY n \in Nat
<1> HIDE DEF Before
<1>4. \A m \in T : ~ (m < n)
  BY <1>2, <1>3
<1> QED BY <1>4

-----------------------------------------------------------------------------
(* The connection.                                                           *)

(* A transaction between its BEGIN and its COMMIT or ROLLBACK, the calls     *)
(* that wait for a view in their order, and the call that has its turn.      *)
Active(s) == scope[s] \in {"open", "returned", "thrown"}

Line(v) == IF v = Root THEN queue ELSE tail[v]

HasTurn(c) == Line(within[c]) # <<>> /\ Head(Line(within[c])) = c

(* A call stands in the line of its view, at one place, until it is answered;*)
(* only a transaction under way has calls in its line.                       *)
InLineOnce ==
  /\ \A v \in View : \A i \in 1..Len(Line(v)) :
       Line(v)[i] \in Call => within[Line(v)[i]] = v /\ result[Line(v)[i]] = "none"
  /\ \A v \in View : \A i, j \in 1..Len(Line(v)) :
       Line(v)[i] \in Call /\ Line(v)[i] = Line(v)[j] => i = j
  /\ \A s \in Scope : tail[s] # <<>> => Active(s)

(* What was not called has no answer, what is not over has none, and calls   *)
(* are made in a transaction only after its BEGIN.                           *)
AnswersInTime ==
  /\ \A c \in Call : within[c] = Outside => result[c] = "none" /\ (c \in Scope => scope[c] = Unused)
  /\ \A s \in Scope : scope[s] # "ended" => result[s] = "none"
  /\ \A c \in Call : within[c] \in Scope => Active(within[c]) \/ scope[within[c]] = "ended"

(* The snapshots of the connection are those of the transactions under way,  *)
(* each nested in the one before and at its turn there.                      *)
Nested ==
  /\ \A i \in 1..Len(saves) :
       /\ Active(saves[i].by) /\ HasTurn(saves[i].by)
       /\ within[saves[i].by] = IF i = 1 THEN Root ELSE saves[i - 1].by
  /\ \A i, j \in 1..Len(saves) : saves[i].by = saves[j].by => i = j
  /\ \A s \in Scope : Active(s) => \E i \in 1..Len(saves) : saves[i].by = s

(* The connection sees the writes that succeeded, in transactions that       *)
(* succeeded or are under way; a snapshot those of them that are not of its  *)
(* transaction; and the file those of no transaction under way.              *)
Seen(w) == \A c \in Around(w) : result[c] = "ok" \/ (c \in Scope /\ Active(c))

SeenExactly ==
  /\ conn = {w \in Stmt : Seen(w)}
  /\ \A i \in 1..Len(saves) : saves[i].seen = {w \in conn : saves[i].by \notin Around(w)}
  /\ db = IF saves = <<>> THEN conn ELSE saves[1].seen

SqliteInv == SqliteTypeOK /\ InLineOnce /\ AnswersInTime /\ Nested /\ SeenExactly

(* What surrounds a call if the views of the calls are those of p.           *)
Surrounding(p, c) ==
  {d \in Call : \A calls \in SUBSET Call :
     (c \in calls /\ \A e \in calls : p[e] \in Scope => p[e] \in calls) => d \in calls}

LEMMA SurroundingCall ==
  ASSUME NEW p, NEW c \in Call
  PROVE  /\ c \in Surrounding(p, c) /\ Surrounding(p, c) \in SUBSET Call
         /\ \A d \in Surrounding(p, c) : p[d] \in Scope => p[d] \in Surrounding(p, c)
         /\ \A calls \in SUBSET Call :
              (c \in calls /\ \A e \in calls : p[e] \in Scope => p[e] \in calls)
                => Surrounding(p, c) \subseteq calls
<1>1. Scope \subseteq Call
  BY DEF Call
<1> QED BY <1>1, Zenon DEF Surrounding

LEMMA AroundIs ==
  ASSUME NEW c
  PROVE  Around(c) = Surrounding(within, c) /\ Around(c)' = Surrounding(within', c)
BY Zenon DEF Around, Outwards, Surrounding

(* A call that is made changes what surrounds no other one.                  *)
LEMMA SurroundingKept ==
  ASSUME NEW p, NEW q, NEW x \in Call, NEW c \in Call, c # x,
         \A d \in Call : p[d] \in Scope => p[d] # x, \A d \in Call \ {x} : q[d] = p[d]
  PROVE  Surrounding(q, c) = Surrounding(p, c)
<1> DEFINE P == Surrounding(p, c)
           Q == Surrounding(q, c)
<1>1. /\ c \in P /\ P \in SUBSET Call
      /\ \A d \in P : p[d] \in Scope => p[d] \in P
      /\ \A calls \in SUBSET Call :
           (c \in calls /\ \A e \in calls : p[e] \in Scope => p[e] \in calls) => P \subseteq calls
  BY SurroundingCall, Zenon
<1>2. /\ c \in Q /\ Q \in SUBSET Call
      /\ \A d \in Q : q[d] \in Scope => q[d] \in Q
      /\ \A calls \in SUBSET Call :
           (c \in calls /\ \A e \in calls : q[e] \in Scope => q[e] \in calls) => Q \subseteq calls
  BY SurroundingCall, Zenon
<1> HIDE DEF P, Q
<1>3. x \notin P
  <2> DEFINE calls == Call \ {x}
  <2>1. calls \in SUBSET Call /\ c \in calls
    OBVIOUS
  <2>2. \A e \in calls : p[e] \in Scope => p[e] \in calls
    BY DEF Call
  <2>3. P \subseteq calls
    BY <1>1, <2>1, <2>2, Zenon
  <2> QED BY <2>3
<1>4. \A e \in P : q[e] = p[e]
  BY <1>1, <1>3
<1>5. Q \subseteq P
  <2>1. \A e \in P : q[e] \in Scope => q[e] \in P
    BY <1>1, <1>4
  <2> QED BY <1>1, <1>2, <2>1, Zenon
<1>6. P \subseteq Q
  <2>1. \A e \in Q : p[e] \in Scope => p[e] \in Q
    BY <1>2, <1>4, <1>5
  <2> QED BY <1>1, <1>2, <2>1, Zenon
<1> QED BY <1>5, <1>6 DEF P, Q

(* The same of the calls of the system.                                      *)
LEMMA AroundCall ==
  ASSUME NEW c \in Call
  PROVE  /\ c \in Around(c) /\ Around(c) \in SUBSET Call
         /\ \A d \in Around(c) : within[d] \in Scope => within[d] \in Around(c)
         /\ \A calls \in SUBSET Call :
              (c \in calls /\ \A e \in calls : within[e] \in Scope => within[e] \in calls)
                => Around(c) \subseteq calls
<1>1. /\ c \in Surrounding(within, c) /\ Surrounding(within, c) \in SUBSET Call
      /\ \A d \in Surrounding(within, c) :
           within[d] \in Scope => within[d] \in Surrounding(within, c)
      /\ \A calls \in SUBSET Call :
           (c \in calls /\ \A e \in calls : within[e] \in Scope => within[e] \in calls)
             => Surrounding(within, c) \subseteq calls
  BY SurroundingCall
<1>2. Around(c) = Surrounding(within, c)
  BY AroundIs
<1> QED BY <1>1, <1>2

LEMMA AroundStays ==
  ASSUME UNCHANGED within, NEW c
  PROVE  Around(c)' = Around(c)
BY AroundIs, Zenon

(* A statement, and a transaction in which nothing was called, surround only *)
(* themselves.                                                               *)
LEMMA NothingWithin ==
  ASSUME SqliteInv, NEW x \in Call, NEW c \in Call, c # x,
         x \in Scope => ~Active(x) /\ scope[x] # "ended"
  PROVE  x \notin Around(c)
<1> DEFINE calls == Call \ {x}
<1>1. \A d \in Call : within[d] \in Scope => within[d] # x
  BY DEF SqliteInv, AnswersInTime
<1>2. calls \in SUBSET Call /\ c \in calls
      /\ \A e \in calls : within[e] \in Scope => within[e] \in calls
  BY <1>1 DEF Call
<1>3. Around(c) \subseteq calls
  BY <1>2, AroundCall, Zenon
<1> QED BY <1>3

LEMMA SavesTyped ==
  ASSUME SqliteTypeOK
  PROVE  /\ Len(saves) \in Nat
         /\ \A i \in 1..Len(saves) : saves[i].by \in Scope /\ saves[i].seen \in SUBSET Stmt
<1>1. saves \in Seq([by : Scope, seen : SUBSET Stmt])
  BY DEF SqliteTypeOK
<1>2. \A i \in 1..Len(saves) : saves[i] \in [by : Scope, seen : SUBSET Stmt]
  BY <1>1, ElementOfSeq, Zenon
<1> QED BY <1>1, <1>2

(* What is within a transaction under way is within all those around it.     *)
LEMMA WithinAll ==
  ASSUME SqliteInv, NEW c \in Call, NEW k \in 1..Len(saves), saves[k].by \in Around(c),
         NEW i \in 1..k
  PROVE  saves[i].by \in Around(c)
<1> SUFFICES ASSUME saves[i].by \notin Around(c)
             PROVE  FALSE
  OBVIOUS
<1>1. Len(saves) \in Nat
  BY DEF SqliteInv, SqliteTypeOK
<1> DEFINE T == {m \in Nat : m < k /\ saves[k - m].by \notin Around(c)}
<1>2. k - i \in T
  BY <1>1
<1>3. PICK m \in T : \A n \in T : m <= n
  BY <1>2, LeastNumber
<1>4. m # 0
  BY <1>1
<1>5. m - 1 \in Nat /\ m - 1 < k /\ ~ (m <= m - 1)
  BY <1>3, <1>4
<1>6. saves[k - (m - 1)].by \in Around(c)
  BY <1>3, <1>5
<1>7. k - (m - 1) \in 1..Len(saves) /\ k - (m - 1) # 1 /\ k - (m - 1) - 1 = k - m
      /\ k - m \in 1..Len(saves)
  BY <1>1, <1>3, <1>4
<1>8. within[saves[k - (m - 1)].by] = saves[k - m].by /\ saves[k - m].by \in Scope
  <2>1. \A j \in 1..Len(saves) : j # 1 => within[saves[j].by] = saves[j - 1].by
    BY DEF SqliteInv, Nested
  <2>2. \A j \in 1..Len(saves) : saves[j].by \in Scope
    BY SavesTyped DEF SqliteInv
  <2> QED BY <1>7, <2>1, <2>2
<1>9. saves[k - m].by \in Around(c)
  BY <1>6, <1>8, AroundCall
<1> QED BY <1>3, <1>9

(* Lines.                                                                    *)
LEMMA LinesTyped ==
  ASSUME SqliteTypeOK, NEW v \in View
  PROVE  /\ Line(v) \in Seq(Call \cup {Closing}) /\ Len(Line(v)) \in Nat
         /\ v \in Scope => Line(v) = tail[v]
<1>1. \A s \in Scope : tail[s] \in Seq(Call)
  BY DEF SqliteTypeOK
<1>2. \A s \in Scope : tail[s] \in Seq(Call \cup {Closing})
  BY <1>1, SeqMonotonic
<1>3. queue \in Seq(Call \cup {Closing})
  BY DEF SqliteTypeOK
<1>4. Root \notin Scope
  BY SqliteAssumption
<1>5. Line(v) \in Seq(Call \cup {Closing})
  BY <1>2, <1>3 DEF Line, View
<1> QED BY <1>4, <1>5 DEF Line

(* Of two calls whose turn it is in one view there is only one.              *)
LEMMA OneTurn ==
  ASSUME NEW c, NEW d, HasTurn(c), HasTurn(d), within[c] = within[d]
  PROVE  c = d
BY DEF HasTurn

(* Calls whose turn it is.                                                   *)
LEMMA TurnIs ==
  ASSUME SqliteInv, NEW c \in Call, AtTurn(c)
  PROVE  HasTurn(c) /\ within[c] \in View /\ result[c] = "none"
<1>1. HasTurn(c) /\ within[c] \in View
  BY SqliteAssumption DEF AtTurn, HasTurn, Line, View
<1> DEFINE v == within[c]
<1>2. /\ Line(v) \in Seq(Call \cup {Closing}) /\ Line(v) # <<>> /\ Line(v)[1] = c
  BY <1>1, LinesTyped DEF HasTurn, SqliteInv
<1>3. 1 \in 1..Len(Line(v))
  BY <1>2
<1>4. \A u \in View : \A i \in 1..Len(Line(u)) : Line(u)[i] \in Call => result[Line(u)[i]] = "none"
  BY DEF SqliteInv, InLineOnce
<1> HIDE DEF v
<1>5. v \in View
  BY <1>1 DEF v
<1> QED BY <1>1, <1>2, <1>3, <1>4, <1>5

(* A call at its turn, unless it is a transaction under way, belongs to the  *)
(* innermost of these.                                                       *)
LEMMA InnermostTurn ==
  ASSUME SqliteInv, NEW c \in Call, HasTurn(c), within[c] \in View,
         c \in Scope => ~Active(c)
  PROVE  within[c] = IF saves = <<>> THEN Root ELSE saves[Len(saves)].by
<1>1. /\ Len(saves) \in Nat /\ \A i \in 1..Len(saves) : saves[i].by \in Scope
      /\ saves = <<>> <=> Len(saves) = 0
  <2>1. saves \in Seq([by : Scope, seen : SUBSET Stmt])
    BY DEF SqliteInv, SqliteTypeOK
  <2> QED BY <2>1, SavesTyped DEF SqliteInv
<1>2. \A i \in 1..Len(saves) : Active(saves[i].by) /\ HasTurn(saves[i].by) /\ saves[i].by # c
  BY <1>1 DEF SqliteInv, Nested
<1>3. \A i \in 1..Len(saves) : within[saves[i].by] # within[c]
  BY <1>2, OneTurn
<1>4. CASE within[c] = Root
  <2>1. Len(saves) = 0
    <3>1. ASSUME Len(saves) # 0 PROVE FALSE
      <4>1. 1 \in 1..Len(saves) /\ within[saves[1].by] = Root
        BY <1>1, <3>1 DEF SqliteInv, Nested
      <4> QED BY <1>3, <1>4, <4>1
    <3> QED BY <3>1
  <2> QED BY <1>1, <1>4, <2>1
<1>5. CASE within[c] \in Scope
  <2>1. tail[within[c]] # <<>>
    BY <1>5, LinesTyped DEF HasTurn, SqliteInv
  <2>2. PICK k \in 1..Len(saves) : saves[k].by = within[c]
    BY <1>5, <2>1 DEF SqliteInv, InLineOnce, Nested
  <2>3. k = Len(saves)
    <3>1. ASSUME k # Len(saves) PROVE FALSE
      <4>1. k + 1 \in 1..Len(saves) /\ k + 1 # 1 /\ (k + 1) - 1 = k
        BY <1>1, <3>1
      <4>2. \A i \in 1..Len(saves) : i # 1 => within[saves[i].by] = saves[i - 1].by
        BY DEF SqliteInv, Nested
      <4> QED BY <1>3, <2>2, <4>1, <4>2
    <3> QED BY <3>1
  <2> QED BY <1>1, <2>2, <2>3
<1> QED BY <1>4, <1>5 DEF View

(* A transaction whose operations are done is the innermost one.             *)
LEMMA DrainedInnermost ==
  ASSUME SqliteInv, NEW s \in Scope, Active(s), Drained(s)
  PROVE  /\ Len(saves) \in Nat \ {0} /\ saves # <<>> /\ saves[Len(saves)].by = s
         /\ HasTurn(s) /\ within[s] \in View
<1>1. Len(saves) \in Nat /\ \A i \in 1..Len(saves) : saves[i].by \in Scope
  BY SavesTyped DEF SqliteInv
<1>2. PICK k \in 1..Len(saves) : saves[k].by = s
  BY DEF SqliteInv, Nested
<1>3. \A i \in 1..Len(saves) :
        HasTurn(saves[i].by) /\ within[saves[i].by] = IF i = 1 THEN Root ELSE saves[i - 1].by
  BY DEF SqliteInv, Nested
<1>4. k = Len(saves)
  <2>1. ASSUME k # Len(saves) PROVE FALSE
    <3>1. k + 1 \in 1..Len(saves) /\ k + 1 # 1 /\ (k + 1) - 1 = k
      BY <1>1, <2>1
    <3>2. HasTurn(saves[k + 1].by) /\ within[saves[k + 1].by] = s
      BY <1>2, <1>3, <3>1
    <3>3. s \in View /\ Line(s) = tail[s]
      BY LinesTyped DEF SqliteInv, View
    <3> QED BY <3>2, <3>3 DEF HasTurn, Drained
  <2> QED BY <2>1
<1>5. within[s] \in View
  <2>1. k = 1 \/ k - 1 \in 1..Len(saves)
    BY <1>1
  <2> QED BY <1>1, <1>2, <1>3, <2>1 DEF View
<1>6. saves \in Seq([by : Scope, seen : SUBSET Stmt])
  BY DEF SqliteInv, SqliteTypeOK
<1> QED BY <1>1, <1>2, <1>3, <1>4, <1>5, <1>6

(* A call that is answered leaves the head of its line.                      *)
LEMMA SettleSteps ==
  ASSUME SqliteTypeOK, NEW c \in Call, within[c] \in View, HasTurn(c), NEW how, Settle(c, how)
  PROVE  /\ result' = [result EXCEPT ![c] = how]
         /\ queue' \in Seq(Call \cup {Closing}) /\ tail' \in [Scope -> Seq(Call)]
         /\ \A v \in View : Line(v)' = IF v = within[c] THEN Tail(Line(v)) ELSE Line(v)
         /\ \A s \in Scope : tail[s] = <<>> => tail'[s] = <<>>
<1>0. /\ Root \notin Scope /\ tail \in [Scope -> Seq(Call)] /\ queue \in Seq(Call \cup {Closing})
      /\ Line(within[c]) # <<>>
  BY SqliteAssumption DEF SqliteTypeOK, HasTurn
<1>1. CASE within[c] = Root
  <2>1. queue' = Tail(queue) /\ tail' = tail /\ result' = [result EXCEPT ![c] = how]
    BY <1>1 DEF Settle
  <2>2. queue # <<>>
    BY <1>0, <1>1 DEF Line
  <2>3. \A v \in View : Line(v)' = IF v = within[c] THEN Tail(Line(v)) ELSE Line(v)
    BY <1>1, <2>1 DEF Line
  <2>4. queue' \in Seq(Call \cup {Closing})
    BY <1>0, <2>1, <2>2
  <2> QED BY <1>0, <2>1, <2>3, <2>4
<1>2. CASE within[c] \in Scope
  <2>1. /\ queue' = queue /\ result' = [result EXCEPT ![c] = how]
        /\ tail' = [tail EXCEPT ![within[c]] = Tail(@)]
    BY <1>0, <1>2 DEF Settle
  <2>2. tail[within[c]] # <<>>
    BY <1>0, <1>2 DEF Line
  <2>3. Tail(tail[within[c]]) \in Seq(Call)
    BY <1>0, <1>2, <2>2
  <2>4. tail' \in [Scope -> Seq(Call)]
    BY <1>0, <1>2, <2>1, <2>3
  <2>5. \A v \in View : Line(v)' = IF v = within[c] THEN Tail(Line(v)) ELSE Line(v)
    BY <1>0, <1>2, <2>1 DEF Line, View
  <2> QED BY <1>0, <1>2, <2>1, <2>2, <2>4, <2>5
<1> QED BY <1>1, <1>2 DEF View

(* Answering a call.                                                         *)
LEMMA EndKeepsLines ==
  ASSUME SqliteInv, NEW c \in Call, within[c] \in View, HasTurn(c),
         NEW how, Settle(c, how), UNCHANGED within,
         \A s \in Scope : scope'[s] = IF s = c THEN "ended" ELSE scope[s],
         c \in Scope => Drained(c)
  PROVE  InLineOnce' /\ AnswersInTime'
<1>1. /\ result' = [result EXCEPT ![c] = how]
      /\ \A v \in View : Line(v)' = IF v = within[c] THEN Tail(Line(v)) ELSE Line(v)
      /\ \A s \in Scope : tail[s] = <<>> => tail'[s] = <<>>
  BY SettleSteps DEF SqliteInv
<1>2. result \in [Call -> {"none", "ok", "error"}]
  BY DEF SqliteInv, SqliteTypeOK
<1>3. \A d \in Call : d # c => result'[d] = result[d]
  BY <1>1, <1>2
<1>4. \A v \in View : /\ Line(v) \in Seq(Call \cup {Closing}) /\ Len(Line(v)) \in Nat
  BY LinesTyped DEF SqliteInv
<1>5. /\ \A v \in View : \A i \in 1..Len(Line(v)) :
           Line(v)[i] \in Call => within[Line(v)[i]] = v /\ result[Line(v)[i]] = "none"
      /\ \A v \in View : \A i, j \in 1..Len(Line(v)) :
           Line(v)[i] \in Call /\ Line(v)[i] = Line(v)[j] => i = j
      /\ \A s \in Scope : tail[s] # <<>> => Active(s)
  BY DEF SqliteInv, InLineOnce
<1>6. /\ Line(within[c]) # <<>> /\ Head(Line(within[c])) = c
  BY DEF HasTurn
<1>7. ASSUME NEW v \in View
      PROVE  /\ \A i \in 1..Len(Line(v)') :
                  Line(v)'[i] \in Call => within[Line(v)'[i]] = v /\ result'[Line(v)'[i]] = "none"
             /\ \A i, j \in 1..Len(Line(v)') :
                  Line(v)'[i] \in Call /\ Line(v)'[i] = Line(v)'[j] => i = j
  <2>1. CASE v = within[c]
    <3> DEFINE q == Line(v)
    <3>1. q \in Seq(Call \cup {Closing}) /\ q # <<>> /\ q[1] = c /\ Line(v)' = Tail(q)
      BY <1>1, <1>4, <1>6, <2>1
    <3>2. /\ \A i \in 1..Len(q) : q[i] \in Call => within[q[i]] = v /\ result[q[i]] = "none"
          /\ \A i, j \in 1..Len(q) : q[i] \in Call /\ q[i] = q[j] => i = j
      BY <1>5
    <3> HIDE DEF q
    <3>3. /\ Len(Tail(q)) = Len(q) - 1 /\ Len(q) \in Nat
          /\ \A i \in 1..Len(Tail(q)) : Tail(q)[i] = q[i + 1]
      BY <3>1, HeadTailProperties
    <3>4. \A i \in 1..Len(Tail(q)) : i + 1 \in 1..Len(q) /\ i + 1 # 1 /\ 1 \in 1..Len(q)
      BY <3>3
    <3>5. \A i \in 1..Len(Tail(q)) : Tail(q)[i] # c
      BY <3>1, <3>2, <3>3, <3>4
    <3>6. ASSUME NEW i \in 1..Len(Tail(q)), Tail(q)[i] \in Call
          PROVE  within[Tail(q)[i]] = v /\ result'[Tail(q)[i]] = "none"
      BY <1>3, <3>2, <3>3, <3>4, <3>5, <3>6
    <3>7. ASSUME NEW i \in 1..Len(Tail(q)), NEW j \in 1..Len(Tail(q)),
                 Tail(q)[i] \in Call, Tail(q)[i] = Tail(q)[j]
          PROVE  i = j
      <4>1. i + 1 = j + 1
        BY <3>2, <3>3, <3>4, <3>7
      <4> QED BY <4>1
    <3> QED BY <3>1, <3>6, <3>7
  <2>2. CASE v # within[c]
    <3> DEFINE q == Line(v)
    <3>1. Line(v)' = q
      BY <1>1, <2>2
    <3>2. \A i \in 1..Len(q) : q[i] \in Call => q[i] # c
      BY <1>5, <2>2
    <3> QED BY <1>3, <1>5, <3>1, <3>2
  <2> QED BY <2>1, <2>2
<1>8. \A s \in Scope : s # c => (Active(s)' <=> Active(s))
  BY DEF Active
<1>9. \A s \in Scope : tail'[s] # <<>> => Active(s)'
  <2>1. c \in Scope => tail'[c] = <<>>
    BY <1>1 DEF Drained
  <2> QED BY <1>1, <1>5, <1>8, <2>1
<1>10. InLineOnce'
  BY <1>7, <1>9 DEF InLineOnce
<1>11. AnswersInTime'
  <2>1. within[c] # Outside
    BY SqliteAssumption DEF View
  <2>2. \A d \in Call : within'[d] = Outside =>
          result'[d] = "none" /\ (d \in Scope => scope'[d] = Unused)
    BY <1>3, <2>1 DEF SqliteInv, AnswersInTime
  <2>3. \A s \in Scope : scope'[s] # "ended" => result'[s] = "none"
    BY <1>3 DEF SqliteInv, AnswersInTime, Call
  <2>4. \A d \in Call : within'[d] \in Scope => Active(within[d])' \/ scope'[within'[d]] = "ended"
    <3>1. SUFFICES ASSUME NEW d \in Call, within[d] \in Scope
                   PROVE  scope'[within[d]] \in {"open", "returned", "thrown", "ended"}
      BY DEF Active
    <3>2. scope[within[d]] \in {"open", "returned", "thrown", "ended"}
      BY <3>1 DEF SqliteInv, AnswersInTime, Active
    <3> QED BY <3>1, <3>2
  <2> QED BY <2>2, <2>3, <2>4 DEF AnswersInTime
<1> QED BY <1>10, <1>11

(* A call that is no transaction under way is answered.                      *)
LEMMA EndKeepsNested ==
  ASSUME SqliteInv, NEW c \in Call, within[c] \in View, HasTurn(c), c \in Scope => ~Active(c),
         NEW how, Settle(c, how), UNCHANGED <<within, saves>>,
         \A s \in Scope : scope'[s] = IF s = c THEN "ended" ELSE scope[s]
  PROVE  Nested'
<1>1. \A v \in View : Line(v)' = IF v = within[c] THEN Tail(Line(v)) ELSE Line(v)
  BY SettleSteps DEF SqliteInv
<1>2. \A s \in Scope : Active(s)' <=> Active(s)
  BY DEF Active
<1>3. Len(saves) \in Nat /\ \A i \in 1..Len(saves) : saves[i].by \in Scope
  BY SavesTyped DEF SqliteInv
<1>4. /\ \A i \in 1..Len(saves) :
           /\ Active(saves[i].by) /\ HasTurn(saves[i].by)
           /\ within[saves[i].by] = IF i = 1 THEN Root ELSE saves[i - 1].by
      /\ \A i, j \in 1..Len(saves) : saves[i].by = saves[j].by => i = j
      /\ \A s \in Scope : Active(s) => \E i \in 1..Len(saves) : saves[i].by = s
  BY DEF SqliteInv, Nested
<1>5. ASSUME NEW i \in 1..Len(saves)
      PROVE  Active(saves[i].by)' /\ HasTurn(saves[i].by)'
  <2>1. saves[i].by # c
    BY <1>3, <1>4
  <2>2. within[saves[i].by] # within[c]
    BY <1>4, <2>1, OneTurn
  <2>3. within[saves[i].by] \in View
    <3>1. i = 1 \/ i - 1 \in 1..Len(saves)
      BY <1>3
    <3> QED BY <1>3, <1>4, <3>1 DEF View
  <2> DEFINE b == saves[i].by
             v == within[b]
  <2>4. Line(v) # <<>> /\ Head(Line(v)) = b
    BY <1>4 DEF HasTurn
  <2>5. v \in View /\ v # within[c]
    BY <2>2, <2>3
  <2>6. UNCHANGED <<b, v>>
    OBVIOUS
  <2> HIDE DEF b, v
  <2>7. Line(v)' = Line(v)
    <3>1. (IF v = Root THEN queue' ELSE tail'[v]) = Line(v)
      BY <1>1, <2>5 DEF Line
    <3> QED BY <2>6, <3>1 DEF Line
  <2>8. HasTurn(b)'
    BY <2>4, <2>6, <2>7 DEF HasTurn, b, v
  <2> QED BY <1>2, <1>3, <1>4, <2>6, <2>8 DEF b
<1> QED BY <1>2, <1>3, <1>4, <1>5 DEF Nested

(* The innermost transaction ends.                                           *)
LEMMA FrontIs ==
  ASSUME NEW S, NEW q \in Seq(S), q # <<>>
  PROVE  /\ Front(q) \in Seq(S) /\ Len(Front(q)) = Len(q) - 1
         /\ \A i \in 1..(Len(q) - 1) : Front(q)[i] = q[i]
<1>1. Len(q) \in Nat \ {0} /\ \A i \in 1..(Len(q) - 1) : q[i] \in S
  OBVIOUS
<1>2. Front(q) = SubSeq(q, 1, Len(q) - 1)
  BY DEF Front
<1>3. Len(q) - 1 \in Nat
  BY <1>1
<1> DEFINE m == Len(q) - 1
           p == SubSeq(q, 1, m)
<1>4. p \in Seq(S) /\ Len(p) = (IF 1 <= m THEN m - 1 + 1 ELSE 0)
      /\ \A i \in 1..(m - 1 + 1) : p[i] = q[1 + i - 1]
  <2>1. m \in Int /\ \A i \in 1..m : q[i] \in S
    BY <1>1, <1>3
  <2> HIDE DEF m
  <2> QED BY <2>1, SubSeqProperties
<1> HIDE DEF p
<1>5. Len(p) = m /\ \A i \in 1..m : p[i] = q[i]
  <2>1. m \in Nat
    BY <1>3
  <2> HIDE DEF m
  <2>2. m - 1 + 1 = m /\ (~(1 <= m) => m = 0) /\ \A i \in 1..m : 1 + i - 1 = i
    BY <2>1
  <2> QED BY <1>4, <2>1, <2>2
<1> QED BY <1>2, <1>4, <1>5 DEF p

LEMMA PopKeepsNested ==
  ASSUME SqliteInv, NEW s \in Scope, Active(s), Drained(s),
         NEW how, Settle(s, how), UNCHANGED within, saves' = Front(saves),
         \A t \in Scope : scope'[t] = IF t = s THEN "ended" ELSE scope[t]
  PROVE  Nested'
<1> DEFINE n == Len(saves)
<1>1. n \in Nat \ {0} /\ saves # <<>> /\ saves[n].by = s /\ HasTurn(s) /\ within[s] \in View
  BY DrainedInnermost
<1>2. Len(saves') = n - 1 /\ \A i \in 1..(n - 1) : saves'[i] = saves[i]
  <2>1. saves \in Seq([by : Scope, seen : SUBSET Stmt])
    BY DEF SqliteInv, SqliteTypeOK
  <2> QED BY <1>1, <2>1, FrontIs
<1>3. \A v \in View : Line(v)' = IF v = within[s] THEN Tail(Line(v)) ELSE Line(v)
  <2>1. s \in Call
    BY DEF Call
  <2> QED BY <1>1, <2>1, SettleSteps DEF SqliteInv
<1>4. \A t \in Scope : t # s => (Active(t)' <=> Active(t))
  BY DEF Active
<1>5. ~ Active(s)'
  BY DEF Active
<1>6. \A i \in 1..n : saves[i].by \in Scope
  BY SavesTyped DEF SqliteInv
<1>7. /\ \A i \in 1..n :
           /\ Active(saves[i].by) /\ HasTurn(saves[i].by)
           /\ within[saves[i].by] = IF i = 1 THEN Root ELSE saves[i - 1].by
      /\ \A i, j \in 1..n : saves[i].by = saves[j].by => i = j
      /\ \A t \in Scope : Active(t) => \E i \in 1..n : saves[i].by = t
  BY DEF SqliteInv, Nested
<1> HIDE DEF n
<1>8. ASSUME NEW i \in 1..(n - 1)
      PROVE  Active(saves[i].by)' /\ HasTurn(saves[i].by)'
             /\ i \in 1..n /\ saves[i].by # s
  <2>1. i \in 1..n /\ n \in 1..n /\ i # n
    BY <1>1
  <2>2. saves[i].by # s
    BY <1>1, <1>7, <2>1
  <2>3. within[saves[i].by] # within[s]
    BY <1>1, <1>7, <2>1, <2>2, OneTurn
  <2>4. within[saves[i].by] \in View
    <3>1. i = 1 \/ i - 1 \in 1..n
      BY <1>1
    <3> QED BY <1>6, <1>7, <2>1, <3>1 DEF View
  <2>5. saves'[i].by = saves[i].by
    BY <1>2
  <2> DEFINE b == saves[i].by
             v == within[b]
  <2>6. Line(v) # <<>> /\ Head(Line(v)) = b
    BY <1>7, <2>1 DEF HasTurn
  <2>7. v \in View /\ v # within[s]
    BY <2>3, <2>4
  <2>8. UNCHANGED <<b, v>>
    BY <2>5
  <2> HIDE DEF v
  <2>9. Line(v)' = Line(v)
    <3>1. (IF v = Root THEN queue' ELSE tail'[v]) = Line(v)
      BY <1>3, <2>7 DEF Line
    <3> QED BY <2>8, <3>1 DEF Line
  <2>10. HasTurn(b)'
    BY <2>6, <2>8, <2>9 DEF HasTurn, v
  <2>11. Active(b)'
    <3>1. b \in Scope /\ Active(b) /\ b # s
      BY <1>6, <1>7, <2>1, <2>2
    <3> QED BY <1>4, <2>8, <3>1 DEF Active
  <2> QED BY <2>1, <2>2, <2>10, <2>11
<1>9. \A i \in 1..Len(saves') :
        /\ Active(saves[i].by)' /\ HasTurn(saves[i].by)'
        /\ within'[saves'[i].by] = IF i = 1 THEN Root ELSE saves'[i - 1].by
  <2>1. \A i \in 1..(n - 1) : i = 1 \/ i - 1 \in 1..(n - 1)
    BY <1>1
  <2> QED BY <1>2, <1>7, <1>8, <2>1
<1>10. \A i, j \in 1..Len(saves') : saves'[i].by = saves'[j].by => i = j
  BY <1>2, <1>7, <1>8
<1>11. ASSUME NEW t \in Scope, Active(t)'
       PROVE  \E i \in 1..Len(saves') : saves'[i].by = t
  <2>1. t # s /\ Active(t)
    BY <1>4, <1>5, <1>11
  <2>2. PICK i \in 1..n : saves[i].by = t
    BY <1>7, <2>1
  <2>3. i \in 1..(n - 1)
    BY <1>1, <2>1, <2>2
  <2> QED BY <1>2, <2>2, <2>3
<1> QED BY <1>9, <1>10, <1>11 DEF Nested

(* What the connection sees.                                                 *)
LEMMA SeenStays ==
  ASSUME UNCHANGED within, NEW w,
         \A d \in Around(w) : result'[d] = result[d] /\ (d \in Scope => (Active(d)' <=> Active(d)))
  PROVE  Seen(w)' <=> Seen(w)
<1>1. Around(w)' = Around(w)
  BY AroundStays
<1> QED BY <1>1 DEF Seen, Active

(* A statement at its turn is within exactly the transactions under way.     *)
LEMMA TurnIsInside ==
  ASSUME SqliteInv, NEW w \in Stmt, HasTurn(w), within[w] \in View
  PROVE  /\ \A d \in Around(w) : d = w \/ (d \in Scope /\ Active(d))
         /\ \A i \in 1..Len(saves) : saves[i].by \in Around(w)
<1>1. w \in Call /\ w \notin Scope
  BY SqliteAssumption DEF Call
<1>2. within[w] = IF saves = <<>> THEN Root ELSE saves[Len(saves)].by
  BY <1>1, InnermostTurn
<1>3. /\ Len(saves) \in Nat /\ \A i \in 1..Len(saves) : saves[i].by \in Scope
      /\ saves = <<>> <=> Len(saves) = 0
  <2>1. saves \in Seq([by : Scope, seen : SUBSET Stmt])
    BY DEF SqliteInv, SqliteTypeOK
  <2> QED BY <2>1, SavesTyped DEF SqliteInv
<1>4. \A i \in 1..Len(saves) :
        Active(saves[i].by) /\ within[saves[i].by] = IF i = 1 THEN Root ELSE saves[i - 1].by
  BY DEF SqliteInv, Nested
<1>5. Root \notin Scope
  BY SqliteAssumption
<1>6. Around(w) \subseteq {w} \cup {saves[i].by : i \in 1..Len(saves)}
  <2> DEFINE bys == {saves[i].by : i \in 1..Len(saves)}
             calls == {w} \cup bys
  <2>1. calls \in SUBSET Call /\ w \in calls
    BY <1>1, <1>3 DEF Call
  <2>2. within[w] \in Scope => within[w] \in calls
    <3>1. Len(saves) # 0 => Len(saves) \in 1..Len(saves)
      BY <1>3
    <3> QED BY <1>2, <1>3, <1>5, <3>1
  <2>3. \A i \in 1..Len(saves) : within[saves[i].by] \in Scope => within[saves[i].by] \in calls
    <3>1. \A i \in 1..Len(saves) : i = 1 \/ i - 1 \in 1..Len(saves)
      BY <1>3
    <3> QED BY <1>4, <1>5, <3>1
  <2>4. \A e \in calls : within[e] \in Scope => within[e] \in calls
    BY <2>2, <2>3
  <2> HIDE DEF calls
  <2>5. Around(w) \subseteq calls
    BY <1>1, <2>1, <2>4, AroundCall
  <2> QED BY <2>5 DEF calls
<1>7. ASSUME NEW i \in 1..Len(saves)
      PROVE  saves[i].by \in Around(w)
  <2>1. Len(saves) \in 1..Len(saves) /\ saves # <<>> /\ i \in 1..Len(saves)
    BY <1>3
  <2>2. within[w] \in Scope /\ within[w] = saves[Len(saves)].by
    BY <1>2, <1>3, <2>1
  <2>3. saves[Len(saves)].by \in Around(w)
    BY <1>1, <2>2, AroundCall
  <2> QED BY <1>1, <2>1, <2>3, WithinAll
<1> QED BY <1>3, <1>4, <1>6, <1>7

(* The steps.                                                                *)

(* A call joins a line, or the end of the connection that of the root.       *)
LEMMA JoiningKeepsInv ==
  ASSUME SqliteInv, NEW v \in View, NEW x \in Call \cup {Closing},
         IF v = Root THEN queue' = Append(queue, x) /\ UNCHANGED tail
         ELSE tail' = [tail EXCEPT ![v] = Append(@, x)] /\ UNCHANGED queue,
         x = Closing => v = Root /\ UNCHANGED within,
         x # Closing => within[x] = Outside /\ within' = [within EXCEPT ![x] = v],
         v \in Scope => Active(v),
         scope' \in [Scope -> {Unused, "queued", "open", "returned", "thrown", "ended"}],
         \A s \in Scope : scope'[s] = IF s = x THEN "queued" ELSE scope[s],
         UNCHANGED <<failed, result, db, conn, saves, closed, faults>>, closing' \in BOOLEAN
  PROVE  SqliteInv'
<1>1. Root \notin Scope /\ Closing \notin Call /\ Root # Outside /\ Outside \notin Scope
      /\ Scope \cap Stmt = {}
  BY SqliteAssumption DEF Call
<1>2. /\ queue \in Seq(Call \cup {Closing}) /\ tail \in [Scope -> Seq(Call)]
      /\ within \in [Call -> View \cup {Outside}]
      /\ result \in [Call -> {"none", "ok", "error"}]
  BY DEF SqliteInv, SqliteTypeOK
<1>3. SqliteTypeOK'
  <2>1. queue' \in Seq(Call \cup {Closing})
    <3>1. queue' = queue \/ queue' = Append(queue, x)
      OBVIOUS
    <3>2. Append(queue, x) \in Seq(Call \cup {Closing})
      BY <1>2, AppendProperties
    <3> QED BY <1>2, <3>1, <3>2
  <2>2. tail' \in [Scope -> Seq(Call)]
    <3>1. CASE v = Root
      BY <1>2, <3>1
    <3>2. CASE v # Root
      <4>1. v \in Scope /\ x \in Call
        BY <1>1, <3>2 DEF View
      <4>2. Append(tail[v], x) \in Seq(Call)
        BY <1>2, <4>1
      <4> QED BY <1>2, <3>2, <4>1, <4>2
    <3> QED BY <3>1, <3>2
  <2>3. within' \in [Call -> View \cup {Outside}]
    BY <1>2
  <2> QED BY <2>1, <2>2, <2>3 DEF SqliteInv, SqliteTypeOK
<1>4. \A d \in Call : d # x => within'[d] = within[d]
  BY <1>2
<1>5. x \in Call => /\ within[x] = Outside /\ within'[x] = v
                   /\ result[x] = "none" /\ (x \in Scope => scope[x] = Unused)
  BY <1>1, <1>2 DEF SqliteInv, AnswersInTime
<1>6. \A s \in Scope : (Active(s)' <=> Active(s)) /\ (scope'[s] = "ended" <=> scope[s] = "ended")
  BY <1>5 DEF Active, Unused, Call
<1>7. \A u \in View : Line(u)' = IF u = v THEN Append(Line(u), x) ELSE Line(u)
  <2>1. CASE v = Root
    BY <2>1 DEF Line
  <2>2. CASE v # Root
    BY <1>2, <2>2, ZenonT(60) DEF Line, View
  <2> QED BY <2>1, <2>2
<1>8. \A u \in View : Line(u) \in Seq(Call \cup {Closing}) /\ Len(Line(u)) \in Nat
  BY LinesTyped DEF SqliteInv
<1>9. /\ \A u \in View : \A i \in 1..Len(Line(u)) :
           Line(u)[i] \in Call => within[Line(u)[i]] = u /\ result[Line(u)[i]] = "none"
      /\ \A u \in View : \A i, j \in 1..Len(Line(u)) :
           Line(u)[i] \in Call /\ Line(u)[i] = Line(u)[j] => i = j
      /\ \A s \in Scope : tail[s] # <<>> => Active(s)
  BY DEF SqliteInv, InLineOnce
<1>10. ASSUME NEW u \in View
       PROVE  /\ \A i \in 1..Len(Line(u)') :
                   Line(u)'[i] \in Call => within'[Line(u)'[i]] = u /\ result[Line(u)'[i]] = "none"
              /\ \A i, j \in 1..Len(Line(u)') :
                   Line(u)'[i] \in Call /\ Line(u)'[i] = Line(u)'[j] => i = j
  <2> DEFINE q == Line(u)
  <2>1. q \in Seq(Call \cup {Closing}) /\ Len(q) \in Nat
    BY <1>8
  <2>2. /\ \A i \in 1..Len(q) : q[i] \in Call => within[q[i]] = u /\ result[q[i]] = "none"
        /\ \A i, j \in 1..Len(q) : q[i] \in Call /\ q[i] = q[j] => i = j
    BY <1>9
  <2>3. u # Outside
    BY <1>1 DEF View
  <2>4. Line(u)' = IF u = v THEN Append(q, x) ELSE q
    BY <1>7
  <2> HIDE DEF q
  <2>5. \A i \in 1..Len(q) : q[i] \in Call => q[i] # x /\ within'[q[i]] = u
    BY <1>4, <1>5, <2>2, <2>3
  <2>6. CASE u # v
    BY <2>2, <2>4, <2>5, <2>6
  <2>7. CASE u = v
    <3> DEFINE p == Append(q, x)
    <3>1. /\ Len(p) = Len(q) + 1 /\ p[Len(p)] = x
          /\ \A i \in 1..Len(q) : p[i] = q[i]
      BY <2>1
    <3>2. Line(u)' = p
      BY <2>4, <2>7
    <3> HIDE DEF p
    <3>3. \A i \in 1..Len(p) : i \in 1..Len(q) \/ (i = Len(p) /\ p[i] = x)
      BY <2>1, <3>1
    <3>4. ASSUME NEW i \in 1..Len(p), p[i] \in Call
          PROVE  within'[p[i]] = u /\ result[p[i]] = "none"
      BY <1>5, <2>2, <2>5, <2>7, <3>1, <3>3, <3>4
    <3>5. ASSUME NEW i \in 1..Len(p), NEW j \in 1..Len(p), p[i] \in Call, p[i] = p[j]
          PROVE  i = j
      <4>1. i \in 1..Len(q) <=> j \in 1..Len(q)
        BY <2>5, <3>1, <3>3, <3>5
      <4> QED BY <2>2, <3>1, <3>3, <3>5, <4>1
    <3> QED BY <3>2, <3>4, <3>5
  <2> QED BY <2>6, <2>7
<1>11. \A s \in Scope : tail'[s] # <<>> => Active(s)'
  <2>1. \A s \in Scope : s # v => tail'[s] = tail[s]
    BY <1>1, <1>2
  <2> QED BY <1>6, <1>9, <2>1
<1>12. InLineOnce'
  BY <1>10, <1>11 DEF InLineOnce
<1>13. AnswersInTime'
  <2>1. \A c \in Call : within'[c] = Outside =>
          result[c] = "none" /\ (c \in Scope => scope'[c] = Unused)
    <3>1. x \in Call => within'[x] # Outside
      BY <1>1, <1>5 DEF View
    <3> QED BY <1>4, <3>1 DEF SqliteInv, AnswersInTime
  <2>2. \A s \in Scope : scope'[s] # "ended" => result[s] = "none"
    BY <1>6 DEF SqliteInv, AnswersInTime
  <2>3. ASSUME NEW c \in Call, within'[c] \in Scope
        PROVE  scope'[within'[c]] \in {"open", "returned", "thrown", "ended"}
    <3>1. scope[within'[c]] \in {"open", "returned", "thrown", "ended"}
      <4>1. CASE c = x
        BY <1>5, <2>3, <4>1 DEF Active
      <4>2. CASE c # x
        BY <1>4, <2>3, <4>2 DEF SqliteInv, AnswersInTime, Active
      <4> QED BY <4>1, <4>2
    <3>2. within'[c] # x
      BY <1>5, <2>3, <3>1 DEF Call, Unused
    <3> QED BY <2>3, <3>1, <3>2
  <2> QED BY <2>1, <2>2, <2>3 DEF AnswersInTime, Active
<1>14. Nested'
  <2>1. Len(saves) \in Nat /\ \A i \in 1..Len(saves) : saves[i].by \in Scope
    BY SavesTyped DEF SqliteInv
  <2>2. /\ \A i \in 1..Len(saves) :
             /\ Active(saves[i].by) /\ HasTurn(saves[i].by)
             /\ within[saves[i].by] = IF i = 1 THEN Root ELSE saves[i - 1].by
        /\ \A i, j \in 1..Len(saves) : saves[i].by = saves[j].by => i = j
        /\ \A s \in Scope : Active(s) => \E i \in 1..Len(saves) : saves[i].by = s
    BY DEF SqliteInv, Nested
  <2>3. ASSUME NEW i \in 1..Len(saves)
        PROVE  /\ scope'[saves[i].by] \in {"open", "returned", "thrown"}
               /\ HasTurn(saves[i].by)'
               /\ within'[saves[i].by] = within[saves[i].by]
    <3> DEFINE b == saves[i].by
               w == within[b]
    <3>1. b \in Scope /\ Active(b) /\ b # x
      BY <1>5, <2>1, <2>2 DEF Active, Unused, Call
    <3>2. within'[b] = w
      BY <1>4, <3>1 DEF Call
    <3>3. w \in View
      <4>1. i = 1 \/ i - 1 \in 1..Len(saves)
        BY <2>1
      <4> QED BY <2>1, <2>2, <4>1 DEF View
    <3>4. Line(w) # <<>> /\ Head(Line(w)) = b
      BY <2>2 DEF HasTurn
    <3>5. b' = b
      OBVIOUS
    <3> HIDE DEF b, w
    <3>6. (IF w = Root THEN queue' ELSE tail'[w]) = IF w = v THEN Append(Line(w), x) ELSE Line(w)
      BY <1>7, <3>3 DEF Line
    <3>7. Append(Line(w), x) # <<>> /\ Head(Append(Line(w), x)) = Head(Line(w))
      BY <1>8, <3>3, <3>4
    <3>8. within[b]' = w
      BY <3>2, <3>5
    <3>9. HasTurn(b)'
      BY <3>4, <3>5, <3>6, <3>7, <3>8 DEF HasTurn, Line
    <3>10. scope'[b] = scope[b]
      BY <3>1
    <3> QED BY <3>1, <3>2, <3>9, <3>10 DEF Active, b, w
  <2>4. \A i \in 1..Len(saves) : Active(saves[i].by)'
    BY <2>3 DEF Active
  <2> QED BY <1>6, <2>2, <2>3, <2>4 DEF Nested
<1>15. ASSUME NEW c \in Call, c # x
       PROVE  Around(c)' = Around(c)
  <2>1. CASE x = Closing
    BY <2>1, AroundStays
  <2>2. CASE x # Closing
    <3>1. \A d \in Call : within[d] \in Scope => within[d] # x
      <4>1. x \in Scope => ~Active(x) /\ scope[x] # "ended"
        BY <1>5, <2>2 DEF Active, Unused
      <4> QED BY <4>1 DEF SqliteInv, AnswersInTime
    <3>2. \A d \in Call \ {x} : within'[d] = within[d]
      BY <1>4
    <3>3. Surrounding(within', c) = Surrounding(within, c)
      BY <1>15, <2>2, <3>1, <3>2, SurroundingKept
    <3> QED BY <3>3, AroundIs
  <2> QED BY <2>1, <2>2
<1>16. SeenExactly'
  <2>1. ASSUME NEW w \in Stmt, w # x
        PROVE  (Seen(w)' <=> Seen(w)) /\ Around(w)' = Around(w)
    <3>1. Around(w)' = Around(w)
      BY <1>15, <2>1 DEF Call
    <3>2. \A c \in Around(w) : c \in Scope => (Active(c)' <=> Active(c))
      BY <1>6
    <3> QED BY <3>1, <3>2 DEF Seen, Active
  <2>2. ASSUME x \in Stmt
        PROVE  ~Seen(x) /\ ~Seen(x)'
    <3>1. x \in Call /\ x \notin Scope
      BY <1>1, <2>2 DEF Call
    <3>2. x \in Around(x) /\ x \in Surrounding(within', x)
      BY <3>1, AroundCall, SurroundingCall
    <3>3. x \in Around(x)'
      BY <3>2, AroundIs
    <3>4. result[x] = "none" /\ result'[x] = "none"
      BY <1>5, <3>1
    <3> QED BY <3>1, <3>2, <3>3, <3>4 DEF Seen
  <2>3. conn' = {w \in Stmt : Seen(w)'}
    BY <2>1, <2>2 DEF SqliteInv, SeenExactly
  <2>4. \A i \in 1..Len(saves) : saves[i].seen = {w \in conn : saves[i].by \notin Around(w)'}
    BY <2>1, <2>2 DEF SqliteInv, SeenExactly
  <2> QED BY <2>3, <2>4 DEF SqliteInv, SeenExactly
<1> QED BY <1>3, <1>12, <1>13, <1>14, <1>16 DEF SqliteInv

(* The end of the connection is taken from the line of the root, where no    *)
(* transaction is under way.                                                 *)
LEMMA ClosingKeepsInv ==
  ASSUME SqliteInv, Closes
  PROVE  SqliteInv'
<1>1. /\ queue # <<>> /\ Head(queue) = Closing /\ queue' = Tail(queue) /\ closed' = TRUE
      /\ UNCHANGED <<tail, scope, within, failed, result, db, conn, saves, closing, faults>>
  BY DEF Closes
<1>2. Root \notin Scope /\ Closing \notin Call /\ Root \in View
  BY SqliteAssumption DEF Call, View
<1>3. Len(saves) = 0 /\ saves = <<>>
  <2>1. Len(saves) \in Nat /\ saves \in Seq([by : Scope, seen : SUBSET Stmt])
    BY DEF SqliteInv, SqliteTypeOK
  <2>2. ASSUME Len(saves) # 0 PROVE FALSE
    <3>1. 1 \in 1..Len(saves)
      BY <2>1, <2>2
    <3>2. within[saves[1].by] = Root /\ HasTurn(saves[1].by) /\ saves[1].by \in Scope
      BY <3>1, SavesTyped DEF SqliteInv, Nested
    <3> QED BY <1>1, <1>2, <3>2 DEF HasTurn, Line, Call
  <2> QED BY <2>1, <2>2
<1>4. SqliteTypeOK'
  BY <1>1 DEF SqliteInv, SqliteTypeOK
<1>5. \A s \in Scope : Active(s)' <=> Active(s)
  BY <1>1 DEF Active
<1>6. InLineOnce'
  <2>1. /\ queue \in Seq(Call \cup {Closing}) /\ Len(Tail(queue)) = Len(queue) - 1
        /\ Len(queue) \in Nat
        /\ \A i \in 1..Len(Tail(queue)) : Tail(queue)[i] = queue[i + 1]
    BY <1>1, HeadTailProperties DEF SqliteInv, SqliteTypeOK
  <2>2. \A i \in 1..Len(Tail(queue)) : i + 1 \in 1..Len(queue)
    BY <2>1
  <2>3. /\ \A i \in 1..Len(queue) :
             queue[i] \in Call => within[queue[i]] = Root /\ result[queue[i]] = "none"
        /\ \A i, j \in 1..Len(queue) : queue[i] \in Call /\ queue[i] = queue[j] => i = j
    <3>1. Line(Root) = queue
      BY DEF Line
    <3> QED BY <1>2, <3>1 DEF SqliteInv, InLineOnce
  <2>4. /\ \A i \in 1..Len(Tail(queue)) :
             Tail(queue)[i] \in Call =>
               within[Tail(queue)[i]] = Root /\ result[Tail(queue)[i]] = "none"
        /\ \A i, j \in 1..Len(Tail(queue)) :
             Tail(queue)[i] \in Call /\ Tail(queue)[i] = Tail(queue)[j] => i = j
    <3>1. ASSUME NEW i \in 1..Len(Tail(queue)), NEW j \in 1..Len(Tail(queue)),
                 Tail(queue)[i] \in Call, Tail(queue)[i] = Tail(queue)[j]
          PROVE  i = j
      <4>1. i + 1 = j + 1
        BY <2>1, <2>2, <2>3, <3>1
      <4> QED BY <4>1
    <3> QED BY <2>1, <2>2, <2>3, <3>1
  <2>5. \A v \in View : v # Root => Line(v)' = Line(v)
    BY <1>1 DEF Line
  <2>6. Line(Root)' = Tail(queue)
    BY <1>1 DEF Line
  <2>7. \A s \in Scope : tail'[s] # <<>> => Active(s)'
    BY <1>1, <1>5 DEF SqliteInv, InLineOnce
  <2>8. ASSUME NEW v \in View
        PROVE  /\ \A i \in 1..Len(Line(v)') :
                    Line(v)'[i] \in Call => within[Line(v)'[i]] = v /\ result[Line(v)'[i]] = "none"
               /\ \A i, j \in 1..Len(Line(v)') :
                    Line(v)'[i] \in Call /\ Line(v)'[i] = Line(v)'[j] => i = j
    <3>1. CASE v = Root
      <4>1. Line(v)' = Tail(queue)
        BY <1>1, <3>1 DEF Line
      <4> QED BY <2>4, <3>1, <4>1
    <3>2. CASE v # Root
      BY <2>5, <3>2 DEF SqliteInv, InLineOnce
    <3> QED BY <3>1, <3>2
  <2> QED BY <1>1, <2>7, <2>8 DEF InLineOnce
<1>7. AnswersInTime'
  BY <1>1 DEF SqliteInv, AnswersInTime, Active
<1>8. Nested'
  BY <1>1, <1>3, <1>5 DEF SqliteInv, Nested
<1>9. SeenExactly'
  <2>1. \A w \in Stmt : Around(w)' = Around(w)
    BY <1>1, AroundStays
  <2>2. \A w \in Stmt : Seen(w)' <=> Seen(w)
    BY <1>1, <1>5, SeenStays
  <2> QED BY <1>1, <2>1, <2>2 DEF SqliteInv, SeenExactly
<1> QED BY <1>4, <1>6, <1>7, <1>8, <1>9 DEF SqliteInv

(* The callback of a transaction ends, or its COMMIT fails.                  *)
LEMMA ReturningKeepsInv ==
  ASSUME SqliteInv, NEW s \in Scope, Active(s),
         scope' \in {[scope EXCEPT ![s] = "returned"], [scope EXCEPT ![s] = "thrown"]},
         faults' \in 0..MaxFaults,
         UNCHANGED <<queue, tail, within, failed, result, db, conn, saves, closing, closed>>
  PROVE  SqliteInv'
<1>1. SqliteTypeOK'
  BY DEF SqliteInv, SqliteTypeOK
<1>2. \A t \in Scope : (Active(t)' <=> Active(t)) /\ (scope'[t] = "ended" <=> scope[t] = "ended")
                       /\ (scope[t] = Unused => scope'[t] = Unused)
  BY DEF SqliteInv, SqliteTypeOK, Active, Unused
<1>3. \A v \in View : Line(v)' = Line(v)
  BY DEF Line
<1>4. InLineOnce'
  BY <1>2, <1>3 DEF SqliteInv, InLineOnce
<1>5. AnswersInTime'
  <2>1. /\ \A c \in Call : within[c] = Outside =>
             result[c] = "none" /\ (c \in Scope => scope'[c] = Unused)
        /\ \A t \in Scope : scope'[t] # "ended" => result[t] = "none"
        /\ \A c \in Call : within[c] \in Scope => Active(within[c])' \/ scope'[within[c]] = "ended"
    BY <1>2 DEF SqliteInv, AnswersInTime, Active
  <2> QED BY <2>1 DEF AnswersInTime, Active
<1>6. Nested'
  <2>1. \A i \in 1..Len(saves) : saves[i].by \in Scope
    BY SavesTyped DEF SqliteInv
  <2>2. \A i \in 1..Len(saves) : HasTurn(saves[i].by)'
    BY DEF SqliteInv, Nested, HasTurn, Line
  <2>3. \A i \in 1..Len(saves) : Active(saves[i].by)'
    BY <1>2, <2>1 DEF SqliteInv, Nested, Active
  <2> QED BY <1>2, <2>2, <2>3 DEF SqliteInv, Nested
<1>7. SeenExactly'
  <2>1. \A w \in Stmt : Around(w)' = Around(w)
    BY AroundStays
  <2>2. \A w \in Stmt : Seen(w)' <=> Seen(w)
    BY <1>2, SeenStays
  <2> QED BY <2>1, <2>2 DEF SqliteInv, SeenExactly
<1> QED BY <1>1, <1>4, <1>5, <1>6, <1>7 DEF SqliteInv

(* BEGIN and SAVEPOINT.                                                      *)
LEMMA BeginKeepsInv ==
  ASSUME SqliteInv, NEW s \in Scope, Begin(s)
  PROVE  SqliteInv'
<1> DEFINE n == Len(saves)
           new == [by |-> s, seen |-> conn]
<1>1. /\ scope[s] = "queued" /\ saves' = Append(saves, new)
      /\ scope' = [scope EXCEPT ![s] = "open"]
      /\ UNCHANGED <<queue, tail, within, failed, result, db, conn, closing, closed, faults>>
  BY DEF Begin
<1>2. s \in Call /\ ~Active(s) /\ HasTurn(s) /\ within[s] \in View
  BY <1>1, TurnIs DEF Begin, Active, Call
<1>3. within[s] = IF saves = <<>> THEN Root ELSE saves[n].by
  BY <1>2, InnermostTurn
<1>4. /\ saves \in Seq([by : Scope, seen : SUBSET Stmt]) /\ n \in Nat
      /\ conn \in SUBSET Stmt /\ new \in [by : Scope, seen : SUBSET Stmt]
      /\ scope \in [Scope -> {Unused, "queued", "open", "returned", "thrown", "ended"}]
  BY DEF SqliteInv, SqliteTypeOK
<1>5. /\ Len(saves') = n + 1 /\ saves'[n + 1].by = s /\ saves'[n + 1].seen = conn
      /\ \A i \in 1..n : saves'[i] = saves[i]
      /\ \A i \in 1..Len(saves') : i \in 1..n \/ i = n + 1
      /\ saves = <<>> <=> n = 0
  BY <1>1, <1>4
<1>6. SqliteTypeOK'
  <2>1. saves' \in Seq([by : Scope, seen : SUBSET Stmt])
    BY <1>1, <1>4, AppendProperties
  <2> QED BY <1>1, <1>4, <2>1 DEF SqliteInv, SqliteTypeOK
<1> HIDE DEF n, new
<1>7. /\ \A t \in Scope : t # s => (Active(t)' <=> Active(t))
      /\ \A t \in Scope : Active(t) => Active(t)'
      /\ Active(s)'
      /\ \A t \in Scope : scope'[t] = "ended" <=> scope[t] = "ended"
  BY <1>1, <1>2, <1>4 DEF Active
<1>8. InLineOnce'
  <2>1. \A v \in View : Line(v)' = Line(v)
    BY <1>1 DEF Line
  <2> QED BY <1>1, <1>7, <2>1 DEF SqliteInv, InLineOnce
<1>9. AnswersInTime'
  <2>1. \A c \in Call : within[c] = Outside =>
          result[c] = "none" /\ (c \in Scope => scope'[c] = Unused)
    <3>1. within[s] # Outside
      BY <1>2, SqliteAssumption DEF View
    <3> QED BY <1>1, <1>4, <3>1 DEF SqliteInv, AnswersInTime
  <2>2. \A t \in Scope : scope'[t] # "ended" => result[t] = "none"
    BY <1>7 DEF SqliteInv, AnswersInTime
  <2>3. \A c \in Call : within[c] \in Scope =>
          scope'[within[c]] \in {"open", "returned", "thrown"} \/ scope'[within[c]] = "ended"
    BY <1>7 DEF SqliteInv, AnswersInTime, Active
  <2> QED BY <1>1, <2>1, <2>2, <2>3 DEF AnswersInTime, Active
<1>10. /\ \A i \in 1..n : saves[i].by \in Scope
       /\ \A i \in 1..n :
            /\ Active(saves[i].by) /\ HasTurn(saves[i].by)
            /\ within[saves[i].by] = IF i = 1 THEN Root ELSE saves[i - 1].by
       /\ \A i, j \in 1..n : saves[i].by = saves[j].by => i = j
       /\ \A t \in Scope : Active(t) => \E i \in 1..n : saves[i].by = t
  BY SavesTyped DEF SqliteInv, Nested, n
<1>11. \A c \in Call : HasTurn(c) => HasTurn(c)'
  BY <1>1 DEF HasTurn, Line
<1>12. Nested'
  <2>1. ASSUME NEW i \in 1..Len(saves')
        PROVE  /\ scope'[saves'[i].by] \in {"open", "returned", "thrown"}
               /\ HasTurn(saves'[i].by)
               /\ within[saves'[i].by] = IF i = 1 THEN Root ELSE saves'[i - 1].by
    <3>1. CASE i \in 1..n
      <4>1. i = 1 \/ (i - 1 \in 1..n /\ i # 1)
        BY <1>4, <3>1 DEF n
      <4> QED BY <1>5, <1>7, <1>10, <3>1, <4>1 DEF Active
    <3>2. CASE i = n + 1
      <4>1. (n = 0 /\ i = 1) \/ (n # 0 /\ i # 1 /\ n \in 1..n /\ i - 1 = n)
        BY <1>4, <3>2 DEF n
      <4>2. within[s] = IF i = 1 THEN Root ELSE saves'[i - 1].by
        BY <1>3, <1>5, <4>1
      <4>3. scope'[s] \in {"open", "returned", "thrown"}
        BY <1>7 DEF Active
      <4> QED BY <1>2, <1>5, <3>2, <4>2, <4>3
    <3> QED BY <1>5, <3>1, <3>2
  <2>2. \A i \in 1..n : saves[i].by # s
    BY <1>2, <1>10
  <2>3. \A i, j \in 1..Len(saves') : saves'[i].by = saves'[j].by => i = j
    BY <1>5, <1>10, <2>2
  <2>4. ASSUME NEW t \in Scope, Active(t)'
        PROVE  \E i \in 1..Len(saves') : saves'[i].by = t
    <3>1. CASE t = s
      <4>1. n + 1 \in 1..Len(saves')
        BY <1>4, <1>5 DEF n
      <4> QED BY <1>5, <3>1, <4>1
    <3>2. CASE t # s
      <4>1. PICK i \in 1..n : saves[i].by = t
        BY <1>7, <1>10, <2>4, <3>2
      <4>2. i \in 1..Len(saves') /\ saves'[i].by = t
        BY <1>4, <1>5, <4>1 DEF n
      <4> QED BY <4>2
    <3> QED BY <3>1, <3>2
  <2>5. \A i \in 1..Len(saves') : HasTurn(saves[i].by)'
    <3>1. SUFFICES ASSUME NEW i \in 1..Len(saves')
                   PROVE  HasTurn(saves[i].by)'
      OBVIOUS
    <3>2. /\ Line(within[saves'[i].by]) # <<>>
          /\ Head(Line(within[saves'[i].by])) = saves'[i].by
      BY <2>1 DEF HasTurn
    <3> QED BY <1>1, <3>2 DEF HasTurn, Line
  <2>6. \A i \in 1..Len(saves') : Active(saves[i].by)'
    BY <2>1 DEF Active
  <2> QED BY <1>1, <2>1, <2>3, <2>4, <2>5, <2>6 DEF Nested
<1>13. SeenExactly'
  <2>1. \A w \in Stmt : Around(w)' = Around(w)
    BY <1>1, AroundStays
  <2>2. \A w \in Stmt : s \notin Around(w)
    BY <1>1, <1>2, SqliteAssumption, NothingWithin DEF Call
  <2>3. \A w \in Stmt : Seen(w)' <=> Seen(w)
    BY <1>1, <1>7, <2>2, SeenStays
  <2>4. conn = {w \in Stmt : Seen(w)}
    BY DEF SqliteInv, SeenExactly
  <2>5. conn' = {w \in Stmt : Seen(w)'}
    BY <1>1, <2>3, <2>4
  <2>6. ASSUME NEW i \in 1..Len(saves')
        PROVE  saves'[i].seen = {w \in conn' : saves'[i].by \notin Around(w)'}
    <3>1. CASE i \in 1..n
      <4>1. saves[i].seen = {w \in conn : saves[i].by \notin Around(w)}
        BY <3>1 DEF SqliteInv, SeenExactly, n
      <4> QED BY <1>1, <1>5, <2>1, <2>4, <3>1, <4>1
    <3>2. CASE i = n + 1
      BY <1>1, <1>5, <2>1, <2>2, <2>4, <3>2
    <3> QED BY <1>5, <3>1, <3>2
  <2>7. db' = IF saves' = <<>> THEN conn' ELSE saves'[1].seen
    <3>1. saves' # <<>>
      BY <1>1, <1>4
    <3>2. db = IF saves = <<>> THEN conn ELSE saves[1].seen
      BY DEF SqliteInv, SeenExactly
    <3>3. n = 0 \/ 1 \in 1..n
      BY <1>4 DEF n
    <3> QED BY <1>1, <1>5, <3>1, <3>2, <3>3
  <2> QED BY <2>5, <2>6, <2>7 DEF SeenExactly
<1> QED BY <1>6, <1>8, <1>9, <1>12, <1>13 DEF SqliteInv

(* A statement is run, or fails.                                             *)
LEMMA RunKeepsInv ==
  ASSUME SqliteInv, NEW w \in Stmt, Run(w) \/ RunFails(w)
  PROVE  SqliteInv'
<1>1. PICK how \in {"ok", "error"} :
        /\ AtTurn(w) /\ Settle(w, how)
        /\ \/ how = "ok" /\ conn' = conn \cup {w} /\ db' = IF saves = <<>> THEN conn' ELSE db
           \/ how = "error" /\ UNCHANGED <<conn, db>>
        /\ failed' \in {failed, failed \cup {within[w]}}
        /\ failed' # failed => within[w] # Root
        /\ UNCHANGED <<scope, within, saves, closing, closed, faults>>
  BY DEF Run, RunFails
<1>2. w \in Call /\ w \notin Scope
  BY SqliteAssumption DEF Call
<1>3. HasTurn(w) /\ within[w] \in View /\ result[w] = "none"
  BY <1>1, <1>2, TurnIs
<1>4. /\ result' = [result EXCEPT ![w] = how]
      /\ queue' \in Seq(Call \cup {Closing}) /\ tail' \in [Scope -> Seq(Call)]
  BY <1>1, <1>2, <1>3, SettleSteps DEF SqliteInv
<1>5. result \in [Call -> {"none", "ok", "error"}] /\ conn \subseteq Stmt /\ db \subseteq Stmt
      /\ failed \subseteq Scope
  BY DEF SqliteInv, SqliteTypeOK
<1>6. SqliteTypeOK'
  <2>1. failed' \subseteq Scope
    BY <1>1, <1>3, <1>5 DEF View
  <2>2. conn' \subseteq Stmt /\ db' \subseteq Stmt
    BY <1>1, <1>5
  <2>3. result' \in [Call -> {"none", "ok", "error"}]
    BY <1>4, <1>5
  <2> QED BY <1>1, <1>4, <2>1, <2>2, <2>3 DEF SqliteInv, SqliteTypeOK
<1>7. InLineOnce' /\ AnswersInTime'
  BY <1>1, <1>2, <1>3, EndKeepsLines
<1>8. Nested'
  BY <1>1, <1>2, <1>3, EndKeepsNested
<1>9. \A u \in Stmt : Around(u)' = Around(u)
  BY <1>1, AroundStays
<1>10. \A s \in Scope : Active(s)' <=> Active(s)
  BY <1>1 DEF Active
<1>11. \A d \in Call : d # w => result'[d] = result[d]
  BY <1>4, <1>5
<1>12. \A u \in Stmt : u # w => (Seen(u)' <=> Seen(u))
  <2>1. SUFFICES ASSUME NEW u \in Stmt, u # w
                 PROVE  Seen(u)' <=> Seen(u)
    OBVIOUS
  <2>2. u \in Call
    BY DEF Call
  <2>3. w \notin Around(u) /\ Around(u) \in SUBSET Call
    BY <1>2, <2>1, <2>2, NothingWithin, AroundCall
  <2>4. \A d \in Around(u) : result'[d] = result[d] /\ (d \in Scope => (Active(d)' <=> Active(d)))
    BY <1>10, <1>11, <2>3
  <2> QED BY <1>1, <2>4, SeenStays
<1>13. w \in Around(w)
  BY <1>2, AroundCall
<1>14. ~Seen(w)
  BY <1>2, <1>3, <1>13 DEF Seen
<1>15. Seen(w)' <=> how = "ok"
  <2>1. result'[w] = how
    BY <1>2, <1>4, <1>5
  <2>2. \A d \in Around(w) : d = w \/ (d \in Scope /\ Active(d)')
    BY <1>2, <1>3, <1>10, TurnIsInside
  <2>3. how = "error" => ~Seen(w)'
    BY <1>2, <1>9, <1>13, <2>1 DEF Seen
  <2>4. how = "ok" => Seen(w)'
    BY <1>9, <2>1, <2>2 DEF Seen, Active
  <2> QED BY <1>1, <2>3, <2>4
<1>16. /\ conn = {u \in Stmt : Seen(u)}
       /\ \A i \in 1..Len(saves) : saves[i].seen = {u \in conn : saves[i].by \notin Around(u)}
       /\ db = IF saves = <<>> THEN conn ELSE saves[1].seen
  BY DEF SqliteInv, SeenExactly
<1>17. conn' = {u \in Stmt : Seen(u)'}
  <2>1. conn' = {u \in Stmt : Seen(u) \/ (u = w /\ how = "ok")}
    BY <1>1, <1>14, <1>16
  <2> QED BY <1>12, <1>14, <1>15, <2>1
<1>18. \A i \in 1..Len(saves) : saves[i].seen = {u \in conn' : saves[i].by \notin Around(u)'}
  <2>1. \A i \in 1..Len(saves) : saves[i].by \in Around(w)
    BY <1>3, TurnIsInside
  <2>2. conn' \subseteq conn \cup {w} /\ conn \subseteq conn'
    BY <1>1
  <2> QED BY <1>5, <1>9, <1>16, <2>1, <2>2
<1>19. SeenExactly'
  <2>1. db' = IF saves = <<>> THEN conn' ELSE saves[1].seen
    BY <1>1, <1>16
  <2> QED BY <1>1, <1>17, <1>18, <2>1 DEF SeenExactly
<1> QED BY <1>6, <1>7, <1>8, <1>19 DEF SqliteInv

(* BEGIN or SAVEPOINT fails.                                                 *)
LEMMA BeginFailsKeepsInv ==
  ASSUME SqliteInv, NEW s \in Scope, BeginFails(s)
  PROVE  SqliteInv'
<1>1. /\ scope[s] = "queued" /\ AtTurn(s) /\ Settle(s, "error")
      /\ faults < MaxFaults /\ faults' = faults + 1
      /\ scope' = [scope EXCEPT ![s] = "ended"]
      /\ UNCHANGED <<within, failed, db, conn, saves, closing, closed>>
  BY DEF BeginFails
<1>2. s \in Call /\ ~Active(s)
  BY <1>1 DEF Call, Active
<1>3. HasTurn(s) /\ within[s] \in View /\ result[s] = "none"
  BY <1>1, <1>2, TurnIs
<1>4. /\ result' = [result EXCEPT ![s] = "error"]
      /\ queue' \in Seq(Call \cup {Closing}) /\ tail' \in [Scope -> Seq(Call)]
  BY <1>1, <1>2, <1>3, SettleSteps DEF SqliteInv
<1>5. result \in [Call -> {"none", "ok", "error"}] /\ faults \in 0..MaxFaults /\ MaxFaults \in Nat
      /\ scope \in [Scope -> {Unused, "queued", "open", "returned", "thrown", "ended"}]
  BY SqliteAssumption DEF SqliteInv, SqliteTypeOK
<1>6. SqliteTypeOK'
  <2>1. faults' \in 0..MaxFaults
    BY <1>1, <1>5
  <2>2. result' \in [Call -> {"none", "ok", "error"}]
    BY <1>4, <1>5
  <2>3. scope' \in [Scope -> {Unused, "queued", "open", "returned", "thrown", "ended"}]
    BY <1>1, <1>5
  <2> QED BY <1>1, <1>4, <2>1, <2>2, <2>3 DEF SqliteInv, SqliteTypeOK
<1>7. \A t \in Scope : scope'[t] = IF t = s THEN "ended" ELSE scope[t]
  BY <1>1, <1>5
<1>8. InLineOnce' /\ AnswersInTime'
  <2>1. Drained(s)
    BY <1>2 DEF SqliteInv, InLineOnce, Drained
  <2> QED BY <1>1, <1>2, <1>3, <1>7, <2>1, EndKeepsLines
<1>9. Nested'
  BY <1>1, <1>2, <1>3, <1>7, EndKeepsNested
<1>10. SeenExactly'
  <2>1. \A u \in Stmt : Around(u)' = Around(u)
    BY <1>1, AroundStays
  <2>2. \A t \in Scope : Active(t)' <=> Active(t)
    BY <1>2, <1>7 DEF Active
  <2>3. ASSUME NEW u \in Stmt
        PROVE  Seen(u)' <=> Seen(u)
    <3>1. u \in Call /\ u # s
      BY SqliteAssumption DEF Call
    <3>2. s \notin Around(u) /\ Around(u) \in SUBSET Call
      BY <1>1, <1>2, <3>1, NothingWithin, AroundCall
    <3>3. \A d \in Around(u) : result'[d] = result[d] /\ (d \in Scope => (Active(d)' <=> Active(d)))
      BY <1>4, <1>5, <2>2, <3>2
    <3> QED BY <1>1, <3>3, SeenStays
  <2> QED BY <1>1, <2>1, <2>3 DEF SqliteInv, SeenExactly
<1> QED BY <1>6, <1>8, <1>9, <1>10 DEF SqliteInv

(* The innermost transaction is committed, or rolled back.                   *)
LEMMA FinishKeepsInv ==
  ASSUME SqliteInv, NEW s \in Scope, Commit(s) \/ Rollback(s)
  PROVE  SqliteInv'
<1> DEFINE n == Len(saves)
<1>1. PICK how \in {"ok", "error"} :
        /\ \/ how = "ok" /\ conn' = conn /\ db' = IF within[s] = Root THEN conn ELSE db
           \/ how = "error" /\ conn' = Last(saves).seen /\ db' = db
        /\ Settle(s, how)
  BY DEF Commit, Rollback
<1>2. /\ scope[s] \in {"returned", "thrown"} /\ Drained(s)
      /\ saves' = Front(saves) /\ scope' = [scope EXCEPT ![s] = "ended"]
      /\ UNCHANGED <<within, failed, closing, closed, faults>>
  BY DEF Commit, Rollback
<1>3. s \in Call /\ Active(s)
  BY <1>2 DEF Call, Active
<1>4. /\ n \in Nat \ {0} /\ saves # <<>> /\ saves[n].by = s
      /\ HasTurn(s) /\ within[s] \in View
  BY <1>2, <1>3, DrainedInnermost
<1>5. /\ saves \in Seq([by : Scope, seen : SUBSET Stmt])
      /\ result \in [Call -> {"none", "ok", "error"}] /\ conn \subseteq Stmt /\ db \subseteq Stmt
      /\ scope \in [Scope -> {Unused, "queued", "open", "returned", "thrown", "ended"}]
  BY DEF SqliteInv, SqliteTypeOK
<1>6. /\ Len(saves') = n - 1 /\ \A i \in 1..(n - 1) : saves'[i] = saves[i]
      /\ saves' \in Seq([by : Scope, seen : SUBSET Stmt])
  BY <1>2, <1>4, <1>5, FrontIs
<1>7. /\ result' = [result EXCEPT ![s] = how]
      /\ queue' \in Seq(Call \cup {Closing}) /\ tail' \in [Scope -> Seq(Call)]
  BY <1>1, <1>3, <1>4, SettleSteps DEF SqliteInv
<1>8. /\ conn = {u \in Stmt : Seen(u)}
      /\ \A i \in 1..n : saves[i].seen = {u \in conn : saves[i].by \notin Around(u)}
      /\ db = saves[1].seen
  BY <1>4 DEF SqliteInv, SeenExactly
<1>9. Last(saves).seen = {u \in conn : s \notin Around(u)}
  <2>1. n \in 1..n /\ Last(saves) = saves[n]
    BY <1>4 DEF Last
  <2> QED BY <1>4, <1>8, <2>1
<1>10. \A t \in Scope : scope'[t] = IF t = s THEN "ended" ELSE scope[t]
  BY <1>2, <1>5
<1>11. SqliteTypeOK'
  <2>1. conn' \subseteq Stmt /\ db' \subseteq Stmt
    BY <1>1, <1>5, <1>9
  <2>2. result' \in [Call -> {"none", "ok", "error"}]
    BY <1>5, <1>7
  <2>3. scope' \in [Scope -> {Unused, "queued", "open", "returned", "thrown", "ended"}]
    BY <1>2, <1>5
  <2> QED BY <1>2, <1>6, <1>7, <2>1, <2>2, <2>3 DEF SqliteInv, SqliteTypeOK
<1>12. InLineOnce' /\ AnswersInTime'
  BY <1>1, <1>2, <1>3, <1>4, <1>10, EndKeepsLines
<1>13. Nested'
  BY <1>1, <1>2, <1>3, <1>10, PopKeepsNested
<1>14. \A u \in Stmt : Around(u)' = Around(u) /\ Around(u) \in SUBSET Call
  BY <1>2, AroundStays, AroundCall DEF Call
<1>15. \A d \in Call : d # s => result'[d] = result[d]
  BY <1>5, <1>7
<1>16. \A t \in Scope : t # s => (Active(t)' <=> Active(t))
  BY <1>10 DEF Active
<1>17. ASSUME NEW u \in Stmt
       PROVE  Seen(u)' <=> Seen(u) /\ (how = "ok" \/ s \notin Around(u))
  <2>1. ~Active(s)' /\ result'[s] = how
    BY <1>3, <1>5, <1>7, <1>10 DEF Active
  <2>2. CASE s \notin Around(u)
    <3>1. \A d \in Around(u) : result'[d] = result[d] /\ (d \in Scope => (Active(d)' <=> Active(d)))
      BY <1>14, <1>15, <1>16, <2>2
    <3>2. Seen(u)' <=> Seen(u)
      BY <1>2, <3>1, SeenStays
    <3> QED BY <2>2, <3>2
  <2>3. CASE s \in Around(u)
    <3> DEFINE Others == \A d \in Around(u) \ {s} :
                           result[d] = "ok" \/ (d \in Scope /\ Active(d))
    <3>1. Seen(u) <=> Others
      BY <1>3, <2>3 DEF Seen
    <3>2. \A d \in Around(u) \ {s} : (result'[d] = "ok" \/ (d \in Scope /\ Active(d)'))
                                     <=> (result[d] = "ok" \/ (d \in Scope /\ Active(d)))
      BY <1>14, <1>15, <1>16
    <3>3. Seen(u)' <=> (result'[s] = "ok" \/ Active(s)') /\ Others
      BY <1>14, <2>3, <3>2 DEF Seen, Active
    <3>4. Seen(u)' <=> how = "ok" /\ Others
      BY <2>1, <3>3
    <3> HIDE DEF Others
    <3> QED BY <2>3, <3>1, <3>4
  <2> QED BY <2>2, <2>3
<1>18. conn' = {u \in Stmt : Seen(u)'}
  <2>1. conn' = {u \in Stmt : Seen(u) /\ (how = "ok" \/ s \notin Around(u))}
    BY <1>1, <1>8, <1>9
  <2> QED BY <1>17, <2>1
<1>19. ASSUME NEW i \in 1..(n - 1)
       PROVE  /\ i \in 1..n
              /\ \A u \in Stmt : s \in Around(u) => saves[i].by \in Around(u)
  <2>1. i \in 1..n /\ n \in 1..n
    BY <1>4
  <2>2. \A u \in Stmt : u \in Call
    BY DEF Call
  <2> QED BY <1>4, <2>1, <2>2, WithinAll
<1>20. \A i \in 1..Len(saves') : saves'[i].seen = {u \in conn' : saves'[i].by \notin Around(u)'}
  <2>1. SUFFICES ASSUME NEW i \in 1..(n - 1)
                 PROVE  saves[i].seen = {u \in conn' : saves[i].by \notin Around(u)'}
    BY <1>6
  <2>2. saves[i].seen = {u \in conn : saves[i].by \notin Around(u)}
    BY <1>8, <1>19
  <2>3. \A u \in Stmt : saves[i].by \notin Around(u) => (u \in conn' <=> u \in conn)
    BY <1>8, <1>17, <1>18, <1>19
  <2>4. conn' \subseteq Stmt
    BY <1>18
  <2> QED BY <1>5, <1>14, <2>2, <2>3, <2>4
<1>21. db' = IF saves' = <<>> THEN conn' ELSE saves'[1].seen
  <2>1. within[s] = IF n = 1 THEN Root ELSE saves[n - 1].by
    <3>1. n \in 1..n
      BY <1>4
    <3> QED BY <1>4, <3>1 DEF SqliteInv, Nested
  <2>2. CASE n = 1
    <3>1. saves' = <<>>
      BY <1>6, <2>2
    <3>2. db = {u \in conn : s \notin Around(u)}
      BY <1>4, <1>8, <2>2
    <3> QED BY <1>1, <1>9, <2>1, <2>2, <3>1, <3>2
  <2>3. CASE n # 1
    <3>1. n - 1 \in 1..n /\ 1 \in 1..(n - 1) /\ saves' # <<>>
      BY <1>4, <1>6, <2>3
    <3>2. within[s] # Root
      BY <2>1, <2>3, <3>1, SavesTyped, SqliteAssumption DEF SqliteInv
    <3> QED BY <1>1, <1>6, <1>8, <3>1, <3>2
  <2> QED BY <2>2, <2>3
<1>22. SeenExactly'
  BY <1>18, <1>20, <1>21 DEF SeenExactly
<1> QED BY <1>11, <1>12, <1>13, <1>22 DEF SqliteInv

LEMMA SqliteInvKept ==
  ASSUME SqliteInv, [SqliteNext]_sqliteVars
  PROVE  SqliteInv'
<1>1. ASSUME NEW c \in Caller, NEW view \in View, Statement(c, view)
      PROVE  SqliteInv'
  <2> DEFINE x == CHOOSE w \in Unstarted(Stmt) : TRUE
  <2>1. x \in Stmt /\ within[x] = Outside
    BY <1>1 DEF Statement, Unstarted
  <2>2. Enlist(x, view)
    BY <1>1 DEF Statement
  <2>3. view \in Scope => Active(view)
    BY <1>1, SqliteAssumption DEF Statement, MayUse, Open, Active
  <2>4. UNCHANGED <<scope, failed, result, db, conn, saves, closing, closed, faults>>
    BY <1>1 DEF Statement
  <2> HIDE DEF x
  <2>5. x \in Call \cup {Closing} /\ x # Closing /\ x \notin Scope
    BY <2>1, SqliteAssumption DEF Call
  <2> QED BY <2>1, <2>2, <2>3, <2>4, <2>5, JoiningKeepsInv DEF Enlist, SqliteInv, SqliteTypeOK
<1>2. ASSUME NEW c \in Caller, NEW view \in View, Transaction(c, view)
      PROVE  SqliteInv'
  <2> DEFINE x == CHOOSE t \in Unstarted(Scope) : TRUE
             v == IF c = Outside THEN Root ELSE c
  <2>1. x \in Scope /\ within[x] = Outside
    BY <1>2 DEF Transaction, Unstarted
  <2>2. Enlist(x, v) /\ scope' = [scope EXCEPT ![x] = "queued"]
    BY <1>2 DEF Transaction
  <2>3. v \in View /\ (v \in Scope => Active(v))
    BY SqliteAssumption DEF Caller, Open, Active, View
  <2>4. UNCHANGED <<failed, result, db, conn, saves, closing, closed, faults>>
    BY <1>2 DEF Transaction
  <2> HIDE DEF x, v
  <2>5. x \in Call \cup {Closing} /\ x # Closing
    BY <2>1, SqliteAssumption DEF Call
  <2>6. /\ scope' \in [Scope -> {Unused, "queued", "open", "returned", "thrown", "ended"}]
        /\ \A s \in Scope : scope'[s] = IF s = x THEN "queued" ELSE scope[s]
    BY <2>1, <2>2 DEF SqliteInv, SqliteTypeOK
  <2> QED BY <2>1, <2>2, <2>3, <2>4, <2>5, <2>6, JoiningKeepsInv DEF Enlist, SqliteInv, SqliteTypeOK
<1>3. CASE CallClose
  <2>1. /\ closing' = TRUE /\ queue' = Append(queue, Closing)
        /\ UNCHANGED <<tail, scope, within, failed, result, db, conn, saves, closed, faults>>
    BY <1>3 DEF CallClose
  <2>2. Closing \notin Scope /\ Root \notin Scope /\ Root \in View
    BY SqliteAssumption DEF View
  <2>3. scope \in [Scope -> {Unused, "queued", "open", "returned", "thrown", "ended"}]
    BY DEF SqliteInv, SqliteTypeOK
  <2> QED BY <2>1, <2>2, <2>3, JoiningKeepsInv
<1>4. ASSUME NEW w \in Stmt, Run(w) \/ RunFails(w)
      PROVE  SqliteInv'
  BY <1>4, RunKeepsInv
<1>5. ASSUME NEW s \in Scope, Begin(s) \/ BeginFails(s)
      PROVE  SqliteInv'
  BY <1>5, BeginKeepsInv, BeginFailsKeepsInv
<1>6. ASSUME NEW s \in Scope, Return(s) \/ Throw(s) \/ CommitFails(s)
      PROVE  SqliteInv'
  <2>1. Active(s)
    BY <1>6 DEF Return, Throw, CommitFails, Open, Active
  <2>2. scope' \in {[scope EXCEPT ![s] = "returned"], [scope EXCEPT ![s] = "thrown"]}
        /\ UNCHANGED <<queue, tail, within, failed, result, db, conn, saves, closing, closed>>
    BY <1>6 DEF Return, Throw, CommitFails
  <2>3. faults' \in 0..MaxFaults
    BY <1>6, SqliteAssumption DEF Return, Throw, CommitFails, SqliteInv, SqliteTypeOK
  <2> QED BY <2>1, <2>2, <2>3, ReturningKeepsInv
<1>7. ASSUME NEW s \in Scope, Commit(s) \/ Rollback(s)
      PROVE  SqliteInv'
  BY <1>7, FinishKeepsInv
<1>8. CASE Closes
  BY <1>8, ClosingKeepsInv
<1>9. CASE UNCHANGED sqliteVars
  <2>1. UNCHANGED <<queue, tail, scope, within, failed, result, db, conn, saves, closing, closed,
                    faults>>
    BY <1>9 DEF sqliteVars
  <2>2. /\ \A u \in Stmt : (Seen(u)' <=> Seen(u)) /\ Around(u)' = Around(u)
    BY <2>1, SeenStays, AroundStays DEF Active
  <2>3. SqliteTypeOK' /\ AnswersInTime'
    BY <2>1 DEF SqliteInv, SqliteTypeOK, AnswersInTime, Active
  <2>4. InLineOnce'
    BY <2>1 DEF SqliteInv, InLineOnce, Line, Active
  <2>5. Nested'
    BY <2>1 DEF SqliteInv, Nested, HasTurn, Line, Active
  <2>6. SeenExactly'
    BY <2>1, <2>2 DEF SqliteInv, SeenExactly
  <2> QED BY <2>3, <2>4, <2>5, <2>6 DEF SqliteInv
<1> QED
  BY <1>1, <1>2, <1>3, <1>4, <1>5, <1>6, <1>7, <1>8, <1>9 DEF SqliteNext

(* What is in the file are the writes within no transaction under way.       *)
LEMMA OnlyCommitted ==
  ASSUME SqliteInv
  PROVE  CommittedExactly
<1>1. /\ Len(saves) \in Nat /\ \A i \in 1..Len(saves) : saves[i].by \in Scope
      /\ saves = <<>> <=> Len(saves) = 0
  <2>1. saves \in Seq([by : Scope, seen : SUBSET Stmt])
    BY DEF SqliteInv, SqliteTypeOK
  <2> QED BY <2>1, SavesTyped DEF SqliteInv
<1>2. /\ conn = {w \in Stmt : Seen(w)}
      /\ \A i \in 1..Len(saves) : saves[i].seen = {w \in conn : saves[i].by \notin Around(w)}
      /\ db = IF saves = <<>> THEN conn ELSE saves[1].seen
  BY DEF SqliteInv, SeenExactly
<1>3. \A s \in Scope : Active(s) => /\ \E i \in 1..Len(saves) : saves[i].by = s
                                    /\ result[s] = "none"
  BY DEF SqliteInv, Nested, AnswersInTime, Active
<1>4. ASSUME NEW w \in Stmt
      PROVE  w \in db <=> \A c \in Around(w) : result[c] = "ok"
  <2>0. w \in Call
    BY DEF Call
  <2>1. CASE saves = <<>>
    <3>1. \A s \in Scope : ~Active(s)
      BY <1>1, <1>3, <2>1
    <3> QED BY <1>2, <2>1, <3>1 DEF Seen
  <2>2. CASE saves # <<>>
    <3>1. 1 \in 1..Len(saves)
      BY <1>1, <2>2
    <3>2. w \in db <=> Seen(w) /\ saves[1].by \notin Around(w)
      BY <1>2, <2>2, <3>1
    <3>3. saves[1].by \notin Around(w) => \A c \in Around(w) : ~(c \in Scope /\ Active(c))
      <4>1. SUFFICES ASSUME NEW c \in Around(w), c \in Scope, Active(c)
                     PROVE  saves[1].by \in Around(w)
        OBVIOUS
      <4>2. PICK i \in 1..Len(saves) : saves[i].by = c
        BY <1>3, <4>1
      <4>3. 1 \in 1..i
        BY <1>1
      <4> QED BY <2>0, <4>1, <4>2, <4>3, WithinAll
    <3>4. result[saves[1].by] = "none"
      <4>1. Active(saves[1].by) /\ saves[1].by \in Scope
        BY <1>1, <3>1 DEF SqliteInv, Nested
      <4> QED BY <1>3, <4>1
    <3> QED BY <3>2, <3>3, <3>4 DEF Seen
  <2> QED BY <2>1, <2>2
<1> QED BY <1>4 DEF CommittedExactly

(* A connection without calls, open or closed.                               *)
Uncalled ==
  /\ queue = <<>> /\ tail = [s \in Scope |-> <<>>]
  /\ scope = [s \in Scope |-> Unused] /\ within = [c \in Call |-> Outside]
  /\ failed = {} /\ result = [c \in Call |-> "none"]
  /\ db = {} /\ conn = {} /\ saves = <<>>
  /\ closing \in BOOLEAN /\ closed \in BOOLEAN /\ faults = 0

LEMMA UncalledInv ==
  ASSUME Uncalled
  PROVE  SqliteInv
<1>1. /\ queue = <<>> /\ tail = [s \in Scope |-> <<>>]
      /\ scope = [s \in Scope |-> Unused] /\ within = [c \in Call |-> Outside]
      /\ failed = {} /\ result = [c \in Call |-> "none"]
      /\ db = {} /\ conn = {} /\ saves = <<>>
      /\ closing \in BOOLEAN /\ closed \in BOOLEAN /\ faults = 0
  BY DEF Uncalled
<1>2. SqliteTypeOK
  <2>1. queue \in Seq(Call \cup {Closing}) /\ saves \in Seq([by : Scope, seen : SUBSET Stmt])
    BY <1>1
  <2>2. tail \in [Scope -> Seq(Call)]
    BY <1>1
  <2>3. faults \in 0..MaxFaults
    BY <1>1, SqliteAssumption
  <2>4. within \in [Call -> View \cup {Outside}] /\ result \in [Call -> {"none", "ok", "error"}]
        /\ scope \in [Scope -> {Unused, "queued", "open", "returned", "thrown", "ended"}]
    BY <1>1
  <2> QED BY <1>1, <2>1, <2>2, <2>3, <2>4 DEF SqliteTypeOK
<1>3. \A v \in View : Line(v) = <<>>
  BY <1>1 DEF Line, View
<1>4. InLineOnce
  BY <1>1, <1>3 DEF InLineOnce
<1>5. AnswersInTime
  BY <1>1, SqliteAssumption DEF AnswersInTime, Call, Unused
<1>6. Nested
  BY <1>1 DEF Nested, Active, Unused
<1>7. SeenExactly
  <2>1. ASSUME NEW w \in Stmt PROVE ~Seen(w)
    <3>1. w \in Call /\ w \notin Scope
      BY SqliteAssumption DEF Call
    <3>2. w \in Around(w) /\ result[w] = "none"
      BY <1>1, <3>1, AroundCall
    <3> QED BY <3>1, <3>2 DEF Seen
  <2> QED BY <1>1, <2>1 DEF SeenExactly
<1> QED BY <1>2, <1>4, <1>5, <1>6, <1>7 DEF SqliteInv

(* transaction() of src/common/sqlite.ts, for any transactions, statements   *)
(* and failures: a write is in the file exactly if it succeeded in           *)
(* transactions that succeeded all the way out.                              *)
THEOREM TransactionsAtomic == SqliteSpec => []CommittedExactly
<1>1. SqliteInit => SqliteInv
  BY UncalledInv DEF SqliteInit, Uncalled
<1>2. SqliteInv /\ [SqliteNext]_sqliteVars => SqliteInv'
  BY SqliteInvKept
<1>3. SqliteInv => CommittedExactly
  BY OnlyCommitted
<1> QED BY <1>1, <1>2, <1>3, PTL DEF SqliteSpec
-----------------------------------------------------------------------------
(* The registry.                                                             *)

(* What is left of a sequence without its i-th element. *)
LEMMA WithoutAt ==
  ASSUME NEW S, NEW q \in Seq(S), NEW i \in 1..Len(q)
  PROVE  /\ RemoveAt(q, i) \in Seq(S)
         /\ Len(RemoveAt(q, i)) = Len(q) - 1
         /\ \A j \in 1..(Len(q) - 1) : RemoveAt(q, i)[j] = IF j < i THEN q[j] ELSE q[j + 1]
<1> DEFINE a == SubSeq(q, 1, i - 1)
           b == SubSeq(q, i + 1, Len(q))
<1>1. Len(q) \in Nat /\ i \in 1..Len(q)
  OBVIOUS
<1>2. /\ a \in Seq(S) /\ Len(a) = i - 1
      /\ \A j \in 1..(i - 1) : a[j] = q[j]
  BY <1>1
<1>3. /\ b \in Seq(S) /\ Len(b) = Len(q) - i
      /\ \A j \in 1..(Len(q) - i) : b[j] = q[i + j]
  BY <1>1
<1>4. RemoveAt(q, i) = a \o b
  BY DEF RemoveAt
<1> HIDE DEF a, b
<1>5. a \o b \in Seq(S) /\ Len(a \o b) = Len(a) + Len(b)
  BY <1>2, <1>3, ConcatProperties
<1>6. ASSUME NEW j \in 1..(Len(q) - 1)
      PROVE  (a \o b)[j] = IF j < i THEN q[j] ELSE q[j + 1]
  <2>1. CASE j < i
    BY <1>1, <1>2, <1>3, <2>1
  <2>2. CASE ~(j < i)
    <3>1. (a \o b)[j] = b[j - Len(a)]
      BY <1>1, <1>2, <1>3, <2>2
    <3>2. j - Len(a) \in 1..(Len(q) - i) /\ i + (j - Len(a)) = j + 1
      BY <1>1, <1>2, <2>2
    <3> QED BY <1>3, <3>1, <3>2, <2>2
  <2> QED BY <2>1, <2>2
<1> QED BY <1>1, <1>2, <1>3, <1>4, <1>5, <1>6

(* Removing the first occurrence of an element loses no other element. *)
LEMMA WithoutFirst ==
  ASSUME NEW S, NEW q \in Seq(S), NEW e
  PROVE  /\ RemoveFirst(q, e) \in Seq(S)
         /\ Len(RemoveFirst(q, e)) <= Len(q)
         /\ \A x \in Range(q) : x # e => x \in Range(RemoveFirst(q, e))
<1>1. CASE ~ \E i \in 1..Len(q) : q[i] = e
  BY <1>1 DEF RemoveFirst
<1>2. CASE \E i \in 1..Len(q) : q[i] = e
  <2> DEFINE I == {i \in 1..Len(q) : q[i] = e}
             k == Min(I)
  <2>1. I \in SUBSET Nat /\ I # {}
    BY <1>2
  <2>2. k \in I
    <3>1. \E n \in I : \A m \in I : n <= m
      BY <2>1, LeastNumber
    <3> QED BY <3>1 DEF Min
  <2>3. RemoveFirst(q, e) = RemoveAt(q, k)
    BY <1>2, <2>1 DEF RemoveFirst, SelectInSeq
  <2> HIDE DEF k
  <2>4. k \in 1..Len(q) /\ q[k] = e
    BY <2>2
  <2> DEFINE p == RemoveAt(q, k)
  <2>5. /\ p \in Seq(S) /\ Len(p) = Len(q) - 1
        /\ \A j \in 1..(Len(q) - 1) : p[j] = IF j < k THEN q[j] ELSE q[j + 1]
    BY <2>4, WithoutAt
  <2> HIDE DEF p
  <2>6. ASSUME NEW x \in Range(q), x # e
        PROVE  x \in Range(p)
    <3>1. PICK n \in 1..Len(q) : q[n] = x
      BY DEF Range
    <3>2. n # k
      BY <3>1, <2>4, <2>6
    <3>3. CASE n < k
      <4>1. n \in 1..(Len(q) - 1) /\ n \in DOMAIN p /\ p[n] = x
        BY <2>4, <2>5, <3>1, <3>3
      <4> QED BY <4>1 DEF Range
    <3>4. CASE n > k
      <4>1. n - 1 \in 1..(Len(q) - 1) /\ n - 1 \in DOMAIN p /\ p[n - 1] = x
        BY <2>4, <2>5, <3>1, <3>4
      <4> QED BY <4>1 DEF Range
    <3> QED BY <2>4, <3>1, <3>2, <3>3, <3>4
  <2>7. RemoveFirst(q, e) = p
    BY <2>3 DEF p
  <2> QED BY <2>5, <2>6, <2>7
<1> QED BY <1>1, <1>2
-----------------------------------------------------------------------------
(* The types of the registry, and that a run whose question is being saved   *)
(* waits for the answer, so that the end of the save cannot make a result of *)
(* it.                                                                       *)
RegistryInv ==
  /\ registered \subseteq AgentRun /\ background \subseteq AgentRun
  /\ terminalOrder \in Seq(AgentRun)
  /\ status \in [AgentRun -> {"unused", "running", "done"} \cup Parked]
  /\ op \in [AgentRun -> {"none", "works", "asks", "saves", "prunes"}]
  /\ \A r \in AgentRun : op[r] = "asks" => status[r] = "waiting"
  /\ Accounted

(* A step that retains nothing keeps the invariant if the runs that are then *)
(* over were over before, in the order, and the order still has them.        *)
LEMMA NothingRetained ==
  ASSUME RegistryInv,
         registered' \subseteq AgentRun, background' \subseteq AgentRun,
         terminalOrder' \in Seq(AgentRun), Len(terminalOrder') <= Len(terminalOrder),
         status' \in [AgentRun -> {"unused", "running", "done"} \cup Parked],
         op' \in [AgentRun -> {"none", "works", "asks", "saves", "prunes"}],
         \A r \in AgentRun : op'[r] = "asks" => status'[r] = "waiting",
         \A r \in registered' \cap background' :
           (op'[r] \in {"none", "prunes"} /\ status'[r] = "done") =>
             /\ r \in registered \cap background
             /\ op[r] \in {"none", "prunes"} /\ status[r] = "done"
             /\ r \in Range(terminalOrder) => r \in Range(terminalOrder')
  PROVE  RegistryInv'
<1>1. Len(terminalOrder) \in Nat /\ Len(terminalOrder') \in Nat
  BY DEF RegistryInv
<1>2. Len(terminalOrder') <= MaxRetained
  BY <1>1, RetentionAssumption DEF RegistryInv, Accounted
<1>3. \A r \in registered' \cap background' :
        (op'[r] \in {"none", "prunes"} /\ status'[r] = "done") => r \in Range(terminalOrder')
  BY DEF RegistryInv, Accounted
<1> QED BY <1>2, <1>3 DEF RegistryInv, Accounted

(* The ways in which the runs under way change.                              *)
LEMMA WorkKeepsRegistry ==
  ASSUME RegistryInv, NEW r \in AgentRun, Works(r),
         UNCHANGED terminalOrder,
         background' \in {background, background \cup {r}, background \ {r}}
  PROVE  RegistryInv'
<1>1. /\ registered' = registered \cup {r}
      /\ status' = [status EXCEPT ![r] = "running"]
      /\ op' = [op EXCEPT ![r] = "works"]
  BY DEF Works
<1> QED BY <1>1, NothingRetained DEF RegistryInv

LEMMA LeavingKeepsRegistry ==
  ASSUME RegistryInv, NEW r \in AgentRun, Unregistered(r), UNCHANGED <<background, op>>,
         status' \in {status, [status EXCEPT ![r] = "done"]},
         op[r] # "asks" \/ UNCHANGED status
  PROVE  RegistryInv'
<1>1. registered' = registered \ {r} /\ terminalOrder' = RemoveFirst(terminalOrder, r)
  BY DEF Unregistered
<1>2. /\ terminalOrder' \in Seq(AgentRun) /\ Len(terminalOrder') <= Len(terminalOrder)
      /\ \A x \in Range(terminalOrder) : x # r => x \in Range(terminalOrder')
  BY <1>1, WithoutFirst DEF RegistryInv
<1> QED BY <1>1, <1>2, NothingRetained DEF RegistryInv

(* A result is retained at the end of the order, and what is pruned for it   *)
(* leaves the registry too, if it still was in it.                           *)
LEMMA RetainingKeepsRegistry ==
  ASSUME RegistryInv, NEW r \in AgentRun, RetainTerminal(r)
  PROVE  RegistryInv'
<1> DEFINE order == Append(terminalOrder, r)
<1>1. /\ order \in Seq(AgentRun) /\ Len(order) = Len(terminalOrder) + 1
      /\ order # <<>> /\ Len(terminalOrder) \in Nat
      /\ \A i \in 1..Len(terminalOrder) : order[i] = terminalOrder[i]
      /\ order[Len(order)] = r
  BY DEF RegistryInv
<1>2. \A x \in Range(terminalOrder) \cup {r} : \E i \in 1..Len(order) : order[i] = x
  BY <1>1 DEF Range
<1>3. /\ UNCHANGED <<status, background>>
      /\ op[r] = "saves" /\ op' = [op EXCEPT ![r] = "prunes"]
      /\ Pruned(order)
  BY DEF RetainTerminal
<1> HIDE DEF order
<1>4. ASSUME NEW x \in registered \cap background,
             op'[x] \in {"none", "prunes"}, status[x] = "done"
      PROVE  x \in Range(order)
  <2>1. x = r \/ op[x] \in {"none", "prunes"}
    BY <1>3, <1>4 DEF RegistryInv
  <2>2. x \in Range(terminalOrder) \cup {r}
    BY <1>4, <2>1 DEF RegistryInv, Accounted
  <2>3. DOMAIN order = 1..Len(order)
    BY <1>1
  <2> QED BY <1>2, <2>2, <2>3 DEF Range
<1>5. op' \in [AgentRun -> {"none", "works", "asks", "saves", "prunes"}]
      /\ \A x \in AgentRun : op'[x] = "asks" => status[x] = "waiting"
  BY <1>3 DEF RegistryInv
<1>6. Len(terminalOrder) <= MaxRetained /\ MaxRetained \in Nat
  BY RetentionAssumption DEF RegistryInv, Accounted
<1>7. CASE Len(order) <= MaxRetained
  <2>1. UNCHANGED registered /\ terminalOrder' = order
    BY <1>3, <1>7 DEF Pruned
  <2> QED BY <1>1, <1>3, <1>4, <1>5, <1>7, <2>1 DEF RegistryInv, Accounted
<1>8. CASE ~(Len(order) <= MaxRetained)
  <2> DEFINE h == Head(order)
  <2>1. /\ h \in AgentRun /\ Tail(order) \in Seq(AgentRun)
        /\ Len(Tail(order)) = Len(order) - 1
    BY <1>1, HeadTailProperties
  <2>2. \A x \in Range(order) : x # h => x \in Range(Tail(order))
    <3>1. \A i \in 1..Len(Tail(order)) : Tail(order)[i] = order[i + 1]
      BY <1>1, HeadTailProperties
    <3>2. SUFFICES ASSUME NEW i \in 1..Len(order), order[i] # h
                   PROVE  order[i] \in Range(Tail(order))
      BY <1>1 DEF Range
    <3>3. i # 1
      BY <1>1, <3>2
    <3>4. i - 1 \in 1..Len(Tail(order)) /\ Tail(order)[i - 1] = order[i]
      BY <1>1, <2>1, <3>1, <3>3
    <3>5. i - 1 \in DOMAIN Tail(order)
      BY <2>1, <3>4
    <3> QED BY <3>4, <3>5 DEF Range
  <2>3. /\ registered' = registered \ {h}
        /\ terminalOrder' \in {Tail(order), RemoveFirst(Tail(order), h)}
    BY <1>3, <1>8 DEF Pruned
  <2> HIDE DEF h
  <2>4. /\ terminalOrder' \in Seq(AgentRun) /\ Len(terminalOrder') <= Len(order) - 1
        /\ \A x \in Range(order) : x # h => x \in Range(terminalOrder')
    <3> DEFINE t == Tail(order)
    <3>1. /\ t \in Seq(AgentRun) /\ Len(t) = Len(order) - 1
          /\ Len(t) \in Nat
      BY <2>1
    <3>2. terminalOrder' = t \/ terminalOrder' = RemoveFirst(t, h)
      BY <2>3
    <3>3. /\ RemoveFirst(t, h) \in Seq(AgentRun) /\ Len(RemoveFirst(t, h)) <= Len(t)
          /\ \A x \in Range(t) : x # h => x \in Range(RemoveFirst(t, h))
      BY <3>1, WithoutFirst
    <3>4. \A x \in Range(order) : x # h => x \in Range(t)
      BY <2>2
    <3> HIDE DEF t
    <3>5. Len(terminalOrder') <= Len(t) /\ terminalOrder' \in Seq(AgentRun)
      BY <3>1, <3>2, <3>3
    <3>6. \A x \in Range(t) : x # h => x \in Range(terminalOrder')
      BY <3>2, <3>3
    <3> QED BY <3>1, <3>4, <3>5, <3>6
  <2>5. Len(terminalOrder') <= MaxRetained
    BY <1>1, <1>6, <2>4
  <2>6. \A x \in registered' \cap background' :
          (op'[x] \in {"none", "prunes"} /\ status'[x] = "done") => x \in Range(terminalOrder')
    BY <1>3, <1>4, <2>3, <2>4
  <2>7. registered' \subseteq AgentRun
    BY <2>3 DEF RegistryInv
  <2> QED BY <1>3, <1>5, <2>4, <2>5, <2>6, <2>7 DEF RegistryInv, Accounted
<1> QED BY <1>7, <1>8

(* Every step of the registry keeps it.                                      *)
LEMMA RegistryKept ==
  ASSUME RegistryInv, [RetentionNext]_retentionVars
  PROVE  RegistryInv'
<1>1. CASE UNCHANGED <<registered, terminalOrder, status, background, op>>
  BY <1>1, NothingRetained DEF RegistryInv
<1>2. ASSUME NEW r \in AgentRun, StartBackground(r) \/ StartForeground(r) \/ ContinueOver(r)
                                 \/ ResumeByParent(r) \/ ResumeByUser(r)
      PROVE  RegistryInv'
  BY <1>2, WorkKeepsRegistry
     DEF StartBackground, StartForeground, ContinueOver, ResumeByParent, ResumeByUser, Resume
<1>3. ASSUME NEW r \in AgentRun, DiscardRetained(r) \/ Collect(r) \/ CancelRemoves(r)
      PROVE  RegistryInv'
  BY <1>3, LeavingKeepsRegistry DEF DiscardRetained, Collect, CancelRemoves
<1>4. ASSUME NEW r \in AgentRun, MoveToBackground(r)
      PROVE  RegistryInv'
  <2>1. /\ UNCHANGED <<registered, terminalOrder, status, op>>
        /\ background' = background \cup {r} /\ status[r] = "running"
    BY <1>4 DEF MoveToBackground, Movable
  <2> QED BY <2>1, NothingRetained DEF RegistryInv
<1>5. ASSUME NEW r \in AgentRun, AsksParent(r) \/ Interrupted(r) \/ BackgroundEnds(r)
                                 \/ CancelEnds(r)
      PROVE  RegistryInv'
  <2>1. UNCHANGED <<registered, terminalOrder, background>>
    BY <1>5 DEF AsksParent, Interrupted, BackgroundEnds, CancelEnds
  <2>2. \/ status' = [status EXCEPT ![r] = "waiting"] /\ op' = [op EXCEPT ![r] = "asks"]
        \/ status' = [status EXCEPT ![r] = "interrupted"] /\ op' = [op EXCEPT ![r] = "none"]
        \/ status' = [status EXCEPT ![r] = "done"] /\ op' = [op EXCEPT ![r] = "saves"]
    BY <1>5 DEF AsksParent, Interrupted, BackgroundEnds, CancelEnds
  <2> QED BY <2>1, <2>2, NothingRetained DEF RegistryInv, Parked
<1>6. ASSUME NEW r \in AgentRun, QuestionSaved(r) \/ Reports(r)
      PROVE  RegistryInv'
  <2>1. /\ UNCHANGED <<registered, terminalOrder, status, background>>
        /\ op' = [op EXCEPT ![r] = "none"] /\ op[r] \in {"asks", "prunes"}
    BY <1>6 DEF QuestionSaved, Reports
  <2> QED BY <2>1, NothingRetained DEF RegistryInv
<1>7. ASSUME NEW r \in AgentRun, ForegroundEnds(r)
      PROVE  RegistryInv'
  <2>1. /\ UNCHANGED background /\ Unregistered(r)
        /\ status' = [status EXCEPT ![r] = "done"] /\ op' = [op EXCEPT ![r] = "none"]
    BY <1>7 DEF ForegroundEnds
  <2>2. /\ registered' = registered \ {r}
        /\ terminalOrder' = RemoveFirst(terminalOrder, r)
    BY <2>1 DEF Unregistered
  <2>3. /\ terminalOrder' \in Seq(AgentRun) /\ Len(terminalOrder') <= Len(terminalOrder)
        /\ \A x \in Range(terminalOrder) : x # r => x \in Range(terminalOrder')
    BY <2>2, WithoutFirst DEF RegistryInv
  <2> QED BY <2>1, <2>2, <2>3, NothingRetained DEF RegistryInv
<1>8. ASSUME NEW r \in AgentRun, RetainTerminal(r)
      PROVE  RegistryInv'
  BY <1>8, RetainingKeepsRegistry
<1>9. ASSUME NEW r \in AgentRun, ParkEnds(r)
      PROVE  RegistryInv'
  <2>1. registered' = registered \ {r}
        /\ UNCHANGED <<terminalOrder, status, background, op>>
    BY <1>9 DEF ParkEnds
  <2> QED BY <2>1, NothingRetained DEF RegistryInv
<1>10. CASE \/ ParentTurn \/ ParentSettles \/ FlushTask
            \/ \E r \in AgentRun : Cancel(r) \/ ParkBegins(r)
            \/ UNCHANGED retentionVars
  BY <1>1, <1>10 DEF ParentTurn, ParentSettles, FlushTask, Cancel, ParkBegins, retentionVars
<1> QED
  BY <1>2, <1>3, <1>4, <1>5, <1>6, <1>7, <1>8, <1>9, <1>10 DEF RetentionNext

(* pruneRetainedResults and the order of retention: for any runs and         *)
(* budgets, every result that waits to be collected is named by the order,   *)
(* which is no longer than the budget, whatever was collected, continued,    *)
(* canceled or recycled.                                                     *)
THEOREM ResultsAccounted == RetentionSpec => []Accounted
<1>1. RetentionInit => RegistryInv
  BY RetentionAssumption DEF RetentionInit, RegistryInv, Accounted
<1>2. RegistryInv /\ [RetentionNext]_retentionVars => RegistryInv'
  BY RegistryKept
<1>3. RegistryInv => Accounted
  BY DEF RegistryInv
<1> QED BY <1>1, <1>2, <1>3, PTL DEF RetentionSpec
-----------------------------------------------------------------------------
(* The mailbox of the registry.                                             *)

(* Ranks are between one and the size of the set, and differ.                *)
LEMMA Ranks ==
  ASSUME NEW K \in SUBSET Nat, IsFiniteSet(K)
  PROVE  /\ Cardinality(K) \in Nat
         /\ \A i \in K : Rank(K, i) \in 1..Cardinality(K)
         /\ \A i, j \in K : Rank(K, i) = Rank(K, j) => i = j
<1>1. Cardinality(K) \in Nat
  BY FS_CardinalityType
<1>2. ASSUME NEW i \in K
      PROVE  Rank(K, i) \in 1..Cardinality(K)
  <2> DEFINE A == {k \in K : k <= i}
  <2>1. A \in SUBSET K /\ i \in A
    OBVIOUS
  <2>2. IsFiniteSet(A) /\ Cardinality(A) \in Nat /\ Cardinality(A) <= Cardinality(K)
    BY <2>1, FS_Subset, FS_CardinalityType
  <2>3. Cardinality(A) # 0
    BY <2>1, <2>2, FS_EmptySet
  <2> QED BY <1>1, <2>2, <2>3 DEF Rank
<1>3. ASSUME NEW i \in K, NEW j \in K, i < j
      PROVE  Rank(K, i) # Rank(K, j)
  <2> DEFINE A == {k \in K : k <= i}
             B == {k \in K : k <= j}
  <2>1. A \subseteq B /\ j \in B /\ j \notin A /\ B \subseteq K
    <3>1. i \in Nat /\ j \in Nat /\ \A k \in K : k \in Nat
      OBVIOUS
    <3>2. \A k \in K : k <= i => k <= j
      BY <1>3, <3>1
    <3>3. j <= j /\ ~(j <= i)
      BY <1>3, <3>1
    <3>4. A \subseteq B /\ B \subseteq K
      BY <3>2
    <3> QED BY <3>3, <3>4
  <2>2. IsFiniteSet(B)
    BY <2>1, FS_Subset
  <2>3. Cardinality(A) # Cardinality(B)
    BY <2>1, <2>2, FS_Subset
  <2> QED BY <2>3 DEF Rank
<1>4. ASSUME NEW i \in K, NEW j \in K, Rank(K, i) = Rank(K, j)
      PROVE  i = j
  <2>1. i = j \/ i < j \/ j < i
    OBVIOUS
  <2> QED BY <1>3, <1>4, <2>1
<1> QED BY <1>1, <1>2, <1>4

(* Every number up to the size of K is the rank of one of its positions.     *)
LEMMA EveryRank ==
  ASSUME NEW K \in SUBSET Nat, IsFiniteSet(K), NEW n \in 1..Cardinality(K)
  PROVE  \E i \in K : Rank(K, i) = n
<1> DEFINE f == [i \in K |-> Rank(K, i)]
           R == (1..Cardinality(K)) \ {n}
<1> SUFFICES ASSUME \A i \in K : Rank(K, i) # n
             PROVE  FALSE
  OBVIOUS
<1>1. /\ Cardinality(K) \in Nat
      /\ \A i \in K : Rank(K, i) \in 1..Cardinality(K)
      /\ \A i, j \in K : Rank(K, i) = Rank(K, j) => i = j
  BY Ranks
<1>2. f \in [K -> R]
  BY <1>1
<1>3. IsFiniteSet(R) /\ Cardinality(R) < Cardinality(K)
  <2>1. IsFiniteSet(1..Cardinality(K)) /\ Cardinality(1..Cardinality(K)) = Cardinality(K)
    BY <1>1, FS_Interval
  <2>2. IsFiniteSet(R) /\ Cardinality(R) = Cardinality(K) - 1
    BY <2>1, FS_RemoveElement, ZenonT(60)
  <2> QED BY <1>1, <2>2
<1>4. \A i, j \in K : f[i] = f[j] => i = j
  BY <1>1
<1> HIDE DEF R, f
<1>5. \E i, j \in K : i # j /\ f[i] = f[j]
  BY <1>2, <1>3, FS_PigeonHole, Zenon
<1> QED BY <1>4, <1>5

(* What is kept of a mailbox: exactly the updates at the positions of K, and *)
(* no more of a run than there were.                                         *)
OnePerRun(box) == \A i, j \in 1..Len(box) : box[i].of = box[j].of => i = j

LEMMA KeptUpdates ==
  ASSUME NEW S, NEW box \in Seq(S), NEW K \in SUBSET (DOMAIN box)
  PROVE  /\ Kept(box, K) \in Seq(S) /\ Len(Kept(box, K)) <= Len(box)
         /\ Range(Kept(box, K)) = {box[i] : i \in K}
         /\ OnePerRun(box) => OnePerRun(Kept(box, K))
<1> DEFINE N == Cardinality(K)
           at == [n \in 1..N |-> CHOOSE i \in K : Rank(K, i) = n]
           p == Kept(box, K)
<1>1. /\ DOMAIN box = 1..Len(box) /\ Len(box) \in Nat
      /\ \A i \in 1..Len(box) : box[i] \in S
  BY ElementOfSeq
<1>2. K \in SUBSET Nat /\ IsFiniteSet(K) /\ Cardinality(K) <= Len(box)
  <2>1. \A n \in Nat : IsFiniteSet(1..n) /\ Cardinality(1..n) = n
    BY FS_Interval
  <2>2. IsFiniteSet(1..Len(box)) /\ Cardinality(1..Len(box)) = Len(box)
    BY <1>1, <2>1
  <2> QED BY <1>1, <2>2, FS_Subset
<1>3. /\ N \in Nat
      /\ \A i \in K : Rank(K, i) \in 1..N
      /\ \A i, j \in K : Rank(K, i) = Rank(K, j) => i = j
  BY <1>2, Ranks
<1>4. \A n \in 1..N : at[n] \in K /\ Rank(K, at[n]) = n
  <2>1. \A n \in 1..N : \E i \in K : Rank(K, i) = n
    BY <1>2, EveryRank
  <2> QED BY <2>1
<1>5. \A i \in K : at[Rank(K, i)] = i
  BY <1>3, <1>4
<1>6. p = [n \in 1..N |-> box[at[n]]]
  <2>1. \A n \in 1..N : box[at[n]] = box[CHOOSE i \in K : Rank(K, i) = n]
    OBVIOUS
  <2> HIDE DEF at
  <2> QED BY <2>1 DEF Kept
<1> HIDE DEF p, at
<1>7. \A n \in 1..N : box[at[n]] \in S
  BY <1>1, <1>4
<1>8. p \in Seq(S) /\ DOMAIN p = 1..N /\ Len(p) = N
  BY <1>3, <1>6, <1>7
<1>9. Range(p) = {box[i] : i \in K}
  <2>1. ASSUME NEW n \in 1..N
        PROVE  p[n] \in {box[i] : i \in K}
    BY <1>4, <1>6
  <2>2. ASSUME NEW i \in K
        PROVE  box[i] \in Range(p)
    BY <1>3, <1>5, <1>6, <1>8 DEF Range
  <2> QED BY <1>8, <2>1, <2>2 DEF Range
<1>10. ASSUME OnePerRun(box)
       PROVE  OnePerRun(p)
  <2>1. SUFFICES ASSUME NEW n \in 1..N, NEW m \in 1..N, p[n].of = p[m].of
                 PROVE  n = m
    BY <1>8 DEF OnePerRun
  <2>2. box[at[n]].of = box[at[m]].of /\ at[n] \in 1..Len(box) /\ at[m] \in 1..Len(box)
    BY <1>1, <1>4, <1>6, <2>1
  <2>3. at[n] = at[m]
    BY <1>10, <2>2 DEF OnePerRun
  <2> QED BY <1>4, <2>3
<1> QED BY <1>2, <1>8, <1>9, <1>10 DEF p

Update == [of : AgentRun, status : {"waiting", "done"}]

LEMMA ReconciledUpdates ==
  ASSUME NEW box \in Seq(Update), NEW reg, NEW st
  PROVE  /\ Reconciled(box, reg, st) \in Seq(Update)
         /\ Range(Reconciled(box, reg, st)) =
              {u \in Range(box) : u.of \in reg /\ st[u.of] = u.status}
         /\ OnePerRun(box) => OnePerRun(Reconciled(box, reg, st))
<1> DEFINE K == {i \in DOMAIN box : box[i].of \in reg /\ st[box[i].of] = box[i].status}
<1>1. K \in SUBSET (DOMAIN box) /\ Reconciled(box, reg, st) = Kept(box, K)
  BY DEF Reconciled
<1>2. {box[i] : i \in K} = {u \in Range(box) : u.of \in reg /\ st[u.of] = u.status}
  BY DEF Range
<1> HIDE DEF K
<1> QED BY <1>1, <1>2, KeptUpdates

(* What queue appends to: the updates of the other runs, then the new one.   *)
LEMMA QueuedLonger ==
  ASSUME NEW box \in Seq(Update), NEW r \in AgentRun, NEW s \in {"waiting", "done"}
  PROVE  \E q \in Seq(Update) :
           /\ Queued(box, r, s) = IF Len(q) > MaxUpdates THEN Tail(q) ELSE q
           /\ Range(q) = {u \in Range(box) : u.of # r} \cup {[of |-> r, status |-> s]}
           /\ OnePerRun(box) => OnePerRun(q)
           /\ q # <<>> /\ Len(q) <= Len(box) + 1
<1> DEFINE K == {i \in DOMAIN box : box[i].of # r}
           u == [of |-> r, status |-> s]
           p == Kept(box, K)
           q == Append(p, u)
<1>1. K \in SUBSET (DOMAIN box) /\ {box[i] : i \in K} = {x \in Range(box) : x.of # r}
  BY DEF Range
<1>2. Queued(box, r, s) = IF Len(q) > MaxUpdates THEN Tail(q) ELSE q
  BY DEF Queued
<1>3. /\ p \in Seq(Update) /\ Range(p) = {x \in Range(box) : x.of # r}
      /\ Len(p) <= Len(box)
      /\ OnePerRun(box) => OnePerRun(p)
  BY <1>1, KeptUpdates
<1>4. u \in Update /\ u.of = r
  BY DEF Update
<1> HIDE DEF p, u
<1>5. /\ q \in Seq(Update) /\ Len(q) = Len(p) + 1 /\ Len(p) \in Nat /\ DOMAIN q = 1..(Len(p) + 1)
      /\ DOMAIN p = 1..Len(p) /\ q[Len(p) + 1] = u
      /\ \A i \in 1..Len(p) : q[i] = p[i]
      /\ q # <<>> /\ Len(q) <= Len(box) + 1
  BY <1>3, <1>4
<1> HIDE DEF q
<1>6. Range(q) = Range(p) \cup {u}
  <2>1. \A i \in DOMAIN q : i \in 1..Len(p) \/ i = Len(p) + 1
    BY <1>5
  <2>2. \A i \in 1..Len(p) : i \in DOMAIN q
    BY <1>5
  <2>3. Len(p) + 1 \in DOMAIN q
    BY <1>5
  <2>4. \A i \in DOMAIN q : q[i] \in Range(p) \cup {u}
    BY <1>5, <2>1 DEF Range
  <2>5. \A x \in Range(p) \cup {u} : \E i \in DOMAIN q : q[i] = x
    BY <1>5, <2>2, <2>3 DEF Range
  <2> QED BY <2>4, <2>5 DEF Range
<1>7. ASSUME OnePerRun(box)
      PROVE  OnePerRun(q)
  <2>1. OnePerRun(p)
    BY <1>3, <1>7
  <2>2. \A i \in 1..Len(p) : p[i].of # r
    BY <1>3, <1>5 DEF Range
  <2> QED BY <1>4, <1>5, <2>1, <2>2 DEF OnePerRun
<1> QED BY <1>2, <1>3, <1>5, <1>6, <1>7 DEF u

LEMMA QueuedUpdates ==
  ASSUME NEW box \in Seq(Update), NEW r \in AgentRun, NEW s \in {"waiting", "done"}
  PROVE  /\ Queued(box, r, s) \in Seq(Update)
         /\ OnePerRun(box) => OnePerRun(Queued(box, r, s))
<1>1. PICK q \in Seq(Update) :
           /\ Queued(box, r, s) = IF Len(q) > MaxUpdates THEN Tail(q) ELSE q
           /\ OnePerRun(box) => OnePerRun(q)
           /\ q # <<>>
  BY QueuedLonger
<1>2. /\ Tail(q) \in Seq(Update) /\ Len(Tail(q)) = Len(q) - 1 /\ Len(q) \in Nat
      /\ \A i \in 1..Len(Tail(q)) : Tail(q)[i] = q[i + 1]
  BY <1>1, HeadTailProperties
<1>3. OnePerRun(q) => OnePerRun(Tail(q))
  <2>1. SUFFICES ASSUME OnePerRun(q), NEW i \in 1..Len(Tail(q)), NEW j \in 1..Len(Tail(q)),
                        Tail(q)[i].of = Tail(q)[j].of
                 PROVE  i = j
    BY DEF OnePerRun
  <2>2. q[i + 1].of = q[j + 1].of /\ i + 1 \in 1..Len(q) /\ j + 1 \in 1..Len(q)
    BY <1>2, <2>1
  <2>3. i + 1 = j + 1
    BY <2>1, <2>2 DEF OnePerRun
  <2> QED BY <2>3
<1> QED BY <1>1, <1>2, <1>3

(* Nothing is evicted from a mailbox that was not full, nor from any mailbox *)
(* if there are no more runs than it may hold: it has one update of each.    *)
FewRuns == IsFiniteSet(AgentRun) /\ Cardinality(AgentRun) <= MaxUpdates

LEMMA NoneEvicted ==
  ASSUME NEW box \in Seq(Update), OnePerRun(box), Len(box) < MaxUpdates \/ FewRuns,
         NEW r \in AgentRun, NEW s \in {"waiting", "done"}
  PROVE  Range(Queued(box, r, s)) =
           {u \in Range(box) : u.of # r} \cup {[of |-> r, status |-> s]}
<1>1. PICK q \in Seq(Update) :
           /\ Queued(box, r, s) = IF Len(q) > MaxUpdates THEN Tail(q) ELSE q
           /\ Range(q) = {u \in Range(box) : u.of # r} \cup {[of |-> r, status |-> s]}
           /\ OnePerRun(q) /\ Len(q) <= Len(box) + 1
  BY QueuedLonger
<1>2. Len(q) \in Nat /\ Len(box) \in Nat /\ MaxUpdates \in Nat
      /\ \A i \in 1..Len(q) : q[i] \in Update
  BY <1>1, ElementOfSeq, RetentionAssumption
<1>3. CASE Len(box) < MaxUpdates
  <2>1. ~(Len(q) > MaxUpdates)
    BY <1>1, <1>2, <1>3
  <2> QED BY <1>1, <2>1
<1>4. CASE FewRuns
  <2> DEFINE f == [i \in 1..Len(q) |-> q[i].of]
  <2>1. f \in [1..Len(q) -> AgentRun]
    BY <1>2 DEF Update
  <2>2. \A i, j \in 1..Len(q) : f[i] = f[j] => i = j
    BY <1>1 DEF OnePerRun
  <2>3. IsFiniteSet(1..Len(q)) /\ Cardinality(1..Len(q)) = Len(q)
    <3>1. \A n \in Nat : IsFiniteSet(1..n) /\ Cardinality(1..n) = n
      BY FS_Interval
    <3> QED BY <1>2, <3>1
  <2>4. IsFiniteSet(AgentRun) /\ Cardinality(AgentRun) \in Nat /\ Cardinality(AgentRun) <= MaxUpdates
    BY <1>4, FS_CardinalityType DEF FewRuns
  <2> HIDE DEF f
  <2>5. ~(Cardinality(AgentRun) < Cardinality(1..Len(q)))
    <3>1. SUFFICES ASSUME Cardinality(AgentRun) < Cardinality(1..Len(q))
                   PROVE  FALSE
      OBVIOUS
    <3>2. \E i, j \in 1..Len(q) : i # j /\ f[i] = f[j]
      BY <2>1, <2>3, <2>4, <3>1, FS_PigeonHole, Zenon
    <3> QED BY <2>2, <3>2
  <2>6. ~(Len(q) > MaxUpdates)
    BY <1>2, <2>3, <2>4, <2>5
  <2> QED BY <1>1, <2>6
<1> QED BY <1>3, <1>4

-----------------------------------------------------------------------------
(* What is sent to the parent and what it knows.                             *)
MailTyped ==
  /\ callback \subseteq AgentRun /\ prepared \subseteq Isolated
  /\ cancelling \in [AgentRun -> {"no", "stops", "ends"}]
  /\ tool \in AgentRun \cup {NoRun} /\ parking \in AgentRun \cup {NoRun}
  /\ mailbox \in Seq(Update)
  /\ scheduled \in BOOLEAN /\ parent \in {"idle", "busy"}
  /\ told \in [AgentRun -> {"nothing", "waiting", "done"}]
  /\ unsaved \in 0..MaxUnsaved

(* A run whose end is being saved is over, a run in the background was       *)
(* started, and until it is over someone hears of it.                        *)
Listened ==
  /\ \A r \in AgentRun : op[r] \in {"saves", "prunes"} => status[r] = "done"
  /\ \A r \in background : status[r] # "unused"
  /\ \A r \in registered \cap background : (op[r] = "none" /\ status[r] = "done") \/ r \in callback

LEMMA RetentionTyped ==
  ASSUME RegistryInv, MailTyped
  PROVE  RetentionTypeOK
BY DEF RegistryInv, MailTyped, RetentionTypeOK, Update

(* The ways in which the mailbox changes.                                    *)
Redelivered ==
  \/ UNCHANGED mailbox
  \/ mailbox' = <<>>
  \/ mailbox' = Reconciled(mailbox, registered', status')
  \/ mailbox' = Reconciled(mailbox, registered, status)
  \/ \E r \in AgentRun, s \in {"waiting", "done"} :
       mailbox' = Reconciled(Queued(mailbox, r, s), registered, status)

LEMMA MailboxSteps ==
  ASSUME [RetentionNext]_retentionVars
  PROVE  Redelivered
<1>1. CASE UNCHANGED mailbox
  BY <1>1 DEF Redelivered
<1>2. CASE ParentSettles \/ FlushTask
  BY <1>2 DEF ParentSettles, FlushTask, Flush, Redelivered
<1>3. ASSUME NEW r \in AgentRun, StartBackground(r) \/ ResumeByParent(r) \/ Collect(r)
      PROVE  Redelivered
  BY <1>3 DEF StartBackground, ResumeByParent, Collect, Reconcile, Redelivered
<1>4. ASSUME NEW r \in AgentRun, MoveToBackground(r) \/ QuestionSaved(r) \/ Reports(r)
      PROVE  Redelivered
  BY <1>4 DEF MoveToBackground, QuestionSaved, Reports, Announce, mail, Redelivered
<1>5. CASE \/ ParentTurn \/ UNCHANGED retentionVars
           \/ \E r \in AgentRun :
                \/ StartForeground(r) \/ DiscardRetained(r) \/ ContinueOver(r) \/ ResumeByUser(r)
                \/ AsksParent(r) \/ Interrupted(r) \/ ForegroundEnds(r) \/ BackgroundEnds(r)
                \/ RetainTerminal(r) \/ Cancel(r) \/ CancelEnds(r) \/ CancelRemoves(r)
                \/ ParkBegins(r) \/ ParkEnds(r)
  <2>1. UNCHANGED mailbox
    BY <1>5 DEF ParentTurn, retentionVars, StartForeground, DiscardRetained, ContinueOver,
                ResumeByUser, AsksParent, Interrupted, ForegroundEnds, BackgroundEnds,
                RetainTerminal, Cancel, CancelEnds, CancelRemoves, ParkBegins, ParkEnds, mail
  <2> QED BY <1>1, <2>1
<1> QED BY <1>2, <1>3, <1>4, <1>5 DEF RetentionNext

LEMMA MailboxKept ==
  ASSUME mailbox \in Seq(Update), Redelivered
  PROVE  mailbox' \in Seq(Update) /\ (OnePerRun(mailbox) => OnePerRun(mailbox'))
<1>1. CASE mailbox' = <<>>
  BY <1>1 DEF OnePerRun
<1>2. CASE \/ mailbox' = Reconciled(mailbox, registered', status')
           \/ mailbox' = Reconciled(mailbox, registered, status)
  BY <1>2, ReconciledUpdates
<1>3. ASSUME NEW r \in AgentRun, NEW s \in {"waiting", "done"},
             mailbox' = Reconciled(Queued(mailbox, r, s), registered, status)
      PROVE  mailbox' \in Seq(Update) /\ (OnePerRun(mailbox) => OnePerRun(mailbox'))
  BY <1>3, QueuedUpdates, ReconciledUpdates
<1> QED BY <1>1, <1>2, <1>3 DEF Redelivered

(* A delivery tells the parent of waiting runs and of results only.          *)
LEMMA FlushTyped ==
  ASSUME MailTyped, NEW reg, NEW st, Flush(Reconciled(mailbox, reg, st))
  PROVE  parent' \in {"idle", "busy"} /\ told' \in [AgentRun -> {"nothing", "waiting", "done"}]
<1> DEFINE box == Reconciled(mailbox, reg, st)
<1>1. Range(box) \subseteq Update
  <2>1. box \in Seq(Update)
    BY ReconciledUpdates DEF MailTyped
  <2> HIDE DEF box
  <2> QED BY <2>1, ElementOfSeq DEF Range
<1>2. /\ told' = [r \in AgentRun |->
                    IF \E u \in Range(box) : u.of = r
                    THEN (CHOOSE u \in Range(box) : u.of = r).status ELSE told[r]]
      /\ parent' = IF box = <<>> THEN "idle" ELSE "busy"
  BY DEF Flush
<1> HIDE DEF box
<1>3. ASSUME NEW r \in AgentRun, \E u \in Range(box) : u.of = r
      PROVE  (CHOOSE u \in Range(box) : u.of = r).status \in {"waiting", "done"}
  <2>1. (CHOOSE u \in Range(box) : u.of = r) \in Range(box)
    BY <1>3
  <2> QED BY <1>1, <2>1 DEF Update
<1> QED BY <1>2, <1>3 DEF MailTyped

LEMMA MailTypesKept ==
  ASSUME RegistryInv, MailTyped, [RetentionNext]_retentionVars
  PROVE  MailTyped'
<1> USE RetentionAssumption
<1>1. mailbox' \in Seq(Update)
  BY MailboxSteps, MailboxKept DEF MailTyped
<1>2. ASSUME NEW r \in AgentRun, StartBackground(r) \/ StartForeground(r) \/ ContinueOver(r)
                                 \/ ResumeByParent(r) \/ ResumeByUser(r)
      PROVE  MailTyped'
  <2>1. told' = [told EXCEPT ![r] = "nothing"]
    BY <1>2 DEF StartBackground, StartForeground, ContinueOver, ResumeByParent, ResumeByUser,
                Resume, Works
  <2>2. /\ callback' \in {callback, callback \cup {r}, callback \ {r}}
        /\ cancelling' \in {cancelling, [cancelling EXCEPT ![r] = "no"]}
        /\ tool' \in {tool, r}
        /\ UNCHANGED <<prepared, parking, scheduled, parent, unsaved>>
    BY <1>2 DEF StartBackground, StartForeground, ContinueOver, ResumeByParent, ResumeByUser,
                Resume, Works, Reconcile
  <2> QED BY <1>1, <2>1, <2>2 DEF MailTyped
<1>3. CASE ParentTurn \/ ParentSettles \/ FlushTask
  <2>1. /\ UNCHANGED <<callback, cancelling, prepared, tool, parking, unsaved>>
        /\ scheduled' \in {scheduled, FALSE}
        /\ \/ UNCHANGED told /\ parent' \in {parent, "busy"}
           \/ Flush(Reconciled(mailbox, registered, status))
    BY <1>3 DEF ParentTurn, ParentSettles, FlushTask
  <2>2. parent' \in {"idle", "busy"} /\ told' \in [AgentRun -> {"nothing", "waiting", "done"}]
    BY <2>1, FlushTyped DEF MailTyped
  <2> QED BY <1>1, <2>1, <2>2 DEF MailTyped
<1>4. ASSUME NEW r \in AgentRun, MoveToBackground(r) \/ QuestionSaved(r) \/ Reports(r)
      PROVE  MailTyped'
  <2>1. /\ callback' \in {callback, callback \cup {r}, callback \ {r}}
        /\ UNCHANGED <<cancelling, prepared, parking, unsaved, told, parent>>
        /\ tool' \in {tool, NoRun}
        /\ scheduled' \in {scheduled, TRUE, FALSE}
    BY <1>4 DEF MoveToBackground, QuestionSaved, Reports, Announce, mail, Returns, MailTyped
  <2> QED BY <1>1, <2>1 DEF MailTyped
<1>5. ASSUME NEW r \in AgentRun,
             \/ DiscardRetained(r) \/ AsksParent(r) \/ ForegroundEnds(r)
             \/ BackgroundEnds(r) \/ Collect(r)
             \/ Cancel(r) \/ CancelEnds(r) \/ CancelRemoves(r) \/ ParkBegins(r) \/ ParkEnds(r)
      PROVE  MailTyped'
  <2>1. /\ callback' \in {callback, callback \ {r}}
        /\ prepared' \in {prepared, prepared \cup ({r} \cap Isolated)}
        /\ cancelling' \in {cancelling, [cancelling EXCEPT ![r] = "stops"],
                            [cancelling EXCEPT ![r] = "ends"]}
        /\ tool' \in {tool, NoRun} /\ parking' \in {parking, NoRun, r}
        /\ UNCHANGED <<scheduled, parent, told, unsaved>>
    BY <1>5 DEF DiscardRetained, AsksParent, ForegroundEnds, BackgroundEnds, Collect,
                Cancel, CancelEnds, CancelRemoves, ParkBegins, ParkEnds, mail, Returns
  <2> QED BY <1>1, <2>1 DEF MailTyped
<1>6. ASSUME NEW r \in AgentRun, Interrupted(r)
      PROVE  MailTyped'
  <2>1. /\ unsaved < MaxUnsaved /\ unsaved' = unsaved + 1
        /\ tool' \in {tool, NoRun}
        /\ UNCHANGED <<callback, cancelling, prepared, parking, scheduled, parent, told>>
    BY <1>6 DEF Interrupted, mail, Returns
  <2> QED BY <1>1, <2>1 DEF MailTyped
<1>7. ASSUME NEW r \in AgentRun, RetainTerminal(r)
      PROVE  MailTyped'
  <2>1. /\ callback' \subseteq callback
        /\ UNCHANGED <<cancelling, prepared, tool, parking, scheduled, parent, told, unsaved>>
    BY <1>7 DEF RetainTerminal, Pruned, mail
  <2> QED BY <1>1, <2>1 DEF MailTyped
<1>8. CASE UNCHANGED retentionVars
  BY <1>8 DEF retentionVars, MailTyped
<1> QED BY <1>2, <1>3, <1>4, <1>5, <1>6, <1>7, <1>8 DEF RetentionNext

LEMMA ListenedKept ==
  ASSUME RegistryInv, MailTyped, Listened, [RetentionNext]_retentionVars
  PROVE  Listened'
<1> USE DEF Listened
<1>0. registered \subseteq AgentRun /\ background \subseteq AgentRun
  BY DEF RegistryInv
<1>1. ASSUME NEW r \in AgentRun, StartBackground(r) \/ StartForeground(r) \/ ContinueOver(r)
                                 \/ ResumeByParent(r) \/ ResumeByUser(r)
      PROVE  Listened'
  <2>1. /\ registered' = registered \cup {r} /\ status' = [status EXCEPT ![r] = "running"]
        /\ op' = [op EXCEPT ![r] = "works"]
    BY <1>1 DEF StartBackground, StartForeground, ContinueOver, ResumeByParent, ResumeByUser,
                Resume, Works
  <2>2. \/ r \in callback' /\ background' \subseteq background \cup {r} /\ callback \subseteq callback'
        \/ /\ UNCHANGED <<background, callback>>
           /\ r \in background => r \in registered /\ status[r] # "done"
        \/ r \notin background' /\ background' \subseteq background /\ callback' = callback \ {r}
    <3>1. CASE StartForeground(r)
      BY <3>1 DEF StartForeground
    <3>2. CASE StartBackground(r)
      BY <3>2 DEF StartBackground
    <3>3. CASE ContinueOver(r)
      BY <3>3 DEF ContinueOver
    <3>4. CASE ResumeByParent(r)
      BY <3>4 DEF ResumeByParent, Resume, Parked
    <3>5. CASE ResumeByUser(r)
      BY <3>5 DEF ResumeByUser, Resume, Parked
    <3> QED BY <1>1, <3>1, <3>2, <3>3, <3>4, <3>5
  <2>3. \A x \in AgentRun : op'[x] \in {"saves", "prunes"} => status'[x] = "done"
    BY <2>1 DEF RegistryInv
  <2>4. \A x \in background' : status'[x] # "unused"
    <3>1. background' \subseteq background \cup {r}
      BY <2>2
    <3> QED BY <1>0, <2>1, <3>1 DEF RegistryInv
  <2>5. ASSUME NEW x \in registered' \cap background'
        PROVE  (op'[x] = "none" /\ status'[x] = "done") \/ x \in callback'
    <3>1. x \in AgentRun
      BY <1>0, <2>1, <2>5
    <3>2. CASE x = r
      BY <2>2, <2>5, <3>2
    <3>3. CASE x # r
      <4>1. x \in registered \cap background /\ op'[x] = op[x] /\ status'[x] = status[x]
        BY <2>1, <2>2, <2>5, <3>1, <3>3 DEF RegistryInv
      <4>2. x \in callback => x \in callback'
        BY <2>2, <3>3
      <4> QED BY <4>1, <4>2
    <3> QED BY <3>2, <3>3
  <2> QED BY <2>3, <2>4, <2>5
<1>2. CASE ParentTurn \/ ParentSettles \/ FlushTask \/ UNCHANGED retentionVars
           \/ \E r \in AgentRun : Cancel(r) \/ ParkBegins(r)
  <2>1. UNCHANGED <<registered, background, callback, op, status>>
    BY <1>2 DEF ParentTurn, ParentSettles, FlushTask, retentionVars, Cancel, ParkBegins
  <2> QED BY <2>1
<1>3. ASSUME NEW r \in AgentRun,
             DiscardRetained(r) \/ Collect(r) \/ CancelRemoves(r) \/ ForegroundEnds(r)
      PROVE  Listened'
  <2>1. registered' = registered \ {r} /\ callback' = callback \ {r} /\ UNCHANGED background
    BY <1>3 DEF DiscardRetained, Collect, CancelRemoves, ForegroundEnds, Unregistered
  <2>2. \/ UNCHANGED <<status, op>>
        \/ /\ status' = [status EXCEPT ![r] = "done"]
           /\ op' = op \/ op' = [op EXCEPT ![r] = "none"]
    BY <1>3 DEF DiscardRetained, Collect, CancelRemoves, ForegroundEnds
  <2> QED BY <1>0, <2>1, <2>2 DEF RegistryInv
<1>4. ASSUME NEW r \in AgentRun, ParkEnds(r)
      PROVE  Listened'
  <2>1. registered' \subseteq registered /\ UNCHANGED <<callback, background, status, op>>
    BY <1>4 DEF ParkEnds
  <2> QED BY <2>1
<1>5. ASSUME NEW r \in AgentRun, MoveToBackground(r)
      PROVE  Listened'
  <2>1. /\ UNCHANGED <<registered, status, op>> /\ r \in AgentRun /\ status[r] = "running"
        /\ background' = background \cup {r} /\ callback' = callback \cup {r}
    BY <1>5 DEF MoveToBackground, Movable
  <2> QED BY <2>1
<1>6. ASSUME NEW r \in AgentRun, AsksParent(r) \/ Interrupted(r) \/ BackgroundEnds(r)
                                 \/ CancelEnds(r)
      PROVE  Listened'
  <2>1. UNCHANGED <<registered, background, callback>>
    BY <1>6 DEF AsksParent, Interrupted, BackgroundEnds, CancelEnds
  <2>2. \/ status' = [status EXCEPT ![r] = "waiting"] /\ op' = [op EXCEPT ![r] = "asks"]
        \/ status' = [status EXCEPT ![r] = "interrupted"] /\ op' = [op EXCEPT ![r] = "none"]
        \/ status' = [status EXCEPT ![r] = "done"] /\ op' = [op EXCEPT ![r] = "saves"]
    BY <1>6 DEF AsksParent, Interrupted, BackgroundEnds, CancelEnds
  <2>3. op[r] # "none" \/ status[r] # "done"
    BY <1>6 DEF AsksParent, Interrupted, BackgroundEnds, CancelEnds, Parked
  <2>4. \A x \in registered \cap background :
          (op'[x] = "none" /\ status'[x] = "done") \/ x \in callback
    BY <1>0, <2>2, <2>3 DEF RegistryInv
  <2>5. \A x \in AgentRun : (op'[x] \in {"saves", "prunes"} => status'[x] = "done")
                            /\ (status[x] # "unused" => status'[x] # "unused")
    BY <2>2 DEF RegistryInv
  <2> QED BY <1>0, <2>1, <2>4, <2>5
<1>7. ASSUME NEW r \in AgentRun, QuestionSaved(r)
      PROVE  Listened'
  <2>1. /\ UNCHANGED <<registered, background, callback, status>>
        /\ op' = [op EXCEPT ![r] = "none"] /\ op[r] = "asks"
    BY <1>7 DEF QuestionSaved
  <2> QED BY <1>0, <2>1 DEF RegistryInv
<1>8. ASSUME NEW r \in AgentRun, Reports(r)
      PROVE  Listened'
  <2>1. /\ UNCHANGED <<registered, background, status>>
        /\ op' = [op EXCEPT ![r] = "none"] /\ op[r] = "prunes"
        /\ callback' = callback \ {r}
    BY <1>8 DEF Reports
  <2> QED BY <1>0, <2>1 DEF RegistryInv
<1>9. ASSUME NEW r \in AgentRun, RetainTerminal(r)
      PROVE  Listened'
  <2>1. /\ UNCHANGED <<background, status>>
        /\ op' = [op EXCEPT ![r] = "prunes"] /\ op[r] = "saves"
        /\ Pruned(Append(terminalOrder, r))
    BY <1>9 DEF RetainTerminal
  <2>2. registered' \subseteq registered /\ \A x \in registered' : x \in callback => x \in callback'
    BY <2>1 DEF Pruned
  <2> QED BY <1>0, <2>1, <2>2 DEF RegistryInv
<1> QED
  BY <1>1, <1>2, <1>3, <1>4, <1>5, <1>6, <1>7, <1>8, <1>9 DEF RetentionNext

MailInv == RegistryInv /\ MailTyped /\ OnePerRun(mailbox) /\ Listened

ToldInv == MailInv /\ Told

(* Whom the parent has to be told of: those of before, with the same status  *)
(* of which it still will hear, and those it will hear of now.               *)
LEMMA StillTold ==
  ASSUME Told,
         parent = "busy" \/ scheduled => parent' = "busy" \/ scheduled',
         \A r \in registered' \cap background' :
           (op'[r] = "none" /\ status'[r] \in {"waiting", "done"} /\ cancelling'[r] = "no") =>
             \/ /\ r \in registered \cap background
                /\ op[r] = "none" /\ cancelling[r] = "no" /\ status'[r] = status[r]
                /\ told'[r] = told[r]
                /\ [of |-> r, status |-> status[r]] \in Updates =>
                     [of |-> r, status |-> status[r]] \in Updates'
             \/ [of |-> r, status |-> status'[r]] \in Updates' /\ (parent' = "busy" \/ scheduled')
  PROVE  Told'
BY DEF Told

(* A step that tells nobody anything, and after which nobody is to be told   *)
(* of who was not.                                                           *)
LEMMA NobodyTold ==
  ASSUME Told, UNCHANGED mail,
         \A r \in registered' \cap background' :
           (op'[r] = "none" /\ status'[r] \in {"waiting", "done"} /\ cancelling'[r] = "no") =>
             /\ r \in registered \cap background
             /\ op[r] = "none" /\ cancelling[r] = "no" /\ status'[r] = status[r]
  PROVE  Told'
BY StillTold DEF mail, Updates

(* What a reconciliation leaves.                                             *)
LEMMA StillThere ==
  ASSUME MailTyped, NEW reg, NEW st, mailbox' = Reconciled(mailbox, reg, st),
         NEW r \in reg, NEW s, st[r] = s, [of |-> r, status |-> s] \in Updates
  PROVE  [of |-> r, status |-> s] \in Updates'
<1> DEFINE u == [of |-> r, status |-> s]
<1>1. u.of = r /\ u.status = s
  OBVIOUS
<1>2. Updates' = {x \in Range(mailbox) : x.of \in reg /\ st[x.of] = x.status}
  BY ReconciledUpdates DEF MailTyped, Updates
<1> HIDE DEF u
<1>3. u \in Range(mailbox) => u \in Updates'
  BY <1>1, <1>2
<1> QED BY <1>3 DEF Updates, u

(* A delivery tells the parent of all that is pending and still true.        *)
LEMMA DeliveryTells ==
  ASSUME RegistryInv, MailTyped, OnePerRun(mailbox), Told,
         Flush(Reconciled(mailbox, registered, status)),
         UNCHANGED <<registered, background, op, status, cancelling>>
  PROVE  Told'
<1> DEFINE box == Reconciled(mailbox, registered, status)
<1>1. /\ box \in Seq(Update) /\ OnePerRun(box)
      /\ Range(box) = {u \in Range(mailbox) : u.of \in registered /\ status[u.of] = u.status}
  BY ReconciledUpdates DEF MailTyped
<1>2. told' = [r \in AgentRun |->
                 IF \E u \in Range(box) : u.of = r
                 THEN (CHOOSE u \in Range(box) : u.of = r).status ELSE told[r]]
  BY DEF Flush
<1> HIDE DEF box
<1>3. ASSUME NEW r \in registered \cap background,
             op[r] = "none", status[r] \in {"waiting", "done"}, cancelling[r] = "no"
      PROVE  told'[r] = status[r]
  <2>1. r \in AgentRun
    BY <1>3 DEF RegistryInv
  <2>2. CASE \E u \in Range(box) : u.of = r
    <3> DEFINE v == CHOOSE u \in Range(box) : u.of = r
    <3>1. v \in Range(box) /\ v.of = r
      BY <2>2
    <3>2. told'[r] = v.status
      BY <1>2, <2>1, <2>2
    <3> HIDE DEF v
    <3> QED BY <1>1, <3>1, <3>2
  <2>3. CASE ~ \E u \in Range(box) : u.of = r
    <3> DEFINE u == [of |-> r, status |-> status[r]]
    <3>1. u.of = r /\ u.status = status[r]
      OBVIOUS
    <3> HIDE DEF u
    <3>2. u \notin Range(mailbox)
      BY <1>1, <1>3, <2>3, <3>1
    <3>3. told[r] = status[r]
      BY <1>3, <3>2 DEF Told, Updates, u
    <3> QED BY <1>2, <2>1, <2>3, <3>3
  <2> QED BY <2>2, <2>3
<1> QED BY <1>3 DEF Told

LEMMA WorkTells ==
  ASSUME ToldInv, NEW r \in AgentRun, Works(r),
         background' \subseteq background \cup {r},
         UNCHANGED <<scheduled, parent>>,
         cancelling' \in {cancelling, [cancelling EXCEPT ![r] = "no"]},
         UNCHANGED mailbox \/ Reconcile
  PROVE  Told'
<1>1. /\ registered' = registered \cup {r} /\ status' = [status EXCEPT ![r] = "running"]
      /\ op' = [op EXCEPT ![r] = "works"] /\ told' = [told EXCEPT ![r] = "nothing"]
  BY DEF Works
<1>2. ASSUME NEW x \in registered' \cap background',
             op'[x] = "none", cancelling'[x] = "no"
      PROVE  /\ x \in registered \cap background /\ op[x] = "none" /\ cancelling[x] = "no"
             /\ status'[x] = status[x] /\ told'[x] = told[x]
             /\ [of |-> x, status |-> status[x]] \in Updates =>
                  [of |-> x, status |-> status[x]] \in Updates'
  <2>1. x # r
    BY <1>1, <1>2 DEF ToldInv, MailInv, RegistryInv
  <2>2. x \in registered \cap background /\ x \in AgentRun
    BY <1>1, <1>2, <2>1 DEF ToldInv, MailInv, RegistryInv
  <2>3. /\ op[x] = "none" /\ cancelling[x] = "no"
        /\ status'[x] = status[x] /\ told'[x] = told[x]
    BY <1>1, <1>2, <2>1, <2>2 DEF ToldInv, MailInv, RegistryInv, MailTyped
  <2>4. CASE UNCHANGED mailbox
    BY <2>2, <2>3, <2>4 DEF Updates
  <2>5. CASE Reconcile
    <3>1. mailbox' = Reconciled(mailbox, registered', status')
      BY <2>5 DEF Reconcile
    <3>2. [of |-> x, status |-> status[x]] \in Updates =>
                  [of |-> x, status |-> status[x]] \in Updates'
      BY <1>2, <2>3, <3>1, StillThere DEF ToldInv, MailInv
    <3> QED BY <2>2, <2>3, <3>2
  <2> QED BY <2>4, <2>5
<1> QED BY <1>2, StillTold DEF ToldInv, MailInv

(* The mailbox has room for whatever is queued.                              *)
Room == Len(mailbox) < MaxUpdates \/ FewRuns

(* An update that is queued is there after the reconciliation, and so are    *)
(* the others.                                                               *)
LEMMA AnnouncementTells ==
  ASSUME ToldInv, Room, NEW r \in AgentRun, op[r] \in {"asks", "prunes"},
         UNCHANGED <<registered, background, status, cancelling>>,
         op' = [op EXCEPT ![r] = "none"],
         IF Emits(r) THEN Announce(Queued(mailbox, r, status[r])) ELSE UNCHANGED mail
  PROVE  Told'
<1>1. registered \subseteq AgentRun /\ mailbox \in Seq(Update) /\ OnePerRun(mailbox)
  BY DEF ToldInv, MailInv, RegistryInv, MailTyped
<1>2. status[r] \in {"waiting", "done"}
  BY DEF ToldInv, MailInv, Listened, RegistryInv
<1>3. CASE Emits(r)
  <2> DEFINE box == Queued(mailbox, r, status[r])
  <2>1. /\ box \in Seq(Update)
        /\ Range(box) = {u \in Range(mailbox) : u.of # r} \cup {[of |-> r, status |-> status[r]]}
    BY <1>1, <1>2, QueuedUpdates, NoneEvicted DEF Room
  <2>2. /\ mailbox' = Reconciled(box, registered, status)
        /\ scheduled' = (scheduled \/ parent = "idle") /\ UNCHANGED <<parent, told>>
    BY <1>3 DEF Announce
  <2> HIDE DEF box
  <2>3. Updates' = {u \in Range(box) : u.of \in registered /\ status[u.of] = u.status}
    BY <2>1, <2>2, ReconciledUpdates DEF Updates
  <2>4. parent' = "busy" \/ scheduled'
    BY <2>2 DEF ToldInv, MailInv, MailTyped
  <2>5. ASSUME NEW x \in registered \cap background,
               op'[x] = "none", status[x] \in {"waiting", "done"}, cancelling[x] = "no"
        PROVE  told'[x] = status[x] \/ [of |-> x, status |-> status[x]] \in Updates'
    <3> DEFINE u == [of |-> x, status |-> status[x]]
    <3>1. u.of = x /\ u.status = status[x]
      OBVIOUS
    <3>2. CASE x = r
      <4>1. u \in Range(box)
        BY <2>1, <3>2
      <4> HIDE DEF u
      <4>2. u \in Updates'
        BY <2>3, <2>5, <3>1, <4>1
      <4> QED BY <4>2 DEF u
    <3>3. CASE x # r
      <4>1. x \in AgentRun /\ op[x] = "none"
        BY <1>1, <2>5, <3>3 DEF ToldInv, MailInv, RegistryInv
      <4>2. told[x] = status[x] \/ u \in Range(mailbox)
        BY <2>5, <4>1 DEF ToldInv, MailInv, Told, Updates
      <4> HIDE DEF u
      <4>3. u \in Range(mailbox) => u \in Range(box)
        BY <2>1, <3>1, <3>3
      <4>4. u \in Range(box) => u \in Updates'
        BY <2>3, <2>5, <3>1
      <4> QED BY <2>2, <4>2, <4>3, <4>4 DEF u
    <3> QED BY <3>2, <3>3
  <2> QED BY <2>4, <2>5 DEF Told
<1>4. CASE ~Emits(r)
  <2>1. r \notin registered \cap background \/ cancelling[r] # "no"
    BY <1>4 DEF Emits, ToldInv, MailInv, Listened
  <2>2. UNCHANGED mail
    BY <1>4
  <2>3. \A x \in registered \cap background : x # r => op'[x] = op[x]
    BY <1>1 DEF ToldInv, MailInv, RegistryInv
  <2> QED BY <2>1, <2>2, <2>3, NobodyTold DEF ToldInv, MailInv
<1> QED BY <1>3, <1>4

LEMMA RegistryStarts ==
  ASSUME RetentionInit
  PROVE  RegistryInv /\ MailTyped
<1>1. RegistryInv
  BY RetentionAssumption DEF RetentionInit, RegistryInv, Accounted
<1>2. mailbox \in Seq(Update) /\ unsaved \in 0..MaxUnsaved
  BY RetentionAssumption DEF RetentionInit
<1>3. /\ cancelling \in [AgentRun -> {"no", "stops", "ends"}]
      /\ told \in [AgentRun -> {"nothing", "waiting", "done"}]
  BY DEF RetentionInit
<1>4. MailTyped
  BY <1>2, <1>3 DEF RetentionInit, MailTyped
<1> QED BY <1>1, <1>4

LEMMA ToldKept ==
  ASSUME ToldInv, Room, [RetentionNext]_retentionVars
  PROVE  Told'
<1>0. /\ registered \subseteq AgentRun /\ background \subseteq AgentRun /\ Told
      /\ op \in [AgentRun -> {"none", "works", "asks", "saves", "prunes"}]
      /\ status \in [AgentRun -> {"unused", "running", "done"} \cup Parked]
      /\ cancelling \in [AgentRun -> {"no", "stops", "ends"}]
      /\ parent \in {"idle", "busy"}
  BY DEF ToldInv, MailInv, RegistryInv, MailTyped
<1>1. ASSUME NEW r \in AgentRun, StartBackground(r) \/ StartForeground(r) \/ ContinueOver(r)
                                 \/ ResumeByParent(r) \/ ResumeByUser(r)
      PROVE  Told'
  BY <1>1, WorkTells
     DEF StartBackground, StartForeground, ContinueOver, ResumeByParent, ResumeByUser, Resume
<1>2. CASE ParentTurn
  BY <1>0, <1>2, StillTold DEF ParentTurn, Updates
<1>3. CASE ParentSettles
  BY <1>3, DeliveryTells DEF ParentSettles, ToldInv, MailInv
<1>4. CASE FlushTask
  <2>1. CASE parent = "idle"
    BY <1>4, <2>1, DeliveryTells DEF FlushTask, ToldInv, MailInv
  <2>2. CASE parent # "idle"
    <3>1. parent = "busy"
      BY <1>0, <2>2
    <3> QED BY <1>0, <1>4, <2>2, <3>1, StillTold DEF FlushTask, Updates
  <2> QED BY <2>1, <2>2
<1>5. ASSUME NEW r \in AgentRun, MoveToBackground(r)
      PROVE  Told'
  <2>1. /\ UNCHANGED <<registered, status, op, cancelling, told, parent>>
        /\ op[r] = "works" /\ background' = background \cup {r}
        /\ mailbox' = Reconciled(mailbox, registered, status)
        /\ scheduled' = (scheduled \/ parent = "idle")
    BY <1>5 DEF MoveToBackground, Movable, Announce
  <2>2. \A x \in registered : [of |-> x, status |-> status[x]] \in Updates =>
                                [of |-> x, status |-> status[x]] \in Updates'
    BY <2>1, StillThere DEF ToldInv, MailInv
  <2> QED BY <1>0, <2>1, <2>2, StillTold
<1>6. ASSUME NEW r \in AgentRun, Collect(r)
      PROVE  Told'
  <2>1. /\ UNCHANGED <<background, status, op, cancelling, told, parent, scheduled>>
        /\ registered' = registered \ {r}
        /\ mailbox' = Reconciled(mailbox, registered', status')
    BY <1>6 DEF Collect, Unregistered, Reconcile
  <2>2. \A x \in registered' : [of |-> x, status |-> status[x]] \in Updates =>
                                [of |-> x, status |-> status[x]] \in Updates'
    BY <2>1, StillThere DEF ToldInv, MailInv
  <2> QED BY <1>0, <2>1, <2>2, StillTold
<1>7. ASSUME NEW r \in AgentRun, QuestionSaved(r) \/ Reports(r)
      PROVE  Told'
  <2>1. CASE QuestionSaved(r)
    <3>1. op[r] = "asks" /\ status[r] = "waiting"
      BY <2>1 DEF QuestionSaved, ToldInv, MailInv, RegistryInv
    <3> QED BY <2>1, <3>1, AnnouncementTells DEF QuestionSaved
  <2>2. CASE Reports(r)
    <3>1. op[r] = "prunes" /\ status[r] = "done"
      BY <2>2 DEF Reports, ToldInv, MailInv, Listened
    <3> QED BY <2>2, <3>1, AnnouncementTells DEF Reports
  <2> QED BY <1>7, <2>1, <2>2
<1>8. ASSUME NEW r \in AgentRun, AsksParent(r) \/ Interrupted(r) \/ BackgroundEnds(r)
                                 \/ CancelEnds(r)
      PROVE  Told'
  <2>1. UNCHANGED <<registered, background, mail>>
    BY <1>8 DEF AsksParent, Interrupted, BackgroundEnds, CancelEnds
  <2>2. /\ \/ status' = [status EXCEPT ![r] = "waiting"] /\ op' = [op EXCEPT ![r] = "asks"]
           \/ status' = [status EXCEPT ![r] = "interrupted"] /\ op' = [op EXCEPT ![r] = "none"]
           \/ status' = [status EXCEPT ![r] = "done"] /\ op' = [op EXCEPT ![r] = "saves"]
        /\ cancelling' \in {cancelling, [cancelling EXCEPT ![r] = "ends"]}
    BY <1>8 DEF AsksParent, Interrupted, BackgroundEnds, CancelEnds
  <2>3. \A x \in AgentRun \ {r} : op'[x] = op[x] /\ status'[x] = status[x]
                                  /\ cancelling'[x] = cancelling[x]
    BY <1>0, <2>2
  <2>4. op'[r] # "none" \/ status'[r] = "interrupted"
    BY <1>0, <2>2
  <2> QED BY <1>0, <2>1, <2>3, <2>4, NobodyTold
<1>9. ASSUME NEW r \in AgentRun, \/ DiscardRetained(r) \/ ForegroundEnds(r) \/ CancelRemoves(r)
                                 \/ ParkEnds(r)
      PROVE  Told'
  <2>1. registered' = registered \ {r} /\ UNCHANGED <<background, cancelling, mail>>
    BY <1>9 DEF DiscardRetained, ForegroundEnds, CancelRemoves, ParkEnds, Unregistered
  <2>2. /\ status' \in {status, [status EXCEPT ![r] = "done"]}
        /\ op' \in {op, [op EXCEPT ![r] = "none"]}
    BY <1>9 DEF DiscardRetained, ForegroundEnds, CancelRemoves, ParkEnds
  <2>3. \A x \in AgentRun \ {r} : op'[x] = op[x] /\ status'[x] = status[x]
    BY <1>0, <2>2
  <2> QED BY <1>0, <2>1, <2>3, NobodyTold
<1>10. ASSUME NEW r \in AgentRun, RetainTerminal(r)
       PROVE  Told'
  <2>1. /\ UNCHANGED <<background, status, cancelling, mail>>
        /\ op' = [op EXCEPT ![r] = "prunes"]
        /\ Pruned(Append(terminalOrder, r))
    BY <1>10 DEF RetainTerminal
  <2>2. registered' \subseteq registered
    BY <2>1 DEF Pruned
  <2>3. op'[r] = "prunes" /\ \A x \in AgentRun \ {r} : op'[x] = op[x]
    BY <1>0, <2>1
  <2> QED BY <1>0, <2>1, <2>2, <2>3, NobodyTold
<1>11. ASSUME NEW r \in AgentRun, Cancel(r)
       PROVE  Told'
  <2>1. /\ UNCHANGED <<registered, background, status, op, mail>>
        /\ cancelling' = [cancelling EXCEPT ![r] = "stops"]
    BY <1>11 DEF Cancel
  <2>2. \A x \in AgentRun : cancelling'[x] = "no" => cancelling[x] = "no"
    BY <1>0, <2>1
  <2> QED BY <1>0, <2>1, <2>2, NobodyTold
<1>12. CASE UNCHANGED retentionVars \/ \E r \in AgentRun : ParkBegins(r)
  <2>1. UNCHANGED <<registered, background, status, op, cancelling, mail>>
    BY <1>12 DEF retentionVars, ParkBegins, mail
  <2> QED BY <1>0, <2>1, NobodyTold
<1> QED
  BY <1>1, <1>2, <1>3, <1>4, <1>5, <1>6, <1>7, <1>8, <1>9, <1>10, <1>11, <1>12 DEF RetentionNext

LEMMA MailStarts ==
  ASSUME RetentionInit
  PROVE  MailInv /\ Told
<1>1. RegistryInv /\ MailTyped
  BY RegistryStarts
<1>2. OnePerRun(mailbox) /\ Listened /\ Told
  BY DEF RetentionInit, OnePerRun, Listened, Told
<1> QED BY <1>1, <1>2 DEF MailInv

LEMMA MailKept ==
  ASSUME MailInv, [RetentionNext]_retentionVars
  PROVE  MailInv'
<1>1. RegistryInv' /\ MailTyped' /\ Listened'
  BY RegistryKept, MailTypesKept, ListenedKept DEF MailInv
<1>2. OnePerRun(mailbox)'
  BY MailboxSteps, MailboxKept DEF MailInv, MailTyped
<1> QED BY <1>1, <1>2 DEF MailInv

(* backgroundUpdate, the mailbox and its flushes: as long as the mailbox is  *)
(* never full, the parent is told of every background run that waits for it  *)
(* or has a result for it, or an update is pending and on its way, whatever  *)
(* is reconciled, resumed, collected, canceled or pruned in between.         *)
THEOREM RoomyMailboxTells == RetentionSpec /\ [](Len(mailbox) < MaxUpdates) => []Told
<1>1. RetentionInit => MailInv /\ Told
  BY MailStarts
<1>2. MailInv /\ [RetentionNext]_retentionVars => MailInv'
  BY MailKept
<1>3. MailInv /\ Told /\ Len(mailbox) < MaxUpdates /\ [RetentionNext]_retentionVars => Told'
  BY ToldKept DEF Room, ToldInv
<1> QED BY <1>1, <1>2, <1>3, PTL DEF RetentionSpec

(* It cannot be too full as long as there are no more runs than the mailbox  *)
(* holds updates, so the parent of a session with so few is told of all.     *)
THEOREM UpdatesReachParent ==
  ASSUME IsFiniteSet(AgentRun), Cardinality(AgentRun) <= MaxUpdates
  PROVE  RetentionSpec => []Told
<1>1. RetentionInit => MailInv /\ Told
  BY MailStarts
<1>2. MailInv /\ [RetentionNext]_retentionVars => MailInv'
  BY MailKept
<1>3. MailInv /\ Told /\ [RetentionNext]_retentionVars => Told'
  BY ToldKept DEF Room, FewRuns, ToldInv
<1> QED BY <1>1, <1>2, <1>3, PTL DEF RetentionSpec

(* The same invariant gives the types of the registry and its mailbox.       *)
THEOREM RetentionTypesHold == RetentionSpec => []RetentionTypeOK
<1>1. RetentionInit => RegistryInv /\ MailTyped
  BY RegistryStarts
<1>2. (RegistryInv /\ MailTyped) /\ [RetentionNext]_retentionVars => (RegistryInv /\ MailTyped)'
  BY RegistryKept, MailTypesKept
<1>3. RegistryInv /\ MailTyped => RetentionTypeOK
  BY RetentionTyped
<1> QED BY <1>1, <1>2, <1>3, PTL DEF RetentionSpec
=============================================================================
