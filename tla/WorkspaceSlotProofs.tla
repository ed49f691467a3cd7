------------------------ MODULE WorkspaceSlotProofs ------------------------
(* Proofs about the isolated worktree, its leases and its results, for any  *)
(* processes, runs and calls and any number of failures, commits and resets.*)
EXTENDS WorkspaceSlot, TLAPS

(* Steps of a call that has a run but not yet, or no longer, its worktree,  *)
(* and steps that are about a result.                                      *)
Driving == {"recycle", "launch", "acquire", "verify", "restore", "work"}
Concerned == Disposing \cup {"reserve", "check", "claim", "vacate"}

(* Steps at which a result on offer is reserved, and those of a call that   *)
(* passed the look at activeApplyingResultIds or needs none.                *)
Holding == {"mark", "keep", "unref", "forget", "clear"}
Engaged == Applying \cup {"claim"}

(* A call in progress is made for a run, in a process that lives. *)
CallsPlaced ==
  \A t \in Task : task[t].pc \notin {"idle", "done"} =>
    /\ task[t].proc \in Proc \ dead
    /\ task[t].run \in Run
    /\ task[t].pc \in Concerned => task[t].about # 0

(* What a reservation is for: to dispose of a result on offer, or to finish *)
(* or undo an application that was begun.  An application begun is reserved.*)
PhaseOfResult ==
  /\ \A t \in Task :
       /\ task[t].pc \in Holding => results[task[t].about].status = "prepared"
       /\ task[t].pc \in Applying =>
            results[task[t].about].status = "applying" \/ task[t].about \in crossed
       /\ task[t].pc = "offer" =>
            task[t].about \notin parent.patch \cup parent.kept \/ task[t].about \in crossed
  /\ \A i \in DOMAIN results : results[i].status = "applying" => results[i].token # None

(* Unless they crossed, one call of a process at most is on its way to      *)
(* apply or recover a result, and activeApplyingResultIds speaks for it.    *)
OneApplies ==
  /\ \A t, u \in Task :
       /\ task[t].pc \in Engaged /\ task[u].pc \in Engaged
       /\ task[t].proc = task[u].proc /\ task[t].about = task[u].about
       => t = u \/ task[t].about \in crossed
  /\ \A t \in Task : task[t].pc \in Registered =>
       <<task[t].proc, task[t].about>> \in applying \/ task[t].about \in crossed

(* What is in the checkout came from the results; and once the user has     *)
(* committed a patch, HEAD is past the revision recorded for it.           *)
CheckoutTraced ==
  /\ parent.patch \cup parent.kept \subseteq DOMAIN results
  /\ \A i \in DOMAIN results : results[i].status = "applying" =>
       /\ results[i].rev <= parent.rev
       /\ i \in parent.kept => results[i].rev < parent.rev

(* One call at most drives a run, and the run's state shows how far it is.  *)
OneDriver ==
  /\ \A t, u \in Task :
       task[t].pc \in Driving /\ task[u].pc \in Driving /\ task[t].run = task[u].run => t = u
  /\ \A t \in Task :
       /\ task[t].pc \in {"recycle", "launch"} => state[task[t].run] = "claimed"
       /\ task[t].pc \in {"acquire", "verify", "restore"} =>
            state[task[t].run] \in {"settled", "collected", "interrupted"}
       /\ task[t].pc = "work" => state[task[t].run] = "active"

DispositionInv ==
  /\ CallsPlaced
  /\ TokenHolder
  /\ PhaseOfResult
  /\ OneApplies
  /\ CheckoutTraced
  /\ PreparedNotInParent
  /\ ResultReachable

SlotInv == DispositionInv /\ OneDriver

-----------------------------------------------------------------------------
(* What the steps write. *)

(* Call t goes on to a step, or ends. *)
Moves(t, label) ==
  /\ task' \in [Task -> TaskRow]
  /\ \A u \in Task \ {t} : task'[u] = task[u]
  /\ task'[t].pc = label /\ task'[t].proc = task[t].proc
  /\ label = "done" => task'[t].about = 0
  /\ label # "done" => /\ task'[t].run = task[t].run /\ task'[t].call = task[t].call
                       /\ task'[t].about = task[t].about /\ task'[t].saw = task[t].saw

(* Result i is rewritten, its run and its commits excepted. *)
Rewritten(row, ref, rev, status, token) ==
  [run |-> row.run, work |-> row.work, ref |-> ref, rev |-> rev,
   status |-> status, token |-> token]

Writes(i, ref, rev, status, token) ==
  /\ results' \in Seq(ResultRow) /\ DOMAIN results' = DOMAIN results
  /\ \A j \in DOMAIN results \ {i} : results'[j] = results[j]
  /\ results'[i] = Rewritten(results[i], ref, rev, status, token)

LEMMA EndedRow ==
  ASSUME NEW c \in TaskRow
  PROVE  Ended(c) = [pc |-> "done", call |-> "none", proc |-> c.proc,
                     run |-> None, about |-> 0, saw |-> None]
<1> DEFINE over == [NoCall EXCEPT !.pc = "done"]
<1>1. c.proc \in Proc \cup {None} /\ NoCall \in TaskRow
  BY DEF TaskRow, NoCall, Steps
<1>2. /\ over \in TaskRow
      /\ over.call = "none" /\ over.run = None /\ over.about = 0 /\ over.saw = None
      /\ over.pc = "done"
  BY <1>1 DEF TaskRow, NoCall, Steps
<1>3. Ended(c) = [over EXCEPT !.proc = c.proc]
  BY <1>1 DEF Ended, TaskRow
<1> HIDE DEF over
<1>4. [over EXCEPT !.proc = c.proc] =
        [pc |-> over.pc, call |-> over.call, proc |-> c.proc,
         run |-> over.run, about |-> over.about, saw |-> over.saw]
  BY <1>1, <1>2 DEF TaskRow
<1>5. QED
  BY <1>2, <1>3, <1>4

LEMMA GotoMoves ==
  ASSUME TypeOK, NEW t \in Task, NEW label \in Steps, Goto(t, label)
  PROVE  Moves(t, label)
<1>1. task \in [Task -> TaskRow] /\ task[t] \in TaskRow
  BY DEF TypeOK
<1>2. CASE label = "done"
  <2> DEFINE end == [pc |-> "done", call |-> "none", proc |-> task[t].proc,
                     run |-> None, about |-> 0, saw |-> None]
  <2>1. Ended(task[t]) = end
    BY <1>1, EndedRow
  <2>2. task' = [task EXCEPT ![t] = end]
    BY <1>2, <2>1 DEF Goto
  <2>3. end \in TaskRow
    BY <1>1, <1>2 DEF TaskRow
  <2>4. QED
    BY <1>1, <1>2, <2>2, <2>3 DEF Moves
<1>3. CASE label # "done"
  <2> DEFINE next == [pc |-> label, call |-> task[t].call, proc |-> task[t].proc,
                      run |-> task[t].run, about |-> task[t].about, saw |-> task[t].saw]
  <2>1. [task[t] EXCEPT !.pc = label] = next
    BY <1>1 DEF TaskRow
  <2>2. task' = [task EXCEPT ![t] = next]
    BY <1>3, <2>1 DEF Goto
  <2>3. next \in TaskRow
    BY <1>1 DEF TaskRow
  <2>4. QED
    BY <1>1, <1>3, <2>2, <2>3 DEF Moves
<1>4. QED
  BY <1>2, <1>3

LEMMA CalledMoves ==
  ASSUME TypeOK, NEW t \in Task,
         NEW kind \in {"start", "continue", "apply", "retain", "discard", "sweep"},
         NEW p \in Proc, NEW r \in Run, NEW i \in Nat, NEW label \in Steps,
         Called(t, kind, p, r, i, label)
  PROVE  /\ task[t].pc = "idle" /\ p \notin dead
         /\ task' \in [Task -> TaskRow]
         /\ \A u \in Task \ {t} : task'[u] = task[u]
         /\ task'[t] = [pc |-> label, call |-> kind, proc |-> p, run |-> r,
                        about |-> i, saw |-> slot.held]
<1> DEFINE new == [pc |-> label, call |-> kind, proc |-> p, run |-> r,
                   about |-> i, saw |-> slot.held]
<1>1. task \in [Task -> TaskRow] /\ slot.held \in Run \cup {None}
  BY DEF TypeOK, SlotRow
<1>2. task' = [task EXCEPT ![t] = new] /\ task[t].pc = "idle" /\ p \notin dead
  BY DEF Called, At
<1>3. new \in TaskRow
  BY <1>1 DEF TaskRow
<1>4. QED
  BY <1>1, <1>2, <1>3

LEMMA RowWritten ==
  ASSUME TypeOK, NEW i \in DOMAIN results, NEW ref \in BOOLEAN, NEW rev \in Nat,
         NEW status \in {"prepared", "applying", "applied", "discarded"},
         NEW token \in Task \cup {None},
         results' = [results EXCEPT ![i] = Rewritten(results[i], ref, rev, status, token)]
  PROVE  Writes(i, ref, rev, status, token)
<1> DEFINE row == Rewritten(results[i], ref, rev, status, token)
<1>1. results \in Seq(ResultRow) /\ results[i] \in ResultRow
  BY DEF TypeOK
<1>2. row \in ResultRow
  BY <1>1 DEF ResultRow, Rewritten
<1>3. results' = [results EXCEPT ![i] = row]
  OBVIOUS
<1> HIDE DEF row
<1>4. /\ results' \in Seq(ResultRow) /\ DOMAIN results' = DOMAIN results
      /\ \A j \in DOMAIN results \ {i} : results'[j] = results[j]
      /\ results'[i] = row
  BY <1>1, <1>2, <1>3
<1>5. QED
  BY <1>4 DEF row, Writes

(* One column of a row. *)
LEMMA TokenWritten ==
  ASSUME NEW row \in ResultRow, NEW token \in Task \cup {None}
  PROVE  /\ [row EXCEPT !.token = token] \in ResultRow
         /\ [row EXCEPT !.token = token] = Rewritten(row, row.ref, row.rev, row.status, token)
BY DEF ResultRow, Rewritten

LEMMA StatusWritten ==
  ASSUME NEW row \in ResultRow, NEW status \in {"prepared", "applying", "applied", "discarded"}
  PROVE  /\ [row EXCEPT !.status = status] \in ResultRow
         /\ [row EXCEPT !.status = status] = Rewritten(row, row.ref, row.rev, status, row.token)
BY DEF ResultRow, Rewritten

LEMMA RevWritten ==
  ASSUME NEW row \in ResultRow, NEW rev \in Nat
  PROVE  /\ [row EXCEPT !.rev = rev] \in ResultRow
         /\ [row EXCEPT !.rev = rev] = Rewritten(row, row.ref, rev, row.status, row.token)
BY DEF ResultRow, Rewritten

LEMMA RefWritten ==
  ASSUME NEW row \in ResultRow, NEW ref \in BOOLEAN
  PROVE  /\ [row EXCEPT !.ref = ref] \in ResultRow
         /\ [row EXCEPT !.ref = ref] = Rewritten(row, ref, row.rev, row.status, row.token)
BY DEF ResultRow, Rewritten

(* The updates of the code. *)
LEMMA UpdatesWrite ==
  ASSUME TypeOK, NEW i \in DOMAIN results, NEW token \in Task \cup {None},
         NEW rev \in Nat, NEW status \in {"prepared", "applying", "applied", "discarded"}
  PROVE  LET row == results[i]
         IN /\ results' = [results EXCEPT ![i].token = token] =>
                 Writes(i, row.ref, row.rev, row.status, token)
            /\ results' = [results EXCEPT ![i].status = status, ![i].rev = rev] =>
                 Writes(i, row.ref, rev, status, row.token)
            /\ results' = [results EXCEPT ![i].status = status, ![i].token = token] =>
                 Writes(i, row.ref, row.rev, status, token)
            /\ results' = [results EXCEPT ![i].ref = FALSE] =>
                 Writes(i, FALSE, row.rev, row.status, row.token)
            /\ results' = [results EXCEPT ![i].status = status, ![i].ref = FALSE, ![i].token = token] =>
                 Writes(i, FALSE, row.rev, status, token)
<1>0. PICK row \in ResultRow : row = results[i]
  BY DEF TypeOK
<1>1. /\ results \in Seq(ResultRow) /\ row \in ResultRow
      /\ row.ref \in BOOLEAN /\ row.rev \in Nat
      /\ row.status \in {"prepared", "applying", "applied", "discarded"}
      /\ row.token \in Task \cup {None}
  BY <1>0 DEF TypeOK, ResultRow
<1>2. ASSUME results' = [results EXCEPT ![i].token = token]
      PROVE  Writes(i, row.ref, row.rev, row.status, token)
  <2>1. results' = [results EXCEPT ![i] = [row EXCEPT !.token = token]]
    BY <1>0, <1>1, <1>2
  <2>2. [row EXCEPT !.token = token] =
          Rewritten(row, row.ref, row.rev, row.status, token)
    BY <1>1, TokenWritten
  <2>3. results' = [results EXCEPT ![i] = Rewritten(row, row.ref, row.rev, row.status, token)]
    BY <2>1, <2>2
  <2>4. QED
    BY <1>0, <1>1, <2>3, RowWritten
<1>3. ASSUME results' = [results EXCEPT ![i].status = status, ![i].rev = rev]
      PROVE  Writes(i, row.ref, rev, status, row.token)
  <2>1. PICK first \in ResultRow : /\ first = [row EXCEPT !.status = status]
                                  /\ first = Rewritten(row, row.ref, row.rev, status, row.token)
    <3>1. /\ [row EXCEPT !.status = status] \in ResultRow
          /\ [row EXCEPT !.status = status] = Rewritten(row, row.ref, row.rev, status, row.token)
      BY StatusWritten
    <3>2. QED
      BY <3>1
  <2>2. /\ first.run = row.run /\ first.work = row.work /\ first.ref = row.ref
        /\ first.rev = row.rev /\ first.status = status /\ first.token = row.token
    BY <2>1 DEF Rewritten
  <2>3. [first EXCEPT !.rev = rev] = Rewritten(first, first.ref, rev, first.status, first.token)
    BY RevWritten
  <2>4. [first EXCEPT !.rev = rev] = Rewritten(row, row.ref, rev, status, row.token)
    BY <2>2, <2>3 DEF Rewritten
  <2>5. results' = [results EXCEPT ![i] = [first EXCEPT !.rev = rev]]
    BY <1>0, <1>1, <1>3, <2>1
  <2>6. results' = [results EXCEPT ![i] = Rewritten(row, row.ref, rev, status, row.token)]
    BY <2>4, <2>5
  <2>7. QED
    BY <1>0, <1>1, <2>6, RowWritten
<1>4. ASSUME results' = [results EXCEPT ![i].status = status, ![i].token = token]
      PROVE  Writes(i, row.ref, row.rev, status, token)
  <2>1. PICK first \in ResultRow : /\ first = [row EXCEPT !.status = status]
                                  /\ first = Rewritten(row, row.ref, row.rev, status, row.token)
    <3>1. /\ [row EXCEPT !.status = status] \in ResultRow
          /\ [row EXCEPT !.status = status] = Rewritten(row, row.ref, row.rev, status, row.token)
      BY StatusWritten
    <3>2. QED
      BY <3>1
  <2>2. /\ first.run = row.run /\ first.work = row.work /\ first.ref = row.ref
        /\ first.rev = row.rev /\ first.status = status /\ first.token = row.token
    BY <2>1 DEF Rewritten
  <2>3. [first EXCEPT !.token = token] = Rewritten(first, first.ref, first.rev, first.status, token)
    BY TokenWritten
  <2>4. [first EXCEPT !.token = token] = Rewritten(row, row.ref, row.rev, status, token)
    BY <2>2, <2>3 DEF Rewritten
  <2>5. results' = [results EXCEPT ![i] = [first EXCEPT !.token = token]]
    BY <1>0, <1>1, <1>4, <2>1
  <2>6. results' = [results EXCEPT ![i] = Rewritten(row, row.ref, row.rev, status, token)]
    BY <2>4, <2>5
  <2>7. QED
    BY <1>0, <1>1, <2>6, RowWritten
<1>5. ASSUME results' = [results EXCEPT ![i].ref = FALSE]
      PROVE  Writes(i, FALSE, row.rev, row.status, row.token)
  <2>1. results' = [results EXCEPT ![i] = [row EXCEPT !.ref = FALSE]]
    BY <1>0, <1>1, <1>5
  <2>2. [row EXCEPT !.ref = FALSE] =
          Rewritten(row, FALSE, row.rev, row.status, row.token)
    BY <1>1, RefWritten
  <2>3. results' = [results EXCEPT ![i] = Rewritten(row, FALSE, row.rev, row.status, row.token)]
    BY <2>1, <2>2
  <2>4. QED
    BY <1>0, <1>1, <2>3, RowWritten
<1>6. ASSUME results' = [results EXCEPT ![i].status = status, ![i].ref = FALSE, ![i].token = token]
      PROVE  Writes(i, FALSE, row.rev, status, token)
  <2>1. PICK first \in ResultRow : /\ first = [row EXCEPT !.status = status]
                                  /\ first = Rewritten(row, row.ref, row.rev, status, row.token)
    <3>1. /\ [row EXCEPT !.status = status] \in ResultRow
          /\ [row EXCEPT !.status = status] = Rewritten(row, row.ref, row.rev, status, row.token)
      BY StatusWritten
    <3>2. QED
      BY <3>1
  <2>2. /\ first.run = row.run /\ first.work = row.work /\ first.ref = row.ref
        /\ first.rev = row.rev /\ first.status = status /\ first.token = row.token
    BY <2>1 DEF Rewritten
  <2>3. PICK second \in ResultRow :
          /\ second = [first EXCEPT !.ref = FALSE]
          /\ second = Rewritten(first, FALSE, first.rev, first.status, first.token)
    BY RefWritten
  <2>4. /\ second.run = row.run /\ second.work = row.work /\ second.ref = FALSE
        /\ second.rev = row.rev /\ second.status = status
    BY <2>2, <2>3 DEF Rewritten
  <2>5. [second EXCEPT !.token = token] =
          Rewritten(second, second.ref, second.rev, second.status, token)
    BY TokenWritten
  <2>6. [second EXCEPT !.token = token] = Rewritten(row, FALSE, row.rev, status, token)
    BY <2>4, <2>5 DEF Rewritten
  <2>7. results' = [results EXCEPT ![i] = [second EXCEPT !.token = token]]
    BY <1>0, <1>1, <1>6, <2>1, <2>3
  <2>8. QED
    BY <1>0, <1>1, <2>6, <2>7, RowWritten
<1>7. QED
  BY <1>0, <1>2, <1>3, <1>4, <1>5, <1>6

-----------------------------------------------------------------------------
(* The rules of a disposition. *)

(* No other call acts on the result that t is about, crossed ones aside.    *)
Sole(t) ==
  \A u \in Task \ {t} :
    task[u].pc \in Disposing /\ task[u].about = task[t].about =>
      task[u].pc \in Applying /\ task[t].about \in crossed

(* Call t goes on to a step and rewrites the result it is about: it takes   *)
(* or gives back the reservation only if nobody else holds it, and changes  *)
(* the status of a result only so; what is applied or discarded stays so.   *)
Disposes(t, label, ref, rev, status, token) ==
  LET i == task[t].about
      row == results[i]
  IN  /\ Moves(t, label) /\ Writes(i, ref, rev, status, token)
      /\ token = row.token \/ Sole(t)
      /\ status = row.status \/ Sole(t)
      /\ label \in Holding => token = t /\ status = "prepared"
      /\ label \in Applying => (token = t /\ status = "applying") \/ i \in crossed'
      /\ label = "offer" => i \notin parent.patch \cup parent.kept \/ i \in crossed'
      /\ token # None => status \in {"prepared", "applying"}
      /\ status = "applying" => token # None
      /\ row.status \in {"applied", "discarded"} => status = row.status
      /\ status = "applying" =>
           \/ row.status = "applying" /\ rev = row.rev
           \/ rev = parent.rev /\ i \notin parent.kept
      /\ status \in {"prepared", "discarded"} =>
           \/ row.status \in {"prepared", "discarded"}
           \/ i \notin parent.patch \cup parent.kept
           \/ i \in crossed'
      /\ ref = row.ref \/ label = "forget" \/ status = "discarded"
      /\ task[t].pc = "forget" => status = "discarded" \/ errors' # 0

(* What call t may do to activeApplyingResultIds on the way to a step.      *)
Alone(t) ==
  \A u \in Task \ {t} :
    ~ (task[u].pc \in Engaged /\ task[u].proc = task[t].proc /\ task[u].about = task[t].about)

Enlists(t, label) ==
  LET i == task[t].about
      id == <<task[t].proc, i>>
  IN  /\ crossed \subseteq crossed' /\ crossed' \subseteq crossed \cup {i}
      /\ applying' \subseteq applying \cup {id}
      /\ \A e \in applying \ applying' : e = id /\ task[t].pc \in Engaged
      /\ label \in Engaged => task[t].pc \in Engaged \/ Alone(t) \/ i \in crossed'
      /\ label \in Registered => id \in applying' \/ i \in crossed'

(* The types of results and calls. *)
TablesOK ==
  /\ results \in Seq(ResultRow)
  /\ \A i \in DOMAIN results :
       results[i].token # None => results[i].status \in {"prepared", "applying"}
  /\ applying \subseteq Proc \X DOMAIN results /\ crossed \subseteq DOMAIN results
  /\ task \in [Task -> TaskRow]
  /\ \A t \in Task : task[t].about \in {0} \cup DOMAIN results

LEMMA DisposesKeepsTables ==
  ASSUME TypeOK, NEW t \in Task, NEW label, NEW ref, NEW rev, NEW status, NEW token,
         task[t].about \in DOMAIN results, task[t].proc \in Proc,
         Disposes(t, label, ref, rev, status, token), Enlists(t, label)
  PROVE  TablesOK'
<1>1. /\ task' \in [Task -> TaskRow]
      /\ \A u \in Task : task'[u].about \in {0, task[u].about}
  BY DEF Disposes, Moves
<1>2. /\ results' \in Seq(ResultRow) /\ DOMAIN results' = DOMAIN results
      /\ \A j \in DOMAIN results \ {task[t].about} : results'[j] = results[j]
      /\ results'[task[t].about].status = status
      /\ results'[task[t].about].token = token
  BY DEF Disposes, Writes, Rewritten
<1>3. \A j \in DOMAIN results' :
        results'[j].token # None => results'[j].status \in {"prepared", "applying"}
  BY <1>2 DEF Disposes, TypeOK
<1>4. applying' \subseteq Proc \X DOMAIN results /\ crossed' \subseteq DOMAIN results
  BY DEF Enlists, TypeOK
<1>5. QED
  BY <1>1, <1>2, <1>3, <1>4 DEF TypeOK, TablesOK

(* Who enters alone and leaves only its own id keeps the others apart.      *)
LEMMA EnlistsKeepsApart ==
  ASSUME OneApplies, NEW t \in Task, NEW label, Moves(t, label), Enlists(t, label)
  PROVE  OneApplies'
<1> DEFINE i == task[t].about
<1>1. /\ \A u \in Task \ {t} : task'[u] = task[u]
      /\ task'[t].pc = label /\ task'[t].proc = task[t].proc
      /\ label \in Engaged \cup Registered => task'[t].about = i
  BY DEF Moves, Engaged, Applying, Registered
<1>2. /\ crossed \subseteq crossed'
      /\ label \in Engaged => task[t].pc \in Engaged \/ Alone(t) \/ i \in crossed'
      /\ label \in Registered => <<task[t].proc, i>> \in applying' \/ i \in crossed'
      /\ \A e \in applying \ applying' : e = <<task[t].proc, i>> /\ task[t].pc \in Engaged
  BY DEF Enlists
<1>3. ASSUME NEW u \in Task \ {t}, label \in Engaged, task[u].pc \in Engaged,
             task[u].proc = task[t].proc, task[u].about = i
      PROVE  i \in crossed'
  BY <1>2, <1>3 DEF Alone, OneApplies
<1>4. ASSUME NEW u \in Task, NEW v \in Task, task'[u].pc \in Engaged, task'[v].pc \in Engaged,
             task'[u].proc = task'[v].proc, task'[u].about = task'[v].about, u # v
      PROVE  task'[u].about \in crossed'
  <2>1. CASE u # t /\ v # t
    BY <1>1, <1>2, <1>4, <2>1 DEF OneApplies
  <2>2. CASE u = t \/ v = t
    BY <1>1, <1>3, <1>4, <2>2
  <2>3. QED
    BY <2>1, <2>2
<1>5. ASSUME NEW u \in Task, task'[u].pc \in Registered
      PROVE  <<task'[u].proc, task'[u].about>> \in applying' \/ task'[u].about \in crossed'
  <2>1. CASE u = t
    BY <1>1, <1>2, <1>5, <2>1
  <2>2. CASE u # t
    <3>1. /\ task'[u] = task[u] /\ task[u].pc \in Registered /\ task[u].pc \in Engaged
          /\ <<task[u].proc, task[u].about>> \in applying \/ task[u].about \in crossed'
      BY <1>1, <1>2, <1>5, <2>2 DEF OneApplies, Engaged, Applying
    <3>2. ASSUME <<task[u].proc, task[u].about>> \in applying \ applying'
          PROVE  task[u].about \in crossed'
      <4>1. task[u].proc = task[t].proc /\ task[u].about = i /\ task[t].pc \in Engaged
        BY <1>2, <3>2
      <4>2. QED
        BY <1>2, <2>2, <3>1, <4>1 DEF OneApplies
    <3>3. QED
      BY <3>1, <3>2
  <2>3. QED
    BY <2>1, <2>2
<1>6. QED
  BY <1>4, <1>5 DEF OneApplies

LEMMA DisposesKeepsInv ==
  ASSUME TypeOK, DispositionInv, NEW t \in Task,
         NEW label, NEW ref, NEW rev, NEW status, NEW token,
         task[t].pc \notin {"idle", "done"}, task[t].about \in DOMAIN results,
         Disposes(t, label, ref, rev, status, token), Enlists(t, label),
         UNCHANGED <<parent, dead>>, errors' = 0 => errors = 0
  PROVE  DispositionInv' /\ TablesOK'
<1> DEFINE i == task[t].about
           row == results[i]
<1> USE DEF DispositionInv
<1>1. /\ i \in DOMAIN results /\ DOMAIN results' = DOMAIN results
      /\ \A j \in DOMAIN results \ {i} : results'[j] = results[j]
      /\ results'[i].work = row.work /\ results'[i].ref = ref /\ results'[i].rev = rev
      /\ results'[i].status = status /\ results'[i].token = token
  BY DEF Disposes, Writes, Rewritten
<1>2. /\ \A u \in Task \ {t} : task'[u] = task[u]
      /\ task'[t].pc = label /\ task'[t].proc = task[t].proc
      /\ label # "done" => task'[t].run = task[t].run /\ task'[t].about = i
  BY DEF Disposes, Moves
<1>3. \A u \in Task : task[u].pc \in Concerned => task[u].about \in DOMAIN results
  BY DEF CallsPlaced, TypeOK, Concerned, Disposing, Applying, Registered
<1>4. CallsPlaced'
  <2>1. i # 0
    BY <1>1 DEF TypeOK
  <2>2. QED
    BY <1>2, <2>1 DEF CallsPlaced, Concerned, Disposing, Applying, Registered
<1>5. crossed \subseteq crossed'
  BY DEF Enlists
<1>6. ASSUME NEW u \in Task \ {t}, task[u].pc \in Disposing
      PROVE  \/ results'[task[u].about].token = results[task[u].about].token
                /\ results'[task[u].about].status = results[task[u].about].status
             \/ task[u].pc \in Applying /\ task[u].about \in crossed'
  <2>1. CASE task[u].about = i
    BY <1>1, <1>5, <1>6, <2>1 DEF Disposes, Sole
  <2>2. CASE task[u].about # i
    BY <1>1, <1>3, <1>6, <2>2 DEF Concerned
  <2>3. QED
    BY <2>1, <2>2
<1>7. label \in Disposing => label \in Holding \cup Applying
  BY DEF Disposing, Holding
<1>8. Holding \cap Applying = {} /\ Holding \subseteq Disposing /\ Applying \subseteq Disposing
  BY DEF Disposing, Holding, Applying, Registered
<1>9. TokenHolder'
  <2> SUFFICES ASSUME NEW u \in Task, task'[u].pc \in Disposing
               PROVE  \/ results'[task'[u].about].token = u
                      \/ task'[u].pc \in Applying /\ task'[u].about \in crossed'
    BY DEF TokenHolder
  <2>1. CASE u = t
    <3>1. label \in Disposing /\ label # "done"
      BY <1>2, <2>1 DEF Disposing, Applying, Registered
    <3>2. QED
      BY <1>1, <1>2, <1>7, <2>1, <3>1 DEF Disposes
  <2>2. CASE u # t
    BY <1>2, <1>5, <1>6, <2>2 DEF TokenHolder
  <2>3. QED
    BY <2>1, <2>2
<1>10. PhaseOfResult'
  <2>1. ASSUME NEW u \in Task
        PROVE  /\ task'[u].pc \in Holding => results'[task'[u].about].status = "prepared"
               /\ task'[u].pc \in Applying =>
                    results'[task'[u].about].status = "applying" \/ task'[u].about \in crossed'
               /\ task'[u].pc = "offer" =>
                     \/ task'[u].about \notin parent.patch \cup parent.kept
                    \/ task'[u].about \in crossed'
    <3>1. CASE u = t
      <4>1. label \in Holding \cup Applying \cup {"offer"} => label # "done"
        BY DEF Holding, Applying, Registered
      <4>2. QED
        BY <1>1, <1>2, <3>1, <4>1 DEF Disposes
    <3>2. CASE u # t
      BY <1>2, <1>5, <1>6, <1>8, <3>2 DEF PhaseOfResult
    <3>3. QED
      BY <3>1, <3>2
  <2>2. \A j \in DOMAIN results' : results'[j].status = "applying" => results'[j].token # None
    BY <1>1 DEF PhaseOfResult, Disposes
  <2>3. QED
    BY <2>1, <2>2 DEF PhaseOfResult
<1>11. OneApplies'
  BY EnlistsKeepsApart DEF Disposes
<1>12. CheckoutTraced'
  <2>1. \A j \in DOMAIN results' : results'[j].status = "applying" =>
          /\ results'[j].rev <= parent.rev
          /\ j \in parent.kept => results'[j].rev < parent.rev
    <3>1. parent.rev \in Nat
      BY DEF TypeOK
    <3>2. QED
      BY <1>1, <3>1 DEF CheckoutTraced, Disposes
  <2>2. QED
    BY <1>1, <2>1 DEF CheckoutTraced
<1>13. PreparedNotInParent'
  BY <1>1, <1>5 DEF PreparedNotInParent, Disposes
<1>14. ResultReachable'
  <2> SUFFICES ASSUME dead' = {}, errors' = 0, NEW j \in DOMAIN results',
                      results'[j].status \in {"prepared", "applying"}, results'[j].work # {}
               PROVE  results'[j].ref \/ \E u \in Task : task'[u].about = j /\ task'[u].pc = "forget"
    BY DEF ResultReachable, At
  <2>1. /\ results[j].work # {} /\ dead = {} /\ errors = 0
        /\ results[j].status \in {"prepared", "applying"}
    <3>1. results[j].work # {} /\ dead = {} /\ errors = 0
      BY <1>1
    <3>2. results[j].status \in {"prepared", "applying", "applied", "discarded"}
      <4>1. results[j] \in ResultRow
        BY <1>1 DEF TypeOK
      <4>2. QED
        BY <4>1 DEF ResultRow
    <3>3. QED
      BY <1>1, <3>1, <3>2 DEF Disposes
  <2>2. results[j].ref \/ \E u \in Task : task[u].about = j /\ task[u].pc = "forget"
    BY <1>1, <2>1 DEF ResultReachable, At
  <2>3. ASSUME NEW u \in Task, task[u].about = j, task[u].pc = "forget"
        PROVE  task'[u].about = j /\ task'[u].pc = "forget"
    <3>1. u # t
      BY <1>1, <2>3 DEF Disposes
    <3>2. QED
      BY <1>2, <2>3, <3>1
  <2>4. ASSUME results[j].ref
        PROVE  results'[j].ref \/ (task'[t].about = j /\ task'[t].pc = "forget")
    BY <1>1, <1>2, <2>4 DEF Disposes
  <2>5. QED
    BY <2>2, <2>3, <2>4
<1>15. TablesOK'
  BY DisposesKeepsTables DEF CallsPlaced
<1>16. QED
  BY <1>4, <1>9, <1>10, <1>11, <1>12, <1>13, <1>14, <1>15

-----------------------------------------------------------------------------
(* The dispositions follow the rules, the other calls stay out of the way.  *)

LEMMA NothingWritten ==
  ASSUME TypeOK, NEW i \in DOMAIN results, results' = results
  PROVE  Writes(i, results[i].ref, results[i].rev, results[i].status, results[i].token)
<1>1. results \in Seq(ResultRow) /\ results[i] \in ResultRow
  BY DEF TypeOK
<1>2. results[i] = Rewritten(results[i], results[i].ref, results[i].rev,
                             results[i].status, results[i].token)
  BY <1>1 DEF ResultRow, Rewritten
<1>3. QED
  BY <1>1, <1>2 DEF Writes

LEMMA AboutResult ==
  ASSUME TypeOK, DispositionInv, NEW t \in Task, task[t].pc \in Concerned
  PROVE  task[t].about \in DOMAIN results /\ task[t].proc \in Proc
BY DEF DispositionInv, CallsPlaced, Concerned, Disposing, Applying, Registered, TypeOK

(* A call acts on a result, or goes on to, and rewrites nothing.            *)
LEMMA NothingDisposed ==
  ASSUME TypeOK, DispositionInv, NEW t \in Task, NEW label \in Steps \ Holding,
         task[t].pc \in Concerned, Moves(t, label), Enlists(t, label),
         label \in Applying =>
           \/ results[task[t].about].token = t /\ results[task[t].about].status = "applying"
           \/ task[t].about \in crossed',
         label = "offer" =>
           task[t].about \notin parent.patch \cup parent.kept \/ task[t].about \in crossed',
         task[t].pc = "forget" => errors' # 0,
         UNCHANGED <<results, parent, dead>>, errors' = 0 => errors = 0
  PROVE  DispositionInv' /\ TablesOK'
<1> DEFINE i == task[t].about
           row == results[i]
<1>1. i \in DOMAIN results /\ task[t].pc \notin {"idle", "done"}
  BY AboutResult DEF Concerned, Disposing, Applying, Registered
<1>2. /\ row.token # None => row.status \in {"prepared", "applying"}
      /\ row.status = "applying" => row.token # None
  BY <1>1 DEF TypeOK, DispositionInv, PhaseOfResult
<1>3. Disposes(t, label, row.ref, row.rev, row.status, row.token)
  BY <1>1, <1>2, NothingWritten DEF Disposes
<1>4. QED
  BY <1>1, <1>3, DisposesKeepsInv

LEMMA QuietKeepsDispositions ==
  ASSUME TypeOK, DispositionInv, CallsPlaced',
         UNCHANGED <<results, parent, crossed>>, applying' \subseteq applying,
         dead' = {} => dead = {}, errors' = 0 => errors = 0,
         task' \in [Task -> TaskRow],
         \A u \in Task : task'[u].about \in {0} \cup DOMAIN results,
         \A u \in Task : task'[u].pc \in Disposing \cup Engaged => task'[u] = task[u],
         \A u \in Task : task'[u].pc \in Registered =>
           <<task'[u].proc, task'[u].about>> \notin applying \ applying',
         dead' = {} => \A u \in Task : task[u].pc \in Disposing => task'[u] = task[u]
  PROVE  DispositionInv' /\ TablesOK'
<1> USE DEF DispositionInv
<1>1. TokenHolder' /\ PhaseOfResult'
  BY DEF TokenHolder, PhaseOfResult, Disposing, Holding, Applying, Registered
<1>2. CheckoutTraced' /\ PreparedNotInParent'
  BY DEF CheckoutTraced, PreparedNotInParent
<1>3. ResultReachable'
  BY DEF ResultReachable, At, Disposing
<1>4. TablesOK'
  BY DEF TablesOK, TypeOK
<1>5. OneApplies'
  <2>1. \A u \in Task : task'[u].pc \in Registered => task'[u].pc \in Engaged
    BY DEF Engaged, Applying
  <2>2. QED
    BY <2>1 DEF OneApplies
<1>6. QED
  BY <1>1, <1>2, <1>3, <1>4, <1>5

(* A call in progress goes on without touching any result. *)
LEMMA MovingIsQuiet ==
  ASSUME TypeOK, DispositionInv, NEW t \in Task, NEW label \in Steps \ (Disposing \cup Engaged),
         task[t].pc \notin Disposing \cup {"idle", "done"}, Moves(t, label),
         label # "idle", label \in Concerned => task[t].pc \in Concerned,
         UNCHANGED <<results, parent, applying, crossed, dead, errors>>
  PROVE  DispositionInv' /\ TablesOK'
<1>1. /\ task' \in [Task -> TaskRow]
      /\ \A u \in Task \ {t} : task'[u] = task[u]
      /\ task'[t].pc = label /\ task'[t].proc = task[t].proc
      /\ label # "done" => task'[t].run = task[t].run
      /\ task'[t].about \in {0, task[t].about}
      /\ label # "done" => task'[t].about = task[t].about
  BY DEF Moves
<1>2. \A u \in Task : task'[u].about \in {0} \cup DOMAIN results
  BY <1>1 DEF TypeOK
<1>3. CallsPlaced'
  BY <1>1 DEF DispositionInv, CallsPlaced, Concerned
<1>4. QED
  BY <1>1, <1>2, <1>3, QuietKeepsDispositions

(* A new call does not begin with a reservation. *)
LEMMA CallingIsQuiet ==
  ASSUME TypeOK, DispositionInv, NEW t \in Task,
         NEW kind \in {"start", "continue", "apply", "retain", "discard", "sweep"},
         NEW p \in Proc, NEW r \in Run, NEW i \in {0} \cup DOMAIN results,
         NEW label \in Steps \ (Disposing \cup Engaged \cup {"idle"}),
         Called(t, kind, p, r, i, label), label \in {"reserve", "check", "vacate"} => i # 0,
         UNCHANGED <<results, parent, applying, crossed, dead, errors>>
  PROVE  DispositionInv' /\ TablesOK'
<1>0. i \in Nat
  BY DEF TypeOK
<1>1. /\ task[t].pc = "idle" /\ p \notin dead
      /\ task' \in [Task -> TaskRow]
      /\ \A u \in Task \ {t} : task'[u] = task[u]
      /\ task'[t] = [pc |-> label, call |-> kind, proc |-> p, run |-> r,
                     about |-> i, saw |-> slot.held]
  BY <1>0, CalledMoves
<1>2. /\ task'[t].pc = label /\ task'[t].proc = p /\ task'[t].run = r /\ task'[t].about = i
  BY <1>1
<1>3. \A u \in Task : task'[u].about \in {0} \cup DOMAIN results
  BY <1>1, <1>2 DEF TypeOK
<1>4. CallsPlaced'
  BY <1>1, <1>2
  DEF DispositionInv, CallsPlaced, Concerned, Engaged, Disposing, Applying, Registered
<1>5. task[t].pc \notin Disposing
  BY <1>1 DEF Disposing, Applying, Registered
<1>6. QED
  BY <1>1, <1>2, <1>3, <1>4, <1>5, QuietKeepsDispositions

(* Who holds the reservation disposes alone.                                *)
LEMMA HolderIsSole ==
  ASSUME DispositionInv, NEW t \in Task, results[task[t].about].token = t
  PROVE  Sole(t)
BY DEF DispositionInv, TokenHolder, Sole

LEMMA HoldingHolds ==
  ASSUME TypeOK, DispositionInv, NEW t \in Task, task[t].pc \in Holding
  PROVE  /\ Sole(t) /\ task[t].about \in DOMAIN results
         /\ results[task[t].about].token = t /\ results[task[t].about].status = "prepared"
<1>1. task[t].pc \in Disposing \ Applying
  BY DEF Disposing, Holding, Applying, Registered
<1>2. results[task[t].about].token = t
  BY <1>1 DEF DispositionInv, TokenHolder
<1>3. QED
  BY <1>1, <1>2, AboutResult, HolderIsSole DEF DispositionInv, PhaseOfResult, Concerned

(* An application keeps its hold unless another one crossed it.             *)
LEMMA ApplyingHolds ==
  ASSUME DispositionInv, NEW t \in Task, task[t].pc \in Applying
  PROVE  \/ results[task[t].about].token = t /\ results[task[t].about].status = "applying"
         \/ task[t].about \in crossed
BY DEF DispositionInv, TokenHolder, PhaseOfResult, Disposing

(* Dispositions that leave activeApplyingResultIds alone.                   *)
LEMMA DisposalKeeps ==
  ASSUME TypeOK, DispositionInv, NEW t \in Task, task[t].pc \in Holding \cup {"reserve"},
         NEW label \in (Holding \cup {"done", "free", "rebase"}),
         NEW ref, NEW rev, NEW status, NEW token, Disposes(t, label, ref, rev, status, token),
         UNCHANGED <<parent, applying, crossed, dead>>, errors' = 0 => errors = 0
  PROVE  DispositionInv' /\ TablesOK'
<1>1. /\ task[t].pc \in Concerned /\ task[t].pc \notin {"idle", "done"}
      /\ label \notin Engaged /\ label \notin Registered
  BY DEF Concerned, Disposing, Holding, Engaged, Applying, Registered
<1>2. Enlists(t, label)
  BY <1>1 DEF Enlists
<1>3. QED
  BY <1>1, <1>2, AboutResult, DisposesKeepsInv

LEMMA ResultColumns ==
  ASSUME TypeOK, NEW i \in DOMAIN results
  PROVE  /\ results[i].run \in Run /\ results[i].work \in Edits
         /\ results[i].ref \in BOOLEAN /\ results[i].rev \in Nat
         /\ results[i].status \in {"prepared", "applying", "applied", "discarded"}
         /\ results[i].token \in Task \cup {None}
<1>1. results[i] \in ResultRow
  BY DEF TypeOK
<1>2. QED
  BY <1>1 DEF ResultRow

LEMMA ReserveKeeps ==
  ASSUME TypeOK, DispositionInv, NEW t \in Task, Reserve(t)
  PROVE  DispositionInv' /\ TablesOK'
<1> DEFINE i == task[t].about
           row == results[i]
<1>1. /\ task[t].pc = "reserve" /\ i \in DOMAIN results
      /\ UNCHANGED <<parent, applying, crossed, dead, errors>>
  BY DEF Reserve, At, DispositionInv, CallsPlaced, Concerned, TypeOK, idVars, sysVars
<1>2. CASE Reservable(i)
  <2>1. /\ Goto(t, NextStep(t)) /\ results' = [results EXCEPT ![i].token = t]
        /\ row.status = "prepared" /\ (row.token = None \/ Abandoned(row.token))
    BY <1>2 DEF Reserve, Reservable
  <2>2. NextStep(t) \in {"mark", "keep", "unref", "clear"}
    BY DEF NextStep
  <2>3. NextStep(t) \in Steps
    BY <2>2 DEF Steps, Disposing
  <2>4. Moves(t, NextStep(t))
    BY <2>1, <2>3, GotoMoves
  <2>5. row.rev \in Nat /\ row.status \in {"prepared", "applying", "applied", "discarded"}
    BY <1>1, ResultColumns
  <2>6. Writes(i, row.ref, row.rev, row.status, t)
    BY <1>1, <2>1, <2>5, UpdatesWrite
  <2>7. Sole(t)
    <3> SUFFICES ASSUME NEW u \in Task \ {t}, task[u].pc \in Disposing, task[u].about = i
                 PROVE  task[u].pc \in Applying /\ i \in crossed
      BY DEF Sole
    <3>1. task[u].proc \notin dead
      BY DEF DispositionInv, CallsPlaced, Disposing, Applying, Registered
    <3>2. row.token # u
      BY <2>1, <3>1, SlotAssumption DEF Abandoned
    <3>3. QED
      BY <3>2 DEF DispositionInv, TokenHolder
  <2>8. t # None
    BY SlotAssumption
  <2>9. NextStep(t) \in Holding \ Engaged /\ NextStep(t) \notin Applying
    BY <2>2 DEF Holding, Engaged, Applying, Registered
  <2>10. Disposes(t, NextStep(t), row.ref, row.rev, row.status, t)
    BY <1>1, <2>1, <2>2, <2>4, <2>6, <2>7, <2>8, <2>9 DEF Disposes, Applying, Registered
  <2>11. QED
    BY <1>1, <2>9, <2>10, DisposalKeeps
<1>3. CASE ~Reservable(i)
  <2>1. Moves(t, "done") /\ results' = results
    BY <1>3, GotoMoves DEF Reserve, Steps
  <2>2. QED
    BY <1>1, <2>1, MovingIsQuiet
    DEF Steps, Disposing, Applying, Registered, Engaged, Concerned
<1>4. QED
  BY <1>2, <1>3

LEMMA MarkKeeps ==
  ASSUME TypeOK, DispositionInv, NEW t \in Task, Mark(t)
  PROVE  DispositionInv' /\ TablesOK'
<1> DEFINE i == task[t].about
           row == results[i]
<1>1. /\ task[t].pc = "mark" /\ UNCHANGED <<parent, applying, dead, errors>>
      /\ i \in DOMAIN results /\ Sole(t) /\ row.token = t /\ row.status = "prepared"
  BY HoldingHolds DEF Mark, At, Holding, sysVars
<1>2. row.rev \in Nat /\ parent.rev \in Nat /\ t # None
  BY <1>1, ResultColumns, SlotAssumption DEF TypeOK
<1>3. CASE /\ i \notin parent.kept /\ Enter(t) /\ Goto(t, "begin")
           /\ results' = [results EXCEPT ![i].status = "applying", ![i].rev = parent.rev]
  <2>1. Moves(t, "begin")
    BY <1>3, GotoMoves DEF Steps, Disposing, Applying, Registered
  <2>2. Writes(i, row.ref, parent.rev, "applying", row.token)
    BY <1>1, <1>2, <1>3, UpdatesWrite
  <2>3. Disposes(t, "begin", row.ref, parent.rev, "applying", row.token)
    BY <1>1, <1>2, <1>3, <2>1, <2>2 DEF Disposes, Holding
  <2>4. Alone(t) \/ i \in crossed'
    <3> SUFFICES ASSUME NEW u \in Task \ {t}, task[u].pc \in Engaged,
                        task[u].proc = task[t].proc, task[u].about = i
                 PROVE  i \in crossed'
      BY DEF Alone
    <3>1. crossed \subseteq crossed' /\ (task[u].pc \in Entering => i \in crossed')
      BY <1>3 DEF Enter
    <3>2. CASE task[u].pc \notin Entering
      BY <1>1, <3>1, <3>2, ApplyingHolds DEF Engaged, Applying, Entering
    <3>3. QED
      BY <3>1, <3>2
  <2>5. Enlists(t, "begin")
    BY <1>1, <1>3, <2>4 DEF Enlists, Enter, Registered
  <2>6. QED
    BY <1>1, <2>3, <2>5, DisposesKeepsInv
<1>4. CASE Goto(t, "done") /\ results' = [results EXCEPT ![i].token = None] /\ UNCHANGED crossed
  <2>1. Moves(t, "done")
    BY <1>4, GotoMoves DEF Steps
  <2>2. Writes(i, row.ref, row.rev, row.status, None)
    BY <1>1, <1>2, <1>4, UpdatesWrite
  <2>3. Disposes(t, "done", row.ref, row.rev, row.status, None)
    BY <1>1, <1>2, <2>1, <2>2 DEF Disposes, Holding, Applying, Registered
  <2>4. QED
    BY <1>1, <1>4, <2>3, DisposalKeeps DEF Holding
<1>5. QED
  BY <1>3, <1>4 DEF Mark

LEMMA RegisterKeeps ==
  ASSUME TypeOK, DispositionInv, NEW t \in Task, Register(t)
  PROVE  DispositionInv' /\ TablesOK'
<1>1. /\ task[t].pc \in Applying /\ UNCHANGED <<results, parent, crossed, dead, errors>>
      /\ applying' = applying \cup {<<task[t].proc, task[t].about>>}
  BY DEF Register, Applying, sysVars
<1>2. PICK label \in {"patch", "reconcile"} : Goto(t, label)
  BY DEF Register
<1>3. label \in Steps \ Holding /\ label # "offer"
  BY DEF Steps, Disposing, Applying, Registered, Holding
<1>4. Moves(t, label)
  BY <1>2, <1>3, GotoMoves
<1>5. Enlists(t, label)
  BY <1>1 DEF Enlists, Engaged
<1>6. task[t].pc \in Concerned /\ task[t].pc # "forget"
  BY <1>1 DEF Concerned, Disposing, Applying, Registered
<1>7. QED
  BY <1>1, <1>3, <1>4, <1>5, <1>6, ApplyingHolds, NothingDisposed

(* An application or a recovery that ends takes its id with it.             *)
LEMMA DeregisterEnlists ==
  ASSUME NEW t \in Task, NEW label \in Steps \ Engaged, task[t].pc \in Registered,
         Deregister(t), UNCHANGED crossed
  PROVE  Enlists(t, label)
BY DEF Enlists, Engaged, Applying, Deregister

LEMMA GivingUpKeeps ==
  ASSUME TypeOK, DispositionInv, NEW t \in Task, task[t].pc \in Registered,
         Goto(t, "done"), Deregister(t),
         UNCHANGED <<results, parent, crossed, dead>>, errors' = 0 => errors = 0
  PROVE  DispositionInv' /\ TablesOK'
<1>1. /\ task[t].pc \in Concerned /\ task[t].pc # "forget"
      /\ "done" \in Steps \ Holding /\ "done" \notin Engaged /\ "done" \notin Applying
  BY DEF Concerned, Disposing, Applying, Registered, Engaged, Steps, Holding
<1>2. Moves(t, "done")
  BY <1>1, GotoMoves
<1>3. Enlists(t, "done")
  BY <1>1, DeregisterEnlists
<1>4. QED
  BY <1>1, <1>2, <1>3, NothingDisposed

(* The end of an application or a recovery that still has its reservation.  *)
LEMMA EndingKeeps ==
  ASSUME TypeOK, DispositionInv, NEW t \in Task, task[t].pc \in {"landed", "offer"}, Holds(t),
         NEW label \in {"leave", "reserve", "done"}, Goto(t, label), Deregister(t),
         NEW status \in {"applied", "prepared"},
         status = "prepared" =>
           task[t].about \notin parent.patch \cup parent.kept \/ task[t].about \in crossed,
         results' = [results EXCEPT ![task[t].about].status = status,
                                    ![task[t].about].token = None],
         UNCHANGED <<parent, crossed, dead, errors>>
  PROVE  DispositionInv' /\ TablesOK'
<1> DEFINE i == task[t].about
           row == results[i]
<1>1. task[t].pc \in Concerned /\ task[t].pc \in Registered /\ task[t].pc # "forget"
  BY DEF Concerned, Disposing, Applying, Registered
<1>2. i \in DOMAIN results /\ Sole(t) /\ row.token = t /\ row.status = "applying"
  BY <1>1, AboutResult, HolderIsSole DEF Holds
<1>3. row.rev \in Nat
  BY <1>2, ResultColumns
<1>4. /\ label \in Steps \ Engaged /\ label \notin Holding /\ label \notin Applying
      /\ label \notin {"offer", "forget"}
  BY DEF Steps, Engaged, Applying, Registered, Holding
<1>5. Moves(t, label)
  BY <1>4, GotoMoves
<1>6. Enlists(t, label)
  BY <1>1, <1>4, DeregisterEnlists
<1>7. Writes(i, row.ref, row.rev, status, None)
  BY <1>2, <1>3, UpdatesWrite
<1>8. Disposes(t, label, row.ref, row.rev, status, None)
  BY <1>1, <1>2, <1>4, <1>5, <1>7 DEF Disposes
<1>9. QED
  BY <1>1, <1>2, <1>6, <1>8, DisposesKeepsInv

LEMMA MarkAppliedKeeps ==
  ASSUME TypeOK, DispositionInv, NEW t \in Task, MarkApplied(t)
  PROVE  DispositionInv' /\ TablesOK'
<1>1. task[t].pc = "landed" /\ Deregister(t) /\ UNCHANGED <<parent, crossed, dead, errors>>
  BY DEF MarkApplied, At, sysVars
<1>2. CASE Holds(t)
  <2>1. results' = [results EXCEPT ![task[t].about].status = "applied",
                                   ![task[t].about].token = None]
    BY <1>2 DEF MarkApplied
  <2>2. PICK label \in {"leave", "reserve", "done"} : Goto(t, label)
    BY <1>2 DEF MarkApplied
  <2>3. QED
    BY <1>1, <1>2, <2>1, <2>2, EndingKeeps
<1>3. CASE ~Holds(t)
  BY <1>1, <1>3, GivingUpKeeps DEF MarkApplied, Registered
<1>4. QED
  BY <1>2, <1>3

LEMMA PatchKeeps ==
  ASSUME TypeOK, DispositionInv, NEW t \in Task, Patch(t)
  PROVE  DispositionInv' /\ TablesOK'
<1> DEFINE i == task[t].about
           row == results[i]
<1> USE DEF DispositionInv
<1>1. /\ task[t].pc = "patch" /\ i \in DOMAIN results
      /\ UNCHANGED <<results, crossed, dead, errors>>
  BY AboutResult DEF Patch, At, Concerned, Disposing, Applying, Registered, sysVars
<1>2. (row.token = t /\ row.status = "applying") \/ i \in crossed
  BY <1>1, ApplyingHolds DEF Applying, Registered
<1>3. CASE Goto(t, "done") /\ Deregister(t) /\ UNCHANGED parent
  BY <1>1, <1>3, GivingUpKeeps DEF Registered
<1>4. CASE /\ Goto(t, "landed") /\ UNCHANGED applying
           /\ parent' = IF row.work = {} THEN parent ELSE [parent EXCEPT !.patch = @ \cup {i}]
  <2>1. Moves(t, "landed")
    BY <1>4, GotoMoves DEF Steps, Disposing, Applying, Registered
  <2>2. /\ task' \in [Task -> TaskRow]
        /\ \A u \in Task \ {t} : task'[u] = task[u]
        /\ task'[t].pc = "landed" /\ task'[t].proc = task[t].proc
        /\ task'[t].run = task[t].run /\ task'[t].about = i
    BY <2>1 DEF Moves
  <2>3. /\ parent'.rev = parent.rev /\ parent'.kept = parent.kept
        /\ parent'.patch \subseteq parent.patch \cup {i}
    BY <1>4 DEF TypeOK
  <2>4. CallsPlaced' /\ TokenHolder'
    BY <1>1, <2>2 DEF CallsPlaced, TokenHolder, Concerned, Disposing, Applying, Registered
  <2>5. PhaseOfResult'
    <3>1. ASSUME NEW u \in Task
          PROVE  /\ task'[u].pc \in Holding => results[task'[u].about].status = "prepared"
                 /\ task'[u].pc \in Applying =>
                      results[task'[u].about].status = "applying" \/ task'[u].about \in crossed
                 /\ task'[u].pc = "offer" =>
                      \/ task'[u].about \notin parent'.patch \cup parent'.kept
                      \/ task'[u].about \in crossed
      <4>1. CASE u = t
        BY <1>1, <1>2, <2>2, <4>1 DEF Holding
      <4>2. CASE u # t
        <5>1. task'[u] = task[u]
          BY <2>2, <4>2
        <5>2. ASSUME task[u].pc = "offer", task[u].about = i
              PROVE  i \in crossed
          BY <1>2, <4>2, <5>2, ApplyingHolds DEF Applying, Registered
        <5>3. QED
          BY <2>3, <5>1, <5>2 DEF PhaseOfResult
      <4>3. QED
        BY <4>1, <4>2
    <3>2. QED
      BY <1>1, <3>1 DEF PhaseOfResult
  <2>6. OneApplies'
    <3>1. Enlists(t, "landed")
      <4>1. task[t].pc \in Registered /\ task[t].pc \in Engaged
        BY <1>1 DEF Registered, Engaged, Applying
      <4>2. <<task[t].proc, i>> \in applying \/ i \in crossed
        BY <4>1 DEF OneApplies
      <4>3. QED
        BY <1>1, <1>4, <4>1, <4>2 DEF Enlists
    <3>2. QED
      BY <2>1, <3>1, EnlistsKeepsApart
  <2>7. CheckoutTraced' /\ PreparedNotInParent'
    BY <1>1, <1>2, <2>3 DEF CheckoutTraced, PreparedNotInParent
  <2>8. ResultReachable'
    BY <1>1, <2>2 DEF ResultReachable, At
  <2>9. TablesOK'
    BY <1>1, <1>4, <2>2 DEF TypeOK, TablesOK
  <2>10. QED
    BY <2>4, <2>5, <2>6, <2>7, <2>8, <2>9
<1>5. QED
  BY <1>3, <1>4 DEF Patch

LEMMA CheckKeeps ==
  ASSUME TypeOK, DispositionInv, NEW t \in Task, Check(t)
  PROVE  DispositionInv' /\ TablesOK'
<1> DEFINE i == task[t].about
<1>1. /\ task[t].pc = "check" /\ UNCHANGED <<results, parent, applying, dead, errors>>
  BY DEF Check, At, sysVars
<1>2. CASE StillApplying(t)
  <2>1. Moves(t, "done") /\ UNCHANGED crossed
    BY <1>2, GotoMoves DEF Check, Steps
  <2>2. QED
    BY <1>1, <2>1, MovingIsQuiet
    DEF Steps, Disposing, Applying, Registered, Engaged, Concerned
<1>3. CASE ~StillApplying(t)
  <2>1. Moves(t, "claim") /\ Enter(t)
    BY <1>3, GotoMoves DEF Check, Steps
  <2>2. crossed \subseteq crossed' /\ crossed' \subseteq crossed \cup {i}
    BY <2>1 DEF Enter
  <2>3. ASSUME NEW u \in Task \ {t}, task[u].pc \in Engaged,
               task[u].proc = task[t].proc, task[u].about = i
        PROVE  i \in crossed'
    <3>1. CASE task[u].pc \in Entering
      BY <2>1, <2>3, <3>1 DEF Enter
    <3>2. CASE task[u].pc \in Registered
      BY <1>3, <2>2, <2>3, <3>2 DEF StillApplying, DispositionInv, OneApplies
    <3>3. QED
      BY <2>3, <3>1, <3>2 DEF Engaged, Applying, Entering
  <2>4. Enlists(t, "claim")
    BY <1>1, <2>2, <2>3 DEF Enlists, Alone, Registered
  <2>5. /\ "claim" \in Steps \ Holding /\ "claim" \notin Applying
        /\ task[t].pc \in Concerned
    BY <1>1 DEF Steps, Holding, Applying, Registered, Concerned
  <2>6. QED
    BY <1>1, <2>1, <2>4, <2>5, NothingDisposed
<1>4. QED
  BY <1>2, <1>3

LEMMA ClaimRecoveryKeeps ==
  ASSUME TypeOK, DispositionInv, NEW t \in Task, ClaimRecovery(t)
  PROVE  DispositionInv' /\ TablesOK'
<1> DEFINE i == task[t].about
           row == results[i]
<1>1. /\ task[t].pc = "claim" /\ i \in DOMAIN results
      /\ UNCHANGED <<parent, applying, crossed, dead, errors>>
  BY AboutResult DEF ClaimRecovery, At, Concerned, idVars, sysVars
<1>2. CASE Recoverable(t)
  <2>1. /\ Goto(t, "resume") /\ results' = [results EXCEPT ![i].token = t]
        /\ row.status = "applying" /\ row.token # None
        /\ task[row.token].proc \in dead \cup {task[t].proc}
    BY <1>2 DEF ClaimRecovery, Recoverable
  <2>2. /\ "resume" \in Steps /\ "resume" \notin Registered /\ "resume" \notin Holding
        /\ task[t].pc \in Engaged
    BY <1>1 DEF Steps, Disposing, Applying, Registered, Holding, Engaged
  <2>3. Moves(t, "resume")
    BY <2>1, <2>2, GotoMoves
  <2>4. row.rev \in Nat /\ t # None
    BY <1>1, ResultColumns, SlotAssumption
  <2>5. Writes(i, row.ref, row.rev, row.status, t)
    BY <1>1, <2>1, <2>4, UpdatesWrite
  <2>6. Sole(t)
    <3> SUFFICES ASSUME NEW u \in Task \ {t}, task[u].pc \in Disposing, task[u].about = i
                 PROVE  task[u].pc \in Applying /\ i \in crossed
      BY DEF Sole
    <3>1. task[u].pc \in Applying
      <4>1. task[u].pc \notin Holding
        BY <2>1 DEF DispositionInv, PhaseOfResult
      <4>2. QED
        BY <4>1 DEF Disposing, Holding
    <3>2. task[u].proc \notin dead
      BY DEF DispositionInv, CallsPlaced, Disposing, Applying, Registered
    <3>3. CASE row.token = u
      <4>1. task[u].proc = task[t].proc
        BY <2>1, <3>2, <3>3
      <4>2. QED
        BY <2>2, <3>1, <4>1 DEF DispositionInv, OneApplies, Engaged
    <3>4. QED
      BY <3>1, <3>3 DEF DispositionInv, TokenHolder
  <2>7. Disposes(t, "resume", row.ref, row.rev, row.status, t)
    BY <1>1, <2>1, <2>2, <2>3, <2>4, <2>5, <2>6 DEF Disposes
  <2>8. Enlists(t, "resume")
    BY <1>1, <2>2 DEF Enlists
  <2>9. QED
    BY <1>1, <2>7, <2>8, DisposesKeepsInv
<1>3. CASE ~Recoverable(t)
  <2>1. Moves(t, "done") /\ results' = results
    BY <1>3, GotoMoves DEF ClaimRecovery, Steps
  <2>2. QED
    BY <1>1, <2>1, MovingIsQuiet
    DEF Steps, Disposing, Applying, Registered, Engaged, Concerned
<1>4. QED
  BY <1>2, <1>3

LEMMA ReconcileKeeps ==
  ASSUME TypeOK, DispositionInv, NEW t \in Task, Reconcile(t)
  PROVE  DispositionInv' /\ TablesOK'
<1> DEFINE i == task[t].about
           row == results[i]
<1>1. /\ task[t].pc = "reconcile" /\ task[t].pc \in Registered /\ task[t].pc \in Applying
      /\ task[t].pc \in Concerned /\ i \in DOMAIN results
      /\ UNCHANGED <<results, parent, crossed, dead, errors>>
  BY AboutResult DEF Reconcile, At, Concerned, Disposing, Applying, Registered, sysVars
<1>2. CASE Goto(t, "done") /\ Deregister(t)
  BY <1>1, <1>2, GivingUpKeeps
<1>3. CASE /\ parent.rev = row.rev /\ UNCHANGED applying
           /\ Goto(t, IF i \in parent.patch \/ row.work = {} THEN "landed" ELSE "offer")
  <2>1. PICK label \in {"landed", "offer"} :
          Goto(t, label) /\ (label = "offer" => i \notin parent.patch)
    BY <1>3
  <2>2. label \in Steps \ Holding
    BY DEF Steps, Disposing, Applying, Registered, Holding
  <2>3. Moves(t, label)
    BY <2>1, <2>2, GotoMoves
  <2>4. Enlists(t, label)
    BY <1>1, <1>3 DEF Enlists, Engaged, DispositionInv, OneApplies
  <2>5. label = "offer" => i \notin parent.patch \cup parent.kept \/ i \in crossed
    <3>1. parent.rev \in Nat
      BY DEF TypeOK
    <3>2. row.status = "applying" \/ i \in crossed
      BY <1>1, ApplyingHolds
    <3>3. i \notin parent.kept \/ i \in crossed
      BY <1>1, <1>3, <3>1, <3>2 DEF DispositionInv, CheckoutTraced
    <3>4. QED
      BY <2>1, <3>3
  <2>6. QED
    BY <1>1, <2>2, <2>3, <2>4, <2>5, ApplyingHolds, NothingDisposed
<1>4. QED
  BY <1>2, <1>3 DEF Reconcile

LEMMA OfferKeeps ==
  ASSUME TypeOK, DispositionInv, NEW t \in Task, Offer(t)
  PROVE  DispositionInv' /\ TablesOK'
<1>1. task[t].pc = "offer" /\ Deregister(t) /\ UNCHANGED <<parent, crossed, dead, errors>>
  BY DEF Offer, At, sysVars
<1>2. CASE Holds(t)
  <2>1. /\ results' = [results EXCEPT ![task[t].about].status = "prepared",
                                      ![task[t].about].token = None]
        /\ Goto(t, "reserve")
    BY <1>2 DEF Offer
  <2>2. task[t].about \notin parent.patch \cup parent.kept \/ task[t].about \in crossed
    BY <1>1 DEF DispositionInv, PhaseOfResult
  <2>3. QED
    BY <1>1, <1>2, <2>1, <2>2, EndingKeeps
<1>3. CASE ~Holds(t)
  BY <1>1, <1>3, GivingUpKeeps DEF Offer, Registered
<1>4. QED
  BY <1>2, <1>3

LEMMA KeepKeeps ==
  ASSUME TypeOK, DispositionInv, NEW t \in Task, Keep(t)
  PROVE  DispositionInv' /\ TablesOK'
<1> DEFINE i == task[t].about
           row == results[i]
<1>1. /\ task[t].pc = "keep" /\ i \in DOMAIN results /\ Sole(t) /\ row.status = "prepared"
      /\ UNCHANGED <<parent, applying, crossed, dead, errors>>
      /\ results' = [results EXCEPT ![i].token = None]
  BY HoldingHolds DEF Keep, At, Holding, idVars, sysVars
<1>2. row.rev \in Nat
  BY <1>1, ResultColumns
<1>3. Moves(t, "done")
  BY GotoMoves DEF Keep, Steps
<1>4. Writes(i, row.ref, row.rev, row.status, None)
  BY <1>1, <1>2, UpdatesWrite
<1>5. Disposes(t, "done", row.ref, row.rev, row.status, None)
  BY <1>1, <1>2, <1>3, <1>4 DEF Disposes, Holding, Applying, Registered
<1>6. QED
  BY <1>1, <1>5, DisposalKeeps DEF Holding

LEMMA UnrefKeeps ==
  ASSUME TypeOK, DispositionInv, NEW t \in Task, Unref(t)
  PROVE  DispositionInv' /\ TablesOK'
<1> DEFINE i == task[t].about
           row == results[i]
<1>1. /\ task[t].pc = "unref" /\ i \in DOMAIN results /\ Sole(t)
      /\ row.token = t /\ row.status = "prepared"
      /\ UNCHANGED <<parent, applying, crossed, dead, errors>>
      /\ results' = [results EXCEPT ![i].ref = FALSE]
  BY HoldingHolds DEF Unref, At, Holding, idVars, sysVars
<1>2. row.rev \in Nat /\ t # None
  BY <1>1, ResultColumns, SlotAssumption
<1>3. Moves(t, "forget")
  BY GotoMoves DEF Unref, Steps, Disposing
<1>4. Writes(i, FALSE, row.rev, row.status, row.token)
  BY <1>1, <1>2, UpdatesWrite
<1>5. Disposes(t, "forget", FALSE, row.rev, row.status, row.token)
  BY <1>1, <1>2, <1>3, <1>4 DEF Disposes, Holding, Applying, Registered
<1>6. QED
  BY <1>1, <1>5, DisposalKeeps DEF Holding

LEMMA ForgetKeeps ==
  ASSUME TypeOK, DispositionInv, NEW t \in Task, Forget(t)
  PROVE  DispositionInv' /\ TablesOK'
<1> DEFINE i == task[t].about
           row == results[i]
<1>1. /\ task[t].pc = "forget" /\ i \in DOMAIN results /\ Sole(t) /\ row.status = "prepared"
      /\ UNCHANGED <<parent, applying, crossed, dead, errors>>
      /\ results' = [results EXCEPT ![i].status = "discarded", ![i].ref = FALSE, ![i].token = None]
  BY HoldingHolds DEF Forget, At, Holding, idVars, sysVars
<1>2. row.rev \in Nat
  BY <1>1, ResultColumns
<1>3. PICK label \in {"free", "rebase", "done"} : Goto(t, label)
  BY DEF Forget
<1>4. Moves(t, label)
  BY <1>3, GotoMoves DEF Steps
<1>5. Writes(i, FALSE, row.rev, "discarded", None)
  BY <1>1, <1>2, UpdatesWrite
<1>6. Disposes(t, label, FALSE, row.rev, "discarded", None)
  BY <1>1, <1>2, <1>3, <1>4, <1>5 DEF Disposes, Holding, Applying, Registered
<1>7. QED
  BY <1>1, <1>6, DisposalKeeps DEF Holding

LEMMA ResetTreeKeeps ==
  ASSUME TypeOK, DispositionInv, NEW t \in Task, ResetTree(t)
  PROVE  DispositionInv' /\ TablesOK'
<1> DEFINE i == task[t].about
           row == results[i]
<1>1. UNCHANGED <<results, parent, applying, crossed, dead, errors>>
  BY DEF ResetTree, idVars, sysVars
<1>2. CASE task[t].pc = "clear"
  <2>1. i \in DOMAIN results /\ Sole(t) /\ row.token = t /\ row.status = "prepared"
    BY <1>2, HoldingHolds DEF Holding
  <2>2. t # None
    BY SlotAssumption
  <2>3. Moves(t, "forget")
    BY <1>2, GotoMoves DEF ResetTree, At, Steps, Disposing
  <2>4. Disposes(t, "forget", row.ref, row.rev, row.status, row.token)
    BY <1>1, <1>2, <2>1, <2>2, <2>3, NothingWritten DEF Disposes, Holding, Applying, Registered
  <2>5. QED
    BY <1>1, <1>2, <2>1, <2>4, DisposalKeeps DEF Holding
<1>3. CASE task[t].pc = "rebase"
  <2>1. Moves(t, "free")
    BY <1>3, GotoMoves DEF ResetTree, At, Steps
  <2>2. QED
    BY <1>1, <1>3, <2>1, MovingIsQuiet
    DEF Steps, Disposing, Applying, Registered, Engaged, Concerned
<1>4. QED
  BY <1>2, <1>3 DEF ResetTree

LEMMA FailKeeps ==
  ASSUME TypeOK, DispositionInv, NEW t \in Task, Fail(t)
  PROVE  DispositionInv' /\ TablesOK'
<1> DEFINE i == task[t].about
           row == results[i]
<1>1. /\ task[t].pc \in Holding \cup Registered /\ task[t].pc \in Concerned
      /\ errors' # 0 /\ Goto(t, "done")
      /\ UNCHANGED <<parent, crossed, dead>>
  BY SlotAssumption DEF Fail, TypeOK, Holding, Disposing, Applying, Entering, Concerned
<1>2. /\ "done" \in Steps \ Holding /\ "done" \notin Engaged /\ "done" \notin Applying
      /\ "done" \notin Registered
  BY DEF Steps, Holding, Engaged, Applying, Registered
<1>3. Moves(t, "done")
  BY <1>1, <1>2, GotoMoves
<1>4. Enlists(t, "done")
  <2>1. CASE task[t].pc \in Registered
    BY <1>1, <1>2, <2>1, DeregisterEnlists DEF Fail
  <2>2. CASE task[t].pc \notin Registered
    BY <1>1, <1>2, <2>2 DEF Fail, Enlists
  <2>3. QED
    BY <2>1, <2>2
<1>5. i \in DOMAIN results /\ task[t].pc \notin {"idle", "done"}
  BY <1>1, AboutResult DEF Concerned, Disposing, Applying, Registered
<1>6. CASE row.status = "prepared" /\ row.token = t
  <2>1. results' = [results EXCEPT ![i].token = None]
    BY <1>6 DEF Fail
  <2>2. row.rev \in Nat
    BY <1>5, ResultColumns
  <2>3. Writes(i, row.ref, row.rev, row.status, None)
    BY <1>5, <2>1, <2>2, UpdatesWrite
  <2>4. Sole(t)
    BY <1>6, HolderIsSole
  <2>5. Disposes(t, "done", row.ref, row.rev, row.status, None)
    BY <1>1, <1>2, <1>3, <1>6, <2>3, <2>4 DEF Disposes
  <2>6. QED
    BY <1>1, <1>4, <1>5, <2>5, DisposesKeepsInv
<1>7. CASE ~(row.status = "prepared" /\ row.token = t)
  <2>1. results' = results
    BY <1>7 DEF Fail
  <2>2. QED
    BY <1>1, <1>2, <1>3, <1>4, <2>1, NothingDisposed
<1>8. QED
  BY <1>6, <1>7

(* The two columns of a call that a result without changes sets. *)
LEMMA TaskWritten ==
  ASSUME TypeOK, NEW t \in Task, NEW label \in Steps
  PROVE  /\ \A n \in Nat :
              task' = [task EXCEPT ![t].pc = label, ![t].about = n] =>
                task' = [task EXCEPT ![t] =
                  [pc |-> label, call |-> task[t].call, proc |-> task[t].proc,
                   run |-> task[t].run, about |-> n, saw |-> task[t].saw]]
         /\ \A h \in Run \cup {None} :
              task' = [task EXCEPT ![t].pc = label, ![t].saw = h] =>
                task' = [task EXCEPT ![t] =
                  [pc |-> label, call |-> task[t].call, proc |-> task[t].proc,
                   run |-> task[t].run, about |-> task[t].about, saw |-> h]]
<1>1. task \in [Task -> TaskRow]
  BY DEF TypeOK
<1>2. PICK c \in TaskRow : c = task[t]
  BY <1>1
<1> DEFINE over == [c EXCEPT !.pc = label]
<1>3. /\ over \in TaskRow
      /\ over = [pc |-> label, call |-> c.call, proc |-> c.proc,
                 run |-> c.run, about |-> c.about, saw |-> c.saw]
  BY DEF TaskRow
<1>4. PICK first \in TaskRow : first = over
  BY <1>3
<1>5. /\ first.pc = label /\ first.call = c.call /\ first.proc = c.proc
      /\ first.run = c.run /\ first.about = c.about /\ first.saw = c.saw
  BY <1>3, <1>4
<1>6. /\ \A n \in Nat : [first EXCEPT !.about = n] =
            [pc |-> first.pc, call |-> first.call, proc |-> first.proc,
             run |-> first.run, about |-> n, saw |-> first.saw]
      /\ \A h \in Run \cup {None} : [first EXCEPT !.saw = h] =
            [pc |-> first.pc, call |-> first.call, proc |-> first.proc,
             run |-> first.run, about |-> first.about, saw |-> h]
  BY DEF TaskRow
<1>7. \A n \in Nat : [task EXCEPT ![t].pc = label, ![t].about = n] =
                       [task EXCEPT ![t] = [first EXCEPT !.about = n]]
  BY <1>1, <1>2, <1>4
<1>8. \A h \in Run \cup {None} : [task EXCEPT ![t].pc = label, ![t].saw = h] =
                                  [task EXCEPT ![t] = [first EXCEPT !.saw = h]]
  BY <1>1, <1>2, <1>4
<1>9. ASSUME NEW n \in Nat, task' = [task EXCEPT ![t].pc = label, ![t].about = n]
      PROVE  task' = [task EXCEPT ![t] =
               [pc |-> label, call |-> task[t].call, proc |-> task[t].proc,
                run |-> task[t].run, about |-> n, saw |-> task[t].saw]]
  BY <1>2, <1>5, <1>6, <1>7, <1>9, ZenonT(60)
<1>10. ASSUME NEW h \in Run \cup {None}, task' = [task EXCEPT ![t].pc = label, ![t].saw = h]
       PROVE  task' = [task EXCEPT ![t] =
                [pc |-> label, call |-> task[t].call, proc |-> task[t].proc,
                 run |-> task[t].run, about |-> task[t].about, saw |-> h]]
  BY <1>2, <1>5, <1>6, <1>8, <1>10, ZenonT(60)
<1>11. QED
  BY <1>9, <1>10

(* A new result is on offer, unreserved and in nobody's checkout. *)
LEMMA PrepareKeeps ==
  ASSUME TypeOK, DispositionInv, NEW t \in Task, Prepare(t)
  PROVE  DispositionInv' /\ TablesOK'
<1> DEFINE n == Len(results) + 1
           row == [run |-> task[t].run, work |-> tree.files, ref |-> tree.files # {}, rev |-> 0,
                   status |-> "prepared", token |-> None]
<1>1. /\ task[t].pc = "prepare" /\ UNCHANGED <<parent, applying, crossed, dead, errors>>
      /\ results' = Append(results, row)
      /\ task \in [Task -> TaskRow] /\ results \in Seq(ResultRow)
      /\ DOMAIN results = 1..Len(results) /\ Len(results) \in Nat
  BY DEF Prepare, At, idVars, sysVars, TypeOK
<1>2. row \in ResultRow
  BY <1>1 DEF TypeOK, ResultRow, DispositionInv, CallsPlaced
<1>3. /\ row.status = "prepared" /\ row.token = None
      /\ row.work # {} => row.ref
  OBVIOUS
<1> HIDE DEF row
<1>4. /\ results' \in Seq(ResultRow) /\ DOMAIN results' = DOMAIN results \cup {n}
      /\ n \notin DOMAIN results /\ n \in Nat \ {0}
      /\ \A j \in DOMAIN results : results'[j] = results[j]
      /\ results'[n] = row
  BY <1>1, <1>2
<1>5. /\ task' \in [Task -> TaskRow]
      /\ \A u \in Task \ {t} : task'[u] = task[u]
      /\ task'[t].pc \in {"vacate", "done"} /\ task'[t].proc = task[t].proc
      /\ task'[t].pc = "vacate" => task'[t].run = task[t].run /\ task'[t].about = n
      /\ task'[t].about \in {0, n}
  <2>1. CASE Goto(t, "done")
    <3>1. Moves(t, "done")
      BY <2>1, GotoMoves DEF Steps
    <3>2. QED
      BY <3>1 DEF Moves
  <2>2. CASE task' = [task EXCEPT ![t].pc = "vacate", ![t].about = n]
    <3> DEFINE next == [pc |-> "vacate", call |-> task[t].call, proc |-> task[t].proc,
                        run |-> task[t].run, about |-> n, saw |-> task[t].saw]
    <3>1. "vacate" \in Steps /\ task[t].saw \in Run \cup {None}
      BY <1>1 DEF Steps, TaskRow
    <3>2. task' = [task EXCEPT ![t] = next]
      BY <1>4, <2>2, <3>1, TaskWritten
    <3>3. next \in TaskRow
      BY <1>1, <1>4, <3>1 DEF TaskRow
    <3>4. QED
      BY <1>1, <3>2, <3>3
  <2>3. QED
    BY <2>1, <2>2 DEF Prepare
<1>6. \A u \in Task : task[u].pc \in Concerned => task[u].about \in DOMAIN results
  BY AboutResult
<1> HIDE DEF n
<1>7. CallsPlaced'
  BY <1>1, <1>4, <1>5 DEF DispositionInv, CallsPlaced
<1>8. TokenHolder' /\ PhaseOfResult' /\ OneApplies'
  <2>1. /\ task'[t].pc \notin Disposing /\ task'[t].pc \notin Engaged
        /\ task'[t].pc \notin Registered /\ task'[t].pc \notin Applying
        /\ task'[t].pc \notin Holding /\ task'[t].pc # "offer"
    BY <1>5 DEF Disposing, Engaged, Applying, Registered, Holding
  <2>2. /\ Disposing \subseteq Concerned /\ Applying \subseteq Concerned
        /\ Holding \subseteq Concerned /\ "offer" \in Concerned
    BY DEF Concerned, Disposing, Applying, Registered, Holding
  <2>3. \A u \in Task \ {t} : task'[u] = task[u] /\ (task[u].pc \in Concerned =>
          task[u].about \in DOMAIN results /\ results'[task[u].about] = results[task[u].about])
    BY <1>4, <1>5, <1>6
  <2>4. TokenHolder'
    BY <1>1, <2>1, <2>2, <2>3 DEF DispositionInv, TokenHolder
  <2>5. PhaseOfResult'
    <3>1. \A j \in DOMAIN results' : results'[j].status = "applying" => results'[j].token # None
      BY <1>3, <1>4 DEF DispositionInv, PhaseOfResult
    <3>2. QED
      BY <1>1, <2>1, <2>2, <2>3, <3>1 DEF DispositionInv, PhaseOfResult
  <2>6. OneApplies'
    BY <1>1, <2>1, <2>3 DEF DispositionInv, OneApplies
  <2>7. QED
    BY <2>4, <2>5, <2>6
<1>9. CheckoutTraced' /\ PreparedNotInParent'
  BY <1>1, <1>3, <1>4 DEF DispositionInv, CheckoutTraced, PreparedNotInParent
<1>10. ResultReachable'
  BY <1>1, <1>3, <1>4, <1>5, SMTT(30) DEF DispositionInv, ResultReachable, At
<1>11. TablesOK'
  <2>1. \A i \in DOMAIN results' :
          results'[i].token # None => results'[i].status \in {"prepared", "applying"}
    BY <1>3, <1>4 DEF TypeOK
  <2>2. applying' \subseteq Proc \X DOMAIN results' /\ crossed' \subseteq DOMAIN results'
    BY <1>1, <1>4 DEF TypeOK
  <2>3. \A u \in Task : task'[u].about \in {0} \cup DOMAIN results'
    BY <1>4, <1>5 DEF TypeOK
  <2>4. QED
    BY <1>4, <1>5, <2>1, <2>2, <2>3 DEF TablesOK
<1>12. QED
  BY <1>7, <1>8, <1>9, <1>10, <1>11 DEF DispositionInv

LEMMA VacateKeeps ==
  ASSUME TypeOK, DispositionInv, NEW t \in Task, Vacate(t)
  PROVE  DispositionInv' /\ TablesOK'
<1>1. /\ task[t].pc = "vacate" /\ UNCHANGED <<results, parent, applying, crossed, dead, errors>>
      /\ task \in [Task -> TaskRow] /\ slot.held \in Run \cup {None}
  BY DEF Vacate, At, idVars, sysVars, TypeOK, SlotRow
<1>2. CASE Goto(t, "done")
  <2>1. Moves(t, "done")
    BY <1>2, GotoMoves DEF Steps
  <2>2. QED
    BY <1>1, <2>1, MovingIsQuiet
    DEF Steps, Disposing, Applying, Registered, Engaged, Concerned
<1>3. CASE task' = [task EXCEPT ![t].pc = "reserve", ![t].saw = slot.held]
  <2> DEFINE next == [pc |-> "reserve", call |-> task[t].call, proc |-> task[t].proc,
                      run |-> task[t].run, about |-> task[t].about, saw |-> slot.held]
  <2>1. "reserve" \in Steps
    BY DEF Steps
  <2>2. task' = [task EXCEPT ![t] = next]
    BY <1>1, <1>3, <2>1, TaskWritten
  <2>3. next \in TaskRow
    BY <1>1, <2>1 DEF TaskRow
  <2>4. /\ task' \in [Task -> TaskRow]
        /\ \A u \in Task \ {t} : task'[u] = task[u]
        /\ task'[t].pc = "reserve" /\ task'[t].proc = task[t].proc
        /\ task'[t].run = task[t].run /\ task'[t].about = task[t].about
    BY <1>1, <2>2, <2>3
  <2>5. CallsPlaced'
    BY <1>1, <2>4 DEF DispositionInv, CallsPlaced, Concerned
  <2>6. \A u \in Task : task'[u].about \in {0} \cup DOMAIN results
    BY <2>4 DEF TypeOK
  <2>7. QED
    BY <1>1, <2>4, <2>5, <2>6, QuietKeepsDispositions DEF Disposing, Applying, Registered, Engaged
<1>4. QED
  BY <1>2, <1>3 DEF Vacate

(* The steps of a worker do not touch the results. *)
LEMMA WorkIsQuiet ==
  ASSUME TypeOK, DispositionInv, NEW t \in Task,
         \/ Recycle(t) \/ Launch(t) \/ AcquireSlot(t) \/ Restore(t) \/ Finalize(t)
         \/ Leave(t) \/ Free(t) \/ Edit(t)
         \/ \E status \in {"settled", "interrupted"} : Settle(t, status)
  PROVE  DispositionInv' /\ TablesOK'
<1> DEFINE ahead == {"launch", "restore", "verify", "work", "finalize", "prepare", "done"}
<1>1. UNCHANGED <<results, parent, applying, crossed, dead, errors>>
  BY DEF Recycle, Launch, AcquireSlot, Restore, Finalize, Leave, Free, Edit, Settle,
         idVars, sysVars
<1>2. CASE Edit(t)
  <2>1. task' = task
    BY <1>2 DEF Edit
  <2>2. /\ task' \in [Task -> TaskRow] /\ CallsPlaced'
        /\ \A u \in Task : task'[u].about \in {0} \cup DOMAIN results
    BY <1>1, <2>1 DEF TypeOK, DispositionInv, CallsPlaced
  <2>3. QED
    BY <1>1, <2>1, <2>2, QuietKeepsDispositions
<1>3. CASE ~Edit(t)
  <2>1. /\ task[t].pc \in {"recycle", "acquire", "launch", "verify", "restore", "work", "finalize",
                           "leave", "free"}
        /\ \E label \in ahead : Goto(t, label)
    <3>1. CASE Recycle(t)
      BY <3>1 DEF Recycle, At
    <3>2. CASE Launch(t) \/ AcquireSlot(t)
      BY <3>2 DEF Launch, AcquireSlot, At
    <3>3. CASE Restore(t) \/ Finalize(t)
      BY <3>3 DEF Restore, Finalize, At
    <3>4. CASE Leave(t) \/ Free(t)
      BY <3>4 DEF Leave, Free, At
    <3>5. CASE \E status \in {"settled", "interrupted"} : Settle(t, status)
      BY <3>5 DEF Settle, At
    <3>6. QED
      BY <1>3, <3>1, <3>2, <3>3, <3>4, <3>5
  <2>2. PICK label \in ahead : Goto(t, label)
    BY <2>1
  <2>3. Moves(t, label)
    BY <2>2, GotoMoves DEF Steps
  <2>4. QED
    BY <1>1, <2>1, <2>3, MovingIsQuiet
    DEF Steps, Disposing, Applying, Registered, Engaged, Concerned
<1>4. QED
  BY <1>2, <1>3

LEMMA StepKeeps ==
  ASSUME TypeOK, DispositionInv, NEW t \in Task, Step(t)
  PROVE  DispositionInv' /\ TablesOK'
BY WorkIsQuiet, PrepareKeeps, VacateKeeps, ReserveKeeps, MarkKeeps, PatchKeeps, MarkAppliedKeeps,
   RegisterKeeps, CheckKeeps, ClaimRecoveryKeeps, ReconcileKeeps, OfferKeeps, KeepKeeps, UnrefKeeps,
   ForgetKeeps, ResetTreeKeeps, FailKeeps
DEF Step

LEMMA CallKeeps ==
  ASSUME TypeOK, DispositionInv, NEW t \in Task, NEW p \in Proc, CallMade(t, p)
  PROVE  DispositionInv' /\ TablesOK'
<1>1. CASE \E r \in Run : Claim(t, p, r) \/ FindRecyclable(t, p, r) \/ Continue(t, p, r)
  <2>1. PICK r \in Run : Claim(t, p, r) \/ FindRecyclable(t, p, r) \/ Continue(t, p, r)
    BY <1>1
  <2>2. UNCHANGED <<results, parent, applying, crossed, dead, errors>>
    BY <2>1 DEF Claim, FindRecyclable, Continue, idVars, sysVars
  <2>3. \/ Called(t, "start", p, r, 0, "launch")
        \/ Called(t, "start", p, r, 0, "recycle")
        \/ Called(t, "continue", p, r, 0, "acquire")
    BY <2>1 DEF Claim, FindRecyclable, Continue
  <2>4. QED
    BY <2>2, <2>3, CallingIsQuiet DEF Steps, Disposing, Applying, Registered, Engaged
<1>2. CASE \E i \in 1..MaxResults : Apply(t, p, i) \/ Retain(t, p, i) \/ Discard(t, p, i)
  <2>1. PICK i \in DOMAIN results : Apply(t, p, i) \/ Retain(t, p, i) \/ Discard(t, p, i)
    BY <1>2 DEF Apply, Retain, Discard
  <2>2. /\ UNCHANGED <<results, parent, applying, crossed, dead, errors>>
        /\ results[i].run \in Run /\ i # 0
    BY <2>1, ResultColumns DEF Apply, Retain, Discard, idVars, sysVars, TypeOK
  <2>3. \/ Called(t, "apply", p, results[i].run, i, "reserve")
        \/ Called(t, "apply", p, results[i].run, i, "check")
        \/ Called(t, "retain", p, results[i].run, i, "reserve")
        \/ Called(t, "discard", p, results[i].run, i, "reserve")
    BY <2>1 DEF Apply, Retain, Discard
  <2>4. PICK kind \in {"apply", "retain", "discard"}, label \in {"reserve", "check"} :
          Called(t, kind, p, results[i].run, i, label)
    BY <2>3
  <2>5. label \in Steps \ (Disposing \cup Engaged \cup {"idle"})
    BY DEF Steps, Disposing, Applying, Registered, Engaged
  <2>6. PICK r \in Run : r = results[i].run
    BY <2>2
  <2>7. Called(t, kind, p, r, i, label)
    BY <2>4, <2>6
  <2>8. /\ i \in {0} \cup DOMAIN results
        /\ kind \in {"start", "continue", "apply", "retain", "discard", "sweep"}
    OBVIOUS
  <2>9. QED
    BY <2>2, <2>5, <2>7, <2>8, CallingIsQuiet
<1>3. CASE Sweep(t, p)
  <2>1. PICK i \in DOMAIN results : /\ results[i].run = slot.held
                                    /\ Called(t, "sweep", p, slot.held, i, "vacate")
    BY <1>3 DEF Sweep
  <2>2. UNCHANGED <<results, parent, applying, crossed, dead, errors>>
    BY <1>3 DEF Sweep, idVars, sysVars
  <2>3. PICK r \in Run : r = slot.held
    BY <2>1, ResultColumns
  <2>4. /\ Called(t, "sweep", p, r, i, "vacate") /\ i \in {0} \cup DOMAIN results /\ i # 0
        /\ "vacate" \in Steps \ (Disposing \cup Engaged \cup {"idle"})
    BY <2>1, <2>3 DEF TypeOK, Steps, Disposing, Applying, Registered, Engaged
  <2>5. QED
    BY <2>2, <2>4, CallingIsQuiet
<1>4. QED
  BY <1>1, <1>2, <1>3 DEF CallMade

(* A reset finds no result reserved, so none that is being disposed of. *)
LEMMA ResetKeeps ==
  ASSUME TypeOK, DispositionInv, Reset
  PROVE  DispositionInv' /\ TablesOK'
<1> USE DEF DispositionInv
<1>1. /\ \A i \in DOMAIN results : results[i].token = None
      /\ results' = Cleared(results) /\ UNCHANGED <<task, parent, applying, crossed, dead, errors>>
  BY DEF Reset, MayReset, NoReservation, idVars
<1>2. \A i \in DOMAIN results : results[i].status # "applying"
  BY <1>1 DEF PhaseOfResult
<1>3. ASSUME NEW t \in Task, task[t].pc \in Disposing
      PROVE  task[t].pc \notin Holding /\ task[t].pc \in Applying /\ task[t].about \in crossed
  <2>1. task[t].about \in DOMAIN results
    BY <1>3, AboutResult DEF Concerned
  <2>2. task[t].pc \notin Holding
    BY <1>1, <2>1, HoldingHolds, SlotAssumption
  <2>3. task[t].pc \in Applying /\ task[t].about \in crossed
    BY <1>1, <1>3, <2>1, SlotAssumption DEF TokenHolder
  <2>4. QED
    BY <2>2, <2>3
<1>4. results \in Seq(ResultRow) /\ DOMAIN results = 1..Len(results) /\ Len(results) \in Nat
  BY DEF TypeOK
<1>5. ASSUME NEW row \in ResultRow
      PROVE  [row EXCEPT !.ref = FALSE, !.token = None,
                         !.status = IF @ = "prepared" THEN "discarded" ELSE @] =
               Rewritten(row, FALSE, row.rev,
                         IF row.status = "prepared" THEN "discarded" ELSE row.status, None)
  <2> DEFINE kept == IF row.status = "prepared" THEN "discarded" ELSE row.status
  <2>1. kept \in {"prepared", "applying", "applied", "discarded"}
    BY DEF ResultRow
  <2>2. PICK first \in ResultRow : /\ first = [row EXCEPT !.ref = FALSE]
                                  /\ first = Rewritten(row, FALSE, row.rev, row.status, row.token)
    BY RefWritten
  <2>3. PICK second \in ResultRow :
          /\ second = [first EXCEPT !.token = None]
          /\ second = Rewritten(first, first.ref, first.rev, first.status, None)
    BY TokenWritten
  <2>4. [second EXCEPT !.status = kept] = Rewritten(second, second.ref, second.rev, kept, second.token)
    BY <2>1, StatusWritten
  <2>5. /\ second.run = row.run /\ second.work = row.work /\ second.ref = FALSE
        /\ second.rev = row.rev /\ second.status = row.status /\ second.token = None
    BY <2>2, <2>3 DEF Rewritten
  <2>6. QED
    BY <2>2, <2>3, <2>4, <2>5 DEF Rewritten
<1>6. \A i \in DOMAIN results :
        results'[i] = Rewritten(results[i], FALSE, results[i].rev,
          IF results[i].status = "prepared" THEN "discarded" ELSE results[i].status, None)
  <2> SUFFICES ASSUME NEW i \in DOMAIN results
               PROVE  results'[i] = Rewritten(results[i], FALSE, results[i].rev,
                        IF results[i].status = "prepared" THEN "discarded" ELSE results[i].status, None)
    OBVIOUS
  <2>1. PICK row \in ResultRow : row = results[i]
    BY <1>4
  <2>2. results'[i] = [row EXCEPT !.ref = FALSE, !.token = None,
                                  !.status = IF @ = "prepared" THEN "discarded" ELSE @]
    BY <1>1, <2>1 DEF Cleared
  <2>3. QED
    BY <1>5, <2>1, <2>2
<1>7. DOMAIN results' = DOMAIN results
  BY <1>1 DEF Cleared
<1>8. \A i \in DOMAIN results :
        /\ results'[i] \in ResultRow /\ results'[i].token = None
        /\ results'[i].status \in {"applied", "discarded"}
        /\ results'[i].status = "discarded" => results[i].status \in {"prepared", "discarded"}
  <2> SUFFICES ASSUME NEW i \in DOMAIN results
               PROVE  /\ results'[i] \in ResultRow /\ results'[i].token = None
                      /\ results'[i].status \in {"applied", "discarded"}
                      /\ results'[i].status = "discarded" =>
                           results[i].status \in {"prepared", "discarded"}
    OBVIOUS
  <2> DEFINE kept == IF results[i].status = "prepared" THEN "discarded" ELSE results[i].status
  <2>1. results[i].run \in Run /\ results[i].work \in Edits /\ results[i].rev \in Nat
    BY ResultColumns
  <2>2. /\ kept \in {"applied", "discarded"}
        /\ kept = "discarded" => results[i].status \in {"prepared", "discarded"}
    BY <1>2, ResultColumns
  <2>3. results'[i] = Rewritten(results[i], FALSE, results[i].rev, kept, None)
    BY <1>6
  <2> HIDE DEF kept
  <2>4. results'[i] \in ResultRow /\ results'[i].token = None /\ results'[i].status = kept
    BY <2>1, <2>2, <2>3 DEF Rewritten, ResultRow
  <2>5. QED
    BY <2>2, <2>4
<1>9. results' \in Seq(ResultRow)
  <2>1. results' = [i \in DOMAIN results |-> results'[i]]
    BY <1>1 DEF Cleared
  <2>2. QED
    BY <1>4, <1>8, <2>1
<1>10. TokenHolder' /\ PhaseOfResult' /\ OneApplies' /\ CallsPlaced'
  <2>1. \A t \in Task :
          task[t].pc \in Holding \cup Applying \cup {"offer"} => task[t].pc \in Disposing
    BY DEF Disposing, Holding, Applying, Registered
  <2>2. TokenHolder' /\ CallsPlaced' /\ OneApplies'
    BY <1>1, <1>3 DEF TokenHolder, CallsPlaced, OneApplies
  <2>3. PhaseOfResult'
    BY <1>1, <1>3, <1>7, <1>8, <2>1 DEF PhaseOfResult
  <2>4. QED
    BY <2>2, <2>3
<1>11. CheckoutTraced' /\ PreparedNotInParent' /\ ResultReachable'
  BY <1>1, <1>7, <1>8 DEF CheckoutTraced, PreparedNotInParent, ResultReachable
<1>12. TablesOK'
  BY <1>1, <1>7, <1>8, <1>9 DEF TablesOK, TypeOK
<1>13. QED
  BY <1>10, <1>11, <1>12

(* The calls of a process that stops end; what they had reserved stays so. *)
LEMMA CrashEnds ==
  ASSUME TypeOK, NEW p \in Proc, Crash(p)
  PROVE  /\ task' \in [Task -> TaskRow]
         /\ \A t \in Task : task[t].proc # p => task'[t] = task[t]
         /\ \A t \in Task : task[t].proc = p =>
              task'[t].pc = "done" /\ task'[t].about = 0 /\ task'[t].run = None
<1>1. task' = [t \in Task |-> IF task[t].proc = p THEN Ended(task[t]) ELSE task[t]]
  BY DEF Crash
<1>2. ASSUME NEW t \in Task, task[t].proc = p
      PROVE  /\ task'[t] \in TaskRow
             /\ task'[t].pc = "done" /\ task'[t].about = 0 /\ task'[t].run = None
  <2>1. task'[t] = [pc |-> "done", call |-> "none", proc |-> task[t].proc,
                    run |-> None, about |-> 0, saw |-> None]
    BY <1>1, <1>2, EndedRow DEF TypeOK
  <2>2. QED
    BY <1>2, <2>1 DEF TaskRow, Steps
<1>3. \A t \in Task : task[t].proc # p => task'[t] = task[t]
  BY <1>1
<1>4. QED
  BY <1>1, <1>2, <1>3 DEF TypeOK

LEMMA CrashKeeps ==
  ASSUME TypeOK, DispositionInv, NEW p \in Proc, Crash(p)
  PROVE  DispositionInv' /\ TablesOK'
<1> USE DEF DispositionInv
<1>1. /\ task' \in [Task -> TaskRow]
      /\ \A t \in Task : task[t].proc # p => task'[t] = task[t]
      /\ \A t \in Task : task[t].proc = p => task'[t].pc = "done" /\ task'[t].about = 0
      /\ UNCHANGED <<parent, crossed>> /\ dead' = dead \cup {p}
      /\ applying' = {e \in applying : e[1] # p}
  BY CrashEnds DEF Crash
<1>2. /\ results' \in Seq(ResultRow) /\ DOMAIN results' = DOMAIN results
      /\ \A i \in DOMAIN results : /\ results'[i].status = results[i].status
                                   /\ results'[i].token = results[i].token
                                   /\ results'[i].rev = results[i].rev
  <2>1. CASE results' = results
    BY <2>1 DEF TypeOK
  <2>2. CASE results' = Unreferenced(results)
    <3>1. /\ results \in Seq(ResultRow) /\ DOMAIN results = 1..Len(results)
          /\ Len(results) \in Nat
      BY DEF TypeOK
    <3>2. results' = [i \in DOMAIN results |-> [results[i] EXCEPT !.ref = FALSE]]
      BY <2>2 DEF Unreferenced
    <3>3. ASSUME NEW i \in DOMAIN results
          PROVE  /\ results'[i] \in ResultRow /\ results'[i].status = results[i].status
                 /\ results'[i].token = results[i].token /\ results'[i].rev = results[i].rev
      <4>1. PICK row \in ResultRow : row = results[i]
        BY <3>1
      <4>2. results'[i] = [row EXCEPT !.ref = FALSE]
        BY <3>2, <4>1
      <4>3. /\ [row EXCEPT !.ref = FALSE] \in ResultRow
            /\ [row EXCEPT !.ref = FALSE] = Rewritten(row, FALSE, row.rev, row.status, row.token)
        BY RefWritten
      <4>4. QED
        BY <4>1, <4>2, <4>3 DEF Rewritten
    <3>4. results' \in Seq(ResultRow)
      BY <3>1, <3>2, <3>3
    <3>5. QED
      BY <3>2, <3>3, <3>4
  <2>3. QED
    BY <2>1, <2>2 DEF Crash
<1>3. \A t \in Task : task'[t].pc \notin {"idle", "done"} =>
                        task[t].proc # p /\ task'[t] = task[t]
  BY <1>1
<1>4. CallsPlaced'
  BY <1>1, <1>3 DEF CallsPlaced
<1>5. \A t \in Task : task[t].pc \in Concerned => task[t].about \in DOMAIN results
  BY AboutResult DEF DispositionInv
<1>6. TokenHolder'
  <2>1. ASSUME NEW t \in Task, task'[t].pc \in Disposing
        PROVE  task'[t] = task[t] /\ task[t].about \in DOMAIN results
    BY <1>3, <1>5, <2>1 DEF Disposing, Applying, Registered, Concerned
  <2>2. QED
    BY <1>1, <1>2, <2>1 DEF TokenHolder
<1>7. PhaseOfResult' /\ OneApplies'
  <2>1. ASSUME NEW t \in Task, task'[t].pc \in Disposing \cup Engaged
        PROVE  task'[t] = task[t] /\ task[t].proc # p /\ task[t].about \in DOMAIN results
    BY <1>3, <1>5, <2>1 DEF Disposing, Engaged, Applying, Registered, Concerned
  <2>2. /\ Holding \subseteq Disposing /\ Applying \subseteq Disposing /\ "offer" \in Disposing
        /\ Registered \subseteq Engaged
    BY DEF Disposing, Holding, Engaged, Applying, Registered
  <2>3. PhaseOfResult'
    BY <1>1, <1>2, <2>1, <2>2 DEF PhaseOfResult
  <2>4. ASSUME NEW t \in Task, task'[t].pc \in Registered
        PROVE  <<task'[t].proc, task'[t].about>> \in applying' \/ task'[t].about \in crossed'
    <3>1. /\ task'[t] = task[t] /\ task[t].proc # p
          /\ <<task[t].proc, task[t].about>> \in applying \/ task[t].about \in crossed
      BY <2>1, <2>2, <2>4 DEF OneApplies
    <3>2. <<task[t].proc, task[t].about>>[1] # p
      BY <3>1
    <3>3. QED
      BY <1>1, <3>1, <3>2
  <2>5. OneApplies'
    BY <1>1, <2>1, <2>4 DEF OneApplies
  <2>6. QED
    BY <2>3, <2>5
<1>8. CheckoutTraced' /\ PreparedNotInParent'
  BY <1>1, <1>2 DEF CheckoutTraced, PreparedNotInParent
<1>9. ResultReachable'
  BY <1>1 DEF ResultReachable
<1>10. TablesOK'
  BY <1>1, <1>2 DEF TablesOK, TypeOK
<1>11. QED
  BY <1>4, <1>6, <1>7, <1>8, <1>9, <1>10

(* The user takes what is in the files into a commit, or back. *)
LEMMA UserKeeps ==
  ASSUME TypeOK, DispositionInv, UserCommits \/ UserReverts
  PROVE  DispositionInv' /\ TablesOK'
<1> USE DEF DispositionInv
<1>1. /\ UNCHANGED <<results, applying, crossed, dead, errors, task>>
      /\ parent'.patch = {} /\ parent.rev \in Nat
      /\ \/ parent'.rev = parent.rev + 1 /\ parent'.kept = parent.kept \cup parent.patch
         \/ parent'.rev = parent.rev /\ parent'.kept = parent.kept
  BY DEF UserCommits, UserReverts, idVars, sysVars, TypeOK
<1>2. CallsPlaced' /\ TokenHolder' /\ PhaseOfResult' /\ OneApplies' /\ ResultReachable'
  BY <1>1 DEF CallsPlaced, TokenHolder, PhaseOfResult, OneApplies, ResultReachable, At
<1>3. CheckoutTraced'
  <2>1. \A i \in DOMAIN results : results[i].rev \in Nat
    BY ResultColumns
  <2>2. QED
    BY <1>1, <2>1 DEF CheckoutTraced
<1>4. PreparedNotInParent'
  BY <1>1 DEF PreparedNotInParent
<1>5. TablesOK'
  BY <1>1 DEF TablesOK, TypeOK
<1>6. QED
  BY <1>2, <1>3, <1>4, <1>5

(* Every step keeps what is known of results and dispositions. *)
LEMMA NextKeepsDispositions ==
  ASSUME TypeOK, DispositionInv, [Next]_vars
  PROVE  DispositionInv' /\ TablesOK'
<1>1. CASE UNCHANGED vars
  <2>1. UNCHANGED <<results, parent, applying, crossed, dead, errors, task>>
    BY <1>1 DEF vars, idVars, sysVars
  <2>2. CallsPlaced' /\ \A u \in Task : task'[u].about \in {0} \cup DOMAIN results
    BY <2>1 DEF TypeOK, DispositionInv, CallsPlaced
  <2>3. task' \in [Task -> TaskRow]
    BY <2>1 DEF TypeOK
  <2>4. QED
    BY <2>1, <2>2, <2>3, QuietKeepsDispositions
<1>2. CASE Next
  BY <1>2, StepKeeps, CallKeeps, ResetKeeps, CrashKeeps, UserKeeps DEF Next
<1>3. QED
  BY <1>1, <1>2

-----------------------------------------------------------------------------
(* Type correctness. *)

States == {"new", "claimed", "active", "settled", "collected", "interrupted"}

(* The types of the slot, of its runs and of the rest. *)
SlotOK ==
  /\ slot \in SlotRow
  /\ tree \in [head : Edits, files : Edits]
  /\ state \in [Run -> States]
  /\ checkpoint \in [Run -> Checkpoint]

RestOK ==
  /\ parent \in [rev : Nat, patch : SUBSET Nat, kept : SUBSET Nat]
  /\ dead \subseteq Proc /\ errors \in 0..MaxErrors /\ resets \in 0..MaxResets

LEMMA CleanIsTree == Clean \in [head : Edits, files : Edits]
BY DEF Clean, Edits

LEMMA StepKeepsSlot ==
  ASSUME TypeOK, CallsPlaced, NEW t \in Task, Step(t)
  PROVE  SlotOK'
<1>1. /\ slot \in SlotRow /\ slot.held \in Run \cup {None} /\ slot.review \in BOOLEAN
      /\ tree \in [head : Edits, files : Edits] /\ tree.head \in Edits /\ tree.files \in Edits
      /\ state \in [Run -> States] /\ checkpoint \in [Run -> Checkpoint]
      /\ t \in Task
  BY DEF TypeOK, SlotRow, States
<1>2. task[t].pc \notin {"idle", "done"} => task[t].run \in Run
  BY DEF CallsPlaced
<1> DEFINE r == task[t].run
<1>3. CASE Recycle(t)
  <2>1. r \in Run /\ UNCHANGED <<state, checkpoint>>
    BY <1>2, <1>3 DEF Recycle, runVars
  <2>2. slot' \in SlotRow /\ tree' \in [head : Edits, files : Edits]
    <3>1. [held |-> r, review |-> FALSE] \in SlotRow
      BY <2>1 DEF SlotRow
    <3>2. /\ slot' = slot \/ slot' = [held |-> r, review |-> FALSE]
          /\ tree' = tree \/ tree' = Clean
      BY <1>3 DEF Recycle
    <3>3. QED
      BY <1>1, <3>1, <3>2, CleanIsTree
  <2>3. QED
    BY <1>1, <2>1, <2>2 DEF SlotOK
<1>4. CASE Launch(t)
  <2>1. r \in Run /\ UNCHANGED <<slot, tree, checkpoint>>
    BY <1>2, <1>4 DEF Launch, At
  <2>2. state' \in [Run -> States]
    BY <1>1, <1>4, <2>1 DEF Launch, States
  <2>3. QED
    BY <1>1, <2>1, <2>2 DEF SlotOK
<1>5. CASE AcquireSlot(t)
  <2>1. r \in Run /\ UNCHANGED <<tree, state, checkpoint>>
    BY <1>2, <1>5 DEF AcquireSlot, At, runVars
  <2>2. slot' \in SlotRow
    BY <1>1, <1>5, <2>1 DEF AcquireSlot, SlotRow
  <2>3. QED
    BY <1>1, <2>1, <2>2 DEF SlotOK
<1>6. CASE Restore(t)
  <2>1. r \in Run /\ UNCHANGED <<slot, checkpoint>> /\ checkpoint[r].work \in Edits
    BY <1>1, <1>2, <1>6 DEF Restore, Checkpoint
  <2>2. tree' \in [head : Edits, files : Edits] /\ state' \in [Run -> States]
    BY <1>1, <1>6, <2>1 DEF Restore, States
  <2>3. QED
    BY <1>1, <2>1, <2>2 DEF SlotOK
<1>7. CASE Edit(t)
  <2>1. tree.files \cup {t} \in Edits
    BY <1>1 DEF Edits
  <2>2. tree' \in [head : Edits, files : Edits]
    BY <1>1, <1>7, <2>1 DEF Edit
  <2>3. QED
    BY <1>1, <1>7, <2>2 DEF SlotOK, Edit, runVars
<1>8. ASSUME NEW status \in {"settled", "interrupted"}, Settle(t, status)
      PROVE  SlotOK'
  <2>1. r \in Run /\ UNCHANGED slot
    BY <1>2, <1>8 DEF Settle, At
  <2>2. [status |-> status, work |-> tree.files] \in Checkpoint
    BY <1>1 DEF Checkpoint
  <2>3. tree' \in [head : Edits, files : Edits] /\ checkpoint' \in [Run -> Checkpoint]
    BY <1>1, <1>8, <2>1, <2>2 DEF Settle
  <2>4. state' \in [Run -> States]
    BY <1>1, <1>8, <2>1 DEF Settle, States
  <2>5. QED
    BY <1>1, <2>1, <2>3, <2>4 DEF SlotOK
<1>9. CASE Prepare(t)
  <2>1. r \in Run /\ UNCHANGED <<slot, checkpoint>>
    BY <1>2, <1>9 DEF Prepare, At
  <2>2. tree' \in [head : Edits, files : Edits] /\ state' \in [Run -> States]
    BY <1>1, <1>9, <2>1 DEF Prepare, States
  <2>3. QED
    BY <1>1, <2>1, <2>2 DEF SlotOK
<1>10. CASE Leave(t) \/ Free(t) \/ Keep(t)
  <2>1. slot' \in SlotRow
    <3>1. \A v \in BOOLEAN : [held |-> None, review |-> v] \in SlotRow
      BY DEF SlotRow
    <3>2. slot' = slot \/ \E v \in BOOLEAN : slot' = [held |-> None, review |-> v]
      BY <1>10 DEF Leave, Free, Keep, LeaveSlot
    <3>3. QED
      BY <1>1, <3>1, <3>2
  <2>2. UNCHANGED <<tree, state, checkpoint>>
    BY <1>10 DEF Leave, Free, Keep, runVars
  <2>3. QED
    BY <1>1, <2>1, <2>2 DEF SlotOK
<1>11. CASE ResetTree(t)
  BY <1>1, <1>11, CleanIsTree DEF ResetTree, SlotOK, runVars
<1>12. CASE \/ Finalize(t) \/ Vacate(t) \/ Reserve(t) \/ Mark(t) \/ Patch(t) \/ MarkApplied(t)
            \/ Register(t) \/ Check(t) \/ ClaimRecovery(t) \/ Reconcile(t) \/ Offer(t) \/ Unref(t)
            \/ Forget(t) \/ Fail(t)
  <2>1. UNCHANGED <<slot, tree, state, checkpoint>>
    BY <1>12
    DEF Finalize, Vacate, Reserve, Mark, Patch, MarkApplied, Register, Check, ClaimRecovery, Offer,
        Reconcile, Unref, Forget, Fail, runVars
  <2>2. QED
    BY <1>1, <2>1 DEF SlotOK
<1>13. QED
  BY <1>3, <1>4, <1>5, <1>6, <1>7, <1>8, <1>9, <1>10, <1>11, <1>12 DEF Step

LEMMA StepKeepsRest ==
  ASSUME TypeOK, CallsPlaced, NEW t \in Task, Step(t)
  PROVE  RestOK'
<1>1. RestOK
  BY DEF TypeOK, RestOK
<1>2. CASE Patch(t)
  <2>1. task[t].about \in Nat
    BY DEF TypeOK
  <2>2. UNCHANGED <<dead, errors, resets>>
    BY <1>2 DEF Patch, sysVars
  <2>3. parent' \in [rev : Nat, patch : SUBSET Nat, kept : SUBSET Nat]
    BY <1>1, <1>2, <2>1 DEF Patch, RestOK
  <2>4. QED
    BY <1>1, <2>2, <2>3 DEF RestOK
<1>3. CASE Fail(t)
  <2>1. errors' \in 0..MaxErrors /\ UNCHANGED <<parent, dead, resets>>
    BY <1>1, <1>3, SlotAssumption DEF Fail, RestOK
  <2>2. QED
    BY <1>1, <2>1 DEF RestOK
<1>4. CASE UNCHANGED <<parent, dead, errors, resets>>
  BY <1>1, <1>4 DEF RestOK
<1>5. CASE ~Patch(t) /\ ~Fail(t)
  <2>1. UNCHANGED <<parent, sysVars>>
    BY <1>5
    DEF Step, Recycle, Launch, AcquireSlot, Restore, Edit, Finalize, Prepare, Vacate, Reserve, Mark,
        MarkApplied, Leave, Register, Check, ClaimRecovery, Offer, Reconcile, Keep, Unref, Forget,
        ResetTree, Free, Settle
  <2>2. QED
    BY <1>4, <2>1 DEF sysVars
<1>6. QED
  BY <1>2, <1>3, <1>5

LEMMA CallKeepsTypes ==
  ASSUME TypeOK, NEW t \in Task, NEW p \in Proc, CallMade(t, p)
  PROVE  SlotOK' /\ RestOK'
<1>1. UNCHANGED <<tree, checkpoint, parent, sysVars>>
  BY DEF CallMade, Claim, FindRecyclable, Continue, Apply, Retain, Discard, Sweep, runVars
<1>2. RestOK'
  BY <1>1 DEF TypeOK, RestOK, sysVars
<1>3. /\ slot' = slot \/ \E r \in Run : slot' = [slot EXCEPT !.held = r]
      /\ state' = state \/ \E r \in Run : state' = [state EXCEPT ![r] = "claimed"]
  BY DEF CallMade, Claim, FindRecyclable, Continue, Apply, Retain, Discard, Sweep, runVars
<1>4. slot' \in SlotRow
  BY <1>3 DEF TypeOK, SlotRow
<1>5. state' \in [Run -> States]
  BY <1>3 DEF TypeOK, States
<1>6. QED
  BY <1>1, <1>2, <1>4, <1>5 DEF TypeOK, SlotOK

LEMMA OthersKeepTypes ==
  ASSUME TypeOK,
         \/ Reset \/ (\E p \in Proc : Crash(p)) \/ UserCommits \/ UserReverts \/ UNCHANGED vars
  PROVE  SlotOK' /\ RestOK'
<1>1. SlotOK /\ RestOK
  BY DEF TypeOK, SlotOK, RestOK, States
<1>2. CASE Reset
  <2>1. slot' \in SlotRow
    BY <1>2 DEF Reset, SlotRow
  <2>2. tree' \in [head : Edits, files : Edits]
    BY <1>2, CleanIsTree DEF Reset
  <2>3. UNCHANGED <<state, checkpoint, parent, dead, errors>>
    BY <1>2 DEF Reset, runVars
  <2>4. resets' \in 0..MaxResets
    BY <1>1, <1>2, SlotAssumption DEF Reset, RestOK
  <2>5. QED
    BY <1>1, <2>1, <2>2, <2>3, <2>4 DEF SlotOK, RestOK
<1>3. ASSUME NEW p \in Proc, Crash(p)
      PROVE  SlotOK' /\ RestOK'
  <2>1. UNCHANGED <<slot, checkpoint, parent, errors, resets>> /\ dead' = dead \cup {p}
    BY <1>3 DEF Crash
  <2>2. tree' = tree \/ tree' = Clean
    BY <1>3 DEF Crash
  <2>3. state' \in [Run -> States]
    BY <1>1, <1>3 DEF Crash, SlotOK, States
  <2>4. QED
    BY <1>1, <2>1, <2>2, <2>3, CleanIsTree DEF SlotOK, RestOK
<1>4. CASE UserCommits \/ UserReverts
  <2>1. UNCHANGED <<slot, tree, state, checkpoint, dead, errors, resets>>
    BY <1>4 DEF UserCommits, UserReverts, runVars, sysVars
  <2>2. parent' \in [rev : Nat, patch : SUBSET Nat, kept : SUBSET Nat]
    BY <1>1, <1>4 DEF UserCommits, UserReverts, RestOK
  <2>3. QED
    BY <1>1, <2>1, <2>2 DEF SlotOK, RestOK
<1>5. CASE UNCHANGED vars
  BY <1>1, <1>5 DEF SlotOK, RestOK, vars, runVars, sysVars
<1>6. QED
  BY <1>2, <1>3, <1>4, <1>5

LEMMA NextKeepsTypes ==
  ASSUME TypeOK, DispositionInv, [Next]_vars
  PROVE  TypeOK'
<1>1. TablesOK'
  BY NextKeepsDispositions
<1>2. SlotOK' /\ RestOK'
  BY StepKeepsSlot, StepKeepsRest, CallKeepsTypes, OthersKeepTypes DEF Next, DispositionInv
<1>3. QED
  BY <1>1, <1>2 DEF TypeOK, TablesOK, SlotOK, RestOK, States

(* The initial state: nothing has been called, nothing recorded. *)
LEMMA InitKeeps ==
  ASSUME Init
  PROVE  TypeOK /\ DispositionInv
<1>1. TypeOK
  <2>1. NoCall \in TaskRow /\ NoCall.about = 0
    BY DEF NoCall, TaskRow, Steps
  <2>2. slot \in SlotRow /\ tree \in [head : Edits, files : Edits]
    BY CleanIsTree DEF Init, SlotRow
  <2>3. checkpoint \in [Run -> Checkpoint]
    BY DEF Init, Checkpoint, Edits
  <2>4. results = <<>> /\ results \in Seq(ResultRow) /\ DOMAIN results = {}
    BY DEF Init
  <2>5. errors \in 0..MaxErrors /\ resets \in 0..MaxResets
    BY SlotAssumption DEF Init
  <2>6. /\ state \in [Run -> {"new", "claimed", "active", "settled", "collected", "interrupted"}]
        /\ parent \in [rev : Nat, patch : SUBSET Nat, kept : SUBSET Nat]
        /\ applying = {} /\ crossed = {} /\ dead \subseteq Proc
    BY DEF Init
  <2>7. task \in [Task -> TaskRow] /\ \A t \in Task : task[t].about = 0
    BY <2>1 DEF Init
  <2>8. QED
    BY <2>2, <2>3, <2>4, <2>5, <2>6, <2>7 DEF TypeOK
<1>2. DOMAIN results = {} /\ \A t \in Task : task[t].pc = "idle"
  BY DEF Init, NoCall
<1>3. parent.patch = {} /\ parent.kept = {}
  BY DEF Init
<1>4. QED
  BY <1>1, <1>2, <1>3
  DEF DispositionInv, CallsPlaced, TokenHolder, PhaseOfResult, CheckoutTraced,
      PreparedNotInParent, ResultReachable, OneApplies, Disposing, Engaged, Holding, Applying,
      Registered

(* Whatever the calls, failures and stops, the dispositions keep to their   *)
(* rules: the inductive invariant of the slot's results.                    *)
THEOREM DispositionsAreInvariant == Spec => [](TypeOK /\ DispositionInv)
<1>1. Init => TypeOK /\ DispositionInv
  BY InitKeeps
<1>2. TypeOK /\ DispositionInv /\ [Next]_vars => (TypeOK /\ DispositionInv)'
  BY NextKeepsTypes, NextKeepsDispositions
<1>3. QED
  BY <1>1, <1>2, PTL DEF Spec

-----------------------------------------------------------------------------
(* One driver of a run at most. *)

(* The states of its run that a step goes with. *)
Fits(label, s) ==
  /\ label \in {"recycle", "launch"} => s = "claimed"
  /\ label \in {"acquire", "verify", "restore"} => s \in {"settled", "collected", "interrupted"}
  /\ label = "work" => s = "active"

LEMMA DriverAlone ==
  ASSUME OneDriver
  PROVE  /\ \A t, u \in Task :
              task[t].pc \in Driving /\ task[u].pc \in Driving /\ task[t].run = task[u].run => t = u
         /\ \A t \in Task : Fits(task[t].pc, state[task[t].run])
BY DEF OneDriver, Fits

(* Only the driver of a run changes its state, finalization aside. *)
LEMMA MoveKeepsDriver ==
  ASSUME TypeOK, CallsPlaced, OneDriver, NEW t \in Task, NEW label \in Steps, Moves(t, label),
         label \in Driving => task[t].pc \in Driving,
         Fits(label, state'[task[t].run]),
         \A r \in Run : \/ state'[r] = state[r]
                        \/ state[r] = "settled" /\ state'[r] = "collected"
                        \/ r = task[t].run /\ task[t].pc \in Driving
  PROVE  OneDriver'
<1>1. /\ \A u \in Task \ {t} : task'[u] = task[u]
      /\ task'[t].pc = label
      /\ label # "done" => task'[t].run = task[t].run
  BY DEF Moves
<1>2. \A u \in Task : task[u].pc \in Driving => task[u].run \in Run
  BY DEF CallsPlaced, Driving
<1>3. \A u, v \in Task :
        task'[u].pc \in Driving /\ task'[v].pc \in Driving /\ task'[u].run = task'[v].run => u = v
  BY <1>1, DriverAlone DEF Driving
<1>4. ASSUME NEW u \in Task
      PROVE  Fits(task'[u].pc, state'[task'[u].run])
  <2>1. CASE u = t
    BY <1>1, <2>1 DEF Fits
  <2>2. CASE u # t /\ task[u].pc \in Driving
    <3>1. task[u].run \in Run /\ Fits(task[u].pc, state[task[u].run]) /\ task'[u] = task[u]
      BY <1>1, <1>2, <2>2, DriverAlone
    <3>2. \/ state'[task[u].run] = state[task[u].run]
          \/ state[task[u].run] = "settled" /\ state'[task[u].run] = "collected"
      BY <2>2, <3>1, DriverAlone
    <3>3. QED
      BY <3>1, <3>2 DEF Fits
  <2>3. CASE u # t /\ task[u].pc \notin Driving
    BY <1>1, <2>3 DEF Fits, Driving
  <2>4. QED
    BY <2>1, <2>2, <2>3
<1>5. QED
  BY <1>3, <1>4 DEF OneDriver, Fits

(* The steps of a driver; the step it goes on to fits the state of its run. *)
LEMMA DriverSteps ==
  ASSUME TypeOK, CallsPlaced, OneDriver, NEW t \in Task,
         \/ Recycle(t) \/ Launch(t) \/ AcquireSlot(t) \/ Restore(t)
         \/ \E status \in {"settled", "interrupted"} : Settle(t, status)
  PROVE  /\ task[t].pc \in Driving /\ task[t].run \in Run
         /\ \A x \in Run \ {task[t].run} : state'[x] = state[x]
         /\ \E label \in Steps : Goto(t, label) /\ Fits(label, state'[task[t].run])
<1> DEFINE r == task[t].run
           Ahead(label) == Goto(t, label) /\ Fits(label, state'[r])
<1>1. state \in [Run -> States] /\ Fits(task[t].pc, state[r])
  BY DriverAlone DEF TypeOK, States
<1>2. task[t].pc \in Driving
  BY DEF Recycle, Launch, AcquireSlot, Restore, Settle, At, Driving
<1>3. r \in Run
  BY <1>2 DEF CallsPlaced, Driving
<1>4. {"launch", "restore", "verify", "work", "finalize", "done"} \subseteq Steps
  BY DEF Steps
<1>5. CASE Recycle(t)
  <2>1. state' = state /\ task[t].pc \in {"recycle", "acquire"}
    BY <1>5 DEF Recycle, runVars
  <2>2. \/ Goto(t, "done")
        \/ task[t].pc = "recycle" /\ Goto(t, "launch")
        \/ task[t].pc = "acquire" /\ Goto(t, "restore")
    BY <1>5, <2>1 DEF Recycle, At
  <2>3. \E label \in Steps : Ahead(label)
    BY <1>1, <1>4, <2>1, <2>2 DEF Fits
  <2>4. QED
    BY <1>2, <1>3, <2>1, <2>3
<1>6. CASE Launch(t)
  <2>1. \/ state' = [state EXCEPT ![r] = "active"] /\ Goto(t, "work")
        \/ state' = state /\ Goto(t, "done")
    BY <1>6 DEF Launch
  <2>2. \E label \in Steps : Ahead(label)
    BY <1>1, <1>3, <1>4, <2>1 DEF Fits
  <2>3. QED
    BY <1>1, <1>2, <1>3, <2>1, <2>2
<1>7. CASE AcquireSlot(t)
  <2>1. /\ state' = state /\ task[t].pc = "acquire"
        /\ Goto(t, "verify") \/ Goto(t, "done")
    BY <1>7 DEF AcquireSlot, At, runVars
  <2>2. \E label \in Steps : Ahead(label)
    BY <1>1, <1>4, <2>1 DEF Fits
  <2>3. QED
    BY <1>2, <1>3, <2>1, <2>2
<1>8. CASE Restore(t)
  <2>1. \/ state' = [state EXCEPT ![r] = "active"] /\ Goto(t, "work")
        \/ state' = state /\ Goto(t, "done")
    BY <1>8 DEF Restore
  <2>2. \E label \in Steps : Ahead(label)
    BY <1>1, <1>3, <1>4, <2>1 DEF Fits
  <2>3. QED
    BY <1>1, <1>2, <1>3, <2>1, <2>2
<1>9. ASSUME NEW status \in {"settled", "interrupted"}, Settle(t, status)
      PROVE  /\ \A x \in Run \ {r} : state'[x] = state[x]
             /\ \E label \in Steps : Ahead(label)
  <2>1. /\ \E s \in {"settled", "interrupted"} : state' = [state EXCEPT ![r] = s]
        /\ Goto(t, "finalize") \/ Goto(t, "done")
    BY <1>9 DEF Settle
  <2>2. \E label \in Steps : Ahead(label)
    BY <1>4, <2>1 DEF Fits
  <2>3. QED
    BY <1>1, <2>1, <2>2
<1>10. QED
  BY <1>2, <1>3, <1>5, <1>6, <1>7, <1>8, <1>9

LEMMA StepKeepsDriver ==
  ASSUME TypeOK, CallsPlaced, OneDriver, NEW t \in Task, Step(t)
  PROVE  OneDriver'
<1> DEFINE r == task[t].run
<1>1. state \in [Run -> States] /\ task \in [Task -> TaskRow]
  BY DEF TypeOK, States
<1>2. CASE \/ Recycle(t) \/ Launch(t) \/ AcquireSlot(t) \/ Restore(t)
           \/ \E status \in {"settled", "interrupted"} : Settle(t, status)
  <2>1. /\ task[t].pc \in Driving
        /\ \A x \in Run \ {r} : state'[x] = state[x]
        /\ \E label \in Steps : Goto(t, label) /\ Fits(label, state'[r])
    BY <1>2, DriverSteps
  <2>2. PICK label \in Steps : Goto(t, label) /\ Fits(label, state'[r])
    BY <2>1
  <2>3. Moves(t, label)
    BY <2>2, GotoMoves
  <2>4. QED
    BY <2>1, <2>2, <2>3, MoveKeepsDriver
<1>3. CASE Edit(t)
  BY <1>3 DEF Edit, OneDriver, runVars
<1>4. CASE \/ Finalize(t) \/ Reserve(t) \/ Mark(t) \/ Patch(t) \/ MarkApplied(t) \/ Leave(t)
           \/ Register(t) \/ Check(t) \/ ClaimRecovery(t) \/ Offer(t) \/ Reconcile(t) \/ Keep(t)
           \/ Unref(t) \/ Forget(t) \/ ResetTree(t) \/ Free(t) \/ Fail(t)
  <2>1. state' = state
    BY <1>4
    DEF Finalize, Reserve, Mark, Patch, MarkApplied, Leave, Register, Check, ClaimRecovery, Offer,
        Reconcile, Keep, Unref, Forget, ResetTree, Free, Fail, runVars
  <2>2. \E label \in Steps \ Driving : Goto(t, label)
    <3>1. CASE Finalize(t) \/ Leave(t) \/ Free(t) \/ Fail(t) \/ Keep(t)
      BY <3>1 DEF Finalize, Leave, Free, Fail, Keep, Steps, Driving
    <3>2. CASE Reserve(t)
      BY <3>2 DEF Reserve, NextStep, Steps, Disposing, Applying, Registered, Driving
    <3>3. CASE Mark(t) \/ Patch(t) \/ Register(t) \/ Unref(t) \/ ResetTree(t)
      BY <3>3
      DEF Mark, Patch, Register, Unref, ResetTree, Steps, Disposing, Applying, Registered, Driving
    <3>4. CASE Check(t) \/ ClaimRecovery(t) \/ Reconcile(t) \/ Offer(t) \/ MarkApplied(t)
      BY <3>4 DEF Check, ClaimRecovery, Reconcile, Offer, MarkApplied, Steps, Disposing, Applying,
                  Registered, Driving
    <3>5. CASE Forget(t)
      BY <3>5 DEF Forget, Steps, Disposing, Driving
    <3>6. QED
      BY <1>4, <3>1, <3>2, <3>3, <3>4, <3>5
  <2>3. PICK label \in Steps \ Driving : Goto(t, label)
    BY <2>2
  <2>4. Moves(t, label)
    BY <2>3, GotoMoves
  <2>5. Fits(label, state'[r])
    BY DEF Fits, Driving
  <2>6. QED
    BY <2>1, <2>3, <2>4, <2>5, MoveKeepsDriver
<1>5. CASE Vacate(t) \/ Prepare(t)
  <2>1. /\ \A u \in Task \ {t} : task'[u] = task[u]
        /\ task'[t].pc \notin Driving
    <3>1. CASE Goto(t, "done")
      BY <3>1, GotoMoves DEF Moves, Steps, Driving
    <3>2. CASE task' = [task EXCEPT ![t].pc = "vacate", ![t].about = Len(results) + 1]
      <4>1. Len(results) + 1 \in Nat /\ "vacate" \in Steps
        BY DEF TypeOK, Steps
      <4>2. task' = [task EXCEPT ![t] =
                       [pc |-> "vacate", call |-> task[t].call, proc |-> task[t].proc,
                        run |-> r, about |-> Len(results) + 1, saw |-> task[t].saw]]
        BY <3>2, <4>1, TaskWritten
      <4>3. QED
        BY <1>1, <4>2 DEF Driving
    <3>3. CASE task' = [task EXCEPT ![t].pc = "reserve", ![t].saw = slot.held]
      <4>1. slot.held \in Run \cup {None} /\ "reserve" \in Steps
        BY DEF TypeOK, SlotRow, Steps
      <4>2. task' = [task EXCEPT ![t] =
                       [pc |-> "reserve", call |-> task[t].call, proc |-> task[t].proc,
                        run |-> r, about |-> task[t].about, saw |-> slot.held]]
        BY <3>3, <4>1, TaskWritten
      <4>3. QED
        BY <1>1, <4>2 DEF Driving
    <3>4. QED
      BY <1>5, <3>1, <3>2, <3>3 DEF Vacate, Prepare
  <2>2. \A x \in Run : state'[x] = state[x] \/ (state[x] = "settled" /\ state'[x] = "collected")
    BY <1>1, <1>5 DEF Vacate, Prepare, runVars
  <2>3. \A u \in Task : task[u].pc \in Driving => task[u].run \in Run
    BY DEF CallsPlaced, Driving
  <2>4. QED
    BY <2>1, <2>2, <2>3 DEF OneDriver, Driving
<1>6. QED
  BY <1>2, <1>3, <1>4, <1>5 DEF Step

(* A call takes up a run only while nobody drives it. *)
LEMMA CallKeepsDriver ==
  ASSUME TypeOK, CallsPlaced, OneDriver, NEW t \in Task, NEW p \in Proc, CallMade(t, p)
  PROVE  OneDriver'
<1>1. \A u \in Task : task[u].pc \in Driving => task[u].run \in Run
  BY DEF CallsPlaced, Driving
<1>2. state \in [Run -> States]
  BY DEF TypeOK, States
<1>3. ASSUME NEW r \in Run, Claim(t, p, r) \/ FindRecyclable(t, p, r) \/ Continue(t, p, r)
      PROVE  OneDriver'
  <2>1. PICK kind \in {"start", "continue"}, label \in {"launch", "recycle", "acquire"} :
          /\ Called(t, kind, p, r, 0, label)
          /\ \/ label # "acquire" /\ state[r] = "new" /\ state' = [state EXCEPT ![r] = "claimed"]
             \/ /\ label = "acquire" /\ state' = state /\ ~Continuing(r)
                /\ state[r] \in {"settled", "collected", "interrupted"}
    BY <1>3 DEF Claim, FindRecyclable, Continue, runVars
  <2>2. label \in Steps
    BY DEF Steps
  <2>3. /\ \A u \in Task \ {t} : task'[u] = task[u]
        /\ task'[t].pc = label /\ task'[t].run = r
    <3>1. kind \in {"start", "continue", "apply", "retain", "discard", "sweep"} /\ 0 \in Nat
      OBVIOUS
    <3>2. /\ \A u \in Task \ {t} : task'[u] = task[u]
          /\ task'[t] = [pc |-> label, call |-> kind, proc |-> p, run |-> r,
                         about |-> 0, saw |-> slot.held]
      BY <2>1, <2>2, <3>1, CalledMoves
    <3>3. QED
      BY <3>2
  <2>4. \A u \in Task : task[u].pc \in Driving => task[u].run # r
    BY <2>1, DriverAlone DEF Fits, Driving, Continuing
  <2>5. \A u, v \in Task :
          task'[u].pc \in Driving /\ task'[v].pc \in Driving /\ task'[u].run = task'[v].run => u = v
    BY <2>3, <2>4 DEF OneDriver
  <2>6. ASSUME NEW u \in Task
        PROVE  Fits(task'[u].pc, state'[task'[u].run])
    <3>1. CASE u = t
      BY <1>2, <2>1, <2>3, <3>1 DEF Fits
    <3>2. CASE u # t /\ task[u].pc \in Driving
      <4>1. state'[task[u].run] = state[task[u].run]
        BY <1>1, <1>2, <2>1, <2>4, <3>2
      <4>2. QED
        BY <2>3, <3>2, <4>1, DriverAlone
    <3>3. CASE u # t /\ task[u].pc \notin Driving
      BY <2>3, <3>3 DEF Fits, Driving
    <3>4. QED
      BY <3>1, <3>2, <3>3
  <2>7. QED
    BY <2>5, <2>6 DEF OneDriver, Fits
<1>4. ASSUME NEW i \in DOMAIN results,
             NEW kind \in {"apply", "retain", "discard", "sweep"},
             NEW label \in {"reserve", "check", "vacate"},
             Called(t, kind, p, results[i].run, i, label), state' = state
      PROVE  OneDriver'
  <2>1. i \in Nat
    BY DEF TypeOK
  <2>2. PICK r \in Run : r = results[i].run
    BY ResultColumns
  <2>3. Called(t, kind, p, r, i, label) /\ label \in Steps
    BY <1>4, <2>2 DEF Steps
  <2>4. /\ \A u \in Task \ {t} : task'[u] = task[u]
        /\ task'[t].pc = label
    <3>1. kind \in {"start", "continue", "apply", "retain", "discard", "sweep"}
      OBVIOUS
    <3>2. /\ \A u \in Task \ {t} : task'[u] = task[u]
          /\ task'[t] = [pc |-> label, call |-> kind, proc |-> p, run |-> r,
                         about |-> i, saw |-> slot.held]
      BY <2>1, <2>3, <3>1, CalledMoves
    <3>3. QED
      BY <3>2
  <2>5. QED
    BY <1>4, <2>4 DEF OneDriver, Driving
<1>5. ASSUME NEW i \in Nat, Apply(t, p, i) \/ Retain(t, p, i) \/ Discard(t, p, i)
      PROVE  OneDriver'
  <2>1. i \in DOMAIN results /\ state' = state
    BY <1>5 DEF Apply, Retain, Discard, runVars
  <2>2. PICK kind \in {"apply", "retain", "discard"}, label \in {"reserve", "check"} :
          Called(t, kind, p, results[i].run, i, label)
    BY <1>5 DEF Apply, Retain, Discard
  <2>3. QED
    BY <1>4, <2>1, <2>2
<1>6. CASE Sweep(t, p)
  <2>1. PICK i \in DOMAIN results : Called(t, "sweep", p, results[i].run, i, "vacate")
    BY <1>6 DEF Sweep
  <2>2. QED
    BY <1>4, <1>6, <2>1 DEF Sweep, runVars
<1>7. QED
  BY <1>3, <1>5, <1>6 DEF CallMade

(* A stop interrupts the runs that were driven in the process. *)
LEMMA CrashKeepsDriver ==
  ASSUME TypeOK, CallsPlaced, OneDriver, NEW p \in Proc, Crash(p)
  PROVE  OneDriver'
<1>1. /\ \A t \in Task : task[t].proc # p => task'[t] = task[t]
      /\ \A t \in Task : task[t].proc = p => task'[t].pc = "done"
  BY CrashEnds
<1>2. \A t \in Task : task'[t].pc \in Driving => task[t].proc # p /\ task'[t] = task[t]
  BY <1>1 DEF Driving
<1>3. ASSUME NEW t \in Task, task'[t].pc \in Driving
      PROVE  state'[task[t].run] = state[task[t].run]
  <2>1. task[t].run \in Run /\ task[t].pc \in Driving
    BY <1>2, <1>3 DEF CallsPlaced, Driving
  <2>2. ~ \E u \in Task : task[u].proc = p /\ task[u].run = task[t].run /\ At(u, "work")
    BY <1>2, <1>3, <2>1 DEF OneDriver, Driving, At
  <2>3. QED
    BY <2>1, <2>2 DEF Crash
<1>4. QED
  BY <1>2, <1>3 DEF OneDriver, Driving

LEMMA NextKeepsDriver ==
  ASSUME TypeOK, DispositionInv, OneDriver, [Next]_vars
  PROVE  OneDriver'
<1>1. CallsPlaced
  BY DEF DispositionInv
<1>2. CASE Reset \/ UserCommits \/ UserReverts \/ UNCHANGED vars
  <2>1. UNCHANGED <<state, task>>
    BY <1>2 DEF Reset, UserCommits, UserReverts, vars, runVars
  <2>2. QED
    BY <2>1 DEF OneDriver
<1>3. QED
  BY <1>1, <1>2, StepKeepsDriver, CallKeepsDriver, CrashKeepsDriver DEF Next

(* The inductive invariant of the slot: the types, the rules of the         *)
(* dispositions and the one driver of each run.                             *)
THEOREM SlotIsInvariant == Spec => [](TypeOK /\ SlotInv)
<1>1. Init => TypeOK /\ SlotInv
  <2>1. Init => OneDriver
    BY DEF Init, NoCall, OneDriver, Driving
  <2>2. QED
    BY <2>1, InitKeeps DEF SlotInv
<1>2. TypeOK /\ SlotInv /\ [Next]_vars => (TypeOK /\ SlotInv)'
  BY NextKeepsTypes, NextKeepsDispositions, NextKeepsDriver DEF SlotInv
<1>3. QED
  BY <1>1, <1>2, PTL DEF Spec

(* Rows of the tables, trees and calls keep their form: every column of the *)
(* slot, of a checkpoint, of a result and of a call.                        *)
THEOREM SlotTypes == Spec => []TypeOK
BY SlotIsInvariant, PTL

(* Competing dispositions never act on the same result: a call past its     *)
(* reservation still holds it, through recoveries, takeovers, sweeps, resets*)
(* of the slot, failures and stops of any number of processes.  The one     *)
(* exception: a call of the same process set out to recover the result      *)
(* before activeApplyingResultIds told of its application.                  *)
THEOREM OneDisposesAtATime == Spec => []TokenHolder
<1>1. SlotInv => TokenHolder
  BY DEF SlotInv, DispositionInv
<1>2. QED
  BY <1>1, SlotIsInvariant, PTL

(* A result on offer, or thrown away, is not in the parent checkout: it is  *)
(* never applied a second time nor kept against the user's word, unless its *)
(* applications or recoveries crossed in one process.                       *)
THEOREM OfferedIsNotApplied == Spec => []PreparedNotInParent
<1>1. SlotInv => PreparedNotInParent
  BY DEF SlotInv, DispositionInv
<1>2. QED
  BY <1>1, SlotIsInvariant, PTL

(* As long as nothing breaks, a result that may still be applied keeps the  *)
(* ref to its commits, or its discard is about to be recorded.              *)
THEOREM OfferedStaysReachable == Spec => []ResultReachable
<1>1. SlotInv => ResultReachable
  BY DEF SlotInv, DispositionInv
<1>2. QED
  BY <1>1, SlotIsInvariant, PTL

-----------------------------------------------------------------------------
(* What a step may never do. *)

(* The commits of a result and its end are never rewritten: the first part  *)
(* of a step of FateIsFinal.                                                *)
FateKept ==
  \A i \in DOMAIN results :
    /\ i \in DOMAIN results' /\ results'[i].work = results[i].work
    /\ results[i].status \in {"applied", "discarded"} => results'[i].status = results[i].status

LEMMA WritingKeepsFate ==
  ASSUME NEW i \in DOMAIN results, NEW ref, NEW rev, NEW status, NEW token,
         Writes(i, ref, rev, status, token),
         status = results[i].status \/ results[i].status \in {"prepared", "applying"}
  PROVE  FateKept
BY DEF Writes, Rewritten, FateKept

(* A disposition changes the status of its own result, while that is on     *)
(* offer or being applied.                                                  *)
LEMMA DispositionKeepsFate ==
  ASSUME TypeOK, DispositionInv, NEW t \in Task,
         \/ Reserve(t) \/ Mark(t) \/ MarkApplied(t) \/ ClaimRecovery(t) \/ Offer(t) \/ Keep(t)
         \/ Unref(t) \/ Forget(t) \/ Fail(t)
  PROVE  FateKept
<1> DEFINE i == task[t].about
           row == results[i]
<1>1. task[t].pc \in Concerned
  BY DEF Reserve, Mark, MarkApplied, ClaimRecovery, Offer, Keep, Unref, Forget, Fail, At,
         Concerned, Disposing, Applying, Registered
<1>2. i \in DOMAIN results /\ t \in Task \cup {None}
  BY <1>1, AboutResult
<1>3. /\ row.rev \in Nat /\ row.status \in {"prepared", "applying", "applied", "discarded"}
      /\ parent.rev \in Nat
  BY <1>2, ResultColumns DEF TypeOK
<1>4. CASE results' = results
  BY <1>4 DEF FateKept
<1>5. CASE results' = [results EXCEPT ![i].token = t] \/ results' = [results EXCEPT ![i].token = None]
  <2>1. PICK token \in Task \cup {None} : results' = [results EXCEPT ![i].token = token]
    BY <1>2, <1>5
  <2>2. Writes(i, row.ref, row.rev, row.status, token)
    BY <1>2, <1>3, <2>1, UpdatesWrite
  <2>3. QED
    BY <1>2, <2>2, WritingKeepsFate
<1>6. CASE Mark(t) /\ results' = [results EXCEPT ![i].status = "applying", ![i].rev = parent.rev]
  <2>1. Writes(i, row.ref, parent.rev, "applying", row.token)
    BY <1>2, <1>3, <1>6, UpdatesWrite
  <2>2. row.status = "prepared"
    BY <1>6, HoldingHolds DEF Mark, At, Holding
  <2>3. QED
    BY <1>2, <2>1, <2>2, WritingKeepsFate
<1>7. ASSUME NEW status \in {"applied", "prepared"}, Holds(t),
             results' = [results EXCEPT ![i].status = status, ![i].token = None]
      PROVE  FateKept
  <2>1. Writes(i, row.ref, row.rev, status, None)
    BY <1>2, <1>3, <1>7, UpdatesWrite
  <2>2. row.status = "applying"
    BY <1>7 DEF Holds
  <2>3. QED
    BY <1>2, <2>1, <2>2, WritingKeepsFate
<1>8. CASE Unref(t)
  <2>1. Writes(i, FALSE, row.rev, row.status, row.token)
    BY <1>2, <1>3, <1>8, UpdatesWrite DEF Unref
  <2>2. QED
    BY <1>2, <2>1, WritingKeepsFate
<1>9. CASE Forget(t)
  <2>1. Writes(i, FALSE, row.rev, "discarded", None)
    BY <1>2, <1>3, <1>9, UpdatesWrite DEF Forget
  <2>2. row.status = "prepared"
    BY <1>9, HoldingHolds DEF Forget, At, Holding
  <2>3. QED
    BY <1>2, <2>1, <2>2, WritingKeepsFate
<1>10. CASE Reserve(t) \/ ClaimRecovery(t) \/ Keep(t) \/ Fail(t)
  BY <1>4, <1>5, <1>10 DEF Reserve, ClaimRecovery, Keep, Fail
<1>11. CASE Mark(t)
  BY <1>5, <1>6, <1>11 DEF Mark
<1>12. CASE MarkApplied(t) \/ Offer(t)
  BY <1>4, <1>7, <1>12 DEF MarkApplied, Offer
<1>13. QED
  BY <1>8, <1>9, <1>10, <1>11, <1>12

LEMMA NextKeepsFate ==
  ASSUME TypeOK, DispositionInv, [Next]_vars
  PROVE  FateKept
<1>1. results \in Seq(ResultRow) /\ DOMAIN results = 1..Len(results) /\ Len(results) \in Nat
  BY DEF TypeOK
<1>2. CASE results' = results
  BY <1>2 DEF FateKept
<1>3. ASSUME NEW t \in Task, Prepare(t)
      PROVE  FateKept
  BY <1>1, <1>3 DEF Prepare, FateKept
<1>4. CASE results' = Cleared(results) \/ results' = Unreferenced(results)
  <2> SUFFICES ASSUME NEW i \in DOMAIN results
               PROVE  /\ i \in DOMAIN results' /\ results'[i].work = results[i].work
                      /\ results[i].status \in {"applied", "discarded"} =>
                           results'[i].status = results[i].status
    BY DEF FateKept
  <2>1. PICK row \in ResultRow : row = results[i]
    BY <1>1
  <2>2. \/ results'[i] = [row EXCEPT !.ref = FALSE, !.token = None,
                                     !.status = IF @ = "prepared" THEN "discarded" ELSE @]
        \/ results'[i] = [row EXCEPT !.ref = FALSE]
    BY <1>4, <2>1 DEF Cleared, Unreferenced
  <2>3. i \in DOMAIN results'
    BY <1>4 DEF Cleared, Unreferenced
  <2>4. QED
    BY <2>1, <2>2, <2>3 DEF ResultRow
<1>5. ASSUME NEW t \in Task, Step(t)
      PROVE  FateKept
  <2>1. CASE \/ Reserve(t) \/ Mark(t) \/ MarkApplied(t) \/ ClaimRecovery(t) \/ Offer(t) \/ Keep(t)
             \/ Unref(t) \/ Forget(t) \/ Fail(t)
    BY <2>1, DispositionKeepsFate
  <2>2. CASE \/ Recycle(t) \/ Launch(t) \/ AcquireSlot(t) \/ Restore(t) \/ Edit(t) \/ Finalize(t)
             \/ Vacate(t) \/ Patch(t) \/ Register(t) \/ Check(t) \/ Reconcile(t) \/ Leave(t)
             \/ ResetTree(t) \/ Free(t) \/ \E status \in {"settled", "interrupted"} : Settle(t, status)
    BY <1>2, <2>2
    DEF Recycle, Launch, AcquireSlot, Restore, Edit, Finalize, Vacate, Patch, Register, Check,
        Reconcile, Leave, ResetTree, Free, Settle
  <2>3. QED
    BY <1>3, <1>5, <2>1, <2>2 DEF Step
<1>6. ASSUME NEW t \in Task, NEW p \in Proc, CallMade(t, p)
      PROVE  FateKept
  BY <1>2, <1>6 DEF CallMade, Claim, FindRecyclable, Continue, Apply, Retain, Discard, Sweep
<1>7. CASE Reset \/ (\E p \in Proc : Crash(p)) \/ UserCommits \/ UserReverts \/ UNCHANGED vars
  BY <1>2, <1>4, <1>7 DEF Reset, Crash, UserCommits, UserReverts, vars
<1>8. QED
  BY <1>5, <1>6, <1>7 DEF Next

(* Results are never rewritten, and an applied or discarded one stays so,   *)
(* whoever competes for it, resets the slot, fails or stops.                *)
THEOREM FatesAreFinal == Spec => FateIsFinal
<1>1. TypeOK /\ SlotInv /\ [Next]_vars => [FateKept]_vars
  BY NextKeepsFate DEF SlotInv
<1>2. [FateKept]_vars =>
        [\A i \in DOMAIN results :
           /\ i \in DOMAIN results' /\ results'[i].work = results[i].work
           /\ results[i].status \in {"applied", "discarded"} =>
                results'[i].status = results[i].status]_vars
  BY DEF FateKept
<1>3. QED
  BY <1>1, <1>2, SlotIsInvariant, PTL DEF Spec, FateIsFinal

(* One run that is at work in the slot: neither the slot nor its files go.  *)
AtWork(r) == state[r] = "active" /\ slot.held = r

SlotStays ==
  \A r \in Run :
    AtWork(r) /\ slot'.held # r =>
      \E t \in Task : /\ task[t].run = r /\ task[t].pc \in {"leave", "keep", "free"}
                      /\ task'[t] # task[t]

WorkStays ==
  \A r \in Run :
    AtWork(r) /\ ~(tree.files \subseteq tree'.files) =>
      \E t \in Task : task[t].pc \in {"clear", "rebase"} /\ task'[t] # task[t]

LEMMA MovedOn ==
  ASSUME TypeOK, NEW t \in Task, NEW label \in Steps, Goto(t, label), task[t].pc # label
  PROVE  task'[t] # task[t]
<1>1. Moves(t, label)
  BY GotoMoves
<1>2. QED
  BY <1>1 DEF Moves

(* Nobody takes the slot from a run at work: who takes a slot looks at the  *)
(* lease, in one transaction, and who lets it go disposes of a result of    *)
(* that run.                                                                *)
LEMMA NextKeepsSlot ==
  ASSUME TypeOK, CallsPlaced, [Next]_vars
  PROVE  SlotStays
<1> SUFFICES ASSUME NEW r \in Run, AtWork(r), slot'.held # r
             PROVE  \E t \in Task : /\ task[t].run = r /\ task[t].pc \in {"leave", "keep", "free"}
                                    /\ task'[t] # task[t]
  BY DEF SlotStays
<1>1. slot.held = r /\ r # None /\ LeaseActive(r) /\ slot' # slot
  BY SlotAssumption DEF AtWork, LeaseActive
<1>2. ASSUME NEW t \in Task, Leave(t) \/ Keep(t) \/ Free(t)
      PROVE  task[t].run = r /\ task[t].pc \in {"leave", "keep", "free"} /\ task'[t] # task[t]
  <2>1. task[t].pc \in {"leave", "keep", "free"} /\ Goto(t, "done") /\ "done" \in Steps
    BY <1>2 DEF Leave, Keep, Free, At, Steps
  <2>2. task[t].run = r
    BY <1>1, <1>2 DEF Leave, Keep, Free, LeaveSlot
  <2>3. QED
    BY <2>1, <2>2, MovedOn
<1>3. ASSUME NEW t \in Task, Recycle(t) \/ AcquireSlot(t)
      PROVE  FALSE
  <2>1. CASE Recycle(t)
    BY <1>1, <2>1 DEF Recycle, MayRecycle
  <2>2. CASE AcquireSlot(t)
    <3>1. task[t].run # None
      BY <2>2, SlotAssumption DEF AcquireSlot, At, CallsPlaced
    <3>2. QED
      BY <1>1, <2>2, <3>1 DEF AcquireSlot
  <2>3. QED
    BY <1>3, <2>1, <2>2
<1>4. ASSUME NEW t \in Task,
             \/ Launch(t) \/ Restore(t) \/ Edit(t) \/ Finalize(t) \/ Prepare(t) \/ Vacate(t)
             \/ Reserve(t) \/ Mark(t) \/ Patch(t) \/ MarkApplied(t) \/ Register(t) \/ Check(t)
             \/ ClaimRecovery(t) \/ Offer(t) \/ Reconcile(t) \/ Unref(t) \/ Forget(t) \/ ResetTree(t)
             \/ Fail(t)
             \/ \E status \in {"settled", "interrupted"} : Settle(t, status)
      PROVE  FALSE
  BY <1>1, <1>4
  DEF Launch, Restore, Edit, Finalize, Prepare, Vacate, Reserve, Mark, Patch, MarkApplied, Register,
      Check, ClaimRecovery, Offer, Reconcile, Unref, Forget, ResetTree, Fail, Settle
<1>5. ASSUME NEW t \in Task, NEW p \in Proc, CallMade(t, p)
      PROVE  FALSE
  BY <1>1, <1>5, SlotAssumption
  DEF CallMade, Claim, FindRecyclable, Continue, Apply, Retain, Discard, Sweep
<1>6. CASE Reset \/ (\E p \in Proc : Crash(p)) \/ UserCommits \/ UserReverts \/ UNCHANGED vars
  BY <1>1, <1>6 DEF Reset, MayReset, Crash, UserCommits, UserReverts, vars
<1>7. QED
  BY <1>2, <1>3, <1>4, <1>5, <1>6 DEF Next, Step

(* No edit of a run at work in the slot is lost: who resets or restores the *)
(* tree looks at the lease, or drives that run itself, which is at rest.   *)
LEMMA NextKeepsWork ==
  ASSUME TypeOK, CallsPlaced, OneDriver, [Next]_vars
  PROVE  WorkStays
<1> SUFFICES ASSUME NEW r \in Run, AtWork(r), ~(tree.files \subseteq tree'.files)
             PROVE  \E t \in Task : task[t].pc \in {"clear", "rebase"} /\ task'[t] # task[t]
  BY DEF WorkStays
<1>1. /\ slot.held = r /\ r # None /\ LeaseActive(r) /\ state[r] = "active"
      /\ tree' # tree /\ tree \in [head : Edits, files : Edits]
  BY SlotAssumption DEF AtWork, LeaseActive, TypeOK
<1>2. ASSUME NEW t \in Task, ResetTree(t)
      PROVE  task[t].pc \in {"clear", "rebase"} /\ task'[t] # task[t]
  <2>1. PICK label \in {"forget", "free"} : Goto(t, label) /\ task[t].pc \in {"clear", "rebase"}
    BY <1>2 DEF ResetTree
  <2>2. label \in Steps /\ task[t].pc # label
    BY <2>1 DEF Steps, Disposing
  <2>3. QED
    BY <2>1, <2>2, MovedOn
<1>3. ASSUME NEW t \in Task, Recycle(t)
      PROVE  FALSE
  BY <1>1, <1>3 DEF Recycle, MayRecycle
<1>4. ASSUME NEW t \in Task, Restore(t)
      PROVE  FALSE
  BY <1>1, <1>4 DEF Restore, Restorable, OneDriver
<1>5. ASSUME NEW t \in Task,
             Edit(t) \/ Prepare(t) \/ \E status \in {"settled", "interrupted"} : Settle(t, status)
      PROVE  FALSE
  <2>1. \/ tree' = [tree EXCEPT !.files = @ \cup {t}]
        \/ tree' = [tree EXCEPT !.head = tree.files]
        \/ tree' = tree
    BY <1>5 DEF Edit, Prepare, Settle
  <2>2. tree.files \subseteq tree'.files
    BY <1>1, <2>1
  <2>3. QED
    BY <2>2
<1>6. ASSUME NEW t \in Task,
             \/ Launch(t) \/ AcquireSlot(t) \/ Finalize(t) \/ Vacate(t) \/ Reserve(t) \/ Mark(t)
             \/ Patch(t) \/ MarkApplied(t) \/ Register(t) \/ Check(t) \/ ClaimRecovery(t)
             \/ Offer(t) \/ Reconcile(t) \/ Unref(t) \/ Forget(t) \/ Fail(t) \/ Leave(t) \/ Keep(t)
             \/ Free(t)
      PROVE  FALSE
  BY <1>1, <1>6
  DEF Launch, AcquireSlot, Finalize, Vacate, Reserve, Mark, Patch, MarkApplied, Register, Check,
      ClaimRecovery, Offer, Reconcile, Unref, Forget, Fail, Leave, Keep, Free
<1>7. ASSUME NEW t \in Task, NEW p \in Proc, CallMade(t, p)
      PROVE  FALSE
  BY <1>1, <1>7 DEF CallMade, Claim, FindRecyclable, Continue, Apply, Retain, Discard, Sweep
<1>8. ASSUME NEW p \in Proc, Crash(p)
      PROVE  FALSE
  BY <1>1, <1>8 DEF Crash, MayRecycle, MayReset
<1>9. CASE Reset \/ UserCommits \/ UserReverts \/ UNCHANGED vars
  BY <1>1, <1>9 DEF Reset, MayReset, UserCommits, UserReverts, vars
<1>10. QED
  BY <1>2, <1>3, <1>4, <1>5, <1>6, <1>7, <1>8, <1>9 DEF Next, Step

(* Starts and continuations of other runs, resets and stops never claim or  *)
(* recycle the slot of a run at work.  Only a disposition of its own,       *)
(* earlier result lets it go: one its parent asked for or, of a result      *)
(* without changes, one that a start or a browser began (Sweep).            *)
THEOREM SlotIsKept == Spec => SlotKept
<1>1. TypeOK /\ SlotInv /\ [Next]_vars => [SlotStays]_vars
  BY NextKeepsSlot DEF SlotInv, DispositionInv
<1>2. [SlotStays]_vars =>
        [\A r \in Run :
           state[r] = "active" /\ slot.held = r /\ slot'.held # r =>
             \E t \in Task : /\ task[t].run = r /\ task[t].pc \in {"leave", "keep", "free"}
                             /\ task'[t] # task[t]]_vars
  BY DEF SlotStays, AtWork
<1>3. QED
  BY <1>1, <1>2, SlotIsInvariant, PTL DEF Spec, SlotKept

(* No edit of a run in possession of the slot is lost, except to a          *)
(* disposition that had decided to reset the tree, on behalf of its parent  *)
(* or of a start that swept the slot.                                       *)
THEOREM WorkIsKept == Spec => WorkSurvives
<1>1. TypeOK /\ SlotInv /\ [Next]_vars => [WorkStays]_vars
  BY NextKeepsWork DEF SlotInv, DispositionInv
<1>2. [WorkStays]_vars =>
        [\A r \in Run :
           state[r] = "active" /\ slot.held = r /\ ~(tree.files \subseteq tree'.files) =>
             \E t \in Task : task[t].pc \in {"clear", "rebase"} /\ task'[t] # task[t]]_vars
  BY DEF WorkStays, AtWork
<1>3. QED
  BY <1>1, <1>2, SlotIsInvariant, PTL DEF Spec, WorkSurvives
=============================================================================
