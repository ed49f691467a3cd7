------------------------- MODULE SqliteTransactions -------------------------
(* One connection shared by every caller of the process (src/common/         *)
(* sqlite.ts): operations of the root wait for one another in its queue, a   *)
(* transaction holds the connection from BEGIN until it has ended, and       *)
(* within it the operations of each view wait for one another in a queue of  *)
(* their own, nested transactions among them as savepoints.  Callbacks may   *)
(* call without awaiting, end while calls are under way, and be outlived by  *)
(* code that still has their view.  SQLite is its connection: the committed  *)
(* writes, the writes it sees, and the snapshots of BEGIN and SAVEPOINT.     *)
EXTENDS Naturals, Sequences, FiniteSets, SequencesExt

CONSTANTS Scope,     \* transactions, one per call of transaction()
          Stmt,      \* statements, each one write
          Root,      \* the view of the whole database
          Outside,   \* code that runs in no active transaction
          Closing,   \* the place of close() in the queue
          MaxFaults  \* how many BEGIN, COMMIT and SAVEPOINT commands may fail

ASSUME SqliteAssumption ==
  /\ Root \notin Scope /\ Outside \notin Scope /\ Root # Outside
  /\ Scope \cap Stmt = {} /\ Closing \notin Scope \cup Stmt
  /\ MaxFaults \in Nat

VARIABLES queue,     \* the calls that wait for the root, the running one first
          tail,      \* scope.operationTail: the same within a scope
          scope,     \* how far a transaction is
          within,    \* the view a call belongs to
          failed,    \* the scopes with a rejected statement among their pending
          result,    \* what the promise of a call was settled with
          db, conn,  \* the committed writes and those the connection sees
          saves,     \* the snapshots of the open transaction and savepoints
          closing, closed, faults

sqliteVars == <<queue, tail, scope, within, failed, result, db, conn, saves,
                closing, closed, faults>>

Call == Scope \cup Stmt
Unused == "unused"

SqliteInit ==
  /\ queue = <<>>
  /\ tail = [s \in Scope |-> <<>>]
  /\ scope = [s \in Scope |-> Unused]
  /\ within = [c \in Call |-> Outside]
  /\ failed = {}
  /\ result = [c \in Call |-> "none"]
  /\ db = {} /\ conn = {} /\ saves = <<>>
  /\ closing = FALSE /\ closed = FALSE /\ faults = 0

Open(s) == s \in Scope /\ scope[s] = "open"
Drained(s) == tail[s] = <<>>

(* The rule of views: the view of a transaction works until its callback has *)
(* ended, but not for code inside a transaction nested in it.                *)
MayUse(c, view) ==
  /\ view # Root => Open(view)
  /\ c # Outside /\ view # Root => c = view

MayEnqueue(c) == ~closing /\ ~closed

Unstarted(S) == {c \in S : within[c] = Outside}

Enlist(c, view) ==
  /\ within' = [within EXCEPT ![c] = view]
  /\ IF view = Root THEN queue' = Append(queue, c) /\ UNCHANGED tail
     ELSE tail' = [tail EXCEPT ![view] = Append(@, c)] /\ UNCHANGED queue

(* run, get, all and exec: the root refuses code inside a transaction.       *)
Statement(c, view) ==
  /\ MayUse(c, view)
  /\ view = Root => c = Outside /\ MayEnqueue(c)
  /\ Unstarted(Stmt) # {}
  /\ Enlist(CHOOSE w \in Unstarted(Stmt) : TRUE, view)
  /\ UNCHANGED <<scope, failed, result, db, conn, saves, closing, closed, faults>>

(* transaction(): nested in the transaction whose code calls, if there is    *)
(* one, and a transaction of its own otherwise, whatever view it is called   *)
(* on.                                                                       *)
Transaction(c, view) ==
  /\ MayUse(c, view)
  /\ c = Outside => MayEnqueue(c)
  /\ Unstarted(Scope) # {}
  /\ LET s == CHOOSE t \in Unstarted(Scope) : TRUE IN
       /\ Enlist(s, IF c = Outside THEN Root ELSE c)
       /\ scope' = [scope EXCEPT ![s] = "queued"]
  /\ UNCHANGED <<failed, result, db, conn, saves, closing, closed, faults>>

CallClose ==
  /\ ~closing
  /\ closing' = TRUE
  /\ queue' = Append(queue, Closing)
  /\ UNCHANGED <<tail, scope, within, failed, result, db, conn, saves, closed, faults>>

(* A call is run when those before it, in the queue of its view, are done.   *)
AtTurn(c) ==
  IF within[c] = Root THEN queue # <<>> /\ Head(queue) = c
  ELSE within[c] \in Scope /\ tail[within[c]] # <<>> /\ Head(tail[within[c]]) = c

(* The mistake of passing the turn on only when the call succeeded.          *)
SettleOnSuccess(c, how) ==
  /\ result' = [result EXCEPT ![c] = how]
  /\ CASE how = "error" -> UNCHANGED <<queue, tail>>
       [] how = "ok" /\ within[c] = Root -> queue' = Tail(queue) /\ UNCHANGED tail
       [] OTHER -> tail' = [tail EXCEPT ![within[c]] = Tail(@)] /\ UNCHANGED queue

Settle(c, how) ==
  /\ result' = [result EXCEPT ![c] = how]
  /\ IF within[c] = Root THEN queue' = Tail(queue) /\ UNCHANGED tail
     ELSE tail' = [tail EXCEPT ![within[c]] = Tail(@)] /\ UNCHANGED queue

(* A statement is committed with the transaction around it, or at once.      *)
Run(w) ==
  /\ w \in Stmt /\ AtTurn(w) /\ ~closed
  /\ conn' = conn \cup {w}
  /\ db' = IF saves = <<>> THEN conn' ELSE db
  /\ Settle(w, "ok")
  /\ UNCHANGED <<scope, within, failed, saves, closing, closed, faults>>

RunFails(w) ==
  /\ w \in Stmt /\ AtTurn(w)
  /\ Settle(w, "error")
  /\ failed' = IF within[w] = Root THEN failed ELSE failed \cup {within[w]}
  /\ UNCHANGED <<scope, within, db, conn, saves, closing, closed, faults>>

(* BEGIN of a transaction, SAVEPOINT of a nested one; then its callback runs.*)
Begin(s) ==
  /\ scope[s] = "queued" /\ AtTurn(s)
  /\ saves' = Append(saves, [by |-> s, seen |-> conn])
  /\ scope' = [scope EXCEPT ![s] = "open"]
  /\ UNCHANGED <<queue, tail, within, failed, result, db, conn, closing, closed, faults>>

BeginFails(s) ==
  /\ scope[s] = "queued" /\ AtTurn(s)
  /\ faults < MaxFaults /\ faults' = faults + 1
  /\ scope' = [scope EXCEPT ![s] = "ended"]
  /\ Settle(s, "error")
  /\ UNCHANGED <<within, failed, db, conn, saves, closing, closed>>

(* The callback ends; its view is no longer active.                          *)
Return(s) ==
  /\ Open(s)
  /\ scope' = [scope EXCEPT ![s] = "returned"]
  /\ UNCHANGED <<queue, tail, within, failed, result, db, conn, saves, closing, closed, faults>>

Throw(s) ==
  /\ Open(s)
  /\ scope' = [scope EXCEPT ![s] = "thrown"]
  /\ UNCHANGED <<queue, tail, within, failed, result, db, conn, saves, closing, closed, faults>>

(* COMMIT or RELEASE once the operations of the scope are done and none of   *)
(* its statements failed, also none that the callback had caught.            *)
Commit(s) ==
  /\ scope[s] = "returned" /\ Drained(s) /\ s \notin failed
  /\ saves' = Front(saves)
  /\ db' = IF within[s] = Root THEN conn ELSE db
  /\ scope' = [scope EXCEPT ![s] = "ended"]
  /\ Settle(s, "ok")
  /\ UNCHANGED <<within, failed, conn, closing, closed, faults>>

CommitFails(s) ==
  /\ scope[s] = "returned" /\ Drained(s) /\ s \notin failed
  /\ faults < MaxFaults /\ faults' = faults + 1
  /\ scope' = [scope EXCEPT ![s] = "thrown"]
  /\ UNCHANGED <<queue, tail, within, failed, result, db, conn, saves, closing, closed>>

(* The mistake of releasing a savepoint without rolling back to it.          *)
RollbackReleasing(s) ==
  /\ scope[s] = "thrown" \/ (scope[s] = "returned" /\ s \in failed)
  /\ Drained(s)
  /\ conn' = IF within[s] = Root THEN Last(saves).seen ELSE conn
  /\ saves' = Front(saves)
  /\ scope' = [scope EXCEPT ![s] = "ended"]
  /\ Settle(s, "error")
  /\ UNCHANGED <<within, failed, db, closing, closed, faults>>

(* ROLLBACK, or ROLLBACK TO and RELEASE, which do not fail here.             *)
Rollback(s) ==
  /\ scope[s] = "thrown" \/ (scope[s] = "returned" /\ s \in failed)
  /\ Drained(s)
  /\ conn' = Last(saves).seen
  /\ saves' = Front(saves)
  /\ scope' = [scope EXCEPT ![s] = "ended"]
  /\ Settle(s, "error")
  /\ UNCHANGED <<within, failed, db, closing, closed, faults>>

Closes ==
  /\ queue # <<>> /\ Head(queue) = Closing
  /\ closed' = TRUE
  /\ queue' = Tail(queue)
  /\ UNCHANGED <<tail, scope, within, failed, result, db, conn, saves, closing, faults>>

Caller == {s \in Scope : Open(s)} \cup {Outside}
View == Scope \cup {Root}

SqliteNext ==
  \/ \E c \in Caller, v \in View : Statement(c, v)
  \/ \E c \in Caller, v \in View : Transaction(c, v)
  \/ CallClose
  \/ \E w \in Stmt : Run(w)
  \/ \E w \in Stmt : RunFails(w)
  \/ \E s \in Scope : Begin(s)
  \/ \E s \in Scope : BeginFails(s)
  \/ \E s \in Scope : Return(s)
  \/ \E s \in Scope : Throw(s)
  \/ \E s \in Scope : Commit(s)
  \/ \E s \in Scope : CommitFails(s)
  \/ \E s \in Scope : Rollback(s)
  \/ Closes

(* The driver answers every command and a callback ends, so that something   *)
(* happens as long as anything can; no call is made more than once.          *)
SqliteProgress ==
  \/ \E w \in Stmt : Run(w) \/ RunFails(w)
  \/ \E s \in Scope : Begin(s) \/ Return(s) \/ Throw(s) \/ Commit(s) \/ Rollback(s)
  \/ Closes

SqliteFairness == WF_sqliteVars(SqliteProgress)

SqliteSpec == SqliteInit /\ [][SqliteNext]_sqliteVars /\ SqliteFairness
-----------------------------------------------------------------------------
SqliteTypeOK ==
  /\ queue \in Seq(Call \cup {Closing})
  /\ tail \in [Scope -> Seq(Call)]
  /\ scope \in [Scope -> {Unused, "queued", "open", "returned", "thrown", "ended"}]
  /\ within \in [Call -> View \cup {Outside}]
  /\ failed \subseteq Scope
  /\ result \in [Call -> {"none", "ok", "error"}]
  /\ db \subseteq Stmt /\ conn \subseteq Stmt
  /\ saves \in Seq([by : Scope, seen : SUBSET Stmt])
  /\ closing \in BOOLEAN /\ closed \in BOOLEAN /\ faults \in 0..MaxFaults

(* A call, the view it belongs to, the view that is nested in, and so on:    *)
(* the least set with the call and the view of each transaction in it.       *)
Outwards(calls) == \A d \in calls : within[d] \in Scope => within[d] \in calls

Around(c) == {d \in Call : \A calls \in SUBSET Call :
                             (c \in calls /\ Outwards(calls)) => d \in calls}

(* What is committed are the writes that succeeded, in transactions that     *)
(* succeeded all the way out: a transaction is atomic, a failed one leaves   *)
(* nothing, a failed savepoint takes only its own writes along, and no write *)
(* is lost or kept because another caller's transaction was open meanwhile.  *)
CommittedExactly ==
  \A w \in Stmt : w \in db <=> \A c \in Around(w) : result[c] = "ok"

Unanswered == {c \in Call : within[c] # Outside /\ result[c] = "none"}

(* Every call is answered, also those under way when its callback ended,     *)
(* when the callback threw, and when close was called, which returns then: a *)
(* call is made once, so that none waits for ever if there always comes a    *)
(* moment at which none waits.                                               *)
CallsAnswered ==
  (Unanswered # {} \/ (closing /\ ~closed))
    ~> (Unanswered = {} /\ (closing => closed))
=============================================================================
