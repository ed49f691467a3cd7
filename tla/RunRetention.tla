---------------------------- MODULE RunRetention ----------------------------
(* What a manager keeps of its runs and how the parent hears of them: the    *)
(* registry with its retention order (runs/registry.ts), the budgets of      *)
(* active runs and retained results, the recycling of a workspace            *)
(* (runs/manager.ts, workspaces/setup.ts), and the mailbox that tells the    *)
(* parent of a background run (presentation/mailbox.ts, lifecycle.ts).  Tool *)
(* calls of the parent come one after the other; the user's browser, the     *)
(* children and the microtasks run in between, at every await.  How a single *)
(* operation of a run proceeds is the subject of RunLifecycle.               *)
EXTENDS Naturals, Sequences, FiniteSets, SequencesExt

CONSTANTS AgentRun,    \* public run ids
          Isolated,    \* those that work in a workspace of their own
          NoRun,
          MaxActive, MaxRetained, MaxUpdates,
          MaxUnsaved   \* how many saves may fail

ASSUME RetentionAssumption ==
  /\ Isolated \subseteq AgentRun /\ NoRun \notin AgentRun
  /\ MaxActive \in Nat /\ MaxRetained \in Nat /\ MaxUpdates \in Nat /\ MaxUnsaved \in Nat

VARIABLES registered,    \* the keys of registry.runs
          terminalOrder, \* registry.terminalOrder
          status,        \* the status of a run
          background,    \* the runs in the background
          callback,      \* the runs with a backgroundCallback
          op,            \* where the operation of a run is
          cancelling,    \* how far a cancel of a run is
          prepared,      \* runs with a prepared workspace result
          tool,          \* the run whose foreground call the parent awaits
          parking,       \* the run that is about to be parked
          mailbox,       \* mailbox.pending, oldest first
          scheduled,     \* mailboxFlushScheduled
          parent,        \* "idle" or "busy"
          told,          \* the last status of a run the parent was told of
          unsaved        \* failed saves so far

retentionVars == <<registered, terminalOrder, status, background, callback, op, cancelling,
                   prepared, tool, parking, mailbox, scheduled, parent, told, unsaved>>

mail == <<mailbox, scheduled, parent, told>>

Parked == {"waiting", "interrupted"}

RetentionInit ==
  /\ registered = {} /\ terminalOrder = <<>>
  /\ status = [r \in AgentRun |-> "unused"]
  /\ background = {} /\ callback = {}
  /\ op = [r \in AgentRun |-> "none"]
  /\ cancelling = [r \in AgentRun |-> "no"]
  /\ prepared = {} /\ tool = NoRun /\ parking = NoRun
  /\ mailbox = <<>> /\ scheduled = FALSE /\ parent = "idle"
  /\ told = [r \in AgentRun |-> "nothing"]
  /\ unsaved = 0
-----------------------------------------------------------------------------
(* The mailbox.                                                              *)
Updates == Range(mailbox)

(* The updates of a mailbox at the positions of K, in their order: what is   *)
(* left of a map when the others are deleted.                                *)
Rank(K, i) == Cardinality({k \in K : k <= i})

Kept(box, K) == [n \in 1..Cardinality(K) |-> box[CHOOSE i \in K : Rank(K, i) = n]]

(* queue: a newer update of a run replaces the older, and the oldest goes    *)
(* when there are too many.                                                  *)
Queued(box, r, s) ==
  LET others == {i \in DOMAIN box : box[i].of # r}
      q == Append(Kept(box, others), [of |-> r, status |-> s])
  IN  IF Len(q) > MaxUpdates THEN Tail(q) ELSE q

(* reconcile: what no longer is the status of a registered run is dropped.   *)
Reconciled(box, reg, st) ==
  Kept(box, {i \in DOMAIN box : box[i].of \in reg /\ st[box[i].of] = box[i].status})

(* flush: the parent is told, and a turn of its begins.                      *)
Flush(box) ==
  /\ told' = [r \in AgentRun |->
                IF \E u \in Range(box) : u.of = r
                THEN (CHOOSE u \in Range(box) : u.of = r).status ELSE told[r]]
  /\ mailbox' = <<>>
  /\ parent' = IF box = <<>> THEN "idle" ELSE "busy"

(* Every agent action of the parent ends with a reconciliation.              *)
Reconcile == mailbox' = Reconciled(mailbox, registered', status')

(* A turn of the parent, and its end: what is pending is delivered, and      *)
(* starts the next turn.                                                     *)
ParentTurn ==
  /\ parent = "idle"
  /\ parent' = "busy"
  /\ UNCHANGED <<registered, terminalOrder, status, background, callback, op, cancelling,
                 prepared, tool, parking, mailbox, scheduled, told, unsaved>>

ToolFree == tool = NoRun /\ parking = NoRun
MayCall == parent = "busy" /\ ToolFree

(* The mistake of delivering only when an update arrives.                    *)
ParentSettlesQuietly ==
  /\ MayCall
  /\ parent' = "idle"
  /\ UNCHANGED <<registered, terminalOrder, status, background, callback, op, cancelling,
                 prepared, tool, parking, mailbox, scheduled, told, unsaved>>

ParentSettles ==
  /\ MayCall
  /\ Flush(Reconciled(mailbox, registered, status))
  /\ UNCHANGED <<registered, terminalOrder, status, background, callback, op, cancelling,
                 prepared, tool, parking, scheduled, unsaved>>

FlushTask ==
  /\ scheduled /\ scheduled' = FALSE
  /\ IF parent = "idle" THEN Flush(Reconciled(mailbox, registered, status))
     ELSE UNCHANGED <<mailbox, parent, told>>
  /\ UNCHANGED <<registered, terminalOrder, status, background, callback, op, cancelling,
                 prepared, tool, parking, unsaved>>

(* backgroundUpdate with an update for the parent: it is queued, and         *)
(* delivered by a microtask if the parent is idle and none is scheduled.     *)
Announce(box) ==
  /\ mailbox' = Reconciled(box, registered, status)
  /\ scheduled' = (scheduled \/ parent = "idle")
  /\ UNCHANGED <<parent, told>>
-----------------------------------------------------------------------------
(* Starting, continuing and moving.                                          *)
IsActive(r) == r \in registered /\ status[r] \in {"running"} \cup Parked

MayRegister == Cardinality({r \in AgentRun : IsActive(r)}) < MaxActive

(* The mistake of splicing at the index of an id that is not there: -1.      *)
UnregisteredLast(r) ==
  /\ registered' = registered \ {r}
  /\ terminalOrder' = CASE r \in Range(terminalOrder) -> RemoveFirst(terminalOrder, r)
                        [] terminalOrder # <<>> -> Front(terminalOrder)
                        [] OTHER -> terminalOrder

(* removeRun, up to its first await: no longer registered and, once, no      *)
(* longer retained.                                                          *)
Unregistered(r) ==
  /\ registered' = registered \ {r}
  /\ terminalOrder' = RemoveFirst(terminalOrder, r)

Works(r) ==
  /\ registered' = registered \cup {r}
  /\ status' = [status EXCEPT ![r] = "running"]
  /\ op' = [op EXCEPT ![r] = "works"]
  /\ told' = [told EXCEPT ![r] = "nothing"]

StartBackground(r) ==
  /\ MayCall /\ status[r] = "unused" /\ MayRegister
  /\ Works(r) /\ Reconcile
  /\ background' = background \cup {r} /\ callback' = callback \cup {r}
  /\ UNCHANGED <<terminalOrder, cancelling, prepared, tool, parking, scheduled, parent, unsaved>>

StartForeground(r) ==
  /\ MayCall /\ status[r] = "unused" /\ MayRegister
  /\ Works(r)
  /\ tool' = r
  /\ UNCHANGED <<terminalOrder, background, callback, cancelling, prepared, parking, mailbox,
                 scheduled, parent, unsaved>>

(* continue of a run that is over, once its saves are done: a retained       *)
(* result of a run without a workspace is discarded first, and the run       *)
(* starts again under its old id, in the foreground.                         *)
DiscardRetained(r) ==
  /\ MayCall /\ r \in registered \ Isolated /\ status[r] = "done" /\ op[r] # "saves"
  /\ Unregistered(r)
  /\ callback' = callback \ {r}
  /\ UNCHANGED <<status, background, op, cancelling, prepared, tool, parking, mail, unsaved>>

ContinueOver(r) ==
  /\ MayCall /\ r \notin registered /\ status[r] # "unused" /\ op[r] = "none" /\ MayRegister
  /\ Works(r)
  /\ background' = background \ {r} /\ callback' = callback \ {r}
  /\ cancelling' = [cancelling EXCEPT ![r] = "no"]
  /\ tool' = r
  /\ UNCHANGED <<terminalOrder, prepared, parking, mailbox, scheduled, parent, unsaved>>

(* resume of a waiting or interrupted run, by a tool call or, if it was      *)
(* interrupted, by the user.                                                 *)
Resume(r) ==
  /\ r \in registered /\ status[r] \in Parked /\ op[r] = "none" /\ cancelling[r] = "no"
  /\ Works(r)

ResumeByParent(r) ==
  /\ MayCall
  /\ Resume(r)
  /\ IF r \in background
     THEN callback' = callback \cup {r} /\ Reconcile /\ UNCHANGED tool
     ELSE tool' = r /\ UNCHANGED <<callback, mailbox>>
  /\ UNCHANGED <<terminalOrder, background, cancelling, prepared, parking, scheduled, parent,
                 unsaved>>

ResumeByUser(r) ==
  /\ status[r] = "interrupted"
  /\ Resume(r)
  /\ UNCHANGED <<terminalOrder, background, callback, cancelling, prepared, tool, parking,
                 mailbox, scheduled, parent, unsaved>>

Returns(r) == tool' = IF tool = r THEN NoRun ELSE tool

Movable == {r \in registered \ background : status[r] = "running" /\ op[r] = "works"}

MoveToBackground(r) ==
  /\ Movable = {r}
  /\ background' = background \cup {r} /\ callback' = callback \cup {r}
  /\ Returns(r)
  /\ Announce(mailbox)
  /\ UNCHANGED <<registered, terminalOrder, status, op, cancelling, prepared, parking, unsaved>>
-----------------------------------------------------------------------------
(* The operation of a run, also of one that is no longer registered.         *)

(* The child asks its parent; the question is saved and announced, or the    *)
(* run interrupted.                                                          *)
AsksParent(r) ==
  /\ op[r] = "works" /\ cancelling[r] = "no"
  /\ status' = [status EXCEPT ![r] = "waiting"]
  /\ op' = [op EXCEPT ![r] = "asks"]
  /\ UNCHANGED <<registered, terminalOrder, background, callback, cancelling, prepared, tool,
                 parking, mail, unsaved>>

Emits(r) == r \in callback /\ cancelling[r] = "no"

QuestionSaved(r) ==
  /\ op[r] = "asks"
  /\ op' = [op EXCEPT ![r] = "none"]
  /\ IF Emits(r) THEN Announce(Queued(mailbox, r, "waiting")) ELSE UNCHANGED mail
  /\ Returns(r)
  /\ UNCHANGED <<registered, terminalOrder, status, background, callback, cancelling, prepared,
                 parking, unsaved>>

(* The checkpoint of a question or of an end fails, or the operation is      *)
(* interrupted: nobody is told.                                              *)
Interrupted(r) ==
  /\ op[r] \in {"works", "asks", "saves"}
  /\ unsaved < MaxUnsaved /\ unsaved' = unsaved + 1
  /\ status' = [status EXCEPT ![r] = "interrupted"]
  /\ op' = [op EXCEPT ![r] = "none"]
  /\ Returns(r)
  /\ UNCHANGED <<registered, terminalOrder, background, callback, cancelling, prepared, parking,
                 mail>>

(* The end of a foreground run removes it; that of a background run is saved *)
(* before it is retained.                                                    *)
ForegroundEnds(r) ==
  /\ op[r] = "works" /\ r \notin background
  /\ status' = [status EXCEPT ![r] = "done"]
  /\ op' = [op EXCEPT ![r] = "none"]
  /\ Unregistered(r)
  /\ callback' = callback \ {r}
  /\ prepared' = prepared \cup ({r} \cap Isolated)
  /\ Returns(r)
  /\ UNCHANGED <<background, cancelling, parking, mail, unsaved>>

BackgroundEnds(r) ==
  /\ op[r] = "works" /\ r \in background
  /\ status' = [status EXCEPT ![r] = "done"]
  /\ op' = [op EXCEPT ![r] = "saves"]
  /\ UNCHANGED <<registered, terminalOrder, background, callback, cancelling, prepared, tool,
                 parking, mail, unsaved>>

(* pruneRetainedResults: whatever run the oldest id names is removed.  Its   *)
(* loop never has a second one to remove, since it runs with every retention.*)
Pruned(order) ==
  IF Len(order) <= MaxRetained
  THEN terminalOrder' = order /\ UNCHANGED <<registered, callback>>
  ELSE /\ registered' = registered \ {Head(order)}
       /\ IF Head(order) \in registered
          THEN terminalOrder' = RemoveFirst(Tail(order), Head(order)) /\ callback' = callback \ {Head(order)}
          ELSE terminalOrder' = Tail(order) /\ UNCHANGED callback

RetainTerminal(r) ==
  /\ op[r] = "saves"
  /\ Pruned(Append(terminalOrder, r))
  /\ op' = [op EXCEPT ![r] = "prunes"]
  /\ UNCHANGED <<status, background, cancelling, prepared, tool, parking, mail, unsaved>>

(* trackBackgroundTask: the end is announced, once, unless the run is being  *)
(* canceled or was removed.                                                  *)
Reports(r) ==
  /\ op[r] = "prunes"
  /\ op' = [op EXCEPT ![r] = "none"]
  /\ IF Emits(r) THEN Announce(Queued(mailbox, r, "done")) ELSE UNCHANGED mail
  /\ callback' = callback \ {r}
  /\ UNCHANGED <<registered, terminalOrder, status, background, cancelling, prepared, tool,
                 parking, unsaved>>
-----------------------------------------------------------------------------
(* Collecting, canceling and parking.                                        *)
Collect(r) ==
  /\ MayCall /\ r \in registered \cap background /\ status[r] = "done"
  /\ Unregistered(r) /\ UNCHANGED status
  /\ callback' = callback \ {r}
  /\ prepared' = prepared \cup ({r} \cap Isolated)
  /\ Reconcile
  /\ UNCHANGED <<background, op, cancelling, tool, parking, scheduled, parent, told, unsaved>>

(* cancel, also by the user at any time: the operation is stopped and waited *)
(* for, a run that has not ended by then is ended, and the run is removed.   *)
Cancel(r) ==
  /\ IsActive(r) /\ cancelling[r] = "no"
  /\ cancelling' = [cancelling EXCEPT ![r] = "stops"]
  /\ UNCHANGED <<registered, terminalOrder, status, background, callback, op, prepared, tool,
                 parking, mail, unsaved>>

CancelEnds(r) ==
  /\ cancelling[r] = "stops" /\ op[r] = "none" /\ status[r] \in Parked /\ r \in background
  /\ cancelling' = [cancelling EXCEPT ![r] = "ends"]
  /\ status' = [status EXCEPT ![r] = "done"]
  /\ op' = [op EXCEPT ![r] = "saves"]
  /\ UNCHANGED <<registered, terminalOrder, background, callback, prepared, tool, parking, mail,
                 unsaved>>

CancelRemoves(r) ==
  /\ cancelling[r] # "no" /\ op[r] = "none" /\ r \in registered
  /\ cancelling[r] = "ends" \/ status[r] = "done" \/ r \notin background
  /\ Unregistered(r)
  /\ callback' = callback \ {r}
  /\ status' = [status EXCEPT ![r] = "done"]
  /\ UNCHANGED <<background, op, cancelling, prepared, tool, parking, mail, unsaved>>

(* An isolated start may take the workspace of a settled run: that run is    *)
(* saved as removed and then leaves the registry, but not the retention      *)
(* order.                                                                    *)
Parkable(r) == status[r] \in Parked \/ (status[r] = "done" /\ r \in prepared)

ParkBegins(r) ==
  /\ MayCall /\ r \in registered \cap Isolated /\ Parkable(r)
  /\ parking' = r
  /\ UNCHANGED <<registered, terminalOrder, status, background, callback, op, cancelling,
                 prepared, tool, mail, unsaved>>

ParkEnds(r) ==
  /\ parking = r
  /\ parking' = NoRun
  /\ registered' = registered \ {r}
  /\ UNCHANGED <<terminalOrder, status, background, callback, op, cancelling, prepared, tool,
                 mail, unsaved>>

RetentionNext ==
  \/ ParentTurn
  \/ ParentSettles
  \/ FlushTask
  \/ \E r \in AgentRun : StartBackground(r)
  \/ \E r \in AgentRun : StartForeground(r)
  \/ \E r \in AgentRun : DiscardRetained(r)
  \/ \E r \in AgentRun : ContinueOver(r)
  \/ \E r \in AgentRun : ResumeByParent(r)
  \/ \E r \in AgentRun : ResumeByUser(r)
  \/ \E r \in AgentRun : MoveToBackground(r)
  \/ \E r \in AgentRun : AsksParent(r)
  \/ \E r \in AgentRun : QuestionSaved(r)
  \/ \E r \in AgentRun : Interrupted(r)
  \/ \E r \in AgentRun : ForegroundEnds(r)
  \/ \E r \in AgentRun : BackgroundEnds(r)
  \/ \E r \in AgentRun : RetainTerminal(r)
  \/ \E r \in AgentRun : Reports(r)
  \/ \E r \in AgentRun : Collect(r)
  \/ \E r \in AgentRun : Cancel(r)
  \/ \E r \in AgentRun : CancelEnds(r)
  \/ \E r \in AgentRun : CancelRemoves(r)
  \/ \E r \in AgentRun : ParkBegins(r)
  \/ \E r \in AgentRun : ParkEnds(r)

RetentionSpec == RetentionInit /\ [][RetentionNext]_retentionVars
-----------------------------------------------------------------------------
RetentionTypeOK ==
  /\ registered \subseteq AgentRun /\ background \subseteq AgentRun
  /\ callback \subseteq AgentRun /\ prepared \subseteq Isolated
  /\ terminalOrder \in Seq(AgentRun)
  /\ status \in [AgentRun -> {"unused", "running", "done"} \cup Parked]
  /\ op \in [AgentRun -> {"none", "works", "asks", "saves", "prunes"}]
  /\ cancelling \in [AgentRun -> {"no", "stops", "ends"}]
  /\ tool \in AgentRun \cup {NoRun} /\ parking \in AgentRun \cup {NoRun}
  /\ mailbox \in Seq([of : AgentRun, status : {"waiting", "done"}])
  /\ scheduled \in BOOLEAN /\ parent \in {"idle", "busy"}
  /\ told \in [AgentRun -> {"nothing", "waiting", "done"}]
  /\ unsaved \in 0..MaxUnsaved

(* The parent has been told of every background run that waits for it or has *)
(* a result for it, or an update is pending and on its way: the parent is    *)
(* busy and takes it when it settles, or a microtask delivers it.  Neither a *)
(* reconciliation in the wrong moment nor a later update loses it.           *)
Told ==
  \A r \in registered \cap background :
    (op[r] = "none" /\ status[r] \in {"waiting", "done"} /\ cancelling[r] = "no") =>
      \/ told[r] = status[r]
      \/ [of |-> r, status |-> status[r]] \in Updates /\ (parent = "busy" \/ scheduled)

(* Every result that waits to be collected can be pruned, whatever was       *)
(* collected, continued, canceled or recycled in the meantime: the order     *)
(* names it, and never more runs than the budget allows.                     *)
Accounted ==
  /\ \A r \in registered \cap background :
       (op[r] \in {"none", "prunes"} /\ status[r] = "done") =>
          r \in Range(terminalOrder)
  /\ Len(terminalOrder) <= MaxRetained
=============================================================================
