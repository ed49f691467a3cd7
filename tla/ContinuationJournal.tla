------------------------ MODULE ContinuationJournal ------------------------
(* The durable continuation journal of delegated runs, shared by every Pi   *)
(* process that has the same parent session open:                          *)
(*   src/tools/agent/runs/persistence/{state-writer,lease-ledger,          *)
(*   journal-heads,load}.ts                                                *)
(*                                                                         *)
(* One checkpoint is two IMMEDIATE transactions (reserve, then commit) with *)
(* the append of a marker to the parent transcript inside the second one;  *)
(* the marker is the commit point.  Between any two transactions of one    *)
(* process every other process may run, any lease may expire and any       *)
(* process may stop.  A member of Proc is one operating-system process: it *)
(* starts once, and a restart is another member.                           *)
(*                                                                         *)
(* A snapshot is named by its created_sequence, a lease token by a number; *)
(* 0 stands for the absent row, token or snapshot.                         *)
EXTENDS Integers, Sequences, FiniteSets

CONSTANTS
  Proc,          \* operating-system processes with the session open
  Run,           \* physical runs (runInstanceId)
  NoProc, NoRun, \* no process, no run
  MaxSaves,      \* bound: checkpoint saves started
  MaxAcquires,   \* bound: explicit lease acquisitions requested
  MaxFaults,     \* bound: storage operations that fail
  MaxExpiries    \* bound: leases that reach their expiry unrenewed

ASSUME ConstantsAssumption ==
  /\ NoProc \notin Proc
  /\ NoRun \notin Run
  /\ MaxSaves \in Nat /\ MaxAcquires \in Nat
  /\ MaxFaults \in Nat /\ MaxExpiries \in Nat

VARIABLES
  head,       \* agent_run_continuation_heads: snapshot and pending flag
  lease,      \* agent_run_continuation_leases: token, owner pid, unexpired
  working,    \* agent_run_working_state: the latest progress frame
  snapshots,  \* agent_run_snapshots by created_sequence; of each row, the
              \* head it was written to follow
  marks,      \* the parent transcript: each run's markers, oldest first
  created,    \* runs some process has created
  rolledBack, \* history: runs whose head a load set behind their last marker
  phase,      \* life of each process and of its writer
  seen,       \* last marker of each run in the process's own transcript view
  knows,      \* runs the process loaded or created, hence may save
  belief,     \* AgentRunJournalState: the head this process believes in
  active,     \* ContinuationLeaseLedger.active: token held, 0 for none
  lost,       \* ContinuationLeaseLedger.lost
  save,       \* the save at the front of the writer's queue
  acquiring,  \* pendingAcquisitions: claims requested, not yet run
  releasing,  \* tokens whose DELETE is queued
  saves, acquires, claims, faults, expiries  \* counters of the bounds

vars == <<head, lease, working, snapshots, marks, created, rolledBack,
          phase, seen, knows, belief, active, lost, save, acquiring,
          releasing, saves, acquires, claims, faults, expiries>>

durable == <<head, lease, working, snapshots, marks, rolledBack>>
counters == <<saves, acquires, claims, faults, expiries>>

Unseen == -1          \* no journal entry: this process never looked
NoHead == [snap |-> 0, pending |-> FALSE]
NoLease == [token |-> 0, owner |-> NoProc, live |-> FALSE]
NoFrame == [present |-> FALSE, at |-> 0, base |-> 0, owned |-> TRUE]
SaveAt(pc, r, s, t) == [pc |-> pc, run |-> r, snap |-> s, token |-> t]
NoSave == SaveAt("idle", NoRun, 0, 0)

(* The newest marker of a run in the parent transcript, 0 for none. *)
LastMark(r) == IF marks[r] = <<>> THEN 0 ELSE marks[r][Len(marks[r])]
Marked(r) == {marks[r][i] : i \in 1..Len(marks[r])}

Running == {"loading", "open", "closing", "draining", "closed"}
Alive(p) == phase[p] \in Running

HeadRow == [snap : Nat, pending : BOOLEAN]
LeaseRow == [token : Nat, owner : Proc \cup {NoProc}, live : BOOLEAN]
FrameRow == [present : BOOLEAN, at : Nat, base : Nat \cup {Unseen},
             owned : BOOLEAN]
SaveState == [pc : {"idle", "queued", "reserve", "commit"},
              run : Run \cup {NoRun}, snap : Nat, token : Nat]

TypeOK ==
  /\ head \in [Run -> HeadRow]
  /\ lease \in [Run -> LeaseRow]
  /\ working \in [Run -> FrameRow]
  /\ snapshots \in Seq(Nat)
  /\ marks \in [Run -> Seq(Nat)]
  /\ created \in SUBSET Run
  /\ rolledBack \in SUBSET Run
  /\ phase \in [Proc -> Running \cup {"new", "dead"}]
  /\ seen \in [Proc -> [Run -> Nat]]
  /\ knows \in [Proc -> SUBSET Run]
  /\ belief \in [Proc -> [Run -> Nat \cup {Unseen}]]
  /\ active \in [Proc -> [Run -> Nat]]
  /\ lost \in [Proc -> SUBSET Run]
  /\ save \in [Proc -> SaveState]
  /\ \A p \in Proc : save[p].pc # "idle" => save[p].run \in Run
  /\ acquiring \in [Proc -> SUBSET Run]
  /\ releasing \in [Proc -> [Run -> Nat]]
  /\ saves \in 0..MaxSaves
  /\ acquires \in 0..MaxAcquires
  /\ claims \in Nat
  /\ faults \in 0..MaxFaults
  /\ expiries \in 0..MaxExpiries

Init ==
  /\ head = [r \in Run |-> NoHead]
  /\ lease = [r \in Run |-> NoLease]
  /\ working = [r \in Run |-> NoFrame]
  /\ snapshots = <<>>
  /\ marks = [r \in Run |-> <<>>]
  /\ created = {}
  /\ rolledBack = {}
  /\ phase = [p \in Proc |-> "new"]
  /\ seen = [p \in Proc |-> [r \in Run |-> 0]]
  /\ knows = [p \in Proc |-> {}]
  /\ belief = [p \in Proc |-> [r \in Run |-> Unseen]]
  /\ active = [p \in Proc |-> [r \in Run |-> 0]]
  /\ lost = [p \in Proc |-> {}]
  /\ save = [p \in Proc |-> NoSave]
  /\ acquiring = [p \in Proc |-> {}]
  /\ releasing = [p \in Proc |-> [r \in Run |-> 0]]
  /\ saves = 0 /\ acquires = 0 /\ claims = 0 /\ faults = 0 /\ expiries = 0

-----------------------------------------------------------------------------
(* Opening the session and loading the journal *)

(* The session manager reads the transcript file once, when it opens it;   *)
(* from then on the process sees its own appends only.                     *)
OpenSession(p) ==
  /\ phase[p] = "new"
  /\ phase' = [phase EXCEPT ![p] = "loading"]
  /\ seen' = [seen EXCEPT ![p] = [r \in Run |-> LastMark(r)]]
  /\ UNCHANGED <<durable, created, knows, belief, active, lost, save,
                 acquiring, releasing, counters>>

(* Mistake: an abandoned reservation is never settled by a load. *)
SupersedesNewerOnly(p, r) == seen[p][r] # 0 /\ seen[p][r] > head[r].snap

(* The heads row a load moves to its own last marker: an older row, or a   *)
(* reservation no unexpired lease protects.  The owner's pid plays no part.*)
Supersedes(p, r) ==
  /\ seen[p][r] # 0
  /\ \/ seen[p][r] > head[r].snap
     \/ head[r].pending /\ ~lease[r].live

(* loadAgentRunPersistence: initialise the heads rows from the transcript   *)
(* view, then build a fresh writer that believes in that view.             *)
InitializeHeads(p) ==
  /\ phase[p] = "loading"
  /\ phase' = [phase EXCEPT ![p] = "open"]
  /\ head' = [r \in Run |-> IF Supersedes(p, r)
                              THEN [snap |-> seen[p][r], pending |-> FALSE]
                              ELSE head[r]]
  /\ rolledBack' = rolledBack \cup
       {r \in Run : Supersedes(p, r) /\ seen[p][r] # LastMark(r)}
  /\ knows' = [knows EXCEPT ![p] = {r \in Run : seen[p][r] # 0}]
  /\ belief' = [belief EXCEPT ![p] =
                  [r \in Run |-> IF seen[p][r] = 0 THEN Unseen
                                                   ELSE seen[p][r]]]
  /\ lost' = [lost EXCEPT ![p] = {}]
  /\ UNCHANGED <<lease, working, snapshots, marks, created, seen, active,
                 save, acquiring, releasing, counters>>

(* The manager starts a run of its own under a fresh runInstanceId. *)
CreateRun(p, r) ==
  /\ phase[p] = "open"
  /\ r \notin created
  /\ created' = created \cup {r}
  /\ knows' = [knows EXCEPT ![p] = @ \cup {r}]
  /\ UNCHANGED <<durable, phase, seen, belief, active, lost, save, acquiring,
                 releasing, counters>>

-----------------------------------------------------------------------------
(* Leases *)

(* heldLeaseUntil: an unexpired row blocks a claim unless its pid is dead. *)
Held(r) == lease[r].live /\ phase[lease[r].owner] # "dead"

(* UPDATE lease_until of a run's row, or time passing over it. *)
SetExpiry(r, live) ==
  [lease EXCEPT ![r] = [token |-> lease[r].token, owner |-> lease[r].owner,
                        live |-> live]]

(* Mistake: the head is not compared with the one this process believes in.*)
VerifiedAlways(p, r) == TRUE

(* AgentRunJournalState.verify, and the belief it leaves behind. *)
Verified(p, r) == belief[p][r] \in {Unseen, head[r].snap}
Adopt(p, r) ==
  belief' = [belief EXCEPT ![p][r] = IF @ = Unseen THEN head[r].snap ELSE @]

(* Mistake: a lease is claimed without verifying the head first. *)
ClaimableUnverified(p, r) == ~Held(r) /\ releasing[p][r] = 0

(* claimLease can succeed; a claim queued behind a DELETE waits for it.    *)
Claimable(p, r) == Verified(p, r) /\ ~Held(r) /\ releasing[p][r] = 0

(* claimLease: take the row over under a fresh token and watch it. *)
Claim(p, r) ==
  /\ Claimable(p, r)
  /\ claims' = claims + 1
  /\ lease' = [lease EXCEPT ![r] = [token |-> claims + 1, owner |-> p,
                                    live |-> TRUE]]
  /\ active' = [active EXCEPT ![p][r] = claims + 1]
  /\ Adopt(p, r)

(* A claim the transaction rejects: a stale head, or a lease held by a      *)
(* process that is not known to be dead.  A verified head stays adopted.   *)
ClaimRefused(p, r) ==
  /\ releasing[p][r] = 0
  /\ ~Claimable(p, r)
  /\ IF Verified(p, r) THEN Adopt(p, r) ELSE UNCHANGED belief

(* The manager holds the lease, as opposed to the save in progress. *)
ExplicitlyHeld(p, r) == active[p][r] # 0 /\ active[p][r] # save[p].token

(* acquireContinuationLease, up to the queued claim transaction. *)
AcquireRequest(p, r) ==
  /\ phase[p] = "open"
  /\ r \in knows[p] \ (lost[p] \cup acquiring[p])
  /\ ~ExplicitlyHeld(p, r)
  /\ acquires < MaxAcquires
  /\ acquires' = acquires + 1
  /\ acquiring' = [acquiring EXCEPT ![p] = @ \cup {r}]
  /\ UNCHANGED <<durable, created, phase, seen, knows, belief, active, lost,
                 save, releasing, saves, claims, faults, expiries>>

AcquireClaim(p, r) ==
  /\ r \in acquiring[p]
  /\ Claim(p, r)
  /\ acquiring' = [acquiring EXCEPT ![p] = @ \ {r}]
  /\ UNCHANGED <<head, working, snapshots, marks, rolledBack, created,
                 phase, seen, knows, lost, save, releasing, saves, acquires,
                 faults, expiries>>

AcquireRefused(p, r) ==
  /\ r \in acquiring[p]
  /\ ClaimRefused(p, r)
  /\ acquiring' = [acquiring EXCEPT ![p] = @ \ {r}]
  /\ UNCHANGED <<durable, created, phase, seen, knows, active, lost, save,
                 releasing, counters>>

(* ContinuationLeaseLedger.markLost for the token the ledger holds. *)
MarkLost(p, r) ==
  /\ active' = [active EXCEPT ![p][r] = 0]
  /\ lost' = [lost EXCEPT ![p] = @ \cup {r}]

(* The renewal timer.  A row under another token means the lease is gone.  *)
Renew(p, r) ==
  /\ active[p][r] # 0
  /\ \/ /\ lease[r].token = active[p][r]
        /\ lease' = SetExpiry(r, TRUE)
        /\ UNCHANGED <<active, lost>>
     \/ /\ lease[r].token # active[p][r]
        /\ MarkLost(p, r)
        /\ UNCHANGED lease
  /\ UNCHANGED <<head, working, snapshots, marks, rolledBack, created,
                 phase, seen, knows, belief, save, acquiring, releasing,
                 counters>>

(* A renewal that fails for any reason counts as a loss; the row stays. *)
RenewFails(p, r) ==
  /\ active[p][r] # 0
  /\ faults < MaxFaults
  /\ faults' = faults + 1
  /\ MarkLost(p, r)
  /\ UNCHANGED <<durable, created, phase, seen, knows, belief, save,
                 acquiring, releasing, saves, acquires, claims, expiries>>

(* The lease reaches lease_until: its owner is dead, or its timers stalled.*)
Expire(r) ==
  /\ lease[r].live
  /\ expiries < MaxExpiries
  /\ expiries' = expiries + 1
  /\ lease' = SetExpiry(r, FALSE)
  /\ UNCHANGED <<head, working, snapshots, marks, rolledBack, created,
                 phase, seen, knows, belief, active, lost, save, acquiring,
                 releasing, saves, acquires, claims, faults>>

(* The manager releases its lease: the claim goes at once, the row when the *)
(* queued DELETE runs.                                                     *)
Release(p, r) ==
  /\ phase[p] \in {"open", "closing"}
  /\ ExplicitlyHeld(p, r)
  /\ active' = [active EXCEPT ![p][r] = 0]
  /\ releasing' = [releasing EXCEPT ![p][r] = active[p][r]]
  /\ UNCHANGED <<durable, created, phase, seen, knows, belief, lost, save,
                 acquiring, counters>>

ReleaseRow(p, r) ==
  /\ releasing[p][r] # 0
  /\ releasing' = [releasing EXCEPT ![p][r] = 0]
  /\ lease' = IF lease[r].token = releasing[p][r]
                THEN [lease EXCEPT ![r] = NoLease] ELSE lease
  /\ UNCHANGED <<head, working, snapshots, marks, rolledBack, created,
                 phase, seen, knows, belief, active, lost, save, acquiring,
                 counters>>

ReleaseFails(p, r) ==
  /\ releasing[p][r] # 0
  /\ faults < MaxFaults
  /\ faults' = faults + 1
  /\ releasing' = [releasing EXCEPT ![p][r] = 0]
  /\ UNCHANGED <<durable, created, phase, seen, knows, belief, active, lost,
                 save, acquiring, saves, acquires, claims, expiries>>

-----------------------------------------------------------------------------
(* Saves *)

(* Mistake: a record without a run identity is queued all the same. *)
SaveRequestWithoutRun(p, r) ==
  /\ phase[p] = "open"
  /\ save[p].pc = "idle"
  /\ saves < MaxSaves
  /\ saves' = saves + 1
  /\ save' = [save EXCEPT ![p] = SaveAt("queued", NoRun, 0, 0)]
  /\ UNCHANGED <<durable, created, phase, seen, knows, belief, active, lost,
                 acquiring, releasing, acquires, claims, faults, expiries>>

(* save(): accepted only before close() starts, then queued. *)
SaveRequest(p, r) ==
  /\ phase[p] = "open"
  /\ save[p].pc = "idle"
  /\ r \in knows[p]
  /\ saves < MaxSaves
  /\ saves' = saves + 1
  /\ save' = [save EXCEPT ![p] = SaveAt("queued", r, 0, 0)]
  /\ UNCHANGED <<durable, created, phase, seen, knows, belief, active, lost,
                 acquiring, releasing, acquires, claims, faults, expiries>>

(* acquireLeaseForSave: keep the lease this process has, or claim one for   *)
(* the duration of the save, even while the writer is closing.             *)
SaveUnderHeldLease(p) ==
  /\ save[p].pc = "queued"
  /\ active[p][save[p].run] # 0
  /\ save' = [save EXCEPT ![p] = SaveAt("reserve", save[p].run, 0, 0)]
  /\ UNCHANGED <<durable, created, phase, seen, knows, belief, active, lost,
                 acquiring, releasing, counters>>

SaveClaim(p) ==
  /\ save[p].pc = "queued"
  /\ active[p][save[p].run] = 0
  /\ save[p].run \notin lost[p]
  /\ Claim(p, save[p].run)
  /\ save' = [save EXCEPT ![p] = SaveAt("reserve", save[p].run, 0, claims + 1)]
  /\ UNCHANGED <<head, working, snapshots, marks, rolledBack, created,
                 phase, seen, knows, lost, acquiring, releasing, saves,
                 acquires, faults, expiries>>

SaveClaimRefused(p) ==
  /\ save[p].pc = "queued"
  /\ active[p][save[p].run] = 0
  /\ \/ save[p].run \in lost[p] /\ UNCHANGED belief
     \/ save[p].run \notin lost[p] /\ ClaimRefused(p, save[p].run)
  /\ save' = [save EXCEPT ![p] = NoSave]
  /\ UNCHANGED <<durable, created, phase, seen, knows, active, lost,
                 acquiring, releasing, counters>>

(* The end of persistQueued: the automatic lease, if this save claimed one  *)
(* and the ledger still holds it, is released as a manager's would be.     *)
EndSave(p) ==
  LET r == save[p].run
      auto == save[p].token # 0 /\ active[p][r] = save[p].token
  IN /\ save' = [save EXCEPT ![p] = NoSave]
     /\ active' = IF auto THEN [active EXCEPT ![p][r] = 0] ELSE active
     /\ releasing' = IF auto
                       THEN [releasing EXCEPT ![p][r] = save[p].token]
                       ELSE releasing

(* EndSave after the failed step took the claim away from the ledger. *)
EndSaveLost(p) ==
  /\ save' = [save EXCEPT ![p] = NoSave]
  /\ MarkLost(p, save[p].run)
  /\ UNCHANGED releasing

(* verifyLeaseForReserve: an unexpired row must carry this ledger's token;  *)
(* an expired or absent one may be ignored only by a ledger without claim. *)
MayReserve(p, r) ==
  IF lease[r].live THEN active[p][r] # 0 /\ lease[r].token = active[p][r]
                   ELSE active[p][r] = 0

(* Mistake: the head is written settled, before any marker exists. *)
ReserveSettled(p) ==
  LET r == save[p].run
      s == Len(snapshots) + 1
  IN /\ save[p].pc = "reserve" /\ Verified(p, r) /\ MayReserve(p, r)
     /\ Len(snapshots) < MaxSaves
     /\ snapshots' = Append(snapshots, head[r].snap)
     /\ head' = [head EXCEPT ![r] = [snap |-> s, pending |-> FALSE]]
     /\ save' = [save EXCEPT ![p] = SaveAt("commit", r, s, save[p].token)]
     /\ Adopt(p, r)
     /\ UNCHANGED <<lease, working, marks, rolledBack, created, phase, seen,
                    knows, active, lost, acquiring, releasing, counters>>

(* First transaction: the snapshot row, and the head reserved for it. *)
Reserve(p) ==
  LET r == save[p].run
      s == Len(snapshots) + 1
  IN /\ save[p].pc = "reserve"
     /\ Verified(p, r)
     /\ MayReserve(p, r)
     /\ Len(snapshots) < MaxSaves
     /\ snapshots' = Append(snapshots, head[r].snap)
     /\ head' = [head EXCEPT ![r] = [snap |-> s, pending |-> TRUE]]
     /\ lease' = IF lease[r].live THEN lease
                                  ELSE [lease EXCEPT ![r] = NoLease]
     /\ Adopt(p, r)
     /\ save' = [save EXCEPT ![p] = SaveAt("commit", r, s, save[p].token)]
     /\ UNCHANGED <<working, marks, rolledBack, created, phase, seen, knows,
                    active, lost, acquiring, releasing, counters>>

(* The transaction throws and rolls back: the head moved, the lease is      *)
(* another's, or the claim outlived its row and is given up for good.      *)
ReserveRefused(p) ==
  LET r == save[p].run
      expired == Verified(p, r) /\ ~lease[r].live /\ active[p][r] # 0
  IN /\ save[p].pc = "reserve"
     /\ ~(Verified(p, r) /\ MayReserve(p, r))
     /\ IF Verified(p, r) THEN Adopt(p, r) ELSE UNCHANGED belief
     /\ IF expired THEN EndSaveLost(p) ELSE EndSave(p) /\ UNCHANGED lost
     /\ UNCHANGED <<durable, created, phase, seen, knows, acquiring, counters>>

(* Mistake: the reservation is not verified before the marker. *)
MayCommitUnverified(p, r) ==
  active[p][r] # 0 /\ lease[r].token = active[p][r]

(* renewLeaseForCommit and verifyReservation both hold. *)
MayCommit(p, r) ==
  /\ active[p][r] # 0
  /\ lease[r].token = active[p][r]
  /\ head[r] = [snap |-> save[p].snap, pending |-> TRUE]

(* appendSnapshotMarker, the commit point: the transcript, this process's   *)
(* view of it, and the head it believes in from now on.                    *)
AppendMarker(p, r) ==
  /\ marks' = [marks EXCEPT ![r] = Append(@, save[p].snap)]
  /\ seen' = [seen EXCEPT ![p][r] = save[p].snap]
  /\ belief' = [belief EXCEPT ![p][r] = save[p].snap]

(* Second transaction, run to the end. *)
Commit(p) ==
  LET r == save[p].run
  IN /\ save[p].pc = "commit"
     /\ MayCommit(p, r)
     /\ AppendMarker(p, r)
     /\ head' = [head EXCEPT ![r] = [snap |-> save[p].snap, pending |-> FALSE]]
     /\ lease' = SetExpiry(r, TRUE)
     /\ working' = [working EXCEPT ![r] = NoFrame]
     /\ EndSave(p)
     /\ UNCHANGED <<snapshots, rolledBack, created, phase, knows, lost,
                    acquiring, counters>>

(* The marker is appended and a later write of the transaction fails: the   *)
(* rows roll back, the save still counts as committed.                     *)
CommitFailsAfterMarker(p) ==
  LET r == save[p].run
  IN /\ save[p].pc = "commit"
     /\ MayCommit(p, r)
     /\ faults < MaxFaults
     /\ faults' = faults + 1
     /\ AppendMarker(p, r)
     /\ EndSave(p)
     /\ UNCHANGED <<head, lease, working, snapshots, rolledBack, created,
                    phase, knows, lost, acquiring, saves, acquires, claims,
                    expiries>>

(* The transaction throws before the marker: the reservation stays behind. *)
CommitRefused(p) ==
  LET r == save[p].run
      gone == active[p][r] # 0 /\ lease[r].token # active[p][r]
  IN /\ save[p].pc = "commit"
     /\ ~MayCommit(p, r)
     /\ IF gone THEN EndSaveLost(p) ELSE EndSave(p) /\ UNCHANGED lost
     /\ UNCHANGED <<durable, created, phase, seen, knows, belief, acquiring,
                    counters>>

(* A storage error, or a marker the session would not append, ends the save *)
(* at whichever transaction it was in.                                     *)
SaveFails(p) ==
  /\ save[p].pc \in {"reserve", "commit"}
  /\ faults < MaxFaults
  /\ faults' = faults + 1
  /\ EndSave(p)
  /\ UNCHANGED <<durable, created, phase, seen, knows, belief, lost,
                 acquiring, saves, acquires, claims, expiries>>

(* Mistake: a frame is stored without the ledger's claim. *)
PersistProgressUnclaimed(p, r) ==
  /\ phase[p] \in {"open", "closing"}
  /\ save[p].pc = "idle"
  /\ r \in knows[p]
  /\ working' = [working EXCEPT ![r] =
       [present |-> TRUE, at |-> Len(snapshots), base |-> belief[p][r],
        owned |-> lease[r].token = active[p][r]]]
  /\ UNCHANGED <<head, lease, snapshots, marks, rolledBack, created,
                 phase, seen, knows, belief, active, lost, save, acquiring,
                 releasing, counters>>

(* persistProgress: a frame needs the ledger's claim, and nothing else. *)
PersistProgress(p, r) ==
  /\ phase[p] \in {"open", "closing"}
  /\ save[p].pc = "idle"
  /\ active[p][r] # 0
  /\ working' = [working EXCEPT ![r] =
       [present |-> TRUE, at |-> Len(snapshots), base |-> belief[p][r],
        owned |-> lease[r].token = active[p][r]]]
  /\ UNCHANGED <<head, lease, snapshots, marks, rolledBack, created,
                 phase, seen, knows, belief, active, lost, save, acquiring,
                 releasing, counters>>

-----------------------------------------------------------------------------
(* Closing, reloading and stopping *)

CloseRequest(p) ==
  /\ phase[p] = "open"
  /\ phase' = [phase EXCEPT ![p] = "closing"]
  /\ UNCHANGED <<durable, created, seen, knows, belief, active, lost, save,
                 acquiring, releasing, counters>>

(* Mistake: close() does not wait for the claims in flight. *)
CloseReleaseEarly(p) ==
  /\ phase[p] = "closing"
  /\ save[p].pc = "idle"
  /\ phase' = [phase EXCEPT ![p] = "draining"]
  /\ releasing' = [releasing EXCEPT ![p] =
       [r \in Run |-> IF active[p][r] # 0 THEN active[p][r] ELSE @[r]]]
  /\ active' = [active EXCEPT ![p] = [r \in Run |-> 0]]
  /\ UNCHANGED <<durable, created, seen, knows, belief, lost, save, acquiring,
                 counters>>

(* Mistake: close() waits for the holders to release their leases. *)
CloseReleaseByHolders(p) ==
  /\ phase[p] = "closing"
  /\ save[p].pc = "idle"
  /\ acquiring[p] = {}
  /\ \A r \in Run : active[p][r] = 0
  /\ phase' = [phase EXCEPT ![p] = "draining"]
  /\ UNCHANGED <<durable, created, seen, knows, belief, active, lost, save,
                 acquiring, releasing, counters>>

(* drainAndClose: the queue and the pending acquisitions first, then every  *)
(* lease the ledger still holds.                                           *)
CloseReleaseAll(p) ==
  /\ phase[p] = "closing"
  /\ save[p].pc = "idle"
  /\ acquiring[p] = {}
  /\ phase' = [phase EXCEPT ![p] = "draining"]
  /\ releasing' = [releasing EXCEPT ![p] =
       [r \in Run |-> IF active[p][r] # 0 THEN active[p][r] ELSE @[r]]]
  /\ active' = [active EXCEPT ![p] = [r \in Run |-> 0]]
  /\ UNCHANGED <<durable, created, seen, knows, belief, lost, save, acquiring,
                 counters>>

CloseDone(p) ==
  /\ phase[p] = "draining"
  /\ \A r \in Run : releasing[p][r] = 0
  /\ phase' = [phase EXCEPT ![p] = "closed"]
  /\ UNCHANGED <<durable, created, seen, knows, belief, active, lost, save,
                 acquiring, releasing, counters>>

(* session_tree: the same process loads again from the view it already has.*)
Reload(p) ==
  /\ phase[p] = "closed"
  /\ phase' = [phase EXCEPT ![p] = "loading"]
  /\ UNCHANGED <<durable, created, seen, knows, belief, active, lost, save,
                 acquiring, releasing, counters>>

(* The process exits or is killed: only what is durable remains. *)
Stop(p) ==
  /\ phase' = [phase EXCEPT ![p] = "dead"]
  /\ seen' = [seen EXCEPT ![p] = [r \in Run |-> 0]]
  /\ knows' = [knows EXCEPT ![p] = {}]
  /\ belief' = [belief EXCEPT ![p] = [r \in Run |-> Unseen]]
  /\ active' = [active EXCEPT ![p] = [r \in Run |-> 0]]
  /\ lost' = [lost EXCEPT ![p] = {}]
  /\ save' = [save EXCEPT ![p] = NoSave]
  /\ acquiring' = [acquiring EXCEPT ![p] = {}]
  /\ releasing' = [releasing EXCEPT ![p] = [r \in Run |-> 0]]

Crash(p) ==
  /\ Alive(p)
  /\ Stop(p)
  /\ UNCHANGED <<durable, created, counters>>

(* It stops inside the second transaction, the marker on disk already. *)
CrashAfterMarker(p) ==
  LET r == save[p].run
  IN /\ save[p].pc = "commit"
     /\ MayCommit(p, r)
     /\ marks' = [marks EXCEPT ![r] = Append(@, save[p].snap)]
     /\ Stop(p)
     /\ UNCHANGED <<head, lease, working, snapshots, rolledBack, created,
                    counters>>

-----------------------------------------------------------------------------
LeaseStep(p, r) ==
  \/ AcquireRequest(p, r) \/ AcquireClaim(p, r) \/ AcquireRefused(p, r)
  \/ Renew(p, r) \/ RenewFails(p, r)
  \/ Release(p, r) \/ ReleaseRow(p, r) \/ ReleaseFails(p, r)

SaveStep(p) ==
  \/ SaveUnderHeldLease(p) \/ SaveClaim(p) \/ SaveClaimRefused(p)
  \/ Reserve(p) \/ ReserveRefused(p)
  \/ Commit(p) \/ CommitFailsAfterMarker(p) \/ CommitRefused(p) \/ SaveFails(p)

SessionStep(p) ==
  \/ OpenSession(p) \/ InitializeHeads(p)
  \/ CloseRequest(p) \/ CloseReleaseAll(p) \/ CloseDone(p) \/ Reload(p)
  \/ Crash(p) \/ CrashAfterMarker(p)

Next ==
  \/ \E p \in Proc : SessionStep(p) \/ SaveStep(p)
  \/ \E p \in Proc, r \in Run :
       LeaseStep(p, r) \/ CreateRun(p, r) \/ SaveRequest(p, r)
       \/ PersistProgress(p, r)
  \/ \E r \in Run : Expire(r)

Spec == Init /\ [][Next]_vars

(* Queued database work runs and the event loop goes on: the steps a        *)
(* process takes by itself once requested.  Requests, progress frames,     *)
(* timers, crashes and time are not assumed to happen.                     *)
OwnStep(p) ==
  \/ SaveStep(p) \/ CloseReleaseAll(p) \/ CloseDone(p)
  \/ \E r \in Run : AcquireClaim(p, r) \/ AcquireRefused(p, r) \/ ReleaseRow(p, r)

FairSpec == Spec /\ \A p \in Proc : WF_vars(OwnStep(p))
-----------------------------------------------------------------------------
(* Correctness *)

(* The markers of r each follow the one before: every checkpoint was        *)
(* written to continue the checkpoint its predecessor in the transcript is.*)
Linear(r) ==
  \A i \in 1..Len(marks[r]) :
    snapshots[marks[r][i]] = IF i = 1 THEN 0 ELSE marks[r][i - 1]

(* journal-heads.ts: a save proves that it writes the next checkpoint of    *)
(* the run it read, whatever other processes, expiries and crashes do.     *)
LinearHistory == \A r \in Run : Linear(r)

(* The only way to fork a run is a load that settles an abandoned           *)
(* reservation from a transcript view lacking the run's last marker.       *)
LinearUnlessRolledBack == \A r \in Run \ rolledBack : Linear(r)

(* Transcript order is reserve order: "the last marker wins" (load.ts) and  *)
(* "the larger created_sequence wins" (initializeAgentRunContinuationHeads) *)
(* never disagree, crashes between the two transactions included.          *)
MarkersInReserveOrder ==
  \A r \in Run : \A i, j \in 1..Len(marks[r]) :
    i < j => marks[r][i] < marks[r][j]

(* A settled head names a checkpoint whose marker is in the transcript, and *)
(* the last one unless a load rolled the run back; a pending head that is  *)
(* not yet in the transcript was reserved to follow the last marker.       *)
HeadFollowsTranscript ==
  \A r \in Run :
    /\ ~head[r].pending => head[r].snap \in Marked(r) \cup {0}
    /\ r \notin rolledBack =>
         \/ head[r].snap = LastMark(r)
         \/ /\ head[r].pending
            /\ head[r].snap \notin Marked(r)
            /\ snapshots[head[r].snap] = LastMark(r)

(* Whoever's token is in the lease row believes in the run's last marker:   *)
(* no process can own a run and be behind its transcript.                  *)
OwnerKnowsHead ==
  \A p \in Proc, r \in Run \ rolledBack :
    active[p][r] # 0 /\ lease[r].token = active[p][r]
      => belief[p][r] = LastMark(r)

(* The loader's overlay (load.ts, overlayWorkingState) moves a restored run *)
(* to a frame newer than its checkpoint.  A frame written by the row's     *)
(* owner that qualifies was written on top of that very checkpoint, also   *)
(* when the commit that should have cleared it rolled back.                *)
FrameContinuesHead ==
  \A r \in Run \ rolledBack :
    working[r].present /\ working[r].owned /\ LastMark(r) # 0
      /\ working[r].at >= LastMark(r)
        => working[r].base = LastMark(r)

(* A closed writer leaves no unexpired lease behind to block the others,    *)
(* whatever claims were in flight when it closed, unless storage failed.   *)
ClosedHoldsNoLease ==
  \A p \in Proc, r \in Run :
    phase[p] = "closed" /\ lease[r].owner = p /\ lease[r].live => faults > 0

(* A load leaves each run it knows at a head it can continue, unless an     *)
(* unexpired lease protects the reservation or the run's transcript has    *)
(* markers the process cannot see.                                         *)
LoadAdoptsHead ==
  [][\A p \in Proc, r \in Run :
       InitializeHeads(p) /\ seen[p][r] # 0 /\ seen[p][r] = LastMark(r)
         /\ ~lease[r].live
           => belief'[p][r] = head'[r].snap]_vars

(* The inductive invariant behind LinearUnlessRolledBack, in named parts. *)
(* Snapshot rows exist for everything that names one, and a row follows an *)
(* older row.                                                              *)
RowsExist ==
  /\ \A s \in 1..Len(snapshots) : snapshots[s] < s
  /\ \A r \in Run : head[r].snap <= Len(snapshots)
  /\ \A r \in Run : Marked(r) \subseteq 1..Len(snapshots)

(* A reservation is newer than every marker until its own is appended. *)
PendingAhead ==
  \A r \in Run : head[r].pending =>
    /\ head[r].snap # 0
    /\ head[r].snap \notin Marked(r) => \A s \in Marked(r) : s < head[r].snap

(* A process believes in nothing but markers it has read or written. *)
BeliefsMarked ==
  \A p \in Proc, r \in Run :
    /\ seen[p][r] \in Marked(r) \cup {0}
    /\ belief[p][r] \in Marked(r) \cup {0, Unseen}

(* Two saves never hold the same reservation, and none is marked yet. *)
ReservationsDistinct ==
  \A p \in Proc : save[p].pc = "commit" =>
    /\ save[p].snap \in 1..Len(snapshots)
    /\ \A r \in Run : save[p].snap \notin Marked(r)
    /\ \A q \in Proc \ {p} : save[q].pc = "commit" => save[q].snap # save[p].snap

(* Only the creator of a run ever takes its first look at an empty row. *)
FirstLookIsCreators ==
  /\ \A p \in Proc : \A r \in knows[p] :
       /\ r \in created
       /\ belief[p][r] = Unseen =>
            /\ head[r] = NoHead /\ marks[r] = <<>>
            /\ \A q \in Proc \ {p} : r \notin knows[q]
  /\ \A r \in Run \ created : head[r] = NoHead /\ marks[r] = <<>>

(* Work in flight is for known runs, and only while the writer accepts it. *)
WorkIsKnown ==
  \A p \in Proc :
    /\ save[p].pc # "idle" => save[p].run \in knows[p]
    /\ acquiring[p] \subseteq knows[p]
    /\ phase[p] \notin {"open", "closing"} =>
         save[p].pc = "idle" /\ acquiring[p] = {}

JournalInv ==
  /\ RowsExist
  /\ PendingAhead
  /\ BeliefsMarked
  /\ ReservationsDistinct
  /\ FirstLookIsCreators
  /\ WorkIsKnown
  /\ MarkersInReserveOrder
  /\ HeadFollowsTranscript
  /\ LinearUnlessRolledBack

(* close() drains the queue and the pending claims and always gets to the   *)
(* end, whatever is in flight when it is called and whoever holds leases.  *)
CloseTerminates ==
  \A p \in Proc : phase[p] = "closing" ~> phase[p] \in {"closed", "dead"}

(* The history the transcript shows, and the promise it implements. *)
HistoryOf ==
  [r \in Run |-> [i \in 1..Len(marks[r]) |->
     [snap |-> marks[r][i], parent |-> snapshots[marks[r][i]]]]]

Abstract == INSTANCE CheckpointHistory
              WITH Snap <- 1..MaxSaves, history <- HistoryOf,
                   branching <- rolledBack

(* Two transactions per checkpoint, leases, reservations, crashes and       *)
(* reloads together implement the one-step growth of CheckpointHistory.    *)
ImplementsHistory == Abstract!Spec
=============================================================================
