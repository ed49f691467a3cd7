---------------------- MODULE ContinuationLeaseProofs ----------------------
(* Proofs about who owns a run of the continuation journal, and what its    *)
(* owner believes, for any number of processes and runs and any bounds.    *)
EXTENDS ContinuationJournalProofs

(* The lease row of r carries the token that p's ledger holds. *)
Owns(p, r) == active[p][r] # 0 /\ lease[r].token = active[p][r]

(* A token is granted once, to one process; a row names the process that    *)
(* was granted its token.                                                  *)
TokensOwned ==
  /\ \A p \in Proc, r \in Run : active[p][r] <= claims
  /\ \A r \in Run : /\ lease[r].token <= claims
                    /\ lease[r].live => lease[r].token # 0
  /\ \A p, q \in Proc, r \in Run :
       active[p][r] # 0 /\ active[q][r] = active[p][r] => p = q
  /\ \A p \in Proc, r \in Run : Owns(p, r) => lease[r].owner = p

(* A ledger holds tokens only while its writer works, a token is either     *)
(* held or on its way out, and the way out is over when close() is.        *)
LedgerInPhase ==
  \A p \in Proc, r \in Run :
    /\ active[p][r] = 0 \/ releasing[p][r] = 0
    /\ phase[p] \notin {"open", "closing"} => active[p][r] = 0
    /\ phase[p] \notin {"open", "closing", "draining"} => releasing[p][r] = 0

(* As long as storage works, the unexpired row of a process that lives is   *)
(* one its ledger knows of.                                                *)
LeasesTracked ==
  faults = 0 =>
    \A p \in Proc, r \in Run :
      lease[r].live /\ lease[r].owner = p /\ phase[p] # "dead" =>
        lease[r].token \in {active[p][r], releasing[p][r]}

(* While a reservation waits for its marker nobody else owns the run, and   *)
(* the frame of an owner is older than the reservation.                    *)
Alone(p) ==
  LET r == save[p].run
  IN /\ \A q \in Proc \ {p} : ~Owns(q, r)
     /\ working[r].present /\ working[r].owned => working[r].at < save[p].snap

ReservedAlone ==
  /\ \A r \in Run : working[r].at <= Len(snapshots)
  /\ \A p \in Proc :
       save[p].pc = "commit" /\ head[save[p].run] = [snap |-> save[p].snap, pending |-> TRUE]
         => Alone(p)

LeaseInv ==
  /\ TokensOwned
  /\ LedgerInPhase
  /\ LeasesTracked
  /\ ReservedAlone
  /\ OwnerKnowsHead
  /\ FrameContinuesHead

-----------------------------------------------------------------------------
(* What a step does to the leases, unless it grants one. *)

(* The entry of one run in one ledger: as it was, on its way out, given up  *)
(* because the row is another's or expired, gone from the way out together  *)
(* with its row, or forgotten by a process that stops.                     *)
EntryMoves(p, r) ==
  \/ active'[p][r] = active[p][r] /\ releasing'[p][r] = releasing[p][r]
  \/ active[p][r] # 0 /\ active'[p][r] = 0 /\ releasing'[p][r] = active[p][r]
  \/ /\ active'[p][r] = 0 /\ releasing'[p][r] = releasing[p][r]
     /\ lease'[r].live => lease[r].token # active[p][r] \/ faults' # 0
  \/ /\ active'[p][r] = active[p][r] /\ releasing'[p][r] = 0
     /\ lease'[r].live => lease[r].token # releasing[p][r] \/ faults' # 0
  \/ phase'[p] = "dead" /\ active'[p][r] = 0 /\ releasing'[p][r] = 0

(* A row goes, or keeps its token and owner; only an owner renews it. *)
RowMoves(r) ==
  \/ lease'[r] = NoLease
  \/ /\ lease'[r].token = lease[r].token /\ lease'[r].owner = lease[r].owner
     /\ lease'[r].live => lease[r].live \/ \E p \in Proc : Owns(p, r)

(* A writer stops accepting work, or comes to its end, with an empty ledger.*)
PhaseMoves(p) ==
  /\ phase[p] = "dead" => phase'[p] = "dead"
  /\ phase'[p] \notin {"open", "closing"} =>
       phase[p] \notin {"open", "closing"} \/ \A r \in Run : active'[p][r] = 0
  /\ phase'[p] \notin {"open", "closing", "draining"} =>
       \/ phase[p] \notin {"open", "closing", "draining"}
       \/ \A r \in Run : releasing'[p][r] = 0

LeasesStay ==
  /\ claims' = claims
  /\ faults' = 0 => faults = 0
  /\ \A p \in Proc, r \in Run : EntryMoves(p, r)
  /\ \A r \in Run : RowMoves(r)
  /\ \A p \in Proc : PhaseMoves(p)

LeaseGranted(p, r) ==
  /\ r \in knows[p] /\ phase[p] \in {"open", "closing"}
  /\ Claim(p, r)
  /\ UNCHANGED <<head, working, snapshots, marks, rolledBack, phase, knows,
                 releasing, faults>>
  /\ \A q \in Proc : save'[q].pc = "commit" => save'[q] = save[q]

LEMMA LostEntryMoves ==
  ASSUME TypeOK, NEW p \in Proc, NEW x \in Run, MarkLost(p, x),
         UNCHANGED releasing,
         lease'[x].live => lease[x].token # active[p][x] \/ faults' # 0
  PROVE  \A q \in Proc, r \in Run : EntryMoves(q, r)
BY DEF MarkLost, TypeOK, EntryMoves

LEMMA EndedEntryMoves ==
  ASSUME TypeOK, NEW p \in Proc, save[p].run \in Run, EndSave(p)
  PROVE  \A q \in Proc, r \in Run : EntryMoves(q, r)
<1> DEFINE x == save[p].run
<1>1. CASE save[p].token # 0 /\ active[p][x] = save[p].token
  <2>1. /\ active' = [active EXCEPT ![p][x] = 0]
        /\ releasing' = [releasing EXCEPT ![p][x] = save[p].token]
    BY <1>1 DEF EndSave
  <2>2. QED
    BY <1>1, <2>1 DEF TypeOK, EntryMoves
<1>2. CASE ~(save[p].token # 0 /\ active[p][x] = save[p].token)
  <2>1. active' = active /\ releasing' = releasing
    BY <1>2 DEF EndSave
  <2>2. QED
    BY <2>1 DEF EntryMoves
<1>3. QED
  BY <1>1, <1>2

LEMMA StoppedMoves ==
  ASSUME TypeOK, NEW p \in Proc, Stop(p)
  PROVE  /\ \A q \in Proc, r \in Run : EntryMoves(q, r)
         /\ \A q \in Proc : PhaseMoves(q)
<1>1. /\ \A q \in Proc \ {p} : /\ active'[q] = active[q]
                               /\ releasing'[q] = releasing[q]
                               /\ phase'[q] = phase[q]
      /\ phase'[p] = "dead"
      /\ \A r \in Run : active'[p][r] = 0 /\ releasing'[p][r] = 0
  BY DEF Stop, TypeOK
<1>2. QED
  BY <1>1 DEF EntryMoves, PhaseMoves

(* Rows that are not written, or whose expiry an owner pushes out. *)
LEMMA RenewedRowMoves ==
  ASSUME TypeOK, NEW x \in Run, NEW live \in BOOLEAN,
         lease' = SetExpiry(x, live),
         live => \E p \in Proc : Owns(p, x)
  PROVE  \A r \in Run : RowMoves(r)
BY DEF SetExpiry, TypeOK, RowMoves

LEMMA SessionStepLeases ==
  ASSUME TypeOK, LedgerInPhase, NEW p \in Proc, SessionStep(p)
  PROVE  LeasesStay
<1>1. claims' = claims /\ faults' = faults /\ lease' = lease
  BY DEF SessionStep, OpenSession, InitializeHeads, CloseRequest, CloseReleaseAll,
         CloseDone, Reload, Crash, CrashAfterMarker, durable, counters
<1>2. \A r \in Run : RowMoves(r)
  BY <1>1 DEF RowMoves
<1>3. CASE OpenSession(p) \/ InitializeHeads(p) \/ CloseRequest(p) \/ Reload(p)
  <2>1. active' = active /\ releasing' = releasing
    BY <1>3 DEF OpenSession, InitializeHeads, CloseRequest, Reload
  <2>2. \A q \in Proc : PhaseMoves(q)
    <3>1. \A q \in Proc : \/ phase'[q] = phase[q]
                          \/ /\ phase[q] # "dead"
                             /\ phase'[q] \in {"open", "closing"}
                          \/ /\ phase[q] \in {"new", "closed"}
                             /\ phase'[q] = "loading"
      BY <1>3 DEF OpenSession, InitializeHeads, CloseRequest, Reload, TypeOK
    <3>2. QED
      BY <3>1 DEF PhaseMoves
  <2>3. QED
    BY <1>1, <1>2, <2>1, <2>2 DEF LeasesStay, EntryMoves
<1>4. CASE CloseReleaseAll(p)
  <2>1. \A q \in Proc, r \in Run :
          IF q = p THEN /\ active'[q][r] = 0
                        /\ releasing'[q][r] =
                             IF active[q][r] # 0 THEN active[q][r] ELSE releasing[q][r]
                   ELSE active'[q][r] = active[q][r] /\ releasing'[q][r] = releasing[q][r]
    BY <1>4 DEF CloseReleaseAll, TypeOK
  <2>2. \A q \in Proc, r \in Run : EntryMoves(q, r)
    BY <2>1 DEF EntryMoves, TypeOK
  <2>3. \A q \in Proc : PhaseMoves(q)
    BY <1>4, <2>1 DEF CloseReleaseAll, TypeOK, PhaseMoves
  <2>4. QED
    BY <1>1, <1>2, <2>2, <2>3 DEF LeasesStay
<1>5. CASE CloseDone(p)
  <2>1. active' = active /\ releasing' = releasing
    BY <1>5 DEF CloseDone
  <2>2. \A q \in Proc : PhaseMoves(q)
    BY <1>5, <2>1 DEF CloseDone, TypeOK, PhaseMoves
  <2>3. QED
    BY <1>1, <1>2, <2>1, <2>2 DEF LeasesStay, EntryMoves
<1>6. CASE Crash(p) \/ CrashAfterMarker(p)
  <2>1. Stop(p)
    BY <1>6 DEF Crash, CrashAfterMarker
  <2>2. QED
    BY <1>1, <1>2, <2>1, StoppedMoves DEF LeasesStay
<1>7. QED
  BY <1>3, <1>4, <1>5, <1>6 DEF SessionStep

LEMMA SaveStepLeases ==
  ASSUME TypeOK, JournalInv, LedgerInPhase, NEW p \in Proc, SaveStep(p)
  PROVE  LeasesStay \/ \E r \in Run : LeaseGranted(p, r)
<1> DEFINE x == save[p].run
<1>1. x \in Run /\ x \in knows[p] /\ phase[p] \in {"open", "closing"}
  BY DEF TypeOK, JournalInv, WorkIsKnown, SaveStep, SaveUnderHeldLease, SaveClaim,
         SaveClaimRefused, Reserve, ReserveRefused, Commit,
         CommitFailsAfterMarker, CommitRefused, SaveFails
<1>2. phase' = phase
  BY DEF SaveStep, SaveUnderHeldLease, SaveClaim,
         SaveClaimRefused, Reserve, ReserveRefused, Commit,
         CommitFailsAfterMarker, CommitRefused, SaveFails
<1>3. \A q \in Proc : PhaseMoves(q)
  BY <1>2 DEF PhaseMoves
<1>4. ASSUME lease' = lease PROVE \A r \in Run : RowMoves(r)
  BY <1>4 DEF RowMoves
<1>5. CASE SaveUnderHeldLease(p) \/ SaveClaimRefused(p)
  <2>1. UNCHANGED <<active, releasing, lease, claims, faults>>
    BY <1>5 DEF SaveUnderHeldLease, SaveClaimRefused, durable, counters
  <2>2. QED
    BY <1>3, <1>4, <2>1 DEF LeasesStay, EntryMoves
<1>6. CASE SaveClaim(p)
  <2>1. \A q \in Proc : save'[q].pc = "commit" => save'[q] = save[q]
    BY <1>6 DEF SaveClaim, SaveAt, TypeOK
  <2>2. LeaseGranted(p, x)
    BY <1>1, <1>6, <2>1 DEF SaveClaim, LeaseGranted
  <2>3. QED
    BY <1>1, <2>2
<1>7. CASE Reserve(p)
  <2>1. UNCHANGED <<active, releasing, claims, faults>>
    BY <1>7 DEF Reserve, counters
  <2>2. \A r \in Run : lease'[r] \in {lease[r], NoLease}
    BY <1>1, <1>7 DEF Reserve, TypeOK
  <2>3. \A r \in Run : RowMoves(r)
    BY <2>2 DEF RowMoves
  <2>4. QED
    BY <1>3, <2>1, <2>3 DEF LeasesStay, EntryMoves
<1>8. CASE ReserveRefused(p)
  <2>1. UNCHANGED <<lease, claims, faults>>
    BY <1>8 DEF ReserveRefused, durable, counters
  <2>2. \A q \in Proc, r \in Run : EntryMoves(q, r)
    <3>1. CASE EndSave(p)
      BY <1>1, <3>1, EndedEntryMoves
    <3>2. CASE EndSaveLost(p) /\ ~lease[x].live
      BY <1>1, <2>1, <3>2, LostEntryMoves DEF EndSaveLost
    <3>3. QED
      BY <1>8, <3>1, <3>2 DEF ReserveRefused
  <2>3. QED
    BY <1>3, <1>4, <2>1, <2>2 DEF LeasesStay
<1>9. CASE Commit(p)
  <2>1. /\ lease' = SetExpiry(x, TRUE) /\ UNCHANGED <<claims, faults>>
        /\ EndSave(p) /\ Owns(p, x)
    BY <1>9 DEF Commit, MayCommit, counters, Owns
  <2>2. QED
    BY <1>1, <1>3, <2>1, EndedEntryMoves, RenewedRowMoves DEF LeasesStay
<1>10. CASE CommitFailsAfterMarker(p) \/ SaveFails(p)
  <2>1. lease' = lease /\ claims' = claims /\ faults' = faults + 1 /\ EndSave(p)
    BY <1>10 DEF CommitFailsAfterMarker, SaveFails, durable
  <2>2. faults \in Nat
    BY ConstantsAssumption DEF TypeOK
  <2>3. QED
    BY <1>1, <1>3, <1>4, <2>1, <2>2, EndedEntryMoves DEF LeasesStay
<1>11. CASE CommitRefused(p)
  <2>1. UNCHANGED <<lease, claims, faults>>
    BY <1>11 DEF CommitRefused, durable, counters
  <2>2. \A q \in Proc, r \in Run : EntryMoves(q, r)
    <3>1. CASE EndSave(p)
      BY <1>1, <3>1, EndedEntryMoves
    <3>2. CASE EndSaveLost(p) /\ lease[x].token # active[p][x]
      BY <1>1, <2>1, <3>2, LostEntryMoves DEF EndSaveLost
    <3>3. QED
      BY <1>11, <3>1, <3>2 DEF CommitRefused
  <2>3. QED
    BY <1>3, <1>4, <2>1, <2>2 DEF LeasesStay
<1>12. QED
  BY <1>5, <1>6, <1>7, <1>8, <1>9, <1>10, <1>11 DEF SaveStep

LEMMA LeaseStepLeases ==
  ASSUME TypeOK, JournalInv, LedgerInPhase, NEW p \in Proc, NEW r \in Run,
         LeaseStep(p, r)
  PROVE  LeasesStay \/ LeaseGranted(p, r)
<1>1. phase' = phase /\ faults \in Nat
  <2>1. phase' = phase
    BY DEF LeaseStep, AcquireRequest, AcquireClaim, AcquireRefused, Renew,
           RenewFails, Release, ReleaseRow, ReleaseFails
  <2>2. QED
    BY <2>1, ConstantsAssumption DEF TypeOK
<1>2. \A q \in Proc : PhaseMoves(q)
  BY <1>1 DEF PhaseMoves
<1>3. ASSUME lease' = lease PROVE \A x \in Run : RowMoves(x)
  BY <1>3 DEF RowMoves
<1>4. CASE AcquireRequest(p, r) \/ AcquireRefused(p, r)
  <2>1. UNCHANGED <<active, releasing, lease, claims, faults>>
    BY <1>4 DEF AcquireRequest, AcquireRefused, durable, counters
  <2>2. QED
    BY <1>2, <1>3, <2>1 DEF LeasesStay, EntryMoves
<1>5. CASE AcquireClaim(p, r)
  <2>1. r \in knows[p] /\ phase[p] \in {"open", "closing"}
    BY <1>5 DEF AcquireClaim, JournalInv, WorkIsKnown
  <2>2. QED
    BY <1>5, <2>1 DEF AcquireClaim, LeaseGranted
<1>6. CASE Renew(p, r)
  <2>1. CASE lease[r].token = active[p][r]
    <3>1. /\ lease' = SetExpiry(r, TRUE) /\ Owns(p, r)
          /\ UNCHANGED <<active, releasing, claims, faults>>
      BY <1>6, <2>1 DEF Renew, Owns, counters
    <3>2. QED
      BY <1>2, <3>1, RenewedRowMoves DEF LeasesStay, EntryMoves
  <2>2. CASE lease[r].token # active[p][r]
    <3>1. MarkLost(p, r) /\ UNCHANGED <<lease, releasing, claims, faults>>
      BY <1>6, <2>2 DEF Renew, counters
    <3>2. QED
      BY <1>2, <1>3, <2>2, <3>1, LostEntryMoves DEF LeasesStay
  <2>3. QED
    BY <2>1, <2>2
<1>7. CASE RenewFails(p, r)
  <2>1. /\ MarkLost(p, r) /\ UNCHANGED <<lease, releasing, claims>>
        /\ faults' = faults + 1
    BY <1>7 DEF RenewFails, durable
  <2>2. QED
    BY <1>1, <1>2, <1>3, <2>1, LostEntryMoves DEF LeasesStay
<1>8. CASE Release(p, r)
  <2>1. /\ active[p][r] # 0
        /\ active' = [active EXCEPT ![p][r] = 0]
        /\ releasing' = [releasing EXCEPT ![p][r] = active[p][r]]
        /\ UNCHANGED <<lease, claims, faults>>
    BY <1>8 DEF Release, ExplicitlyHeld, durable, counters
  <2>2. \A q \in Proc, x \in Run : EntryMoves(q, x)
    BY <2>1 DEF TypeOK, EntryMoves
  <2>3. QED
    BY <1>2, <1>3, <2>1, <2>2 DEF LeasesStay
<1>9. CASE ReleaseRow(p, r)
  <2>1. /\ releasing' = [releasing EXCEPT ![p][r] = 0]
        /\ UNCHANGED <<active, claims, faults>>
    BY <1>9 DEF ReleaseRow, counters
  <2>2. /\ \A x \in Run : lease'[x] \in {lease[x], NoLease}
        /\ lease[r].token = releasing[p][r] => lease'[r] = NoLease
    BY <1>9 DEF ReleaseRow, TypeOK
  <2>3. \A x \in Run : RowMoves(x)
    BY <2>2 DEF RowMoves
  <2>4. lease'[r].live => lease[r].token # releasing[p][r]
    BY <2>2 DEF NoLease
  <2>5. \A q \in Proc, x \in Run : EntryMoves(q, x)
    BY <2>1, <2>4 DEF TypeOK, EntryMoves
  <2>6. QED
    BY <1>2, <2>1, <2>3, <2>5 DEF LeasesStay
<1>10. CASE ReleaseFails(p, r)
  <2>1. /\ releasing' = [releasing EXCEPT ![p][r] = 0]
        /\ UNCHANGED <<active, lease, claims>>
        /\ faults' = faults + 1
    BY <1>10 DEF ReleaseFails, durable
  <2>2. \A q \in Proc, x \in Run : EntryMoves(q, x)
    BY <1>1, <2>1 DEF TypeOK, EntryMoves
  <2>3. QED
    BY <1>1, <1>2, <1>3, <2>1, <2>2 DEF LeasesStay
<1>11. QED
  BY <1>4, <1>5, <1>6, <1>7, <1>8, <1>9, <1>10 DEF LeaseStep

(* Every step grants one lease or moves the leases there are. *)
LEMMA GrantsOrMoves ==
  ASSUME TypeOK, JournalInv, LedgerInPhase, [Next]_vars
  PROVE  LeasesStay \/ \E p \in Proc, r \in Run : LeaseGranted(p, r)
<1>1. ASSUME UNCHANGED <<active, releasing, claims, faults, phase>>,
             \A r \in Run : RowMoves(r)
      PROVE  LeasesStay
  BY <1>1 DEF LeasesStay, EntryMoves, PhaseMoves
<1>2. ASSUME lease' = lease PROVE \A r \in Run : RowMoves(r)
  BY <1>2 DEF RowMoves
<1>3. ASSUME NEW p \in Proc, NEW r \in Run,
             CreateRun(p, r) \/ SaveRequest(p, r) \/ PersistProgress(p, r)
      PROVE  LeasesStay
  <2>1. UNCHANGED <<lease, active, releasing, claims, faults, phase>>
    BY <1>3 DEF CreateRun, SaveRequest, PersistProgress, durable, counters
  <2>2. QED
    BY <1>1, <1>2, <2>1
<1>4. ASSUME NEW r \in Run, Expire(r) PROVE LeasesStay
  <2>1. /\ UNCHANGED <<active, releasing, claims, faults, phase>>
        /\ lease' = SetExpiry(r, FALSE)
    BY <1>4 DEF Expire
  <2>2. QED
    BY <1>1, <2>1, RenewedRowMoves
<1>5. CASE UNCHANGED vars
  BY <1>1, <1>2, <1>5 DEF vars
<1>6. QED
  BY <1>3, <1>4, <1>5, SessionStepLeases, SaveStepLeases, LeaseStepLeases DEF Next

-----------------------------------------------------------------------------
(* The steps keep each part of LeaseInv. *)

LEMMA ClaimWrites ==
  ASSUME TypeOK, NEW p \in Proc, NEW r \in Run, Claim(p, r)
  PROVE  /\ claims \in Nat /\ claims' = claims + 1
         /\ \A q \in Proc, x \in Run :
              active'[q][x] = IF q = p /\ x = r THEN claims + 1 ELSE active[q][x]
         /\ \A x \in Run :
              lease'[x] = IF x = r THEN [token |-> claims + 1, owner |-> p, live |-> TRUE]
                                  ELSE lease[x]
<1>1. lease \in [Run -> LeaseRow] /\ active \in [Proc -> [Run -> Nat]] /\ claims \in Nat
  BY DEF TypeOK
<1>2. QED
  BY <1>1 DEF Claim

LEMMA TokensStayOwned ==
  ASSUME TypeOK, TokensOwned,
         LeasesStay \/ \E p \in Proc, r \in Run : LeaseGranted(p, r)
  PROVE  TokensOwned'
<1>1. CASE LeasesStay
  <2>1. /\ claims' = claims /\ claims \in Nat
        /\ \A p \in Proc, r \in Run : active'[p][r] \in {active[p][r], 0}
    BY <1>1 DEF LeasesStay, EntryMoves, TypeOK
  <2>2. \A r \in Run :
          /\ lease'[r].token <= claims
          /\ lease'[r].live => lease'[r].token # 0
          /\ lease'[r].token # 0 => /\ lease'[r].token = lease[r].token
                                    /\ lease'[r].owner = lease[r].owner
    BY <1>1, <2>1 DEF LeasesStay, RowMoves, NoLease, TokensOwned, Owns
  <2>3. QED
    BY <2>1, <2>2 DEF TokensOwned, Owns
<1>2. ASSUME NEW p \in Proc, NEW r \in Run, Claim(p, r) PROVE TokensOwned'
  <2>0. /\ claims \in Nat /\ claims' = claims + 1
        /\ \A q \in Proc, x \in Run :
             active'[q][x] = IF q = p /\ x = r THEN claims + 1 ELSE active[q][x]
        /\ \A x \in Run :
             lease'[x] = IF x = r THEN [token |-> claims + 1, owner |-> p, live |-> TRUE]
                                 ELSE lease[x]
    BY <1>2, ClaimWrites
  <2>1. claims \in Nat /\ claims' = claims + 1
    BY <2>0
  <2>2. \A q \in Proc, x \in Run :
          active'[q][x] = IF q = p /\ x = r THEN claims + 1 ELSE active[q][x]
    BY <2>0
  <2>3. \A x \in Run : lease'[x] = IF x = r THEN [token |-> claims + 1, owner |-> p, live |-> TRUE]
                                            ELSE lease[x]
    BY <2>0
  <2>4. \A q \in Proc, x \in Run : active[q][x] \in Nat /\ lease[x].token \in Nat
    BY DEF TypeOK, LeaseRow
  <2>5. \A q \in Proc, x \in Run : active'[q][x] <= claims' /\ lease'[x].token <= claims'
    BY <2>1, <2>2, <2>3, <2>4 DEF TokensOwned
  <2>6. \A x \in Run : lease'[x].live => lease'[x].token # 0
    BY <2>1, <2>3 DEF TokensOwned
  <2>7. \A q, s \in Proc, x \in Run :
          active'[q][x] # 0 /\ active'[s][x] = active'[q][x] => q = s
    BY <2>1, <2>2, <2>4 DEF TokensOwned
  <2>8. \A q \in Proc, x \in Run : Owns(q, x)' => lease'[x].owner = q
    BY <2>1, <2>2, <2>3, <2>4 DEF TokensOwned, Owns
  <2>9. QED
    BY <2>5, <2>6, <2>7, <2>8 DEF TokensOwned
<1>3. QED
  BY <1>1, <1>2 DEF LeaseGranted

(* An owner owned the run before, unless it was just granted the lease. *)
LEMMA OwnersOwned ==
  ASSUME TypeOK, TokensOwned, NEW p \in Proc, NEW r \in Run, Owns(p, r)',
         LeasesStay \/ \E q \in Proc, x \in Run : LeaseGranted(q, x)
  PROVE  Owns(p, r) \/ LeaseGranted(p, r)
<1>1. CASE LeasesStay
  BY <1>1 DEF LeasesStay, EntryMoves, RowMoves, NoLease, Owns
<1>2. ASSUME NEW q \in Proc, NEW x \in Run, LeaseGranted(q, x), ~LeaseGranted(p, r)
      PROVE  Owns(p, r)
  <2>1. claims \in Nat /\ active[p][r] \in Nat /\ active[p][r] <= claims
    BY DEF TypeOK, TokensOwned
  <2>2. /\ active'[p][r] = active[p][r]
        /\ lease'[r] = IF x = r THEN [token |-> claims + 1, owner |-> q, live |-> TRUE] ELSE lease[r]
    BY <1>2, ClaimWrites DEF LeaseGranted
  <2>3. QED
    BY <2>1, <2>2 DEF Owns
<1>3. QED
  BY <1>1, <1>2

LEMMA LedgerStaysInPhase ==
  ASSUME TypeOK, LedgerInPhase,
         LeasesStay \/ \E p \in Proc, r \in Run : LeaseGranted(p, r)
  PROVE  LedgerInPhase'
<1>1. CASE LeasesStay
  BY <1>1 DEF LeasesStay, EntryMoves, PhaseMoves, LedgerInPhase
<1>2. ASSUME NEW p \in Proc, NEW r \in Run, LeaseGranted(p, r) PROVE LedgerInPhase'
  <2>1. /\ phase' = phase /\ releasing' = releasing
        /\ phase[p] \in {"open", "closing"} /\ releasing[p][r] = 0
    BY <1>2 DEF LeaseGranted, Claim, Claimable
  <2>2. \A q \in Proc, x \in Run : ~(q = p /\ x = r) => active'[q][x] = active[q][x]
    BY <1>2 DEF LeaseGranted, Claim, TypeOK
  <2>3. QED
    BY <2>1, <2>2 DEF LedgerInPhase
<1>3. QED
  BY <1>1, <1>2

LEMMA LeasesStayTracked ==
  ASSUME TypeOK, TokensOwned, LedgerInPhase, LeasesTracked,
         LeasesStay \/ \E p \in Proc, r \in Run : LeaseGranted(p, r)
  PROVE  LeasesTracked'
<1> SUFFICES ASSUME faults' = 0, NEW p \in Proc, NEW r \in Run,
                    lease'[r].live, lease'[r].owner = p, phase'[p] # "dead"
             PROVE  lease'[r].token \in {active'[p][r], releasing'[p][r]}
  BY DEF LeasesTracked
<1>1. CASE LeasesStay
  <2>1. /\ faults = 0 /\ phase[p] # "dead" /\ EntryMoves(p, r) /\ RowMoves(r)
    BY <1>1 DEF LeasesStay, PhaseMoves
  <2>2. lease'[r].token = lease[r].token /\ lease[r].owner = p
    BY <2>1 DEF RowMoves, NoLease
  <2>3. lease[r].token \in {active[p][r], releasing[p][r]} /\ lease[r].token # 0
    <3>1. CASE lease[r].live
      BY <2>1, <2>2, <3>1 DEF LeasesTracked, TokensOwned
    <3>2. CASE \E q \in Proc : Owns(q, r)
      BY <2>2, <3>2 DEF TokensOwned, Owns
    <3>3. QED
      BY <2>1, <3>1, <3>2 DEF RowMoves, NoLease
  <2>4. active[p][r] = 0 \/ releasing[p][r] = 0
    BY DEF LedgerInPhase
  <2>5. QED
    BY <2>1, <2>2, <2>3, <2>4 DEF EntryMoves
<1>2. ASSUME NEW q \in Proc, NEW x \in Run, LeaseGranted(q, x)
      PROVE  lease'[r].token \in {active'[p][r], releasing'[p][r]}
  <2>1. /\ UNCHANGED <<phase, releasing, faults>>
        /\ \A s \in Proc, y \in Run :
             active'[s][y] = IF s = q /\ y = x THEN claims + 1 ELSE active[s][y]
        /\ \A y \in Run :
             lease'[y] = IF y = x THEN [token |-> claims + 1, owner |-> q, live |-> TRUE] ELSE lease[y]
    BY <1>2, ClaimWrites DEF LeaseGranted
  <2>2. CASE r = x
    BY <2>1, <2>2
  <2>3. CASE r # x
    BY <2>1, <2>3 DEF LeasesTracked
  <2>4. QED
    BY <2>2, <2>3
<1>3. QED
  BY <1>1, <1>2

(* A lease is granted on the last marker of the run, and not at all while a *)
(* reservation waits for its marker.                                       *)
LEMMA GrantKnowsHead ==
  ASSUME TypeOK, JournalInv, NEW p \in Proc, NEW r \in Run, LeaseGranted(p, r)
  PROVE  /\ r \notin rolledBack => belief'[p][r] = LastMark(r)
         /\ \A q \in Proc :
              save[q].pc = "commit" => head[r] # [snap |-> save[q].snap, pending |-> TRUE]
<1>1. HistoryInv /\ r \in knows[p] /\ Verified(p, r) /\ Adopt(p, r)
  BY DEF HistoryInv, JournalInv, LeaseGranted, Claim, Claimable
<1>2. ASSUME r \notin rolledBack PROVE belief'[p][r] = LastMark(r)
  <2>1. head[r].snap = LastMark(r)
    BY <1>1, <1>2, VerifiedHeadIsMarked
  <2>2. belief'[p][r] = IF belief[p][r] = Unseen THEN head[r].snap ELSE belief[p][r]
    BY <1>1 DEF Adopt, TypeOK
  <2>3. QED
    BY <1>1, <2>1, <2>2 DEF Verified
<1>3. ASSUME NEW q \in Proc, save[q].pc = "commit",
             head[r] = [snap |-> save[q].snap, pending |-> TRUE]
      PROVE  FALSE
  <2>1. save[q].snap \in 1..Len(snapshots) /\ save[q].snap \notin Marked(r)
    BY <1>1, <1>3 DEF HistoryInv, ReservationsDistinct
  <2>2. head[r].snap \in Marked(r) \cup {0}
    BY <1>1, VerifiedHeadIsMarked
  <2>3. QED
    BY <1>3, <2>1, <2>2
<1>4. QED
  BY <1>2, <1>3

(* Where the beliefs and the last markers of runs that are owned may move:  *)
(* an owner appends a marker and believes in it, or learns the head.       *)
LEMMA OwnersLearn ==
  ASSUME TypeOK, JournalInv, TokensOwned, LedgerInPhase, [Next]_vars,
         NEW p \in Proc, NEW r \in Run, Owns(p, r), active'[p][r] # 0
  PROVE  \/ marks'[r] = marks[r] /\ belief[p][r] \in {belief'[p][r], Unseen}
         \/ belief'[p][r] = LastMark(r)'
<1> USE DEF Owns
<1>1. CASE \E q \in Proc : Commit(q) \/ CommitFailsAfterMarker(q)
  <2>1. PICK q \in Proc : Commit(q) \/ CommitFailsAfterMarker(q)
    BY <1>1
  <2>2. /\ save[q].run \in Run /\ save[q].snap \in Nat
        /\ Owns(q, save[q].run) /\ AppendMarker(q, save[q].run)
    BY <2>1 DEF Commit, CommitFailsAfterMarker, MayCommit, TypeOK, SaveState
  <2>3. marks' = [marks EXCEPT ![save[q].run] = Append(@, save[q].snap)]
    BY <2>2 DEF AppendMarker
  <2>4. CASE r = save[q].run
    <3>1. q = p
      BY <2>2, <2>4 DEF TokensOwned
    <3>2. LastMark(r)' = save[q].snap
      BY <2>2, <2>3, <2>4, MarkerAppended
    <3>3. belief'[p][r] = save[q].snap
      BY <2>2, <2>4, <3>1 DEF AppendMarker, TypeOK
    <3>4. QED
      BY <3>2, <3>3
  <2>5. CASE r # save[q].run
    <3>1. belief'[p][r] = belief[p][r]
      BY <2>2, <2>5 DEF AppendMarker, TypeOK
    <3>2. marks'[r] = marks[r]
      BY <2>3, <2>5 DEF TypeOK
    <3>3. QED
      BY <3>1, <3>2
  <2>6. QED
    BY <2>4, <2>5
<1>2. CASE \E q \in Proc : CrashAfterMarker(q)
  <2>1. PICK q \in Proc : CrashAfterMarker(q)
    BY <1>2
  <2>2. /\ save[q].run \in Run /\ Owns(q, save[q].run)
        /\ marks' = [marks EXCEPT ![save[q].run] = Append(@, save[q].snap)]
        /\ Stop(q)
    BY <2>1 DEF CrashAfterMarker, MayCommit, TypeOK
  <2>3. q # p /\ belief'[p] = belief[p]
    BY <2>2 DEF Stop, TypeOK
  <2>4. r # save[q].run
    BY <2>2, <2>3 DEF TokensOwned
  <2>5. marks'[r] = marks[r]
    BY <2>2, <2>4 DEF TypeOK
  <2>6. QED
    BY <2>3, <2>5
<1>3. CASE \E q \in Proc : Crash(q)
  <2>1. PICK q \in Proc : Crash(q)
    BY <1>3
  <2>2. q # p /\ belief'[p] = belief[p] /\ marks' = marks
    BY <2>1 DEF Crash, Stop, TypeOK, durable
  <2>3. QED
    BY <2>2
<1>4. CASE \E q \in Proc : InitializeHeads(q)
  <2>1. PICK q \in Proc : InitializeHeads(q)
    BY <1>4
  <2>2. phase[q] = "loading" /\ marks' = marks
    BY <2>1 DEF InitializeHeads
  <2>3. q # p
    BY <2>2 DEF LedgerInPhase
  <2>4. belief'[p] = belief[p]
    BY <2>1, <2>3 DEF InitializeHeads, TypeOK
  <2>5. QED
    BY <2>2, <2>4
<1>5. CASE marks' = marks /\ (\/ belief' = belief
                              \/ \E q \in Proc, x \in Run : Adopt(q, x))
  <2>1. ASSUME NEW q \in Proc, NEW x \in Run, Adopt(q, x)
        PROVE  belief[p][r] \in {belief'[p][r], Unseen}
    BY <2>1 DEF Adopt, TypeOK
  <2>2. QED
    BY <1>5, <2>1
<1>6. ASSUME NEW q \in Proc, SessionStep(q)
      PROVE  \/ Crash(q) \/ CrashAfterMarker(q) \/ InitializeHeads(q)
             \/ marks' = marks /\ belief' = belief
  BY <1>6 DEF SessionStep, OpenSession, CloseRequest, CloseReleaseAll, CloseDone,
              Reload, durable
<1>7. ASSUME NEW q \in Proc, SaveStep(q)
      PROVE  \/ Commit(q) \/ CommitFailsAfterMarker(q)
             \/ marks' = marks /\ (belief' = belief \/ Adopt(q, save[q].run))
  BY <1>7 DEF SaveStep, SaveUnderHeldLease, SaveClaim, SaveClaimRefused, Reserve,
              ReserveRefused, CommitRefused, SaveFails, Claim, ClaimRefused, durable
<1>8. ASSUME NEW q \in Proc, SaveStep(q) PROVE save[q].run \in Run
  BY <1>8 DEF TypeOK, SaveStep, SaveUnderHeldLease, SaveClaim,
              SaveClaimRefused, Reserve, ReserveRefused, Commit,
              CommitFailsAfterMarker, CommitRefused, SaveFails
<1>9. ASSUME NEW q \in Proc, NEW x \in Run, LeaseStep(q, x)
      PROVE  marks' = marks /\ (belief' = belief \/ Adopt(q, x))
  BY <1>9 DEF LeaseStep, AcquireRequest, AcquireClaim, AcquireRefused, Renew,
              RenewFails, Release, ReleaseRow, ReleaseFails, Claim, ClaimRefused, durable
<1>10. ASSUME NEW q \in Proc, NEW x \in Run,
              CreateRun(q, x) \/ SaveRequest(q, x) \/ PersistProgress(q, x) \/ Expire(x)
       PROVE  marks' = marks /\ belief' = belief
  BY <1>10 DEF CreateRun, SaveRequest, PersistProgress, Expire, durable
<1>11. CASE UNCHANGED vars
  BY <1>5, <1>11 DEF vars
<1>12. QED
  BY <1>1, <1>2, <1>3, <1>4, <1>5, <1>6, <1>7, <1>8, <1>9, <1>10, <1>11 DEF Next

LEMMA OwnersKeepUp ==
  ASSUME TypeOK, JournalInv, TokensOwned, LedgerInPhase, OwnerKnowsHead,
         [Next]_vars
  PROVE  OwnerKnowsHead'
<1>1. LeasesStay \/ \E p \in Proc, r \in Run : LeaseGranted(p, r)
  BY GrantsOrMoves
<1>2. rolledBack \subseteq rolledBack'
  <2>1. StepKind
    BY EveryStepHasAKind DEF JournalInv, HistoryInv
  <2>2. QED
    BY <2>1 DEF StepKind, QuietStep, MarkerStep, Reserve, InitializeHeads, CreateRun,
                durable
<1> SUFFICES ASSUME NEW p \in Proc, NEW r \in Run \ rolledBack', Owns(p, r)'
             PROVE  belief'[p][r] = LastMark(r)'
  BY DEF OwnerKnowsHead, Owns
<1>3. r \in Run \ rolledBack
  BY <1>2
<1>4. CASE LeaseGranted(p, r)
  <2>1. belief'[p][r] = LastMark(r)
    BY <1>3, <1>4, GrantKnowsHead
  <2>2. LastMark(r)' = LastMark(r)
    BY <1>4 DEF LeaseGranted, LastMark
  <2>3. QED
    BY <2>1, <2>2
<1>5. CASE Owns(p, r)
  <2>1. belief[p][r] = LastMark(r) /\ LastMark(r) # Unseen
    BY <1>3, <1>5, LastMarkIsMarked DEF OwnerKnowsHead, Owns, Unseen
  <2>2. active'[p][r] # 0
    BY DEF Owns
  <2>3. CASE belief'[p][r] = LastMark(r)'
    BY <2>3
  <2>4. CASE marks'[r] = marks[r] /\ belief[p][r] \in {belief'[p][r], Unseen}
    BY <2>1, <2>4 DEF LastMark
  <2>5. QED
    BY <1>5, <2>2, <2>3, <2>4, OwnersLearn
<1>6. QED
  BY <1>1, <1>3, <1>4, <1>5, OwnersOwned

-----------------------------------------------------------------------------
(* A reservation in the heads table is the save's own from just now, or it  *)
(* was there before.                                                       *)
LEMMA ReservationPersists ==
  ASSUME TypeOK, JournalInv, [Next]_vars,
         NEW p \in Proc, save'[p].pc = "commit",
         head'[save'[p].run] = [snap |-> save'[p].snap, pending |-> TRUE]
  PROVE  \/ Reserve(p)
         \/ /\ save'[p] = save[p] /\ save[p].run \in Run
            /\ head'[save[p].run] = head[save[p].run]
<1> DEFINE r == save[p].run
<1>1. StepKind
  BY EveryStepHasAKind DEF JournalInv, HistoryInv
<1>2. ASSUME save'[p] = save[p]
      PROVE  /\ r \in Run /\ head'[r] = [snap |-> save[p].snap, pending |-> TRUE]
             /\ save[p].snap \in 1..Len(snapshots)
             /\ \A q \in Proc \ {p} : save[q].pc = "commit" => save[q].snap # save[p].snap
  BY <1>2 DEF TypeOK, JournalInv, ReservationsDistinct
<1>3. CASE QuietStep
  BY <1>2, <1>3 DEF QuietStep
<1>4. ASSUME NEW q \in Proc, NEW x \in Run, MarkerStep(q, x) PROVE save'[p] = save[p] /\ head'[r] = head[r]
  <2>1. q # p /\ save'[p] = save[p]
    BY <1>4 DEF MarkerStep
  <2>2. CASE head' = head
    BY <2>1, <2>2
  <2>3. CASE head' = [head EXCEPT ![x] = [snap |-> save[q].snap, pending |-> FALSE]]
    BY <1>2, <2>1, <2>3 DEF TypeOK
  <2>4. QED
    BY <1>4, <2>1, <2>2, <2>3 DEF MarkerStep
<1>5. ASSUME NEW q \in Proc \ {p}, Reserve(q) PROVE save'[p] = save[p] /\ head'[r] = head[r]
  <2>1. save'[p] = save[p]
    BY <1>5 DEF Reserve, TypeOK
  <2>2. head' = [head EXCEPT ![save[q].run] = [snap |-> Len(snapshots) + 1, pending |-> TRUE]]
    BY <1>5 DEF Reserve
  <2>3. Len(snapshots) \in Nat
    BY DEF TypeOK
  <2>4. save[q].run # r
    BY <1>2, <2>1, <2>2, <2>3 DEF TypeOK
  <2>5. QED
    BY <1>2, <2>1, <2>2, <2>4 DEF TypeOK
<1>6. ASSUME NEW q \in Proc, InitializeHeads(q) PROVE save'[p] = save[p] /\ head'[r] = head[r]
  BY <1>2, <1>6 DEF InitializeHeads
<1>7. ASSUME NEW q \in Proc, NEW x \in Run, CreateRun(q, x) PROVE save'[p] = save[p] /\ head'[r] = head[r]
  BY <1>7 DEF CreateRun, durable
<1>8. QED
  BY <1>1, <1>2, <1>3, <1>4, <1>5, <1>6, <1>7 DEF StepKind

(* A frame is left alone, cleared, or written anew; snapshots only grow.    *)
LEMMA FramesMove ==
  ASSUME TypeOK, JournalInv, [Next]_vars, NEW r \in Run
  PROVE  /\ \/ working'[r] = working[r]
            \/ working'[r] = NoFrame
            \/ \E q \in Proc : PersistProgress(q, r)
         /\ {Len(snapshots), Len(snapshots')} \subseteq Nat
         /\ Len(snapshots) <= Len(snapshots')
<1>1. StepKind
  BY EveryStepHasAKind DEF JournalInv, HistoryInv
<1>2. /\ {Len(snapshots), Len(snapshots')} \subseteq Nat
      /\ Len(snapshots) <= Len(snapshots')
  <2>1. ASSUME NEW p \in Proc, Reserve(p) PROVE Len(snapshots') = Len(snapshots) + 1
    <3>1. head[save[p].run].snap \in Nat
      BY <2>1 DEF Reserve, TypeOK, HeadRow
    <3>2. QED
      BY <2>1, <3>1 DEF Reserve, TypeOK
  <2>2. CASE UNCHANGED snapshots
    BY <2>2 DEF TypeOK
  <2>3. Len(snapshots) \in Nat
    BY DEF TypeOK
  <2>4. UNCHANGED snapshots \/ \E p \in Proc : Reserve(p)
    BY <1>1 DEF StepKind, QuietStep, MarkerStep, InitializeHeads, CreateRun, durable
  <2>5. QED
    BY <2>1, <2>2, <2>3, <2>4
<1>3. ASSUME NEW p \in Proc, SessionStep(p) PROVE working' = working
  BY <1>3 DEF SessionStep, OpenSession, InitializeHeads, CloseRequest, CloseReleaseAll,
              CloseDone, Reload, Crash, CrashAfterMarker, durable
<1>4. ASSUME NEW p \in Proc, SaveStep(p)
      PROVE  working'[r] \in {working[r], NoFrame}
  <2>1. working' = working \/ working' = [working EXCEPT ![save[p].run] = NoFrame]
    BY <1>4 DEF SaveStep, SaveUnderHeldLease, SaveClaim, SaveClaimRefused, Reserve,
                ReserveRefused, Commit, CommitFailsAfterMarker, CommitRefused, SaveFails,
                durable
  <2>2. QED
    BY <2>1 DEF TypeOK
<1>5. ASSUME NEW p \in Proc, NEW x \in Run,
             LeaseStep(p, x) \/ CreateRun(p, x) \/ SaveRequest(p, x)
      PROVE  working' = working
  BY <1>5 DEF LeaseStep, AcquireRequest, AcquireClaim, AcquireRefused, Renew,
              RenewFails, Release, ReleaseRow, ReleaseFails, CreateRun, SaveRequest,
              durable
<1>6. ASSUME NEW p \in Proc, NEW x \in Run, PersistProgress(p, x)
      PROVE  working'[r] = working[r] \/ PersistProgress(p, r)
  BY <1>6 DEF PersistProgress, TypeOK
<1>7. CASE UNCHANGED vars
  BY <1>7 DEF vars
<1>8. ASSUME NEW x \in Run, Expire(x) PROVE working' = working
  BY <1>8 DEF Expire
<1>9. \/ working'[r] \in {working[r], NoFrame}
      \/ \E q \in Proc : PersistProgress(q, r)
  BY <1>3, <1>4, <1>5, <1>6, <1>7, <1>8 DEF Next
<1>10. QED
  BY <1>2, <1>9

LEMMA ReservationsStayAlone ==
  ASSUME TypeOK, JournalInv, LeaseInv, [Next]_vars
  PROVE  ReservedAlone'
<1> USE DEF LeaseInv
<1>1. LeasesStay \/ \E p \in Proc, r \in Run : LeaseGranted(p, r)
  BY GrantsOrMoves
<1>2. ASSUME NEW r \in Run PROVE working'[r].at <= Len(snapshots')
  <2>1. CASE working'[r] = NoFrame
    BY <2>1, FramesMove DEF NoFrame
  <2>2. CASE working'[r] = working[r]
    <3>1. working[r].at \in Nat /\ working[r].at <= Len(snapshots)
      BY DEF TypeOK, FrameRow, ReservedAlone
    <3>2. /\ {Len(snapshots), Len(snapshots')} \subseteq Nat
          /\ Len(snapshots) <= Len(snapshots')
      BY FramesMove
    <3>3. QED
      BY <2>2, <3>1, <3>2
  <2>3. ASSUME NEW q \in Proc, PersistProgress(q, r) PROVE working'[r].at <= Len(snapshots')
    BY <2>3 DEF PersistProgress, TypeOK
  <2>4. QED
    BY <2>1, <2>2, <2>3, FramesMove
<1>3. ASSUME NEW p \in Proc, Reserve(p) PROVE Alone(p)'
  <2> DEFINE r == save[p].run
  <2>1. /\ r \in Run /\ save'[p].run = r /\ save'[p].snap = Len(snapshots) + 1
        /\ working' = working /\ active' = active /\ MayReserve(p, r)
    BY <1>3 DEF Reserve, SaveAt, TypeOK
  <2>2. working[r].at \in Nat /\ working[r].at <= Len(snapshots) /\ Len(snapshots) \in Nat
    BY <2>1 DEF TypeOK, FrameRow, ReservedAlone
  <2>3. ASSUME NEW q \in Proc \ {p} PROVE ~(active'[q][r] # 0 /\ lease'[r].token = active'[q][r])
    <3>1. CASE lease[r].live
      <4>1. lease' = lease /\ Owns(p, r)
        BY <1>3, <2>1, <3>1 DEF Reserve, MayReserve, Owns
      <4>2. QED
        BY <2>1, <4>1 DEF TokensOwned, Owns
    <3>2. CASE ~lease[r].live
      <4>1. lease'[r] = NoLease
        BY <1>3, <2>1, <3>2 DEF Reserve, TypeOK
      <4>2. QED
        BY <2>1, <4>1 DEF NoLease
    <3>3. QED
      BY <3>1, <3>2
  <2>4. working'[r].at < save'[p].snap
    BY <2>1, <2>2
  <2>5. QED
    BY <2>1, <2>3, <2>4 DEF Alone, Owns
<1>4. ASSUME NEW p \in Proc, save[p].pc = "commit", save[p].run \in Run,
             head[save[p].run] = [snap |-> save[p].snap, pending |-> TRUE],
             save'[p] = save[p]
      PROVE  Alone(p)'
  <2>0. PICK r \in Run : r = save[p].run
    BY <1>4
  <2>1. /\ \A q \in Proc \ {p} : ~Owns(q, r)
        /\ working[r].present /\ working[r].owned => working[r].at < save[p].snap
    BY <1>4, <2>0 DEF ReservedAlone, Alone
  <2>2. ASSUME NEW q \in Proc \ {p} PROVE ~Owns(q, r)'
    <3>1. ~Owns(q, r) /\ ~LeaseGranted(q, r)
      BY <1>4, <2>0, <2>1, GrantKnowsHead
    <3>2. QED
      BY <1>1, <3>1, OwnersOwned
  <2>3. ASSUME NEW q \in Proc, PersistProgress(q, r) PROVE ~working'[r].owned
    <3>1. q # p /\ active[q][r] # 0
      BY <1>4, <2>0, <2>3 DEF PersistProgress
    <3>2. working'[r].owned = (lease[r].token = active[q][r])
      BY <1>4, <2>0, <2>3 DEF PersistProgress, TypeOK
    <3>3. QED
      BY <2>1, <3>1, <3>2 DEF Owns
  <2>4. working'[r].present /\ working'[r].owned => working'[r].at < save[p].snap
    <3>1. CASE working'[r] = NoFrame
      BY <3>1 DEF NoFrame
    <3>2. CASE working'[r] = working[r]
      BY <2>1, <3>2
    <3>3. QED
      BY <1>4, <2>3, <3>1, <3>2, FramesMove
  <2>5. QED
    BY <1>4, <2>0, <2>2, <2>4 DEF Alone, Owns
<1>5. ASSUME NEW p \in Proc, save'[p].pc = "commit",
             head'[save'[p].run] = [snap |-> save'[p].snap, pending |-> TRUE]
      PROVE  Alone(p)'
  <2>1. CASE Reserve(p)
    BY <1>3, <2>1
  <2>2. CASE save'[p] = save[p] /\ save[p].run \in Run /\ head'[save[p].run] = head[save[p].run]
    BY <1>4, <1>5, <2>2
  <2>3. QED
    BY <1>5, <2>1, <2>2, ReservationPersists
<1>6. QED
  BY <1>2, <1>5 DEF ReservedAlone

LEMMA FramesStayContinued ==
  ASSUME TypeOK, JournalInv, LeaseInv, [Next]_vars
  PROVE  FrameContinuesHead'
<1> USE DEF LeaseInv
<1>1. StepKind
  BY EveryStepHasAKind DEF JournalInv, HistoryInv
<1>2. rolledBack \subseteq rolledBack'
  BY <1>1 DEF StepKind, QuietStep, MarkerStep, Reserve, InitializeHeads, CreateRun,
              durable
<1> SUFFICES ASSUME NEW r \in Run \ rolledBack', working'[r].present, working'[r].owned,
                    LastMark(r)' # 0, working'[r].at >= LastMark(r)'
             PROVE  working'[r].base = LastMark(r)'
  BY DEF FrameContinuesHead
<1>3. r \in Run \ rolledBack
  BY <1>2
<1>4. ASSUME NEW p \in Proc, PersistProgress(p, r) PROVE working'[r].base = LastMark(r)'
  <2>1. /\ LastMark(r)' = LastMark(r) /\ working'[r].base = belief[p][r]
        /\ working'[r].owned = (lease[r].token = active[p][r]) /\ active[p][r] # 0
    BY <1>4 DEF PersistProgress, LastMark, TypeOK
  <2>2. QED
    BY <1>3, <2>1 DEF OwnerKnowsHead
<1>5. ASSUME working'[r] = working[r], marks'[r] = marks[r]
      PROVE  working'[r].base = LastMark(r)'
  BY <1>3, <1>5 DEF FrameContinuesHead, LastMark
<1>6. ASSUME NEW p \in Proc, NEW x \in Run, MarkerStep(p, x),
             working'[r] = working[r], marks'[r] # marks[r]
      PROVE  FALSE
  <2>1. /\ save[p].snap \in Nat
        /\ marks' = [marks EXCEPT ![x] = Append(@, save[p].snap)]
    BY <1>6 DEF MarkerStep, TypeOK, SaveState
  <2>2. x = r
    BY <1>6, <2>1 DEF TypeOK
  <2>3. LastMark(r)' = save[p].snap
    BY <2>1, <2>2, MarkerAppended
  <2>4. Alone(p) /\ save[p].run = r
    BY <1>6, <2>2 DEF MarkerStep, ReservedAlone
  <2>5. working[r].at < save[p].snap /\ working[r].at \in Nat
    BY <1>6, <2>4 DEF Alone, TypeOK, FrameRow
  <2>6. QED
    BY <1>6, <2>1, <2>3, <2>5
<1>7. marks'[r] = marks[r] \/ \E p \in Proc, x \in Run : MarkerStep(p, x)
  BY <1>1 DEF StepKind, QuietStep, Reserve, InitializeHeads, CreateRun, durable
<1>8. working'[r] # NoFrame
  BY DEF NoFrame
<1>9. QED
  BY <1>4, <1>5, <1>6, <1>7, <1>8, FramesMove

-----------------------------------------------------------------------------
(* Who holds which lease, what its ledger and its writer know of it, and    *)
(* what a reservation in flight keeps everybody else from: the inductive    *)
(* invariant of the leases, for any processes, runs and bounds.            *)
THEOREM LeasesAreInvariant == Spec => []LeaseInv
<1>1. Init => LeaseInv
  BY DEF Init, LeaseInv, TokensOwned, LedgerInPhase, LeasesTracked, ReservedAlone,
         OwnerKnowsHead, FrameContinuesHead, Owns, NoLease, NoFrame, NoSave, SaveAt
<1>2. TypeOK /\ JournalInv /\ LeaseInv /\ [Next]_vars => LeaseInv'
  <2> SUFFICES ASSUME TypeOK, JournalInv, LeaseInv, [Next]_vars PROVE LeaseInv'
    OBVIOUS
  <2>1. /\ TokensOwned /\ LedgerInPhase /\ LeasesTracked /\ OwnerKnowsHead
        /\ LeasesStay \/ \E p \in Proc, r \in Run : LeaseGranted(p, r)
    BY GrantsOrMoves DEF LeaseInv
  <2>2. TokensOwned' /\ LedgerInPhase' /\ LeasesTracked'
    BY <2>1, TokensStayOwned, LedgerStaysInPhase, LeasesStayTracked
  <2>3. OwnerKnowsHead' /\ ReservedAlone' /\ FrameContinuesHead'
    BY <2>1, OwnersKeepUp, ReservationsStayAlone, FramesStayContinued
  <2>4. QED
    BY <2>2, <2>3 DEF LeaseInv
<1>3. QED
  BY <1>1, <1>2, TypeCorrect, JournalIsInvariant, PTL DEF Spec

(* A process whose token is in the lease row believes in the run's last     *)
(* marker: nobody owns a run and writes on from an older checkpoint.       *)
THEOREM OwnersKnowTheHead == Spec => []OwnerKnowsHead
BY LeasesAreInvariant, PTL DEF LeaseInv

(* A progress frame that the loader puts over a checkpoint was written on   *)
(* top of that very checkpoint, commits that rolled back included.         *)
THEOREM FramesContinue == Spec => []FrameContinuesHead
BY LeasesAreInvariant, PTL DEF LeaseInv

(* close() leaves no unexpired lease behind unless storage failed, however  *)
(* many saves and claims were in flight when it was called.                *)
THEOREM ClosedWritersHoldNothing == Spec => []ClosedHoldsNoLease
<1>1. TypeOK /\ LeaseInv => ClosedHoldsNoLease
  <2> SUFFICES ASSUME TypeOK, LeaseInv, NEW p \in Proc, NEW r \in Run,
                      phase[p] = "closed", lease[r].owner = p, lease[r].live,
                      faults = 0
               PROVE  FALSE
    BY ConstantsAssumption DEF ClosedHoldsNoLease, TypeOK
  <2>1. active[p][r] = 0 /\ releasing[p][r] = 0
    BY DEF LeaseInv, LedgerInPhase
  <2>2. lease[r].token \in {active[p][r], releasing[p][r]}
    BY DEF LeaseInv, LeasesTracked
  <2>3. QED
    BY <2>1, <2>2 DEF LeaseInv, TokensOwned
<1>2. QED
  BY <1>1, LeasesAreInvariant, TypeCorrect, PTL
=============================================================================
