---------------------- MODULE ContinuationJournalProofs ----------------------
(* Proofs about the continuation journal, for any number of processes and   *)
(* runs and any bounds.                                                    *)
EXTENDS ContinuationJournal, SequenceTheorems, TLAPS

(* A save that ends, with or without losing its claim, leaves the writer's  *)
(* own state well typed.                                                   *)
LEMMA EndSaveTypes ==
  ASSUME TypeOK, NEW p \in Proc, save[p].run \in Run, EndSave(p)
  PROVE  /\ save' \in [Proc -> SaveState]
         /\ \A q \in Proc : save'[q].pc # "idle" => save'[q].run \in Run
         /\ active' \in [Proc -> [Run -> Nat]]
         /\ releasing' \in [Proc -> [Run -> Nat]]
<1>1. save' \in [Proc -> SaveState]
  BY DEF TypeOK, EndSave, NoSave, SaveAt, SaveState
<1>2. \A q \in Proc : save'[q].pc # "idle" => save'[q].run \in Run
  BY DEF TypeOK, EndSave, NoSave, SaveAt, SaveState
<1>3. active' \in [Proc -> [Run -> Nat]]
  BY DEF TypeOK, EndSave
<1>4. releasing' \in [Proc -> [Run -> Nat]]
  BY DEF TypeOK, EndSave, SaveState
<1>5. QED
  BY <1>1, <1>2, <1>3, <1>4

LEMMA MarkLostTypes ==
  ASSUME TypeOK, NEW p \in Proc, NEW r \in Run, MarkLost(p, r)
  PROVE  /\ active' \in [Proc -> [Run -> Nat]]
         /\ lost' \in [Proc -> SUBSET Run]
BY DEF TypeOK, MarkLost

LEMMA EndSaveLostTypes ==
  ASSUME TypeOK, NEW p \in Proc, save[p].run \in Run, EndSaveLost(p)
  PROVE  /\ save' \in [Proc -> SaveState]
         /\ \A q \in Proc : save'[q].pc # "idle" => save'[q].run \in Run
         /\ active' \in [Proc -> [Run -> Nat]]
         /\ lost' \in [Proc -> SUBSET Run]
         /\ releasing' \in [Proc -> [Run -> Nat]]
<1>1. MarkLost(p, save[p].run) /\ UNCHANGED releasing
  BY DEF EndSaveLost
<1>2. save' \in [Proc -> SaveState]
  BY DEF TypeOK, EndSaveLost, NoSave, SaveAt, SaveState
<1>3. \A q \in Proc : save'[q].pc # "idle" => save'[q].run \in Run
  BY DEF TypeOK, EndSaveLost, NoSave, SaveAt, SaveState
<1>4. QED
  BY <1>1, <1>2, <1>3, MarkLostTypes DEF TypeOK

LEMMA AdoptTypes ==
  ASSUME TypeOK, NEW p \in Proc, NEW r \in Run, Adopt(p, r)
  PROVE  belief' \in [Proc -> [Run -> Nat \cup {Unseen}]]
BY SMTT(60) DEF TypeOK, Adopt, HeadRow

(* The state always has its type: in particular tokens, snapshots and the   *)
(* rows that name them stay numbers whatever a crash leaves behind.        *)
THEOREM TypeCorrect == Spec => []TypeOK
<1> USE ConstantsAssumption DEF Unseen
<1>1. Init => TypeOK
  BY DEF Init, TypeOK, NoHead, NoLease, NoFrame, NoSave, SaveAt, Running,
         HeadRow, LeaseRow, FrameRow, SaveState
<1>2. TypeOK /\ [Next]_vars => TypeOK'
  <2> SUFFICES ASSUME TypeOK, [Next]_vars PROVE TypeOK'
    OBVIOUS
  <2> USE DEF TypeOK
  <2>1. ASSUME NEW p \in Proc, OpenSession(p) PROVE TypeOK'
    BY <2>1 DEF OpenSession, LastMark, Running, durable, counters
  <2>2. ASSUME NEW p \in Proc, InitializeHeads(p) PROVE TypeOK'
    BY <2>2
    DEF InitializeHeads, Running, Supersedes, LastMark, HeadRow, durable,
        counters
  <2>3. ASSUME NEW p \in Proc, CloseRequest(p) PROVE TypeOK'
    BY <2>3 DEF CloseRequest, Running, durable, counters
  <2>4. ASSUME NEW p \in Proc, CloseReleaseAll(p) PROVE TypeOK'
    BY <2>4 DEF CloseReleaseAll, Running, durable, counters
  <2>5. ASSUME NEW p \in Proc, CloseDone(p) PROVE TypeOK'
    BY <2>5 DEF CloseDone, Running, durable, counters
  <2>6. ASSUME NEW p \in Proc, Reload(p) PROVE TypeOK'
    BY <2>6 DEF Reload, Running, durable, counters
  <2>7. ASSUME NEW p \in Proc, Crash(p) PROVE TypeOK'
    BY <2>7 DEF Crash, Stop, NoSave, SaveAt, SaveState, durable, counters
  <2>8. ASSUME NEW p \in Proc, CrashAfterMarker(p) PROVE TypeOK'
    BY <2>8, SMTT(60)
    DEF CrashAfterMarker, Stop, NoSave, SaveAt, SaveState, durable, counters
  <2>9. ASSUME NEW p \in Proc, SaveUnderHeldLease(p) PROVE TypeOK'
    <3>1. save[p].run \in Run
      BY <2>9 DEF SaveUnderHeldLease
    <3>2. save' \in [Proc -> SaveState]
      BY <2>9, <3>1 DEF SaveUnderHeldLease, SaveAt, SaveState
    <3>3. \A q \in Proc : save'[q].pc # "idle" => save'[q].run \in Run
      BY <2>9, <3>1 DEF SaveUnderHeldLease, SaveAt, SaveState
    <3>4. QED
      BY <2>9, <3>2, <3>3 DEF SaveUnderHeldLease, durable, counters
  <2>10. ASSUME NEW p \in Proc, SaveClaim(p) PROVE TypeOK'
    <3>1. save[p].run \in Run
      BY <2>10 DEF SaveClaim
    <3>2. save' \in [Proc -> SaveState]
      BY <2>10, <3>1 DEF SaveClaim, SaveAt, SaveState
    <3>3. \A q \in Proc : save'[q].pc # "idle" => save'[q].run \in Run
      BY <2>10, <3>1 DEF SaveClaim, SaveAt, SaveState
    <3>4. belief' \in [Proc -> [Run -> Nat \cup {Unseen}]]
      BY <2>10, <3>1, AdoptTypes DEF SaveClaim, Claim
    <3>5. lease' \in [Run -> LeaseRow]
      BY <2>10, <3>1 DEF SaveClaim, Claim, LeaseRow
    <3>6. active' \in [Proc -> [Run -> Nat]]
      BY <2>10, <3>1 DEF SaveClaim, Claim
    <3>7. QED
      BY <2>10, <3>2, <3>3, <3>4, <3>5, <3>6
      DEF SaveClaim, Claim, durable, counters
  <2>11. ASSUME NEW p \in Proc, SaveClaimRefused(p) PROVE TypeOK'
    <3>1. save[p].run \in Run
      BY <2>11 DEF SaveClaimRefused
    <3>2. save' \in [Proc -> SaveState]
      BY <2>11, <3>1 DEF SaveClaimRefused, NoSave, SaveAt, SaveState
    <3>3. \A q \in Proc : save'[q].pc # "idle" => save'[q].run \in Run
      BY <2>11, <3>1 DEF SaveClaimRefused, NoSave, SaveAt, SaveState
    <3>4. belief' \in [Proc -> [Run -> Nat \cup {Unseen}]]
      BY <2>11, <3>1, AdoptTypes DEF SaveClaimRefused, ClaimRefused
    <3>5. QED
      BY <2>11, <3>2, <3>3, <3>4 DEF SaveClaimRefused, durable, counters
  <2>12. ASSUME NEW p \in Proc, Reserve(p) PROVE TypeOK'
    <3>1. save[p].run \in Run
      BY <2>12 DEF Reserve
    <3>2. save' \in [Proc -> SaveState]
      BY <2>12, <3>1 DEF Reserve, SaveAt, SaveState
    <3>3. \A q \in Proc : save'[q].pc # "idle" => save'[q].run \in Run
      BY <2>12, <3>1 DEF Reserve, SaveAt, SaveState
    <3>4. belief' \in [Proc -> [Run -> Nat \cup {Unseen}]]
      BY <2>12, <3>1, AdoptTypes DEF Reserve
    <3>5. lease' \in [Run -> LeaseRow]
      BY <2>12, <3>1 DEF Reserve, NoLease, LeaseRow
    <3>6. head' \in [Run -> HeadRow]
      BY <2>12, <3>1 DEF Reserve, HeadRow
    <3>7. snapshots' \in Seq(Nat)
      BY <2>12, <3>1 DEF Reserve, HeadRow
    <3>8. QED
      BY <2>12, <3>2, <3>3, <3>4, <3>5, <3>6, <3>7
      DEF Reserve, durable, counters
  <2>13. ASSUME NEW p \in Proc, ReserveRefused(p) PROVE TypeOK'
    <3>1. save[p].run \in Run
      BY <2>13 DEF ReserveRefused
    <3>2. /\ save' \in [Proc -> SaveState]
          /\ \A q \in Proc : save'[q].pc # "idle" => save'[q].run \in Run
          /\ active' \in [Proc -> [Run -> Nat]]
          /\ releasing' \in [Proc -> [Run -> Nat]]
          /\ lost' \in [Proc -> SUBSET Run]
      BY <2>13, <3>1, EndSaveTypes, EndSaveLostTypes DEF ReserveRefused
    <3>3. belief' \in [Proc -> [Run -> Nat \cup {Unseen}]]
      BY <2>13, <3>1, AdoptTypes DEF ReserveRefused
    <3>4. QED
      BY <2>13, <3>2, <3>3 DEF ReserveRefused, durable, counters
  <2>14. ASSUME NEW p \in Proc, Commit(p) PROVE TypeOK'
    <3>1. save[p].run \in Run
      BY <2>14 DEF Commit
    <3>2. /\ save' \in [Proc -> SaveState]
          /\ \A q \in Proc : save'[q].pc # "idle" => save'[q].run \in Run
          /\ active' \in [Proc -> [Run -> Nat]]
          /\ releasing' \in [Proc -> [Run -> Nat]]
      BY <2>14, <3>1, EndSaveTypes DEF Commit
    <3>3. belief' \in [Proc -> [Run -> Nat \cup {Unseen}]]
      BY <2>14, <3>1 DEF Commit, AppendMarker, SaveState
    <3>4. seen' \in [Proc -> [Run -> Nat]]
      BY <2>14, <3>1 DEF Commit, AppendMarker, SaveState
    <3>5. lease' \in [Run -> LeaseRow]
      BY <2>14, <3>1 DEF Commit, SetExpiry, LeaseRow
    <3>6. head' \in [Run -> HeadRow]
      BY <2>14, <3>1 DEF Commit, HeadRow, SaveState
    <3>7. working' \in [Run -> FrameRow]
      BY <2>14, <3>1 DEF Commit, FrameRow, NoFrame
    <3>8. marks' \in [Run -> Seq(Nat)]
      BY <2>14, <3>1 DEF Commit, AppendMarker, SaveState
    <3>9. QED
      BY <2>14, <3>2, <3>3, <3>4, <3>5, <3>6, <3>7, <3>8
      DEF Commit, durable, counters
  <2>15. ASSUME NEW p \in Proc, CommitFailsAfterMarker(p) PROVE TypeOK'
    <3>1. save[p].run \in Run
      BY <2>15 DEF CommitFailsAfterMarker
    <3>2. /\ save' \in [Proc -> SaveState]
          /\ \A q \in Proc : save'[q].pc # "idle" => save'[q].run \in Run
          /\ active' \in [Proc -> [Run -> Nat]]
          /\ releasing' \in [Proc -> [Run -> Nat]]
      BY <2>15, <3>1, EndSaveTypes DEF CommitFailsAfterMarker
    <3>3. belief' \in [Proc -> [Run -> Nat \cup {Unseen}]]
      BY <2>15, <3>1 DEF CommitFailsAfterMarker, AppendMarker, SaveState
    <3>4. seen' \in [Proc -> [Run -> Nat]]
      BY <2>15, <3>1 DEF CommitFailsAfterMarker, AppendMarker, SaveState
    <3>5. marks' \in [Run -> Seq(Nat)]
      BY <2>15, <3>1 DEF CommitFailsAfterMarker, AppendMarker, SaveState
    <3>6. QED
      BY <2>15, <3>2, <3>3, <3>4, <3>5
      DEF CommitFailsAfterMarker, durable, counters
  <2>16. ASSUME NEW p \in Proc, CommitRefused(p) PROVE TypeOK'
    <3>1. save[p].run \in Run
      BY <2>16 DEF CommitRefused
    <3>2. /\ save' \in [Proc -> SaveState]
          /\ \A q \in Proc : save'[q].pc # "idle" => save'[q].run \in Run
          /\ active' \in [Proc -> [Run -> Nat]]
          /\ releasing' \in [Proc -> [Run -> Nat]]
          /\ lost' \in [Proc -> SUBSET Run]
      BY <2>16, <3>1, EndSaveTypes, EndSaveLostTypes DEF CommitRefused
    <3>3. QED
      BY <2>16, <3>2 DEF CommitRefused, durable, counters
  <2>17. ASSUME NEW p \in Proc, SaveFails(p) PROVE TypeOK'
    <3>1. save[p].run \in Run
      BY <2>17 DEF SaveFails
    <3>2. /\ save' \in [Proc -> SaveState]
          /\ \A q \in Proc : save'[q].pc # "idle" => save'[q].run \in Run
          /\ active' \in [Proc -> [Run -> Nat]]
          /\ releasing' \in [Proc -> [Run -> Nat]]
      BY <2>17, <3>1, EndSaveTypes DEF SaveFails
    <3>3. QED
      BY <2>17, <3>2 DEF SaveFails, Running, durable, counters
  <2>18. ASSUME NEW p \in Proc, NEW r \in Run, AcquireRequest(p, r) PROVE TypeOK'
    BY <2>18 DEF AcquireRequest, durable, counters
  <2>19. ASSUME NEW p \in Proc, NEW r \in Run, AcquireClaim(p, r) PROVE TypeOK'
    <3>1. belief' \in [Proc -> [Run -> Nat \cup {Unseen}]]
      BY <2>19, AdoptTypes DEF AcquireClaim, Claim
    <3>2. lease' \in [Run -> LeaseRow]
      BY <2>19 DEF AcquireClaim, Claim, LeaseRow
    <3>3. active' \in [Proc -> [Run -> Nat]]
      BY <2>19 DEF AcquireClaim, Claim
    <3>4. QED
      BY <2>19, <3>1, <3>2, <3>3 DEF AcquireClaim, Claim, durable, counters
  <2>20. ASSUME NEW p \in Proc, NEW r \in Run, AcquireRefused(p, r) PROVE TypeOK'
    <3>1. belief' \in [Proc -> [Run -> Nat \cup {Unseen}]]
      BY <2>20, AdoptTypes DEF AcquireRefused, ClaimRefused
    <3>2. QED
      BY <2>20, <3>1 DEF AcquireRefused, durable, counters
  <2>21. ASSUME NEW p \in Proc, NEW r \in Run, Renew(p, r) PROVE TypeOK'
    <3>1. /\ active' \in [Proc -> [Run -> Nat]]
          /\ lost' \in [Proc -> SUBSET Run]
      BY <2>21, MarkLostTypes DEF Renew
    <3>2. lease' \in [Run -> LeaseRow]
      <4>1. CASE lease' = SetExpiry(r, TRUE)
        BY <4>1 DEF SetExpiry, LeaseRow
      <4>2. CASE UNCHANGED lease
        BY <4>2
      <4>3. QED
        BY <2>21, <4>1, <4>2 DEF Renew
    <3>3. QED
      BY <2>21, <3>1, <3>2 DEF Renew, durable, counters
  <2>22. ASSUME NEW p \in Proc, NEW r \in Run, RenewFails(p, r) PROVE TypeOK'
    <3>1. /\ active' \in [Proc -> [Run -> Nat]]
          /\ lost' \in [Proc -> SUBSET Run]
      BY <2>22, MarkLostTypes DEF RenewFails
    <3>2. QED
      BY <2>22, <3>1 DEF RenewFails, durable, counters
  <2>23. ASSUME NEW p \in Proc, NEW r \in Run, Release(p, r) PROVE TypeOK'
    BY <2>23, SMTT(60) DEF Release, durable, counters
  <2>24. ASSUME NEW p \in Proc, NEW r \in Run, ReleaseRow(p, r) PROVE TypeOK'
    <3>1. lease' \in [Run -> LeaseRow]
      BY <2>24 DEF ReleaseRow, NoLease, LeaseRow
    <3>2. releasing' \in [Proc -> [Run -> Nat]]
      BY <2>24 DEF ReleaseRow
    <3>3. QED
      BY <2>24, <3>1, <3>2 DEF ReleaseRow, durable, counters
  <2>25. ASSUME NEW p \in Proc, NEW r \in Run, ReleaseFails(p, r) PROVE TypeOK'
    BY <2>25 DEF ReleaseFails, durable, counters
  <2>26. ASSUME NEW p \in Proc, NEW r \in Run, CreateRun(p, r) PROVE TypeOK'
    BY <2>26 DEF CreateRun, durable, counters
  <2>27. ASSUME NEW p \in Proc, NEW r \in Run, SaveRequest(p, r) PROVE TypeOK'
    <3>1. save' \in [Proc -> SaveState]
      BY <2>27 DEF SaveRequest, SaveAt, SaveState
    <3>2. \A q \in Proc : save'[q].pc # "idle" => save'[q].run \in Run
      BY <2>27 DEF SaveRequest, SaveAt, SaveState
    <3>3. QED
      BY <2>27, <3>1, <3>2 DEF SaveRequest, durable, counters
  <2>28. ASSUME NEW p \in Proc, NEW r \in Run, PersistProgress(p, r) PROVE TypeOK'
    <3>1. working' \in [Run -> FrameRow]
      BY <2>28 DEF PersistProgress, FrameRow
    <3>2. QED
      BY <2>28, <3>1 DEF PersistProgress, durable, counters
  <2>29. ASSUME NEW r \in Run, Expire(r) PROVE TypeOK'
    BY <2>29 DEF Expire, SetExpiry, LeaseRow
  <2>30. CASE UNCHANGED vars
    BY <2>30 DEF vars
  <2>31. QED
    BY <2>1, <2>2, <2>3, <2>4, <2>5, <2>6, <2>7, <2>8, <2>9, <2>10, <2>11,
       <2>12, <2>13, <2>14, <2>15, <2>16, <2>17, <2>18, <2>19, <2>20, <2>21,
       <2>22, <2>23, <2>24, <2>25, <2>26, <2>27, <2>28, <2>29, <2>30
    DEF Next, SessionStep, SaveStep, LeaseStep
<1>3. QED
  BY <1>1, <1>2, PTL DEF Spec

-----------------------------------------------------------------------------
(* Work in flight is for known runs, and only while the writer accepts it. *)
LEMMA WorkStaysKnown ==
  ASSUME TypeOK, WorkIsKnown, [Next]_vars
  PROVE  WorkIsKnown'
<1> USE DEF TypeOK, WorkIsKnown
<1>1. ASSUME NEW p \in Proc, SessionStep(p) PROVE WorkIsKnown'
  <2>1. CASE OpenSession(p)
    BY <2>1 DEF OpenSession
  <2>2. CASE InitializeHeads(p)
    BY <2>2 DEF InitializeHeads
  <2>3. CASE CloseRequest(p)
    BY <2>3 DEF CloseRequest
  <2>4. CASE CloseReleaseAll(p)
    BY <2>4 DEF CloseReleaseAll
  <2>5. CASE CloseDone(p)
    BY <2>5 DEF CloseDone
  <2>6. CASE Reload(p)
    BY <2>6 DEF Reload
  <2>7. CASE Crash(p) \/ CrashAfterMarker(p)
    <3>1. Stop(p)
      BY <2>7 DEF Crash, CrashAfterMarker
    <3>2. QED
      BY <3>1 DEF Stop, NoSave, SaveAt
  <2>8. QED
    BY <1>1, <2>1, <2>2, <2>3, <2>4, <2>5, <2>6, <2>7 DEF SessionStep
<1>2. ASSUME NEW p \in Proc, SaveStep(p) PROVE WorkIsKnown'
  <2>1. save[p].pc # "idle" /\ UNCHANGED <<phase, knows, acquiring>>
    BY <1>2
    DEF SaveStep, SaveUnderHeldLease, SaveClaim, SaveClaimRefused, Reserve,
        ReserveRefused, Commit, CommitFailsAfterMarker, CommitRefused, SaveFails
  <2>2. \/ save' = [save EXCEPT ![p] = NoSave]
        \/ \E pc \in {"reserve", "commit"}, s, t \in Nat :
             save' = [save EXCEPT ![p] = SaveAt(pc, save[p].run, s, t)]
    <3>1. CASE SaveUnderHeldLease(p)
      BY <3>1 DEF SaveUnderHeldLease
    <3>2. CASE SaveClaim(p)
      <4>1. claims + 1 \in Nat /\ 0 \in Nat
        OBVIOUS
      <4>2. QED
        BY <3>2, <4>1 DEF SaveClaim
    <3>3. CASE Reserve(p)
      <4>1. Len(snapshots) + 1 \in Nat /\ save[p].token \in Nat
        BY DEF SaveState
      <4>2. QED
        BY <3>3, <4>1 DEF Reserve
    <3>4. QED
      BY <1>2, <3>1, <3>2, <3>3
      DEF SaveStep, SaveClaimRefused, ReserveRefused, Commit,
          CommitFailsAfterMarker, CommitRefused, SaveFails, EndSave, EndSaveLost
  <2>3. /\ save'[p].pc # "idle" => save'[p].run = save[p].run
        /\ \A q \in Proc \ {p} : save'[q] = save[q]
    BY <2>2 DEF NoSave, SaveAt
  <2>4. phase[p] \in {"open", "closing"}
    BY <2>1
  <2>5. QED
    BY <2>1, <2>3, <2>4
<1>3. ASSUME NEW p \in Proc, NEW r \in Run,
             LeaseStep(p, r) \/ CreateRun(p, r) \/ PersistProgress(p, r)
      PROVE  WorkIsKnown'
  <2>1. /\ UNCHANGED <<phase, save>>
        /\ \/ UNCHANGED knows
           \/ knows' = [knows EXCEPT ![p] = @ \cup {r}]
        /\ \/ UNCHANGED acquiring
           \/ acquiring' = [acquiring EXCEPT ![p] = @ \ {r}]
           \/ /\ phase[p] = "open" /\ r \in knows[p] /\ UNCHANGED knows
              /\ acquiring' = [acquiring EXCEPT ![p] = @ \cup {r}]
    BY <1>3
    DEF LeaseStep, AcquireRequest, AcquireClaim, AcquireRefused, Renew,
        RenewFails, Release, ReleaseRow, ReleaseFails, CreateRun,
        PersistProgress
  <2>2. /\ \A q \in Proc : knows[q] \subseteq knows'[q]
        /\ \A q \in Proc : \/ acquiring'[q] \subseteq acquiring[q]
                           \/ /\ phase[q] = "open"
                              /\ acquiring'[q] \subseteq knows'[q]
    <3>1. ASSUME NEW q \in Proc PROVE knows[q] \subseteq knows'[q]
      <4>1. CASE UNCHANGED knows
        BY <4>1
      <4>2. CASE knows' = [knows EXCEPT ![p] = @ \cup {r}]
        BY <4>2
      <4>3. QED
        BY <2>1, <4>1, <4>2
    <3>2. CASE UNCHANGED acquiring \/ acquiring' = [acquiring EXCEPT ![p] = @ \ {r}]
      <4>1. ASSUME NEW q \in Proc PROVE acquiring'[q] \subseteq acquiring[q]
        <5>1. CASE UNCHANGED acquiring
          BY <5>1
        <5>2. CASE acquiring' = [acquiring EXCEPT ![p] = @ \ {r}]
          BY <5>2
        <5>3. QED
          BY <3>2, <5>1, <5>2
      <4>2. QED
        BY <3>1, <4>1
    <3>3. CASE /\ phase[p] = "open" /\ r \in knows[p] /\ UNCHANGED knows
               /\ acquiring' = [acquiring EXCEPT ![p] = @ \cup {r}]
      <4>1. acquiring'[p] \subseteq knows'[p]
        BY <3>3
      <4>2. ASSUME NEW q \in Proc \ {p} PROVE acquiring'[q] \subseteq acquiring[q]
        BY <3>3
      <4>3. QED
        BY <3>1, <3>3, <4>1, <4>2
    <3>4. QED
      BY <2>1, <3>2, <3>3
  <2>3. ASSUME NEW q \in Proc, phase'[q] \notin {"open", "closing"}
        PROVE  save'[q].pc = "idle" /\ acquiring'[q] = {}
    <3>1. acquiring[q] = {} /\ save[q].pc = "idle" /\ phase[q] # "open"
      BY <2>1, <2>3
    <3>2. acquiring'[q] \subseteq {}
      BY <2>2, <3>1
    <3>3. QED
      BY <2>1, <3>1, <3>2
  <2>4. ASSUME NEW q \in Proc
        PROVE  /\ save'[q].pc # "idle" => save'[q].run \in knows'[q]
               /\ acquiring'[q] \subseteq knows'[q]
    <3>1. acquiring'[q] \subseteq acquiring[q] \/ acquiring'[q] \subseteq knows'[q]
      BY <2>2
    <3>2. acquiring[q] \subseteq knows'[q]
      BY <2>2
    <3>3. acquiring'[q] \subseteq knows'[q]
      BY <3>1, <3>2
    <3>4. save'[q].pc # "idle" => save'[q].run \in knows'[q]
      BY <2>1, <2>2
    <3>5. QED
      BY <3>3, <3>4
  <2>5. QED
    BY <2>3, <2>4
<1>4. ASSUME NEW p \in Proc, NEW r \in Run, SaveRequest(p, r)
      PROVE  WorkIsKnown'
  BY <1>4 DEF SaveRequest, SaveAt
<1>5. ASSUME NEW r \in Run, Expire(r) PROVE WorkIsKnown'
  BY <1>5 DEF Expire
<1>6. CASE UNCHANGED vars
  BY <1>6 DEF vars
<1>7. QED
  BY <1>1, <1>2, <1>3, <1>4, <1>5, <1>6 DEF Next

-----------------------------------------------------------------------------
(* JournalInv without the part about work in flight, which stands alone. *)
HistoryInv ==
  /\ RowsExist
  /\ PendingAhead
  /\ BeliefsMarked
  /\ ReservationsDistinct
  /\ FirstLookIsCreators
  /\ MarkersInReserveOrder
  /\ HeadFollowsTranscript
  /\ LinearUnlessRolledBack

(* What the steps that touch neither the heads rows nor the transcript may  *)
(* do: forget, and learn what the transcript says.                         *)
QuietStep ==
  /\ UNCHANGED <<head, snapshots, marks, rolledBack, created>>
  /\ \A p \in Proc :
       /\ save'[p].pc = "commit" => save'[p] = save[p]
       /\ knows'[p] \subseteq knows[p]
       /\ \A r \in Run :
            /\ seen'[p][r] \in Marked(r) \cup {0}
            /\ belief'[p][r] \in Marked(r) \cup {0, Unseen}
            /\ r \in knows'[p] /\ belief'[p][r] = Unseen
                 => belief[p][r] = Unseen

LEMMA QuietKeepsHistory ==
  ASSUME TypeOK, HistoryInv, QuietStep
  PROVE  HistoryInv'
<1> USE DEF HistoryInv, QuietStep
<1>1. \A r \in Run : Marked(r)' = Marked(r) /\ LastMark(r)' = LastMark(r)
  BY DEF Marked, LastMark
<1>2. RowsExist' /\ PendingAhead' /\ MarkersInReserveOrder'
  BY <1>1 DEF RowsExist, PendingAhead, MarkersInReserveOrder
<1>3. HeadFollowsTranscript' /\ LinearUnlessRolledBack'
  BY <1>1 DEF HeadFollowsTranscript, LinearUnlessRolledBack, Linear
<1>4. BeliefsMarked'
  BY <1>1 DEF BeliefsMarked
<1>5. ReservationsDistinct'
  BY <1>1 DEF ReservationsDistinct
<1>6. FirstLookIsCreators'
  <2>1. ASSUME NEW p \in Proc, NEW r \in knows'[p]
        PROVE  /\ r \in created'
               /\ belief'[p][r] = Unseen =>
                    /\ head'[r] = NoHead /\ marks'[r] = <<>>
                    /\ \A q \in Proc \ {p} : r \notin knows'[q]
    <3>1. r \in knows[p] /\ r \in Run
      BY DEF TypeOK
    <3>2. belief'[p][r] = Unseen => belief[p][r] = Unseen
      BY <3>1
    <3>3. QED
      BY <3>1, <3>2 DEF FirstLookIsCreators, NoHead
  <2>2. \A r \in Run \ created' : head'[r] = NoHead /\ marks'[r] = <<>>
    BY DEF FirstLookIsCreators, NoHead
  <2>3. QED
    BY <2>1, <2>2 DEF FirstLookIsCreators, NoHead
<1>7. QED
  BY <1>2, <1>3, <1>4, <1>5, <1>6

(* A marker of r appended to the transcript. *)
LEMMA MarkerAppended ==
  ASSUME TypeOK, NEW r \in Run, NEW s \in Nat,
         marks' = [marks EXCEPT ![r] = Append(@, s)]
  PROVE  /\ Marked(r)' = Marked(r) \cup {s}
         /\ LastMark(r)' = s
         /\ \A q \in Run \ {r} : marks'[q] = marks[q]
         /\ Len(marks'[r]) = Len(marks[r]) + 1
         /\ marks'[r][Len(marks[r]) + 1] = s
         /\ \A i \in 1..Len(marks[r]) : marks'[r][i] = marks[r][i]
<1> DEFINE m == marks[r]
<1>1. m \in Seq(Nat) /\ marks'[r] = Append(m, s)
  BY DEF TypeOK
<1>2. \A q \in Run \ {r} : marks'[q] = marks[q]
  BY DEF TypeOK
<1>3. /\ Len(marks'[r]) = Len(m) + 1
      /\ marks'[r][Len(m) + 1] = s
      /\ \A i \in 1..Len(m) : marks'[r][i] = m[i]
      /\ Len(m) \in Nat
  BY <1>1
<1>4. Marked(r)' = Marked(r) \cup {s}
  BY <1>3 DEF Marked
<1>5. LastMark(r)' = s
  <2>1. marks'[r] # <<>>
    BY <1>3
  <2>2. QED
    BY <1>3, <2>1 DEF LastMark
<1>6. QED
  BY <1>2, <1>3, <1>4, <1>5

(* A run without markers, and the last marker of one with markers. *)
LEMMA LastMarkIsMarked ==
  ASSUME TypeOK, NEW r \in Run
  PROVE  /\ LastMark(r) \in Nat
         /\ marks[r] = <<>> => Marked(r) = {} /\ LastMark(r) = 0
         /\ marks[r] # <<>> => LastMark(r) \in Marked(r)
         /\ Marked(r) \subseteq Nat
         /\ Len(marks[r]) \in Nat
<1> USE DEF TypeOK, LastMark, Marked
<1>1. marks[r] \in Seq(Nat) /\ Len(marks[r]) \in Nat
OBVIOUS
<1>2. CASE marks[r] = <<>>
  BY <1>1, <1>2
<1>3. CASE marks[r] # <<>>
  <2>1. Len(marks[r]) \in 1..Len(marks[r])
    BY <1>1, <1>3
  <2>2. QED
    BY <1>1, <1>3, <2>1
<1>4. QED
  BY <1>2, <1>3

-----------------------------------------------------------------------------
(* The commit point: the marker of a verified reservation is appended, and  *)
(* the head stays reserved (a later write failed, the process stopped) or   *)
(* is settled.                                                             *)
MarkerStep(p, r) ==
  LET s == save[p].snap
  IN /\ save[p].pc = "commit" /\ save[p].run = r
     /\ head[r] = [snap |-> s, pending |-> TRUE]
     /\ marks' = [marks EXCEPT ![r] = Append(@, s)]
     /\ \/ UNCHANGED head
        \/ head' = [head EXCEPT ![r] = [snap |-> s, pending |-> FALSE]]
     /\ UNCHANGED <<snapshots, rolledBack, created>>
     /\ save'[p].pc = "idle"
     /\ \A q \in Proc \ {p} : save'[q] = save[q]
     /\ \A q \in Proc : knows'[q] \subseteq knows[q]
     /\ \A q \in Proc, x \in Run :
          /\ \/ seen'[q][x] \in {seen[q][x], 0}
             \/ x = r /\ seen'[q][x] = s
          /\ \/ belief'[q][x] \in {belief[q][x], Unseen}
             \/ x = r /\ belief'[q][x] = s
          /\ x \in knows'[q] /\ belief'[q][x] = Unseen =>
               belief[q][x] = Unseen /\ ~(q = p /\ x = r)

LEMMA MarkerKeepsHistory ==
  ASSUME TypeOK, HistoryInv, WorkIsKnown,
         NEW p \in Proc, NEW r \in Run, MarkerStep(p, r)
  PROVE  HistoryInv'
<1> DEFINE s == save[p].snap
<1> USE DEF HistoryInv
<1>1. /\ s \in Nat /\ s # 0 /\ s <= Len(snapshots)
      /\ \A x \in Run : s \notin Marked(x)
      /\ \A i \in Marked(r) : i < s
  <2>1. s \in 1..Len(snapshots) /\ \A x \in Run : s \notin Marked(x)
    BY DEF MarkerStep, ReservationsDistinct
  <2>2. head[r].pending /\ head[r].snap = s
    BY DEF MarkerStep
  <2>3. \A i \in Marked(r) : i < s
    BY <2>1, <2>2 DEF PendingAhead
  <2>4. Len(snapshots) \in Nat
    BY DEF TypeOK
  <2>5. QED
    BY <2>1, <2>3, <2>4
<1>2. /\ Marked(r)' = Marked(r) \cup {s}
      /\ LastMark(r)' = s
      /\ \A q \in Run \ {r} : marks'[q] = marks[q]
      /\ Len(marks'[r]) = Len(marks[r]) + 1
      /\ marks'[r][Len(marks[r]) + 1] = s
      /\ \A i \in 1..Len(marks[r]) : marks'[r][i] = marks[r][i]
  BY <1>1, MarkerAppended DEF MarkerStep
<1>3. \A q \in Run \ {r} : Marked(q)' = Marked(q) /\ LastMark(q)' = LastMark(q)
  BY <1>2 DEF Marked, LastMark
<1>4. /\ \A q \in Run \ {r} : head'[q] = head[q]
      /\ head'[r].snap = s
      /\ snapshots' = snapshots /\ rolledBack' = rolledBack
  BY DEF MarkerStep, TypeOK
<1>5. Len(marks[r]) \in Nat
  BY LastMarkIsMarked
<1>6. RowsExist'
  <2>1. \A i \in 1..Len(snapshots') : snapshots'[i] < i
    BY <1>4 DEF RowsExist
  <2>2. \A q \in Run : head'[q].snap <= Len(snapshots')
    BY <1>1, <1>4 DEF RowsExist
  <2>3. \A q \in Run : Marked(q)' \subseteq 1..Len(snapshots')
    <3>1. Len(snapshots) \in Nat
      BY DEF TypeOK
    <3>2. QED
      BY <1>1, <1>2, <1>3, <1>4, <3>1 DEF RowsExist
  <2>4. QED
    BY <2>1, <2>2, <2>3 DEF RowsExist
<1>7. PendingAhead'
  BY <1>1, <1>2, <1>3, <1>4 DEF PendingAhead
<1>8. BeliefsMarked'
  BY <1>2, <1>3 DEF BeliefsMarked, MarkerStep
<1>9. ReservationsDistinct'
  <2>1. ASSUME NEW q \in Proc, save'[q].pc = "commit"
        PROVE  /\ q # p /\ save'[q] = save[q]
               /\ save[q].snap # s
    BY <2>1 DEF MarkerStep, ReservationsDistinct
  <2>2. QED
    BY <1>2, <1>3, <1>4, <2>1 DEF ReservationsDistinct
<1>10. FirstLookIsCreators'
  <2>1. r \in knows[p] /\ r \in created
    BY DEF MarkerStep, WorkIsKnown, FirstLookIsCreators
  <2>2. created' = created /\ \A q \in Proc : knows'[q] \subseteq knows[q]
    BY DEF MarkerStep
  <2>3. ASSUME NEW q \in Proc, NEW x \in knows'[q]
        PROVE  /\ x \in created
               /\ belief'[q][x] = Unseen =>
                    /\ head'[x] = NoHead /\ marks'[x] = <<>>
                    /\ \A o \in Proc \ {q} : x \notin knows'[o]
    <3>1. x \in Run /\ x \in knows[q]
      BY <2>2 DEF TypeOK
    <3>2. belief'[q][x] = Unseen => belief[q][x] = Unseen /\ x # r
      BY <2>1, <3>1 DEF MarkerStep, FirstLookIsCreators
    <3>3. QED
      BY <1>2, <1>4, <2>2, <3>1, <3>2 DEF FirstLookIsCreators, NoHead
  <2>4. \A x \in Run \ created : head'[x] = NoHead /\ marks'[x] = <<>>
    BY <1>2, <1>4, <2>1 DEF FirstLookIsCreators, NoHead
  <2>5. QED
    BY <2>2, <2>3, <2>4 DEF FirstLookIsCreators, NoHead
<1>11. MarkersInReserveOrder'
  <2>1. ASSUME NEW i \in 1..Len(marks'[r]), NEW j \in 1..Len(marks'[r]), i < j
        PROVE  marks'[r][i] < marks'[r][j]
    <3>1. i \in 1..Len(marks[r])
      BY <1>2, <1>5, <2>1
    <3>2. marks[r][i] \in Marked(r)
      BY <3>1 DEF Marked
    <3>3. CASE j = Len(marks[r]) + 1
      BY <1>1, <1>2, <3>1, <3>2, <3>3
    <3>4. CASE j \in 1..Len(marks[r])
      BY <1>2, <2>1, <3>1, <3>4 DEF MarkersInReserveOrder
    <3>5. QED
      BY <1>2, <1>5, <3>3, <3>4
  <2>2. QED
    BY <1>2, <2>1 DEF MarkersInReserveOrder
<1>12. HeadFollowsTranscript'
  <2>1. s \in Marked(r)'
    BY <1>2
  <2>2. QED
    BY <1>2, <1>3, <1>4, <2>1 DEF HeadFollowsTranscript
<1>13. LinearUnlessRolledBack'
  <2>1. ASSUME r \notin rolledBack PROVE Linear(r)'
    <3>1. snapshots[s] = LastMark(r)
      <4>1. s # LastMark(r)
        BY <1>1, LastMarkIsMarked
      <4>2. QED
        BY <2>1, <4>1 DEF HeadFollowsTranscript, MarkerStep
    <3>2. ASSUME NEW i \in 1..Len(marks'[r])
          PROVE  snapshots[marks'[r][i]] = IF i = 1 THEN 0 ELSE marks'[r][i - 1]
      <4>1. CASE i = Len(marks[r]) + 1
        <5>1. CASE marks[r] = <<>>
          <6>1. Len(marks[r]) = 0
            BY <5>1
          <6>2. QED
            BY <1>2, <3>1, <4>1, <5>1, <6>1 DEF LastMark
        <5>2. CASE marks[r] # <<>>
          <6>1. Len(marks[r]) # 0
            BY <5>2 DEF TypeOK
          <6>2. i - 1 = Len(marks[r]) /\ i # 1 /\ i - 1 \in 1..Len(marks[r])
            BY <1>5, <4>1, <6>1
          <6>3. QED
            BY <1>2, <3>1, <4>1, <5>2, <6>2 DEF LastMark
        <5>3. QED
          BY <5>1, <5>2
      <4>2. CASE i \in 1..Len(marks[r])
        <5>1. Linear(r)
          BY <2>1 DEF LinearUnlessRolledBack
        <5>2. marks'[r][i] = marks[r][i] /\ (i # 1 => marks'[r][i - 1] = marks[r][i - 1])
          BY <1>2, <1>5, <4>2
        <5>3. QED
          BY <4>2, <5>1, <5>2 DEF Linear
      <4>3. QED
        BY <1>2, <1>5, <4>1, <4>2
    <3>3. QED
      BY <1>4, <3>2 DEF Linear
  <2>2. ASSUME NEW q \in Run \ rolledBack, q # r PROVE Linear(q)'
    BY <1>2, <1>4, <2>2 DEF LinearUnlessRolledBack, Linear
  <2>3. QED
    BY <1>4, <2>1, <2>2 DEF LinearUnlessRolledBack
<1>14. QED
  BY <1>6, <1>7, <1>8, <1>9, <1>10, <1>11, <1>12, <1>13

-----------------------------------------------------------------------------
(* A process that may save a run and verifies its head has verified a       *)
(* checkpoint of the transcript, the last one unless the run was set back. *)
LEMMA VerifiedHeadIsMarked ==
  ASSUME TypeOK, HistoryInv, NEW p \in Proc, NEW r \in knows[p],
         Verified(p, r)
  PROVE  /\ head[r].snap \in Marked(r) \cup {0}
         /\ r \notin rolledBack => head[r].snap = LastMark(r)
<1> USE DEF HistoryInv
<1>1. r \in Run
  BY DEF TypeOK
<1>2. head[r].snap \in Marked(r) \cup {0}
  <2>1. CASE belief[p][r] = Unseen
    BY <2>1 DEF FirstLookIsCreators, NoHead
  <2>2. CASE belief[p][r] # Unseen /\ belief[p][r] = head[r].snap
    BY <1>1, <2>2 DEF BeliefsMarked
  <2>3. QED
    BY <2>1, <2>2 DEF Verified
<1>3. ASSUME r \notin rolledBack PROVE head[r].snap = LastMark(r)
  BY <1>1, <1>2, <1>3 DEF HeadFollowsTranscript, PendingAhead
<1>4. QED
  BY <1>2, <1>3

(* What a process adopts from a verified head. *)
LEMMA AdoptLearns ==
  ASSUME TypeOK, HistoryInv, NEW p \in Proc, NEW r \in knows[p],
         Verified(p, r), Adopt(p, r)
  PROVE  \A q \in Proc, x \in Run :
           /\ belief'[q][x] \in Marked(x) \cup {0, Unseen}
           /\ belief'[q][x] = Unseen => belief[q][x] = Unseen /\ ~(q = p /\ x = r)
<1>1. r \in Run
  BY DEF TypeOK
<1>2. head[r].snap \in Marked(r) \cup {0} /\ head[r].snap # Unseen
  BY <1>1, VerifiedHeadIsMarked, SMTT(60) DEF TypeOK, HeadRow, Unseen
<1>3. \A q \in Proc, x \in Run : belief[q][x] \in Marked(x) \cup {0, Unseen}
  BY DEF HistoryInv, BeliefsMarked
<1>4. belief'[p][r] \in Marked(r) \cup {0} /\ belief'[p][r] # Unseen
  <2>1. belief'[p][r] = IF belief[p][r] = Unseen THEN head[r].snap ELSE belief[p][r]
    BY <1>1 DEF Adopt, TypeOK
  <2>2. QED
    BY <1>1, <1>2, <1>3, <2>1
<1>5. \A q \in Proc, x \in Run : ~(q = p /\ x = r) => belief'[q][x] = belief[q][x]
  BY <1>1 DEF Adopt, TypeOK
<1>6. QED
  BY <1>3, <1>4, <1>5

(* The first transaction. *)
LEMMA ReserveKeepsHistory ==
  ASSUME TypeOK, HistoryInv, WorkIsKnown, NEW p \in Proc, Reserve(p)
  PROVE  HistoryInv'
<1> DEFINE r == save[p].run
           s == Len(snapshots) + 1
<1> USE DEF HistoryInv
<1>1. r \in Run /\ r \in knows[p] /\ r \in created
  BY DEF Reserve, TypeOK, WorkIsKnown, FirstLookIsCreators
<1>2. /\ snapshots \in Seq(Nat) /\ Len(snapshots) \in Nat /\ s \in Nat
      /\ head[r].snap \in Nat
  BY <1>1 DEF TypeOK, HeadRow
<1>3. /\ head[r].snap \in Marked(r) \cup {0}
      /\ r \notin rolledBack => head[r].snap = LastMark(r)
  BY <1>1, VerifiedHeadIsMarked DEF Reserve
<1>4. /\ Len(snapshots') = s
      /\ snapshots'[s] = head[r].snap
      /\ \A i \in 1..Len(snapshots) : snapshots'[i] = snapshots[i]
  BY <1>2 DEF Reserve
<1>5. /\ head'[r].snap = s /\ head'[r].pending
      /\ \A q \in Run \ {r} : head'[q] = head[q]
  BY <1>1 DEF Reserve, TypeOK
<1>6. /\ marks' = marks /\ rolledBack' = rolledBack /\ seen' = seen
      /\ created' = created /\ knows' = knows
  BY DEF Reserve
<1>7. \A q \in Run : Marked(q)' = Marked(q) /\ LastMark(q)' = LastMark(q)
  BY <1>6 DEF Marked, LastMark
<1>8. \A q \in Run : \A i \in Marked(q) : i \in 1..Len(snapshots) /\ i < s
  BY <1>2 DEF RowsExist
<1>9. \A q \in Proc, x \in Run :
        /\ belief'[q][x] \in Marked(x) \cup {0, Unseen}
        /\ belief'[q][x] = Unseen => belief[q][x] = Unseen /\ ~(q = p /\ x = r)
  BY <1>1, AdoptLearns DEF Reserve
<1>10. RowsExist'
  <2>1. \A i \in 1..Len(snapshots') : snapshots'[i] < i
    BY <1>1, <1>2, <1>4 DEF RowsExist
  <2>2. \A q \in Run : head'[q].snap <= Len(snapshots')
    <3>1. \A q \in Run : head[q].snap \in Nat /\ head[q].snap <= Len(snapshots)
      BY DEF RowsExist, TypeOK, HeadRow
    <3>2. QED
      BY <1>2, <1>4, <1>5, <3>1
  <2>3. \A q \in Run : Marked(q)' \subseteq 1..Len(snapshots')
    BY <1>2, <1>4, <1>7 DEF RowsExist
  <2>4. QED
    BY <2>1, <2>2, <2>3 DEF RowsExist
<1>11. PendingAhead'
  BY <1>2, <1>5, <1>7, <1>8 DEF PendingAhead
<1>12. BeliefsMarked'
  BY <1>6, <1>7, <1>9 DEF BeliefsMarked
<1>13. ReservationsDistinct'
  <2>1. save'[p].snap = s /\ \A q \in Proc \ {p} : save'[q] = save[q]
    BY DEF Reserve, SaveAt, TypeOK
  <2>2. \A q \in Proc \ {p} : save[q].pc = "commit" =>
          /\ save[q].snap \in 1..Len(snapshots)
          /\ save[q].snap \in 1..Len(snapshots')
          /\ save[q].snap # s
          /\ \A x \in Run : save[q].snap \notin Marked(x)
    BY <1>2, <1>4 DEF ReservationsDistinct
  <2>3. s \in 1..Len(snapshots') /\ \A x \in Run : s \notin Marked(x)
    BY <1>2, <1>4, <1>8
  <2>4. QED
    BY <1>7, <2>1, <2>2, <2>3 DEF ReservationsDistinct
<1>14. FirstLookIsCreators'
  <2>1. ASSUME NEW q \in Proc, NEW x \in knows[q]
        PROVE  /\ x \in created
               /\ belief'[q][x] = Unseen =>
                    /\ head'[x] = NoHead /\ marks[x] = <<>>
                    /\ \A o \in Proc \ {q} : x \notin knows[o]
    <3>1. x \in Run
      BY DEF TypeOK
    <3>2. belief'[q][x] = Unseen => belief[q][x] = Unseen /\ x # r
      BY <1>1, <1>9, <3>1 DEF FirstLookIsCreators
    <3>3. QED
      BY <1>5, <3>1, <3>2 DEF FirstLookIsCreators, NoHead
  <2>2. \A x \in Run \ created : head'[x] = NoHead /\ marks[x] = <<>>
    BY <1>1, <1>5 DEF FirstLookIsCreators, NoHead
  <2>3. QED
    BY <1>6, <2>1, <2>2 DEF FirstLookIsCreators, NoHead
<1>15. MarkersInReserveOrder'
  BY <1>6 DEF MarkersInReserveOrder
<1>16. HeadFollowsTranscript'
  <2>1. ASSUME NEW q \in Run \ {r}, head[q].pending
        PROVE  snapshots'[head[q].snap] = snapshots[head[q].snap]
    <3>1. head[q].snap \in Nat
      BY DEF TypeOK, HeadRow
    <3>2. head[q].snap \in 1..Len(snapshots)
      BY <1>2, <2>1, <3>1 DEF RowsExist, PendingAhead
    <3>3. QED
      BY <1>4, <3>2
  <2>2. s \notin Marked(r)
    BY <1>1, <1>2, <1>8
  <2>3. QED
    BY <1>1, <1>3, <1>4, <1>5, <1>6, <1>7, <2>1, <2>2 DEF HeadFollowsTranscript
<1>17. LinearUnlessRolledBack'
  <2>1. ASSUME NEW q \in Run, NEW i \in 1..Len(marks[q])
        PROVE  snapshots'[marks[q][i]] = snapshots[marks[q][i]]
    <3>1. marks[q][i] \in Marked(q)
      BY DEF Marked
    <3>2. QED
      BY <1>4, <1>8, <3>1
  <2>2. QED
    BY <1>6, <2>1 DEF LinearUnlessRolledBack, Linear
<1>18. QED
  BY <1>10, <1>11, <1>12, <1>13, <1>14, <1>15, <1>16, <1>17

(* A load.  The rows it moves, it moves to markers of the transcript. *)
LEMMA LoadKeepsHistory ==
  ASSUME TypeOK, HistoryInv, WorkIsKnown, NEW p \in Proc, InitializeHeads(p)
  PROVE  HistoryInv'
<1> USE DEF HistoryInv
<1>1. /\ marks' = marks /\ snapshots' = snapshots /\ seen' = seen
      /\ created' = created /\ save' = save
  BY DEF InitializeHeads
<1>2. \A q \in Run : Marked(q)' = Marked(q) /\ LastMark(q)' = LastMark(q)
  BY <1>1 DEF Marked, LastMark
<1>3. ASSUME NEW r \in Run
      PROVE  \/ /\ head'[r] = head[r]
                /\ r \notin rolledBack' => r \notin rolledBack
             \/ /\ head'[r].snap = seen[p][r] /\ ~head'[r].pending
                /\ seen[p][r] \in Marked(r)
                /\ r \notin rolledBack' => seen[p][r] = LastMark(r)
  <2>1. CASE Supersedes(p, r)
    <3>1. seen[p][r] \in Marked(r)
      BY <2>1 DEF Supersedes, BeliefsMarked
    <3>2. QED
      BY <2>1, <3>1 DEF InitializeHeads
  <2>2. CASE ~Supersedes(p, r)
    BY <2>2 DEF InitializeHeads
  <2>3. QED
    BY <2>1, <2>2
<1>4. \A q \in Proc : knows'[q] = IF q = p THEN {r \in Run : seen[p][r] # 0}
                                          ELSE knows[q]
  BY DEF InitializeHeads, TypeOK
<1>5. \A q \in Proc, r \in Run :
        belief'[q][r] = IF q # p THEN belief[q][r]
                        ELSE IF seen[p][r] = 0 THEN Unseen ELSE seen[p][r]
  BY DEF InitializeHeads, TypeOK
<1>6. \A r \in Run : seen[p][r] # 0 => seen[p][r] \in Marked(r) /\ marks[r] # <<>>
  BY LastMarkIsMarked DEF BeliefsMarked
<1>7. RowsExist'
  <2>1. ASSUME NEW r \in Run PROVE head'[r].snap <= Len(snapshots)
    <3>1. \A s \in Marked(r) : s <= Len(snapshots)
      BY DEF RowsExist, TypeOK
    <3>2. QED
      BY <1>3, <3>1 DEF RowsExist
  <2>2. QED
    BY <1>1, <1>2, <2>1 DEF RowsExist
<1>8. PendingAhead'
  BY <1>2, <1>3 DEF PendingAhead
<1>9. BeliefsMarked'
  BY <1>1, <1>2, <1>5 DEF BeliefsMarked
<1>10. ReservationsDistinct'
  BY <1>1, <1>2 DEF ReservationsDistinct
<1>11. FirstLookIsCreators'
  <2>1. ASSUME NEW r \in Run, marks[r] = <<>>
        PROVE  /\ head'[r] = head[r]
               /\ seen[p][r] = 0
    BY <1>3, <1>6, <2>1, LastMarkIsMarked
  <2>2. ASSUME NEW q \in Proc, NEW r \in knows'[q]
        PROVE  /\ r \in created
               /\ belief'[q][r] = Unseen =>
                    /\ head'[r] = NoHead /\ marks[r] = <<>>
                    /\ \A o \in Proc \ {q} : r \notin knows'[o]
    <3>1. CASE q = p
      <4>1. r \in Run /\ seen[p][r] # 0 /\ seen[p][r] \in Nat
        <5>1. r \in {x \in Run : seen[p][x] # 0}
          BY <1>4, <3>1
        <5>2. QED
          BY <5>1 DEF TypeOK
      <4>2. r \in created
        BY <1>6, <4>1 DEF FirstLookIsCreators
      <4>3. belief'[q][r] # Unseen
        BY <1>5, <3>1, <4>1 DEF Unseen
      <4>4. QED
        BY <4>2, <4>3
    <3>2. CASE q # p
      <4>1. r \in Run /\ r \in knows[q] /\ belief'[q][r] = belief[q][r]
        BY <1>4, <1>5, <3>2 DEF TypeOK
      <4>2. QED
        <5>1. r \in created
          BY <4>1 DEF FirstLookIsCreators
        <5>2. ASSUME belief[q][r] = Unseen
              PROVE  /\ head'[r] = NoHead /\ marks[r] = <<>>
                     /\ \A o \in Proc \ {q} : r \notin knows'[o]
          <6>1. /\ head[r] = NoHead /\ marks[r] = <<>>
                /\ \A o \in Proc \ {q} : r \notin knows[o]
            BY <4>1, <5>2 DEF FirstLookIsCreators
          <6>2. head'[r] = head[r] /\ seen[p][r] = 0
            BY <2>1, <4>1, <6>1
          <6>3. r \notin knows'[p]
            BY <1>4, <6>2
          <6>4. QED
            BY <1>4, <6>1, <6>2, <6>3
        <5>3. QED
          BY <4>1, <5>1, <5>2
    <3>3. QED
      BY <3>1, <3>2
  <2>3. \A r \in Run \ created : head'[r] = NoHead /\ marks[r] = <<>>
    BY <2>1 DEF FirstLookIsCreators
  <2>4. QED
    BY <1>1, <2>2, <2>3 DEF FirstLookIsCreators, NoHead
<1>12. MarkersInReserveOrder'
  BY <1>1 DEF MarkersInReserveOrder
<1>13. HeadFollowsTranscript'
  <2>1. ASSUME NEW r \in Run
        PROVE  /\ ~head'[r].pending => head'[r].snap \in Marked(r) \cup {0}
               /\ r \notin rolledBack' =>
                    \/ head'[r].snap = LastMark(r)
                    \/ /\ head'[r].pending
                       /\ head'[r].snap \notin Marked(r)
                       /\ snapshots[head'[r].snap] = LastMark(r)
    BY <1>3 DEF HeadFollowsTranscript
  <2>2. QED
    BY <1>1, <1>2, <2>1 DEF HeadFollowsTranscript
<1>14. LinearUnlessRolledBack'
  BY <1>1 DEF InitializeHeads, LinearUnlessRolledBack, Linear
<1>15. QED
  BY <1>7, <1>8, <1>9, <1>10, <1>11, <1>12, <1>13, <1>14

LEMMA CreateKeepsHistory ==
  ASSUME TypeOK, HistoryInv, NEW p \in Proc, NEW r \in Run, CreateRun(p, r)
  PROVE  HistoryInv'
<1> USE DEF HistoryInv
<1>1. /\ marks' = marks /\ snapshots' = snapshots /\ seen' = seen
      /\ head' = head /\ save' = save /\ belief' = belief
      /\ rolledBack' = rolledBack /\ created' = created \cup {r}
  BY DEF CreateRun, durable
<1>2. \A q \in Run : Marked(q)' = Marked(q) /\ LastMark(q)' = LastMark(q)
  BY <1>1 DEF Marked, LastMark
<1>3. RowsExist' /\ PendingAhead' /\ BeliefsMarked' /\ ReservationsDistinct'
  BY <1>1, <1>2 DEF RowsExist, PendingAhead, BeliefsMarked, ReservationsDistinct
<1>4. MarkersInReserveOrder' /\ HeadFollowsTranscript' /\ LinearUnlessRolledBack'
  BY <1>1, <1>2
  DEF MarkersInReserveOrder, HeadFollowsTranscript, LinearUnlessRolledBack, Linear
<1>5. FirstLookIsCreators'
  <2>1. /\ r \notin created /\ head[r] = NoHead /\ marks[r] = <<>>
        /\ \A q \in Proc : r \notin knows[q]
    BY DEF CreateRun, FirstLookIsCreators
  <2>2. \A q \in Proc : knows'[q] = IF q = p THEN knows[p] \cup {r} ELSE knows[q]
    BY DEF CreateRun, TypeOK
  <2>3. QED
    BY <1>1, <2>1, <2>2 DEF FirstLookIsCreators, NoHead
<1>6. QED
  BY <1>3, <1>4, <1>5

(* The steps that leave the durable history alone and at most adopt a      *)
(* verified head.                                                          *)
LEMMA AdoptingIsQuiet ==
  ASSUME TypeOK, HistoryInv, NEW p \in Proc,
         UNCHANGED <<head, snapshots, marks, rolledBack, created, seen, knows>>,
         \A q \in Proc : save'[q].pc = "commit" => save'[q] = save[q],
         \/ UNCHANGED belief
         \/ \E r \in knows[p] : Verified(p, r) /\ Adopt(p, r)
  PROVE  QuietStep
<1>1. \A q \in Proc, x \in Run :
        /\ seen'[q][x] \in Marked(x) \cup {0}
        /\ belief'[q][x] \in Marked(x) \cup {0, Unseen}
        /\ belief'[q][x] = Unseen => belief[q][x] = Unseen
  <2>1. CASE UNCHANGED belief
    BY <2>1 DEF HistoryInv, BeliefsMarked
  <2>2. CASE \E r \in knows[p] : Verified(p, r) /\ Adopt(p, r)
    BY <2>2, AdoptLearns DEF HistoryInv, BeliefsMarked
  <2>3. QED
    BY <2>1, <2>2
<1>2. QED
  BY <1>1 DEF QuietStep

(* What a step does to the history: nothing, one of the two transactions,   *)
(* a load, or the creation of a run.                                       *)
StepKind ==
  \/ QuietStep
  \/ \E p \in Proc, r \in Run : MarkerStep(p, r)
  \/ \E p \in Proc : Reserve(p)
  \/ \E p \in Proc : InitializeHeads(p)
  \/ \E p \in Proc, r \in Run : CreateRun(p, r)

LEMMA EveryStepHasAKind ==
  ASSUME TypeOK, HistoryInv, WorkIsKnown, [Next]_vars
  PROVE  StepKind
<1>1. ASSUME NEW p \in Proc, SessionStep(p) PROVE StepKind
  <2>1. CASE OpenSession(p)
    <3>1. \A r \in Run : LastMark(r) \in Marked(r) \cup {0}
      BY LastMarkIsMarked
    <3>2. \A q \in Proc, r \in Run : seen'[q][r] \in Marked(r) \cup {0}
      BY <2>1, <3>1 DEF OpenSession, TypeOK, HistoryInv, BeliefsMarked
    <3>3. QuietStep
      BY <2>1, <3>2
      DEF OpenSession, durable, QuietStep, HistoryInv, BeliefsMarked
    <3>4. QED
      BY <3>3 DEF StepKind
  <2>2. CASE InitializeHeads(p)
    BY <2>2 DEF StepKind
  <2>3. CASE CloseRequest(p) \/ CloseReleaseAll(p) \/ CloseDone(p) \/ Reload(p)
    <3>1. QuietStep
      BY <2>3, AdoptingIsQuiet
      DEF CloseRequest, CloseReleaseAll, CloseDone, Reload, durable
    <3>2. QED
      BY <3>1 DEF StepKind
  <2>4. CASE Crash(p)
    <3>1. \A q \in Proc, r \in Run :
            /\ seen'[q][r] \in {seen[q][r], 0}
            /\ belief'[q][r] \in {belief[q][r], Unseen}
            /\ r \in knows'[q] => belief'[q][r] = belief[q][r]
      BY <2>4 DEF Crash, Stop, TypeOK
    <3>2. \A q \in Proc : /\ save'[q].pc = "commit" => save'[q] = save[q]
                          /\ knows'[q] \subseteq knows[q]
      BY <2>4 DEF Crash, Stop, TypeOK, NoSave, SaveAt
    <3>3. QuietStep
      BY <2>4, <3>1, <3>2
      DEF Crash, durable, QuietStep, HistoryInv, BeliefsMarked
    <3>4. QED
      BY <3>3 DEF StepKind
  <2>5. CASE CrashAfterMarker(p)
    <3>1. save[p].run \in Run
      BY <2>5 DEF CrashAfterMarker, TypeOK
    <3>2. \A q \in Proc, r \in Run :
            /\ seen'[q][r] \in {seen[q][r], 0}
            /\ belief'[q][r] \in {belief[q][r], Unseen}
            /\ r \in knows'[q] => q # p /\ belief'[q][r] = belief[q][r]
      BY <2>5 DEF CrashAfterMarker, Stop, TypeOK
    <3>3. /\ save'[p].pc = "idle"
          /\ \A q \in Proc \ {p} : save'[q] = save[q]
          /\ \A q \in Proc : knows'[q] \subseteq knows[q]
      BY <2>5 DEF CrashAfterMarker, Stop, TypeOK, NoSave, SaveAt
    <3>4. MarkerStep(p, save[p].run)
      <4>1. /\ save[p].pc = "commit"
            /\ head[save[p].run] = [snap |-> save[p].snap, pending |-> TRUE]
            /\ marks' = [marks EXCEPT ![save[p].run] = Append(@, save[p].snap)]
            /\ UNCHANGED <<head, snapshots, rolledBack, created>>
        BY <2>5 DEF CrashAfterMarker, MayCommit
      <4>2. QED
        BY <3>2, <3>3, <4>1 DEF MarkerStep
    <3>5. QED
      BY <3>1, <3>4 DEF StepKind
  <2>6. QED
    BY <1>1, <2>1, <2>2, <2>3, <2>4, <2>5 DEF SessionStep
<1>2. ASSUME NEW p \in Proc, SaveStep(p) PROVE StepKind
  <2>1. save[p].run \in Run /\ save[p].run \in knows[p]
    BY <1>2
    DEF TypeOK, WorkIsKnown, SaveStep, SaveUnderHeldLease, SaveClaim,
        SaveClaimRefused, Reserve, ReserveRefused, Commit,
        CommitFailsAfterMarker, CommitRefused, SaveFails
  <2>2. CASE SaveUnderHeldLease(p) \/ SaveClaim(p) \/ SaveClaimRefused(p)
    <3>1. \A q \in Proc : save'[q].pc = "commit" => save'[q] = save[q]
      BY <2>2
      DEF SaveUnderHeldLease, SaveClaim, SaveClaimRefused, SaveAt, NoSave, TypeOK
    <3>2. \/ UNCHANGED belief
          \/ Verified(p, save[p].run) /\ Adopt(p, save[p].run)
      BY <2>2
      DEF SaveUnderHeldLease, SaveClaim, SaveClaimRefused, Claim, Claimable,
          ClaimRefused
    <3>3. QuietStep
      BY <2>1, <2>2, <3>1, <3>2, AdoptingIsQuiet
      DEF SaveUnderHeldLease, SaveClaim, SaveClaimRefused, durable
    <3>4. QED
      BY <3>3 DEF StepKind
  <2>3. CASE Reserve(p)
    BY <2>3 DEF StepKind
  <2>4. CASE ReserveRefused(p) \/ CommitRefused(p) \/ SaveFails(p)
    <3>1. save' = [save EXCEPT ![p] = NoSave]
      BY <2>4 DEF ReserveRefused, CommitRefused, SaveFails, EndSave, EndSaveLost
    <3>2. \A q \in Proc : save'[q].pc = "commit" => save'[q] = save[q]
      BY <3>1 DEF SaveAt, NoSave, TypeOK
    <3>3. \/ UNCHANGED belief
          \/ Verified(p, save[p].run) /\ Adopt(p, save[p].run)
      BY <2>4 DEF ReserveRefused, CommitRefused, SaveFails
    <3>4. QuietStep
      BY <2>1, <2>4, <3>2, <3>3, AdoptingIsQuiet
      DEF ReserveRefused, CommitRefused, SaveFails, durable
    <3>5. QED
      BY <3>4 DEF StepKind
  <2>5. CASE Commit(p) \/ CommitFailsAfterMarker(p)
    <3>1. /\ MayCommit(p, save[p].run) /\ AppendMarker(p, save[p].run)
          /\ save[p].pc = "commit"
          /\ save' = [save EXCEPT ![p] = NoSave]
          /\ UNCHANGED <<snapshots, rolledBack, created, knows>>
          /\ \/ UNCHANGED head
             \/ head' = [head EXCEPT ![save[p].run] =
                           [snap |-> save[p].snap, pending |-> FALSE]]
      BY <2>5 DEF Commit, CommitFailsAfterMarker, EndSave
    <3>2. /\ save'[p].pc = "idle"
          /\ \A q \in Proc \ {p} : save'[q] = save[q]
      BY <3>1 DEF NoSave, SaveAt, TypeOK
    <3>3. save[p].snap # Unseen
      BY DEF TypeOK, SaveState, Unseen
    <3>4. \A q \in Proc, x \in Run :
            /\ seen'[q][x] = IF q = p /\ x = save[p].run THEN save[p].snap
                                                        ELSE seen[q][x]
            /\ belief'[q][x] = IF q = p /\ x = save[p].run THEN save[p].snap
                                                          ELSE belief[q][x]
      BY <2>1, <3>1, SMTT(60) DEF AppendMarker, TypeOK
    <3>5. MarkerStep(p, save[p].run)
      <4>1. /\ head[save[p].run] = [snap |-> save[p].snap, pending |-> TRUE]
            /\ marks' = [marks EXCEPT ![save[p].run] = Append(@, save[p].snap)]
        BY <3>1 DEF MayCommit, AppendMarker
      <4>2. \A q \in Proc, x \in Run :
              /\ \/ seen'[q][x] = seen[q][x]
                 \/ x = save[p].run /\ seen'[q][x] = save[p].snap
              /\ \/ belief'[q][x] = belief[q][x]
                 \/ x = save[p].run /\ belief'[q][x] = save[p].snap
              /\ belief'[q][x] = Unseen =>
                   belief[q][x] = Unseen /\ ~(q = p /\ x = save[p].run)
        BY <3>3, <3>4
      <4>3. QED
        BY <3>1, <3>2, <4>1, <4>2 DEF MarkerStep
    <3>6. QED
      BY <2>1, <3>5 DEF StepKind
  <2>6. QED
    BY <1>2, <2>2, <2>3, <2>4, <2>5 DEF SaveStep
<1>3. ASSUME NEW p \in Proc, NEW r \in Run, LeaseStep(p, r) PROVE StepKind
  <2>1. UNCHANGED <<head, snapshots, marks, rolledBack, created, seen, knows, save>>
    BY <1>3
    DEF LeaseStep, AcquireRequest, AcquireClaim, AcquireRefused, Renew,
        RenewFails, Release, ReleaseRow, ReleaseFails, durable
  <2>2. \/ UNCHANGED belief
        \/ r \in knows[p] /\ Verified(p, r) /\ Adopt(p, r)
    <3>1. r \in acquiring[p] => r \in knows[p]
      BY DEF WorkIsKnown
    <3>2. QED
      BY <1>3, <3>1
      DEF LeaseStep, AcquireRequest, AcquireClaim, AcquireRefused, Renew,
          RenewFails, Release, ReleaseRow, ReleaseFails, Claim, Claimable,
          ClaimRefused
  <2>3. QED
    BY <2>1, <2>2, AdoptingIsQuiet DEF StepKind
<1>4. ASSUME NEW p \in Proc, NEW r \in Run, CreateRun(p, r) PROVE StepKind
  BY <1>4 DEF StepKind
<1>5. ASSUME NEW p \in Proc, NEW r \in Run,
             SaveRequest(p, r) \/ PersistProgress(p, r)
      PROVE  StepKind
  <2>1. /\ UNCHANGED <<head, snapshots, marks, rolledBack, created, seen, knows>>
        /\ UNCHANGED belief
        /\ \A q \in Proc : save'[q].pc = "commit" => save'[q] = save[q]
    BY <1>5, SMTT(60) DEF SaveRequest, PersistProgress, SaveAt, TypeOK, durable
  <2>2. QED
    BY <2>1, AdoptingIsQuiet DEF StepKind
<1>6. ASSUME NEW r \in Run, Expire(r) PROVE StepKind
  <2>1. UNCHANGED <<head, snapshots, marks, rolledBack, created, seen, knows,
                    belief, save>>
    BY <1>6 DEF Expire
  <2>2. QuietStep
    BY <2>1 DEF QuietStep, HistoryInv, BeliefsMarked
  <2>3. QED
    BY <2>2 DEF StepKind
<1>7. CASE UNCHANGED vars
  <2>1. UNCHANGED <<head, snapshots, marks, rolledBack, created, seen, knows,
                    belief, save>>
    BY <1>7 DEF vars
  <2>2. QuietStep
    BY <2>1 DEF QuietStep, HistoryInv, BeliefsMarked
  <2>3. QED
    BY <2>2 DEF StepKind
<1>8. QED
  BY <1>1, <1>2, <1>3, <1>4, <1>5, <1>6, <1>7 DEF Next

(* Every step keeps the history in order. *)
LEMMA StepKeepsHistory ==
  ASSUME TypeOK, HistoryInv, WorkIsKnown, [Next]_vars
  PROVE  HistoryInv'
<1>1. CASE QuietStep
  BY <1>1, QuietKeepsHistory
<1>2. CASE \E p \in Proc, r \in Run : MarkerStep(p, r)
  BY <1>2, MarkerKeepsHistory
<1>3. CASE \E p \in Proc : Reserve(p)
  BY <1>3, ReserveKeepsHistory
<1>4. CASE \E p \in Proc : InitializeHeads(p)
  BY <1>4, LoadKeepsHistory
<1>5. CASE \E p \in Proc, r \in Run : CreateRun(p, r)
  BY <1>5, CreateKeepsHistory
<1>6. QED
  BY <1>1, <1>2, <1>3, <1>4, <1>5, EveryStepHasAKind DEF StepKind

(* journal-heads.ts proves that a save writes the next checkpoint of the    *)
(* run it read.  For any processes, runs, crashes, expiries and faults: the *)
(* inductive invariant of the journal.                                     *)
THEOREM JournalIsInvariant == Spec => []JournalInv
<1>1. JournalInv <=> HistoryInv /\ WorkIsKnown
  BY DEF JournalInv, HistoryInv
<1>2. Init => JournalInv
  BY DEF Init, JournalInv, RowsExist, PendingAhead, BeliefsMarked,
         ReservationsDistinct, FirstLookIsCreators, WorkIsKnown,
         MarkersInReserveOrder, HeadFollowsTranscript, LinearUnlessRolledBack,
         Linear, Marked, LastMark, NoHead, NoSave, SaveAt
<1>3. JournalInv' <=> HistoryInv' /\ WorkIsKnown'
  BY DEF JournalInv, HistoryInv
<1>4. TypeOK /\ JournalInv /\ [Next]_vars => JournalInv'
  BY <1>1, <1>3, WorkStaysKnown, StepKeepsHistory
<1>5. QED
  BY <1>2, <1>4, TypeCorrect, PTL DEF Spec

(* The checkpoints of a run continue each other, one by one, in transcript  *)
(* order, unless a load rolled the run back from a stale transcript view.  *)
THEOREM CheckpointsLinear == Spec => []LinearUnlessRolledBack
BY JournalIsInvariant, PTL DEF JournalInv

(* Transcript order and created_sequence order are one order, so that the   *)
(* loader's last marker and the heads table's larger sequence agree.       *)
THEOREM OrderOfMarkers == Spec => []MarkersInReserveOrder
BY JournalIsInvariant, PTL DEF JournalInv

(* The heads table never runs ahead of, or behind, the transcript by more   *)
(* than one reservation, and that one continues the last marker.           *)
THEOREM HeadsFollow == Spec => []HeadFollowsTranscript
BY JournalIsInvariant, PTL DEF JournalInv

-----------------------------------------------------------------------------
(* The journal implements CheckpointHistory. *)
RowsBounded == Len(snapshots) <= MaxSaves

LEMMA RowsStayBounded ==
  ASSUME TypeOK, HistoryInv, WorkIsKnown, RowsBounded, [Next]_vars
  PROVE  RowsBounded'
<1> USE ConstantsAssumption DEF RowsBounded
<1>1. CASE \E p \in Proc : Reserve(p)
  <2>1. PICK p \in Proc : Reserve(p)
    BY <1>1
  <2>2. head[save[p].run].snap \in Nat
    BY <2>1 DEF Reserve, TypeOK, HeadRow
  <2>3. Len(snapshots') = Len(snapshots) + 1 /\ Len(snapshots) < MaxSaves
    BY <2>1, <2>2 DEF Reserve, TypeOK
  <2>4. QED
    BY <2>3 DEF TypeOK
<1>2. CASE UNCHANGED snapshots
  BY <1>2
<1>3. QED
  BY <1>1, <1>2, EveryStepHasAKind
  DEF StepKind, QuietStep, MarkerStep, InitializeHeads, CreateRun, durable

(* A step that appends no marker leaves what the transcript shows alone. *)
LEMMA HistoryStays ==
  ASSUME TypeOK, HistoryInv, UNCHANGED marks,
         \A s \in 1..Len(snapshots) : snapshots'[s] = snapshots[s]
  PROVE  UNCHANGED HistoryOf
<1>1. \A r \in Run : \A i \in 1..Len(marks[r]) : marks[r][i] \in 1..Len(snapshots)
  BY DEF HistoryInv, RowsExist, Marked
<1>2. \A r \in Run : \A i \in 1..Len(marks[r]) :
        snapshots'[marks[r][i]] = snapshots[marks[r][i]]
  BY <1>1
<1>3. QED
  BY <1>2 DEF HistoryOf

(* Appending, as a function of the position.                               *)
LEMMA AppendedFunction ==
  ASSUME NEW S, NEW h \in Seq(S), NEW e \in S
  PROVE  Append(h, e) = [i \in 1..(Len(h) + 1) |-> IF i <= Len(h) THEN h[i] ELSE e]
<1> DEFINE g == Append(h, e)
<1>1. /\ Len(h) \in Nat /\ g \in Seq(S) /\ Len(g) = Len(h) + 1
      /\ \A i \in 1..Len(h) : g[i] = h[i]
      /\ g[Len(h) + 1] = e
  BY AppendProperties, LenProperties
<1>2. g \in [1..(Len(h) + 1) -> S]
  BY <1>1, LenProperties
<1>3. \A i \in 1..(Len(h) + 1) : g[i] = IF i <= Len(h) THEN h[i] ELSE e
  BY <1>1
<1> HIDE DEF g
<1>4. g = [i \in 1..(Len(h) + 1) |-> IF i <= Len(h) THEN h[i] ELSE e]
  BY <1>2, <1>3
<1>5. QED
  BY <1>4 DEF g

(* A marker extends the history of its run by a fresh checkpoint that,      *)
(* unless the run was rolled back, continues its tip.                      *)
LEMMA MarkerExtends ==
  ASSUME TypeOK, HistoryInv, RowsBounded,
         NEW p \in Proc, NEW r \in Run, MarkerStep(p, r)
  PROVE  Abstract!Extend(r)
<1> DEFINE s == save[p].snap
           m == marks[r]
           H == HistoryOf
<1>1. /\ s \in 1..Len(snapshots) /\ \A x \in Run : s \notin Marked(x)
      /\ Len(snapshots) \in Nat /\ Len(m) \in Nat /\ m \in Seq(Nat)
      /\ s \in 1..MaxSaves
  BY ConstantsAssumption, SMTT(60)
  DEF MarkerStep, HistoryInv, ReservationsDistinct, TypeOK, RowsBounded
<1>2. snapshots[s] \in (1..MaxSaves) \cup {0}
  <2>1. snapshots[s] \in Nat /\ snapshots[s] < s
    BY <1>1, SMTT(60) DEF TypeOK, HistoryInv, RowsExist
  <2>2. QED
    BY <1>1, <2>1, ConstantsAssumption
<1>3. \A x \in Run : /\ Len(H[x]) = Len(marks[x])
                    /\ \A i \in 1..Len(marks[x]) : H[x][i].snap = marks[x][i]
  BY LastMarkIsMarked DEF HistoryOf
<1>4. Abstract!Fresh(s)
  BY <1>1, <1>3 DEF Abstract!Fresh, Marked
<1>5. Abstract!Tip(r) = LastMark(r)
  <2>1. CASE m = <<>>
    <3>1. H[r] = <<>>
      BY <2>1 DEF HistoryOf
    <3>2. QED
      BY <2>1, <3>1 DEF Abstract!Tip, LastMark
  <2>2. CASE m # <<>>
    <3>1. Len(m) \in 1..Len(m)
      BY <1>1, <2>2
    <3>2. H[r] # <<>>
      BY <1>3, <3>1
    <3>3. QED
      BY <1>3, <2>2, <3>1, <3>2 DEF Abstract!Tip, LastMark
  <2>3. QED
    BY <2>1, <2>2
<1>6. r \notin rolledBack => snapshots[s] = LastMark(r)
  <2>1. s # LastMark(r)
    BY <1>1, LastMarkIsMarked
  <2>2. QED
    BY <2>1 DEF MarkerStep, HistoryInv, HeadFollowsTranscript
<1>7. /\ \A q \in Run \ {r} : marks'[q] = marks[q]
      /\ Len(marks'[r]) = Len(m) + 1
      /\ marks'[r][Len(m) + 1] = s
      /\ \A i \in 1..Len(m) : marks'[r][i] = m[i]
      /\ UNCHANGED <<snapshots, rolledBack>>
  <2>1. s \in Nat /\ marks' = [marks EXCEPT ![r] = Append(@, s)]
    BY <1>1 DEF MarkerStep
  <2>2. UNCHANGED <<snapshots, rolledBack>>
    BY DEF MarkerStep
  <2>3. QED
    BY <2>1, <2>2, MarkerAppended
<1>8. HistoryOf' = [H EXCEPT ![r] = Append(@, [snap |-> s, parent |-> snapshots[s]])]
  <2>1. H[r] \in Seq([snap : Nat, parent : Nat])
    <3>1. \A i \in 1..Len(m) : m[i] \in Nat /\ snapshots[m[i]] \in Nat
      <4>1. \A i \in 1..Len(m) : m[i] \in 1..Len(snapshots)
        BY DEF HistoryInv, RowsExist, Marked
      <4>2. \A k \in 1..Len(snapshots) : k \in Nat /\ snapshots[k] \in Nat
        BY <1>1, SMTT(60) DEF TypeOK
      <4>3. QED
        BY <4>1, <4>2
    <3>2. QED
      BY <1>1, <3>1 DEF HistoryOf
  <2>2. HistoryOf'[r] = Append(H[r], [snap |-> s, parent |-> snapshots[s]])
    <3>1. HistoryOf'[r] = [i \in 1..(Len(m) + 1) |->
                            [snap |-> marks'[r][i], parent |-> snapshots[marks'[r][i]]]]
      BY <1>7 DEF HistoryOf
    <3>2. Len(H[r]) = Len(m)
      BY <1>3
    <3>3. Append(H[r], [snap |-> s, parent |-> snapshots[s]])
            = [i \in 1..(Len(m) + 1) |->
                 IF i <= Len(m) THEN H[r][i] ELSE [snap |-> s, parent |-> snapshots[s]]]
      <4>1. [snap |-> s, parent |-> snapshots[s]] \in [snap : Nat, parent : Nat]
        BY <1>1, <1>2
      <4>2. Append(H[r], [snap |-> s, parent |-> snapshots[s]])
              = [i \in 1..(Len(H[r]) + 1) |->
                   IF i <= Len(H[r]) THEN H[r][i] ELSE [snap |-> s, parent |-> snapshots[s]]]
        <5> DEFINE h == H[r]
                   e == [snap |-> s, parent |-> snapshots[s]]
                   S == [snap : Nat, parent : Nat]
        <5>1. h \in Seq(S) /\ e \in S
          BY <2>1, <4>1
        <5> HIDE DEF h, e, S
        <5>2. Append(h, e) = [i \in 1..(Len(h) + 1) |-> IF i <= Len(h) THEN h[i] ELSE e]
          BY <5>1, AppendedFunction
        <5>3. QED
          BY <5>2, Zenon DEF h, e
      <4>3. QED
        BY <3>2, <4>2, Zenon
    <3>4. ASSUME NEW i \in 1..(Len(m) + 1)
          PROVE  [snap |-> marks'[r][i], parent |-> snapshots[marks'[r][i]]]
                   = IF i <= Len(m) THEN H[r][i] ELSE [snap |-> s, parent |-> snapshots[s]]
      <4>1. CASE i <= Len(m)
        <5>1. i \in 1..Len(m)
          BY <1>1, <4>1
        <5>2. H[r][i] = [snap |-> m[i], parent |-> snapshots[m[i]]]
          BY <5>1 DEF HistoryOf
        <5>3. QED
          BY <1>7, <4>1, <5>1, <5>2
      <4>2. CASE ~(i <= Len(m))
        <5>1. i = Len(m) + 1
          BY <1>1, <4>2
        <5>2. QED
          BY <1>7, <4>2, <5>1
      <4>3. QED
        BY <4>1, <4>2
    <3>5. QED
      BY <3>1, <3>3, <3>4
  <2>3. \A q \in Run \ {r} : HistoryOf'[q] = H[q]
    BY <1>7 DEF HistoryOf
  <2>4. QED
    BY <2>2, <2>3 DEF HistoryOf
<1>9. QED
  BY <1>1, <1>2, <1>4, <1>5, <1>6, <1>7, <1>8 DEF Abstract!Extend

(* Two transactions per checkpoint, leases, reservations, crashes and      *)
(* reloads together implement the one-step growth of CheckpointHistory.    *)
THEOREM JournalImplementsHistory == Spec => ImplementsHistory
<1>1. Init => Abstract!Init
  BY DEF Init, Abstract!Init, HistoryOf
<1>2. ASSUME TypeOK, JournalInv, RowsBounded, [Next]_vars
      PROVE  [Abstract!Next]_<<HistoryOf, rolledBack>>
  <2>1. HistoryInv /\ WorkIsKnown
    BY <1>2 DEF JournalInv, HistoryInv
  <2>2. CASE \E p \in Proc, r \in Run : MarkerStep(p, r)
    BY <1>2, <2>1, <2>2, MarkerExtends DEF Abstract!Next
  <2>3. CASE \E p \in Proc : Reserve(p)
    <3>1. PICK p \in Proc : Reserve(p)
      BY <2>3
    <3>2. head[save[p].run].snap \in Nat
      BY <1>2, <3>1 DEF Reserve, TypeOK, HeadRow
    <3>3. \A s \in 1..Len(snapshots) : snapshots'[s] = snapshots[s]
      BY <1>2, <3>1, <3>2 DEF Reserve, TypeOK
    <3>4. UNCHANGED <<marks, rolledBack>>
      BY <3>1 DEF Reserve
    <3>5. QED
      BY <1>2, <2>1, <3>3, <3>4, HistoryStays
  <2>4. CASE \E p \in Proc : InitializeHeads(p)
    <3>1. /\ UNCHANGED <<marks, snapshots>>
          /\ rolledBack \subseteq rolledBack' /\ rolledBack' \subseteq Run
      BY <1>2, <2>4 DEF InitializeHeads, TypeOK
    <3>2. UNCHANGED HistoryOf
      BY <1>2, <2>1, <3>1, HistoryStays
    <3>3. QED
      BY <3>1, <3>2 DEF Abstract!Next, Abstract!RollBack
  <2>5. CASE QuietStep \/ \E p \in Proc, r \in Run : CreateRun(p, r)
    <3>1. UNCHANGED <<marks, snapshots, rolledBack>>
      BY <2>5 DEF QuietStep, CreateRun, durable
    <3>2. QED
      BY <1>2, <2>1, <3>1, HistoryStays
  <2>6. QED
    BY <1>2, <2>1, <2>2, <2>3, <2>4, <2>5, EveryStepHasAKind DEF StepKind
<1>3. Init => RowsBounded
  BY ConstantsAssumption DEF Init, RowsBounded
<1>4. TypeOK /\ JournalInv /\ RowsBounded /\ [Next]_vars => RowsBounded'
  BY RowsStayBounded DEF JournalInv, HistoryInv
<1>5. QED
  BY <1>1, <1>2, <1>3, <1>4, TypeCorrect, JournalIsInvariant, PTL
  DEF Spec, ImplementsHistory, Abstract!Spec

-----------------------------------------------------------------------------
(* No marker of a run is newer than its last one. *)
LEMMA LastMarkIsNewest ==
  ASSUME TypeOK, MarkersInReserveOrder, NEW r \in Run, NEW s \in Marked(r)
  PROVE  s <= LastMark(r)
<1>1. PICK i \in 1..Len(marks[r]) : s = marks[r][i]
  BY DEF Marked
<1>2. Len(marks[r]) \in Nat /\ marks[r] \in Seq(Nat)
  BY DEF TypeOK
<1>3. marks[r] # <<>> /\ Len(marks[r]) \in 1..Len(marks[r])
  BY <1>1, <1>2
<1>4. LastMark(r) = marks[r][Len(marks[r])] /\ LastMark(r) \in Nat /\ s \in Nat
  BY <1>1, <1>2, <1>3 DEF LastMark
<1>5. CASE i = Len(marks[r])
  BY <1>1, <1>4, <1>5
<1>6. CASE i # Len(marks[r])
  <2>1. i < Len(marks[r])
    BY <1>2, <1>6
  <2>2. marks[r][i] < marks[r][Len(marks[r])]
    BY <1>3, <2>1 DEF MarkersInReserveOrder
  <2>3. QED
    BY <1>1, <1>4, <2>2
<1>7. QED
  BY <1>5, <1>6

(* Resuming is never blocked by an abandoned reservation: a load with an    *)
(* up-to-date transcript leaves the run at a head this process can save on, *)
(* unless an unexpired lease protects the reservation.                     *)
THEOREM LoadsAdopt == Spec => LoadAdoptsHead
<1>1. ASSUME TypeOK, JournalInv,
             NEW p \in Proc, NEW r \in Run, InitializeHeads(p),
             seen[p][r] # 0, seen[p][r] = LastMark(r), ~lease[r].live
      PROVE  belief'[p][r] = head'[r].snap
  <2>1. belief'[p][r] = seen[p][r]
    BY <1>1 DEF InitializeHeads, TypeOK
  <2>2. CASE Supersedes(p, r)
    BY <1>1, <2>1, <2>2 DEF InitializeHeads
  <2>3. CASE ~Supersedes(p, r)
    <3>1. head'[r] = head[r] /\ ~(seen[p][r] > head[r].snap) /\ ~head[r].pending
      BY <1>1, <2>3 DEF InitializeHeads, Supersedes
    <3>2. head[r].snap \in Marked(r) \cup {0}
      BY <1>1, <3>1 DEF JournalInv, HeadFollowsTranscript
    <3>3. seen[p][r] \in Nat /\ head[r].snap \in Nat
      BY <1>1 DEF TypeOK, HeadRow
    <3>4. head[r].snap <= seen[p][r]
      BY <1>1, <3>2, <3>3, LastMarkIsNewest DEF JournalInv
    <3>5. QED
      BY <2>1, <3>1, <3>3, <3>4
  <2>4. QED
    BY <2>2, <2>3
<1>2. TypeOK /\ JournalInv /\ [Next]_vars =>
        [\A p \in Proc, r \in Run :
           InitializeHeads(p) /\ seen[p][r] # 0 /\ seen[p][r] = LastMark(r)
             /\ ~lease[r].live
               => belief'[p][r] = head'[r].snap]_vars
  BY <1>1
<1>3. QED
  BY <1>2, TypeCorrect, JournalIsInvariant, PTL DEF Spec, LoadAdoptsHead
=============================================================================
