-------------------------- MODULE CheckpointHistory --------------------------
(* What the continuation journal promises a reader of the parent transcript *)
(* (docs/agent-persistence.md): each run is one growing chain of           *)
(* checkpoints, and a checkpoint is never rewritten or withdrawn.  Only a  *)
(* run some load has rolled back may branch.                               *)
EXTENDS Naturals, Sequences

CONSTANTS Run, Snap

VARIABLES
  history,  \* per run: its checkpoints with the one each continues
  branching \* runs rolled back behind a committed checkpoint

Tip(r) == IF history[r] = <<>> THEN 0 ELSE history[r][Len(history[r])].snap

Fresh(s) == \A r \in Run : \A i \in 1..Len(history[r]) : history[r][i].snap # s

Init ==
  /\ history = [r \in Run |-> <<>>]
  /\ branching = {}

Extend(r) ==
  \E s \in Snap, parent \in Snap \cup {0} :
    /\ Fresh(s)
    /\ r \notin branching => parent = Tip(r)
    /\ history' = [history EXCEPT ![r] = Append(@, [snap |-> s, parent |-> parent])]
    /\ UNCHANGED branching

RollBack ==
  /\ branching' \in SUBSET Run
  /\ branching \subseteq branching'
  /\ UNCHANGED history

Next == RollBack \/ \E r \in Run : Extend(r)

Spec == Init /\ [][Next]_<<history, branching>>
=============================================================================
