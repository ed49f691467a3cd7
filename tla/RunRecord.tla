------------------------------ MODULE RunRecord ------------------------------
(* What the durable record of a delegated run promises the next parent       *)
(* session: work is open until it settles, a settled record never reopens,   *)
(* and nothing is written over a removal.                                    *)
VARIABLE record

Init == record = "none"

Reserve == record = "none" /\ record' = "open"
Settle  == record = "open" /\ record' = "settled"
Remove  == record \in {"open", "settled"} /\ record' = "removed"

Next == Reserve \/ Settle \/ Remove

Spec == Init /\ [][Next]_record
=============================================================================
