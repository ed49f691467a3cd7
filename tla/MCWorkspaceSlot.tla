-------------------------- MODULE MCWorkspaceSlot --------------------------
(* Two processes take turns at one slot with two runs and three calls.      *)
EXTENDS WorkspaceSlot

(* At most one process stops; a command that fails is all that goes wrong.  *)
OneFault ==
  /\ Cardinality(dead) <= 1
  /\ errors > 0 => dead = {} /\ resets = 0 /\ parent.rev = 0
============================================================================
