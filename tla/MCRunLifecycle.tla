--------------------------- MODULE MCRunLifecycle ---------------------------
EXTENDS RunLifecycle

(* Bound: runs with more than one fault are cut.                             *)
OneFault == Cardinality(faults) <= 1
=============================================================================
