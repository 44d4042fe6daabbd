------------------------------ MODULE MCRunner ------------------------------
(***************************************************************************)
(* Instances of Runner for TLC.                                            *)
(***************************************************************************)
EXTENDS Runner, TLC

\* A result and a run that its own time limit ended.
MCOutcomes == {[state |-> "COMPLETED", artifact |-> TRUE], [state |-> "CANCELED", artifact |-> FALSE]}

=============================================================================
