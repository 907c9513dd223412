---------------------------- MODULE MCMaintenance ----------------------------
(***************************************************************************)
(* TLC instances of Maintenance.                                           *)
(***************************************************************************)
EXTENDS Maintenance, TLC

\* Requests are interchangeable, and so are tasks.
Symmetry == Permutations(Sessions) \cup Permutations(Tasks)

=============================================================================
