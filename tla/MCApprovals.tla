----------------------------- MODULE MCApprovals -----------------------------
(***************************************************************************)
(* TLC instances of Approvals.                                             *)
(***************************************************************************)
EXTENDS Approvals, TLC

\* Requests are interchangeable, and so are approval ids.
Symmetry == Permutations(Sessions) \cup Permutations(Approvals)

=============================================================================
