-------------------------- MODULE MCAuditCampaign --------------------------
(***************************************************************************)
(* TLC instances of AuditCampaign.                                         *)
(***************************************************************************)
EXTENDS AuditCampaign, TLC

\* Requests are interchangeable, and so are assets.
Symmetry == Permutations(Requests) \cup Permutations(Assets)

=============================================================================
