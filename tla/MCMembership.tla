---------------------------- MODULE MCMembership ----------------------------
(***************************************************************************)
(* TLC instance of Membership.  Two overlapping requests about roles, or   *)
(* two invitations that overlap with the other requests: "focus" says      *)
(* which, so that one run does both and not their product.                 *)
(***************************************************************************)
EXTENDS Membership, TLC

VARIABLE focus

RoleSteps == {"assign", "unassign", "replace", "invite role"}

\* About invitations no request names a role; about roles there is one invitation.
Within ==
    IF focus = "invitations"
    THEN \A r \in Requests :
             /\ job'[r].step \notin RoleSteps
             /\ job'[r].step = "invite" => job'[r].role = NoRole
    ELSE issued' <= 1

FocusInit == Init /\ focus \in {"invitations", "roles"}
FocusNext == Next /\ Within /\ UNCHANGED focus

FocusSpec == FocusInit /\ [][FocusNext]_<<vars, focus>>

\* Requests are interchangeable, and so are users.
Symmetry == Permutations(Requests) \cup Permutations(Users)

=============================================================================
