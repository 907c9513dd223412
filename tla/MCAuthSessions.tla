--------------------------- MODULE MCAuthSessions ---------------------------
(***************************************************************************)
(* TLC instances of AuthSessions.                                          *)
(***************************************************************************)
EXTENDS AuthSessions, TLC

\* Requests are interchangeable, and so are organizations.
Symmetry == Permutations(Requests) \cup Permutations(Orgs)

=============================================================================
