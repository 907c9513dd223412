--------------------------- MODULE MCAssetRegister ---------------------------
(***************************************************************************)
(* TLC instances of AssetRegister.                                         *)
(***************************************************************************)
EXTENDS AssetRegister, TLC

\* Requests are interchangeable, and so are assets.
Symmetry == Permutations(Sessions) \cup Permutations(Assets)

=============================================================================
