--------------------------- MODULE MCDepreciation ---------------------------
(***************************************************************************)
(* TLC instance of Depreciation alone: what a run computes is claimed to   *)
(* be storable.                                                            *)
(***************************************************************************)
EXTENDS Depreciation

\* Written off over one year, without a residual value.
YearLong == [cost |-> 20, residual |-> 0, life |-> 12, year |-> 1, month |-> 7, num |-> 2, den |-> 1]
OneTerm  == {YearLong}

Nothing == {}

=============================================================================
