-------------------------------- MODULE MCFill --------------------------------
(***************************************************************************)
(* FillHost for TLC: the sites are alike.                                  *)
(***************************************************************************)
EXTENDS FillHost, TLC

Symmetry == Permutations(Site)

=============================================================================
