------------------------------- MODULE MCItems -------------------------------
(* Instances of ItemVault for TLC.  No definition tells one member of these  *)
(* sets from another, and no liveness is checked.                            *)
EXTENDS ItemVault, TLC

Symmetry == Permutations(Process \ WrongKey) \cup Permutations(Request)
            \cup Permutations(Owner) \cup Permutations(Secret)

=============================================================================
