-------------------------------- MODULE MCVeil --------------------------------
(***************************************************************************)
(* Values for the runs of Veil.                                            *)
(***************************************************************************)
EXTENDS Veil

Site  == [scheme |-> "https", host |-> "site", port |-> Nil]
Other == [scheme |-> "https", host |-> "other", port |-> Nil]

OneUrl == {Site}
=============================================================================
