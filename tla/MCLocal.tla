-------------------------------- MODULE MCLocal --------------------------------
(***************************************************************************)
(* Values for the runs of LocalUse.                                        *)
(***************************************************************************)
EXTENDS LocalUse

Site == [scheme |-> "https", host |-> "site", port |-> Nil]

OneUrl == {Site}
=============================================================================
