-------------------------------- MODULE MCTabs --------------------------------
(***************************************************************************)
(* FillTabs for TLC: the vault has two logins, or a login and a card, and  *)
(* room for one.  The sites are alike, so the first login may be of the    *)
(* first site.                                                             *)
(***************************************************************************)
EXTENDS FillTabs

CONSTANTS s1, s2, i1, i2, i3

TwoSaved ==
  {[i \in Item |-> CASE i = i1 -> s1 [] i = i2 -> site [] OTHER -> Nil] :
     site \in Site \cup {Everywhere}}

=============================================================================
