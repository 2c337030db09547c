------------------------------ MODULE MCAccess ------------------------------
(***************************************************************************)
(* Authorization at an origin: the decision of grant.Evaluate on every     *)
(* small input (MCGrant), and the requests that ask for items and change   *)
(* them (Access).  The two share no state; a behaviour is of one of them   *)
(* and leaves the other at its start.  No definition tells one request     *)
(* from another, and no liveness is checked.                               *)
(***************************************************************************)
EXTENDS Access, MCGrant, TLC

VARIABLE side

authorizationVars == <<accessVars, in, out, side>>

AuthorizationInit ==
  \/ /\ side = "request" /\ AccessInit
     /\ in = Nil /\ out = Nil
  \/ /\ side = "decision" /\ AccessInit /\ members = {}
     /\ Init

RequestSide  == side = "request" /\ AccessNext /\ UNCHANGED <<in, out, side>>

DecisionSide == side = "decision" /\ Next /\ UNCHANGED <<accessVars, side>>

AuthorizationNext == RequestSide \/ DecisionSide

Symmetry == Permutations(Request)

AuthorizationSpec == AuthorizationInit /\ [][AuthorizationNext]_authorizationVars
=============================================================================
