------------------------------ MODULE MCMachine ------------------------------
(***************************************************************************)
(* The files of one machine: what the commands of an origin's client share *)
(* (Client), and what the commands on a vault directory share (VaultDir).  *)
(* The two share no file; a behaviour is of one of them and leaves the     *)
(* other at its start.                                                     *)
(***************************************************************************)
EXTENDS Client, VaultDir

VARIABLE side

machineVars == <<clientVars, vars, side>>

MachineInit ==
  /\ ClientInit
  /\ \/ side = "client" /\ Init /\ disk = Empty
     \/ side = "vault" /\ Init /\ secret = 0

ClientSide == side = "client" /\ ClientNext /\ UNCHANGED <<vars, side>>

VaultSide == side = "vault" /\ Next /\ UNCHANGED <<clientVars, side>>

MachineNext == ClientSide \/ VaultSide

\* No command on a vault directory owes anybody progress.
MachineSpec == MachineInit /\ [][MachineNext]_machineVars /\ ClientFairness
=============================================================================
