------------------------------ MODULE MCRecords ------------------------------
(***************************************************************************)
(* The two ways a use is put on record: the rows that the calls over       *)
(* Postgres charge and audit (Veil, against UseLedger), and the table that *)
(* the asynchronous auditor appends to (AuditAsync, against AuditLog).     *)
(* The broker of app.Init audits without the queue, so they share no       *)
(* state: a behaviour is of one of them and leaves the other at its start. *)
(***************************************************************************)
EXTENDS MCVeil, AuditAsync

VARIABLE side

recordVars == <<vars, asyncVars, side>>

RecordsInit ==
  /\ Init /\ AsyncInit
  /\ \/ side = "uses"
     \/ /\ side = "queue"
        /\ \A p \in Agent \X Item : grant[p] = Nil
        /\ \A s \in Session : session[s] = Nil

UsesSide == side = "uses" /\ Next /\ UNCHANGED <<asyncVars, side>>

QueueSide == side = "queue" /\ AsyncNext /\ UNCHANGED <<vars, side>>

RecordsNext == UsesSide \/ QueueSide

RecordsSpec ==
  RecordsInit /\ [][RecordsNext]_recordVars /\ Fairness /\ AsyncFairness
=============================================================================
