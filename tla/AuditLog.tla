------------------------------- MODULE AuditLog -------------------------------
(***************************************************************************)
(* What an auditor of internal/audit promises: events are taken in some    *)
(* order and are written in that order, each once.  An event whose Append  *)
(* returned an error is never written; one whose Append returned nil is    *)
(* written before Close returns nil.  Close returns an error only if a     *)
(* write failed.                                                           *)
(***************************************************************************)
EXTENDS Sequences, Naturals

CONSTANTS Event, Closer

VARIABLES answer,   \* what Append returned for each event: "none" until then
          pending,  \* events taken and not yet written
          log,      \* the audit table
          failed,   \* a write has returned an error
          sealed,   \* no event is taken any more
          returned  \* what Close returned to each caller: "none" until then

logVars == <<answer, pending, log, failed, sealed, returned>>

LogInit ==
  /\ answer = [e \in Event |-> "none"]
  /\ pending = <<>> /\ log = <<>>
  /\ failed = FALSE /\ sealed = FALSE
  /\ returned = [k \in Closer |-> "none"]

Take(e) ==
  /\ answer[e] = "none" /\ ~ sealed
  /\ answer' = [answer EXCEPT ![e] = "ok"]
  /\ pending' = Append(pending, e)
  /\ UNCHANGED <<log, failed, sealed, returned>>

Refuse(e) ==
  /\ answer[e] = "none"
  /\ answer' = [answer EXCEPT ![e] = "refused"]
  /\ UNCHANGED <<pending, log, failed, sealed, returned>>

\* The oldest n events leave the queue: they are written, or the write returns
\* an error and they have or have not been written.
Write(n) ==
  /\ \E first \in {SubSeq(pending, 1, n)} :
       \/ log' = log \o first /\ UNCHANGED failed
       \/ log' \in {log, log \o first} /\ failed' = TRUE
  /\ pending' = SubSeq(pending, n + 1, Len(pending))
  /\ UNCHANGED <<answer, sealed, returned>>

Seal ==
  /\ sealed' = TRUE
  /\ UNCHANGED <<answer, pending, log, failed, returned>>

ReturnFromClose(k) ==
  /\ sealed /\ pending = <<>> /\ returned[k] = "none"
  /\ returned' = [returned EXCEPT ![k] = IF failed THEN "error" ELSE "ok"]
  /\ UNCHANGED <<answer, pending, log, failed, sealed>>

LogNext ==
  \/ \E e \in Event : Take(e) \/ Refuse(e)
  \/ \E n \in 1 .. Len(pending) : Write(n)
  \/ Seal
  \/ \E k \in Closer : ReturnFromClose(k)

LogSpec == LogInit /\ [][LogNext]_logVars

=============================================================================
