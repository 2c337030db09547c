------------------------------ MODULE AuditAsync ------------------------------
(***************************************************************************)
(* audit.Async (internal/audit/audit.go): Append queues an event on a Go   *)
(* channel, one worker moves events from the channel into a batch and      *)
(* writes the batch with AppendAudits, Close stops the senders, closes the *)
(* channel and waits for the worker.  Callers of Append and Close and the  *)
(* worker run concurrently; a channel operation, a section under a mutex   *)
(* and a store call are one step each.                                     *)
(***************************************************************************)
EXTENDS Integers, Sequences, SequencesExt

CONSTANTS Event,     \* one call of Append each
          Closer,    \* callers of Close
          Cap,       \* capacity of the channel
          MaxBatch,  \* 256 in the code
          Interval   \* flushInterval > 0

ASSUME AsyncAssumption == Cap \in Nat /\ MaxBatch \in Nat \ {0} /\ Interval \in BOOLEAN

VARIABLES
  sender,    \* each Append: "idle", "select", or what it returned
  closed,    \* Async.closed, under mu
  stopped,   \* stopCh is closed
  ch,        \* events in the channel
  chClosed,  \* the channel is closed
  worker,    \* where loop is
  batch,     \* the worker's batch
  log,       \* the audit table
  err,       \* an AppendAudits has failed
  closer,    \* each Close: "idle", "stopping", "waiting", "joining", or done
  once       \* closeOnce: "free", "running" or "done"

asyncVars == <<sender, closed, stopped, ch, chClosed, worker, batch, log, err, closer, once>>

senderVars == <<sender, closed, stopped>>
workerVars == <<worker, batch, log, err>>
closerVars == <<closer, once>>

BatchSize == IF Cap < 1 THEN 1 ELSE IF Cap > MaxBatch THEN MaxBatch ELSE Cap

AsyncTypeOK ==
  /\ sender \in [Event -> {"idle", "select", "ok", "closed", "canceled"}]
  /\ closed \in BOOLEAN /\ stopped \in BOOLEAN /\ chClosed \in BOOLEAN
  /\ ch \in Seq(Event) /\ batch \in Seq(Event) /\ log \in Seq(Event)
  /\ Len(ch) <= IF Cap = 0 THEN 1 ELSE Cap
  /\ Len(batch) <= BatchSize      \* the capacity loop gives its batch
  /\ worker \in {"receive", "fill", "drain", "flush", "last", "done"}
  /\ err \in BOOLEAN
  /\ closer \in [Closer -> {"idle", "stopping", "waiting", "joining", "ok", "error"}]
  /\ once \in {"free", "running", "done"}

AsyncInit ==
  /\ sender = [e \in Event |-> "idle"]
  /\ closed = FALSE /\ stopped = FALSE
  /\ ch = <<>> /\ chClosed = FALSE
  /\ worker = "receive" /\ batch = <<>>
  /\ log = <<>> /\ err = FALSE
  /\ closer = [k \in Closer |-> "idle"] /\ once = "free"

-----------------------------------------------------------------------------
(* Append.                                                                 *)

\* Under mu: refused at once after Close has started, else counted in senderWg.
AppendBegin(e) ==
  /\ sender[e] = "idle"
  /\ sender' = [sender EXCEPT ![e] = IF closed THEN "closed" ELSE "select"]
  /\ UNCHANGED <<closed, stopped, ch, chClosed, workerVars, closerVars>>

\* A buffered channel has room, or the worker is there to receive.
Room == Len(ch) < Cap \/ (Cap = 0 /\ ch = <<>> /\ worker = "receive")

\* The select may take any of its ready cases.
AppendSend(e) ==
  /\ sender[e] = "select" /\ Room
  /\ sender' = [sender EXCEPT ![e] = "ok"]
  /\ ch' = Append(ch, e)
  /\ UNCHANGED <<closed, stopped, chClosed, workerVars, closerVars>>

AppendStopped(e) ==
  /\ sender[e] = "select" /\ stopped
  /\ sender' = [sender EXCEPT ![e] = "closed"]
  /\ UNCHANGED <<closed, stopped, ch, chClosed, workerVars, closerVars>>

AppendCanceled(e) ==
  /\ sender[e] = "select"
  /\ sender' = [sender EXCEPT ![e] = "canceled"]
  /\ UNCHANGED <<closed, stopped, ch, chClosed, workerVars, closerVars>>

-----------------------------------------------------------------------------
(* The worker.                                                             *)

TakeInto(stage) ==
  /\ ch # <<>>
  /\ batch' = Append(batch, Head(ch)) /\ ch' = Tail(ch)
  /\ worker' = stage
  /\ UNCHANGED <<senderVars, chClosed, log, err, closerVars>>

Move(stage) ==
  /\ worker' = stage
  /\ UNCHANGED <<senderVars, ch, chClosed, batch, log, err, closerVars>>

Receive ==
  /\ worker = "receive"
  /\ TakeInto(IF Interval THEN "fill" ELSE "drain")

\* A closed channel still delivers what it holds.
ReceiveClosed ==
  /\ worker = "receive" /\ ch = <<>> /\ chClosed
  /\ Move("last")

\* With an interval the worker waits for a full batch, the timer or the end.
Fill == worker = "fill" /\ Len(batch) < BatchSize /\ TakeInto("fill")

FillFull == worker = "fill" /\ Len(batch) >= BatchSize /\ Move("flush")

FillTimeout == worker = "fill" /\ Len(batch) < BatchSize /\ Move("drain")

\* Mutant: the worker returns without the flush.
FillClosedReturns ==
  /\ worker = "fill" /\ Len(batch) < BatchSize /\ ch = <<>> /\ chClosed
  /\ Move("done")

FillClosed ==
  /\ worker = "fill" /\ Len(batch) < BatchSize /\ ch = <<>> /\ chClosed
  /\ Move("last")

\* drainBatch: without waiting, until the batch is full or nothing is there.
Drain == worker = "drain" /\ Len(batch) < BatchSize /\ TakeInto("drain")

DrainEnd ==
  /\ worker = "drain" /\ (Len(batch) >= BatchSize \/ ch = <<>>)
  /\ Move("flush")

\* Mutant: batch = batch[:0] is missing.
FlushKeepsBatch ==
  /\ worker \in {"flush", "last"}
  /\ \/ log' = log \o batch /\ UNCHANGED err
     \/ batch # <<>> /\ log' \in {log, log \o batch} /\ err' = TRUE
  /\ worker' = IF worker = "flush" THEN "receive" ELSE "done"
  /\ UNCHANGED <<batch, senderVars, ch, chClosed, closerVars>>

\* Mutant: the worker gives up at the first error.
FlushGivesUp ==
  /\ worker \in {"flush", "last"}
  /\ \/ /\ log' = log \o batch /\ UNCHANGED err
        /\ worker' = IF worker = "flush" THEN "receive" ELSE "done"
     \/ batch # <<>> /\ log' \in {log, log \o batch} /\ err' = TRUE /\ worker' = "done"
  /\ batch' = <<>>
  /\ UNCHANGED <<senderVars, ch, chClosed, closerVars>>

\* flush: one AppendAudits, a transaction.  If it fails the batch is dropped
\* and the error kept; it may have been committed all the same.
Flush ==
  /\ worker \in {"flush", "last"}
  /\ \/ log' = log \o batch /\ UNCHANGED err
     \/ batch # <<>> /\ log' \in {log, log \o batch} /\ err' = TRUE
  /\ batch' = <<>>
  /\ worker' = IF worker = "flush" THEN "receive" ELSE "done"
  /\ UNCHANGED <<senderVars, ch, chClosed, closerVars>>

Work == \/ Receive \/ ReceiveClosed \/ Fill \/ FillFull \/ FillClosed
        \/ Drain \/ DrainEnd \/ Flush

-----------------------------------------------------------------------------
(* Close.  A second caller waits in closeOnce.Do for the first.            *)

CloseBegin(k) ==
  /\ closer[k] = "idle" /\ once = "free"
  /\ once' = "running"
  /\ closed' = TRUE
  /\ closer' = [closer EXCEPT ![k] = "stopping"]
  /\ UNCHANGED <<sender, stopped, ch, chClosed, workerVars>>

CloseStop(k) ==
  /\ closer[k] = "stopping"
  /\ stopped' = TRUE
  /\ closer' = [closer EXCEPT ![k] = "waiting"]
  /\ UNCHANGED <<sender, closed, ch, chClosed, workerVars, once>>

\* Mutants: senderWg.Wait is missing; close(a.ch) is.
CloseChannelAtOnce(k) ==
  /\ closer[k] = "waiting"
  /\ chClosed' = TRUE
  /\ once' = "done"
  /\ closer' = [closer EXCEPT ![k] = "joining"]
  /\ UNCHANGED <<senderVars, ch, workerVars>>

CloseChannelLeavesOpen(k) ==
  /\ closer[k] = "waiting" /\ \A e \in Event : sender[e] # "select"
  /\ once' = "done"
  /\ closer' = [closer EXCEPT ![k] = "joining"]
  /\ UNCHANGED <<senderVars, ch, chClosed, workerVars>>

\* senderWg.Wait, then close(ch).
CloseChannel(k) ==
  /\ closer[k] = "waiting" /\ \A e \in Event : sender[e] # "select"
  /\ chClosed' = TRUE
  /\ once' = "done"
  /\ closer' = [closer EXCEPT ![k] = "joining"]
  /\ UNCHANGED <<senderVars, ch, workerVars>>

CloseAgain(k) ==
  /\ closer[k] = "idle" /\ once = "done"
  /\ closer' = [closer EXCEPT ![k] = "joining"]
  /\ UNCHANGED <<senderVars, ch, chClosed, workerVars, once>>

CloseReturn(k) ==
  /\ closer[k] = "joining" /\ worker = "done"
  /\ closer' = [closer EXCEPT ![k] = IF err THEN "error" ELSE "ok"]
  /\ UNCHANGED <<senderVars, ch, chClosed, workerVars, once>>

-----------------------------------------------------------------------------
AsyncNext ==
  \/ \E e \in Event : \/ AppendBegin(e) \/ AppendSend(e)
                      \/ AppendStopped(e) \/ AppendCanceled(e)
  \/ Work \/ FillTimeout
  \/ \E k \in Closer : \/ CloseBegin(k) \/ CloseStop(k) \/ CloseChannel(k)
                       \/ CloseAgain(k) \/ CloseReturn(k)

AsyncSpec == AsyncInit /\ [][AsyncNext]_asyncVars

\* Goroutines that can run do: a select with a ready case takes one, the
\* worker goes on, the timer fires, and AppendAudits answers.  Nobody is
\* obliged to call Append or Close or to cancel.
AsyncFairness ==
  /\ \A e \in Event : WF_asyncVars(AppendSend(e) \/ AppendStopped(e))
  /\ WF_asyncVars(Work \/ FillTimeout)
  /\ \A k \in Closer : WF_asyncVars(CloseStop(k) \/ CloseChannel(k) \/ CloseReturn(k))

AsyncFairSpec == AsyncSpec /\ AsyncFairness

-----------------------------------------------------------------------------
\* No Append sends on the closed channel, which would panic the process:
\* senderWg.Wait returns only when no sender is left, and none can come.
NoSendAfterClose == chClosed => \A e \in Event : sender[e] # "select"

\* After a Close that returned nil the table holds every event that Append
\* took, each once, and no other (audit.go: callers must call Close to drain).
CloseDrains ==
  \A k \in Closer : closer[k] = "ok" =>
    /\ ToSet(log) = {e \in Event : sender[e] = "ok"}
    /\ IsInjective(log)

\* What the code of Close and of loop relies on: one caller runs closeOnce and
\* the others wait for it; the worker ends only on a closed, empty channel.
CloseInOrder ==
  /\ closed <=> once # "free"
  /\ chClosed <=> once = "done"
  /\ \A k \in Closer : closer[k] \in {"stopping", "waiting"} =>
       once = "running" /\ \A j \in Closer \ {k} : closer[j] = "idle"
  /\ \A k \in Closer : closer[k] \in {"joining", "ok", "error"} => once = "done"
  /\ \A k \in Closer : closer[k] \in {"ok", "error"} =>
       worker = "done" /\ (closer[k] = "error" <=> err)

WorkerInOrder ==
  /\ worker \in {"receive", "done"} => batch = <<>>
  /\ worker \in {"last", "done"} => chClosed /\ ch = <<>>

\* As long as no write has failed, every event that Append took is in the
\* table, in the batch or in the channel, once.
NothingLost ==
  ~ err => LET taken == log \o (batch \o ch) IN
             /\ ToSet(taken) = {e \in Event : sender[e] = "ok"}
             /\ IsInjective(taken)

AsyncInv == AsyncTypeOK /\ CloseInOrder /\ WorkerInOrder /\ NoSendAfterClose /\ NothingLost

\* The auditor implements AuditLog: what is queued is the batch and then the
\* channel, and nothing is taken once the channel is closed.
Log == INSTANCE AuditLog WITH
  answer   <- [e \in Event |->
                CASE sender[e] \in {"idle", "select"} -> "none"
                  [] sender[e] = "ok" -> "ok"
                  [] OTHER -> "refused"],
  pending  <- batch \o ch,
  failed   <- err,
  sealed   <- chClosed,
  returned <- [k \in Closer |->
                IF closer[k] \in {"ok", "error"} THEN closer[k] ELSE "none"]

ImplementsLog == Log!LogSpec

\* Every Close that has been called returns, and so does every Append, though
\* the queue may be full and writes may fail.
CloseReturns ==
  \A k \in Closer : closer[k] = "stopping" ~> closer[k] \in {"ok", "error"}
AppendReturns ==
  \A e \in Event : sender[e] = "select" ~> sender[e] \in {"ok", "closed", "canceled"}

=============================================================================
