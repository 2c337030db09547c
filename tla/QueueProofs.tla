----------------------------- MODULE QueueProofs -----------------------------
(***************************************************************************)
(* Theorems of the two components that are queues of who waits for whom:   *)
(* AuditAsync, for every set of events and callers of Close, every         *)
(* capacity and batch size, with and without a flush interval; and         *)
(* FillTabs, for every set of tabs, sites and items and every bound.       *)
(***************************************************************************)
EXTENDS AuditAsync, FillTabs, SequenceTheorems, TLAPS

USE DEF workerVars, senderVars, closerVars

-----------------------------------------------------------------------------
(* Sequences.                                                              *)

LEMMA BatchSizePositive == BatchSize \in Nat /\ BatchSize >= 1
BY AsyncAssumption DEF BatchSize

\* Taking the head of the channel into the batch leaves the queue as it is.
LEMMA MoveHead ==
  ASSUME NEW b \in Seq(Event), NEW q \in Seq(Event), q # <<>>
  PROVE  /\ Head(q) \in Event
         /\ Append(b, Head(q)) \o Tail(q) = b \o q
<1>1. Head(q) \in Event /\ Tail(q) \in Seq(Event)
  BY HeadTailProperties
<1>2. Append(b, Head(q)) = b \o <<Head(q)>>
  BY <1>1, AppendIsConcat
<1>3. Append(b, Head(q)) \o Tail(q) = b \o (<<Head(q)>> \o Tail(q))
  <2>1. <<Head(q)>> \in Seq(Event)
    BY <1>1
  <2> QED BY <1>1, <1>2, <2>1, ConcatAssociative
<1>4. <<Head(q)>> \o Tail(q) = q
  <2>1. Len(<<Head(q)>> \o Tail(q)) = Len(q)
    BY <1>1, HeadTailProperties
  <2>2. \A i \in 1 .. Len(q) : (<<Head(q)>> \o Tail(q))[i] = q[i]
    BY <1>1, HeadTailProperties
  <2>3. <<Head(q)>> \o Tail(q) \in Seq(Event)
    BY <1>1
  <2> QED BY <2>1, <2>2, <2>3, SeqEqual
<1> QED BY <1>1, <1>3, <1>4

\* The same for an event that enters the queue.
LEMMA AppendToEnd ==
  ASSUME NEW l \in Seq(Event), NEW q \in Seq(Event), NEW e \in Event
  PROVE  l \o Append(q, e) = Append(l \o q, e)
<1>1. Append(q, e) = q \o <<e>> /\ <<e>> \in Seq(Event) /\ l \o q \in Seq(Event)
  BY AppendIsConcat
<1>2. Append(l \o q, e) = (l \o q) \o <<e>>
  BY <1>1, AppendIsConcat
<1> QED BY <1>1, <1>2, ConcatAssociative

LEMMA AppendSet ==
  ASSUME NEW s \in Seq(Event), NEW e \in Event
  PROVE  /\ ToSet(Append(s, e)) = ToSet(s) \cup {e}
         /\ e \notin ToSet(s) /\ IsInjective(s) => IsInjective(Append(s, e))
<1>1. /\ DOMAIN s = 1 .. Len(s)
      /\ DOMAIN Append(s, e) = 1 .. Len(s) + 1
      /\ \A i \in 1 .. Len(s) : Append(s, e)[i] = s[i]
      /\ Append(s, e)[Len(s) + 1] = e
      /\ Len(s) \in Nat
  BY AppendProperties
<1>2. ToSet(Append(s, e)) = ToSet(s) \cup {e}
  <2>1. \A x \in ToSet(Append(s, e)) : x \in ToSet(s) \cup {e}
    BY <1>1 DEF ToSet
  <2>2. ToSet(s) \subseteq ToSet(Append(s, e))
    BY <1>1 DEF ToSet
  <2>3. e \in ToSet(Append(s, e))
    BY <1>1 DEF ToSet
  <2> QED BY <2>1, <2>2, <2>3
<1>3. ASSUME e \notin ToSet(s), IsInjective(s)
      PROVE  IsInjective(Append(s, e))
  <2> SUFFICES ASSUME NEW i \in 1 .. Len(s) + 1, NEW j \in 1 .. Len(s) + 1,
                      Append(s, e)[i] = Append(s, e)[j]
               PROVE  i = j
    BY <1>1 DEF IsInjective
  <2>1. \A k \in 1 .. Len(s) : s[k] # e
    BY <1>1, <1>3 DEF ToSet
  <2>2. CASE i \in 1 .. Len(s) /\ j \in 1 .. Len(s)
    BY <1>1, <1>3, <2>2 DEF IsInjective
  <2>3. CASE i = Len(s) + 1 \/ j = Len(s) + 1
    BY <1>1, <2>1, <2>3
  <2> QED BY <1>1, <2>2, <2>3
<1> QED BY <1>2, <1>3

-----------------------------------------------------------------------------
(* The inductive invariant.                                                *)

LEMMA InitInv == AsyncInit => AsyncInv
<1> SUFFICES ASSUME AsyncInit PROVE AsyncInv
  OBVIOUS
<1>1. AsyncTypeOK
  <2>1. <<>> \in Seq(Event) /\ Len(<<>>) = 0
    OBVIOUS
  <2>2. 0 <= BatchSize /\ 0 <= IF Cap = 0 THEN 1 ELSE Cap
    BY BatchSizePositive, AsyncAssumption
  <2> QED BY <2>1, <2>2 DEF AsyncInit, AsyncTypeOK
<1>2. CloseInOrder /\ WorkerInOrder /\ NoSendAfterClose
  BY DEF AsyncInit, CloseInOrder, WorkerInOrder, NoSendAfterClose
<1>3. NothingLost
  <2>1. log \o (batch \o ch) = <<>>
    BY DEF AsyncInit
  <2>2. ToSet(<<>>) = {} /\ IsInjective(<<>>)
    BY DEF ToSet, IsInjective
  <2> QED BY <2>1, <2>2 DEF AsyncInit, NothingLost
<1> QED BY <1>1, <1>2, <1>3 DEF AsyncInv

LEMMA NextType == AsyncInv /\ [AsyncNext]_asyncVars => AsyncTypeOK'
<1> SUFFICES ASSUME AsyncInv, [AsyncNext]_asyncVars PROVE AsyncTypeOK'
  OBVIOUS
<1> USE AsyncAssumption DEF AsyncTypeOK
<1>0. AsyncTypeOK /\ WorkerInOrder
  BY DEF AsyncInv
<1>1. ASSUME NEW e \in Event, AppendBegin(e) PROVE AsyncTypeOK'
  BY <1>0, <1>1 DEF AppendBegin
<1>2. ASSUME NEW e \in Event, AppendSend(e) PROVE AsyncTypeOK'
  <2>1. ch' \in Seq(Event) /\ Len(ch') = Len(ch) + 1
    BY <1>0, <1>2 DEF AppendSend
  <2>2. Len(ch') <= IF Cap = 0 THEN 1 ELSE Cap
    BY <1>0, <1>2, <2>1 DEF AppendSend, Room
  <2> QED BY <1>0, <1>2, <2>1, <2>2 DEF AppendSend
<1>3. ASSUME NEW e \in Event, AppendStopped(e) PROVE AsyncTypeOK'
  BY <1>0, <1>3 DEF AppendStopped
<1>4. ASSUME NEW e \in Event, AppendCanceled(e) PROVE AsyncTypeOK'
  BY <1>0, <1>4 DEF AppendCanceled
<1>5. ASSUME NEW stage \in {"fill", "drain"}, TakeInto(stage), Len(batch) < BatchSize
      PROVE  AsyncTypeOK'
  <2>1. /\ Head(ch) \in Event /\ Tail(ch) \in Seq(Event)
        /\ Len(Tail(ch)) = Len(ch) - 1
    BY <1>0, <1>5, HeadTailProperties DEF TakeInto
  <2>2. batch' \in Seq(Event) /\ Len(batch') = Len(batch) + 1
    BY <1>0, <1>5, <2>1 DEF TakeInto
  <2>3. Len(batch') <= BatchSize /\ Len(ch') <= IF Cap = 0 THEN 1 ELSE Cap
    BY <1>0, <1>5, <2>1, <2>2, BatchSizePositive DEF TakeInto
  <2> QED BY <1>0, <1>5, <2>1, <2>2, <2>3 DEF TakeInto, BatchSize
<1>6. ASSUME NEW stage \in {"last", "flush", "drain"}, Move(stage) PROVE AsyncTypeOK'
  BY <1>0, <1>6 DEF Move, BatchSize
<1>7. CASE Work \/ FillTimeout
  <2>1. CASE Receive
    <3>1. Len(batch) < BatchSize
      BY <1>0, <2>1, BatchSizePositive DEF Receive, WorkerInOrder
    <3> QED BY <1>5, <2>1, <3>1 DEF Receive
  <2>2. CASE Fill \/ Drain
    BY <1>5, <2>2 DEF Fill, Drain
  <2>3. CASE ReceiveClosed \/ FillFull \/ FillClosed \/ DrainEnd \/ FillTimeout
    BY <1>6, <2>3 DEF ReceiveClosed, FillFull, FillClosed, DrainEnd, FillTimeout
  <2>4. CASE Flush
    <3>1. log \o batch \in Seq(Event)
      BY <1>0
    <3>2. log' \in Seq(Event) /\ err' \in BOOLEAN
      BY <1>0, <2>4, <3>1 DEF Flush
    <3>3. batch' = <<>> /\ worker' \in {"receive", "done"}
      BY <2>4 DEF Flush
    <3> QED BY <1>0, <2>4, <3>2, <3>3, BatchSizePositive DEF Flush, BatchSize
  <2> QED BY <1>7, <2>1, <2>2, <2>3, <2>4 DEF Work
<1>8. ASSUME NEW k \in Closer,
             \/ CloseBegin(k) \/ CloseStop(k) \/ CloseChannel(k)
             \/ CloseAgain(k) \/ CloseReturn(k)
      PROVE  AsyncTypeOK'
  BY <1>0, <1>8 DEF CloseBegin, CloseStop, CloseChannel, CloseAgain, CloseReturn, BatchSize
<1>9. CASE UNCHANGED asyncVars
  BY <1>0, <1>9 DEF asyncVars, BatchSize
<1> QED BY <1>1, <1>2, <1>3, <1>4, <1>7, <1>8, <1>9 DEF AsyncNext

\* The order of Close and of the worker; a step of one is seen by the other.
LEMMA NextOrder ==
  AsyncInv /\ [AsyncNext]_asyncVars => CloseInOrder' /\ WorkerInOrder' /\ NoSendAfterClose'
<1> SUFFICES ASSUME AsyncInv, [AsyncNext]_asyncVars
             PROVE  CloseInOrder' /\ WorkerInOrder' /\ NoSendAfterClose'
  OBVIOUS
<1> USE DEF CloseInOrder, WorkerInOrder, NoSendAfterClose
<1>0. AsyncTypeOK /\ CloseInOrder /\ WorkerInOrder /\ NoSendAfterClose
  BY DEF AsyncInv
<1>1. ASSUME NEW e \in Event, AppendBegin(e) PROVE CloseInOrder' /\ WorkerInOrder' /\ NoSendAfterClose'
  BY <1>0, <1>1 DEF AppendBegin, AsyncTypeOK
<1>2. ASSUME NEW e \in Event, AppendSend(e) PROVE CloseInOrder' /\ WorkerInOrder' /\ NoSendAfterClose'
  <2>1. ~ chClosed
    BY <1>0, <1>2 DEF AppendSend
  <2> QED BY <1>0, <1>2, <2>1 DEF AppendSend, AsyncTypeOK
<1>3. ASSUME NEW e \in Event, AppendStopped(e) \/ AppendCanceled(e)
      PROVE  CloseInOrder' /\ WorkerInOrder' /\ NoSendAfterClose'
  BY <1>0, <1>3 DEF AppendStopped, AppendCanceled, AsyncTypeOK
<1>4. CASE Work \/ FillTimeout
  <2>1. worker # "done"
    BY <1>4 DEF Work, Receive, ReceiveClosed, Fill, FillFull, FillClosed, Drain,
                DrainEnd, Flush, FillTimeout
  <2>2. UNCHANGED <<senderVars, closerVars, chClosed>>
    BY <1>4 DEF Work, Receive, ReceiveClosed, Fill, FillFull, FillClosed, Drain,
                DrainEnd, Flush, FillTimeout, TakeInto, Move
  <2>3. WorkerInOrder'
    BY <1>0, <1>4 DEF Work, Receive, ReceiveClosed, Fill, FillFull, FillClosed, Drain,
                DrainEnd, Flush, FillTimeout, TakeInto, Move
  <2>4. CloseInOrder' /\ NoSendAfterClose'
    BY <1>0, <2>1, <2>2
  <2> QED BY <2>3, <2>4
<1>5. ASSUME NEW k \in Closer, CloseBegin(k)
      PROVE  CloseInOrder' /\ WorkerInOrder' /\ NoSendAfterClose'
  <2>1. \A j \in Closer : closer[j] = "idle"
    BY <1>0, <1>5 DEF CloseBegin, AsyncTypeOK
  <2> QED BY <1>0, <1>5, <2>1 DEF CloseBegin, AsyncTypeOK
<1>6. ASSUME NEW k \in Closer, CloseStop(k)
      PROVE  CloseInOrder' /\ WorkerInOrder' /\ NoSendAfterClose'
  BY <1>0, <1>6 DEF CloseStop, AsyncTypeOK
<1>7. ASSUME NEW k \in Closer, CloseChannel(k)
      PROVE  CloseInOrder' /\ WorkerInOrder' /\ NoSendAfterClose'
  BY <1>0, <1>7 DEF CloseChannel, AsyncTypeOK
<1>8. ASSUME NEW k \in Closer, CloseAgain(k)
      PROVE  CloseInOrder' /\ WorkerInOrder' /\ NoSendAfterClose'
  BY <1>0, <1>8 DEF CloseAgain, AsyncTypeOK
<1>9. ASSUME NEW k \in Closer, CloseReturn(k)
      PROVE  CloseInOrder' /\ WorkerInOrder' /\ NoSendAfterClose'
  BY <1>0, <1>9 DEF CloseReturn, AsyncTypeOK
<1>10. CASE UNCHANGED asyncVars
  BY <1>0, <1>10 DEF asyncVars
<1> QED BY <1>1, <1>2, <1>3, <1>4, <1>5, <1>6, <1>7, <1>8, <1>9, <1>10 DEF AsyncNext

\* Only AppendSend changes what has been taken; the worker moves it along.
LEMMA NextNothingLost == AsyncInv /\ [AsyncNext]_asyncVars => NothingLost'
<1> SUFFICES ASSUME AsyncInv, [AsyncNext]_asyncVars, ~ err' PROVE NothingLost'
  BY DEF NothingLost
<1> DEFINE taken == log \o (batch \o ch)
           Ok == {e \in Event : sender[e] = "ok"}
<1>0. AsyncTypeOK
  BY DEF AsyncInv
<1>1. ~ err
  BY <1>0 DEF AsyncNext, Work, asyncVars, AppendBegin, AppendSend, AppendStopped, AppendCanceled,
              Receive, ReceiveClosed, Fill, FillFull, FillClosed, Drain, DrainEnd, Flush,
              FillTimeout, TakeInto, Move, CloseBegin, CloseStop, CloseChannel,
              CloseAgain, CloseReturn, AsyncTypeOK
<1>2. ToSet(taken) = Ok /\ IsInjective(taken)
  BY <1>1 DEF AsyncInv, NothingLost
<1>3. log \in Seq(Event) /\ batch \in Seq(Event) /\ ch \in Seq(Event) /\ taken \in Seq(Event)
  BY <1>0 DEF AsyncTypeOK
<1>4. SUFFICES ToSet(taken') = Ok' /\ IsInjective(taken')
  BY DEF NothingLost
<1>5. ASSUME taken' = taken, Ok' = Ok PROVE ToSet(taken') = Ok' /\ IsInjective(taken')
  BY <1>2, <1>5
<1>6. ASSUME NEW e \in Event, AppendSend(e)
      PROVE  ToSet(taken') = Ok' /\ IsInjective(taken')
  <2>1. taken' = Append(taken, e)
    <3>1. log' = log /\ batch' = batch /\ ch' = Append(ch, e) /\ Append(ch, e) \in Seq(Event)
      BY <1>3, <1>6 DEF AppendSend
    <3>2. batch \o Append(ch, e) = Append(batch \o ch, e)
      BY <1>3, AppendToEnd
    <3>3. batch \o ch \in Seq(Event)
      BY <1>3
    <3>4. log \o Append(batch \o ch, e) = Append(log \o (batch \o ch), e)
      BY <1>3, <3>3, AppendToEnd
    <3> QED BY <3>1, <3>2, <3>4
  <2>2. e \notin Ok /\ Ok' = Ok \cup {e}
    BY <1>0, <1>6 DEF AppendSend, AsyncTypeOK
  <2> HIDE DEF taken, Ok
  <2>3. ToSet(Append(taken, e)) = ToSet(taken) \cup {e} /\ IsInjective(Append(taken, e))
    BY <1>2, <1>3, <2>2, AppendSet
  <2> QED BY <1>2, <2>1, <2>2, <2>3
<1>7. ASSUME NEW e \in Event, AppendBegin(e) \/ AppendStopped(e) \/ AppendCanceled(e)
      PROVE  taken' = taken /\ Ok' = Ok
  BY <1>0, <1>7 DEF AppendBegin, AppendStopped, AppendCanceled, AsyncTypeOK
<1>8. ASSUME NEW stage, TakeInto(stage) PROVE taken' = taken /\ Ok' = Ok
  <2>1. Append(batch, Head(ch)) \o Tail(ch) = batch \o ch
    BY <1>3, <1>8, MoveHead DEF TakeInto
  <2> QED BY <1>8, <2>1 DEF TakeInto
<1>9. ASSUME NEW stage, Move(stage) PROVE taken' = taken /\ Ok' = Ok
  BY <1>9 DEF Move
<1>10. ASSUME Flush PROVE taken' = taken /\ Ok' = Ok
  <2>1. log' = log \o batch /\ batch' = <<>> /\ ch' = ch
    BY <1>0, <1>1, <1>10 DEF Flush, AsyncTypeOK
  <2>2. taken' = (log \o batch) \o ch
    BY <1>3, <2>1
  <2>3. (log \o batch) \o ch = log \o (batch \o ch)
    BY <1>3, ConcatAssociative
  <2> QED BY <1>10, <2>2, <2>3 DEF Flush
<1>11. ASSUME Work \/ FillTimeout PROVE taken' = taken /\ Ok' = Ok
  <2> HIDE DEF taken, Ok
  <2>1. CASE Receive \/ Fill \/ Drain
    BY <1>8, <2>1 DEF Receive, Fill, Drain
  <2>2. CASE ReceiveClosed \/ FillFull \/ FillClosed \/ DrainEnd \/ FillTimeout
    BY <1>9, <2>2 DEF ReceiveClosed, FillFull, FillClosed, DrainEnd, FillTimeout
  <2> QED BY <1>10, <1>11, <2>1, <2>2 DEF Work
<1>12. ASSUME NEW k \in Closer,
              \/ CloseBegin(k) \/ CloseStop(k) \/ CloseChannel(k)
              \/ CloseAgain(k) \/ CloseReturn(k)
       PROVE  taken' = taken /\ Ok' = Ok
  BY <1>12 DEF CloseBegin, CloseStop, CloseChannel, CloseAgain, CloseReturn
<1>13. ASSUME UNCHANGED asyncVars PROVE taken' = taken /\ Ok' = Ok
  BY <1>13 DEF asyncVars
<1> HIDE DEF taken, Ok
<1> QED BY <1>5, <1>6, <1>7, <1>11, <1>12, <1>13 DEF AsyncNext

\* Types, the order of Close and of the worker, no sender on the closed
\* channel and no event lost: in every reachable state.
THEOREM AuditInvHolds == AsyncSpec => []AsyncInv
<1>1. AsyncInv /\ [AsyncNext]_asyncVars => AsyncInv'
  BY NextType, NextOrder, NextNothingLost DEF AsyncInv
<1> QED BY InitInv, <1>1, PTL DEF AsyncSpec

\* No Append sends on the channel once Close has closed it.
THEOREM NoSendAfterCloseHolds == AsyncSpec => []NoSendAfterClose
<1>1. AsyncInv => NoSendAfterClose
  BY DEF AsyncInv
<1> QED BY <1>1, AuditInvHolds, PTL

\* A Close that returned nil leaves in the table the events that Append took,
\* each once, and no other.
THEOREM CloseDrainsHolds == AsyncSpec => []CloseDrains
<1>1. AsyncInv => CloseDrains
  <2> SUFFICES ASSUME AsyncInv, NEW k \in Closer, closer[k] = "ok"
               PROVE  /\ ToSet(log) = {e \in Event : sender[e] = "ok"}
                      /\ IsInjective(log)
    BY DEF CloseDrains
  <2>1. worker = "done" /\ ~ err /\ batch = <<>> /\ ch = <<>>
    BY DEF AsyncInv, CloseInOrder, WorkerInOrder
  <2>2. log \o (batch \o ch) = log
    BY <2>1 DEF AsyncInv, AsyncTypeOK
  <2> QED BY <2>1, <2>2 DEF AsyncInv, NothingLost
<1> QED BY <1>1, AuditInvHolds, PTL

-----------------------------------------------------------------------------
(* Refinement of AuditLog.                                                 *)

\* A flush takes the batch from the head of what is pending.
LEMMA BatchIsFirst ==
  ASSUME NEW b \in Seq(Event), NEW q \in Seq(Event), b # <<>>
  PROVE  /\ Len(b) \in 1 .. Len(b \o q)
         /\ SubSeq(b \o q, 1, Len(b)) = b
         /\ SubSeq(b \o q, Len(b) + 1, Len(b \o q)) = q
<1>1. Len(b) \in Nat /\ Len(b) > 0 /\ Len(q) \in Nat /\ Len(b \o q) = Len(b) + Len(q)
  BY ConcatProperties
<1>2. SubSeq(b \o q, 1, Len(b)) = b
  BY <1>1, SubSeqOfConcat1, SubSeqFull
<1>3. SubSeq(b \o q, Len(b) + 1, Len(b \o q)) = q
  <2>1. CASE q = <<>>
    BY <1>1, <2>1, SubSeqEmpty
  <2>2. CASE q # <<>>
    <3>1. Len(q) > 0
      BY <2>2
    <3>2. /\ Len(b) + 1 \in Len(b) + 1 .. Len(b) + Len(q)
          /\ Len(b) + Len(q) \in Len(b) + 1 .. Len(b) + Len(q)
      BY <1>1, <3>1
    <3>3. SubSeq(b \o q, Len(b) + 1, Len(b) + Len(q))
            = SubSeq(q, (Len(b) + 1) - Len(b), (Len(b) + Len(q)) - Len(b))
      BY <3>2, SubSeqOfConcat2
    <3>4. (Len(b) + 1) - Len(b) = 1 /\ (Len(b) + Len(q)) - Len(b) = Len(q)
      BY <1>1
    <3> QED BY <1>1, <3>3, <3>4, SubSeqFull
  <2> QED BY <2>1, <2>2
<1> QED BY <1>1, <1>2, <1>3

\* The state of AuditLog that a state of AuditAsync stands for.
AnswerOf ==
  [e \in Event |->
    CASE sender[e] \in {"idle", "select"} -> "none"
      [] sender[e] = "ok" -> "ok"
      [] OTHER -> "refused"]
ReturnedTo ==
  [k \in Closer |-> IF closer[k] \in {"ok", "error"} THEN closer[k] ELSE "none"]

LEMMA InitLog == AsyncInit => Log!LogInit
BY DEF AsyncInit, Log!LogInit

LEMMA StepLog == AsyncInv /\ [AsyncNext]_asyncVars => [Log!LogNext]_(Log!logVars)
<1> SUFFICES ASSUME AsyncInv, [AsyncNext]_asyncVars PROVE Log!LogNext \/ UNCHANGED Log!logVars
  OBVIOUS
<1>0. AsyncTypeOK /\ NoSendAfterClose /\ WorkerInOrder /\ CloseInOrder
  BY DEF AsyncInv
<1>s. UNCHANGED <<AnswerOf, batch \o ch, log, err, chClosed, ReturnedTo>>
        => UNCHANGED Log!logVars
  BY DEF Log!logVars, AnswerOf, ReturnedTo
<1>1. ASSUME NEW e \in Event, AppendBegin(e) PROVE Log!LogNext \/ UNCHANGED Log!logVars
  <2>1. CASE closed
    <3>1. AnswerOf[e] = "none" /\ AnswerOf' = [AnswerOf EXCEPT ![e] = "refused"]
      BY <1>0, <1>1, <2>1 DEF AppendBegin, AnswerOf, AsyncTypeOK
    <3>2. ReturnedTo' = ReturnedTo
      BY <1>1 DEF AppendBegin, ReturnedTo
    <3>3. Log!Refuse(e)
      BY <1>1, <3>1, <3>2 DEF AppendBegin, Log!Refuse, AnswerOf, ReturnedTo
    <3> QED BY <3>3 DEF Log!LogNext
  <2>2. CASE ~ closed
    <3>1. AnswerOf' = AnswerOf
      BY <1>0, <1>1, <2>2 DEF AppendBegin, AnswerOf, AsyncTypeOK
    <3> QED BY <1>1, <1>s, <3>1 DEF AppendBegin, ReturnedTo
  <2> QED BY <2>1, <2>2
<1>2. ASSUME NEW e \in Event, AppendSend(e) PROVE Log!LogNext
  <2>1. AnswerOf[e] = "none" /\ AnswerOf' = [AnswerOf EXCEPT ![e] = "ok"]
    BY <1>0, <1>2 DEF AppendSend, AnswerOf, AsyncTypeOK
  <2>2. ~ chClosed
    BY <1>0, <1>2 DEF AppendSend, NoSendAfterClose
  <2>3. batch' \o ch' = Append(batch \o ch, e)
    BY <1>0, <1>2, AppendToEnd DEF AppendSend, AsyncTypeOK
  <2>4. Log!Take(e)
    BY <1>2, <2>1, <2>2, <2>3 DEF AppendSend, Log!Take, AnswerOf, ReturnedTo
  <2> QED BY <2>4 DEF Log!LogNext
<1>3. ASSUME NEW e \in Event, AppendStopped(e) \/ AppendCanceled(e) PROVE Log!LogNext
  <2>1. AnswerOf[e] = "none" /\ AnswerOf' = [AnswerOf EXCEPT ![e] = "refused"]
    BY <1>0, <1>3 DEF AppendStopped, AppendCanceled, AnswerOf, AsyncTypeOK
  <2>2. Log!Refuse(e)
    BY <1>3, <2>1 DEF AppendStopped, AppendCanceled, Log!Refuse, AnswerOf, ReturnedTo
  <2> QED BY <2>2 DEF Log!LogNext
<1>4. ASSUME NEW stage, TakeInto(stage) PROVE UNCHANGED Log!logVars
  <2>1. batch' \o ch' = batch \o ch
    BY <1>0, <1>4, MoveHead DEF TakeInto, AsyncTypeOK
  <2> QED BY <1>4, <1>s, <2>1 DEF TakeInto, AnswerOf, ReturnedTo
<1>5. ASSUME NEW stage, Move(stage) PROVE UNCHANGED Log!logVars
  BY <1>5, <1>s DEF Move, AnswerOf, ReturnedTo
<1>6. ASSUME Flush PROVE Log!LogNext \/ UNCHANGED Log!logVars
  <2>1. batch \in Seq(Event) /\ ch \in Seq(Event) /\ log \in Seq(Event)
    BY <1>0 DEF AsyncTypeOK
  <2>2. batch' \o ch' = ch
    BY <1>6, <2>1 DEF Flush
  <2>3. CASE batch = <<>>
    <3>1. log' = log /\ err' = err
      BY <1>6, <2>1, <2>3 DEF Flush
    <3>2. batch \o ch = ch
      BY <2>1, <2>3
    <3> QED BY <1>6, <1>s, <2>2, <3>1, <3>2 DEF Flush, AnswerOf, ReturnedTo
  <2>4. CASE batch # <<>>
    <3>1. /\ Len(batch) \in 1 .. Len(batch \o ch)
          /\ SubSeq(batch \o ch, 1, Len(batch)) = batch
          /\ SubSeq(batch \o ch, Len(batch) + 1, Len(batch \o ch)) = ch
      BY <2>1, <2>4, BatchIsFirst
    <3>2. \/ log' = log \o batch /\ err' = err
          \/ log' \in {log, log \o batch} /\ err' = TRUE
      BY <1>6 DEF Flush
    <3>3. Log!Write(Len(batch))
      BY <1>6, <2>2, <3>1, <3>2 DEF Flush, Log!Write, AnswerOf, ReturnedTo
    <3> QED BY <3>1, <3>3 DEF Log!LogNext
  <2> QED BY <2>3, <2>4
<1>7. ASSUME Work \/ FillTimeout PROVE Log!LogNext \/ UNCHANGED Log!logVars
  <2>1. CASE Receive \/ Fill \/ Drain
    BY <1>4, <2>1 DEF Receive, Fill, Drain
  <2>2. CASE ReceiveClosed \/ FillFull \/ FillClosed \/ DrainEnd \/ FillTimeout
    BY <1>5, <2>2 DEF ReceiveClosed, FillFull, FillClosed, DrainEnd, FillTimeout
  <2> QED BY <1>6, <1>7, <2>1, <2>2 DEF Work
<1>8. ASSUME NEW k \in Closer, CloseBegin(k) \/ CloseStop(k) \/ CloseAgain(k)
      PROVE  UNCHANGED Log!logVars
  <2>1. ReturnedTo' = ReturnedTo
    BY <1>0, <1>8 DEF CloseBegin, CloseStop, CloseAgain, ReturnedTo, AsyncTypeOK
  <2> QED BY <1>8, <1>s, <2>1 DEF CloseBegin, CloseStop, CloseAgain, AnswerOf
<1>9. ASSUME NEW k \in Closer, CloseChannel(k) PROVE Log!LogNext
  <2>1. ReturnedTo' = ReturnedTo
    BY <1>0, <1>9 DEF CloseChannel, ReturnedTo, AsyncTypeOK
  <2>2. Log!Seal
    BY <1>9, <2>1 DEF CloseChannel, Log!Seal, AnswerOf, ReturnedTo
  <2> QED BY <2>2 DEF Log!LogNext
<1>10. ASSUME NEW k \in Closer, CloseReturn(k) PROVE Log!LogNext
  <2>1. chClosed /\ batch \o ch = <<>>
    BY <1>0, <1>10 DEF CloseReturn, WorkerInOrder
  <2>2. /\ ReturnedTo[k] = "none"
        /\ ReturnedTo' = [ReturnedTo EXCEPT ![k] = IF err THEN "error" ELSE "ok"]
    BY <1>0, <1>10 DEF CloseReturn, ReturnedTo, AsyncTypeOK
  <2>3. Log!ReturnFromClose(k)
    BY <1>10, <2>1, <2>2 DEF CloseReturn, Log!ReturnFromClose, AnswerOf, ReturnedTo
  <2> QED BY <2>3 DEF Log!LogNext
<1>11. ASSUME UNCHANGED asyncVars PROVE UNCHANGED Log!logVars
  BY <1>11, <1>s DEF asyncVars, AnswerOf, ReturnedTo
<1> QED BY <1>1, <1>2, <1>3, <1>7, <1>8, <1>9, <1>10, <1>11 DEF AsyncNext

\* The queue, the worker and the close protocol implement AuditLog: events are
\* written in the order they were taken, each once, none after a refusal, and
\* Close returns only when nothing is pending.
THEOREM ImplementsLogHolds == AsyncSpec => ImplementsLog
<1> QED BY InitLog, StepLog, AuditInvHolds, PTL DEF AsyncSpec, ImplementsLog, Log!LogSpec

-----------------------------------------------------------------------------
(* The extension: its port.                                                *)

LEMMA RemoveAtProperties ==
  ASSUME NEW S, NEW s \in Seq(S), NEW k \in 1 .. Len(s)
  PROVE  /\ RemoveAt(s, k) \in Seq(S)
         /\ Len(RemoveAt(s, k)) = Len(s) - 1
         /\ \A j \in 1 .. Len(s) - 1 :
              RemoveAt(s, k)[j] = IF j < k THEN s[j] ELSE s[j + 1]
<1> DEFINE a == SubSeq(s, 1, k - 1)
           b == SubSeq(s, k + 1, Len(s))
<1>1. a \in Seq(S) /\ Len(a) = k - 1 /\ \A j \in 1 .. k - 1 : a[j] = s[j]
  OBVIOUS
<1>2. b \in Seq(S) /\ Len(b) = Len(s) - k /\ \A j \in 1 .. Len(s) - k : b[j] = s[j + k]
  OBVIOUS
<1>3. RemoveAt(s, k) = a \o b
  BY DEF RemoveAt
<1> HIDE DEF a, b
<1>4. /\ a \o b \in Seq(S) /\ Len(a \o b) = Len(s) - 1
      /\ \A j \in 1 .. Len(s) - 1 : (a \o b)[j] = IF j <= k - 1 THEN a[j] ELSE b[j - (k - 1)]
  <2>1. Len(a) + Len(b) = Len(s) - 1
    BY <1>1, <1>2
  <2>2. /\ a \o b \in Seq(S) /\ Len(a \o b) = Len(a) + Len(b)
        /\ \A j \in 1 .. Len(a) + Len(b) :
             (a \o b)[j] = IF j <= Len(a) THEN a[j] ELSE b[j - Len(a)]
    BY <1>1, <1>2, ConcatProperties, Zenon
  <2> QED BY <1>1, <2>1, <2>2, Zenon
<1>5. \A j \in 1 .. Len(s) - 1 : (a \o b)[j] = IF j < k THEN s[j] ELSE s[j + 1]
  BY <1>1, <1>2, <1>4
<1> QED BY <1>3, <1>4, <1>5

LEMMA TailIs ==
  ASSUME NEW S, NEW s \in Seq(S), s # <<>>
  PROVE  /\ Head(s) = s[1] /\ Head(s) \in S /\ Len(s) >= 1
         /\ Tail(s) \in Seq(S) /\ Len(Tail(s)) = Len(s) - 1
         /\ \A j \in 1 .. Len(s) - 1 : Tail(s)[j] = s[j + 1]
OBVIOUS

\* The stages of a call that waits for an answer.
Asking == {"match", "fill", "generate", "save", "rematch", "enroll", "passkey"}

Busy(r) == r # Nil /\ r.stage \in Asking

\* What a message may carry: a save a password that was typed in the tab it
\* asks for, the others none.
Carries(m) ==
  IF m.op = "save" THEN m.password # Nil /\ m.password.tab = m.from
  ELSE m.password = Nil

LineTypes(p, q, w, n, l, f) ==
  /\ p \in {"none", "open", "dead"} /\ n \in Nat /\ l \in BOOLEAN
  /\ q \in Seq(Message) /\ w \in Seq(Waiter) /\ f \in [Call -> CallRecord \cup {Nil}]

\* The port p with its queue q, its waiters w, n messages sent, l as late, and
\* the calls f: a waiter is a call that asks, of one question at a time; its
\* place is not behind its question's, and while nobody has left it is its
\* question's, of the same site.
Lines(p, q, w, n, l, f) ==
  /\ LineTypes(p, q, w, n, l, f)
  /\ p \in {"none", "dead"} => q = <<>>
  /\ p = "none" => w = <<>>
  /\ \A k \in 1 .. Len(q) : q[k].id <= n /\ Carries(q[k])
  /\ \A k \in 1 .. Len(w) : w[k].id <= n /\ Busy(f[w[k].call])
  /\ \A j, k \in 1 .. Len(w) : j < k => w[j].id <= w[k].id /\ w[j].call # w[k].call
  /\ p # "dead" => Len(w) <= Len(q) /\ \A k \in 1 .. Len(w) : q[k].id <= w[k].id
  /\ p # "dead" /\ ~ l =>
       /\ Len(w) = Len(q)
       /\ \A k \in 1 .. Len(w) : q[k].id = w[k].id /\ q[k].site = f[w[k].call].site

LEMMA LineElements ==
  ASSUME NEW p, NEW q, NEW w, NEW n, NEW l, NEW f, LineTypes(p, q, w, n, l, f)
  PROVE  /\ Len(q) \in Nat /\ DOMAIN q = 1 .. Len(q)
         /\ Len(w) \in Nat /\ DOMAIN w = 1 .. Len(w) /\ n \in Nat
         /\ \A k \in 1 .. Len(q) : q[k] \in Message /\ q[k].id \in Nat
         /\ \A k \in 1 .. Len(w) : w[k] \in Waiter /\ w[k].id \in Nat /\ w[k].call \in Call
<1>1. Len(q) \in Nat /\ DOMAIN q = 1 .. Len(q) /\ Len(w) \in Nat /\ DOMAIN w = 1 .. Len(w)
  BY DEF LineTypes
<1>2. \A k \in 1 .. Len(q) : q[k] \in Message
  BY DEF LineTypes
<1>3. \A k \in 1 .. Len(w) : w[k] \in Waiter
  BY DEF LineTypes
<1>4. n \in Nat
  BY DEF LineTypes
<1> QED BY <1>1, <1>2, <1>3, <1>4 DEF Message, Waiter

LEMMA LinesKeepOrder ==
  ASSUME Lines(port, queue, waiters, sends, late, call)
  PROVE  InOrder /\ NeverAhead
<1>1. DOMAIN waiters = 1 .. Len(waiters) /\ DOMAIN queue = 1 .. Len(queue)
  BY DEF Lines, LineTypes
<1>2. NeverAhead
  <2>1. port # "dead" => /\ Len(waiters) <= Len(queue)
                         /\ \A k \in 1 .. Len(waiters) : queue[k].id <= waiters[k].id
    BY DEF Lines
  <2> QED BY <1>1, <2>1, Zenon DEF NeverAhead
<1>3. InOrder
  BY <1>1 DEF Lines, InOrder
<1> QED BY <1>2, <1>3

\* A call that asks enters both queues at their ends.
LEMMA LinesSend ==
  ASSUME NEW p, NEW q, NEW w, NEW n, NEW l, NEW f, Lines(p, q, w, n, l, f), p # "dead",
         NEW c \in Call, ~ Busy(f[c]), NEW r \in CallRecord, Busy(r),
         NEW m \in Message, m.id = n + 1, m.site = r.site, Carries(m)
  PROVE  Lines("open", Append(q, m), Append(w, [id |-> n + 1, call |-> c]), n + 1, l,
               [f EXCEPT ![c] = r])
<1>0. LineTypes(p, q, w, n, l, f)
  BY DEF Lines
<1> DEFINE v == [id |-> n + 1, call |-> c]
           g == [f EXCEPT ![c] = r]
           Q == Append(q, m)
           W == Append(w, v)
<1>1. v \in Waiter /\ v.id = n + 1 /\ v.call = c
  BY <1>0 DEF LineTypes, Waiter
<1>2. /\ Q \in Seq(Message) /\ Len(Q) = Len(q) + 1 /\ Q[Len(q) + 1] = m
      /\ \A k \in 1 .. Len(q) : Q[k] = q[k]
  BY <1>0 DEF LineTypes
<1> HIDE DEF v
<1>3. /\ W \in Seq(Waiter) /\ Len(W) = Len(w) + 1 /\ W[Len(w) + 1] = v
      /\ \A k \in 1 .. Len(w) : W[k] = w[k]
  BY <1>0, <1>1 DEF LineTypes
<1>4. g \in [Call -> CallRecord \cup {Nil}] /\ g[c] = r
      /\ \A d \in Call : d # c => g[d] = f[d]
  BY <1>0 DEF LineTypes
<1> HIDE DEF g, Q, W
<1>5. \A k \in 1 .. Len(w) : w[k].call # c /\ g[w[k].call] = f[w[k].call]
  BY <1>0, <1>4, LineElements DEF Lines
<1>6. LineTypes("open", Q, W, n + 1, l, g)
  BY <1>0, <1>2, <1>3, <1>4 DEF LineTypes
<1>7. Len(w) <= Len(q) /\ Len(w) \in Nat /\ Len(q) \in Nat /\ n \in Nat
  BY <1>0, LineElements DEF Lines
<1>8. \A k \in 1 .. Len(Q) : Q[k].id <= n + 1 /\ Carries(Q[k])
  <2>1. \A k \in 1 .. Len(q) : q[k].id <= n + 1 /\ Carries(q[k])
    BY <1>0, <1>7, LineElements DEF Lines
  <2> QED BY <1>2, <1>7, <2>1
<1>9. \A k \in 1 .. Len(W) : W[k].id <= n + 1 /\ Busy(g[W[k].call])
  <2>1. \A k \in 1 .. Len(w) : w[k].id <= n + 1 /\ Busy(g[w[k].call])
    BY <1>0, <1>5, <1>7, LineElements DEF Lines
  <2> QED BY <1>1, <1>3, <1>4, <1>7, <2>1
<1>10. \A j, k \in 1 .. Len(W) : j < k => W[j].id <= W[k].id /\ W[j].call # W[k].call
  <2>1. \A j, k \in 1 .. Len(w) : j < k => w[j].id <= w[k].id /\ w[j].call # w[k].call
    BY DEF Lines
  <2>2. \A j \in 1 .. Len(w) : w[j].id <= n + 1
    BY <1>0, <1>7, LineElements DEF Lines
  <2> SUFFICES ASSUME NEW j \in 1 .. Len(W), NEW k \in 1 .. Len(W), j < k
               PROVE  W[j].id <= W[k].id /\ W[j].call # W[k].call
    OBVIOUS
  <2>3. j \in 1 .. Len(w) /\ (k \in 1 .. Len(w) \/ k = Len(w) + 1)
    BY <1>3, <1>7
  <2>4. CASE k \in 1 .. Len(w)
    BY <1>3, <2>1, <2>3, <2>4
  <2>5. CASE k = Len(w) + 1
    <3>1. W[j] = w[j] /\ W[k] = v
      BY <1>3, <2>3, <2>5
    <3> QED BY <1>1, <1>5, <2>2, <2>3, <3>1
  <2> QED BY <2>3, <2>4, <2>5
<1>11. Len(W) <= Len(Q) /\ \A k \in 1 .. Len(W) : Q[k].id <= W[k].id
  <2>1. \A k \in 1 .. Len(w) : q[k].id <= w[k].id
    BY DEF Lines
  <2> QED BY <1>1, <1>2, <1>3, <1>7, <1>8, <2>1
<1>12. ~ l => /\ Len(W) = Len(Q)
              /\ \A k \in 1 .. Len(W) : Q[k].id = W[k].id /\ Q[k].site = g[W[k].call].site
  <2>1. ~ l => /\ Len(w) = Len(q)
               /\ \A k \in 1 .. Len(w) : q[k].id = w[k].id /\ q[k].site = f[w[k].call].site
    BY DEF Lines
  <2> QED BY <1>1, <1>2, <1>3, <1>4, <1>5, <1>7, <2>1
<1>13. Lines("open", Q, W, n + 1, l, g)
  BY <1>6, <1>8, <1>9, <1>10, <1>11, <1>12 DEF Lines
<1> QED BY <1>13 DEF g, Q, W, v

\* A call that does not wait goes on or ends; a message that throws has a number.
LEMMA LinesTurn ==
  ASSUME NEW p, NEW q, NEW w, NEW n, NEW l, NEW f, Lines(p, q, w, n, l, f),
         NEW c \in Call, ~ Busy(f[c]), NEW x \in CallRecord \cup {Nil},
         NEW m \in {n, n + 1}
  PROVE  Lines(p, q, w, m, l, [f EXCEPT ![c] = x])
<1> DEFINE g == [f EXCEPT ![c] = x]
<1>0. LineTypes(p, q, w, n, l, f)
  BY DEF Lines
<1>1. LineTypes(p, q, w, m, l, g) /\ \A d \in Call : d # c => g[d] = f[d]
  BY <1>0 DEF LineTypes
<1> HIDE DEF g
<1>2. \A k \in 1 .. Len(w) : g[w[k].call] = f[w[k].call]
  BY <1>0, <1>1, LineElements DEF Lines
<1>3. /\ \A k \in 1 .. Len(q) : q[k].id <= m
      /\ \A k \in 1 .. Len(w) : w[k].id <= m
  BY <1>0, LineElements DEF Lines
<1>4. Lines(p, q, w, m, l, g)
  BY <1>1, <1>2, <1>3 DEF Lines
<1> QED BY <1>4 DEF g

\* A waiter leaves, from wherever it stands.
LEMMA LinesLeave ==
  ASSUME NEW p, NEW q, NEW w, NEW n, NEW l, NEW f, Lines(p, q, w, n, l, f),
         NEW i \in 1 .. Len(w), NEW c, c = w[i].call
  PROVE  Lines(p, q, RemoveAt(w, i), n, TRUE, [f EXCEPT ![c] = Nil])
<1> DEFINE g == [f EXCEPT ![c] = Nil]
           W == RemoveAt(w, i)
<1>0. LineTypes(p, q, w, n, l, f)
  BY DEF Lines
<1>1. c \in Call /\ g \in [Call -> CallRecord \cup {Nil}] /\ \A d \in Call : d # c => g[d] = f[d]
  <2>1. c \in Call
    BY <1>0, LineElements
  <2> QED BY <1>0, <2>1 DEF LineTypes
<1>2. /\ W \in Seq(Waiter) /\ Len(W) = Len(w) - 1
      /\ \A j \in 1 .. Len(w) - 1 : W[j] = IF j < i THEN w[j] ELSE w[j + 1]
  BY <1>0, RemoveAtProperties DEF LineTypes
<1> HIDE DEF g, W
<1>3. /\ Len(w) \in Nat /\ Len(q) \in Nat
      /\ \A j \in 1 .. Len(w) : w[j].id \in Nat
      /\ \A j \in 1 .. Len(q) : q[j].id \in Nat
  BY <1>0, LineElements
<1>4. \A j \in 1 .. Len(w) : j # i => w[j].call # c /\ g[w[j].call] = f[w[j].call]
  <2>1. \A j \in 1 .. Len(w) : j # i => w[j].call # c
    <3>1. \A j \in 1 .. Len(w) : j # i => j < i \/ i < j
      BY <1>3
    <3> QED BY <3>1 DEF Lines
  <2>2. \A j \in 1 .. Len(w) : w[j].call \in Call
    BY <1>0, LineElements
  <2> QED BY <1>1, <2>1, <2>2
<1>5. \A j \in 1 .. Len(W) : \E k \in 1 .. Len(w) : k # i /\ W[j] = w[k]
  <2> SUFFICES ASSUME NEW j \in 1 .. Len(W) PROVE \E k \in 1 .. Len(w) : k # i /\ W[j] = w[k]
    OBVIOUS
  <2>1. CASE j < i
    BY <1>2, <1>3, <2>1
  <2>2. CASE ~ j < i
    <3>1. j + 1 \in 1 .. Len(w) /\ j + 1 # i /\ W[j] = w[j + 1]
      BY <1>2, <1>3, <2>2
    <3> QED BY <3>1
  <2> QED BY <2>1, <2>2
<1>6. \A k \in 1 .. Len(W) : W[k].id <= n /\ Busy(g[W[k].call])
  BY <1>4, <1>5 DEF Lines
<1>7. \A j, k \in 1 .. Len(W) : j < k => W[j].id <= W[k].id /\ W[j].call # W[k].call
  <2> SUFFICES ASSUME NEW j \in 1 .. Len(W), NEW k \in 1 .. Len(W), j < k
               PROVE  W[j].id <= W[k].id /\ W[j].call # W[k].call
    OBVIOUS
  <2> DEFINE a == IF j < i THEN j ELSE j + 1
             b == IF k < i THEN k ELSE k + 1
  <2>1. a \in 1 .. Len(w) /\ b \in 1 .. Len(w) /\ a < b
    BY <1>2, <1>3
  <2>2. W[j] = w[a] /\ W[k] = w[b]
    BY <1>2, <1>3
  <2> QED BY <2>1, <2>2 DEF Lines
<1>8. p # "dead" => Len(W) <= Len(q) /\ \A k \in 1 .. Len(W) : q[k].id <= W[k].id
  <2> SUFFICES ASSUME p # "dead"
               PROVE  Len(W) <= Len(q) /\ \A k \in 1 .. Len(W) : q[k].id <= W[k].id
    OBVIOUS
  <2>1. Len(w) <= Len(q) /\ \A k \in 1 .. Len(w) : q[k].id <= w[k].id
    BY DEF Lines
  <2>2. ASSUME NEW k \in 1 .. Len(W) PROVE q[k].id <= W[k].id
    <3>1. k \in 1 .. Len(w) /\ k \in 1 .. Len(q) /\ k + 1 \in 1 .. Len(w) /\ k < k + 1
      BY <1>2, <1>3, <2>1
    <3>2. W[k] = w[k] \/ W[k] = w[k + 1]
      BY <1>2
    <3>3. q[k].id <= w[k].id /\ w[k].id <= w[k + 1].id
      BY <2>1, <3>1 DEF Lines
    <3>4. q[k].id \in Nat /\ w[k].id \in Nat /\ w[k + 1].id \in Nat
      BY <1>3, <3>1
    <3>5. q[k].id <= w[k + 1].id
      <4>1. \A x, y, z \in Nat : x <= y /\ y <= z => x <= z
        OBVIOUS
      <4> QED BY <3>3, <3>4, <4>1, Zenon
    <3> QED BY <3>2, <3>3, <3>5
  <2> QED BY <1>2, <1>3, <2>1, <2>2
<1>9. p # "none"
  BY <1>3 DEF Lines
<1>10. LineTypes(p, q, W, n, TRUE, g)
  BY <1>0, <1>1, <1>2 DEF LineTypes
<1>11. Lines(p, q, W, n, TRUE, g)
  BY <1>6, <1>7, <1>8, <1>9, <1>10 DEF Lines
<1> QED BY <1>11 DEF g, W

\* The host is gone: it owes nothing any more.
LEMMA LinesHostGone ==
  ASSUME NEW p, NEW q, NEW w, NEW n, NEW l, NEW f, Lines(p, q, w, n, l, f)
  PROVE  Lines("dead", <<>>, w, n, l, f)
<1>1. LineTypes("dead", <<>>, w, n, l, f)
  BY DEF Lines, LineTypes
<1>2. Len(<<>>) = 0
  OBVIOUS
<1> QED BY <1>1, <1>2 DEF Lines

\* No port, no one who asks or waits.
LEMMA LinesClosed ==
  ASSUME NEW p, NEW q, NEW w, NEW n, NEW l, NEW f, LineTypes(p, q, w, n, l, f),
         NEW g \in [Call -> CallRecord \cup {Nil}]
  PROVE  Lines("none", <<>>, <<>>, n, FALSE, g)
<1> PICK e : e = <<>>
  OBVIOUS
<1>1. LineTypes("none", e, e, n, FALSE, g)
  BY DEF LineTypes
<1>2. Len(e) <= Len(e) /\ \A k \in 1 .. Len(e) : FALSE
  OBVIOUS
<1>3. Lines("none", e, e, n, FALSE, g)
  BY <1>1, <1>2, Zenon DEF Lines
<1> QED BY <1>3

\* An answer that nobody waits for: late is cleared with the last one owed.
LEMMA LinesUnheard ==
  ASSUME NEW q, NEW n, NEW l, NEW f, Lines("open", q, <<>>, n, l, f), q # <<>>
  PROVE  Lines("open", Tail(q), <<>>, n, l /\ Len(q) > 1, f)
<1>0. LineTypes("open", q, <<>>, n, l, f) /\ Len(<<>>) = 0
  BY DEF Lines
<1>1. /\ Tail(q) \in Seq(Message) /\ Len(Tail(q)) = Len(q) - 1 /\ Len(q) \in Nat /\ Len(q) >= 1
      /\ \A j \in 1 .. Len(q) - 1 : Tail(q)[j] = q[j + 1]
  BY <1>0, TailIs DEF LineTypes
<1> DEFINE Q == Tail(q)
<1> HIDE DEF Q
<1>2. LineTypes("open", Q, <<>>, n, l /\ Len(q) > 1, f)
  BY <1>0, <1>1 DEF LineTypes, Q
<1>3. \A k \in 1 .. Len(Q) : Q[k].id <= n /\ Carries(Q[k])
  <2>1. \A k \in 1 .. Len(Q) : k + 1 \in 1 .. Len(q) /\ Q[k] = q[k + 1]
    BY <1>1 DEF Q
  <2> QED BY <2>1 DEF Lines
<1>4. ~ (l /\ Len(q) > 1) => Len(Q) = 0
  <2>1. l
    BY <1>0, <1>1 DEF Lines, LineTypes
  <2> QED BY <1>1, <2>1 DEF Q
<1>5. Len(Q) \in Nat
  BY <1>1 DEF Q
<1> QED BY <1>0, <1>2, <1>3, <1>4, <1>5 DEF Lines, Q

\* An answer goes to the first waiter.
LEMMA LinesAnswered ==
  ASSUME NEW q, NEW w, NEW n, NEW l, NEW f, Lines("open", q, w, n, l, f), w # <<>>,
         NEW c, c = Head(w).call, NEW x \in CallRecord \cup {Nil}
  PROVE  Lines("open", Tail(q), Tail(w), n, l /\ Len(q) > 1, [f EXCEPT ![c] = x])
<1> DEFINE g == [f EXCEPT ![c] = x]
           Q == Tail(q)
           W == Tail(w)
           L == l /\ Len(q) > 1
<1>0. LineTypes("open", q, w, n, l, f)
  BY DEF Lines
<1>1. /\ W \in Seq(Waiter) /\ Len(W) = Len(w) - 1 /\ Len(w) >= 1 /\ Len(w) \in Nat
      /\ \A j \in 1 .. Len(w) - 1 : W[j] = w[j + 1]
      /\ Head(w) = w[1]
  BY <1>0, TailIs DEF LineTypes
<1>2. Len(w) <= Len(q) /\ Len(q) \in Nat /\ q # <<>>
  BY <1>0, <1>1, LineElements DEF Lines
<1>3. /\ Q \in Seq(Message) /\ Len(Q) = Len(q) - 1
      /\ \A j \in 1 .. Len(q) - 1 : Q[j] = q[j + 1]
  BY <1>0, <1>2, TailIs DEF LineTypes
<1>4. c \in Call /\ g \in [Call -> CallRecord \cup {Nil}] /\ \A d \in Call : d # c => g[d] = f[d]
  <2>1. c \in Call
    BY <1>0, <1>1, LineElements
  <2> QED BY <1>0, <2>1 DEF LineTypes
<1> HIDE DEF g, Q, W
<1>5. LineTypes("open", Q, W, n, L, g)
  BY <1>0, <1>1, <1>3, <1>4 DEF LineTypes
<1>6. \A j \in 1 .. Len(W) :
        j + 1 \in 1 .. Len(w) /\ 1 < j + 1 /\ W[j] = w[j + 1] /\ Q[j] = q[j + 1]
  BY <1>1, <1>2, <1>3
<1>7. \A j \in 1 .. Len(W) : w[j + 1].call # c /\ g[w[j + 1].call] = f[w[j + 1].call]
  <2>1. \A j \in 1 .. Len(W) : w[j + 1].call # c
    <3>1. 1 \in 1 .. Len(w) /\ c = w[1].call
      BY <1>1
    <3> QED BY <1>6, <3>1 DEF Lines
  <2>2. \A j \in 1 .. Len(W) : w[j + 1].call \in Call
    BY <1>0, <1>6, LineElements
  <2> QED BY <1>4, <2>1, <2>2
<1>8. \A k \in 1 .. Len(Q) : Q[k].id <= n /\ Carries(Q[k])
  <2>1. \A k \in 1 .. Len(Q) : k + 1 \in 1 .. Len(q) /\ Q[k] = q[k + 1]
    BY <1>2, <1>3
  <2> QED BY <2>1 DEF Lines
<1>9. \A k \in 1 .. Len(W) : W[k].id <= n /\ Busy(g[W[k].call])
  BY <1>6, <1>7 DEF Lines
<1>10. \A j, k \in 1 .. Len(W) : j < k => W[j].id <= W[k].id /\ W[j].call # W[k].call
  <2>1. \A j, k \in 1 .. Len(W) : j < k => j + 1 < k + 1
    BY <1>1
  <2>2. \A j, k \in 1 .. Len(w) : j < k => w[j].id <= w[k].id /\ w[j].call # w[k].call
    BY DEF Lines
  <2> SUFFICES ASSUME NEW j \in 1 .. Len(W), NEW k \in 1 .. Len(W), j < k
               PROVE  W[j].id <= W[k].id /\ W[j].call # W[k].call
    OBVIOUS
  <2>3. /\ j + 1 \in 1 .. Len(w) /\ k + 1 \in 1 .. Len(w) /\ j + 1 < k + 1
        /\ W[j] = w[j + 1] /\ W[k] = w[k + 1]
    BY <1>6, <2>1
  <2> QED BY <2>2, <2>3
<1>11. Len(W) <= Len(Q) /\ \A k \in 1 .. Len(W) : Q[k].id <= W[k].id
  <2>1. Len(W) <= Len(Q)
    BY <1>1, <1>2, <1>3
  <2> QED BY <1>6, <2>1 DEF Lines
<1>12. CASE ~ l
  <2>1. Len(W) = Len(Q)
    BY <1>1, <1>2, <1>3, <1>12 DEF Lines
  <2>2. \A k \in 1 .. Len(W) : Q[k].id = W[k].id /\ Q[k].site = g[W[k].call].site
    BY <1>6, <1>7, <1>12 DEF Lines
  <2> QED BY <1>5, <1>8, <1>9, <1>10, <1>11, <2>1, <2>2 DEF Lines, g, Q, W
<1>13. CASE Len(q) <= 1
  <2>1. Len(W) = 0 /\ Len(Q) = 0
    BY <1>1, <1>2, <1>3, <1>13
  <2> QED BY <1>5, <1>8, <1>9, <1>10, <1>11, <2>1 DEF Lines, g, Q, W
<1>14. CASE l /\ Len(q) > 1
  BY <1>5, <1>8, <1>9, <1>10, <1>11, <1>14 DEF Lines, g, Q, W
<1> QED BY <1>2, <1>12, <1>13, <1>14

-----------------------------------------------------------------------------
(* The extension: its steps.                                               *)

\* What is none of the port's business.
World ==
  /\ calls \in 0 .. MaxCalls /\ moves \in 0 .. MaxMoves /\ faults \in 0 .. MaxFaults
  /\ page \in [Tab -> Site \cup {Nil}]
  /\ vault \in [Item -> VaultRow \cup {Nil}]
  /\ matches \in [Tab -> Listing \cup {Nil}]
  /\ pendingSave \in Password \cup {Nil}
  /\ lastPage \in Tab \cup {Nil}
  /\ popup \in [tab : Tab, site : Site, hits : SUBSET Item] \cup {Nil}

Chain == Lines(port, queue, waiters, sends, late, call)

\* The entry a call is about to write is there, and a secret that came in order
\* fits the site the call asked for, in the vault v.
Holds(r, v) ==
  r # Nil /\ r.stage = "write" =>
    /\ r.entry # Nil
    /\ r.entry.secret /\ r.entry.inOrder =>
         v[r.entry.item] # Nil /\ v[r.entry.item].site \in {r.site, Everywhere}

InHand == \A c \in Call : Holds(call[c], vault)

TabsSafe == World /\ Chain /\ InHand /\ SavedInItsTab

LEMMA TabsTypes ==
  ASSUME TabsSafe, NEW c \in Call
  PROVE  /\ call \in [Call -> CallRecord \cup {Nil}] /\ sends \in Nat
         /\ call[c] # Nil => call[c] \in CallRecord
         /\ call[c] # Nil => Holds(call[c], vault)
BY DEF TabsSafe, Chain, Lines, LineTypes, InHand

LEMMA SafeIsEnough == TabsSafe => TabsInv /\ WrittenFitsTheAsk
<1> SUFFICES ASSUME TabsSafe PROVE TabsInv /\ WrittenFitsTheAsk
  OBVIOUS
<1>1. LineTypes(port, queue, waiters, sends, late, call)
  BY DEF TabsSafe, Chain, Lines
<1>2. TypeOK
  BY <1>1 DEF TabsSafe, World, LineTypes, TypeOK
<1>3. InOrder /\ NeverAhead
  BY LinesKeepOrder DEF TabsSafe, Chain
<1>4. WrittenFitsTheAsk
  <2>1. ASSUME NEW c \in Call, call[c] # Nil, call[c].stage = "write",
               call[c].entry.secret /\ call[c].entry.inOrder
        PROVE  call[c].entry.item \in Fitting(call[c].site)
    <3>1. /\ call[c].entry # Nil /\ vault[call[c].entry.item] # Nil
          /\ vault[call[c].entry.item].site \in {call[c].site, Everywhere}
      BY <2>1 DEF TabsSafe, InHand, Holds
    <3>2. call[c].entry.item \in Item
      BY <1>1, <2>1, <3>1 DEF LineTypes, CallRecord, Entry
    <3> QED BY <3>1, <3>2 DEF Fitting, Logins, Cards
  <2> QED BY <2>1 DEF WrittenFitsTheAsk
<1> QED BY <1>2, <1>3, <1>4 DEF TabsSafe, TabsInv

\* hostSend keeps the port in order and writes nothing.
LEMMA SendStep ==
  ASSUME TabsSafe, vault' = vault, NEW c \in Call, ~ Busy(call[c]),
         NEW r \in CallRecord, Busy(r),
         NEW op \in {"match", "fill", "generate", "save", "enroll", "passkey"},
         NEW password \in Password \cup {Nil},
         IF op = "save" THEN password # Nil /\ password.tab = r.tab ELSE password = Nil,
         Send(c, r, op, password)
  PROVE  Chain' /\ InHand'
<1>1. call \in [Call -> CallRecord \cup {Nil}] /\ sends \in Nat
  BY TabsTypes
<1>2. InHand'
  <2>1. \A d \in Call : call'[d] \in {call[d], Nil, r}
    BY <1>1 DEF Send
  <2>2. Holds(r, vault) /\ Holds(Nil, vault)
    BY DEF Holds, Busy, Asking
  <2> QED BY <2>1, <2>2 DEF TabsSafe, InHand
<1>3. CASE port = "dead"
  <2>1. Lines(port, queue, waiters, sends + 1, late, [call EXCEPT ![c] = Nil])
    BY LinesTurn DEF TabsSafe, Chain
  <2> QED BY <1>2, <1>3, <2>1 DEF Send, Chain
<1>4. CASE port # "dead"
  <2> DEFINE m == Ask(op, c, r, password)
  <2>1. m \in Message /\ m.id = sends + 1 /\ m.site = r.site /\ Carries(m)
    BY <1>1 DEF Ask, Message, CallRecord, Carries
  <2> HIDE DEF m
  <2>2. Lines("open", Append(queue, m), Append(waiters, [id |-> sends + 1, call |-> c]),
              sends + 1, late, [call EXCEPT ![c] = r])
    BY <1>4, <2>1, LinesSend DEF TabsSafe, Chain
  <2> QED BY <1>2, <1>4, <2>2 DEF Send, Chain, m
<1> QED BY <1>3, <1>4

\* A step of a call that asks nothing.
LEMMA TurnStep ==
  ASSUME TabsSafe, vault' = vault, PortKept, NEW c \in Call, ~ Busy(call[c]),
         NEW x \in CallRecord \cup {Nil}, Holds(x, vault),
         call' = [call EXCEPT ![c] = x]
  PROVE  Chain' /\ InHand'
<1>1. call \in [Call -> CallRecord \cup {Nil}] /\ sends \in Nat
  BY TabsTypes
<1>2. Lines(port, queue, waiters, sends, late, [call EXCEPT ![c] = x])
  BY LinesTurn DEF TabsSafe, Chain
<1> QED BY <1>1, <1>2 DEF PortKept, Chain, TabsSafe, InHand

LEMMA QuietTabs ==
  ASSUME TabsSafe, vault' = vault, PortKept, call' = call
  PROVE  Chain' /\ InHand'
BY DEF PortKept, Chain, TabsSafe, InHand

LEMMA VaultKept ==
  ASSUME TabsSafe, vault' = vault, World', Chain', InHand'
  PROVE  TabsSafe'
BY DEF TabsSafe, SavedInItsTab

\* The timer of a waiter.
LEMMA TimeoutSafe ==
  ASSUME TabsSafe, NEW c \in Call, Timeout(c)
  PROVE  TabsSafe'
<1>1. PICK k \in DOMAIN waiters : waiters[k].call = c /\ waiters' = RemoveAt(waiters, k)
  BY DEF Timeout
<1>2. k \in 1 .. Len(waiters)
  BY DEF TabsSafe, Chain, Lines, LineTypes
<1>3. Lines(port, queue, RemoveAt(waiters, k), sends, TRUE, [call EXCEPT ![c] = Nil])
  BY <1>1, <1>2, LinesLeave DEF TabsSafe, Chain
<1>4. Chain'
  BY <1>1, <1>3 DEF Timeout, End, Chain
<1>5. InHand'
  BY TabsTypes DEF Timeout, End, TabsSafe, InHand, Holds
<1>6. World'
  BY DEF Timeout, WipeAfter, TabsSafe, World
<1>7. vault' = vault
  BY DEF Timeout
<1> QED BY <1>4, <1>5, <1>6, <1>7, VaultKept

\* The host or the worker goes, and onDisconnect.
LEMMA FaultSafe ==
  ASSUME TabsSafe, HostGone \/ Disconnect \/ WorkerGone
  PROVE  TabsSafe'
<1>0. LineTypes(port, queue, waiters, sends, late, call)
  BY DEF TabsSafe, Chain, Lines
<1>1. call \in [Call -> CallRecord \cup {Nil}]
  BY <1>0 DEF LineTypes
<1>2. CASE HostGone
  <2>1. Chain'
    BY <1>2, LinesHostGone DEF HostGone, TabsSafe, Chain
  <2>2. InHand'
    BY <1>2 DEF HostGone, TabsSafe, InHand
  <2>3. World' /\ vault' = vault
    BY <1>2, TabsAssumption DEF HostGone, TabsSafe, World
  <2> QED BY <2>1, <2>2, <2>3, VaultKept
<1>3. ASSUME Disconnect \/ WorkerGone PROVE TabsSafe'
  <2>1. call' \in [Call -> CallRecord \cup {Nil}] /\ \A c \in Call : call'[c] \in {call[c], Nil}
    BY <1>1, <1>3 DEF Disconnect, WorkerGone
  <2>2. queue = <<>> \/ queue' = <<>>
    BY <1>3 DEF Disconnect, WorkerGone, TabsSafe, Chain, Lines
  <2>3. port' = "none" /\ queue' = <<>> /\ waiters' = <<>> /\ late' = FALSE /\ sends' = sends
    BY <1>3, <2>2 DEF Disconnect, WorkerGone
  <2>4. Chain'
    <3> PICK g : g = call'
      OBVIOUS
    <3>1. Lines("none", <<>>, <<>>, sends, FALSE, g)
      BY <1>0, <2>1, LinesClosed
    <3> QED BY <2>3, <3>1 DEF Chain
  <2>5. vault' = vault
    BY <1>3 DEF Disconnect, WorkerGone
  <2>6. InHand'
    BY <2>1, <2>5 DEF TabsSafe, InHand, Holds
  <2>7. World'
    BY <1>3, TabsAssumption DEF Disconnect, WorkerGone, TabsSafe, World
  <2> QED BY <2>4, <2>5, <2>6, <2>7, VaultKept
<1> QED BY <1>2, <1>3

\* What a call does between two questions.
LEMMA ProceedSafe ==
  ASSUME TabsSafe, NEW c \in Call, Decide(c) \/ List(c) \/ Prime(c) \/ Write(c) \/ Typed(c)
  PROVE  TabsSafe'
<1> PICK r : r = call[c]
  OBVIOUS
<1>1. r \in CallRecord /\ ~ Busy(r) /\ call \in [Call -> CallRecord \cup {Nil}]
  BY TabsTypes DEF Decide, List, Prime, Write, Typed, Busy, Asking
<1>2. vault' = vault /\ r # Nil /\ Holds(r, vault) /\ Holds(Nil, vault)
  BY TabsTypes DEF Decide, List, Prime, Write, Typed, Between, Holds
<1>3. ASSUME NEW pw \in Password \cup {Nil}, NEW x \in CallRecord, x.tab = r.tab,
             NEW op \in {"match", "fill", "generate", "save"}, Busy(x),
             IF op = "save" THEN pw # Nil /\ pw.tab = x.tab ELSE pw = Nil,
             Send(c, x, op, pw)
      PROVE  Chain' /\ InHand'
  BY <1>1, <1>2, <1>3, SendStep
<1>4. ASSUME NEW x \in CallRecord \cup {Nil}, x = Nil \/ x.stage # "write", PortKept,
             call' = [call EXCEPT ![c] = x]
      PROVE  Chain' /\ InHand'
  BY <1>1, <1>2, <1>4, TurnStep DEF Holds
<1>5. CASE Decide(c)
  <2> DEFINE hits == IF matches[r.tab] = Nil THEN {} ELSE matches[r.tab].hits
  <2>1. hits \subseteq Item /\ r.tab \in Tab
    BY <1>1 DEF TabsSafe, World, Listing, CallRecord
  <2>2. World'
    BY <1>5 DEF Decide, Between, TabsSafe, World
  <2>3. ASSUME NEW i \in hits, call' = [call EXCEPT ![c].stage = "prime", ![c].uuid = i],
               PortKept
        PROVE  Chain' /\ InHand'
    <3>1. [r EXCEPT !.stage = "prime", !.uuid = i] \in CallRecord
      BY <1>1, <2>1 DEF CallRecord, Stages
    <3>2. [r EXCEPT !.stage = "prime", !.uuid = i].stage = "prime"
      BY <1>1 DEF CallRecord
    <3>3. call' = [call EXCEPT ![c] = [r EXCEPT !.stage = "prime", !.uuid = i]]
      BY <1>1, <2>3
    <3> QED BY <1>4, <2>3, <3>1, <3>2, <3>3
  <2>4. ASSUME End(c), PortKept PROVE Chain' /\ InHand'
    BY <1>4, <2>4 DEF End
  <2>5. ASSUME Send(c, [r EXCEPT !.stage = "generate"], "generate", Nil)
        PROVE  Chain' /\ InHand'
    <3>1. [r EXCEPT !.stage = "generate"] \in CallRecord
          /\ [r EXCEPT !.stage = "generate"].tab = r.tab
          /\ [r EXCEPT !.stage = "generate"].stage = "generate"
      BY <1>1 DEF CallRecord, Stages
    <3> PICK x : x = [r EXCEPT !.stage = "generate"]
      OBVIOUS
    <3>2. Busy(x)
      BY <3>1, NilAssumption DEF Busy, Asking
    <3> QED BY <1>3, <2>5, <3>1, <3>2
  <2>6. Chain' /\ InHand'
    BY <1>5, <2>3, <2>4, <2>5 DEF Decide
  <2> QED BY <1>2, <2>2, <2>6, VaultKept
<1>6. CASE List(c)
  <2>1. World'
    BY <1>1, <1>6 DEF List, Between, TabsSafe, World, CallRecord
  <2>2. Chain' /\ InHand'
    BY <1>4, <1>6 DEF List, End
  <2> QED BY <1>2, <2>1, <2>2, VaultKept
<1>7. CASE Prime(c)
  <2>1. World'
    BY <1>7 DEF Prime, Between, TabsSafe, World
  <2> PICK x : x = [r EXCEPT !.stage = "fill"]
    OBVIOUS
  <2>2. x \in CallRecord /\ x.tab = r.tab /\ x.stage = "fill"
    BY <1>1 DEF CallRecord, Stages
  <2>3. Busy(x)
    BY <2>2, NilAssumption DEF Busy, Asking
  <2>4. Chain' /\ InHand'
    BY <1>3, <1>7, <2>2, <2>3 DEF Prime
  <2> QED BY <1>2, <2>1, <2>4, VaultKept
<1>8. CASE Write(c)
  <2>1. World'
    BY <1>8 DEF Write, Between, TabsSafe, World
  <2> PICK x : x = [r EXCEPT !.stage = "rematch", !.entry = Nil]
    OBVIOUS
  <2>2. x \in CallRecord /\ x.tab = r.tab /\ x.stage = "rematch"
    BY <1>1 DEF CallRecord, Stages
  <2>3. Busy(x)
    BY <2>2, NilAssumption DEF Busy, Asking
  <2>4. Chain' /\ InHand'
    BY <1>3, <1>4, <1>8, <2>2, <2>3 DEF Write, End
  <2> QED BY <1>2, <2>1, <2>4, VaultKept
<1>9. CASE Typed(c)
  <2>1. World'
    BY <1>9 DEF Typed, WipeAfter, TabsSafe, World
  <2> PICK x : x = [r EXCEPT !.stage = "save"]
    OBVIOUS
  <2>2. x \in CallRecord /\ x.tab = r.tab /\ x.stage = "save" /\ r.tab \in Tab
    BY <1>1 DEF CallRecord, Stages
  <2>3. Busy(x)
    BY <2>2, NilAssumption DEF Busy, Asking
  <2>4. ASSUME page[r.tab] # Nil, Send(c, x, "save", [tab |-> r.tab, site |-> page[r.tab]])
        PROVE  Chain' /\ InHand'
    <3> PICK pw : pw = [tab |-> r.tab, site |-> page[r.tab]]
      OBVIOUS
    <3>1. pw \in Password /\ pw.tab = r.tab
      BY <2>2, <2>4 DEF TabsSafe, World, Password
    <3>2. pw # Nil
      BY <3>1, NilAssumption
    <3> QED BY <1>3, <2>2, <2>3, <2>4, <3>1, <3>2
  <2>5. Chain' /\ InHand'
    BY <1>4, <1>9, <2>4 DEF Typed, End
  <2> QED BY <1>2, <2>1, <2>5, VaultKept
<1> QED BY <1>5, <1>6, <1>7, <1>8, <1>9

LEMMA NewCallIs ==
  ASSUME NEW kind \in Kinds, NEW t \in Tab, NEW s \in Site, NEW stage \in Stages,
         NEW uuid \in Item \cup {Nil}
  PROVE  /\ NewCall(kind, t, s, stage, uuid) \in CallRecord
         /\ NewCall(kind, t, s, stage, uuid).stage = stage
         /\ NewCall(kind, t, s, stage, uuid).tab = t
         /\ NewCall(kind, t, s, stage, uuid) # Nil
<1> PICK x : x = NewCall(kind, t, s, stage, uuid)
  OBVIOUS
<1>1. x \in CallRecord /\ x.stage = stage /\ x.tab = t
  BY DEF NewCall, CallRecord
<1> QED BY <1>1, NilAssumption

\* What starts a call.
LEMMA StartSafe ==
  ASSUME TabsSafe, NEW c \in Call, Start(c)
  PROVE  TabsSafe'
<1>1. vault' = vault
  BY DEF Start, Suggest, Keep, Visit, OpenPopup, Focus, Enroll, Passkey, Click, Begun
<1>2. call[c] = Nil /\ calls' \in 0 .. MaxCalls
  BY TabsAssumption
     DEF Start, Suggest, Keep, Visit, OpenPopup, Focus, Enroll, Passkey, Click, Free,
         TabsSafe, World
<1>3. ~ Busy(call[c])
  BY <1>2 DEF Busy
<1>4. popup # Nil => popup.tab \in Tab /\ popup.site \in Site /\ popup.hits \subseteq Item
  BY DEF TabsSafe, World
<1>5. \A t \in Tab : page[t] # Nil => page[t] \in Site
  BY DEF TabsSafe, World
<1>6. ASSUME lastPage' \in Tab \cup {Nil}, pendingSave' \in Password \cup {Nil}, Begun,
             Chain', InHand'
      PROVE  TabsSafe'
  <2>1. World'
    BY <1>2, <1>6 DEF Begun, TabsSafe, World
  <2> QED BY <1>1, <1>6, <2>1, VaultKept
<1>7. pendingSave \in Password \cup {Nil} /\ lastPage \in Tab \cup {Nil}
  BY DEF TabsSafe, World
<1>8. ASSUME NEW kind \in Kinds, NEW t \in Tab, NEW s \in Site, NEW pw \in Password \cup {Nil},
             NEW op \in {"match", "fill", "generate", "save", "enroll", "passkey"},
             IF op = "save" THEN pw # Nil /\ pw.tab = t ELSE pw = Nil,
             op # "fill", Send(c, NewCall(kind, t, s, op, Nil), op, pw)
      PROVE  Chain' /\ InHand'
  <2>1. op \in Stages /\ op \in Asking
    BY DEF Stages, Asking
  <2> PICK x : x = NewCall(kind, t, s, op, Nil)
    OBVIOUS
  <2>2. x \in CallRecord /\ x.stage = op /\ x.tab = t /\ Busy(x)
    BY <2>1, NewCallIs DEF Busy
  <2> QED BY <1>1, <1>3, <1>8, <2>2, SendStep
<1>9. ASSUME NEW x \in CallRecord, x.stage # "write", PortKept,
             call' = [call EXCEPT ![c] = x]
      PROVE  Chain' /\ InHand'
  BY <1>1, <1>3, <1>9, TurnStep DEF Holds
<1>10. CASE Suggest(c)
  <2>1. Chain' /\ InHand'
    BY <1>4, <1>8, <1>10 DEF Suggest, Free
  <2> QED BY <1>6, <1>7, <1>10, <2>1 DEF Suggest
<1>11. CASE Keep(c)
  <2>1. CASE PendingOf(popup.tab)
    <3>1. Chain' /\ InHand'
      BY <1>4, <1>7, <1>8, <1>11, <2>1 DEF Keep, Free, PendingOf
    <3> QED BY <1>6, <1>7, <1>11, <2>1, <3>1 DEF Keep
  <2>2. CASE ~ PendingOf(popup.tab)
    <3> PICK y : y = NewCall("keep", popup.tab, popup.site, "save", Nil)
      OBVIOUS
    <3>1. y \in CallRecord
      BY <1>4, <1>11, NewCallIs DEF Keep, Free, Stages
    <3>2. [y EXCEPT !.stage = "typed"] \in CallRecord
          /\ [y EXCEPT !.stage = "typed"].stage = "typed"
      BY <3>1 DEF CallRecord, Stages
    <3>3. Chain' /\ InHand'
      BY <1>9, <1>11, <2>2, <3>2 DEF Keep
    <3> QED BY <1>6, <1>7, <1>11, <2>2, <3>3 DEF Keep
  <2> QED BY <2>1, <2>2
<1>12. ASSUME NEW t \in Tab, Visit(c, t) \/ OpenPopup(c, t) \/ Enroll(c, t) \/ Passkey(c, t)
       PROVE  TabsSafe'
  <2>1. page[t] \in Site
    BY <1>5, <1>12 DEF Visit, OpenPopup, Enroll, Passkey, Target, Usable
  <2>2. Chain' /\ InHand'
    BY <1>8, <1>12, <2>1 DEF Visit, OpenPopup, Enroll, Passkey, Free
  <2> QED BY <1>6, <1>7, <1>12, <2>2 DEF Visit, OpenPopup, Enroll, Passkey
<1>13. ASSUME NEW t \in Tab, NEW kind \in {"focus", "focusNew"}, Focus(c, t, kind)
       PROVE  TabsSafe'
  <2>1. page[t] \in Site /\ kind \in Kinds
    BY <1>5, <1>13 DEF Focus, Usable, Free
  <2> PICK y : y = NewCall(kind, t, page[t], "match", Nil)
    OBVIOUS
  <2>2. y \in CallRecord
    BY <2>1, NewCallIs DEF Stages
  <2>3. [y EXCEPT !.stage = "badge"] \in CallRecord /\ [y EXCEPT !.stage = "badge"].stage = "badge"
    BY <2>2 DEF CallRecord, Stages
  <2>4. Chain' /\ InHand'
    BY <1>8, <1>9, <1>13, <2>1, <2>3 DEF Focus
  <2> QED BY <1>6, <1>7, <1>13, <2>4 DEF Focus
<1>14. ASSUME NEW t \in Tab, NEW i \in Item, Click(c, t, i) PROVE TabsSafe'
  <2> PICK y : y = NewCall("click", t, popup.site, "prime", i)
    OBVIOUS
  <2>1. y \in CallRecord /\ y.stage = "prime"
    BY <1>4, <1>14, NewCallIs DEF Click, Free, Stages
  <2>2. Chain' /\ InHand'
    BY <1>9, <1>14, <2>1 DEF Click
  <2> QED BY <1>6, <1>7, <1>14, <2>2 DEF Click
<1> QED BY <1>10, <1>11, <1>12, <1>13, <1>14 DEF Start

\* The browser and its human.
LEMMA MoveSafe ==
  ASSUME TabsSafe, NEW t \in Tab,
         Close(t) \/ Submit(t) \/ \E s \in Site : Navigate(t, s)
  PROVE  TabsSafe'
<1>1. vault' = vault /\ PortKept /\ call' = call
  BY DEF Close, Submit, Navigate
<1>2. Chain' /\ InHand'
  BY <1>1, QuietTabs
<1>3. moves' \in 0 .. MaxMoves /\ calls' = calls /\ faults' = faults
      /\ lastPage' = lastPage /\ popup' = popup
  BY TabsAssumption DEF Close, Submit, Navigate, Moved, TabsSafe, World
<1>4. page' \in [Tab -> Site \cup {Nil}] /\ matches' \in [Tab -> Listing \cup {Nil}]
      /\ pendingSave' \in Password \cup {Nil}
  BY DEF Close, Submit, Navigate, TabsSafe, World, Password
<1>5. World'
  BY <1>1, <1>3, <1>4 DEF TabsSafe, World
<1> QED BY <1>1, <1>2, <1>5, VaultKept
-----------------------------------------------------------------------------
(* The extension: what is answered.                                        *)

LEMMA OutcomeFacts ==
  ASSUME NEW m \in Message, NEW o \in Outcomes(m)
  PROVE  /\ o.answer.hits \in SUBSET Item /\ o.answer.secrets \in BOOLEAN
         /\ o.answer.password \in Item \cup {Nil} /\ o.made \in Item \cup {Nil}
         /\ o.made # Nil => vault[o.made] = Nil
         /\ o.answer.secrets =>
              \A i \in o.answer.hits : vault[i] # Nil /\ vault[i].site \in {m.site, Everywhere}
         /\ o.answer.password # Nil => o.made = o.answer.password
<1> DEFINE none == [answer |-> Empty, made |-> Nil]
           found == [answer |-> [Empty EXCEPT !.hits = Fitting(m.site)], made |-> Nil]
           filled(i) == [answer |-> [Empty EXCEPT !.hits = {i}, !.secrets = TRUE], made |-> Nil]
           made(i) == [answer |-> [Empty EXCEPT !.uuid = i,
                                     !.password = IF m.op = "generate" THEN i ELSE Nil],
                       made |-> i]
           named(i) == [answer |-> [Empty EXCEPT !.uuid = i], made |-> Nil]
<1>1. /\ none.answer.hits = {} /\ none.answer.secrets = FALSE /\ none.made = Nil
      /\ none.answer.password = Nil
  BY DEF Empty
<1>2. /\ found.answer.hits = Fitting(m.site) /\ found.answer.secrets = FALSE
      /\ found.made = Nil /\ found.answer.password = Nil
  BY DEF Empty
<1>3. \A i \in Item : /\ filled(i).answer.hits = {i} /\ filled(i).answer.secrets = TRUE
                      /\ filled(i).made = Nil /\ filled(i).answer.password = Nil
  BY DEF Empty
<1>4. \A i \in Item : /\ made(i).answer.hits = {} /\ made(i).answer.secrets = FALSE
                      /\ made(i).made = i /\ made(i).answer.password \in {i, Nil}
  BY DEF Empty
<1>5. \A i \in Item : /\ named(i).answer.hits = {} /\ named(i).answer.secrets = FALSE
                      /\ named(i).made = Nil /\ named(i).answer.password = Nil
  BY DEF Empty
<1>6. Outcomes(m) = {none} \cup
        CASE m.op = "match" -> {found}
          [] m.op = "fill" -> {filled(i) : i \in Fitting(m.site) \cap {m.uuid}}
          [] m.op \in {"generate", "save"} ->
               {made(i) : i \in {j \in Item : vault[j] = Nil /\ Logins(m.site) = {}}}
          [] m.op = "enroll" -> {named(i) : i \in Logins(m.site)}
          [] OTHER -> {}
  BY Zenon DEF Outcomes
<1> HIDE DEF none, found, filled, made, named
<1>7. \A i \in Fitting(m.site) :
        i \in Item /\ vault[i] # Nil /\ vault[i].site \in {m.site, Everywhere}
  BY DEF Fitting, Logins, Cards
<1>8. \/ o = none \/ o = found
      \/ \E i \in Item : i \in Fitting(m.site) /\ (o = filled(i) \/ o = named(i))
      \/ \E i \in Item : vault[i] = Nil /\ o = made(i)
  <2>1. CASE m.op = "match"
    BY <1>6, <2>1
  <2>2. CASE m.op = "fill"
    BY <1>6, <1>7, <2>2
  <2>3. CASE m.op \in {"generate", "save"}
    <3>1. Outcomes(m) = {none} \cup
            {made(i) : i \in {j \in Item : vault[j] = Nil /\ Logins(m.site) = {}}}
      BY <1>6, <2>3
    <3> QED BY <3>1
  <2>4. CASE m.op = "enroll"
    BY <1>6, <1>7, <2>4 DEF Fitting
  <2>5. CASE m.op = "passkey"
    BY <1>6, <2>5
  <2> QED BY <2>1, <2>2, <2>3, <2>4, <2>5 DEF Message
<1>9. Fitting(m.site) \in SUBSET Item /\ Logins(m.site) \subseteq Fitting(m.site)
  BY DEF Fitting, Logins, Cards
<1>10. CASE o = none
  BY <1>1, <1>10
<1>11. CASE o = found
  BY <1>2, <1>9, <1>11
<1>12. CASE \E i \in Item : i \in Fitting(m.site) /\ (o = filled(i) \/ o = named(i))
  <2> PICK i \in Item : i \in Fitting(m.site) /\ (o = filled(i) \/ o = named(i))
    BY <1>12
  <2>1. vault[i] # Nil /\ vault[i].site \in {m.site, Everywhere}
    BY <1>7
  <2>2. CASE o = filled(i)
    BY <1>3, <2>1, <2>2
  <2>3. CASE o = named(i)
    BY <1>5, <2>3
  <2> QED BY <2>2, <2>3
<1>13. CASE \E i \in Item : vault[i] = Nil /\ o = made(i)
  <2> PICK i \in Item : vault[i] = Nil /\ o = made(i)
    BY <1>13
  <2> QED BY <1>4
<1> QED BY <1>8, <1>10, <1>11, <1>12, <1>13

\* The vault only gains: an item made of message m is of its site, and keeps
\* where its password was typed.
LEMMA MadeSafe ==
  ASSUME vault \in [Item -> VaultRow \cup {Nil}], SavedInItsTab,
         NEW m \in Message, Carries(m), NEW i \in Item \cup {Nil},
         i # Nil => vault[i] = Nil,
         vault' = IF i = Nil THEN vault ELSE [vault EXCEPT ![i] = MadeFor(m)]
  PROVE  /\ vault' \in [Item -> VaultRow \cup {Nil}] /\ SavedInItsTab'
         /\ \A j \in Item : vault[j] # Nil => vault'[j] = vault[j]
         /\ i # Nil => vault'[i] # Nil /\ vault'[i].site \in {m.site, Everywhere}
<1> PICK x : x = MadeFor(m)
  OBVIOUS
<1>1. x \in VaultRow /\ x # Nil /\ x.site \in {m.site, Everywhere}
  BY NilAssumption DEF MadeFor, Message, VaultRow
<1>2. x.typed # Nil => x.typed.tab = x.from
  BY DEF MadeFor, Carries
<1>3. CASE i = Nil
  BY <1>3 DEF SavedInItsTab
<1>4. CASE i # Nil
  <2>1. vault' = [vault EXCEPT ![i] = x] /\ i \in Item
    BY <1>4
  <2>2. vault'[i] = x /\ \A j \in Item : j # i => vault'[j] = vault[j]
    BY <2>1
  <2>3. SavedInItsTab'
    BY <1>2, <2>2 DEF SavedInItsTab
  <2> QED BY <1>1, <1>4, <2>1, <2>2, <2>3
<1> QED BY <1>3, <1>4

\* What is held stays held while the vault only gains.
LEMMA HoldsKept ==
  ASSUME NEW r \in CallRecord \cup {Nil}, NEW v, NEW u, Holds(r, v),
         \A j \in Item : v[j] # Nil => u[j] = v[j]
  PROVE  Holds(r, u)
<1> SUFFICES ASSUME r # Nil, r.stage = "write", r.entry.secret, r.entry.inOrder
             PROVE  u[r.entry.item] # Nil /\ u[r.entry.item].site \in {r.site, Everywhere}
  BY DEF Holds
<1>1. r.entry # Nil /\ v[r.entry.item] # Nil /\ v[r.entry.item].site \in {r.site, Everywhere}
  BY DEF Holds
<1>2. r.entry.item \in Item
  BY <1>1 DEF CallRecord, Entry
<1> QED BY <1>1, <1>2

\* A call that takes an answer: it does not write, or writes what fits.
LEMMA TakesGives ==
  ASSUME NEW c \in Call, call \in [Call -> CallRecord \cup {Nil}], Busy(call[c]),
         matches \in [Tab -> Listing \cup {Nil}], pendingSave \in Password \cup {Nil},
         late \in BOOLEAN,
         NEW site, NEW answer,
         answer.hits \in SUBSET Item, answer.secrets \in BOOLEAN,
         answer.password \in Item \cup {Nil},
         answer.secrets =>
           \A i \in answer.hits : vault'[i] # Nil /\ vault'[i].site \in {site, Everywhere},
         answer.password # Nil => /\ vault'[answer.password] # Nil
                                  /\ vault'[answer.password].site \in {site, Everywhere},
         ~ late => site = call[c].site,
         \/ TakesMatch(c, answer) \/ TakesFill(c, answer)
         \/ TakesGenerated(c, answer) \/ TakesLast(c, answer)
  PROVE  /\ \E x \in CallRecord \cup {Nil} : call' = [call EXCEPT ![c] = x] /\ Holds(x, vault')
         /\ matches' \in [Tab -> Listing \cup {Nil}]
         /\ pendingSave' \in Password \cup {Nil}
<1> PICK r : r = call[c]
  OBVIOUS
<1>1. r \in CallRecord /\ r # Nil
  BY DEF Busy
<1> DEFINE R(x) == call' = [call EXCEPT ![c] = x] /\ Holds(x, vault')
<1>2. Holds(Nil, vault')
  BY DEF Holds
<1>3. ASSUME End(c) PROVE R(Nil)
  BY <1>2, <1>3 DEF End
<1>4. CASE TakesMatch(c, answer)
  <2>1. matches' \in [Tab -> Listing \cup {Nil}]
    BY <1>1, <1>4 DEF TakesMatch, Remembered, Listing, CallRecord
  <2>2. pendingSave' \in Password \cup {Nil}
    BY <1>4 DEF TakesMatch, WipeAfter
  <2>3. CASE End(c)
    BY <1>3, <2>1, <2>2, <2>3
  <2>4. CASE ~ End(c)
    <3> PICK x : x = [r EXCEPT !.stage = "badge", !.hits = answer.hits]
      OBVIOUS
    <3>1. call' = [call EXCEPT ![c] = x]
      BY <1>4, <2>4 DEF TakesMatch
    <3>2. x \in CallRecord /\ x.stage = "badge"
      BY <1>1 DEF CallRecord, Stages
    <3>3. Holds(x, vault')
      BY <3>2 DEF Holds
    <3> QED BY <2>1, <2>2, <3>1, <3>2, <3>3
  <2> QED BY <2>3, <2>4
<1> DEFINE written(i, s) == [item |-> i, secret |-> s, inOrder |-> ~ late]
           writes(i, s) == [r EXCEPT !.stage = "write", !.entry = written(i, s)]
<1>5. ASSUME NEW i \in Item, NEW s \in BOOLEAN,
             s => vault'[i] # Nil /\ vault'[i].site \in {site, Everywhere}
      PROVE  writes(i, s) \in CallRecord /\ Holds(writes(i, s), vault')
  <2> PICK e : e = written(i, s)
    OBVIOUS
  <2>1. e \in Entry /\ e.item = i /\ e.secret = s /\ e.inOrder = ~ late
    BY DEF Entry
  <2>2. e # Nil
    BY <2>1, NilAssumption
  <2> PICK x : x = [r EXCEPT !.stage = "write", !.entry = e]
    OBVIOUS
  <2>3. x \in CallRecord /\ x.entry = e /\ x.site = r.site
    BY <1>1, <2>1 DEF CallRecord, Stages
  <2>4. Holds(x, vault')
    BY <1>5, <2>1, <2>2, <2>3 DEF Holds
  <2> QED BY <2>3, <2>4
<1> HIDE DEF writes
<1>9. \A x : [call EXCEPT ![c].stage = "write", ![c].entry = x] =
             [call EXCEPT ![c] = [r EXCEPT !.stage = "write", !.entry = x]]
  OBVIOUS
<1>6. CASE TakesFill(c, answer)
  <2>1. /\ matches' = matches /\ matches' \in [Tab -> Listing \cup {Nil}]
        /\ pendingSave' = pendingSave /\ pendingSave' \in Password \cup {Nil}
    BY <1>6 DEF TakesFill
  <2>2. CASE answer.hits = {}
    BY <1>3, <1>6, <2>1, <2>2 DEF TakesFill
  <2>3. CASE answer.hits # {}
    <3>1. PICK i \in answer.hits : call' = [call EXCEPT ![c] = writes(i, answer.secrets)]
      <4>1. PICK i \in answer.hits :
              call' = [call EXCEPT ![c].stage = "write",
                                   ![c].entry = written(i, answer.secrets)]
        BY <1>6, <2>3, Zenon DEF TakesFill
      <4>2. call' = [call EXCEPT ![c] = writes(i, answer.secrets)]
        <5> PICK e : e = written(i, answer.secrets)
          OBVIOUS
        <5>1. call' = [call EXCEPT ![c].stage = "write", ![c].entry = e]
          BY <4>1, Zenon
        <5>2. call' = [call EXCEPT ![c] = [r EXCEPT !.stage = "write", !.entry = e]]
          BY <1>9, <5>1, Zenon
        <5> QED BY <5>2, Zenon DEF writes
      <4> QED BY <4>2, Zenon
    <3>2. i \in Item /\ (answer.secrets => vault'[i] # Nil /\ vault'[i].site \in {site, Everywhere})
      OBVIOUS
    <3>3. /\ writes(i, answer.secrets) \in CallRecord
          /\ Holds(writes(i, answer.secrets), vault')
      BY <1>5, <3>2
    <3> PICK x : x = writes(i, answer.secrets)
      OBVIOUS
    <3>4. x \in CallRecord /\ Holds(x, vault') /\ call' = [call EXCEPT ![c] = x]
      BY <3>1, <3>3, Zenon
    <3>5. \E y \in CallRecord \cup {Nil} : R(y)
      BY <3>4, Zenon
    <3> QED BY <2>1, <3>5, Zenon
  <2> QED BY <2>2, <2>3
<1>7. CASE TakesGenerated(c, answer)
  <2>1. /\ matches' = matches /\ matches' \in [Tab -> Listing \cup {Nil}]
        /\ pendingSave' = pendingSave /\ pendingSave' \in Password \cup {Nil}
    BY <1>7 DEF TakesGenerated
  <2>2. CASE answer.password = Nil
    BY <1>3, <1>7, <2>1, <2>2 DEF TakesGenerated
  <2>3. CASE answer.password # Nil
    <3>1. call' = [call EXCEPT ![c] = writes(answer.password, TRUE)]
      <4>1. call' = [call EXCEPT ![c].stage = "write",
                                 ![c].entry = written(answer.password, TRUE)]
        BY <1>7, <2>3, Zenon DEF TakesGenerated
      <4> PICK e : e = written(answer.password, TRUE)
        OBVIOUS
      <4>2. call' = [call EXCEPT ![c].stage = "write", ![c].entry = e]
        BY <4>1, Zenon
      <4>3. call' = [call EXCEPT ![c] = [r EXCEPT !.stage = "write", !.entry = e]]
        BY <1>9, <4>2, Zenon
      <4> QED BY <4>3, Zenon DEF writes
    <3>2. answer.password \in Item /\ vault'[answer.password] # Nil
          /\ vault'[answer.password].site \in {site, Everywhere}
      BY <2>3
    <3>3. /\ writes(answer.password, TRUE) \in CallRecord
          /\ Holds(writes(answer.password, TRUE), vault')
      BY <1>5, <3>2
    <3> PICK x : x = writes(answer.password, TRUE)
      OBVIOUS
    <3>4. x \in CallRecord /\ Holds(x, vault') /\ call' = [call EXCEPT ![c] = x]
      BY <3>1, <3>3, Zenon
    <3>5. \E y \in CallRecord \cup {Nil} : R(y)
      BY <3>4, Zenon
    <3> QED BY <2>1, <3>5, Zenon
  <2> QED BY <2>2, <2>3
<1>8. CASE TakesLast(c, answer)
  <2>1. matches' = matches /\ pendingSave' \in Password \cup {Nil} /\ End(c)
    BY <1>8 DEF TakesLast, WipeAfter
  <2> QED BY <1>3, <2>1
<1> QED BY <1>4, <1>6, <1>7, <1>8

\* The answer of the host.
LEMMA AnswerSafe ==
  ASSUME TabsSafe, Answer
  PROVE  TabsSafe'
<1>0. LineTypes(port, queue, waiters, sends, late, call) /\ port = "open" /\ queue # <<>>
  BY DEF TabsSafe, Chain, Lines, Answer
<1>1. call \in [Call -> CallRecord \cup {Nil}] /\ late \in BOOLEAN /\ sends \in Nat
  BY <1>0 DEF LineTypes
<1> PICK m : m = Head(queue)
  OBVIOUS
<1>2. m \in Message /\ m = queue[1] /\ Len(queue) >= 1 /\ Len(queue) \in Nat
  BY <1>0, TailIs DEF LineTypes
<1>3. Carries(m)
  BY <1>2 DEF TabsSafe, Chain, Lines
<1>4. PICK o \in Outcomes(m) :
       /\ vault' = IF o.made = Nil THEN vault ELSE [vault EXCEPT ![o.made] = MadeFor(m)]
       /\ IF waiters = <<>>
          THEN /\ queue' = Tail(queue) /\ late' = (late /\ Len(queue) > 1)
               /\ UNCHANGED <<waiters, sends, call, matches, pendingSave>>
          ELSE LET c == Head(waiters).call
                   next == [call[c] EXCEPT !.stage = "rematch"]
               IN IF AsksOn(c, o.answer)
                  THEN /\ queue' = Append(Tail(queue), Ask("match", c, next, Nil))
                       /\ waiters' = Append(Tail(waiters), [id |-> sends + 1, call |-> c])
                       /\ sends' = sends + 1 /\ late' = (late /\ Len(queue) > 1)
                       /\ call' = [call EXCEPT ![c] = next]
                       /\ UNCHANGED <<matches, pendingSave>>
                  ELSE /\ queue' = Tail(queue) /\ waiters' = Tail(waiters)
                       /\ late' = (late /\ Len(queue) > 1)
                       /\ UNCHANGED sends
                       /\ \/ TakesMatch(c, o.answer) \/ TakesFill(c, o.answer)
                          \/ TakesGenerated(c, o.answer) \/ TakesLast(c, o.answer)
  BY Zenon DEF Answer
<1>5. /\ o.answer.hits \in SUBSET Item /\ o.answer.secrets \in BOOLEAN
      /\ o.answer.password \in Item \cup {Nil} /\ o.made \in Item \cup {Nil}
      /\ o.made # Nil => vault[o.made] = Nil
      /\ o.answer.secrets =>
           \A i \in o.answer.hits : vault[i] # Nil /\ vault[i].site \in {m.site, Everywhere}
      /\ o.answer.password # Nil => o.made = o.answer.password
  BY <1>2, OutcomeFacts
<1>6. vault \in [Item -> VaultRow \cup {Nil}] /\ SavedInItsTab
  BY DEF TabsSafe, World
<1>7. /\ vault' \in [Item -> VaultRow \cup {Nil}] /\ SavedInItsTab'
      /\ \A j \in Item : vault[j] # Nil => vault'[j] = vault[j]
      /\ o.made # Nil => vault'[o.made] # Nil /\ vault'[o.made].site \in {m.site, Everywhere}
  BY <1>2, <1>3, <1>4, <1>5, <1>6, MadeSafe
<1>8. /\ o.answer.secrets =>
           \A i \in o.answer.hits : vault'[i] # Nil /\ vault'[i].site \in {m.site, Everywhere}
      /\ o.answer.password # Nil =>
           vault'[o.answer.password] # Nil /\ vault'[o.answer.password].site \in {m.site, Everywhere}
  BY <1>5, <1>7
<1>9. \A c \in Call : Holds(call[c], vault')
  BY <1>1, <1>7, HoldsKept DEF TabsSafe, InHand
<1>10. /\ UNCHANGED <<calls, moves, faults, page, port, lastPage, popup>>
  BY DEF Answer
<1>11. ASSUME matches' \in [Tab -> Listing \cup {Nil}], pendingSave' \in Password \cup {Nil},
              Chain', NEW c \in Call, NEW x, Holds(x, vault'), call' = [call EXCEPT ![c] = x]
       PROVE  TabsSafe'
  <2>1. InHand'
    BY <1>1, <1>9, <1>11 DEF InHand
  <2>2. World'
    BY <1>7, <1>10, <1>11 DEF TabsSafe, World
  <2> QED BY <1>7, <1>11, <2>1, <2>2 DEF TabsSafe
<1>12. CASE waiters = <<>>
  <2>1. /\ queue' = Tail(queue) /\ late' = (late /\ Len(queue) > 1) /\ call' = call
        /\ UNCHANGED <<waiters, sends, matches, pendingSave>>
    BY <1>4, <1>12
  <2>2. Lines("open", Tail(queue), <<>>, sends, late /\ Len(queue) > 1, call)
    BY <1>0, <1>12, LinesUnheard DEF TabsSafe, Chain
  <2>3. Chain'
    BY <1>0, <1>10, <1>12, <2>1, <2>2 DEF Chain
  <2>4. World' /\ InHand'
    BY <1>7, <1>9, <1>10, <2>1 DEF TabsSafe, World, InHand
  <2> QED BY <1>7, <2>3, <2>4 DEF TabsSafe
<1>13. CASE waiters # <<>>
  <2> PICK c : c = Head(waiters).call
    OBVIOUS
  <2>1. c = waiters[1].call /\ Len(waiters) >= 1 /\ Len(waiters) \in Nat
    BY <1>0, <1>13, TailIs DEF LineTypes
  <2>2. c \in Call /\ Busy(call[c])
    <3>1. 1 \in 1 .. Len(waiters)
      BY <2>1
    <3>2. c \in Call
      BY <1>0, <2>1, <3>1, LineElements
    <3> QED BY <2>1, <3>1, <3>2 DEF TabsSafe, Chain, Lines
  <2>3. ~ late => m.site = call[c].site
    BY <1>0, <1>2, <2>1 DEF TabsSafe, Chain, Lines
  <2>4. \A x \in CallRecord \cup {Nil} :
          Lines("open", Tail(queue), Tail(waiters), sends, late /\ Len(queue) > 1,
                [call EXCEPT ![c] = x])
    BY <1>0, <1>13, LinesAnswered DEF TabsSafe, Chain
  <2> PICK next : next = [call[c] EXCEPT !.stage = "rematch"]
    OBVIOUS
  <2>5. CASE AsksOn(c, o.answer)
    <3>1. /\ queue' = Append(Tail(queue), Ask("match", c, next, Nil))
          /\ waiters' = Append(Tail(waiters), [id |-> sends + 1, call |-> c])
          /\ sends' = sends + 1 /\ late' = (late /\ Len(queue) > 1)
          /\ call' = [call EXCEPT ![c] = next]
          /\ UNCHANGED <<matches, pendingSave>>
      BY <1>4, <1>13, <2>5
    <3>2. next \in CallRecord /\ next.stage = "rematch" /\ next # Nil
      BY <1>1, <2>2, NilAssumption DEF Busy, CallRecord, Stages
    <3>3. Busy(next) /\ Holds(next, vault')
      BY <3>2 DEF Busy, Asking, Holds
    <3> PICK g : g = [call EXCEPT ![c] = Nil]
      OBVIOUS
    <3>4. /\ Lines("open", Tail(queue), Tail(waiters), sends, late /\ Len(queue) > 1, g)
          /\ ~ Busy(g[c]) /\ [g EXCEPT ![c] = next] = [call EXCEPT ![c] = next]
      BY <1>1, <2>2, <2>4 DEF Busy
    <3> PICK a : a = Ask("match", c, next, Nil)
      OBVIOUS
    <3>5. a \in Message /\ a.id = sends + 1 /\ a.site = next.site /\ Carries(a)
      BY <1>1, <3>2 DEF Ask, Message, CallRecord, Carries
    <3>6. Lines("open", Append(Tail(queue), a),
                Append(Tail(waiters), [id |-> sends + 1, call |-> c]), sends + 1,
                late /\ Len(queue) > 1, [g EXCEPT ![c] = next])
      BY <2>2, <3>2, <3>3, <3>4, <3>5, LinesSend
    <3>7. Chain'
      BY <1>0, <1>10, <3>1, <3>4, <3>6 DEF Chain
    <3> QED BY <1>11, <2>2, <3>1, <3>3, <3>7 DEF TabsSafe, World
  <2>6. CASE ~ AsksOn(c, o.answer)
    <3>1. /\ queue' = Tail(queue) /\ waiters' = Tail(waiters)
          /\ late' = (late /\ Len(queue) > 1) /\ UNCHANGED sends
          /\ \/ TakesMatch(c, o.answer) \/ TakesFill(c, o.answer)
             \/ TakesGenerated(c, o.answer) \/ TakesLast(c, o.answer)
      BY <1>4, <1>13, <2>6
    <3>2. matches \in [Tab -> Listing \cup {Nil}] /\ pendingSave \in Password \cup {Nil}
      BY DEF TabsSafe, World
    <3>3. /\ \E x \in CallRecord \cup {Nil} : call' = [call EXCEPT ![c] = x] /\ Holds(x, vault')
          /\ matches' \in [Tab -> Listing \cup {Nil}]
          /\ pendingSave' \in Password \cup {Nil}
      <4> PICK answer, site : answer = o.answer /\ site = m.site
        OBVIOUS
      <4>1. /\ answer.hits \in SUBSET Item /\ answer.secrets \in BOOLEAN
            /\ answer.password \in Item \cup {Nil}
            /\ answer.secrets =>
                 \A i \in answer.hits : vault'[i] # Nil /\ vault'[i].site \in {site, Everywhere}
            /\ answer.password # Nil =>
                 vault'[answer.password] # Nil /\ vault'[answer.password].site \in {site, Everywhere}
        BY <1>5, <1>8
      <4>2. \/ TakesMatch(c, answer) \/ TakesFill(c, answer)
            \/ TakesGenerated(c, answer) \/ TakesLast(c, answer)
        BY <3>1
      <4>3. /\ call \in [Call -> CallRecord \cup {Nil}] /\ Busy(call[c]) /\ late \in BOOLEAN
            /\ ~ late => site = call[c].site
        BY <1>1, <2>2, <2>3
      <4> QED BY <2>2, <3>2, <4>1, <4>2, <4>3, TakesGives, SMTT(30)
    <3>4. PICK x \in CallRecord \cup {Nil} : call' = [call EXCEPT ![c] = x] /\ Holds(x, vault')
      BY <3>3
    <3>5. Chain'
      BY <1>0, <1>10, <2>4, <3>1, <3>4 DEF Chain
    <3> QED BY <1>11, <2>2, <3>3, <3>4, <3>5
  <2> QED BY <2>5, <2>6
<1> QED BY <1>12, <1>13

LEMMA TabsSafeInit == Init => TabsSafe
<1> SUFFICES ASSUME Init PROVE TabsSafe
  OBVIOUS
<1>1. PICK site \in Vaults :
        vault = [i \in Item |-> IF site[i] = Nil THEN Nil
                                ELSE [site |-> site[i], typed |-> Nil, from |-> Nil]]
  BY DEF Init
<1>2. vault \in [Item -> VaultRow \cup {Nil}] /\ SavedInItsTab
  <2>1. \A i \in Item : site[i] \in Site \cup {Everywhere, Nil}
    BY TabsAssumption
  <2> QED BY <1>1, <2>1, NilAssumption DEF VaultRow, SavedInItsTab
<1>3. World
  BY <1>2, TabsAssumption DEF Init, World
<1> PICK e, f : e = <<>> /\ f = call
  OBVIOUS
<1>4. f \in [Call -> CallRecord \cup {Nil}] /\ e \in Seq(Message) /\ e \in Seq(Waiter)
  BY DEF Init
<1>5. LineTypes("none", e, e, 0, FALSE, f)
  BY <1>4 DEF LineTypes
<1>6. Lines("none", <<>>, <<>>, 0, FALSE, f)
  BY <1>4, <1>5, LinesClosed
<1>7. Chain
  BY <1>6 DEF Init, Chain
<1>8. InHand
  BY DEF Init, InHand, Holds
<1> QED BY <1>2, <1>3, <1>7, <1>8 DEF TabsSafe

LEMMA TabsSafeNext == TabsSafe /\ [Next]_vars => TabsSafe'
<1> SUFFICES ASSUME TabsSafe, [Next]_vars PROVE TabsSafe'
  OBVIOUS
<1>1. CASE UNCHANGED vars
  BY <1>1 DEF vars, TabsSafe, World, Chain, InHand, SavedInItsTab
<1>2. CASE Answer
  BY <1>2, AnswerSafe
<1>3. CASE HostGone \/ Disconnect \/ WorkerGone
  BY <1>3, FaultSafe
<1>4. ASSUME NEW c \in Call, Start(c) PROVE TabsSafe'
  BY <1>4, StartSafe
<1>5. ASSUME NEW c \in Call, Proceed(c) PROVE TabsSafe'
  <2>1. CASE Timeout(c)
    BY <2>1, TimeoutSafe
  <2>2. CASE Decide(c) \/ List(c) \/ Prime(c) \/ Write(c) \/ Typed(c)
    BY <2>2, ProceedSafe
  <2> QED BY <1>5, <2>1, <2>2 DEF Proceed
<1>6. ASSUME NEW t \in Tab, Close(t) \/ Submit(t) \/ \E s \in Site : Navigate(t, s)
      PROVE  TabsSafe'
  BY <1>6, MoveSafe
<1> QED BY <1>1, <1>2, <1>3, <1>4, <1>5, <1>6 DEF Next

LEMMA TabsSafeHolds == Spec => []TabsSafe
BY TabsSafeInit, TabsSafeNext, PTL DEF Spec

\* Through every timeout, lost host and stopped worker the askers stand in the
\* order of their questions, none gets an answer to a question asked after its
\* own, and a password kept from a popup was typed in the popup's tab
\* (background.js: hostSend, openPort, popup-save).
THEOREM TabsInvHolds == Spec => []TabsInv
BY TabsSafeHolds, SafeIsEnough, PTL

\* While no asker of the port has left with its answer owed, the secret a call
\* writes fits the site the call asked for (background.js: fillTab,
\* generateTab).
THEOREM WrittenFitsTheAskHolds == Spec => []WrittenFitsTheAsk
BY TabsSafeHolds, SafeIsEnough, PTL

=============================================================================
