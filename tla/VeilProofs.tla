------------------------------ MODULE VeilProofs ------------------------------
(***************************************************************************)
(* Theorems of Veil, for every set of agents, items, sessions, calls and   *)
(* owner requests, every limit and both databases: the invariant, what     *)
(* follows from it, and that Veil implements UseLedger.  The lemmas on     *)
(* Owner alone come first: LocalProofs uses them too.                      *)
(***************************************************************************)
EXTENDS Veil, FiniteSetTheorems, TLAPS

-----------------------------------------------------------------------------
(* Types.                                                                  *)

\* Evaluate always decides, whatever rows it is given.
LEMMA EvaluateDecides ==
  ASSUME NEW x
  PROVE  Evaluate(x).decision \in DecisionKind
<1> DEFINE d == LevelVerdict(x)
<1>1. d.decision \in DecisionKind
  <2>1. CASE x.grant.level = "level2"
    BY <2>1 DEF LevelVerdict, Verdict, DecisionKind
  <2>2. CASE x.grant.level = "level1"
    BY <2>2 DEF LevelVerdict, Verdict, DecisionKind
  <2>3. CASE x.grant.level \notin {"level1", "level2"}
    BY <2>3 DEF LevelVerdict, Deny, Verdict, DecisionKind
  <2> QED BY <2>1, <2>2, <2>3
<1>2. \A r : Deny(r).decision \in DecisionKind
  BY DEF Deny, Verdict, DecisionKind
<1> HIDE DEF d
<1> QED BY <1>1, <1>2 DEF Evaluate, d

LEMMA DecisionDecides ==
  ASSUME NEW c
  PROVE  Decision(c) \in DecisionKind
<1> DEFINE u == UseAuth(Caller(c), ctx[c].item, ctx[c].action, ctx[c].url, ctx[c].now)
<1>1. Evaluate(u).decision \in DecisionKind
  BY EvaluateDecides
<1>2. "deny" \in DecisionKind
  BY DEF DecisionKind
<1> HIDE DEF u
<1> QED BY <1>1, <1>2 DEF Decision, u

LEMMA InitType == Init => TypeOK
<1> SUFFICES ASSUME Init PROVE TypeOK
  OBVIOUS
<1> USE StoreAssumption, OwnerAssumption, BrokerAssumption
<1>1. StoreTypeOK
  <2>1. clock \in Time /\ agent \in [Agent -> {"absent", "live", "revoked"}]
    BY DEF Init, Time
  <2>2. item \in [Item -> ItemRow \cup {Nil}]
    <3>1. [archived : {FALSE}, uris : (SUBSET Url) \ {{}}] \subseteq ItemRow
      BY DEF ItemRow
    <3>2. item \in [Item -> [archived : {FALSE}, uris : (SUBSET Url) \ {{}}]]
      BY DEF Init
    <3> QED BY ONLY <3>1, <3>2
  <2>3. grant \in [Agent \X Item -> GrantRow \cup {Nil}]
    <3>1. [level : Levels, expires : GrantLives] \subseteq GrantRow
      <4>1. \A life \in GrantLives : life = Nil \/ life \in 0 .. MaxTTL
        BY ONLY OwnerAssumption
      <4>2. 0 .. MaxTTL \subseteq Expiry
        BY ONLY StoreAssumption DEF Expiry
      <4>3. Levels \subseteq {"level1", "level2"}
        BY ONLY OwnerAssumption
      <4> QED BY ONLY <4>1, <4>2, <4>3 DEF GrantRow
    <3>2. grant \in [Agent \X Item ->
                       [level : Levels, expires : GrantLives] \cup {Nil}]
      BY DEF Init
    <3> QED BY ONLY <3>1, <3>2
  <2>4. approval \in [Agent \X Item -> Expiry \cup {Nil}]
    BY DEF Init
  <2>5. session \in [Session -> Lease \cup {Nil}]
    <3>1. HandedOut \subseteq Lease
      <4>1. ASSUME NEW a \in Agent, NEW ttl \in SessionTTLs, NEW n \in UseLimits
            PROVE  NewLease(a, ttl, n) \in Lease
        BY DEF NewLease, Lease, Time, Expiry
      <4> QED BY <4>1 DEF HandedOut
    <3>2. session \in [Session -> HandedOut \cup {Nil}]
      BY DEF Init
    <3> QED BY ONLY <3>1, <3>2
  <2>6. audit \subseteq AuditRow /\ locked \subseteq Session
    BY DEF Init
  <2> QED BY <2>1, <2>2, <2>3, <2>4, <2>5, <2>6 DEF StoreTypeOK
<1>2. OwnerTypeOK
  BY DEF Init, OwnerTypeOK, HandlerState, Idle
<1>3. BrokerTypeOK
  BY DEF Init, BrokerInit, BrokerTypeOK, Stage, Outcome
<1> QED BY <1>1, <1>2, <1>3 DEF TypeOK

\* The op of an owner request in progress tells which fields it carries.
LEMMA HandlerKinds ==
  ASSUME NEW h \in HandlerState
  PROVE  /\ h.op = "grant" =>
             h \in [op : {"grant"}, agent : Agent, item : Item, row : GrantRow]
         /\ h.op = "approve" =>
             h \in [op : {"approve"}, agent : Agent, item : Item, expires : Expiry]
         /\ h.op = "update" =>
             h \in [op : {"update"}, item : Item, row : ItemRow]
         /\ h.op = "delete" =>
             h \in [op : {"delete"}, item : Item, stage : {"grants", "row"}]
         /\ h.op = "create" =>
             h \in [op : {"create"}, session : Session, agent : Agent]
         /\ h.op = "renew" =>
             h \in [op : {"renew"}, session : Session, expires : Expiry]
         /\ h.op = "sweep" =>
             h \in [op : {"sweep"}, cut : Int, stage : {"sessions", "grants", "approvals"}]
  BY DEF HandlerState, Idle

\* The owner's requests and the rows they write.
LEMMA OwnerTypes ==
  ASSUME StoreTypeOK, OwnerTypeOK, OwnerStep
  PROVE  StoreTypeOK' /\ OwnerTypeOK'
<1> USE DEF StoreTypeOK, OwnerTypeOK, ownerVars
<1>1. ASSUME NEW a \in Agent, AddAgent(a) PROVE StoreTypeOK' /\ OwnerTypeOK'
  BY <1>1 DEF AddAgent, PutAgent
<1>2. ASSUME NEW a \in Agent, RevokeAgent(a) PROVE StoreTypeOK' /\ OwnerTypeOK'
  <2>1. [call |-> Nil, session |-> Nil, agent |-> a, item |-> Nil,
         decision |-> "allow"] \in AuditRow
    BY DEF AuditRow, DecisionKind
  <2> QED BY <1>2, <2>1 DEF RevokeAgent, StoreRevokeAgent
<1>3. ASSUME NEW i \in Item, NEW uris \in SUBSET Url, PutItem(i, uris)
      PROVE  StoreTypeOK' /\ OwnerTypeOK'
  BY <1>3 DEF PutItem, StorePutItem, ItemRow
<1>4. ASSUME NEW i \in Item, ArchiveItem(i) PROVE StoreTypeOK' /\ OwnerTypeOK'
  BY <1>4 DEF ArchiveItem, StoreArchiveItem, ItemRow
<1>5. ASSUME NEW s \in Session, RevokeSession(s) PROVE StoreTypeOK' /\ OwnerTypeOK'
  <2>1. session[s] \in Lease
    BY <1>5 DEF RevokeSession, StoreRevokeSession
  <2>2. [session[s] EXCEPT !.revoked = IF @ = Nil THEN clock ELSE @] \in Lease
    BY <2>1 DEF Lease
  <2> QED BY <1>5, <2>2 DEF RevokeSession, StoreRevokeSession
<1>6. ASSUME NEW o \in Owner, NEW op, NEW h \in HandlerState, Begin(o, op, h)
      PROVE  handler' \in [Owner -> HandlerState]
  BY <1>6 DEF Begin
<1>7. Idle \in HandlerState
  BY DEF HandlerState
<1>8. ASSUME NEW o \in Owner, Finish(o) PROVE OwnerTypeOK'
  BY <1>7, <1>8 DEF Finish
<1>9. ASSUME NEW o \in Owner, NEW i \in Item, NEW uris \in SUBSET Url,
             UpdateRead(o, i, uris)
      PROVE  StoreTypeOK' /\ OwnerTypeOK'
  <2>1. [item[i] EXCEPT !.uris = uris] \in ItemRow
    BY <1>9 DEF UpdateRead, ItemRow
  <2>2. [op |-> "update", item |-> i, row |-> [item[i] EXCEPT !.uris = uris]]
          \in HandlerState
    BY <2>1 DEF HandlerState
  <2> QED BY <1>6, <1>9, <2>2 DEF UpdateRead, storeVars
<1>10. ASSUME NEW o \in Owner, UpdateWrite(o) PROVE StoreTypeOK' /\ OwnerTypeOK'
  <2>1. handler[o] \in [op : {"update"}, item : Item, row : ItemRow]
    BY <1>10, HandlerKinds DEF UpdateWrite
  <2> QED BY <1>8, <1>10, <2>1 DEF UpdateWrite, StorePutItem
<1>11. ASSUME NEW o \in Owner, NEW a \in Agent, NEW i \in Item, NEW level \in Levels,
              NEW life \in GrantLives, GrantCheck(o, a, i, level, life)
       PROVE  StoreTypeOK' /\ OwnerTypeOK'
  <2> DEFINE row == [level |-> level,
                     expires |-> IF life = Nil THEN Nil ELSE clock + life]
  <2>1. life # Nil => clock + life \in Expiry
    BY OwnerAssumption, StoreAssumption DEF Expiry, Time
  <2>2. row \in GrantRow
    BY <2>1, OwnerAssumption DEF GrantRow
  <2>3. [op |-> "grant", agent |-> a, item |-> i, row |-> row] \in HandlerState
    BY <2>2 DEF HandlerState
  <2> QED BY <1>6, <1>11, <2>3 DEF GrantCheck, storeVars
<1>12. ASSUME NEW o \in Owner, GrantWrite(o) PROVE StoreTypeOK' /\ OwnerTypeOK'
  <2>1. handler[o] \in [op : {"grant"}, agent : Agent, item : Item, row : GrantRow]
    BY <1>12, HandlerKinds DEF GrantWrite
  <2> QED BY <1>8, <1>12, <2>1 DEF GrantWrite, StorePutGrant
<1>13. ASSUME NEW o \in Owner, NEW a \in Agent, NEW i \in Item,
              NEW life \in ApprovalLives, ApproveCheck(o, a, i, life)
       PROVE  StoreTypeOK' /\ OwnerTypeOK'
  <2>1. clock + life \in Expiry
    BY OwnerAssumption, StoreAssumption DEF Expiry, Time
  <2>2. [op |-> "approve", agent |-> a, item |-> i, expires |-> clock + life]
          \in HandlerState
    BY <2>1 DEF HandlerState
  <2> QED BY <1>6, <1>13, <2>2 DEF ApproveCheck, storeVars
<1>14. ASSUME NEW o \in Owner, ApproveWrite(o) PROVE StoreTypeOK' /\ OwnerTypeOK'
  <2>1. handler[o] \in [op : {"approve"}, agent : Agent, item : Item, expires : Expiry]
    BY <1>14, HandlerKinds DEF ApproveWrite
  <2> QED BY <1>8, <1>14, <2>1 DEF ApproveWrite, PutApproval
<1>15. ASSUME NEW o \in Owner, NEW i \in Item, DeleteCheck(o, i)
       PROVE  StoreTypeOK' /\ OwnerTypeOK'
  <2>1. [op |-> "delete", item |-> i, stage |-> "grants"] \in HandlerState
    BY DEF HandlerState
  <2> QED BY <1>6, <1>15, <2>1 DEF DeleteCheck, storeVars
<1>16. ASSUME NEW o \in Owner, DeleteGrants(o) PROVE StoreTypeOK' /\ OwnerTypeOK'
  <2>1. handler[o] \in [op : {"delete"}, item : Item, stage : {"grants", "row"}]
    BY <1>16, HandlerKinds DEF DeleteGrants
  <2>2. [handler[o] EXCEPT !.stage = "row"] \in HandlerState
    BY <2>1 DEF HandlerState
  <2> QED BY <1>16, <2>2 DEF DeleteGrants, DeleteItemGrants, Advance
<1>17. ASSUME NEW o \in Owner, DeleteRow(o) PROVE StoreTypeOK' /\ OwnerTypeOK'
  <2>1. handler[o] \in [op : {"delete"}, item : Item, stage : {"grants", "row"}]
    BY <1>17, HandlerKinds DEF DeleteRow
  <2> QED BY <1>8, <1>17, <2>1 DEF DeleteRow, DeleteItemRow
<1>18. ASSUME NEW o \in Owner, NEW s \in Session, NEW a \in Agent, CreateCheck(o, s, a)
       PROVE  StoreTypeOK' /\ OwnerTypeOK'
  <2>1. [op |-> "create", session |-> s, agent |-> a] \in HandlerState
    BY DEF HandlerState
  <2> QED BY <1>6, <1>18, <2>1 DEF CreateCheck, storeVars
<1>19. ASSUME NEW o \in Owner, NEW ttl \in SessionTTLs, NEW n \in UseLimits,
              CreateWrite(o, ttl, n)
       PROVE  StoreTypeOK' /\ OwnerTypeOK'
  <2>1. handler[o] \in [op : {"create"}, session : Session, agent : Agent]
    BY <1>19, HandlerKinds DEF CreateWrite
  <2>2. ttl \in 1 .. MaxTTL /\ n \in Nat /\ clock + ttl \in Expiry
    BY OwnerAssumption, StoreAssumption DEF Expiry, Time
  <2>3. [agent |-> handler[o].agent, created |-> clock, expires |-> clock + ttl,
         revoked |-> Nil, ttl |-> ttl, maxUses |-> n, uses |-> 0] \in Lease
    BY <2>1, <2>2 DEF Lease
  <2> QED BY <1>8, <1>19, <2>1, <2>3 DEF CreateWrite, PutSession
<1>20. ASSUME NEW o \in Owner, NEW s \in Session, RenewRead(o, s)
       PROVE  StoreTypeOK' /\ OwnerTypeOK'
  <2>1. session[s] \in Lease
    BY <1>20 DEF RenewRead
  <2>2. RenewedExpiry(session[s]) \in Expiry
    BY <2>1, StoreAssumption DEF RenewedExpiry, MinOf, MaxOf, Lease, Expiry, Time
  <2>3. [op |-> "renew", session |-> s, expires |-> RenewedExpiry(session[s])]
          \in HandlerState
    BY <2>2 DEF HandlerState
  <2> QED BY <1>6, <1>20, <2>3 DEF RenewRead, storeVars
<1>21. ASSUME NEW o \in Owner, RenewWrite(o) PROVE StoreTypeOK' /\ OwnerTypeOK'
  <2>1. handler[o] \in [op : {"renew"}, session : Session, expires : Expiry]
    BY <1>21, HandlerKinds DEF RenewWrite
  <2>2. session[handler[o].session] # Nil =>
          [session[handler[o].session] EXCEPT !.expires = handler[o].expires] \in Lease
    BY <2>1 DEF Lease
  <2> QED BY <1>8, <1>21, <2>1, <2>2 DEF RenewWrite, WriteExpiry
<1>22. ASSUME NEW o \in Owner, NEW keep \in Keeps, SweepBegin(o, keep)
       PROVE  StoreTypeOK' /\ OwnerTypeOK'
  <2>1. clock - keep \in Int
    BY OwnerAssumption, StoreAssumption DEF Time
  <2>2. [op |-> "sweep", cut |-> clock - keep, stage |-> "sessions"] \in HandlerState
    BY <2>1 DEF HandlerState
  <2> QED BY <1>6, <1>22, <2>2 DEF SweepBegin, storeVars
<1>23. ASSUME NEW o \in Owner, SweepStep(o) PROVE StoreTypeOK' /\ OwnerTypeOK'
  <2>1. handler[o] \in [op : {"sweep"}, cut : Int,
                        stage : {"sessions", "grants", "approvals"}]
    BY <1>23, HandlerKinds DEF SweepStep
  <2>2. \A stage \in {"grants", "approvals"} :
          [handler[o] EXCEPT !.stage = stage] \in HandlerState
    BY <2>1 DEF HandlerState
  <2>3. ASSUME NEW stage \in {"grants", "approvals"}, Advance(o, stage)
        PROVE  OwnerTypeOK'
    BY <2>2, <2>3 DEF Advance
  <2>4. ASSUME SweepSessions(handler[o].cut) PROVE StoreTypeOK'
    BY <2>4 DEF SweepSessions
  <2>5. ASSUME SweepGrants(handler[o].cut) PROVE StoreTypeOK'
    BY <2>5 DEF SweepGrants
  <2>6. ASSUME SweepApprovals(handler[o].cut) PROVE StoreTypeOK'
    BY <2>6 DEF SweepApprovals
  <2> QED BY <1>8, <1>23, <2>3, <2>4, <2>5, <2>6 DEF SweepStep
<1>24. ASSUME NEW o \in Owner, HandlerFails(o) PROVE StoreTypeOK' /\ OwnerTypeOK'
  BY <1>8, <1>24 DEF HandlerFails, storeVars
<1> QED
  BY <1>1, <1>2, <1>3, <1>4, <1>5, <1>9, <1>10, <1>11, <1>12, <1>13, <1>14, <1>15,
     <1>16, <1>17, <1>18, <1>19, <1>20, <1>21, <1>22, <1>23, <1>24 DEF OwnerStep

\* An owner's request writes no row, or one that names neither call nor lease.
LEMMA OwnerAudit ==
  ASSUME OwnerStep
  PROVE  \/ audit' = audit
         \/ \E row : audit' = audit \cup {row} /\ row.session = Nil /\ row.call = Nil
<1> DEFINE Quiet == \/ audit' = audit
                    \/ \E row : /\ audit' = audit \cup {row}
                                /\ row.session = Nil /\ row.call = Nil
<1> USE DEF storeVars
<1>1. ASSUME NEW a \in Agent, AddAgent(a) PROVE audit' = audit
  BY <1>1 DEF AddAgent, PutAgent
<1>2. ASSUME NEW a \in Agent, RevokeAgent(a) PROVE Quiet
  <2> DEFINE row == [call |-> Nil, session |-> Nil, agent |-> a, item |-> Nil,
                     decision |-> "allow"]
  <2>1. audit' = audit \cup {row} /\ row.session = Nil /\ row.call = Nil
    BY <1>2 DEF RevokeAgent, StoreRevokeAgent
  <2> QED BY <2>1
<1>3. ASSUME NEW i \in Item, (\E uris \in SUBSET Url : PutItem(i, uris)) \/ ArchiveItem(i)
      PROVE  audit' = audit
  BY <1>3 DEF PutItem, StorePutItem, ArchiveItem, StoreArchiveItem
<1>4. ASSUME NEW s \in Session, RevokeSession(s) PROVE audit' = audit
  BY <1>4 DEF RevokeSession, StoreRevokeSession
<1>5. ASSUME NEW o \in Owner, NEW a \in Agent, NEW i \in Item,
             \/ \E level \in Levels, life \in GrantLives : GrantCheck(o, a, i, level, life)
             \/ \E life \in ApprovalLives : ApproveCheck(o, a, i, life)
      PROVE  audit' = audit
  BY <1>5 DEF GrantCheck, ApproveCheck
<1>6. ASSUME NEW o \in Owner, NEW i \in Item,
             DeleteCheck(o, i) \/ \E uris \in SUBSET Url : UpdateRead(o, i, uris)
      PROVE  audit' = audit
  BY <1>6 DEF DeleteCheck, UpdateRead
<1>7. ASSUME NEW o \in Owner, NEW s \in Session,
             RenewRead(o, s) \/ \E a \in Agent : CreateCheck(o, s, a)
      PROVE  audit' = audit
  BY <1>7 DEF RenewRead, CreateCheck
<1>8. ASSUME NEW o \in Owner, NEW keep \in Keeps, SweepBegin(o, keep) PROVE audit' = audit
  BY <1>8 DEF SweepBegin
<1>9. ASSUME NEW o \in Owner, NEW ttl \in SessionTTLs, NEW n \in UseLimits,
             CreateWrite(o, ttl, n)
      PROVE  audit' = audit
  BY <1>9 DEF CreateWrite, PutSession
<1>10. ASSUME NEW o \in Owner, UpdateWrite(o) \/ GrantWrite(o) \/ ApproveWrite(o) \/ RenewWrite(o)
       PROVE  audit' = audit
  BY <1>10 DEF UpdateWrite, GrantWrite, ApproveWrite, RenewWrite, StorePutItem,
               StorePutGrant, PutApproval, WriteExpiry
<1>11. ASSUME NEW o \in Owner, DeleteGrants(o) \/ DeleteRow(o) \/ HandlerFails(o) \/ SweepStep(o)
       PROVE  audit' = audit
  BY <1>11 DEF DeleteGrants, DeleteRow, HandlerFails, DeleteItemGrants, DeleteItemRow,
               SweepStep, SweepSessions, SweepGrants, SweepApprovals
<1> HIDE DEF Quiet
<1>12. audit' = audit => Quiet
  BY DEF Quiet
<1>13. Quiet
  BY <1>1, <1>2, <1>3, <1>4, <1>5, <1>6, <1>7, <1>8, <1>9, <1>10, <1>11, <1>12 DEF OwnerStep
<1> QED BY <1>13 DEF Quiet

\* Only the two owner requests on agents write agent rows, and no owner turns
\* the clock.
LEMMA OwnerKeeps ==
  ASSUME StoreTypeOK, OwnerStep
  PROVE  /\ clock' = clock
         /\ \A a \in Agent : agent[a] = "revoked" => agent'[a] = "revoked"
<1> DEFINE Kept == /\ clock' = clock
                   /\ \A a \in Agent : agent[a] = "revoked" => agent'[a] = "revoked"
<1> USE DEF StoreTypeOK
<1>1. ASSUME NEW b \in Agent, AddAgent(b) \/ RevokeAgent(b) PROVE Kept
  BY <1>1 DEF AddAgent, PutAgent, RevokeAgent, StoreRevokeAgent
<1>2. ASSUME NEW i \in Item, (\E uris \in SUBSET Url : PutItem(i, uris)) \/ ArchiveItem(i)
      PROVE  clock' = clock /\ agent' = agent
  BY <1>2 DEF PutItem, StorePutItem, ArchiveItem, StoreArchiveItem
<1>3. ASSUME NEW s \in Session, RevokeSession(s) PROVE clock' = clock /\ agent' = agent
  BY <1>3 DEF RevokeSession, StoreRevokeSession
<1>4. ASSUME NEW o \in Owner, NEW b \in Agent, NEW i \in Item,
             \/ \E level \in Levels, life \in GrantLives : GrantCheck(o, b, i, level, life)
             \/ \E life \in ApprovalLives : ApproveCheck(o, b, i, life)
      PROVE  clock' = clock /\ agent' = agent
  BY <1>4 DEF GrantCheck, ApproveCheck, storeVars
<1>5. ASSUME NEW o \in Owner, NEW i \in Item,
             DeleteCheck(o, i) \/ \E uris \in SUBSET Url : UpdateRead(o, i, uris)
      PROVE  clock' = clock /\ agent' = agent
  BY <1>5 DEF DeleteCheck, UpdateRead, storeVars
<1>6. ASSUME NEW o \in Owner, NEW s \in Session,
             RenewRead(o, s) \/ \E b \in Agent : CreateCheck(o, s, b)
      PROVE  clock' = clock /\ agent' = agent
  BY <1>6 DEF RenewRead, CreateCheck, storeVars
<1>7. ASSUME NEW o \in Owner, NEW keep \in Keeps, SweepBegin(o, keep)
      PROVE  clock' = clock /\ agent' = agent
  BY <1>7 DEF SweepBegin, storeVars
<1>8. ASSUME NEW o \in Owner, NEW ttl \in SessionTTLs, NEW n \in UseLimits,
             CreateWrite(o, ttl, n)
      PROVE  clock' = clock /\ agent' = agent
  BY <1>8 DEF CreateWrite, PutSession
<1>9. ASSUME NEW o \in Owner, UpdateWrite(o) \/ GrantWrite(o) \/ ApproveWrite(o) \/ RenewWrite(o)
      PROVE  clock' = clock /\ agent' = agent
  BY <1>9 DEF UpdateWrite, GrantWrite, ApproveWrite, RenewWrite, StorePutItem,
              StorePutGrant, PutApproval, WriteExpiry
<1>10. ASSUME NEW o \in Owner, DeleteGrants(o) \/ DeleteRow(o) \/ HandlerFails(o) \/ SweepStep(o)
       PROVE  clock' = clock /\ agent' = agent
  BY <1>10 DEF DeleteGrants, DeleteRow, HandlerFails, DeleteItemGrants, DeleteItemRow,
               SweepStep, SweepSessions, SweepGrants, SweepApprovals, storeVars
<1> HIDE DEF Kept
<1>11. clock' = clock /\ agent' = agent => Kept
  BY DEF Kept
<1>12. Kept
  BY <1>1, <1>2, <1>3, <1>4, <1>5, <1>6, <1>7, <1>8, <1>9, <1>10, <1>11 DEF OwnerStep
<1> QED BY <1>12 DEF Kept

-----------------------------------------------------------------------------
\* What a call appends to the audit table.
LEMMA RowType ==
  ASSUME TypeOK, CallsWellFormed, NEW c \in Call, pc[c] # "idle",
         NEW decision \in DecisionKind
  PROVE  Row(c, decision) \in AuditRow
BY DEF TypeOK, BrokerTypeOK, CallsWellFormed, WellFormed, Context, Row, AuditRow

\* The steps of a call.
LEMMA CallTypes ==
  ASSUME TypeOK, CallsWellFormed, LocksHeld, NEW c \in Call, CallStep(c)
  PROVE  StoreTypeOK' /\ BrokerTypeOK'
<1> USE DEF TypeOK, StoreTypeOK, BrokerTypeOK
<1>1. ASSUME NEW stage \in Stage, Goto(c, stage), outcome' \in [Call -> Outcome]
      PROVE  BrokerTypeOK'
  BY <1>1 DEF Goto
<1>2. ASSUME NEW result \in Outcome, Return(c, result), sent' \in {sent, sent \cup {c}}
      PROVE  BrokerTypeOK'
  BY <1>2 DEF Return, Stage
<1>3. ASSUME UNCHANGED storeVars PROVE StoreTypeOK'
  BY <1>3 DEF storeVars
<1>4. ASSUME NEW decision \in DecisionKind, pc[c] # "idle", AppendAudit(Row(c, decision))
      PROVE  StoreTypeOK'
  BY <1>4, RowType DEF AppendAudit
<1>5. ASSUME pc[c] # "idle", NEW s \in Session, session[s] # Nil,
             CommitConsume(s, Row(c, "allow"))
      PROVE  StoreTypeOK'
  <2>1. session[s] \in Lease
    BY <1>5
  <2>2. [session[s] EXCEPT !.uses = @ + 1] \in Lease
    BY <2>1 DEF Lease
  <2>3. Row(c, "allow") \in AuditRow
    BY <1>5, RowType DEF DecisionKind
  <2> QED BY <1>5, <2>2, <2>3 DEF CommitConsume
<1>6. DecisionKind \subseteq Outcome
  BY DEF Outcome
<1>7. {"deny", "error", "unauthorized", "allow", "fetch_failed"} \subseteq Outcome
  BY DEF Outcome, DecisionKind
<1>8. ctx[c] # Nil => ctx[c] \in Context
  OBVIOUS
<1>9. CASE ReadAuth(c)
  <2>1. ctx[c] \in Context
    BY <1>9 DEF ReadAuth, CallsWellFormed, WellFormed
  <2>2. Caller(c) \in Agent
    <3>1. CASE ctx[c].session = Nil
      BY <1>9, <3>1 DEF ReadAuth, CallsWellFormed, WellFormed, Caller
    <3>2. CASE ctx[c].session # Nil
      <4>1. ctx[c].session \in Session /\ session[ctx[c].session] \in Lease
        BY <1>9, <2>1, <3>2 DEF ReadAuth, LeaseUsable, Context
      <4> QED BY <3>2, <4>1 DEF Caller, Lease
    <3> QED BY <3>1, <3>2
  <2>3. [ctx[c] EXCEPT !.agent = Caller(c)] \in Context
    BY <2>1, <2>2 DEF Context
  <2>4. ctx' \in [Call -> Context \cup {Nil}]
    BY <1>9, <2>3 DEF ReadAuth
  <2>5. outcome' \in [Call -> Outcome]
    BY <1>9, <1>6, DecisionDecides DEF ReadAuth
  <2>6. pc' \in [Call -> Stage]
    BY <1>9 DEF ReadAuth, Stage
  <2> QED BY <1>3, <1>9, <2>4, <2>5, <2>6 DEF ReadAuth
<1>10. CASE Unauthorized(c)
  BY <1>2, <1>3, <1>7, <1>10 DEF Unauthorized
<1>11. CASE Reload(c)
  BY <1>1, <1>3, <1>7, <1>11 DEF Reload, Stage
<1>12. CASE AuditAllow(c)
  BY <1>1, <1>4, <1>12 DEF AuditAllow, Stage, DecisionKind
<1>13. CASE Consume(c)
  BY <1>1, <1>5, <1>8, <1>13 DEF Consume, Consumable, LeaseUsable, Stage, CallsWellFormed, WellFormed, Context
<1>14. CASE ConsumeSnapshot(c)
  BY <1>1, <1>3, <1>14 DEF ConsumeSnapshot, Stage
<1>15. CASE ConsumeUpdate(c)
  <2>1. ctx[c].session \in Session
    BY <1>8, <1>15 DEF ConsumeUpdate, CallsWellFormed, WellFormed, Context
  <2> QED BY <1>1, <1>15, <2>1 DEF ConsumeUpdate, LockLease, Stage
<1>16. CASE ConsumeCommit(c)
  BY <1>1, <1>5, <1>8, <1>16 DEF ConsumeCommit, LocksHeld, LeaseUsable, Stage, CallsWellFormed, WellFormed, Context
<1>17. CASE ConsumeRefused(c)
  BY <1>1, <1>3, <1>7, <1>17 DEF ConsumeRefused, Stage
<1>18. CASE ReadSecret(c)
  BY <1>1, <1>3, <1>18 DEF ReadSecret, Stage
<1>19. CASE SecretGone(c)
  BY <1>2, <1>3, <1>7, <1>19 DEF SecretGone
<1>20. CASE Fetch(c)
  BY <1>2, <1>3, <1>7, <1>20 DEF Fetch
<1>21. CASE AuditFails(c)
  <2>1. StoreTypeOK'
    BY <1>3, <1>4, <1>21 DEF AuditFails, DecisionKind
  <2> QED BY <1>2, <1>7, <1>21, <2>1 DEF AuditFails
<1>22. CASE ConsumeFails(c)
  <2>1. StoreTypeOK'
    BY <1>3, <1>22 DEF ConsumeFails, RollbackConsume
  <2> QED BY <1>2, <1>7, <1>22, <2>1 DEF ConsumeFails
<1>23. CASE ConsumeUnacknowledged(c)
  <2>1. StoreTypeOK'
    BY <1>5, <1>8, <1>23 DEF ConsumeUnacknowledged, Consumable, LocksHeld, LeaseUsable,
                             CallsWellFormed, WellFormed, Context
  <2> QED BY <1>2, <1>7, <1>23, <2>1 DEF ConsumeUnacknowledged
<1>24. CASE ReadFails(c)
  BY <1>2, <1>3, <1>7, <1>24 DEF ReadFails
<1>25. CASE AuditRefusal(c)
  <2>1. outcome[c] \in DecisionKind \cap Outcome
    BY <1>6, <1>25 DEF AuditRefusal, CallsWellFormed, WellFormed, DecisionKind
  <2>2. StoreTypeOK'
    BY <1>3, <1>4, <1>25, <2>1 DEF AuditRefusal
  <2> QED BY <1>2, <1>25, <2>1, <2>2 DEF AuditRefusal
<1> QED
  BY <1>9, <1>10, <1>11, <1>12, <1>13, <1>14, <1>15, <1>16, <1>17, <1>18, <1>19,
     <1>20, <1>21, <1>22, <1>23, <1>24, <1>25 DEF CallStep, Progress, Failure

\* A step of one call leaves the others where they are.
LEMMA OtherCalls ==
  ASSUME TypeOK, NEW c \in Call, CallStep(c), NEW d \in Call, d # c
  PROVE  /\ pc'[d] = pc[d] /\ ctx'[d] = ctx[d] /\ outcome'[d] = outcome[d]
         /\ d \in sent' <=> d \in sent
<1> USE DEF TypeOK, BrokerTypeOK, Goto, Return
<1>1. CASE ReadAuth(c) \/ Unauthorized(c) \/ Reload(c) \/ ReadFails(c)
  BY <1>1 DEF ReadAuth, Unauthorized, Reload, ReadFails
<1>2. CASE AuditRefusal(c) \/ AuditAllow(c) \/ AuditFails(c)
  BY <1>2 DEF AuditRefusal, AuditAllow, AuditFails
<1>3. CASE Consume(c) \/ ConsumeSnapshot(c) \/ ConsumeUpdate(c) \/ ConsumeCommit(c)
  BY <1>3 DEF Consume, ConsumeSnapshot, ConsumeUpdate, ConsumeCommit
<1>4. CASE ConsumeRefused(c) \/ ConsumeFails(c) \/ ConsumeUnacknowledged(c)
  BY <1>4 DEF ConsumeRefused, ConsumeFails, ConsumeUnacknowledged
<1>5. CASE ReadSecret(c) \/ SecretGone(c) \/ Fetch(c)
  BY <1>5 DEF ReadSecret, SecretGone, Fetch
<1> QED BY <1>1, <1>2, <1>3, <1>4, <1>5 DEF CallStep, Progress, Failure

\* The shape of a call is kept by its own steps.
LEMMA WellFormedKept ==
  ASSUME TypeOK, CallsWellFormed, LocksHeld, NEW c \in Call, CallStep(c)
  PROVE  WellFormed(c)'
<1> USE DEF TypeOK, BrokerTypeOK
<1>0. WellFormed(c)
  BY DEF CallsWellFormed
<1>1. ASSUME NEW result, Return(c, result), pc[c] # "idle" PROVE WellFormed(c)'
  BY <1>0, <1>1 DEF Return, WellFormed
<1>2. CASE ReadAuth(c)
  <2>1. Caller(c) \in Agent
    <3>1. CASE ctx[c].session = Nil
      BY <1>0, <1>2, <3>1 DEF ReadAuth, WellFormed, Caller
    <3>2. CASE ctx[c].session # Nil
      <4>1. ctx[c].session \in Session /\ session[ctx[c].session] \in Lease
        BY <1>0, <1>2, <3>2 DEF ReadAuth, WellFormed, LeaseUsable, Context, StoreTypeOK
      <4> QED BY <3>2, <4>1 DEF Caller, Lease
    <3> QED BY <3>1, <3>2
  <2>2. ctx[c] \in Context
    BY <1>0, <1>2 DEF ReadAuth, WellFormed
  <2>3. /\ ctx'[c] # Nil /\ ctx'[c].session = ctx[c].session
        /\ ctx'[c].agent = Caller(c)
    <3>1. ctx'[c] = [ctx[c] EXCEPT !.agent = Caller(c)]
      BY <1>2 DEF ReadAuth
    <3>2. [ctx[c] EXCEPT !.agent = Caller(c)] \in Context
      BY <2>1, <2>2 DEF Context
    <3>3. ctx'[c] # Nil
      BY <3>1, <3>2, ContextAssumption
    <3> QED BY <2>2, <3>1, <3>3 DEF Context
  <2>4. outcome'[c] = Decision(c)
    BY <1>2 DEF ReadAuth
  <2>5. item[ctx[c].item] = Nil => Decision(c) = "deny"
    BY DEF Decision
  <2>6. Decision(c) \in {"allow", "deny", "need_approval"}
    BY DecisionDecides DEF DecisionKind
  <2>7. pc'[c] = IF item[ctx[c].item] = Nil THEN "refuse"
                 ELSE IF ctx[c].session = Nil THEN "reload"
                 ELSE IF Decision(c) = "allow" THEN "consume" ELSE "refuse"
    BY <1>2 DEF ReadAuth
  <2>8. c \notin sent'
    BY <1>0, <1>2 DEF ReadAuth, WellFormed
  <2> HIDE DEF TypeOK, BrokerTypeOK
  <2> QED BY <2>1, <2>3, <2>4, <2>5, <2>6, <2>7, <2>8 DEF WellFormed, DecisionKind
<1>3. CASE Unauthorized(c) \/ ReadFails(c) \/ SecretGone(c)
  BY <1>1, <1>3 DEF Unauthorized, ReadFails, SecretGone
<1>4. CASE Reload(c)
  BY <1>0, <1>4 DEF Reload, Goto, WellFormed, DecisionKind
<1>5. CASE AuditRefusal(c) \/ AuditFails(c)
  BY <1>1, <1>5 DEF AuditRefusal, AuditFails
<1>6. CASE AuditAllow(c) \/ ReadSecret(c)
  BY <1>0, <1>6 DEF AuditAllow, ReadSecret, Goto, WellFormed
<1>7. CASE Consume(c) \/ ConsumeSnapshot(c) \/ ConsumeUpdate(c) \/ ConsumeCommit(c)
  BY <1>0, <1>7 DEF Consume, ConsumeSnapshot, ConsumeUpdate, ConsumeCommit, Goto, WellFormed
<1>8. CASE ConsumeRefused(c)
  BY <1>0, <1>8 DEF ConsumeRefused, Goto, WellFormed
<1>9. CASE ConsumeFails(c) \/ ConsumeUnacknowledged(c)
  BY <1>1, <1>9 DEF ConsumeFails, ConsumeUnacknowledged
<1>10. CASE Fetch(c)
  BY <1>1, <1>10 DEF Fetch
<1> QED
  BY <1>2, <1>3, <1>4, <1>5, <1>6, <1>7, <1>8, <1>9, <1>10 DEF CallStep, Progress, Failure

LEMMA CallsKept ==
  ASSUME TypeOK, CallsWellFormed, LocksHeld, NEW c \in Call, CallStep(c)
  PROVE  CallsWellFormed'
<1>1. ASSUME NEW d \in Call, d # c PROVE WellFormed(d)'
  BY <1>1, OtherCalls DEF WellFormed, CallsWellFormed
<1> QED BY <1>1, WellFormedKept DEF CallsWellFormed

-----------------------------------------------------------------------------
(* What each side leaves alone.                                            *)

\* Four owner requests write session rows; no other does, and none touches a
\* lock.
LEMMA SessionWriters ==
  ASSUME OwnerStep
  PROVE  /\ locked' = locked
         /\ \/ session' = session
            \/ \E s \in Session : RevokeSession(s)
            \/ \E o \in Owner, ttl \in SessionTTLs, n \in UseLimits :
                 CreateWrite(o, ttl, n)
            \/ \E o \in Owner : RenewWrite(o)
            \/ \E o \in Owner : handler[o].op = "sweep" /\ SweepSessions(handler[o].cut)
<1> USE DEF storeVars
<1>1. ASSUME NEW a \in Agent, AddAgent(a) \/ RevokeAgent(a)
      PROVE  session' = session /\ locked' = locked
  BY <1>1 DEF AddAgent, PutAgent, RevokeAgent, StoreRevokeAgent
<1>2. ASSUME NEW i \in Item, NEW uris \in SUBSET Url, PutItem(i, uris)
      PROVE  session' = session /\ locked' = locked
  BY <1>2 DEF PutItem, StorePutItem
<1>3. ASSUME NEW i \in Item, ArchiveItem(i)
      PROVE  session' = session /\ locked' = locked
  BY <1>3 DEF ArchiveItem, StoreArchiveItem
<1>4. ASSUME NEW s \in Session, RevokeSession(s) PROVE locked' = locked
  BY <1>4 DEF RevokeSession, StoreRevokeSession
<1>5. ASSUME NEW o \in Owner, NEW a \in Agent, NEW i \in Item,
             \/ \E level \in Levels, life \in GrantLives : GrantCheck(o, a, i, level, life)
             \/ \E life \in ApprovalLives : ApproveCheck(o, a, i, life)
      PROVE  session' = session /\ locked' = locked
  BY <1>5 DEF GrantCheck, ApproveCheck
<1>6. ASSUME NEW o \in Owner, NEW i \in Item,
             (\E uris \in SUBSET Url : UpdateRead(o, i, uris)) \/ DeleteCheck(o, i)
      PROVE  session' = session /\ locked' = locked
  BY <1>6 DEF UpdateRead, DeleteCheck
<1>7. ASSUME NEW o \in Owner, NEW s \in Session,
             (\E a \in Agent : CreateCheck(o, s, a)) \/ RenewRead(o, s)
      PROVE  session' = session /\ locked' = locked
  BY <1>7 DEF CreateCheck, RenewRead
<1>8. ASSUME NEW o \in Owner, NEW ttl \in SessionTTLs, NEW n \in UseLimits,
             CreateWrite(o, ttl, n)
      PROVE  locked' = locked
  BY <1>8 DEF CreateWrite, PutSession
<1>9. ASSUME NEW o \in Owner, NEW keep \in Keeps, SweepBegin(o, keep)
      PROVE  session' = session /\ locked' = locked
  BY <1>9 DEF SweepBegin
<1>10. ASSUME NEW o \in Owner, UpdateWrite(o) \/ GrantWrite(o) \/ ApproveWrite(o)
       PROVE  session' = session /\ locked' = locked
  BY <1>10 DEF UpdateWrite, GrantWrite, ApproveWrite, StorePutItem, StorePutGrant, PutApproval
<1>11. ASSUME NEW o \in Owner, DeleteGrants(o) \/ DeleteRow(o) \/ HandlerFails(o)
       PROVE  session' = session /\ locked' = locked
  BY <1>11 DEF DeleteGrants, DeleteRow, HandlerFails, DeleteItemGrants, DeleteItemRow
<1>12. ASSUME NEW o \in Owner, RenewWrite(o) PROVE locked' = locked
  BY <1>12 DEF RenewWrite, WriteExpiry
<1>13. ASSUME NEW o \in Owner, SweepStep(o)
       PROVE  /\ locked' = locked
              /\ \/ session' = session
                 \/ handler[o].op = "sweep" /\ SweepSessions(handler[o].cut)
  BY <1>13 DEF SweepStep, SweepSessions, SweepGrants, SweepApprovals
<1> QED
  BY <1>1, <1>2, <1>3, <1>4, <1>5, <1>6, <1>7, <1>8, <1>9, <1>10, <1>11, <1>12, <1>13
     DEF OwnerStep

\* An owner request that has read a lease or chosen the id of one keeps it
\* until it ends, and only CreateCheck and RenewRead begin such a request.
LEMMA HandlerWriters ==
  ASSUME TypeOK, OwnerStep
  PROVE  \/ /\ minted' = minted
            /\ \A q \in Owner : handler'[q].op \in {"create", "renew"} =>
                 handler'[q] = handler[q]
         \/ \E o \in Owner, s \in Session, a \in Agent : CreateCheck(o, s, a)
         \/ \E o \in Owner, s \in Session : RenewRead(o, s)
<1> DEFINE Kept == /\ minted' = minted
                   /\ \A q \in Owner : handler'[q].op \in {"create", "renew"} =>
                        handler'[q] = handler[q]
<1> USE DEF TypeOK, OwnerTypeOK, ownerVars
<1>1. ASSUME UNCHANGED ownerVars PROVE Kept
  BY <1>1
<1>2. ASSUME NEW o \in Owner, Finish(o) PROVE Kept
  BY <1>2 DEF Finish, Idle
<1>3. ASSUME NEW o \in Owner, NEW op, NEW h, Begin(o, op, h), minted' = minted,
             h.op \notin {"create", "renew"}
      PROVE  Kept
  BY <1>3 DEF Begin
<1>4. ASSUME NEW o \in Owner, NEW stage, Advance(o, stage),
             handler[o].op \in {"delete", "sweep"}
      PROVE  Kept
  <2>1. [handler[o] EXCEPT !.stage = stage].op = handler[o].op
    BY <1>4, HandlerKinds
  <2>2. handler'[o].op = handler[o].op
    BY <1>4, <2>1 DEF Advance
  <2> QED BY <1>4, <2>2 DEF Advance
<1>5. ASSUME NEW a \in Agent, AddAgent(a) \/ RevokeAgent(a) PROVE Kept
  BY <1>1, <1>5 DEF AddAgent, RevokeAgent
<1>6. ASSUME NEW i \in Item, (\E uris \in SUBSET Url : PutItem(i, uris)) \/ ArchiveItem(i)
      PROVE  Kept
  BY <1>1, <1>6 DEF PutItem, ArchiveItem
<1>7. ASSUME NEW s \in Session, RevokeSession(s) PROVE Kept
  BY <1>1, <1>7 DEF RevokeSession
<1>8. ASSUME NEW o \in Owner, NEW a \in Agent, NEW i \in Item, NEW level \in Levels,
             NEW life \in GrantLives, GrantCheck(o, a, i, level, life)
      PROVE  Kept
  BY <1>3, <1>8 DEF GrantCheck
<1>9. ASSUME NEW o \in Owner, NEW a \in Agent, NEW i \in Item,
             NEW life \in ApprovalLives, ApproveCheck(o, a, i, life)
      PROVE  Kept
  BY <1>3, <1>9 DEF ApproveCheck
<1>10. ASSUME NEW o \in Owner, NEW i \in Item, NEW uris \in SUBSET Url,
              UpdateRead(o, i, uris)
       PROVE  Kept
  BY <1>3, <1>10 DEF UpdateRead
<1>11. ASSUME NEW o \in Owner, NEW i \in Item, DeleteCheck(o, i) PROVE Kept
  BY <1>3, <1>11 DEF DeleteCheck
<1>12. ASSUME NEW o \in Owner, NEW keep \in Keeps, SweepBegin(o, keep) PROVE Kept
  BY <1>3, <1>12 DEF SweepBegin
<1>13. ASSUME NEW o \in Owner, UpdateWrite(o) \/ GrantWrite(o) \/ ApproveWrite(o)
                                \/ RenewWrite(o) \/ DeleteRow(o) \/ HandlerFails(o)
       PROVE  Kept
  BY <1>2, <1>13 DEF UpdateWrite, GrantWrite, ApproveWrite, RenewWrite, DeleteRow, HandlerFails
<1>14. ASSUME NEW o \in Owner, NEW ttl \in SessionTTLs, NEW n \in UseLimits,
              CreateWrite(o, ttl, n)
       PROVE  Kept
  BY <1>2, <1>14 DEF CreateWrite
<1>15. ASSUME NEW o \in Owner, DeleteGrants(o) \/ SweepStep(o) PROVE Kept
  BY <1>2, <1>4, <1>15 DEF DeleteGrants, SweepStep
<1> HIDE DEF Kept
<1>16. ASSUME ~ \E o \in Owner, s \in Session, a \in Agent : CreateCheck(o, s, a),
              ~ \E o \in Owner, s \in Session : RenewRead(o, s)
       PROVE  Kept
  BY <1>5, <1>6, <1>7, <1>8, <1>9, <1>10, <1>11, <1>12, <1>13, <1>14, <1>15, <1>16
     DEF OwnerStep
<1> QED BY <1>16 DEF Kept

-----------------------------------------------------------------------------
(* The invariant.                                                          *)

LEMMA InitInv == Init => Inv
<1> SUFFICES ASSUME Init PROVE Inv
  OBVIOUS
<1>1. TypeOK
  BY InitType
<1>2. CallsWellFormed
  BY DEF Init, BrokerInit, CallsWellFormed, WellFormed
<1>3. LocksHeld
  BY DEF Init, BrokerInit, LocksHeld
<1>4. FreshLeases
  <2>1. \A s \in Session : session[s] # Nil => s \in minted
    BY DEF Init
  <2>2. \A o \in Owner : handler[o].op = "idle"
    BY DEF Init, Idle
  <2>3. \A c \in Call : pc[c] = "idle"
    BY DEF Init, BrokerInit
  <2> QED BY <2>1, <2>2, <2>3 DEF FreshLeases
<1> QED BY <1>1, <1>2, <1>3, <1>4 DEF Inv

\* The owner's requests: they write no locked row, and a lease that a call or
\* a renewal knows is not the one that CreateSession is about to write.
LEMMA OwnerInv ==
  ASSUME Inv, OwnerStep, UNCHANGED brokerVars
  PROVE  Inv'
<1> USE DEF Inv, brokerVars
<1>1. TypeOK'
  BY OwnerTypes DEF TypeOK, BrokerTypeOK
<1>2. CallsWellFormed'
  BY DEF CallsWellFormed, WellFormed
<1>3. locked' = locked /\ locked \subseteq Session
  BY SessionWriters DEF TypeOK, StoreTypeOK
<1>4. \A s \in locked : session[s] # Nil
  BY DEF LocksHeld, LeaseUsable
<1>5. \A s \in locked : session'[s] = session[s]
  <2> SUFFICES ASSUME NEW t \in locked PROVE session'[t] = session[t]
    OBVIOUS
  <2> USE <1>3, <1>4 DEF TypeOK, StoreTypeOK
  <2>1. ASSUME NEW s \in Session, RevokeSession(s) PROVE session'[t] = session[t]
    BY <2>1 DEF RevokeSession, StoreRevokeSession
  <2>2. ASSUME NEW o \in Owner, NEW ttl \in SessionTTLs, NEW n \in UseLimits,
               CreateWrite(o, ttl, n)
        PROVE  session'[t] = session[t]
    BY <2>2 DEF CreateWrite, PutSession, FreshLeases
  <2>3. ASSUME NEW o \in Owner, RenewWrite(o) PROVE session'[t] = session[t]
    BY <2>3 DEF RenewWrite, WriteExpiry
  <2>4. ASSUME NEW o \in Owner, SweepSessions(handler[o].cut)
        PROVE  session'[t] = session[t]
    BY <2>4 DEF SweepSessions
  <2> QED BY <2>1, <2>2, <2>3, <2>4, SessionWriters
<1>6. LocksHeld'
  <2>1. \A c \in Call : pc[c] = "committing" => LeaseUsable(ctx[c].session, ctx[c].now)'
    BY <1>5 DEF LocksHeld, LeaseUsable
  <2> QED BY <1>3, <2>1 DEF LocksHeld
<1>7. \A s \in Session : session[s] = Nil /\ session'[s] # Nil =>
        \E o \in Owner : handler[o].op = "create" /\ handler[o].session = s
                         /\ handler' = [handler EXCEPT ![o] = Idle]
  <2> SUFFICES ASSUME NEW t \in Session, session[t] = Nil, session'[t] # Nil
               PROVE  \E o \in Owner : handler[o].op = "create" /\ handler[o].session = t
                                       /\ handler' = [handler EXCEPT ![o] = Idle]
    OBVIOUS
  <2> USE DEF TypeOK, StoreTypeOK
  <2>1. ASSUME NEW s \in Session, RevokeSession(s) PROVE FALSE
    BY <2>1 DEF RevokeSession, StoreRevokeSession
  <2>2. ASSUME NEW o \in Owner, NEW ttl \in SessionTTLs, NEW n \in UseLimits,
               CreateWrite(o, ttl, n)
        PROVE  handler[o].op = "create" /\ handler[o].session = t
               /\ handler' = [handler EXCEPT ![o] = Idle]
    BY <2>2 DEF CreateWrite, PutSession, Finish
  <2>3. ASSUME NEW o \in Owner, RenewWrite(o) PROVE FALSE
    BY <2>3 DEF RenewWrite, WriteExpiry
  <2>4. ASSUME NEW o \in Owner, SweepSessions(handler[o].cut) PROVE FALSE
    BY <2>4 DEF SweepSessions
  <2> QED BY <2>1, <2>2, <2>3, <2>4, SessionWriters
<1>8. FreshLeases'
  <2> USE DEF TypeOK, OwnerTypeOK, StoreTypeOK
  <2>1. CASE /\ minted' = minted
             /\ \A q \in Owner : handler'[q].op \in {"create", "renew"} =>
                  handler'[q] = handler[q]
    <3>1. \A s \in Session : session'[s] # Nil => s \in minted
      BY <1>7 DEF FreshLeases
    <3>2. ASSUME NEW o \in Owner, handler'[o].op = "create"
          PROVE  session'[handler'[o].session] = Nil
      <4>1. handler'[o] = handler[o] /\ handler[o].op = "create"
        BY <2>1, <3>2
      <4>2. handler[o].session \in Session
        BY <4>1, HandlerKinds
      <4>3. ASSUME NEW q \in Owner, handler[q].op = "create",
                   handler[q].session = handler[o].session,
                   handler' = [handler EXCEPT ![q] = Idle]
            PROVE  FALSE
        BY <3>2, <4>1, <4>3 DEF FreshLeases, Idle
      <4> QED BY <1>7, <4>1, <4>2, <4>3 DEF FreshLeases
    <3> QED BY <2>1, <3>1, <3>2 DEF FreshLeases
  <2>2. ASSUME NEW o \in Owner, NEW s \in Session, NEW a \in Agent, CreateCheck(o, s, a)
        PROVE  FreshLeases'
    <3>1. /\ session' = session /\ s \notin minted /\ minted' = minted \cup {s}
          /\ handler' = [handler EXCEPT ![o] = [op |-> "create", session |-> s, agent |-> a]]
      BY <2>2 DEF CreateCheck, Begin, storeVars
    <3>2. session[s] = Nil
      BY <3>1 DEF FreshLeases
    <3>3. /\ handler'[o].op = "create" /\ handler'[o].session = s
          /\ \A q \in Owner \ {o} : handler'[q] = handler[q]
      BY <3>1
    <3>4. \A q \in Owner : handler[q].op \in {"create", "renew"} => handler[q].session # s
      BY <3>1 DEF FreshLeases
    <3>5. \A c \in Call : pc[c] \notin {"idle", "admitted", "done"} => ctx[c].session # s
      <4>1. \A c \in Call : ctx[c].session = s => ctx[c].session # Nil
        BY StoreAssumption
      <4> QED BY <3>1, <4>1 DEF FreshLeases
    <3>6. /\ \A t \in Session : session'[t] # Nil => t \in minted'
          /\ \A q \in Owner : handler'[q].op \in {"create", "renew"} =>
               handler'[q].session \in minted'
          /\ \A c \in Call : pc[c] \notin {"idle", "admitted", "done"} /\ ctx[c].session # Nil
               => ctx[c].session \in minted'
      BY <3>1, <3>3 DEF FreshLeases
    <3> QED BY <3>1, <3>2, <3>3, <3>4, <3>5, <3>6 DEF FreshLeases
  <2>3. ASSUME NEW o \in Owner, NEW s \in Session, RenewRead(o, s) PROVE FreshLeases'
    <3>1. /\ session' = session /\ session[s] # Nil /\ minted' = minted
          /\ handler' = [handler EXCEPT ![o] = [op |-> "renew", session |-> s,
                                                expires |-> RenewedExpiry(session[s])]]
      BY <2>3 DEF RenewRead, Begin, storeVars
    <3> QED BY <3>1 DEF FreshLeases
  <2> QED BY <2>1, <2>2, <2>3, HandlerWriters
<1> QED BY <1>1, <1>2, <1>6, <1>8

\* What a step of a call does to the session rows and their locks.
LEMMA CallWrites ==
  ASSUME Inv, NEW c \in Call, CallStep(c)
  PROVE  \/ /\ session' = session /\ locked' = locked
            /\ pc[c] # "committing" /\ pc'[c] # "committing"
         \/ /\ pc[c] = "updating" /\ pc'[c] = "committing" /\ ctx' = ctx
            /\ LeaseUsable(ctx[c].session, ctx[c].now) /\ LockLease(ctx[c].session)
         \/ /\ pc[c] = "committing" /\ pc'[c] # "committing" /\ ctx' = ctx
            /\ RollbackConsume(ctx[c].session)
         \/ /\ \/ pc[c] = "committing"
               \/ pc[c] = "consume" /\ ~ ReadCommitted /\ Consumable(c)
            /\ pc'[c] \in {"release", "done"} /\ ctx' = ctx
            /\ CommitConsume(ctx[c].session, Row(c, "allow"))
<1> USE DEF Inv, TypeOK, BrokerTypeOK, Goto, Return, storeVars
<1>1. CASE ReadAuth(c)
  BY <1>1 DEF ReadAuth
<1>2. CASE Unauthorized(c) \/ Reload(c) \/ ReadFails(c)
  BY <1>2 DEF Unauthorized, Reload, ReadFails
<1>3. CASE AuditRefusal(c) \/ AuditAllow(c) \/ AuditFails(c)
  BY <1>3 DEF AuditRefusal, AuditAllow, AuditFails, AppendAudit
<1>4. CASE ConsumeSnapshot(c) \/ ConsumeRefused(c)
  BY <1>4 DEF ConsumeSnapshot, ConsumeRefused
<1>5. CASE ReadSecret(c) \/ SecretGone(c) \/ Fetch(c)
  BY <1>5 DEF ReadSecret, SecretGone, Fetch
<1>6. CASE ConsumeUpdate(c)
  BY <1>6 DEF ConsumeUpdate
<1>7. CASE Consume(c) \/ ConsumeCommit(c)
  BY <1>7 DEF Consume, ConsumeCommit
<1>8. CASE ConsumeFails(c)
  BY <1>8 DEF ConsumeFails
<1>9. CASE ConsumeUnacknowledged(c)
  BY <1>9 DEF ConsumeUnacknowledged
<1> QED
  BY <1>1, <1>2, <1>3, <1>4, <1>5, <1>6, <1>7, <1>8, <1>9 DEF CallStep, Progress, Failure

\* A call goes past ReadAuth only with a lease that is there, and then keeps it.
LEMMA CallKeepsLease ==
  ASSUME Inv, NEW c \in Call, CallStep(c), pc'[c] \notin {"idle", "admitted", "done"},
         ctx'[c].session # Nil
  PROVE  /\ ctx'[c].session = ctx[c].session
         /\ \/ session[ctx[c].session] # Nil
            \/ pc[c] \notin {"idle", "admitted", "done"}
<1> USE DEF Inv, TypeOK, BrokerTypeOK
<1>1. CASE ReadAuth(c)
  <2>1. ctx[c] \in Context
    BY <1>1 DEF ReadAuth, CallsWellFormed, WellFormed
  <2>2. ctx'[c] = [ctx[c] EXCEPT !.agent = Caller(c)]
    BY <1>1 DEF ReadAuth
  <2>3. ctx'[c].session = ctx[c].session
    BY <2>1, <2>2 DEF Context
  <2> QED BY <1>1, <2>3 DEF ReadAuth, LeaseUsable
<1> USE DEF Goto, Return
<1>2. CASE Reload(c) \/ AuditAllow(c) \/ ReadSecret(c) \/ ConsumeSnapshot(c) \/ ConsumeRefused(c)
  BY <1>2 DEF Reload, AuditAllow, ReadSecret, ConsumeSnapshot, ConsumeRefused
<1>3. CASE Consume(c) \/ ConsumeUpdate(c) \/ ConsumeCommit(c)
  BY <1>3 DEF Consume, ConsumeUpdate, ConsumeCommit
<1>4. CASE Unauthorized(c) \/ SecretGone(c) \/ Fetch(c) \/ AuditRefusal(c)
  BY <1>4 DEF Unauthorized, SecretGone, Fetch, AuditRefusal
<1>5. CASE AuditFails(c) \/ ConsumeFails(c) \/ ConsumeUnacknowledged(c) \/ ReadFails(c)
  BY <1>5 DEF AuditFails, ConsumeFails, ConsumeUnacknowledged, ReadFails
<1> QED BY <1>1, <1>2, <1>3, <1>4, <1>5 DEF CallStep, Progress, Failure

LEMMA CallInv ==
  ASSUME Inv, NEW c \in Call, CallStep(c), UNCHANGED ownerVars
  PROVE  Inv'
<1> USE DEF Inv
<1>1. TypeOK'
  BY CallTypes DEF TypeOK, OwnerTypeOK, ownerVars
<1>2. CallsWellFormed'
  BY CallsKept
<1>3. \A d \in Call \ {c} : pc'[d] = pc[d] /\ ctx'[d] = ctx[d]
  BY OtherCalls
<1>4. LocksHeld'
  <2> USE DEF TypeOK, StoreTypeOK
  <2>1. CASE /\ session' = session /\ locked' = locked
             /\ pc[c] # "committing" /\ pc'[c] # "committing"
    BY <1>3, <2>1 DEF LocksHeld, LeaseUsable
  <2>2. CASE /\ pc[c] = "updating" /\ pc'[c] = "committing" /\ ctx' = ctx
             /\ LeaseUsable(ctx[c].session, ctx[c].now) /\ LockLease(ctx[c].session)
    <3>1. /\ session' = session /\ ctx[c].session \notin locked
          /\ locked' = locked \cup {ctx[c].session}
      BY <2>2 DEF LockLease
    <3>2. \A d \in Call : ctx'[d] = ctx[d]
                          /\ (pc'[d] = "committing" <=> d = c \/ pc[d] = "committing")
      BY <1>3, <2>2
    <3>3. \A d \in Call : LeaseUsable(ctx[d].session, ctx[d].now)
                            = LeaseUsable(ctx[d].session, ctx[d].now)'
      BY <3>1, <3>2 DEF LeaseUsable
    <3>4. \A d \in Call : pc[d] = "committing" => ctx[d].session # ctx[c].session
      BY <3>1 DEF LocksHeld
    <3> QED BY <2>2, <3>1, <3>2, <3>3, <3>4 DEF LocksHeld
  <2>3. CASE /\ pc[c] = "committing" /\ pc'[c] # "committing" /\ ctx' = ctx
             /\ RollbackConsume(ctx[c].session)
    BY <1>3, <2>3 DEF LocksHeld, LeaseUsable, RollbackConsume
  <2>4. CASE /\ \/ pc[c] = "committing"
                \/ pc[c] = "consume" /\ ~ ReadCommitted /\ Consumable(c)
             /\ pc'[c] \in {"release", "done"} /\ ctx' = ctx
             /\ CommitConsume(ctx[c].session, Row(c, "allow"))
    <3> DEFINE s == ctx[c].session
    <3>1. /\ session' = [session EXCEPT ![s].uses = @ + 1] /\ locked' = locked \ {s}
      BY <2>4 DEF CommitConsume
    <3>2. \A d \in Call \ {c} : pc[d] = "committing" => ctx[d].session # s
      BY <2>4 DEF LocksHeld, CallsWellFormed, WellFormed
    <3>3. ASSUME NEW d \in Call, pc'[d] = "committing"
          PROVE  /\ ctx'[d].session \in locked'
                 /\ LeaseUsable(ctx[d].session, ctx[d].now)'
      <4>1. d # c /\ pc[d] = "committing" /\ ctx'[d] = ctx[d]
        BY <1>3, <2>4, <3>3
      <4>2. ctx[d].session # s /\ ctx[d].session \in locked
        BY <3>2, <4>1 DEF LocksHeld
      <4>3. session'[ctx[d].session] = session[ctx[d].session]
        BY <3>1, <4>2
      <4> QED BY <3>1, <4>1, <4>2, <4>3 DEF LocksHeld, LeaseUsable
    <3>4. ASSUME NEW t \in locked'
          PROVE  \E d \in Call : pc'[d] = "committing" /\ ctx'[d].session = t
      BY <1>3, <3>1, <3>4 DEF LocksHeld
    <3>5. \A d, e \in Call : pc'[d] = "committing" /\ pc'[e] = "committing"
            /\ ctx'[d].session = ctx'[e].session => d = e
      BY <1>3, <2>4 DEF LocksHeld
    <3> QED BY <3>3, <3>4, <3>5 DEF LocksHeld
  <2> QED BY <2>1, <2>2, <2>3, <2>4, CallWrites
<1>5. FreshLeases'
  <2>1. \A s \in Session : session'[s] # Nil <=> session[s] # Nil
    <3> USE DEF TypeOK, StoreTypeOK
    <3>1. CASE session' = session
      BY <3>1
    <3>2. CASE /\ \/ pc[c] = "committing"
                  \/ pc[c] = "consume" /\ ~ ReadCommitted /\ Consumable(c)
               /\ CommitConsume(ctx[c].session, Row(c, "allow"))
      <4>1. session[ctx[c].session] # Nil
        BY <3>2 DEF Consumable, LocksHeld, LeaseUsable
      <4>2. \A t \in Session : session[t] # Nil =>
              [session[t] EXCEPT !.uses = @ + 1] \in Lease
        BY DEF Lease
      <4> QED BY <3>2, <4>1, <4>2, NilAssumption DEF CommitConsume
    <3> QED BY <3>1, <3>2, CallWrites DEF LockLease, RollbackConsume
  <2>2. UNCHANGED <<handler, minted>>
    BY DEF ownerVars
  <2>3. \A o \in Owner : handler[o].op \in {"create", "renew"} => handler[o].session \in Session
    BY HandlerKinds DEF TypeOK, OwnerTypeOK
  <2>4. ASSUME NEW d \in Call, pc'[d] \notin {"idle", "admitted", "done"}
        PROVE  /\ ctx'[d].session # Nil => ctx'[d].session \in minted
               /\ \A o \in Owner : handler[o].op = "create" =>
                    ctx'[d].session # handler[o].session
    <3>1. CASE d # c
      BY <1>3, <2>4, <3>1 DEF FreshLeases
    <3>2. CASE d = c /\ ctx'[c].session = Nil
      BY <2>3, <3>2, StoreAssumption
    <3>3. CASE d = c /\ ctx'[c].session # Nil
      <4>1. ctx'[c] \in Context /\ ctx'[c].session = ctx[c].session
        BY <1>1, <1>2, <2>4, <3>3, CallKeepsLease
           DEF TypeOK, BrokerTypeOK, CallsWellFormed, WellFormed
      <4>2. ctx[c].session \in Session
        BY <3>3, <4>1 DEF Context
      <4> QED BY <2>4, <3>3, <4>2, CallKeepsLease DEF FreshLeases
    <3> QED BY <3>1, <3>2, <3>3
  <2> QED BY <2>1, <2>2, <2>3, <2>4 DEF FreshLeases
<1> QED BY <1>1, <1>2, <1>4, <1>5

\* A call that begins knows what it was asked, and touches nothing else.
LEMMA StartInv ==
  ASSUME Inv, NEW c \in Call, StartAgent(c) \/ StartSession(c), UNCHANGED ownerVars
  PROVE  Inv'
<1> USE DEF Inv, TypeOK
<1>1. PICK s \in Session \cup {Nil}, a \in Agent \cup {Nil}, i \in Item, url \in Url,
           action \in ActionKind :
        Start(c, s, a, i, url, action) /\ (s = Nil => a \in Agent)
  BY BrokerAssumption, StoreAssumption DEF StartAgent, StartSession
<1> DEFINE x == [session |-> s, agent |-> a, item |-> i, url |-> url,
                 action |-> action, now |-> clock]
<1>2. x \in Context /\ x # Nil
  <2>1. x \in Context
    BY DEF Context, StoreTypeOK
  <2> QED BY <2>1, ContextAssumption
<1>3. /\ ctx' = [ctx EXCEPT ![c] = x] /\ UNCHANGED <<storeVars, sent>>
      /\ pc[c] = "idle" /\ \A d \in Call \ {c} : pc'[d] = pc[d] /\ outcome'[d] = outcome[d]
      /\ sent' = sent /\ pc' \in [Call -> Stage] /\ pc'[c] \in {"admitted", "done"}
      /\ slots' \in Int /\ outcome' \in [Call -> Outcome]
  BY <1>1 DEF Start, BrokerTypeOK, Stage, Outcome
<1>4. \A d \in Call \ {c} : ctx'[d] = ctx[d]
  BY <1>3 DEF BrokerTypeOK
<1>5. ctx'[c] = x
  BY <1>3 DEF BrokerTypeOK
<1>6. TypeOK'
  <2>1. BrokerTypeOK'
    BY <1>2, <1>3 DEF BrokerTypeOK
  <2>2. StoreTypeOK'
    BY <1>3 DEF StoreTypeOK, storeVars
  <2>3. OwnerTypeOK'
    BY DEF OwnerTypeOK, ownerVars
  <2> QED BY <2>1, <2>2, <2>3
<1>7. CallsWellFormed'
  <2>1. c \notin sent
    BY <1>3 DEF CallsWellFormed, WellFormed
  <2>2. WellFormed(c)'
    BY <1>1, <1>2, <1>3, <1>5, <2>1 DEF WellFormed
  <2>3. ASSUME NEW d \in Call, d # c PROVE WellFormed(d)'
    BY <1>3, <1>4, <2>3 DEF CallsWellFormed, WellFormed
  <2> QED BY <2>2, <2>3 DEF CallsWellFormed
<1>8. LocksHeld'
  BY <1>3, <1>4 DEF LocksHeld, LeaseUsable, storeVars
<1>9. FreshLeases'
  BY <1>3, <1>4 DEF FreshLeases, storeVars, ownerVars
<1> QED BY <1>6, <1>7, <1>8, <1>9

\* The clock.
LEMMA TickInv ==
  ASSUME Inv, Tick, UNCHANGED <<ownerVars, brokerVars>>
  PROVE  Inv'
<1> USE DEF Inv, Tick, ownerVars, brokerVars
<1>1. TypeOK'
  <2>1. clock' \in Time
    BY StoreAssumption DEF Time, TypeOK, StoreTypeOK
  <2> QED BY <2>1 DEF TypeOK, StoreTypeOK, OwnerTypeOK, BrokerTypeOK
<1>2. CallsWellFormed' /\ LocksHeld' /\ FreshLeases'
  BY DEF CallsWellFormed, WellFormed, LocksHeld, LeaseUsable, FreshLeases
<1> QED BY <1>1, <1>2

\* A crash ends every call and every request, and no lock outlives it.
LEMMA CrashInv ==
  ASSUME Inv, Crash
  PROVE  Inv'
<1> USE DEF Inv, Crash, BrokerCrash
<1>1. \A c \in Call : pc'[c] \in {"idle", "done"} /\ (pc'[c] = "idle" => pc[c] = "idle")
  BY DEF Running
<1>2. TypeOK'
  <2>1. pc' \in [Call -> Stage] /\ outcome' \in [Call -> Outcome]
    BY DEF Outcome, Stage, TypeOK, BrokerTypeOK
  <2>2. Idle \in HandlerState
    BY DEF HandlerState
  <2> QED BY <2>1, <2>2 DEF TypeOK, StoreTypeOK, OwnerTypeOK, BrokerTypeOK
<1>3. CallsWellFormed'
  BY <1>1 DEF CallsWellFormed, WellFormed, Running
<1>4. LocksHeld'
  BY <1>1 DEF LocksHeld
<1>5. FreshLeases'
  BY <1>1 DEF FreshLeases, Idle
<1> QED BY <1>2, <1>3, <1>4, <1>5

LEMMA NextInv == Inv /\ [Next]_vars => Inv'
<1> SUFFICES ASSUME Inv, [Next]_vars PROVE Inv'
  OBVIOUS
<1>1. CASE OwnerStep /\ UNCHANGED brokerVars
  BY <1>1, OwnerInv
<1>2. CASE BrokerStep /\ UNCHANGED ownerVars
  BY <1>2, CallInv, StartInv DEF BrokerStep
<1>3. CASE Tick /\ UNCHANGED <<ownerVars, brokerVars>>
  BY <1>3, TickInv
<1>4. CASE Crash
  BY <1>4, CrashInv
<1>5. CASE UNCHANGED vars
  BY <1>5 DEF vars, storeVars, ownerVars, brokerVars, Inv, TypeOK, StoreTypeOK, OwnerTypeOK,
     BrokerTypeOK, CallsWellFormed, WellFormed, LocksHeld, LeaseUsable, FreshLeases
<1> QED BY <1>1, <1>2, <1>3, <1>4, <1>5 DEF Next

\* Every reachable state is well typed, every call in progress has the shape
\* its stage promises, a session row is locked by one transaction that still
\* finds its lease usable, and no lease id is written twice: the discipline of
\* consumeSession, CreateSession and useAuthorized under any interleaving.
THEOREM InvHolds == Spec => []Inv
<1>1. Init => Inv
  BY InitInv
<1>2. Inv /\ [Next]_vars => Inv'
  BY NextInv
<1> QED BY <1>1, <1>2, PTL DEF Spec


-----------------------------------------------------------------------------
(* Every use is audited before the secret is released.                     *)

\* Rows are only ever appended.
LEMMA AuditGrows ==
  ASSUME [Next]_vars
  PROVE  audit \subseteq audit'
<1> USE DEF storeVars
<1>1. ASSUME OwnerStep PROVE audit \subseteq audit'
  BY <1>1, OwnerAudit
<1>2. ASSUME NEW c \in Call, CallStep(c) PROVE audit \subseteq audit'
  <2>1. CASE ReadAuth(c) \/ Unauthorized(c) \/ Reload(c) \/ ReadFails(c) \/ ReadSecret(c)
             \/ SecretGone(c) \/ Fetch(c)
    BY <2>1 DEF ReadAuth, Unauthorized, Reload, ReadFails, ReadSecret, SecretGone, Fetch
  <2>2. CASE AuditRefusal(c) \/ AuditAllow(c) \/ AuditFails(c)
    BY <2>2 DEF AuditRefusal, AuditAllow, AuditFails, AppendAudit
  <2>3. CASE Consume(c) \/ ConsumeSnapshot(c) \/ ConsumeUpdate(c) \/ ConsumeCommit(c)
    BY <2>3 DEF Consume, ConsumeSnapshot, ConsumeUpdate, ConsumeCommit, CommitConsume, LockLease
  <2>4. CASE ConsumeRefused(c) \/ ConsumeFails(c) \/ ConsumeUnacknowledged(c)
    BY <2>4 DEF ConsumeRefused, ConsumeFails, ConsumeUnacknowledged, CommitConsume, RollbackConsume
  <2> QED BY <1>2, <2>1, <2>2, <2>3, <2>4 DEF CallStep, Progress, Failure
<1>3. ASSUME NEW c \in Call, StartAgent(c) \/ StartSession(c) PROVE audit' = audit
  BY <1>3 DEF StartAgent, StartSession, Start
<1>4. ASSUME Tick \/ Crash \/ UNCHANGED vars PROVE audit' = audit
  BY <1>4 DEF Tick, Crash, BrokerCrash, vars
<1> QED BY <1>1, <1>2, <1>3, <1>4 DEF Next, BrokerStep

\* The stages that follow the authorization, and the request itself.
Released(c) == c \in sent \/ pc[c] \in {"release", "fetch"}

\* The step that releases a call appends its row, and no later step of the
\* call changes what the row says.
LEMMA ReleaseIsAudited ==
  ASSUME Inv, NEW c \in Call, CallStep(c), Released(c)'
  PROVE  \/ Released(c) /\ Row(c, "allow")' = Row(c, "allow")
         \/ Row(c, "allow")' \in audit'
<1> USE DEF Inv, TypeOK, BrokerTypeOK, Released, Goto, Return
<1>0. Row(c, "allow")' = Row(c, "allow") \/ ctx'[c] # ctx[c]
  BY DEF Row
<1>1. WellFormed(c)
  BY DEF CallsWellFormed
<1>2. CASE ReadAuth(c)
  BY <1>1, <1>2 DEF ReadAuth, WellFormed
<1>3. CASE Unauthorized(c) \/ Reload(c) \/ ReadFails(c) \/ SecretGone(c)
  BY <1>0, <1>1, <1>3 DEF Unauthorized, Reload, ReadFails, SecretGone, WellFormed
<1>4. CASE AuditRefusal(c) \/ AuditFails(c)
  BY <1>0, <1>1, <1>4 DEF AuditRefusal, AuditFails, WellFormed
<1>5. CASE AuditAllow(c)
  BY <1>0, <1>5 DEF AuditAllow, AppendAudit
<1>6. CASE Consume(c) \/ ConsumeCommit(c)
  BY <1>0, <1>6 DEF Consume, ConsumeCommit, CommitConsume
<1>7. CASE ConsumeSnapshot(c) \/ ConsumeUpdate(c) \/ ConsumeRefused(c)
  BY <1>0, <1>1, <1>7 DEF ConsumeSnapshot, ConsumeUpdate, ConsumeRefused, WellFormed
<1>8. CASE ConsumeFails(c) \/ ConsumeUnacknowledged(c)
  BY <1>0, <1>1, <1>8 DEF ConsumeFails, ConsumeUnacknowledged, WellFormed
<1>9. CASE ReadSecret(c) \/ Fetch(c)
  BY <1>0, <1>9 DEF ReadSecret, Fetch
<1> QED
  BY <1>2, <1>3, <1>4, <1>5, <1>6, <1>7, <1>8, <1>9 DEF CallStep, Progress, Failure

\* No credential leaves the origin unaudited (broker.go): in every state of
\* every execution the allow row of a call is in the table before its secret
\* is read, whatever fails, crashes or is revoked in between.
THEOREM AuditedHolds == Spec => []AuditedBeforeRelease
<1>1. Init => AuditedBeforeRelease
  BY DEF Init, BrokerInit, AuditedBeforeRelease
<1>2. ASSUME Inv, AuditedBeforeRelease, [Next]_vars PROVE AuditedBeforeRelease'
  <2> SUFFICES ASSUME NEW c \in Call, Released(c)'
               PROVE  Row(c, "allow")' \in audit'
    BY DEF AuditedBeforeRelease, Released
  <2>1. Released(c) /\ ctx'[c] = ctx[c] => Row(c, "allow")' \in audit'
    BY <1>2, AuditGrows DEF AuditedBeforeRelease, Released, Row
  <2>2. CASE UNCHANGED <<pc, sent, ctx>>
    BY <2>1, <2>2 DEF Released
  <2>3. CASE CallStep(c)
    <3>1. Released(c) => Row(c, "allow") \in audit'
      BY <1>2, AuditGrows DEF AuditedBeforeRelease, Released
    <3> QED BY <1>2, <2>3, <3>1, ReleaseIsAudited
  <2>4. ASSUME NEW d \in Call, d # c, CallStep(d) PROVE Row(c, "allow")' \in audit'
    BY <1>2, <2>1, <2>4, OtherCalls DEF Inv, Released
  <2>5. ASSUME NEW d \in Call, StartAgent(d) \/ StartSession(d)
        PROVE  Row(c, "allow")' \in audit'
    <3>1. PICK x : /\ ctx' = [ctx EXCEPT ![d] = x] /\ pc[d] = "idle" /\ sent' = sent
                   /\ pc' = [pc EXCEPT ![d] = "admitted"] \/ pc' = [pc EXCEPT ![d] = "done"]
      BY <2>5 DEF StartAgent, StartSession, Start
    <3>2. d \notin sent
      BY <1>2, <3>1 DEF Inv, CallsWellFormed, WellFormed
    <3> QED BY <1>2, <2>1, <3>1, <3>2 DEF Inv, TypeOK, BrokerTypeOK, Released
  <2>6. CASE Crash
    BY <1>2, <2>1, <2>6 DEF Crash, BrokerCrash, Running, Released, Inv, TypeOK, BrokerTypeOK
  <2> QED BY <1>2, <2>2, <2>3, <2>4, <2>5, <2>6 DEF Next, BrokerStep, vars, brokerVars
<1> QED BY <1>1, <1>2, InvHolds, PTL DEF Spec

-----------------------------------------------------------------------------
(* The semaphore.                                                          *)

InProgress == {c \in Call : Running(c)}

\* A step of a call keeps its slot or gives it back as the call ends.
LEMMA CallSlots ==
  ASSUME Inv, NEW c \in Call, CallStep(c)
  PROVE  /\ pc[c] \notin {"idle", "done"}
         /\ \/ pc'[c] \notin {"idle", "done"} /\ slots' = slots
            \/ pc'[c] = "done" /\ slots' = slots - 1
<1> USE DEF Inv, TypeOK, BrokerTypeOK, Goto, Return
<1>1. CASE ReadAuth(c) \/ Unauthorized(c) \/ Reload(c) \/ ReadFails(c)
  BY <1>1 DEF ReadAuth, Unauthorized, Reload, ReadFails
<1>2. CASE AuditRefusal(c) \/ AuditAllow(c) \/ AuditFails(c)
  BY <1>2 DEF AuditRefusal, AuditAllow, AuditFails
<1>3. CASE Consume(c) \/ ConsumeSnapshot(c) \/ ConsumeUpdate(c) \/ ConsumeCommit(c)
  BY <1>3 DEF Consume, ConsumeSnapshot, ConsumeUpdate, ConsumeCommit
<1>4. CASE ConsumeRefused(c) \/ ConsumeFails(c) \/ ConsumeUnacknowledged(c)
  BY <1>4 DEF ConsumeRefused, ConsumeFails, ConsumeUnacknowledged
<1>5. CASE ReadSecret(c) \/ SecretGone(c) \/ Fetch(c)
  BY <1>5 DEF ReadSecret, SecretGone, Fetch
<1> QED BY <1>1, <1>2, <1>3, <1>4, <1>5 DEF CallStep, Progress, Failure

\* useLimit holds exactly the calls in progress and never more than its weight
\* (broker.go: TryAcquire and the deferred Release), on every way out.
THEOREM SlotsHold == Spec => []SlotsBalance
<1>1. ASSUME Init PROVE SlotsBalance
  <2>1. {c \in Call : Running(c)} = {}
    BY <1>1 DEF Init, BrokerInit, Running
  <2>2. slots = 0
    BY <1>1 DEF Init, BrokerInit
  <2> QED BY <2>1, <2>2, FS_EmptySet, BrokerAssumption DEF SlotsBalance
<1>2. ASSUME Inv, SlotsBalance, [Next]_vars PROVE SlotsBalance'
  <2> USE DEF InProgress
  <2>0. /\ IsFiniteSet(InProgress) /\ slots = Cardinality(InProgress)
        /\ slots <= InFlight /\ slots \in Int /\ InFlight \in Nat
    BY <1>2, BrokerAssumption, FS_Subset DEF SlotsBalance, Inv, TypeOK, BrokerTypeOK
  <2>1. SUFFICES slots' = Cardinality(InProgress') /\ slots' <= InFlight
    BY DEF SlotsBalance
  <2>2. CASE UNCHANGED <<pc, slots>>
    <3>1. InProgress' = InProgress
      BY <2>2 DEF Running
    <3> QED BY <2>0, <2>2, <3>1
  <2>3. ASSUME NEW c \in Call, CallStep(c) PROVE slots' = Cardinality(InProgress') /\ slots' <= InFlight
    <3>1. \A d \in Call \ {c} : pc'[d] = pc[d]
      BY <1>2, <2>3, OtherCalls DEF Inv
    <3>2. c \in InProgress
      BY <1>2, <2>3, CallSlots DEF Running
    <3>3. CASE pc'[c] \notin {"idle", "done"} /\ slots' = slots
      <4>1. InProgress' = InProgress
        BY <3>1, <3>2, <3>3 DEF Running
      <4> QED BY <2>0, <3>3, <4>1
    <3>4. CASE pc'[c] = "done" /\ slots' = slots - 1
      <4>1. InProgress' = InProgress \ {c}
        BY <3>1, <3>2, <3>4 DEF Running
      <4>2. Cardinality(InProgress \ {c}) = Cardinality(InProgress) - 1
        BY <2>0, <3>2, FS_RemoveElement
      <4> QED BY <2>0, <3>4, <4>1, <4>2
    <3> QED BY <1>2, <2>3, <3>3, <3>4, CallSlots
  <2>4. ASSUME NEW c \in Call, StartAgent(c) \/ StartSession(c)
        PROVE  slots' = Cardinality(InProgress') /\ slots' <= InFlight
    <3>1. /\ pc[c] = "idle" /\ \A d \in Call \ {c} : pc'[d] = pc[d]
          /\ \/ slots < InFlight /\ pc'[c] = "admitted" /\ slots' = slots + 1
             \/ pc'[c] = "done" /\ slots' = slots
      BY <1>2, <2>4 DEF StartAgent, StartSession, Start, Inv, TypeOK, BrokerTypeOK
    <3>2. c \notin InProgress
      BY <3>1 DEF Running
    <3>3. CASE slots < InFlight /\ pc'[c] = "admitted" /\ slots' = slots + 1
      <4>1. InProgress' = InProgress \cup {c}
        BY <3>1, <3>2, <3>3 DEF Running
      <4>2. Cardinality(InProgress \cup {c}) = Cardinality(InProgress) + 1
        BY <2>0, <3>2, FS_AddElement
      <4> QED BY <2>0, <3>3, <4>1, <4>2
    <3>4. CASE pc'[c] = "done" /\ slots' = slots
      <4>1. InProgress' = InProgress
        BY <3>1, <3>2, <3>4 DEF Running
      <4> QED BY <2>0, <3>4, <4>1
    <3> QED BY <3>1, <3>3, <3>4
  <2>5. CASE Crash
    <3>1. slots' = 0
      BY <2>5 DEF Crash, BrokerCrash
    <3>2. \A c \in Call : pc'[c] \in {"idle", "done"}
      BY <2>5 DEF Crash, BrokerCrash, Running
    <3>3. InProgress' = {}
      BY <3>2 DEF Running
    <3> QED BY <2>0, <3>1, <3>3, FS_EmptySet
  <2> QED BY <1>2, <2>2, <2>3, <2>4, <2>5 DEF Next, BrokerStep, vars, brokerVars
<1> QED BY <1>1, <1>2, InvHolds, PTL DEF Spec

-----------------------------------------------------------------------------
(* Leases.                                                                 *)

\* A step that is not the owner's changes nothing of a session row but its
\* uses, and neither adds nor removes one.
LEMMA CallsKeepRows ==
  ASSUME Inv, [Next]_vars, ~ OwnerStep, NEW s \in Session
  PROVE  /\ session'[s] = Nil <=> session[s] = Nil
         /\ session[s] # Nil => \E n \in Nat : session'[s] = [session[s] EXCEPT !.uses = n]
<1> USE DEF Inv, TypeOK, StoreTypeOK
<1>0. session[s] # Nil => session[s] \in Lease /\ session[s].uses \in Nat
  BY DEF Lease
<1>1. CASE session' = session
  <2>1. session[s] # Nil => session[s] = [session[s] EXCEPT !.uses = session[s].uses]
    BY <1>0 DEF Lease
  <2> QED BY <1>0, <1>1, <2>1
<1>2. ASSUME NEW c \in Call, CommitConsume(ctx[c].session, Row(c, "allow")),
             session[ctx[c].session] # Nil
      PROVE  /\ session'[s] = Nil <=> session[s] = Nil
             /\ session[s] # Nil => \E n \in Nat : session'[s] = [session[s] EXCEPT !.uses = n]
  <2>1. CASE s = ctx[c].session
    <3>1. session'[s] = [session[s] EXCEPT !.uses = session[s].uses + 1]
      BY <1>2, <2>1 DEF CommitConsume
    <3>2. session[s].uses + 1 \in Nat
      BY <1>0, <1>2, <2>1
    <3>3. [session[s] EXCEPT !.uses = session[s].uses + 1] \in Lease
      BY <1>0, <1>2, <2>1 DEF Lease
    <3> QED BY <1>2, <2>1, <3>1, <3>2, <3>3, NilAssumption
  <2>2. CASE s # ctx[c].session
    <3>1. session'[s] = session[s]
      BY <1>2, <2>2 DEF CommitConsume
    <3>2. session[s] # Nil => session[s] = [session[s] EXCEPT !.uses = session[s].uses]
      BY <1>0 DEF Lease
    <3> QED BY <1>0, <3>1, <3>2
  <2> QED BY <2>1, <2>2
<1>3. ASSUME NEW c \in Call, CallStep(c)
      PROVE  \/ session' = session
             \/ CommitConsume(ctx[c].session, Row(c, "allow")) /\ session[ctx[c].session] # Nil
  BY <1>3, CallWrites DEF LockLease, RollbackConsume, Consumable, LocksHeld, LeaseUsable
<1>4. ASSUME NEW c \in Call, StartAgent(c) \/ StartSession(c) PROVE session' = session
  BY <1>4 DEF StartAgent, StartSession, Start, storeVars
<1>5. ASSUME Tick \/ Crash \/ UNCHANGED vars PROVE session' = session
  BY <1>5 DEF Tick, Crash, BrokerCrash, vars, storeVars
<1> QED BY <1>1, <1>2, <1>3, <1>4, <1>5 DEF Next, BrokerStep

\* However a lease is renewed its expiry never passes the cap of
\* RenewSession (session.go: created + SessionTTLMax), not even when the
\* renewal writes an expiry it computed before others did.
THEOREM LeaseCapHolds == Spec => []LeaseIsCapped
<1>1. ASSUME Init PROVE LeaseIsCapped
  <2>1. \A s \in Session : session[s] # Nil => session[s].expires <= session[s].created + MaxTTL
    <3>1. ASSUME NEW s \in Session, session[s] # Nil
          PROVE  session[s].expires <= session[s].created + MaxTTL
      <4>1. session[s] \in HandedOut
        BY <1>1, <3>1 DEF Init
      <4>2. PICK a \in Agent, ttl \in SessionTTLs, n \in UseLimits :
              session[s] = NewLease(a, ttl, n)
        BY <4>1 DEF HandedOut
      <4>3. ttl \in 1 .. MaxTTL
        BY OwnerAssumption
      <4> QED BY <4>2, <4>3, StoreAssumption DEF NewLease
    <3> QED BY <3>1
  <2>2. \A o \in Owner : handler[o].op = "idle"
    BY <1>1 DEF Init, Idle
  <2> QED BY <2>1, <2>2 DEF LeaseIsCapped
<1>2. ASSUME Inv, LeaseIsCapped, [Next]_vars PROVE LeaseIsCapped'
  <2> USE DEF Inv, TypeOK, StoreTypeOK, OwnerTypeOK
  <2> DEFINE Capped(x, s) == session[s] # Nil => x <= session[s].created + MaxTTL
  <2>1. CASE ~ OwnerStep
    <3>1. \A s \in Session : session'[s] # Nil =>
            /\ session[s] # Nil /\ session'[s].created = session[s].created
            /\ session'[s].expires = session[s].expires
      <4>1. ASSUME NEW s \in Session, session'[s] # Nil
            PROVE  /\ session[s] # Nil /\ session'[s].created = session[s].created
                   /\ session'[s].expires = session[s].expires
        <5>1. session[s] # Nil /\ session[s] \in Lease
          BY <1>2, <2>1, <4>1, CallsKeepRows
        <5>2. PICK n \in Nat : session'[s] = [session[s] EXCEPT !.uses = n]
          BY <1>2, <2>1, <5>1, CallsKeepRows
        <5> QED BY <5>1, <5>2 DEF Lease
      <4> QED BY <4>1
    <3>2. handler' = handler \/ \A o \in Owner : handler'[o].op = "idle"
      BY <1>2, <2>1 DEF Next, ownerVars, vars, Crash, Idle
    <3>3. \A o \in Owner : handler[o].op = "renew" => handler[o].session \in Session
      BY <1>2, HandlerKinds
    <3> QED BY <1>2, <3>1, <3>2, <3>3 DEF LeaseIsCapped
  <2>2. CASE OwnerStep
    <3>1. ASSUME NEW s \in Session, session'[s] # Nil
          PROVE  /\ session'[s].expires <= session'[s].created + MaxTTL
                 /\ \/ session[s] # Nil /\ session'[s].created = session[s].created
                    \/ \E o \in Owner : handler[o].op = "create" /\ handler[o].session = s
      <4>0. session[s] # Nil => session[s] \in Lease
        BY <1>2
      <4>1. CASE session' = session
        BY <1>2, <3>1, <4>1 DEF LeaseIsCapped
      <4>2. ASSUME NEW t \in Session, RevokeSession(t)
            PROVE  /\ session[s] # Nil /\ session'[s].created = session[s].created
                   /\ session'[s].expires = session[s].expires
        BY <3>1, <4>0, <4>2 DEF RevokeSession, StoreRevokeSession, Lease
      <4>3. ASSUME NEW o \in Owner, NEW ttl \in SessionTTLs, NEW n \in UseLimits,
                   CreateWrite(o, ttl, n)
            PROVE  \/ session'[s] = session[s]
                   \/ /\ handler[o].op = "create" /\ handler[o].session = s
                      /\ session'[s].expires <= session'[s].created + MaxTTL
        <5>1. ttl \in 1 .. MaxTTL /\ clock \in Int
          BY <1>2, OwnerAssumption, StoreAssumption DEF Time
        <5> QED BY <4>3, <5>1, StoreAssumption DEF CreateWrite, PutSession
      <4>4. ASSUME NEW o \in Owner, RenewWrite(o)
            PROVE  /\ session[s] # Nil /\ session'[s].created = session[s].created
                   /\ \/ session'[s].expires = session[s].expires
                      \/ session'[s].expires <= session[s].created + MaxTTL
        BY <1>2, <3>1, <4>0, <4>4 DEF RenewWrite, WriteExpiry, Lease, LeaseIsCapped
      <4>5. ASSUME NEW o \in Owner, SweepSessions(handler[o].cut)
            PROVE  session'[s] = session[s]
        BY <3>1, <4>5 DEF SweepSessions
      <4> QED BY <1>2, <2>2, <3>1, <4>1, <4>2, <4>3, <4>4, <4>5, SessionWriters DEF LeaseIsCapped
    <3>2. ASSUME NEW o \in Owner, handler'[o].op = "renew", session'[handler'[o].session] # Nil
          PROVE  handler'[o].expires <= session'[handler'[o].session].created + MaxTTL
      <4>1. CASE handler'[o] = handler[o]
        <5>1. handler[o].session \in Session /\ handler[o].op = "renew"
          BY <1>2, <3>2, <4>1, HandlerKinds
        <5> QED BY <1>2, <3>1, <3>2, <4>1, <5>1 DEF LeaseIsCapped, FreshLeases
      <4>2. ASSUME NEW q \in Owner, NEW s \in Session, RenewRead(q, s), o = q
            PROVE  handler'[o].expires <= session'[handler'[o].session].created + MaxTTL
        <5>1. /\ session' = session /\ session[s] \in Lease /\ handler'[o].session = s
              /\ handler'[o].expires = RenewedExpiry(session[s])
          BY <1>2, <4>2 DEF RenewRead, Begin, storeVars
        <5>2. session[s].expires <= session[s].created + MaxTTL
          BY <1>2, <5>1, NilAssumption DEF LeaseIsCapped
        <5>3. RenewedExpiry(session[s]) <= session[s].created + MaxTTL
          BY <5>1, <5>2, StoreAssumption DEF RenewedExpiry, MaxOf, MinOf, Lease, Time, Expiry
        <5> QED BY <5>1, <5>3
      <4>3. ASSUME NEW q \in Owner, NEW s \in Session, RenewRead(q, s), o # q
            PROVE  handler'[o] = handler[o]
        BY <1>2, <4>3 DEF RenewRead, Begin
      <4>4. ASSUME NEW q \in Owner, NEW s \in Session, NEW a \in Agent, CreateCheck(q, s, a)
            PROVE  handler'[o] = handler[o]
        BY <1>2, <3>2, <4>4 DEF CreateCheck, Begin
      <4> QED BY <1>2, <2>2, <3>2, <4>1, <4>2, <4>3, <4>4, HandlerWriters
    <3> QED BY <3>1, <3>2 DEF LeaseIsCapped
  <2> QED BY <2>1, <2>2
<1> QED BY <1>1, <1>2, InvHolds, PTL DEF Spec

\* What a step may do to a lease: charge it, renew it, revoke it once, drop it,
\* or write it for the first time, by the request that chose its id.
LEMMA LeaseHistory ==
  ASSUME Inv, [Next]_vars, NEW s \in Session, session'[s] # Nil
  PROVE  \/ /\ session[s] # Nil
            /\ session'[s].agent = session[s].agent
            /\ session'[s].created = session[s].created
            /\ session'[s].maxUses = session[s].maxUses
            /\ session[s].revoked # Nil => session'[s].revoked = session[s].revoked
            /\ OwnerStep => session'[s].uses = session[s].uses
         \/ /\ session[s] = Nil
            /\ \E o \in Owner : handler[o].op = "create" /\ handler[o].session = s
<1> USE DEF Inv, TypeOK, StoreTypeOK
<1>0. session[s] # Nil => session[s] \in Lease
  OBVIOUS
<1>1. CASE ~ OwnerStep
  <2>1. session[s] # Nil
    BY <1>1, CallsKeepRows
  <2>2. PICK n \in Nat : session'[s] = [session[s] EXCEPT !.uses = n]
    BY <1>1, <2>1, CallsKeepRows
  <2> QED BY <1>0, <1>1, <2>1, <2>2 DEF Lease
<1>2. CASE OwnerStep
  <2>1. CASE session' = session
    BY <2>1
  <2>2. ASSUME NEW t \in Session, RevokeSession(t)
        PROVE  /\ session[s] # Nil
               /\ session'[s].agent = session[s].agent
               /\ session'[s].created = session[s].created
               /\ session'[s].maxUses = session[s].maxUses
               /\ session'[s].uses = session[s].uses
               /\ session[s].revoked # Nil => session'[s].revoked = session[s].revoked
    BY <1>0, <2>2 DEF RevokeSession, StoreRevokeSession, Lease
  <2>3. ASSUME NEW o \in Owner, NEW ttl \in SessionTTLs, NEW n \in UseLimits,
               CreateWrite(o, ttl, n)
        PROVE  \/ session'[s] = session[s]
               \/ handler[o].op = "create" /\ handler[o].session = s /\ session[s] = Nil
    BY <2>3 DEF CreateWrite, PutSession, FreshLeases
  <2>4. ASSUME NEW o \in Owner, RenewWrite(o)
        PROVE  /\ session[s] # Nil
               /\ session'[s].agent = session[s].agent
               /\ session'[s].created = session[s].created
               /\ session'[s].maxUses = session[s].maxUses
               /\ session'[s].uses = session[s].uses
               /\ session'[s].revoked = session[s].revoked
    BY <1>0, <2>4 DEF RenewWrite, WriteExpiry, Lease
  <2>5. ASSUME NEW o \in Owner, SweepSessions(handler[o].cut) PROVE session'[s] = session[s]
    BY <2>5 DEF SweepSessions
  <2> QED BY <1>2, <2>1, <2>2, <2>3, <2>4, <2>5, SessionWriters
<1> QED BY <1>1, <1>2

\* A call is released with a session only by the transaction that finds the
\* lease usable at the instant the call was received.
LEMMA ReleaseIsCharged ==
  ASSUME Inv, NEW c \in Call, CallStep(c), pc'[c] \in {"release", "fetch"},
         ctx'[c].session # Nil
  PROVE  /\ ctx' = ctx
         /\ \/ pc[c] \in {"release", "fetch"}
            \/ LeaseUsable(ctx[c].session, ctx[c].now)
<1> USE DEF Inv, TypeOK, BrokerTypeOK, Goto, Return
<1>1. WellFormed(c)
  BY DEF CallsWellFormed
<1>2. CASE ReadAuth(c)
  BY <1>2 DEF ReadAuth
<1>3. CASE Unauthorized(c) \/ Reload(c) \/ ReadFails(c) \/ SecretGone(c)
  BY <1>3 DEF Unauthorized, Reload, ReadFails, SecretGone
<1>4. CASE AuditRefusal(c) \/ AuditFails(c) \/ AuditAllow(c)
  BY <1>1, <1>4 DEF AuditRefusal, AuditFails, AuditAllow, WellFormed
<1>5. CASE Consume(c) \/ ConsumeCommit(c)
  BY <1>5 DEF Consume, ConsumeCommit, Consumable, LocksHeld
<1>6. CASE ConsumeSnapshot(c) \/ ConsumeUpdate(c) \/ ConsumeRefused(c)
  BY <1>6 DEF ConsumeSnapshot, ConsumeUpdate, ConsumeRefused
<1>7. CASE ConsumeFails(c) \/ ConsumeUnacknowledged(c)
  BY <1>7 DEF ConsumeFails, ConsumeUnacknowledged
<1>8. CASE ReadSecret(c) \/ Fetch(c)
  BY <1>8 DEF ReadSecret, Fetch
<1> QED
  BY <1>2, <1>3, <1>4, <1>5, <1>6, <1>7, <1>8 DEF CallStep, Progress, Failure

\* No lease outlives app.SessionTTLMax for a call, whatever renewals race: a
\* secret is read on a lease only for a call received within MaxTTL of the
\* lease's creation.
THEOREM LeaseBoundHolds == Spec => []LeaseBoundsUse
<1>1. Init => LeaseBoundsUse
  BY DEF Init, BrokerInit, LeaseBoundsUse
<1>2. ASSUME Inv, LeaseIsCapped, LeaseBoundsUse, [Next]_vars PROVE LeaseBoundsUse'
  <2> SUFFICES ASSUME NEW c \in Call, pc'[c] \in {"release", "fetch"}, ctx'[c].session # Nil
               PROVE  \/ session'[ctx'[c].session] = Nil
                      \/ ctx'[c].now < session'[ctx'[c].session].created + MaxTTL
    BY DEF LeaseBoundsUse
  <2> USE DEF Inv, TypeOK, StoreTypeOK, BrokerTypeOK
  <2>1. ASSUME pc[c] \in {"release", "fetch"}, ctx'[c] = ctx[c]
        PROVE  \/ session'[ctx'[c].session] = Nil
               \/ ctx'[c].now < session'[ctx'[c].session].created + MaxTTL
    <3>1. ctx[c] \in Context
      BY <1>2, <2>1 DEF CallsWellFormed, WellFormed
    <3>2. ctx[c].session \in Session
      BY <2>1, <3>1 DEF Context
    <3>3. \A o \in Owner : handler[o].op = "create" => handler[o].session # ctx[c].session
      BY <1>2, <2>1 DEF FreshLeases
    <3>4. session'[ctx[c].session] # Nil =>
            /\ session[ctx[c].session] # Nil
            /\ session'[ctx[c].session].created = session[ctx[c].session].created
      BY <1>2, <3>2, <3>3, LeaseHistory
    <3> QED BY <1>2, <2>1, <3>4 DEF LeaseBoundsUse
  <2>2. CASE UNCHANGED <<pc, ctx>>
    BY <2>1, <2>2
  <2>3. CASE CallStep(c)
    <3>1. CASE LeaseUsable(ctx[c].session, ctx[c].now)
      <4>1. ctx' = ctx
        BY <1>2, <2>3, ReleaseIsCharged
      <4>2. ctx[c] \in Context
        BY <1>2, <2>3, CallSlots DEF CallsWellFormed, WellFormed
      <4>3. ctx[c].session \in Session /\ ctx[c].now \in Int
        BY <4>1, <4>2, StoreAssumption DEF Context, Time
      <4> DEFINE s == ctx[c].session
      <4>4. session[s] # Nil /\ session[s] \in Lease /\ ctx[c].now < session[s].expires
        BY <1>2, <3>1, <4>3 DEF LeaseUsable
      <4>5. session[s].expires <= session[s].created + MaxTTL
        BY <1>2, <4>3, <4>4 DEF LeaseIsCapped
      <4>6. ctx[c].now < session[s].created + MaxTTL
        BY <4>3, <4>4, <4>5, StoreAssumption DEF Lease, Time, Expiry
      <4>7. session'[s] # Nil => session'[s].created = session[s].created
        BY <1>2, <4>3, <4>4, LeaseHistory
      <4> QED BY <4>1, <4>6, <4>7
    <3>2. CASE pc[c] \in {"release", "fetch"}
      BY <1>2, <2>1, <2>3, <3>2, ReleaseIsCharged
    <3> QED BY <1>2, <2>3, <3>1, <3>2, ReleaseIsCharged
  <2>4. ASSUME NEW d \in Call, d # c, CallStep(d)
        PROVE  pc'[c] = pc[c] /\ ctx'[c] = ctx[c]
    BY <1>2, <2>4, OtherCalls
  <2>5. ASSUME NEW d \in Call, StartAgent(d) \/ StartSession(d)
        PROVE  pc'[c] = pc[c] /\ ctx'[c] = ctx[c]
    BY <1>2, <2>5 DEF StartAgent, StartSession, Start
  <2>6. CASE Crash
    BY <1>2, <2>6 DEF Crash, BrokerCrash, Running
  <2> QED
    BY <1>2, <2>1, <2>2, <2>3, <2>4, <2>5, <2>6 DEF Next, BrokerStep, Tick, vars, brokerVars
<1> QED BY <1>1, <1>2, InvHolds, LeaseCapHolds, PTL DEF Spec

-----------------------------------------------------------------------------
(* Revocation.                                                             *)

\* No step of a call and no crash writes an agent row.
LEMMA AgentsStayRevoked ==
  ASSUME Inv, [Next]_vars, NEW a \in Agent, agent[a] = "revoked"
  PROVE  agent'[a] = "revoked"
<1>1. ASSUME OwnerStep PROVE agent'[a] = "revoked"
  BY <1>1, OwnerKeeps DEF Inv, TypeOK
<1>2. ASSUME NEW c \in Call, CallStep(c) PROVE agent' = agent
  <2> USE DEF storeVars, AppendAudit, CommitConsume, RollbackConsume, LockLease
  <2>1. CASE ReadAuth(c) \/ Unauthorized(c) \/ Reload(c) \/ ReadFails(c) \/ ReadSecret(c)
             \/ SecretGone(c) \/ Fetch(c)
    BY <2>1 DEF ReadAuth, Unauthorized, Reload, ReadFails, ReadSecret, SecretGone, Fetch
  <2>2. CASE AuditRefusal(c) \/ AuditAllow(c) \/ AuditFails(c)
    BY <2>2 DEF AuditRefusal, AuditAllow, AuditFails
  <2>3. CASE Consume(c) \/ ConsumeSnapshot(c) \/ ConsumeUpdate(c) \/ ConsumeCommit(c)
    BY <2>3 DEF Consume, ConsumeSnapshot, ConsumeUpdate, ConsumeCommit
  <2>4. CASE ConsumeRefused(c) \/ ConsumeFails(c) \/ ConsumeUnacknowledged(c)
    BY <2>4 DEF ConsumeRefused, ConsumeFails, ConsumeUnacknowledged
  <2> QED BY <1>2, <2>1, <2>2, <2>3, <2>4 DEF CallStep, Progress, Failure
<1>3. ASSUME NEW c \in Call, StartAgent(c) \/ StartSession(c) PROVE agent' = agent
  BY <1>3 DEF StartAgent, StartSession, Start, storeVars
<1>4. ASSUME Tick \/ Crash \/ UNCHANGED vars PROVE agent' = agent
  BY <1>4 DEF Tick, Crash, BrokerCrash, vars, storeVars
<1> QED BY <1>1, <1>2, <1>3, <1>4 DEF Next, BrokerStep

\* A revocation is final: adding the agent again (PutAgent's COALESCE) or the
\* late write of a renewal does not undo it, and a swept lease is not reborn.
THEOREM RevocationFinalHolds == Spec => RevocationIsFinal
<1> DEFINE A == /\ \A a \in Agent : agent[a] = "revoked" => agent'[a] = "revoked"
                /\ \A s \in Session :
                     /\ session[s] # Nil /\ session[s].revoked # Nil =>
                          session'[s] = Nil \/ session'[s].revoked = session[s].revoked
                     /\ session[s] = Nil /\ session'[s] # Nil =>
                          \E o \in Owner : handler[o].op = "create" /\ handler[o].session = s
<1>1. ASSUME Inv, [Next]_vars PROVE A
  BY <1>1, AgentsStayRevoked, LeaseHistory
<1>2. Inv /\ [Next]_vars => [A]_vars
  BY <1>1
<1>3. RevocationIsFinal <=> [][A]_vars
  BY DEF RevocationIsFinal
<1> HIDE DEF A
<1> QED BY <1>2, <1>3, InvHolds, PTL DEF Spec

\* A step that charges a lease under SQLite finds the lease and its agent
\* unrevoked.
LEMMA ChargeFindsLive ==
  ASSUME Inv, ~ ReadCommitted, [Next]_vars, NEW s \in Session, session[s] # Nil,
         session'[s] # Nil, session'[s].uses # session[s].uses
  PROVE  session[s].revoked = Nil /\ agent[session[s].agent] = "live"
<1> USE DEF Inv, TypeOK, StoreTypeOK
<1>1. ~ OwnerStep
  BY LeaseHistory
<1>2. ASSUME NEW c \in Call, CallStep(c)
      PROVE  \/ session' = session
             \/ Consumable(c) /\ CommitConsume(ctx[c].session, Row(c, "allow"))
  BY <1>2, CallWrites DEF LockLease, RollbackConsume, CallsWellFormed, WellFormed
<1>3. ASSUME NEW c \in Call, Consumable(c), CommitConsume(ctx[c].session, Row(c, "allow"))
      PROVE  session[s].revoked = Nil /\ agent[session[s].agent] = "live"
  <2>1. ctx[c].session = s
    BY <1>3 DEF CommitConsume
  <2> QED BY <1>3, <2>1 DEF Consumable, LeaseUsable, CallerLive
<1>4. ASSUME NEW c \in Call, StartAgent(c) \/ StartSession(c) PROVE session' = session
  BY <1>4 DEF StartAgent, StartSession, Start, storeVars
<1>5. ASSUME Tick \/ Crash \/ UNCHANGED vars PROVE session' = session
  BY <1>5 DEF Tick, Crash, BrokerCrash, vars, storeVars
<1> QED BY <1>1, <1>2, <1>3, <1>4, <1>5 DEF Next, BrokerStep

\* ConsumeSession as the final revocation race guard (store.go): with SQLite
\* no use is charged once the lease or its agent is revoked.  With Postgres
\* this fails, as the run consume_race shows.
THEOREM ConsumeStopsHolds ==
  ASSUME ~ ReadCommitted
  PROVE  Spec => ConsumeStopsAtRevocation
<1> DEFINE A == \A s \in Session :
                  session[s] # Nil /\ session'[s] # Nil /\ session'[s].uses # session[s].uses =>
                    session[s].revoked = Nil /\ agent[session[s].agent] = "live"
<1>1. Inv /\ [Next]_vars => [A]_vars
  BY ChargeFindsLive
<1>2. ConsumeStopsAtRevocation <=> [][A]_vars
  BY DEF ConsumeStopsAtRevocation
<1> HIDE DEF A
<1> QED BY <1>1, <1>2, InvHolds, PTL DEF Spec

\* A call that reads the agent as revoked is not allowed.
LEMMA RevokedIsDenied ==
  ASSUME NEW c, agent[Caller(c)] = "revoked"
  PROVE  Decision(c) # "allow"
<1> DEFINE u == UseAuth(Caller(c), ctx[c].item, ctx[c].action, ctx[c].url, ctx[c].now)
<1>1. u.principal.revoked /\ u.principal.kind = "agent"
  BY DEF UseAuth
<1> HIDE DEF u
<1>2. Evaluate(u).decision = "deny"
  BY <1>1 DEF Evaluate, Deny, Verdict
<1> QED BY <1>2 DEF Decision, u

\* What stays true once a call has not started and an agent is revoked: the
\* call is not on the way to be released for that agent.
Barred(c, a) ==
  /\ agent[a] = "revoked"
  /\ c \in sent => ctx[c].agent # a
  /\ pc[c] \in {"audit", "consume", "updating", "committing", "release", "fetch"} =>
       ctx[c].agent # a

LEMMA CallStaysBarred ==
  ASSUME Inv, NEW c \in Call, NEW a \in Agent, Barred(c, a), agent'[a] = "revoked", CallStep(c)
  PROVE  Barred(c, a)'
<1> USE DEF Inv, TypeOK, BrokerTypeOK, Goto, Return
<1>1. WellFormed(c)
  BY DEF CallsWellFormed
<1>2. CASE ReadAuth(c)
  <2>1. ctx[c] \in Context /\ ctx'[c] = [ctx[c] EXCEPT !.agent = Caller(c)]
    BY <1>1, <1>2 DEF ReadAuth, WellFormed
  <2>2. ctx'[c].agent = Caller(c)
    BY <2>1 DEF Context
  <2>3. c \notin sent' /\ pc'[c] \in {"refuse", "reload", "consume"}
        /\ (pc'[c] = "consume" => Decision(c) = "allow")
    BY <1>1, <1>2 DEF ReadAuth, WellFormed
  <2> QED BY <2>2, <2>3, RevokedIsDenied DEF Barred
<1>3. CASE Reload(c)
  BY <1>1, <1>3 DEF Reload, Barred, WellFormed
<1>4. CASE Unauthorized(c) \/ ReadFails(c) \/ SecretGone(c) \/ AuditRefusal(c) \/ AuditFails(c)
  BY <1>4 DEF Unauthorized, ReadFails, SecretGone, AuditRefusal, AuditFails, Barred
<1>5. CASE AuditAllow(c) \/ ReadSecret(c) \/ Fetch(c)
  BY <1>5 DEF AuditAllow, ReadSecret, Fetch, Barred
<1>6. CASE Consume(c) \/ ConsumeSnapshot(c) \/ ConsumeUpdate(c) \/ ConsumeCommit(c)
  BY <1>6 DEF Consume, ConsumeSnapshot, ConsumeUpdate, ConsumeCommit, Barred
<1>7. CASE ConsumeRefused(c) \/ ConsumeFails(c) \/ ConsumeUnacknowledged(c)
  BY <1>7 DEF ConsumeRefused, ConsumeFails, ConsumeUnacknowledged, Barred
<1> QED BY <1>2, <1>3, <1>4, <1>5, <1>6, <1>7 DEF CallStep, Progress, Failure

\* Revoking an agent stops every call that starts afterwards, with an agent
\* token or a session token, through renewals, re-grants, approvals, crashes
\* and either database: nothing is sent for that agent.
THEOREM RevocationStopsHolds == Spec => RevocationStopsLaterCalls
<1> SUFFICES ASSUME NEW CONSTANT c \in Call, NEW CONSTANT a \in Agent
             PROVE  Spec => [](agent[a] = "revoked" /\ pc[c] = "idle"
                                 => [](c \in sent => ctx[c].agent # a))
  BY DEF RevocationStopsLaterCalls
<1>1. Inv /\ agent[a] = "revoked" /\ pc[c] = "idle" => Barred(c, a)
  BY DEF Barred, Inv, CallsWellFormed, WellFormed
<1>2. ASSUME Inv, Barred(c, a), [Next]_vars PROVE Barred(c, a)'
  <2>1. agent'[a] = "revoked"
    BY <1>2, AgentsStayRevoked DEF Barred
  <2>2. CASE UNCHANGED <<pc, ctx, sent>>
    BY <1>2, <2>1, <2>2 DEF Barred
  <2>3. CASE CallStep(c)
    BY <1>2, <2>1, <2>3, CallStaysBarred
  <2>4. ASSUME NEW d \in Call, d # c, CallStep(d) PROVE Barred(c, a)'
    BY <1>2, <2>1, <2>4, OtherCalls DEF Barred, Inv
  <2>5. ASSUME NEW d \in Call, StartAgent(d) \/ StartSession(d) PROVE Barred(c, a)'
    <3>1. PICK x : /\ ctx' = [ctx EXCEPT ![d] = x] /\ pc[d] = "idle" /\ sent' = sent
                   /\ pc' = [pc EXCEPT ![d] = "admitted"] \/ pc' = [pc EXCEPT ![d] = "done"]
      BY <2>5 DEF StartAgent, StartSession, Start
    <3>2. d \notin sent
      BY <1>2, <3>1 DEF Inv, CallsWellFormed, WellFormed
    <3> QED BY <1>2, <2>1, <3>1, <3>2 DEF Inv, TypeOK, BrokerTypeOK, Barred
  <2>6. CASE Crash
    BY <1>2, <2>1, <2>6 DEF Crash, BrokerCrash, Running, Barred, Inv, TypeOK, BrokerTypeOK
  <2> QED BY <1>2, <2>2, <2>3, <2>4, <2>5, <2>6 DEF Next, BrokerStep, vars, brokerVars
<1>3. Barred(c, a) => (c \in sent => ctx[c].agent # a)
  BY DEF Barred
<1> QED BY <1>1, <1>2, <1>3, InvHolds, PTL DEF Spec

\* A lease that has been revoked and, perhaps, swept since: its id is taken and
\* no request is about to write it again.
Dead(s) ==
  /\ s \in minted
  /\ \A o \in Owner : handler[o].op = "create" => handler[o].session # s
  /\ session[s] = Nil \/ session[s].revoked # Nil

LEMMA RevokedIsDead ==
  ASSUME Inv, NEW s \in Session, session[s] # Nil, session[s].revoked # Nil
  PROVE  Dead(s)
BY DEF Inv, FreshLeases, Dead

LEMMA DeadForGood ==
  ASSUME Inv, [Next]_vars, NEW s \in Session, Dead(s)
  PROVE  Dead(s)'
<1>1. session'[s] = Nil \/ session'[s].revoked # Nil
  BY LeaseHistory DEF Dead
<1>2. /\ s \in minted'
      /\ \A o \in Owner : handler'[o].op = "create" => handler'[o].session # s
  <2>1. ASSUME NEW o \in Owner, NEW t \in Session, NEW a \in Agent, CreateCheck(o, t, a)
        PROVE  <1>2!:
    <3>1. handler' = [handler EXCEPT ![o] = [op |-> "create", session |-> t, agent |-> a]]
          /\ minted' = minted \cup {t} /\ t \notin minted
      BY <2>1 DEF CreateCheck, Begin
    <3> QED BY <3>1 DEF Dead, Inv, TypeOK, OwnerTypeOK
  <2>2. ASSUME NEW o \in Owner, NEW t \in Session, RenewRead(o, t) PROVE <1>2!:
    <3>1. handler' = [handler EXCEPT ![o] = [op |-> "renew", session |-> t,
                                             expires |-> RenewedExpiry(session[t])]]
          /\ minted' = minted
      BY <2>2 DEF RenewRead, Begin
    <3> QED BY <3>1 DEF Dead, Inv, TypeOK, OwnerTypeOK
  <2>3. CASE OwnerStep
    BY <2>1, <2>2, <2>3, HandlerWriters DEF Dead, Inv
  <2>4. CASE UNCHANGED ownerVars
    BY <2>4 DEF Dead, ownerVars
  <2>5. CASE Crash
    BY <2>5 DEF Crash, Dead, Idle
  <2> QED BY <2>3, <2>4, <2>5 DEF Next, vars
<1> QED BY <1>1, <1>2 DEF Dead

\* What stays true of a call that had not started when the lease died: it has
\* sent nothing for the lease, and past ReadAuth it is not a call of that lease.
Shut(c, s) ==
  /\ c \in sent => ctx[c].session # s
  /\ pc[c] \notin {"idle", "admitted", "done"} => ctx[c].session # s

LEMMA CallStaysShut ==
  ASSUME Inv, NEW c \in Call, NEW s \in Session, Dead(s), Shut(c, s), CallStep(c)
  PROVE  Shut(c, s)'
<1> USE DEF Inv, TypeOK, BrokerTypeOK, Goto, Return
<1>1. WellFormed(c)
  BY DEF CallsWellFormed
<1>2. CASE ReadAuth(c)
  <2>1. ctx[c] \in Context /\ ctx'[c] = [ctx[c] EXCEPT !.agent = Caller(c)]
    BY <1>1, <1>2 DEF ReadAuth, WellFormed
  <2>2. ctx'[c].session = ctx[c].session
    BY <2>1 DEF Context
  <2>3. ctx[c].session # s
    BY <1>2, StoreAssumption DEF ReadAuth, LeaseUsable, Dead
  <2> QED BY <2>2, <2>3 DEF Shut
<1>3. CASE Unauthorized(c) \/ Reload(c) \/ ReadFails(c) \/ SecretGone(c) \/ AuditRefusal(c)
  BY <1>3 DEF Unauthorized, Reload, ReadFails, SecretGone, AuditRefusal, Shut
<1>4. CASE AuditAllow(c) \/ AuditFails(c) \/ ReadSecret(c) \/ Fetch(c)
  BY <1>4 DEF AuditAllow, AuditFails, ReadSecret, Fetch, Shut
<1>5. CASE Consume(c) \/ ConsumeSnapshot(c) \/ ConsumeUpdate(c) \/ ConsumeCommit(c)
  BY <1>5 DEF Consume, ConsumeSnapshot, ConsumeUpdate, ConsumeCommit, Shut
<1>6. CASE ConsumeRefused(c) \/ ConsumeFails(c) \/ ConsumeUnacknowledged(c)
  BY <1>6 DEF ConsumeRefused, ConsumeFails, ConsumeUnacknowledged, Shut
<1> QED BY <1>2, <1>3, <1>4, <1>5, <1>6 DEF CallStep, Progress, Failure

\* Revoking a lease stops every call that starts afterwards with its token,
\* through a renewal that read the lease before, a sweep, crashes and either
\* database: nothing is sent for it.
THEOREM RevokedLeaseHolds == Spec => RevokedLeaseStopsLaterCalls
<1> SUFFICES ASSUME NEW CONSTANT c \in Call, NEW CONSTANT s \in Session
             PROVE  Spec => [](session[s] # Nil /\ session[s].revoked # Nil /\ pc[c] = "idle"
                                 => [](c \in sent => ctx[c].session # s))
  BY DEF RevokedLeaseStopsLaterCalls
<1>1. Inv /\ session[s] # Nil /\ session[s].revoked # Nil /\ pc[c] = "idle"
        => Dead(s) /\ Shut(c, s)
  BY RevokedIsDead DEF Shut, Inv, CallsWellFormed, WellFormed
<1>2. ASSUME Inv, Dead(s), Shut(c, s), [Next]_vars PROVE Shut(c, s)'
  <2>1. CASE UNCHANGED <<pc, ctx, sent>>
    BY <1>2, <2>1 DEF Shut
  <2>2. CASE CallStep(c)
    BY <1>2, <2>2, CallStaysShut
  <2>3. ASSUME NEW d \in Call, d # c, CallStep(d) PROVE Shut(c, s)'
    BY <1>2, <2>3, OtherCalls DEF Shut, Inv
  <2>4. ASSUME NEW d \in Call, StartAgent(d) \/ StartSession(d) PROVE Shut(c, s)'
    <3>1. PICK x : /\ ctx' = [ctx EXCEPT ![d] = x] /\ pc[d] = "idle" /\ sent' = sent
                   /\ pc' = [pc EXCEPT ![d] = "admitted"] \/ pc' = [pc EXCEPT ![d] = "done"]
      BY <2>4 DEF StartAgent, StartSession, Start
    <3>2. d \notin sent
      BY <1>2, <3>1 DEF Inv, CallsWellFormed, WellFormed
    <3> QED BY <1>2, <3>1, <3>2 DEF Inv, TypeOK, BrokerTypeOK, Shut
  <2>5. CASE Crash
    BY <1>2, <2>5 DEF Crash, BrokerCrash, Running, Shut, Inv, TypeOK, BrokerTypeOK
  <2> QED BY <1>2, <2>1, <2>2, <2>3, <2>4, <2>5 DEF Next, BrokerStep, vars, brokerVars
<1>3. Shut(c, s) => (c \in sent => ctx[c].session # s)
  BY DEF Shut
<1>4. Inv /\ Dead(s) /\ [Next]_vars => Dead(s)'
  BY DeadForGood
<1> QED BY <1>1, <1>2, <1>3, <1>4, InvHolds, PTL DEF Spec

-----------------------------------------------------------------------------
(* The sweep.                                                              *)

\* A grant that is not there answers as one that has expired.
LEMMA NoGrantDenies ==
  ASSUME NEW u, u.grant = Nil \/ ~ Before(u.now, u.grant.expires)
  PROVE  Evaluate(u).decision = "deny"
BY DEF Evaluate, Deny, Verdict

\* The three statements of Sweep, each for a call received at the cutoff or
\* later: a swept lease was of no use, a swept grant had expired, a swept
\* approval would not have been read.
LEMMA SweepKeepsAnswer ==
  ASSUME TypeOK, NEW o \in Owner, SweepStep(o),
         NEW s \in Session \cup {Nil}, NEW a \in Agent, NEW i \in Item, NEW url \in Url,
         NEW t \in Time, t >= handler[o].cut
  PROVE  Answer(s, a, i, url, t)' = Answer(s, a, i, url, t)
<1> USE DEF TypeOK, StoreTypeOK, Time
<1>1. PICK cut \in Int : cut = handler[o].cut
  BY HandlerKinds DEF SweepStep, OwnerTypeOK
<1>2. t >= cut
  BY <1>1
<1>3. PICK x : x = IF s = Nil THEN a ELSE session[s].agent
  OBVIOUS
<1>4. s # Nil /\ LeaseUsable(s, t) => session[s] \in Lease
  BY DEF LeaseUsable
<1>5. s = Nil \/ LeaseUsable(s, t) => x \in Agent
  BY <1>3, <1>4 DEF Lease
<1> DEFINE u == UseAuth(x, i, "fetch", url, t)
           Told == IF s # Nil /\ ~ LeaseUsable(s, t) THEN "unauthorized"
                   ELSE IF item[i] = Nil THEN "item_not_found"
                   ELSE Evaluate(u).decision
<1>6. Answer(s, a, i, url, t) = Told
  BY <1>3 DEF Answer
<1>7. s # Nil /\ session'[s] = session[s] => (LeaseUsable(s, t)' <=> LeaseUsable(s, t))
  BY DEF LeaseUsable
<1>8. CASE SweepSessions(cut)
  <2>1. u' = u /\ item' = item
    BY <1>8 DEF SweepSessions, UseAuth
  <2>2. CASE s # Nil /\ session'[s] # session[s]
    <3>1. session[s] \in Lease /\ Sweepable(session[s], cut) /\ session'[s] = Nil
      BY <1>8, <2>2 DEF SweepSessions
    <3>2. ~ LeaseUsable(s, t) /\ ~ LeaseUsable(s, t)'
      BY <1>2, <3>1 DEF Sweepable, LeaseUsable, Lease, Expiry
    <3> QED BY <2>2, <3>2 DEF Answer
  <2>3. CASE s = Nil \/ session'[s] = session[s]
    <3>1. x = IF s = Nil THEN a ELSE session'[s].agent
      BY <1>3, <2>3
    <3>2. Answer(s, a, i, url, t)' = Told'
      BY <3>1 DEF Answer
    <3>3. (Evaluate(u).decision)' = Evaluate(u).decision
      BY <2>1 DEF Evaluate, LevelVerdict
    <3> HIDE DEF u
    <3> QED BY <1>6, <1>7, <2>1, <2>3, <3>2, <3>3
  <2> QED BY <2>2, <2>3
<1>9. ASSUME session' = session, item' = item,
             s = Nil \/ LeaseUsable(s, t) => (Evaluate(u).decision)' = Evaluate(u).decision
      PROVE  Answer(s, a, i, url, t)' = Answer(s, a, i, url, t)
  <2>1. Answer(s, a, i, url, t)' = Told'
    BY <1>3, <1>9 DEF Answer
  <2> HIDE DEF u
  <2> QED BY <1>6, <1>7, <1>9, <2>1
<1>10. CASE SweepGrants(cut)
  <2>1. session' = session /\ item' = item /\ agent' = agent /\ approval' = approval
    BY <1>10 DEF SweepGrants
  <2>2. ASSUME x \in Agent PROVE (Evaluate(u).decision)' = Evaluate(u).decision
    <3>1. CASE grant'[<<x, i>>] = grant[<<x, i>>]
      <4>1. u' = u
        BY <2>1, <3>1 DEF UseAuth
      <4> QED BY <4>1
    <3>2. CASE grant'[<<x, i>>] # grant[<<x, i>>]
      <4>1. /\ grant[<<x, i>>] \in GrantRow /\ grant'[<<x, i>>] = Nil
            /\ grant[<<x, i>>].expires # Nil /\ grant[<<x, i>>].expires < cut
        BY <1>10, <2>2, <3>2 DEF SweepGrants
      <4>2. u'.grant = Nil
        BY <4>1 DEF UseAuth
      <4>3. ~ Before(u.now, u.grant.expires)
        BY <1>2, <4>1 DEF UseAuth, Before, GrantRow, Expiry
      <4> HIDE DEF u
      <4> QED BY <4>2, <4>3, NoGrantDenies
    <3> QED BY <3>1, <3>2
  <2> QED BY <1>5, <1>9, <2>1, <2>2
<1>11. CASE SweepApprovals(cut)
  <2>1. session' = session /\ item' = item /\ agent' = agent /\ grant' = grant
    BY <1>11 DEF SweepApprovals
  <2>2. ASSUME x \in Agent PROVE (Evaluate(u).decision)' = Evaluate(u).decision
    <3>1. approval[<<x, i>>] \in Expiry \cup {Nil}
      BY <2>2
    <3>2. \/ approval'[<<x, i>>] = approval[<<x, i>>]
          \/ approval'[<<x, i>>] = Nil /\ approval[<<x, i>>] < cut /\ approval[<<x, i>>] # Nil
      BY <1>11, <2>2 DEF SweepApprovals
    <3>3. CASE approval'[<<x, i>>] = approval[<<x, i>>]
      <4>1. u' = u
        BY <2>1, <3>3 DEF UseAuth
      <4> QED BY <4>1
    <3>4. CASE approval'[<<x, i>>] = Nil /\ approval[<<x, i>>] < cut /\ approval[<<x, i>>] # Nil
      <4>1. t >= approval[<<x, i>>]
        BY <1>2, <3>1, <3>4, StoreAssumption DEF Expiry
      <4>2. u' = u
        BY <2>1, <3>4, <4>1 DEF UseAuth
      <4> QED BY <4>2
    <3> QED BY <3>2, <3>3, <3>4
  <2> QED BY <1>5, <1>9, <2>1, <2>2
<1> QED BY <1>1, <1>8, <1>10, <1>11 DEF SweepStep

\* Whatever a sweep drops, when its cutoff lags and how it interleaves with
\* calls and owners: no call received at the cutoff or later is told
\* otherwise than before the statement.
THEOREM SweepInvisibleHolds == Spec => SweepIsInvisible
<1> DEFINE A == \A o \in Owner : SweepStep(o) =>
                  \A s \in Session \cup {Nil}, a \in Agent, i \in Item, url \in Url :
                    \A t \in {u \in Time : u >= handler[o].cut} :
                      Answer(s, a, i, url, t)' = Answer(s, a, i, url, t)
<1>1. Inv /\ [Next]_vars => [A]_<<storeVars, ownerVars>>
  BY SweepKeepsAnswer DEF Inv
<1>2. SweepIsInvisible <=> [][A]_<<storeVars, ownerVars>>
  BY DEF SweepIsInvisible
<1> HIDE DEF A
<1> QED BY <1>1, <1>2, InvHolds, PTL DEF Spec

-----------------------------------------------------------------------------
(* Uses and audit rows.                                                    *)

\* A step of a call writes no row, or a row that charges no lease, or charges
\* its lease with its one allow row.
LEMMA CallAudit ==
  ASSUME Inv, NEW c \in Call, CallStep(c)
  PROVE  \/ audit' = audit /\ session' = session
         \/ /\ pc[c] \notin {"idle", "release", "fetch", "done"}
            /\ pc'[c] \in {"release", "done"} /\ ctx' = ctx
            /\ \/ /\ session' = session
                  /\ \E d \in DecisionKind : /\ audit' = audit \cup {Row(c, d)}
                                             /\ d # "allow" \/ ctx[c].session = Nil
               \/ /\ LeaseUsable(ctx[c].session, ctx[c].now) /\ ctx[c].session # Nil
                  /\ CommitConsume(ctx[c].session, Row(c, "allow"))
<1> USE DEF Inv, TypeOK, BrokerTypeOK, Goto, Return, storeVars
<1>1. WellFormed(c)
  BY DEF CallsWellFormed
<1>2. CASE ReadAuth(c) \/ Unauthorized(c) \/ Reload(c) \/ ReadFails(c) \/ ReadSecret(c)
           \/ SecretGone(c) \/ Fetch(c)
  BY <1>2 DEF ReadAuth, Unauthorized, Reload, ReadFails, ReadSecret, SecretGone, Fetch
<1>3. CASE AuditAllow(c) \/ AuditFails(c)
  BY <1>1, <1>3 DEF AuditAllow, AuditFails, AppendAudit, WellFormed, DecisionKind
<1>4. CASE AuditRefusal(c)
  BY <1>1, <1>4 DEF AuditRefusal, AppendAudit, WellFormed, DecisionKind
<1>5. CASE Consume(c) \/ ConsumeCommit(c)
  BY <1>1, <1>5 DEF Consume, ConsumeCommit, Consumable, LocksHeld, WellFormed
<1>6. CASE ConsumeSnapshot(c) \/ ConsumeUpdate(c) \/ ConsumeRefused(c)
  BY <1>6 DEF ConsumeSnapshot, ConsumeUpdate, ConsumeRefused, LockLease
<1>7. CASE ConsumeFails(c)
  BY <1>7 DEF ConsumeFails, RollbackConsume
<1>8. CASE ConsumeUnacknowledged(c)
  BY <1>1, <1>8 DEF ConsumeUnacknowledged, Consumable, LocksHeld, WellFormed
<1> QED
  BY <1>1, <1>2, <1>3, <1>4, <1>5, <1>6, <1>7, <1>8 DEF CallStep, Progress, Failure

\* The allow rows charged to a lease.
Charges(s) == {row \in audit : row.session = s /\ row.decision = "allow"}

\* A call has at most one row before it is done, and the id of a lease that is
\* still to be written is on none.
RowsOfCalls ==
  /\ IsFiniteSet(audit)
  /\ \A row \in audit :
       /\ row.call # Nil => pc[row.call] \in {"release", "fetch", "done"}
       /\ row.session # Nil =>
            /\ row.session \in minted
            /\ \A o \in Owner : handler[o].op = "create" => handler[o].session # row.session

LEMMA RowsInit == Init => RowsOfCalls
BY FS_EmptySet DEF Init, RowsOfCalls

LEMMA RowsNext == Inv /\ RowsOfCalls /\ [Next]_vars => RowsOfCalls'
<1> SUFFICES ASSUME Inv, RowsOfCalls, [Next]_vars PROVE RowsOfCalls'
  OBVIOUS
<1> USE DEF Inv, TypeOK
<1>1. ASSUME NEW c \in Call, pc[c] \in {"release", "fetch", "done"}
      PROVE  pc'[c] \in {"release", "fetch", "done"}
  <2>1. CASE CallStep(c)
    <3> USE DEF BrokerTypeOK, Goto, Return
    <3>1. CASE ReadSecret(c) \/ SecretGone(c) \/ Fetch(c) \/ ReadFails(c)
      BY <3>1 DEF ReadSecret, SecretGone, Fetch, ReadFails
    <3>2. CASE ~ (ReadSecret(c) \/ SecretGone(c) \/ Fetch(c) \/ ReadFails(c))
      BY <1>1, <2>1, <3>2 DEF CallStep, Progress, Failure, ReadAuth, Unauthorized, Reload,
         AuditRefusal, AuditAllow, Consume, ConsumeSnapshot, ConsumeUpdate, ConsumeCommit,
         ConsumeRefused, AuditFails, ConsumeFails, ConsumeUnacknowledged
    <3> QED BY <3>1, <3>2
  <2>2. ASSUME NEW d \in Call, d # c, CallStep(d) PROVE pc'[c] = pc[c]
    BY <2>2, OtherCalls
  <2>3. ASSUME NEW d \in Call, StartAgent(d) \/ StartSession(d) PROVE pc'[c] = pc[c]
    BY <1>1, <2>3 DEF StartAgent, StartSession, Start, BrokerTypeOK
  <2>4. ASSUME Crash PROVE pc'[c] \in {"release", "fetch", "done"}
    BY <1>1, <2>4 DEF Crash, BrokerCrash, Running, BrokerTypeOK
  <2> QED BY <1>1, <2>1, <2>2, <2>3, <2>4 DEF Next, BrokerStep, Tick, vars, brokerVars
<1>2. minted \subseteq minted'
      /\ \A o \in Owner : handler'[o].op = "create" =>
           \/ handler[o].op = "create" /\ handler'[o].session = handler[o].session
           \/ handler'[o].session \notin minted
  <2>1. CASE OwnerStep
    <3>1. ASSUME NEW o \in Owner, NEW s \in Session, NEW a \in Agent, CreateCheck(o, s, a)
          PROVE  /\ minted' = minted \cup {s} /\ s \notin minted
                 /\ handler' = [handler EXCEPT ![o] = [op |-> "create", session |-> s, agent |-> a]]
      BY <3>1 DEF CreateCheck, Begin
    <3>2. ASSUME NEW o \in Owner, NEW s \in Session, RenewRead(o, s)
          PROVE  /\ minted' = minted
                 /\ handler' = [handler EXCEPT ![o] = [op |-> "renew", session |-> s,
                                                       expires |-> RenewedExpiry(session[s])]]
      BY <3>2 DEF RenewRead, Begin
    <3> QED BY <2>1, <3>1, <3>2, HandlerWriters DEF OwnerTypeOK
  <2>2. CASE ~ OwnerStep
    BY <2>2 DEF Next, BrokerStep, Crash, BrokerCrash, ownerVars, vars, Idle
  <2> QED BY <2>1, <2>2
<1>3. ASSUME NEW row \in audit
      PROVE  /\ row.call # Nil => pc'[row.call] \in {"release", "fetch", "done"}
             /\ row.session # Nil =>
                  /\ row.session \in minted'
                  /\ \A o \in Owner : handler'[o].op = "create" =>
                       handler'[o].session # row.session
  <2>1. row.call # Nil => row.call \in Call
    BY DEF StoreTypeOK, AuditRow
  <2> QED BY <1>1, <1>2, <2>1 DEF RowsOfCalls
<1>4. CASE audit' = audit
  BY <1>3, <1>4 DEF RowsOfCalls
<1>5. ASSUME NEW row, audit' = audit \cup {row},
             row.call # Nil => pc'[row.call] \in {"release", "fetch", "done"},
             row.session # Nil =>
               /\ row.session \in minted'
               /\ \A o \in Owner : handler'[o].op = "create" => handler'[o].session # row.session
      PROVE  RowsOfCalls'
  <2>1. IsFiniteSet(audit')
    BY <1>5, FS_AddElement DEF RowsOfCalls
  <2> QED BY <1>3, <1>5, <2>1 DEF RowsOfCalls
<1>6. CASE OwnerStep
  BY <1>4, <1>5, <1>6, OwnerAudit
<1>7. ASSUME NEW c \in Call, CallStep(c), UNCHANGED ownerVars PROVE RowsOfCalls'
  <2>1. ASSUME NEW d, audit' = audit \cup {Row(c, d)},
               pc[c] \notin {"idle", "release", "fetch", "done"}, pc'[c] \in {"release", "done"}
        PROVE  RowsOfCalls'
    <3>1. Row(c, d).call = c /\ Row(c, d).session = ctx[c].session
      BY DEF Row
    <3>2. CASE pc[c] = "admitted"
      BY <1>4, <1>7, <2>1, <3>2, CallAudit DEF CallStep, Progress, Failure, ReadAuth,
         Unauthorized, Reload, AuditRefusal, AuditAllow, Consume, ConsumeSnapshot,
         ConsumeUpdate, ConsumeCommit, ConsumeRefused, AuditFails, ConsumeFails,
         ConsumeUnacknowledged, ReadSecret, SecretGone, Fetch, ReadFails, storeVars
    <3>3. CASE pc[c] # "admitted"
      <4>1. ctx[c].session # Nil =>
              /\ ctx[c].session \in minted
              /\ \A o \in Owner : handler[o].op = "create" => handler[o].session # ctx[c].session
        BY <2>1, <3>3 DEF FreshLeases
      <4> HIDE DEF Inv, TypeOK
      <4>2. UNCHANGED <<handler, minted>>
        BY <1>7 DEF ownerVars
      <4> QED BY <1>5, <2>1, <3>1, <4>1, <4>2
    <3> QED BY <3>2, <3>3
  <2> QED BY <1>4, <1>7, <2>1, CallAudit DEF CommitConsume
<1>8. ASSUME NEW c \in Call, StartAgent(c) \/ StartSession(c) PROVE audit' = audit
  BY <1>8 DEF StartAgent, StartSession, Start, storeVars
<1>9. ASSUME Tick \/ Crash \/ UNCHANGED vars PROVE audit' = audit
  BY <1>9 DEF Tick, Crash, BrokerCrash, vars, storeVars
<1> QED BY <1>4, <1>6, <1>7, <1>8, <1>9 DEF Next, BrokerStep

\* Charging and auditing are one step (ConsumeSessionAudited): the uses of a
\* lease are its allow rows, one for each call, and never pass max_uses,
\* whatever is lost, fails, crashes or runs at the same time.
THEOREM UsesChargedHolds == Spec => []UsesAreCharged
<1> DEFINE Charged(s) ==
      session[s] # Nil =>
        /\ session[s].uses = Cardinality(Charges(s))
        /\ session[s].maxUses > 0 => session[s].uses <= session[s].maxUses
<1>1. UsesAreCharged <=> \A s \in Session : Charged(s)
  BY DEF UsesAreCharged, Charges
<1>2. ASSUME Init, NEW s \in Session PROVE Charged(s)
  <2>1. Charges(s) = {}
    BY <1>2 DEF Init, Charges
  <2>2. ASSUME session[s] # Nil PROVE session[s].uses = 0
    <3>1. session[s] \in HandedOut
      BY <1>2, <2>2 DEF Init
    <3> QED BY <3>1 DEF HandedOut, NewLease
  <2>3. ASSUME session[s] # Nil PROVE session[s].maxUses \in Nat
    BY <1>2, <2>3, InitType DEF TypeOK, StoreTypeOK, Lease
  <2> QED BY <2>1, <2>2, <2>3, FS_EmptySet
<1>3. ASSUME Inv, RowsOfCalls, UsesAreCharged, [Next]_vars, NEW s \in Session
      PROVE  Charged(s)'
  <2> USE <1>3 DEF Inv, TypeOK, StoreTypeOK
  <2>0. Charged(s)
    BY <1>1
  <2>1. IsFiniteSet(Charges(s))
    BY FS_Subset DEF RowsOfCalls, Charges
  <2>2. SUFFICES ASSUME session'[s] # Nil
                 PROVE  /\ session'[s].uses = Cardinality(Charges(s)')
                        /\ session'[s].maxUses > 0 => session'[s].uses <= session'[s].maxUses
    OBVIOUS
  <2>3. ASSUME session[s] # Nil, session'[s].uses = session[s].uses, Charges(s)' = Charges(s)
        PROVE  Charged(s)'
    BY <2>0, <2>2, <2>3, LeaseHistory
  <2>4. ASSUME NEW row, audit' = audit \cup {row}, row.session # s \/ row.decision # "allow"
        PROVE  Charges(s)' = Charges(s)
    BY <2>4 DEF Charges
  <2>5. audit' = audit => Charges(s)' = Charges(s)
    BY DEF Charges
  <2>6. CASE OwnerStep
    <3>1. Charges(s)' = Charges(s)
      BY <2>4, <2>5, <2>6, OwnerAudit, StoreAssumption
    <3>2. CASE session[s] # Nil
      BY <2>2, <2>3, <2>6, <3>1, <3>2, LeaseHistory
    <3>3. CASE session[s] = Nil
      <4>1. \E o \in Owner : handler[o].op = "create" /\ handler[o].session = s
        BY <2>2, <3>3, LeaseHistory
      <4>2. Charges(s) = {}
        BY <4>1, StoreAssumption DEF RowsOfCalls, Charges
      <4>3. session'[s].uses = 0 /\ session'[s].maxUses \in Nat
        <5>1. ASSUME NEW o \in Owner, NEW ttl \in SessionTTLs, NEW n \in UseLimits,
                     CreateWrite(o, ttl, n)
              PROVE  session'[s].uses = 0 /\ session'[s].maxUses \in Nat
          BY <2>2, <3>3, <5>1, OwnerAssumption DEF CreateWrite, PutSession
        <5>2. ASSUME NEW t \in Session, RevokeSession(t) PROVE FALSE
          BY <2>2, <3>3, <5>2 DEF RevokeSession, StoreRevokeSession
        <5>3. ASSUME NEW o \in Owner, RenewWrite(o) PROVE FALSE
          BY <2>2, <3>3, <5>3 DEF RenewWrite, WriteExpiry
        <5>4. ASSUME NEW o \in Owner, SweepSessions(handler[o].cut) PROVE FALSE
          BY <2>2, <3>3, <5>4 DEF SweepSessions
        <5> QED BY <2>2, <2>6, <3>3, <5>1, <5>2, <5>3, <5>4, SessionWriters
      <4> QED BY <3>1, <4>2, <4>3, FS_EmptySet
    <3> QED BY <3>2, <3>3
  <2>7. CASE session' = session /\ Charges(s)' = Charges(s)
    BY <2>2, <2>3, <2>7
  <2>8. ASSUME NEW c \in Call, CallStep(c) PROVE Charged(s)'
    <3>1. CASE audit' = audit /\ session' = session
      BY <2>2, <2>3, <2>5, <3>1
    <3>2. ASSUME NEW d \in DecisionKind, audit' = audit \cup {Row(c, d)}, session' = session,
                 d # "allow" \/ ctx[c].session = Nil
          PROVE  Charged(s)'
      <4>1. Row(c, d).session # s \/ Row(c, d).decision # "allow"
        BY <3>2, StoreAssumption DEF Row
      <4> QED BY <2>2, <2>3, <2>4, <3>2, <4>1
    <3>3. ASSUME CommitConsume(ctx[c].session, Row(c, "allow")),
                 LeaseUsable(ctx[c].session, ctx[c].now),
                 pc[c] \notin {"idle", "release", "fetch", "done"}
          PROVE  Charged(s)'
      <4>1. CASE ctx[c].session # s
        <5>1. Row(c, "allow").session # s
          BY <4>1 DEF Row
        <5>2. session'[s] = session[s] /\ Charges(s)' = Charges(s)
          BY <2>4, <3>3, <4>1, <5>1 DEF CommitConsume
        <5> QED BY <2>2, <2>3, <5>2
      <4>2. CASE ctx[c].session = s
        <5>1. Row(c, "allow") \notin audit
          BY <3>3, StoreAssumption DEF RowsOfCalls, Row
        <5>2. Charges(s)' = Charges(s) \cup {Row(c, "allow")}
          BY <3>3, <4>2 DEF CommitConsume, Charges, Row
        <5>3. Cardinality(Charges(s)') = Cardinality(Charges(s)) + 1
          BY <2>1, <5>1, <5>2, FS_AddElement DEF Charges
        <5>4. session[s] \in Lease /\ (session[s].maxUses = 0 \/ session[s].uses < session[s].maxUses)
          BY <3>3, <4>2 DEF LeaseUsable
        <5>5. session'[s].uses = session[s].uses + 1 /\ session'[s].maxUses = session[s].maxUses
          BY <3>3, <4>2, <5>4 DEF CommitConsume, Lease
        <5>6. session[s] # Nil
          BY <5>4, NilAssumption
        <5> QED BY <2>0, <5>3, <5>4, <5>5, <5>6 DEF Lease
      <4> QED BY <4>1, <4>2
    <3> QED BY <2>8, <3>1, <3>2, <3>3, CallAudit DEF CommitConsume
  <2>9. ASSUME NEW c \in Call, StartAgent(c) \/ StartSession(c)
        PROVE  session' = session /\ Charges(s)' = Charges(s)
    BY <2>5, <2>9 DEF StartAgent, StartSession, Start, storeVars
  <2>10. ASSUME Tick \/ Crash \/ UNCHANGED vars
         PROVE  session' = session /\ Charges(s)' = Charges(s)
    BY <2>5, <2>10 DEF Tick, Crash, BrokerCrash, vars, storeVars
  <2> QED BY <2>2, <2>6, <2>7, <2>8, <2>9, <2>10 DEF Next, BrokerStep
<1>4. Init => UsesAreCharged
  BY <1>1, <1>2
<1>5. Inv /\ RowsOfCalls /\ UsesAreCharged /\ [Next]_vars => UsesAreCharged'
  BY <1>1, <1>3 DEF UsesAreCharged, Charges
<1> HIDE DEF Charged
<1> QED BY <1>4, <1>5, RowsInit, RowsNext, InvHolds, PTL DEF Spec

-----------------------------------------------------------------------------
(* Veil implements the ledger of uses.                                     *)

\* The ledger and the meters that a state of Veil stands for.
Entries == {row \in audit : row.call # Nil /\ row.decision = "allow"}
MeterOf(lease) == IF lease = Nil THEN Nil
                  ELSE [limit |-> lease.maxUses, used |-> lease.uses]
Meters  == [s \in Session |-> MeterOf(session[s])]

LEMMA InitLedger == Init => Ledger!LedgerInit
<1> SUFFICES ASSUME Init PROVE Ledger!LedgerInit
  OBVIOUS
<1>1. Entries = {} /\ sent = {}
  BY DEF Init, BrokerInit, Entries
<1>2. ASSUME NEW s \in Session
      PROVE  MeterOf(session[s]) \in [limit : Nat, used : {0}] \cup {Nil}
  <2>1. CASE session[s] = Nil
    BY <2>1 DEF MeterOf
  <2>2. CASE session[s] # Nil
    <3>1. session[s] \in HandedOut
      BY <2>2 DEF Init
    <3>2. session[s].maxUses \in Nat /\ session[s].uses = 0
      BY <3>1, OwnerAssumption DEF HandedOut, NewLease
    <3> QED BY <2>2, <3>2 DEF MeterOf
  <2> QED BY <2>1, <2>2
<1>3. Meters \in [Session -> [limit : Nat, used : {0}] \cup {Nil}]
  BY <1>2 DEF Meters
<1> QED BY <1>1, <1>3 DEF Ledger!LedgerInit, Entries, Meters, MeterOf

\* Only Fetch sends, and it writes nothing in the store.
LEMMA CallSends ==
  ASSUME NEW c \in Call, CallStep(c)
  PROVE  \/ sent' = sent
         \/ pc[c] = "fetch" /\ sent' = sent \cup {c} /\ UNCHANGED storeVars
<1> USE DEF Goto
<1>1. CASE ReadAuth(c) \/ Unauthorized(c) \/ Reload(c) \/ ReadFails(c) \/ ReadSecret(c)
           \/ SecretGone(c)
  BY <1>1 DEF ReadAuth, Unauthorized, Reload, ReadFails, ReadSecret, SecretGone
<1>2. CASE AuditAllow(c) \/ AuditFails(c) \/ AuditRefusal(c)
  BY <1>2 DEF AuditAllow, AuditFails, AuditRefusal
<1>3. CASE Consume(c) \/ ConsumeSnapshot(c) \/ ConsumeUpdate(c) \/ ConsumeCommit(c)
           \/ ConsumeRefused(c) \/ ConsumeFails(c) \/ ConsumeUnacknowledged(c)
  BY <1>3 DEF Consume, ConsumeSnapshot, ConsumeUpdate, ConsumeCommit, ConsumeRefused,
              ConsumeFails, ConsumeUnacknowledged
<1>4. CASE Fetch(c)
  BY <1>4 DEF Fetch
<1> QED BY <1>1, <1>2, <1>3, <1>4 DEF CallStep, Progress, Failure

\* A step that leaves entries, meters and sent calls as they are is a stutter.
LEMMA QuietStep ==
  Entries' = Entries /\ Meters' = Meters /\ sent' = sent => UNCHANGED Ledger!ledgerVars
BY DEF Ledger!ledgerVars, Entries, Meters, MeterOf

\* The owner opens leases and retires them, and changes neither limit nor uses.
LEMMA OwnerLedger ==
  ASSUME Inv, RowsOfCalls, OwnerStep, UNCHANGED brokerVars
  PROVE  Ledger!LedgerNext \/ UNCHANGED Ledger!ledgerVars
<1> USE DEF Inv, TypeOK, StoreTypeOK
<1>1. sent' = sent
  BY DEF brokerVars
<1>2. Entries' = Entries
  BY OwnerAudit DEF Entries
<1>3. CASE session' = session
  <2>1. Meters' = Meters
    BY <1>3 DEF Meters
  <2> QED BY <1>1, <1>2, <2>1, QuietStep
<1>4. ASSUME NEW s \in Session, RevokeSession(s) PROVE Meters' = Meters
  <2>1. session[s] \in Lease
    BY <1>4 DEF RevokeSession, StoreRevokeSession
  <2>2. MeterOf(session'[s]) = MeterOf(session[s])
    BY <1>4, <2>1, NilAssumption DEF RevokeSession, StoreRevokeSession, MeterOf, Lease
  <2>3. \A t \in Session \ {s} : session'[t] = session[t]
    BY <1>4 DEF RevokeSession, StoreRevokeSession
  <2> QED BY <2>2, <2>3 DEF Meters
<1>5. ASSUME NEW o \in Owner, RenewWrite(o) PROVE Meters' = Meters
  <2>1. CASE session' = session
    BY <2>1 DEF Meters
  <2>2. CASE session' # session
    <3> DEFINE s == handler[o].session
    <3>1. session[s] # Nil /\ session' = [session EXCEPT ![s].expires = handler[o].expires]
      BY <1>5, <2>2 DEF RenewWrite, WriteExpiry
    <3>2. \A t \in Session \ {s} : session'[t] = session[t]
      BY <3>1
    <3>3. handler[o].expires \in Expiry /\ s \in Session
      BY <1>5, HandlerKinds DEF RenewWrite, OwnerTypeOK
    <3>4. session[s] \in Lease /\ session'[s] = [session[s] EXCEPT !.expires = handler[o].expires]
      BY <3>1, <3>3
    <3>5. session'[s] \in Lease
      BY <3>3, <3>4 DEF Lease
    <3>6. MeterOf(session'[s]) = MeterOf(session[s])
      BY <3>4, <3>5, NilAssumption DEF MeterOf, Lease
    <3> HIDE DEF s
    <3> QED BY <3>2, <3>6 DEF Meters
  <2> QED BY <2>1, <2>2
<1>6. ASSUME NEW o \in Owner, NEW ttl \in SessionTTLs, NEW n \in UseLimits,
             CreateWrite(o, ttl, n)
      PROVE  Ledger!LedgerNext
  <2> PICK s : s = handler[o].session
    OBVIOUS
  <2> DEFINE new == [agent |-> handler[o].agent, created |-> clock,
                     expires |-> clock + ttl, revoked |-> Nil, ttl |-> ttl,
                     maxUses |-> n, uses |-> 0]
  <2>1. handler[o].op = "create" /\ s \in Session /\ session[s] = Nil
    BY <1>6, HandlerKinds DEF CreateWrite, FreshLeases, OwnerTypeOK
  <2>2. session' = [session EXCEPT ![s] = new]
    BY <1>6 DEF CreateWrite, PutSession
  <2>3. session'[s] # Nil
    <3>1. new \in Lease
      BY <1>6, <2>1, OwnerAssumption, StoreAssumption
         DEF Lease, Time, Expiry, OwnerTypeOK, HandlerState, Idle
    <3> HIDE DEF new
    <3> QED BY <2>1, <2>2, <3>1, NilAssumption
  <2>4. Meters[s] = Nil /\ Meters'[s] = [limit |-> n, used |-> 0]
    BY <2>1, <2>2, <2>3 DEF Meters, MeterOf
  <2>5. Meters' = [Meters EXCEPT ![s] = Meters'[s]]
    BY <2>1, <2>2 DEF Meters
  <2>6. \A e \in Entries : e.session # s
    BY <2>1, StoreAssumption DEF RowsOfCalls, Entries
  <2>7. Meters'[s] # Nil /\ Meters'[s].used = 0
    BY <2>4, OwnerAssumption, MeterAssumption
  <2> HIDE DEF new
  <2>8. Ledger!Open(s)
    BY <1>1, <1>2, <2>4, <2>5, <2>6, <2>7 DEF Ledger!Open, Entries, Meters, MeterOf
  <2> QED BY <2>1, <2>8 DEF Ledger!LedgerNext
<1>7. ASSUME NEW o \in Owner, SweepSessions(handler[o].cut) PROVE Ledger!LedgerNext
  <2>1. \A s \in Session : session'[s] \in {session[s], Nil}
    BY <1>7 DEF SweepSessions
  <2>2. \A s \in Session : Meters'[s] \in {Meters[s], Nil}
    BY <2>1 DEF Meters, MeterOf
  <2>3. Ledger!Retire
    BY <1>1, <1>2, <2>2 DEF Ledger!Retire, Entries, Meters, MeterOf
  <2> QED BY <2>3 DEF Ledger!LedgerNext
<1> QED
  BY <1>1, <1>2, <1>3, <1>4, <1>5, <1>6, <1>7, QuietStep, SessionWriters

\* A step of a call authorizes it, once, with its charge; or sends; or neither.
LEMMA CallLedger ==
  ASSUME Inv, RowsOfCalls, AuditedBeforeRelease, NEW c \in Call, CallStep(c)
  PROVE  Ledger!LedgerNext \/ UNCHANGED Ledger!ledgerVars
<1> USE DEF Inv, TypeOK, StoreTypeOK
<1>1. ASSUME pc[c] \notin {"idle", "release", "fetch", "done"}
      PROVE  \A e \in Entries : e.call # c
  BY <1>1, StoreAssumption DEF RowsOfCalls, Entries
<1>2. Row(c, "allow").call = c /\ c # Nil /\ Row(c, "allow").session = ctx[c].session
  BY StoreAssumption DEF Row
<1>3. CASE audit' = audit /\ session' = session
  <2>1. Entries' = Entries /\ Meters' = Meters
    BY <1>3 DEF Entries, Meters
  <2>2. CASE sent' = sent
    BY <2>1, <2>2, QuietStep
  <2>3. CASE pc[c] = "fetch" /\ sent' = sent \cup {c}
    <3>1. Row(c, "allow") \in Entries
      BY <1>2, <2>3 DEF AuditedBeforeRelease, Entries, Row
    <3>2. Ledger!HasEntry(c)
      BY <1>2, <3>1 DEF Ledger!HasEntry, Entries
    <3>3. Ledger!Send(c)
      BY <2>1, <2>3, <3>2 DEF Ledger!Send, Entries, Meters, MeterOf
    <3> QED BY <3>3 DEF Ledger!LedgerNext
  <2> QED BY <2>2, <2>3, CallSends
<1>4. ASSUME pc[c] \notin {"idle", "release", "fetch", "done"}, audit' = audit \cup {Row(c, "allow")},
             NEW s, s = ctx[c].session,
             \/ s = Nil /\ Meters' = Meters
             \/ s # Nil /\ Ledger!Charge(s)
      PROVE  Ledger!LedgerNext
  <2>1. sent' = sent
    BY <1>4, CallSends
  <2>2. Entries' = Entries \cup {Row(c, "allow")}
    BY <1>2, <1>4 DEF Entries, Row
  <2>3. Row(c, "allow") \in Entries' \ Entries
    BY <1>1, <1>2, <1>4, <2>2
  <2>4. ~ Ledger!HasEntry(c)
    BY <1>1, <1>4 DEF Ledger!HasEntry, Entries
  <2> PICK e : e = Row(c, "allow")
    OBVIOUS
  <2>5. e \in Entries' \ Entries /\ e.call = c /\ Entries' = Entries \cup {e}
    BY <1>2, <2>2, <2>3
  <2>6. e.session = s
    BY <1>2, <1>4
  <2>7. Ledger!Authorize(c)
    BY <1>4, <2>1, <2>4, <2>5, <2>6 DEF Ledger!Authorize, Entries, Meters, MeterOf
  <2> QED BY <2>7 DEF Ledger!LedgerNext
<1>5. ASSUME NEW d \in DecisionKind, pc[c] \notin {"idle", "release", "fetch", "done"},
             session' = session, audit' = audit \cup {Row(c, d)},
             d # "allow" \/ ctx[c].session = Nil
      PROVE  Ledger!LedgerNext \/ UNCHANGED Ledger!ledgerVars
  <2>1. Meters' = Meters /\ sent' = sent
    BY <1>5, CallSends DEF Meters
  <2>2. CASE d # "allow"
    <3>1. Entries' = Entries
      BY <1>5, <2>2 DEF Entries, Row
    <3> QED BY <2>1, <3>1, QuietStep
  <2>3. CASE d = "allow"
    BY <1>4, <1>5, <2>1, <2>3
  <2> QED BY <2>2, <2>3
<1>6. ASSUME pc[c] \notin {"idle", "release", "fetch", "done"}, ctx[c].session # Nil,
             LeaseUsable(ctx[c].session, ctx[c].now),
             CommitConsume(ctx[c].session, Row(c, "allow"))
      PROVE  Ledger!LedgerNext
  <2> PICK s : s = ctx[c].session
    OBVIOUS
  <2>1. s \in Session
    BY <1>6 DEF CallsWellFormed, WellFormed, BrokerTypeOK, Context
  <2>2. session[s] \in Lease /\ (session[s].maxUses = 0 \/ session[s].uses < session[s].maxUses)
    BY <1>6, <2>1 DEF LeaseUsable
  <2>3. session' = [session EXCEPT ![s].uses = @ + 1]
    BY <1>6 DEF CommitConsume
  <2>4. session'[s] = [session[s] EXCEPT !.uses = @ + 1] /\ session'[s] \in Lease
    BY <2>1, <2>2, <2>3 DEF Lease
  <2>5. /\ Meters[s] = [limit |-> session[s].maxUses, used |-> session[s].uses]
        /\ Meters'[s] = [limit |-> session[s].maxUses, used |-> session[s].uses + 1]
    BY <2>1, <2>2, <2>4, NilAssumption DEF Meters, MeterOf, Lease
  <2>6. Meters[s] # Nil
    <3>1. Meters[s] \in [limit : Nat, used : Nat]
      BY <2>2, <2>5 DEF Lease
    <3> QED BY <3>1, MeterAssumption
  <2>7. Meters' = [Meters EXCEPT ![s].used = @ + 1]
    <3>1. \A t \in Session \ {s} : session'[t] = session[t]
      BY <2>3
    <3>2. \A t \in Session \ {s} : Meters'[t] = Meters[t]
      BY <3>1 DEF Meters
    <3>3. Meters'[s] = [Meters[s] EXCEPT !.used = @ + 1]
      BY <2>5
    <3>4. Meters = [t \in Session |-> Meters[t]] /\ Meters' = [t \in Session |-> Meters'[t]]
      BY DEF Meters
    <3> QED BY <2>1, <3>2, <3>3, <3>4
  <2>8. Ledger!Charge(s)
    BY <2>2, <2>5, <2>6, <2>7 DEF Ledger!Charge, Meters, MeterOf
  <2>9. s # Nil /\ s = ctx[c].session
    BY <1>6
  <2>10. audit' = audit \cup {Row(c, "allow")}
    BY <1>6 DEF CommitConsume
  <2> QED BY <1>4, <1>6, <2>8, <2>9, <2>10
<1> QED BY <1>3, <1>5, <1>6, CallAudit

LEMMA StepLedger ==
  Inv /\ RowsOfCalls /\ AuditedBeforeRelease /\ [Next]_vars
    => [Ledger!LedgerNext]_(Ledger!ledgerVars)
<1> SUFFICES ASSUME Inv, RowsOfCalls, AuditedBeforeRelease, [Next]_vars
             PROVE  Ledger!LedgerNext \/ UNCHANGED Ledger!ledgerVars
  OBVIOUS
<1>1. ASSUME NEW c \in Call, StartAgent(c) \/ StartSession(c)
      PROVE  audit' = audit /\ session' = session /\ sent' = sent
  BY <1>1 DEF StartAgent, StartSession, Start, storeVars
<1>2. ASSUME (Tick /\ UNCHANGED <<ownerVars, brokerVars>>) \/ Crash \/ UNCHANGED vars
      PROVE  audit' = audit /\ session' = session /\ sent' = sent
  BY <1>2 DEF Tick, Crash, BrokerCrash, vars, storeVars, brokerVars
<1>3. audit' = audit /\ session' = session /\ sent' = sent => UNCHANGED Ledger!ledgerVars
  <2>1. audit' = audit /\ session' = session => Entries' = Entries /\ Meters' = Meters
    BY DEF Entries, Meters
  <2> QED BY <2>1, QuietStep
<1> QED BY <1>1, <1>2, <1>3, OwnerLedger, CallLedger DEF Next, BrokerStep

\* Calls, owner requests, the clock and crashes implement the ledger: one
\* entry for a call at most, charged with its use in one step within the
\* limit, never removed, and there before the secret goes upstream.
THEOREM ImplementsLedgerHolds == Spec => ImplementsLedger
<1>1. Spec => []RowsOfCalls
  BY RowsInit, RowsNext, InvHolds, PTL DEF Spec
<1> QED
  BY <1>1, InitLedger, StepLedger, InvHolds, AuditedHolds, PTL
     DEF Spec, ImplementsLedger, Ledger!LedgerSpec

=============================================================================
