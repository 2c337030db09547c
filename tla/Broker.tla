-------------------------------- MODULE Broker --------------------------------
(***************************************************************************)
(* Broker.Use and Broker.UseSession (internal/broker/broker.go): one call  *)
(* uses one item once, with an agent token or with a session token.        *)
(*                                                                         *)
(*   idle -Start-> admitted -ReadAuth-> reload  (agent token)              *)
(*                                      consume (session token)            *)
(*                                      refuse  (a refusal to audit)       *)
(*   reload  -Reload-> audit | refuse   audit -AuditAllow-> release        *)
(*   consume -Consume-> release | refuse    (SQLite)                       *)
(*   consume -ConsumeSnapshot-> updating -ConsumeUpdate-> committing       *)
(*           -ConsumeCommit-> release | refuse    (Postgres)               *)
(*   release -ReadSecret-> fetch -Fetch-> done                             *)
(*                                                                         *)
(* Each step is one store call or the upstream request; what lies between  *)
(* two of them is local to the call.  Other calls, the owner's requests    *)
(* and the clock run in between.                                           *)
(***************************************************************************)
EXTENDS Store, FiniteSets

CONSTANTS InFlight,       \* the weight of useLimit
          Actions,        \* requested actions
          ReadCommitted   \* TRUE: Postgres, FALSE: SQLite (_txlock=immediate)

ASSUME BrokerAssumption ==
  /\ InFlight \in Nat \ {0}
  /\ IsFiniteSet(Call)
  /\ Actions \subseteq ActionKind
  /\ ReadCommitted \in BOOLEAN

VARIABLES
  pc,       \* where each call is
  ctx,      \* what the call was asked, and the instant it was received
  outcome,  \* what the caller was told; before that the decision so far
  slots,    \* useLimit: calls admitted and not returned
  sent      \* calls whose request went upstream with the item's secret

brokerVars == <<pc, ctx, outcome, slots, sent>>

Stage == {"idle", "admitted", "reload", "audit", "consume", "updating",
          "committing", "refuse", "release", "fetch", "done"}

\* session = Nil for an agent-token call; the agent of a session call is the
\* agent the lease is bound to, known once ReadAuth has joined it.
Context == [session : Session \cup {Nil}, agent : Agent \cup {Nil}, item : Item,
            url : Url, action : ActionKind, now : Time]

ASSUME ContextAssumption == Nil \notin Context

Outcome == DecisionKind \cup {Nil, "overloaded", "unauthorized", "error",
                              "fetch_failed", "lost"}

BrokerTypeOK ==
  /\ pc \in [Call -> Stage]
  /\ ctx \in [Call -> Context \cup {Nil}]
  /\ outcome \in [Call -> Outcome]
  /\ slots \in Int
  /\ sent \subseteq Call

Running(c) == pc[c] \notin {"idle", "done"}

\* The audit row of call c.
Row(c, decision) ==
  [call |-> c, session |-> ctx[c].session, agent |-> ctx[c].agent,
   item |-> ctx[c].item, decision |-> decision]

Goto(c, stage) ==
  /\ pc' = [pc EXCEPT ![c] = stage]
  /\ UNCHANGED <<ctx, slots, sent>>

\* Return to the caller; the deferred Release gives the slot back.
Return(c, result) ==
  /\ pc' = [pc EXCEPT ![c] = "done"]
  /\ outcome' = [outcome EXCEPT ![c] = result]
  /\ slots' = slots - 1
  /\ UNCHANGED ctx

-----------------------------------------------------------------------------
\* TryAcquire: a call beyond the limit is turned away and holds nothing.
Start(c, s, a, i, url, action) ==
  /\ pc[c] = "idle"
  /\ ctx' = [ctx EXCEPT ![c] = [session |-> s, agent |-> a, item |-> i,
                                url |-> url, action |-> action, now |-> clock]]
  /\ IF slots < InFlight
     THEN /\ pc' = [pc EXCEPT ![c] = "admitted"]
          /\ slots' = slots + 1
          /\ UNCHANGED outcome
     ELSE /\ pc' = [pc EXCEPT ![c] = "done"]
          /\ outcome' = [outcome EXCEPT ![c] = "overloaded"]
          /\ UNCHANGED slots
  /\ UNCHANGED <<storeVars, sent>>

StartAgent(c)   == \E a \in Agent, i \in Item, url \in Url, action \in Actions :
                     Start(c, Nil, a, i, url, action)
StartSession(c) == \E s \in Session, i \in Item, url \in Url, action \in Actions :
                     Start(c, s, Nil, i, url, action)

\* The agent of the call once UseAuth has answered.
Caller(c) == IF ctx[c].session = Nil THEN ctx[c].agent
             ELSE session[ctx[c].session].agent

\* The decision on the snapshot UseAuth returns, with the two refusals of
\* useAuthorized that do not depend on the grant.
Decision(c) ==
  LET i == ctx[c].item IN
  IF item[i] = Nil THEN "deny"
  ELSE LET d == Evaluate(UseAuth(Caller(c), i, ctx[c].action, ctx[c].url,
                                 ctx[c].now)).decision
       IN IF d = "allow" /\ (i \notin Injectable \/ ctx[c].action # "fetch")
          THEN "deny" ELSE d

\* UseAuth / UseAuthSession and the decision.  An item that is not there is
\* refused at once; an agent-token call reloads its agent whatever the
\* decision is; a session call consumes only once it is allowed.
ReadAuth(c) ==
  /\ pc[c] = "admitted"
  /\ ctx[c].session # Nil => LeaseUsable(ctx[c].session, ctx[c].now)
  /\ ctx' = [ctx EXCEPT ![c].agent = Caller(c)]
  /\ outcome' = [outcome EXCEPT ![c] = Decision(c)]
  /\ pc' = [pc EXCEPT ![c] =
       IF item[ctx[c].item] = Nil THEN "refuse"
       ELSE IF ctx[c].session = Nil THEN "reload"
       ELSE IF Decision(c) = "allow" THEN "consume"
       ELSE "refuse"]
  /\ UNCHANGED <<storeVars, slots, sent>>

\* Mutant: this early return comes before the deferred Release.
UnauthorizedLeaks(c) ==
  /\ pc[c] = "admitted"
  /\ ctx[c].session # Nil /\ ~ LeaseUsable(ctx[c].session, ctx[c].now)
  /\ pc' = [pc EXCEPT ![c] = "done"]
  /\ outcome' = [outcome EXCEPT ![c] = "unauthorized"]
  /\ UNCHANGED <<storeVars, ctx, slots, sent>>

\* A lease that is missing, expired, revoked or exhausted.
Unauthorized(c) ==
  /\ pc[c] = "admitted"
  /\ ctx[c].session # Nil /\ ~ LeaseUsable(ctx[c].session, ctx[c].now)
  /\ Return(c, "unauthorized")
  /\ UNCHANGED <<storeVars, sent>>

\* The last look at the agent before an agent-token call is audited.
Reload(c) ==
  /\ pc[c] = "reload"
  /\ LET revoked == agent[ctx[c].agent] = "revoked" IN
     /\ outcome' = [outcome EXCEPT ![c] = IF revoked THEN "deny" ELSE @]
     /\ Goto(c, IF ~ revoked /\ outcome[c] = "allow" THEN "audit" ELSE "refuse")
  /\ UNCHANGED storeVars

\* auditUse: the row of a refusal is best effort, the answer does not wait
\* for it to be durable.
AuditRefusal(c) ==
  /\ pc[c] = "refuse"
  /\ AppendAudit(Row(c, outcome[c])) \/ UNCHANGED storeVars
  /\ Return(c, outcome[c])
  /\ UNCHANGED sent

\* Mutant: a row that cannot be written does not stop the call.
AuditAllowBestEffort(c) ==
  /\ pc[c] = "audit"
  /\ AppendAudit(Row(c, "allow")) \/ UNCHANGED storeVars
  /\ Goto(c, "release")
  /\ UNCHANGED outcome

\* appendAudit of an allowed agent-token call.
AuditAllow(c) ==
  /\ pc[c] = "audit"
  /\ AppendAudit(Row(c, "allow"))
  /\ Goto(c, "release")
  /\ UNCHANGED outcome

\* The row could not be written, or was written and the answer was lost.
AuditFails(c) ==
  /\ pc[c] = "audit"
  /\ AppendAudit(Row(c, "allow")) \/ UNCHANGED storeVars
  /\ Return(c, "error")
  /\ UNCHANGED sent

-----------------------------------------------------------------------------
(* ConsumeSessionAudited.  Under SQLite the transaction holds the write    *)
(* lock from its first statement and is one step.  Under Postgres (READ    *)
(* COMMITTED) the UPDATE sees lease and agent as of its start, waits for   *)
(* the session row, looks again at that row only, and commits later.       *)

CallerLive(c) == agent[session[ctx[c].session].agent] = "live"

\* Mutant: the agent is not looked at again.
ConsumableByLease(c) == LeaseUsable(ctx[c].session, ctx[c].now)

Consumable(c) == LeaseUsable(ctx[c].session, ctx[c].now) /\ CallerLive(c)

Consume(c) ==
  /\ pc[c] = "consume" /\ ~ ReadCommitted
  /\ Consumable(c)
  /\ CommitConsume(ctx[c].session, Row(c, "allow"))
  /\ Goto(c, "release")
  /\ UNCHANGED outcome

ConsumeSnapshot(c) ==
  /\ pc[c] = "consume" /\ ReadCommitted
  /\ Consumable(c)
  /\ Goto(c, "updating")
  /\ UNCHANGED <<storeVars, outcome>>

\* Mutant: the lease read in the snapshot is not looked at again after the
\* wait for its row.
ConsumeUpdateStale(c) ==
  /\ pc[c] = "updating"
  /\ session[ctx[c].session] # Nil
  /\ LockLease(ctx[c].session)
  /\ Goto(c, "committing")
  /\ UNCHANGED outcome

ConsumeUpdate(c) ==
  /\ pc[c] = "updating"
  /\ LeaseUsable(ctx[c].session, ctx[c].now)
  /\ LockLease(ctx[c].session)
  /\ Goto(c, "committing")
  /\ UNCHANGED outcome

\* Mutant: the transaction is left open.
ConsumeCommitHolds(c) ==
  /\ pc[c] = "committing"
  /\ session' = [session EXCEPT ![ctx[c].session].uses = @ + 1]
  /\ audit' = audit \cup {Row(c, "allow")}
  /\ Goto(c, "release")
  /\ UNCHANGED <<clock, agent, item, grant, approval, locked, outcome>>

ConsumeCommit(c) ==
  /\ pc[c] = "committing"
  /\ CommitConsume(ctx[c].session, Row(c, "allow"))
  /\ Goto(c, "release")
  /\ UNCHANGED outcome

\* The final revocation race guard: the lease or its agent is gone by now.
ConsumeRefused(c) ==
  /\ \/ pc[c] = "consume" /\ ~ Consumable(c)
     \/ /\ pc[c] = "updating" /\ ctx[c].session \notin locked
        /\ ~ LeaseUsable(ctx[c].session, ctx[c].now)
  /\ outcome' = [outcome EXCEPT ![c] = "deny"]
  /\ Goto(c, "refuse")
  /\ UNCHANGED storeVars

\* The transaction does not commit.
ConsumeFails(c) ==
  /\ \/ pc[c] \in {"consume", "updating"} /\ UNCHANGED storeVars
     \/ pc[c] = "committing" /\ RollbackConsume(ctx[c].session)
  /\ Return(c, "error")
  /\ UNCHANGED sent

\* It commits, and the answer is lost.
ConsumeUnacknowledged(c) ==
  /\ \/ pc[c] = "consume" /\ ~ ReadCommitted /\ Consumable(c)
     \/ pc[c] = "committing"
  /\ CommitConsume(ctx[c].session, Row(c, "allow"))
  /\ Return(c, "error")
  /\ UNCHANGED sent

-----------------------------------------------------------------------------
\* Store.Secret reads the item row as it is by now.
ReadSecret(c) ==
  /\ pc[c] = "release"
  /\ item[ctx[c].item] # Nil
  /\ Goto(c, "fetch")
  /\ UNCHANGED <<storeVars, outcome>>

\* The request goes out with the credential, or fails before it does (the
\* OAuth exchange, the TOTP mint); in both cases it may end in an error.
Fetch(c) ==
  /\ pc[c] = "fetch"
  /\ \/ sent' = sent \cup {c} /\ (Return(c, "allow") \/ Return(c, "fetch_failed"))
     \/ sent' = sent /\ Return(c, "fetch_failed")
  /\ UNCHANGED storeVars

\* The item has been deleted since it was authorized.
SecretGone(c) ==
  /\ pc[c] = "release" /\ item[ctx[c].item] = Nil
  /\ Return(c, "error")
  /\ UNCHANGED <<storeVars, sent>>

\* A read fails: UseAuth, the reload, or Secret.
ReadFails(c) ==
  /\ pc[c] \in {"admitted", "reload", "release"}
  /\ Return(c, "error")
  /\ UNCHANGED <<storeVars, sent>>

-----------------------------------------------------------------------------
BrokerInit ==
  /\ pc = [c \in Call |-> "idle"]
  /\ ctx = [c \in Call |-> Nil]
  /\ outcome = [c \in Call |-> Nil]
  /\ slots = 0
  /\ sent = {}

\* What the broker does on its own once a call has started.
Progress(c) ==
  \/ ReadAuth(c) \/ Unauthorized(c) \/ Reload(c)
  \/ AuditRefusal(c) \/ AuditAllow(c)
  \/ Consume(c) \/ ConsumeSnapshot(c) \/ ConsumeUpdate(c) \/ ConsumeCommit(c)
  \/ ConsumeRefused(c)
  \/ ReadSecret(c) \/ SecretGone(c) \/ Fetch(c)

\* What the store may do to it.
Failure(c) ==
  AuditFails(c) \/ ConsumeFails(c) \/ ConsumeUnacknowledged(c) \/ ReadFails(c)

CallStep(c) == Progress(c) \/ Failure(c)

BrokerStep ==
  \E c \in Call : StartAgent(c) \/ StartSession(c) \/ CallStep(c)

\* The origin process stops: its calls and its semaphore are gone, its store
\* is not, and an open transaction is rolled back.
BrokerCrash ==
  /\ \E c \in Call : Running(c)
  /\ pc' = [c \in Call |-> IF Running(c) THEN "done" ELSE pc[c]]
  /\ outcome' = [c \in Call |-> IF Running(c) THEN "lost" ELSE outcome[c]]
  /\ slots' = 0
  /\ locked' = {}
  /\ UNCHANGED <<ctx, sent, clock, agent, item, grant, approval, session, audit>>

=============================================================================
