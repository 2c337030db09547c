-------------------------------- MODULE Store --------------------------------
(***************************************************************************)
(* The origin's store (internal/store) as the Use path and the owner       *)
(* handlers see it: one row per agent, item, grant, approval and session,  *)
(* the audit table, and the clock every handler reads.                     *)
(*                                                                         *)
(* Each action is one SQL statement or one transaction: it commits as a    *)
(* whole.  Handlers that issue several of them are in Owner and Broker.    *)
(* The in-memory store holds one mutex over the same effects.              *)
(***************************************************************************)
EXTENDS Grant

CONSTANTS Agent, Item, Session, Call,
          Url,        \* destinations and item URIs
          Injectable, \* the items whose kind may leave in a request
          MaxClock,   \* bound: the last second the clock shows
          MaxTTL      \* app.SessionTTLMax, in seconds

ASSUME StoreAssumption ==
  /\ MaxClock \in Nat /\ MaxTTL \in Nat \ {0}
  /\ Injectable \subseteq Item
  /\ Nil \notin Agent \cup Item \cup Session \cup Call \cup Url

VARIABLES
  clock,     \* time.Now, in whole seconds as the store keeps them
  agent,     \* agents: "absent", "live", or "revoked" (revoked_at is set)
  item,      \* items: Nil or [archived, uris]; the sealed secret is in the row
  grant,     \* grants by (agent, item): Nil or [level, expires]
  approval,  \* approvals by grant id, so by (agent, item): Nil or the expiry
  session,   \* sessions: Nil or a Lease
  audit,     \* rows of the audit table
  locked     \* session rows an open transaction has updated

storeVars == <<clock, agent, item, grant, approval, session, audit, locked>>

Time   == 0 .. MaxClock
Expiry == 0 .. MaxClock + MaxTTL       \* every expiry is minted from the clock

ItemRow  == [archived : BOOLEAN, uris : SUBSET Url]
GrantRow == [level : {"level1", "level2"}, expires : Expiry \cup {Nil}]
Lease    == [agent : Agent, created : Time, expires : Expiry,
             revoked : Time \cup {Nil}, ttl : 1 .. MaxTTL, maxUses : Nat,
             uses : Nat]

\* No row at all is not a row.
ASSUME NilAssumption == Nil \notin ItemRow \cup GrantRow \cup Lease

\* An audit row, with the call that wrote it (Nil for an owner's revoke) and
\* the session it was charged to (Nil for an agent-token call).  These two are
\* no columns of the table: the properties need them to tell rows apart.
AuditRow == [call : Call \cup {Nil}, session : Session \cup {Nil},
             agent : Agent \cup {Nil}, item : Item \cup {Nil},
             decision : DecisionKind]

StoreTypeOK ==
  /\ clock \in Time
  /\ agent \in [Agent -> {"absent", "live", "revoked"}]
  /\ item \in [Item -> ItemRow \cup {Nil}]
  /\ grant \in [Agent \X Item -> GrantRow \cup {Nil}]
  /\ approval \in [Agent \X Item -> Expiry \cup {Nil}]
  /\ session \in [Session -> Lease \cup {Nil}]
  /\ audit \subseteq AuditRow
  /\ locked \subseteq Session

-----------------------------------------------------------------------------
(* Reads.                                                                  *)

\* UseAuth: agent, item, grant and live approval of one call, in one
\* statement, as the input of Evaluate.  The principal of an agent that has
\* no row keeps the empty kind.  A grant row joins through the item row, and
\* an expired approval is no row.
UseAuth(a, i, action, url, now) ==
  [principal |-> [kind |-> IF agent[a] = "absent" THEN Nil ELSE "agent",
                  id |-> a, org |-> Nil, revoked |-> agent[a] = "revoked"],
   item      |-> [id |-> i, org |-> Nil, archived |-> item[i].archived,
                  uris |-> item[i].uris],
   grant     |-> IF grant[<<a, i>>] = Nil THEN Nil
                 ELSE [id |-> <<a, i>>, org |-> Nil, agent |-> a, item |-> i,
                       level |-> grant[<<a, i>>].level, actions |-> {"fetch"},
                       expires |-> grant[<<a, i>>].expires],
   approval  |-> IF approval[<<a, i>>] = Nil \/ now >= approval[<<a, i>>]
                 THEN Nil
                 ELSE [id |-> <<a, i>>, grant |-> <<a, i>>,
                       expires |-> approval[<<a, i>>]],
   action |-> action, url |-> url, now |-> now]

\* Mutant: the limit is compared with <=.
LeaseUsableOnceMore(s, now) ==
  /\ session[s] # Nil /\ now < session[s].expires /\ session[s].revoked = Nil
  /\ session[s].maxUses = 0 \/ session[s].uses <= session[s].maxUses

\* Mutant: the expiry instant itself still counts.
LeaseUsableAtExpiry(s, now) ==
  /\ session[s] # Nil /\ now <= session[s].expires /\ session[s].revoked = Nil
  /\ session[s].maxUses = 0 \/ session[s].uses < session[s].maxUses

\* Mutant: revoked_at IS NULL is missing.
LeaseUsableRevoked(s, now) ==
  /\ session[s] # Nil /\ now < session[s].expires
  /\ session[s].maxUses = 0 \/ session[s].uses < session[s].maxUses

\* The WHERE clause of UseAuthSession and of consumeSession: the lease exists
\* and is not expired at now, not revoked and not exhausted.
LeaseUsable(s, now) ==
  /\ session[s] # Nil
  /\ now < session[s].expires
  /\ session[s].revoked = Nil
  /\ session[s].maxUses = 0 \/ session[s].uses < session[s].maxUses

-----------------------------------------------------------------------------
(* Writes.                                                                 *)

\* Mutant: the upsert writes revoked_at = NULL.
PutAgentRevives(a) ==
  /\ agent' = [agent EXCEPT ![a] = "live"]
  /\ UNCHANGED <<clock, item, grant, approval, session, audit, locked>>

\* PutAgent keeps an earlier revocation (COALESCE): re-adding never revives.
PutAgent(a) ==
  /\ agent' = [agent EXCEPT ![a] = IF @ = "absent" THEN "live" ELSE @]
  /\ UNCHANGED <<clock, item, grant, approval, session, audit, locked>>

\* RevokeAgent: revocation and its audit row in one transaction.
StoreRevokeAgent(a) ==
  /\ agent[a] # "absent"
  /\ agent' = [agent EXCEPT ![a] = "revoked"]
  /\ audit' = audit \cup {[call |-> Nil, session |-> Nil, agent |-> a,
                           item |-> Nil, decision |-> "allow"]}
  /\ UNCHANGED <<clock, item, grant, approval, session, locked>>

StorePutItem(i, row) ==
  /\ item' = [item EXCEPT ![i] = row]
  /\ UNCHANGED <<clock, agent, grant, approval, session, audit, locked>>

StoreArchiveItem(i) ==
  /\ item[i] # Nil
  /\ item' = [item EXCEPT ![i].archived = TRUE]
  /\ UNCHANGED <<clock, agent, grant, approval, session, audit, locked>>

\* DELETE FROM grants WHERE item_id = i, the second statement of DeleteItem.
DeleteItemGrants(i) ==
  /\ grant' = [p \in Agent \X Item |-> IF p[2] = i THEN Nil ELSE grant[p]]
  /\ UNCHANGED <<clock, agent, item, approval, session, audit, locked>>

\* DELETE FROM items WHERE id = i, its third.
DeleteItemRow(i) ==
  /\ item' = [item EXCEPT ![i] = Nil]
  /\ UNCHANGED <<clock, agent, grant, approval, session, audit, locked>>

StorePutGrant(a, i, row) ==
  /\ grant' = [grant EXCEPT ![<<a, i>>] = row]
  /\ UNCHANGED <<clock, agent, item, approval, session, audit, locked>>

PutApproval(a, i, expires) ==
  /\ approval' = [approval EXCEPT ![<<a, i>>] = expires]
  /\ UNCHANGED <<clock, agent, item, grant, session, audit, locked>>

PutSession(s, lease) ==
  /\ session' = [session EXCEPT ![s] = lease]
  /\ UNCHANGED <<clock, agent, item, grant, approval, audit, locked>>

\* COALESCE keeps the first revocation.
StoreRevokeSession(s, at) ==
  /\ session[s] # Nil /\ s \notin locked
  /\ session' = [session EXCEPT ![s].revoked = IF @ = Nil THEN at ELSE @]
  /\ UNCHANGED <<clock, agent, item, grant, approval, audit, locked>>

\* Mutant: the renewal writes back the whole lease it was computed from.
WriteExpiryRevives(s, expires) ==
  /\ s \notin locked
  /\ session' = IF session[s] = Nil THEN session
                ELSE [session EXCEPT ![s].expires = expires, ![s].revoked = Nil]
  /\ UNCHANGED <<clock, agent, item, grant, approval, audit, locked>>

\* The UPDATE that ends RenewSession: by id only, so it writes whatever the
\* row has become since it was read, and nothing if the row is gone.
WriteExpiry(s, expires) ==
  /\ s \notin locked
  /\ session' = IF session[s] = Nil THEN session
                ELSE [session EXCEPT ![s].expires = expires]
  /\ UNCHANGED <<clock, agent, item, grant, approval, audit, locked>>

\* AppendAudit
AppendAudit(row) ==
  /\ audit' = audit \cup {row}
  /\ UNCHANGED <<clock, agent, item, grant, approval, session, locked>>

\* Mutant: the row is updated without waiting for the transaction that holds it.
LockLeaseAlways(s) ==
  /\ locked' = locked \cup {s}
  /\ UNCHANGED <<clock, agent, item, grant, approval, session, audit>>

\* The UPDATE of a consumeSession that does not commit at once (Postgres): it
\* locks the session row and no other.  Every other write of that row waits.
LockLease(s) ==
  /\ s \notin locked
  /\ locked' = locked \cup {s}
  /\ UNCHANGED <<clock, agent, item, grant, approval, session, audit>>

\* What a committed ConsumeSessionAudited leaves: one more use and the row.
CommitConsume(s, row) ==
  /\ session' = [session EXCEPT ![s].uses = @ + 1]
  /\ audit' = audit \cup {row}
  /\ locked' = locked \ {s}
  /\ UNCHANGED <<clock, agent, item, grant, approval>>

RollbackConsume(s) ==
  /\ locked' = locked \ {s}
  /\ UNCHANGED <<clock, agent, item, grant, approval, session, audit>>

\* Mutant: the sweep compares created_at.
SweepableByAge(lease, cut) == lease.created < cut

\* The three DELETEs of Sweep, each committed on its own.
Sweepable(lease, cut) ==
  \/ lease.expires < cut
  \/ lease.revoked # Nil /\ lease.revoked < cut

SweepSessions(cut) ==
  /\ \A s \in locked : ~ Sweepable(session[s], cut)
  /\ session' = [s \in Session |->
       IF session[s] # Nil /\ Sweepable(session[s], cut) THEN Nil
       ELSE session[s]]
  /\ UNCHANGED <<clock, agent, item, grant, approval, audit, locked>>

SweepGrants(cut) ==
  /\ grant' = [p \in Agent \X Item |->
       IF grant[p] # Nil /\ grant[p].expires # Nil /\ grant[p].expires < cut
       THEN Nil ELSE grant[p]]
  /\ UNCHANGED <<clock, agent, item, approval, session, audit, locked>>

SweepApprovals(cut) ==
  /\ approval' = [p \in Agent \X Item |->
       IF approval[p] # Nil /\ approval[p] < cut THEN Nil ELSE approval[p]]
  /\ UNCHANGED <<clock, agent, item, grant, session, audit, locked>>

Tick ==
  /\ clock < MaxClock
  /\ clock' = clock + 1
  /\ UNCHANGED <<agent, item, grant, approval, session, audit, locked>>

=============================================================================
