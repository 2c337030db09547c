-------------------------------- MODULE Owner --------------------------------
(***************************************************************************)
(* The owner's handlers (internal/app app.go and session.go, veil sweep).  *)
(* A handler that makes one store call is one action.  A handler that      *)
(* reads and then writes, or that issues several statements, remembers in  *)
(* handler[o] what it has read and what it has still to do; other          *)
(* processes run in between.  The caller has already been found to own the *)
(* vault: that check changes nothing and depends on nothing here.          *)
(***************************************************************************)
EXTENDS Store

CONSTANTS Owner,         \* owner requests in progress at the same time
          Ops,           \* the owner operations a run lets happen
          Levels,        \* grant levels an owner asks for
          GrantLives,    \* requested grant lifetimes, Nil for ever
          ApprovalLives, \* requested approval lifetimes
          SessionTTLs,   \* requested session lifetimes
          UseLimits,     \* requested max_uses, 0 for unlimited
          Keeps          \* veil sweep --keep

ASSUME OwnerAssumption ==
  /\ Levels \subseteq {"level1", "level2"}
  /\ GrantLives \subseteq (0 .. MaxTTL) \cup {Nil}
  /\ ApprovalLives \subseteq 0 .. MaxTTL
  /\ SessionTTLs \subseteq 1 .. MaxTTL
  /\ UseLimits \subseteq Nat
  /\ Keeps \subseteq Nat

VARIABLES handler,  \* the owner requests in progress
          minted    \* the session ids handed out: id.NewSession never repeats

ownerVars == <<handler, minted>>

Idle == [op |-> "idle"]

HandlerState ==
  {Idle}
  \cup [op : {"grant"}, agent : Agent, item : Item, row : GrantRow]
  \cup [op : {"approve"}, agent : Agent, item : Item, expires : Expiry]
  \cup [op : {"update"}, item : Item, row : ItemRow]
  \cup [op : {"delete"}, item : Item, stage : {"grants", "row"}]
  \cup [op : {"create"}, session : Session, agent : Agent]
  \cup [op : {"renew"}, session : Session, expires : Expiry]
  \cup [op : {"sweep"}, cut : Int, stage : {"sessions", "grants", "approvals"}]

OwnerTypeOK == handler \in [Owner -> HandlerState] /\ minted \subseteq Session

Begin(o, op, state) ==
  /\ op \in Ops
  /\ handler[o] = Idle
  /\ handler' = [handler EXCEPT ![o] = state]

Advance(o, stage) ==
  /\ handler' = [handler EXCEPT ![o].stage = stage]
  /\ UNCHANGED minted

Finish(o) ==
  /\ handler' = [handler EXCEPT ![o] = Idle]
  /\ UNCHANGED minted

-----------------------------------------------------------------------------
(* Handlers of one store call.                                             *)

AddAgent(a) ==
  /\ "agent" \in Ops
  /\ PutAgent(a)
  /\ UNCHANGED ownerVars

\* An agent that is already revoked returns early, without a second row.
RevokeAgent(a) ==
  /\ "revoke_agent" \in Ops
  /\ agent[a] = "live"
  /\ StoreRevokeAgent(a)
  /\ UNCHANGED ownerVars

\* App.PutItem: the row of an item that is added, or added again under the
\* same id, is not archived.
PutItem(i, uris) ==
  /\ "item" \in Ops
  /\ StorePutItem(i, [archived |-> FALSE, uris |-> uris])
  /\ UNCHANGED ownerVars

ArchiveItem(i) ==
  /\ "archive" \in Ops
  /\ StoreArchiveItem(i)
  /\ UNCHANGED ownerVars

RevokeSession(s) ==
  /\ "revoke_session" \in Ops
  /\ StoreRevokeSession(s, clock)
  /\ UNCHANGED ownerVars

-----------------------------------------------------------------------------
(* UpdateItem: the row is read, its URIs are replaced and the whole row is *)
(* written back, with the archived flag that was read.  PutItem inserts    *)
(* the row if it is no longer there.                                       *)

UpdateRead(o, i, uris) ==
  /\ item[i] # Nil
  /\ Begin(o, "update", [op |-> "update", item |-> i,
                         row |-> [item[i] EXCEPT !.uris = uris]])
  /\ UNCHANGED <<storeVars, minted>>

UpdateWrite(o) ==
  /\ handler[o].op = "update"
  /\ StorePutItem(handler[o].item, handler[o].row)
  /\ Finish(o)

(* GrantUntil: agent and item are read, then the row is written.           *)

GrantCheck(o, a, i, level, life) ==
  /\ agent[a] = "live"
  /\ item[i] # Nil /\ ~ item[i].archived
  /\ Begin(o, "grant",
       [op |-> "grant", agent |-> a, item |-> i,
        row |-> [level |-> level,
                 expires |-> IF life = Nil THEN Nil ELSE clock + life]])
  /\ UNCHANGED <<storeVars, minted>>

GrantWrite(o) ==
  /\ handler[o].op = "grant"
  /\ StorePutGrant(handler[o].agent, handler[o].item, handler[o].row)
  /\ Finish(o)

(* Approve, ApproveOIDC: the grant is looked up by id, then the approval  *)
(* is written; which human or member approves makes no difference here.   *)

ApproveCheck(o, a, i, life) ==
  /\ grant[<<a, i>>] # Nil
  /\ Begin(o, "approve", [op |-> "approve", agent |-> a, item |-> i,
                          expires |-> clock + life])
  /\ UNCHANGED <<storeVars, minted>>

ApproveWrite(o) ==
  /\ handler[o].op = "approve"
  /\ PutApproval(handler[o].agent, handler[o].item, handler[o].expires)
  /\ Finish(o)

(* DeleteItem: the item is looked up, then its versions and grants and     *)
(* finally its row are deleted, each statement on its own.  Approvals stay.*)

DeleteCheck(o, i) ==
  /\ item[i] # Nil
  /\ Begin(o, "delete", [op |-> "delete", item |-> i, stage |-> "grants"])
  /\ UNCHANGED <<storeVars, minted>>

DeleteGrants(o) ==
  /\ handler[o].op = "delete" /\ handler[o].stage = "grants"
  /\ DeleteItemGrants(handler[o].item)
  /\ Advance(o, "row")

DeleteRow(o) ==
  /\ handler[o].op = "delete" /\ handler[o].stage = "row"
  /\ DeleteItemRow(handler[o].item)
  /\ Finish(o)

-----------------------------------------------------------------------------
(* CreateSession: the agent is read, then a lease with a fresh id is       *)
(* written.                                                                *)

CreateCheck(o, s, a) ==
  /\ agent[a] = "live"
  /\ s \notin minted
  /\ minted' = minted \cup {s}
  /\ Begin(o, "session", [op |-> "create", session |-> s, agent |-> a])
  /\ UNCHANGED storeVars

CreateWrite(o, ttl, maxUses) ==
  /\ handler[o].op = "create"
  /\ PutSession(handler[o].session,
       [agent |-> handler[o].agent, created |-> clock, expires |-> clock + ttl,
        revoked |-> Nil, ttl |-> ttl, maxUses |-> maxUses, uses |-> 0])
  /\ Finish(o)

(* RenewSession: the lease is read and its next expiry computed, then the  *)
(* expiry alone is written.                                                *)

MinOf(x, y) == IF x < y THEN x ELSE y
MaxOf(x, y) == IF x < y THEN y ELSE x

\* Mutant: the cap is forgotten.
RenewedExpiryUncapped(lease) == lease.expires + lease.ttl

\* One more ttl, never past created + MaxTTL, never before the current expiry.
RenewedExpiry(lease) ==
  MaxOf(lease.expires, MinOf(lease.expires + lease.ttl, lease.created + MaxTTL))

RenewRead(o, s) ==
  /\ session[s] # Nil
  /\ session[s].revoked = Nil
  /\ session[s].expires > clock
  /\ Begin(o, "renew", [op |-> "renew", session |-> s,
                        expires |-> RenewedExpiry(session[s])])
  /\ UNCHANGED <<storeVars, minted>>

RenewWrite(o) ==
  /\ handler[o].op = "renew"
  /\ WriteExpiry(handler[o].session, handler[o].expires)
  /\ Finish(o)

-----------------------------------------------------------------------------
(* Sweep: sessions, grants, approvals, in this order, with one cutoff.     *)

SweepBegin(o, keep) ==
  /\ Begin(o, "sweep", [op |-> "sweep", cut |-> clock - keep,
                        stage |-> "sessions"])
  /\ UNCHANGED <<storeVars, minted>>

SweepStep(o) ==
  /\ handler[o].op = "sweep"
  /\ \/ /\ handler[o].stage = "sessions"
        /\ SweepSessions(handler[o].cut)
        /\ Advance(o, "grants")
     \/ /\ handler[o].stage = "grants"
        /\ SweepGrants(handler[o].cut)
        /\ Advance(o, "approvals")
     \/ /\ handler[o].stage = "approvals"
        /\ SweepApprovals(handler[o].cut)
        /\ Finish(o)

\* A statement fails: the handler returns its error and leaves what it did.
HandlerFails(o) ==
  /\ handler[o] # Idle
  /\ Finish(o)
  /\ UNCHANGED storeVars

-----------------------------------------------------------------------------
OwnerStep ==
  \/ \E a \in Agent : AddAgent(a) \/ RevokeAgent(a)
  \/ \E i \in Item, uris \in SUBSET Url : PutItem(i, uris)
  \/ \E i \in Item : ArchiveItem(i)
  \/ \E s \in Session : RevokeSession(s)
  \/ \E o \in Owner :
       \/ \E a \in Agent, i \in Item :
            \/ \E level \in Levels, life \in GrantLives :
                 GrantCheck(o, a, i, level, life)
            \/ \E life \in ApprovalLives : ApproveCheck(o, a, i, life)
       \/ \E i \in Item, uris \in SUBSET Url : UpdateRead(o, i, uris)
       \/ \E i \in Item : DeleteCheck(o, i)
       \/ \E s \in Session, a \in Agent : CreateCheck(o, s, a)
       \/ \E ttl \in SessionTTLs, n \in UseLimits : CreateWrite(o, ttl, n)
       \/ \E s \in Session : RenewRead(o, s)
       \/ \E keep \in Keeps : SweepBegin(o, keep)
       \/ UpdateWrite(o) \/ GrantWrite(o) \/ ApproveWrite(o) \/ RenewWrite(o)
       \/ DeleteGrants(o) \/ DeleteRow(o) \/ SweepStep(o) \/ HandlerFails(o)

-----------------------------------------------------------------------------
\* What a call with session s (or, without one, agent a) that is received at
\* instant t would be told by the authorization queries.
Answer(s, a, i, url, t) ==
  LET caller == IF s = Nil THEN a ELSE session[s].agent IN
  IF s # Nil /\ ~ LeaseUsable(s, t) THEN "unauthorized"
  ELSE IF item[i] = Nil THEN "item_not_found"
  ELSE Evaluate(UseAuth(caller, i, "fetch", url, t)).decision

\* Expiry semantics are unaffected by a sweep (store.go): each of its three
\* statements leaves every answer to a call received at its cutoff or later
\* as it was.
SweepIsInvisible ==
  [][\A o \in Owner : SweepStep(o) =>
       \A s \in Session \cup {Nil}, a \in Agent, i \in Item, url \in Url :
         \A t \in {u \in Time : u >= handler[o].cut} :
           Answer(s, a, i, url, t)' = Answer(s, a, i, url, t)]_<<storeVars, ownerVars>>

=============================================================================
