--------------------------------- MODULE Veil ---------------------------------
(***************************************************************************)
(* The origin: calls of the broker (Broker), requests of the owner (Owner) *)
(* and the passage of time interleaved over one store (Store), with a      *)
(* process that may crash and restart.                                     *)
(***************************************************************************)
EXTENDS Owner, Broker

CONSTANT Crashes          \* bound: TRUE in the runs where the process may crash

ASSUME CrashAssumption == Crashes \in BOOLEAN

vars == <<storeVars, ownerVars, brokerVars>>

TypeOK == StoreTypeOK /\ OwnerTypeOK /\ BrokerTypeOK

\* A lease just created, at the instant 0.
NewLease(a, ttl, n) ==
  [agent |-> a, created |-> 0, expires |-> ttl, revoked |-> Nil, ttl |-> ttl,
   maxUses |-> n, uses |-> 0]

HandedOut == {NewLease(a, ttl, n) : a \in Agent, ttl \in SessionTTLs, n \in UseLimits}

\* A vault that has been in use: its agents exist, its items have URIs, the
\* owner has granted some of them and has handed out some session leases.
Init ==
  /\ clock = 0
  /\ agent = [a \in Agent |-> "live"]
  /\ item \in [Item -> [archived : {FALSE}, uris : (SUBSET Url) \ {{}}]]
  /\ grant \in [Agent \X Item -> [level : Levels, expires : GrantLives] \cup {Nil}]
  /\ approval = [p \in Agent \X Item |-> Nil]
  /\ session \in [Session -> HandedOut \cup {Nil}]
  /\ audit = {}
  /\ locked = {}
  /\ handler = [o \in Owner |-> Idle]
  /\ minted = {s \in Session : session[s] # Nil}
  /\ BrokerInit

\* The process that serves both sides stops; veil sweep runs elsewhere but
\* may stop as well.
Crash ==
  /\ Crashes
  /\ BrokerCrash
  /\ handler' = [o \in Owner |-> Idle]
  /\ UNCHANGED minted

Next ==
  \/ OwnerStep /\ UNCHANGED brokerVars
  \/ BrokerStep /\ UNCHANGED ownerVars
  \/ Tick /\ UNCHANGED <<ownerVars, brokerVars>>
  \/ Crash

Spec == Init /\ [][Next]_vars

\* A call that has started goes on while it can: the store answers what it is
\* asked, a transaction that holds a row ends, and the HTTP client gives up
\* after 15 seconds.  Requests, the clock, failures and crashes are not
\* obliged to happen.
Fairness == \A c \in Call : WF_vars(Progress(c) /\ UNCHANGED ownerVars)

FairSpec == Spec /\ Fairness

-----------------------------------------------------------------------------
(* What is true between any two steps.                                     *)

\* A call that has started knows what it was asked; a session call is the
\* only one that consumes, an agent-token call the only one that reloads; a
\* call that goes on has been allowed, and only a refusal is refused; the
\* request is the last thing a call does.
WellFormed(c) ==
  /\ pc[c] # "idle" => ctx[c] # Nil
  /\ pc[c] # "idle" /\ ctx[c].session = Nil => ctx[c].agent \in Agent
  /\ pc[c] \in {"consume", "updating", "committing"} => ctx[c].session # Nil
  /\ pc[c] \in {"updating", "committing"} => ReadCommitted
  /\ pc[c] \in {"reload", "audit"} => ctx[c].session = Nil
  /\ pc[c] = "reload" => outcome[c] \in DecisionKind
  /\ pc[c] \in {"audit", "consume", "updating", "committing", "release", "fetch"} =>
       outcome[c] = "allow"
  /\ pc[c] = "refuse" => outcome[c] \in {"deny", "need_approval"}
  /\ c \in sent => pc[c] = "done"

CallsWellFormed == \A c \in Call : WellFormed(c)

\* A session row that is locked is locked by exactly one transaction that has
\* updated it, and it stays as that transaction found it until it ends.
LocksHeld ==
  /\ \A c \in Call : pc[c] = "committing" =>
       /\ ctx[c].session \in locked
       /\ LeaseUsable(ctx[c].session, ctx[c].now)
  /\ \A s \in locked :
       \E c \in Call : pc[c] = "committing" /\ ctx[c].session = s
  /\ \A c, d \in Call :
       pc[c] = "committing" /\ pc[d] = "committing"
         /\ ctx[c].session = ctx[d].session => c = d

\* A lease id is written once: while CreateSession has still to write it no
\* row, no renewal, no other creation and no call past ReadAuth knows it.
FreshLeases ==
  /\ \A s \in Session : session[s] # Nil => s \in minted
  /\ \A o \in Owner : handler[o].op \in {"create", "renew"} =>
       handler[o].session \in minted
  /\ \A o \in Owner : handler[o].op = "create" =>
       /\ session[handler[o].session] = Nil
       /\ \A q \in Owner \ {o} : handler[q].op \in {"create", "renew"} =>
            handler[q].session # handler[o].session
       /\ \A c \in Call : pc[c] \notin {"idle", "admitted", "done"} =>
            ctx[c].session # handler[o].session
  /\ \A c \in Call : pc[c] \notin {"idle", "admitted", "done"} /\ ctx[c].session # Nil =>
       ctx[c].session \in minted

Inv == TypeOK /\ CallsWellFormed /\ LocksHeld /\ FreshLeases

-----------------------------------------------------------------------------
(* What the origin promises.                                               *)

\* No secret goes upstream, and none is even read, before the row that
\* records the authorization is in the audit table (broker.go: no credential
\* ever leaves the origin unaudited); the row names the call's agent and item.
AuditedBeforeRelease ==
  \A c \in Call : c \in sent \/ pc[c] \in {"release", "fetch"} =>
    Row(c, "allow") \in audit

\* The uses of a lease are the allow rows charged to it, one for each call
\* (a failed, unacknowledged or crashed call never burns a use without its
\* row, nor leaves a row without its use), and they never pass max_uses.
UsesAreCharged ==
  \A s \in Session : session[s] # Nil =>
    /\ session[s].uses = Cardinality({row \in audit : row.session = s
                                                      /\ row.decision = "allow"})
    /\ session[s].maxUses > 0 => session[s].uses <= session[s].maxUses

\* useLimit holds one unit for each call in progress, on every way out and
\* across a crash, and never more than its weight.
SlotsBalance ==
  /\ slots = Cardinality({c \in Call : Running(c)})
  /\ slots <= InFlight

\* However often and however late a lease is renewed, and however many owners
\* renew it at once, a call received MaxTTL or more after its creation is
\* never given a secret on it.
LeaseBoundsUse ==
  \A c \in Call : pc[c] \in {"release", "fetch"} /\ ctx[c].session # Nil =>
    \/ session[ctx[c].session] = Nil           \* swept since
    \/ ctx[c].now < session[ctx[c].session].created + MaxTTL

\* Every expiry, stored or about to be written by a renewal that read the
\* lease earlier, lies within MaxTTL of the lease's creation.
LeaseIsCapped ==
  /\ \A s \in Session : session[s] # Nil =>
       session[s].expires <= session[s].created + MaxTTL
  /\ \A o \in Owner : handler[o].op = "renew" /\ session[handler[o].session] # Nil
       => handler[o].expires <= session[handler[o].session].created + MaxTTL

\* An agent that is revoked before a call starts is of no use to that call,
\* whichever token it carries and whatever else happens: nothing is sent.
RevocationStopsLaterCalls ==
  \A c \in Call, a \in Agent :
    [](agent[a] = "revoked" /\ pc[c] = "idle"
         => [](c \in sent => ctx[c].agent # a))

\* A lease that is revoked before a call starts is of no use to that call,
\* even if it is renewed or swept in between.
RevokedLeaseStopsLaterCalls ==
  \A c \in Call, s \in Session :
    [](session[s] # Nil /\ session[s].revoked # Nil /\ pc[c] = "idle"
         => [](c \in sent => ctx[c].session # s))

\* Adding an agent again, or the late write of a renewal, never undoes a
\* revocation: an agent stays revoked, and a revoked lease keeps the instant
\* it was revoked at until it is swept, and does not come back after that.
RevocationIsFinal ==
  [][/\ \A a \in Agent : agent[a] = "revoked" => agent'[a] = "revoked"
     /\ \A s \in Session :
          /\ session[s] # Nil /\ session[s].revoked # Nil =>
               session'[s] = Nil \/ session'[s].revoked = session[s].revoked
          /\ session[s] = Nil /\ session'[s] # Nil =>
               \E o \in Owner : handler[o].op = "create" /\ handler[o].session = s]_vars

\* ConsumeSession is the final revocation race guard (store.go): no use is
\* charged to a lease once the lease or its agent is revoked, however long
\* ago the call was found authorized.
ConsumeStopsAtRevocation ==
  [][\A s \in Session :
       session[s] # Nil /\ session'[s] # Nil /\ session'[s].uses # session[s].uses =>
         session[s].revoked = Nil /\ agent[session[s].agent] = "live"]_vars

\* Every call that starts returns to its caller.
CallsReturn == \A c \in Call : pc[c] # "idle" ~> pc[c] = "done"

ASSUME MeterAssumption == Nil \notin [limit : Nat, used : Nat]

\* The origin implements UseLedger over either database: the entries are the
\* allow rows of the audit table that a call wrote.
Ledger == INSTANCE UseLedger WITH
  ledger <- {row \in audit : row.call # Nil /\ row.decision = "allow"},
  lease  <- [s \in Session |->
              IF session[s] = Nil THEN Nil
              ELSE [limit |-> session[s].maxUses, used |-> session[s].uses]]

ImplementsLedger == Ledger!LedgerSpec

-----------------------------------------------------------------------------
(* What the repository says of the origin and the code does not do,        *)
(* refuted by a run of its own.                                            *)

\* Deleting an item removes the item and its grants (spec.json): once the
\* handler has deleted the row, no grant of the item is left, and none is
\* found by the item that next takes its name.
DeleteRemovesGrants ==
  [][\A i \in Item : item[i] # Nil /\ item'[i] = Nil =>
       \A a \in Agent : grant'[<<a, i>>] = Nil]_vars

=============================================================================
