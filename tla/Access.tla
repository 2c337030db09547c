------------------------------- MODULE Access -------------------------------
(***************************************************************************)
(* Who may do what on an origin: the bearer token of a request becomes a   *)
(* principal (internal/app/session.go, internal/workload, internal/human,  *)
(* Keto membership), the handler of internal/publicapi, the MCP server or  *)
(* the unix socket checks what that principal may do, and the handler of   *)
(* internal/app acts.  The invite of identity/glue writes the membership.  *)
(*                                                                         *)
(* A request reads the database and Keto several times before it writes,   *)
(* so every read and every write is a step of its own and other requests,  *)
(* the commands of the origin's owner and an operator of Keto run between. *)
(* What Broker.Use does with an agent is the module Broker's; here a use   *)
(* reads the agent, the grant and the item, once and together.             *)
(***************************************************************************)
EXTENDS Integers, FiniteSets

CONSTANTS Request, Agent, Human, Item,
          Subject,   \* the subjects of tokens, the identity ids among them
          Audience,  \* the audiences tokens are issued for
          Vault,     \* the audience of the human login (human.DefaultAudience)
          Guest,     \* subjects at first bound for another audience than Vault
          Ops,       \* the operations that are requested
          Founder,   \* who owns the organization at first, if it has an owner
          MaxStarts, \* bound: requests, commands and withdrawals
          None

ASSUME AccessAssumption ==
  /\ Human \subseteq Subject /\ Guest \subseteq Subject /\ Founder \in Human /\ Vault \in Audience /\ MaxStarts \in Nat
  /\ Agent \cap Human = {} /\ None \notin Agent \cup Human \cup {"org"}

VARIABLES
  agents,   \* each agent's row: "absent", "live" or "revoked"
  bound,    \* each subject's workload row: the agent and the audience
  lease,    \* each agent's session: "none", "live" or "ended"
  items,    \* each item's row: its owner ("org" or a human) and archived
  grants,   \* <<grantee, item>>
  members, owners,  \* the two relations of the organization in Keto
  identities,       \* Kratos
  req, during, starts

tables     == <<agents, bound, lease, items, grants>>
membership == <<members, owners, identities>>
accessVars == <<tables, membership, req, during, starts>>

\* Who asks.  "agent only" operations are those of the MCP server and of the
\* socket, which do not know humans.
AgentOnly  == {"mcp_list", "use"}
OwnerOps   == {"import", "grant", "agent", "revoke", "session", "overview"}
ItemWrites == {"update", "archive", "delete", "enroll"}
HumanOps   == OwnerOps \cup ItemWrites \cup {"create", "fill", "passkey"}

\* Hydra issues a human's ID token for the first-party client alone.
Token ==
  [by : {"jwt"}, sub : Human, aud : {Vault}]
    \cup [by : {"jwt"}, sub : Subject \ Human, aud : Audience]
    \cup [by : {"lease"}, agent : Agent]

Row == [owner : Human \cup {"org"}, archived : BOOLEAN]

\* A request: its token and operation, the principal it acts for, the row and
\* the ownership it has read, and the items it returns.
Fresh == [pc |-> "idle", op |-> None, tok |-> None, item |-> None, p |-> None,
          to |-> None, row |-> None, owns |-> FALSE, todo |-> {}, got |-> {},
          revoked |-> {}]

AccessTypeOK ==
  /\ agents \in [Agent -> {"absent", "live", "revoked"}]
  /\ bound \in [Subject -> [agent : Agent, aud : Audience] \cup {None}]
  /\ lease \in [Agent -> {"none", "live", "ended"}]
  /\ items \in [Item -> Row \cup {None}]
  /\ grants \subseteq (Agent \cup Human) \X Item
  /\ owners \subseteq Human /\ members \subseteq Human /\ identities \subseteq Human
  /\ \A r \in Request :
       /\ req[r].p \in Agent \cup Human \cup {None}
       /\ req[r].row \in Row \cup {None}
       /\ req[r].got \subseteq Item /\ req[r].todo \subseteq Item
  /\ starts \in 0 .. MaxStarts

Free(r) == req[r].pc \in {"idle", "done", "refused"}

(***************************************************************************)
(* What held at some moment of a request, for the properties: the grants,  *)
(* the members, the owners, <<owner, item>>, the bindings, and whether     *)
(* the organization was without an owner.                                  *)
(***************************************************************************)
Owned(i) == IF items[i] = None THEN {} ELSE {<<items[i].owner, i>>}

Moment == [grants |-> grants, members |-> members, owners |-> owners,
           owned |-> UNION {Owned(i) : i \in Item},
           bound |-> {<<s, bound[s]>> : s \in Subject},
           ownerless |-> IF owners = {} THEN {TRUE} ELSE {}]

Nothing == [f \in DOMAIN Moment |-> {}]

Observe ==
  during' = [r \in Request |->
    IF Free(r)' THEN IF req'[r] = req[r] \/ req'[r].pc = "done" THEN during[r] ELSE Nothing
    ELSE IF Free(r) THEN Moment'
    ELSE IF UNCHANGED <<tables, membership>> THEN during[r]
    ELSE [f \in DOMAIN Moment |-> during[r][f] \cup Moment'[f]]]

\* A new organization with nothing in it; or one with an owner and an agent,
\* with or without an item and a grant of it.
AccessInit ==
  /\ \/ /\ members = {} /\ owners = {} /\ grants = {}
        /\ agents = [a \in Agent |-> "absent"] /\ lease = [a \in Agent |-> "none"]
        /\ bound = [s \in Subject |-> None] /\ items = [i \in Item |-> None]
     \/ /\ members = Human /\ owners = {Founder}
        /\ grants \in {{}} \cup {{g} : g \in ((Agent \cup Human) \ {Founder}) \X Item}
        /\ agents = [a \in Agent |-> "live"] /\ lease = [a \in Agent |-> "live"]
        /\ \E a \in Agent, aud \in Audience \ {Vault} :
             bound = [s \in Subject |->
               CASE s \in Human -> None
                 [] s \in Guest \ Human -> [agent |-> a, aud |-> aud]
                 [] OTHER      -> [agent |-> a, aud |-> Vault]]
        /\ items \in [Item -> [owner : (Human \cup {"org"}) \ {Founder}, archived : {FALSE}]
                               \cup {None}]
  /\ identities = members
  /\ req = [r \in Request |-> Fresh] /\ during = [r \in Request |-> Nothing]
  /\ starts = 0

At(r, place)  == req[r].pc = place
Move(r, place) == req' = [req EXCEPT ![r].pc = place]
Refuse(r)     == req' = [req EXCEPT ![r] = [Fresh EXCEPT !.pc = "refused"]]
Start         == starts < MaxStarts /\ starts' = starts + 1
Quiet         == UNCHANGED <<tables, membership, starts>>

\* POST /v1/use hands a lease's token to Broker.UseSession; MCP, the socket and
\* all other operations look up the lease's agent.
Entry(tok, op) ==
  CASE tok.by = "jwt"                  -> {"jwt"}
    [] tok.by = "lease" /\ op = "use"  -> {"lease", "use session"}
    [] tok.by = "lease" /\ op # "use"  -> {"lease"}

\* A bearer token arrives.  The handler's own body checks refuse it later or
\* never; nothing is read before the principal.
Arrive(r, tok, op, i) ==
  /\ Free(r) /\ Start
  /\ \E place \in Entry(tok, op) :
       req' = [req EXCEPT ![r] =
         [Fresh EXCEPT !.pc = place, !.op = op, !.tok = tok, !.item = i,
                       !.revoked = {a \in Agent : agents[a] = "revoked"}]]
  /\ UNCHANGED <<tables, membership>>

(***************************************************************************)
(* The principal.  requireHuman and resolveAgentID refuse the wrong kind   *)
(* before anything else is read; the handler's first read comes next.      *)
(***************************************************************************)
FirstRead(p, op) ==
  IF (op \in HumanOps /\ p \notin Human) \/ (op = "use" /\ p \notin Agent) THEN "refused"
  ELSE CASE op \in ItemWrites               -> "row"
         [] op \in {"list", "mcp_list", "fill", "passkey"} ->
                                IF p \in Agent THEN "list agent" ELSE "granted"
         [] op = "use"                      -> "use"
         [] op = "events" /\ p \in Agent    -> "act"
         [] OTHER                           -> "owns"

ActFor(r, p) ==
  IF FirstRead(p, req[r].op) = "refused" THEN Refuse(r)
  ELSE req' = [req EXCEPT ![r].p = p, ![r].pc = FirstRead(p, req[r].op)]

\* PrincipalFromSession reads the session, then its agent.
SessionRow(r) ==
  /\ At(r, "lease")
  /\ IF lease[req[r].tok.agent] = "live" THEN Move(r, "lease agent") ELSE Refuse(r)
  /\ Quiet

SessionAgent(r) ==
  LET a == req[r].tok.agent IN
  /\ At(r, "lease agent")
  /\ IF agents[a] = "live"
       THEN ActFor(r, a)
       ELSE Refuse(r)
  /\ Quiet

\* Checker.Agent: the rows of the issuer say which audiences are trusted.
Workloads(r) ==
  LET listed == {bound[s].aud : s \in {s \in Subject : bound[s] # None}} IN
  /\ At(r, "jwt")
  /\ Move(r, IF req[r].tok.aud \in listed THEN "workload" ELSE "human")
  /\ Quiet

\* The token verifies for one of them; the subject's row must still name it.
\* A revoked agent is a principal all the same.
BoundAnyAudience(r) ==
  LET row == bound[req[r].tok.sub] IN
  /\ At(r, "workload")
  /\ IF row # None
       THEN ActFor(r, row.agent)
       ELSE Move(r, "human")
  /\ Quiet

Bound(r) ==
  LET row == bound[req[r].tok.sub] IN
  /\ At(r, "workload")
  /\ IF row # None /\ row.aud = req[r].tok.aud
       THEN ActFor(r, row.agent)
       ELSE Move(r, "human")
  /\ Quiet

\* PrincipalFromOIDC: else a Hydra human whom Keto knows.  The MCP server and
\* the socket stop at AgentFromOIDC.
Member(r) ==
  LET tok == req[r].tok IN
  /\ At(r, "human")
  /\ IF req[r].op \notin AgentOnly /\ tok.aud = Vault /\ tok.sub \in members
       THEN ActFor(r, tok.sub)
       ELSE Refuse(r)
  /\ Quiet

(***************************************************************************)
(* What the principal may do: requireOwner, requireItemWrite and the       *)
(* checks at the head of the handlers of internal/app.                     *)
(***************************************************************************)
\* ImportItems and RevokeAgent ask again what requireOwner has asked.
OwnsTwice == {"import", "revoke"}

\* requireOwner refuses; PutItemFor only remembers it.
Owns(r) ==
  LET owns == req[r].p \in owners IN
  /\ At(r, "owns")
  /\ IF owns \/ req[r].op = "create"
       THEN req' = [req EXCEPT ![r].owns = owns,
                               ![r].pc = IF req[r].op \in OwnsTwice THEN "owns again" ELSE "act"]
       ELSE Refuse(r)
  /\ Quiet

OwnsAgain(r) ==
  /\ At(r, "owns again")
  /\ IF req[r].p \in owners THEN Move(r, "act") ELSE Refuse(r)
  /\ Quiet

ReadRow(r) ==
  LET row == items[req[r].item] IN
  /\ At(r, "row")
  /\ IF row = None THEN Refuse(r)
     ELSE req' = [req EXCEPT ![r].row = row, ![r].pc = "may write"]
  /\ Quiet

MayWriteAny(r) == At(r, "may write") /\ Move(r, "act") /\ Quiet

MayWrite(r) ==
  LET row == req[r].row
      p   == req[r].p IN
  /\ At(r, "may write")
  /\ IF row.owner = p \/ (row.owner = "org" /\ p \in owners)
       THEN Move(r, "act") ELSE Refuse(r)
  /\ Quiet

(***************************************************************************)
(* ItemsForPrincipal.  An agent's row is read, the grants, then their      *)
(* items one by one (a missing one fails the list); for a human then the   *)
(* ownership and all items.                                                *)
(***************************************************************************)
AfterGrants(r, todo) ==
  IF todo # {} THEN "each" ELSE IF req[r].p \in Human THEN "list owns" ELSE "done"

\* To a revoked agent the list is empty.
ListAgent(r) ==
  /\ At(r, "list agent")
  /\ Move(r, IF agents[req[r].p] = "revoked" THEN "done" ELSE "granted")
  /\ Quiet

Granted(r) ==
  LET todo == {i \in Item : <<req[r].p, i>> \in grants} IN
  /\ At(r, "granted")
  /\ req' = [req EXCEPT ![r].todo = todo, ![r].pc = AfterGrants(r, todo)]
  /\ Quiet

Each(r, i) ==
  /\ At(r, "each") /\ i \in req[r].todo
  /\ IF items[i] = None THEN Refuse(r)
     ELSE req' = [req EXCEPT ![r].todo = @ \ {i},
                             ![r].got = IF items[i].archived THEN @ ELSE @ \cup {i},
                             ![r].pc = AfterGrants(r, req[r].todo \ {i})]
  /\ Quiet

ListOwns(r) ==
  /\ At(r, "list owns")
  /\ req' = [req EXCEPT ![r].owns = req[r].p \in owners, ![r].pc = "all"]
  /\ Quiet

Stored(i) == items[i] # None

Theirs(r) == {i \in Item : /\ Stored(i)
                           /\ \/ items[i].owner = req[r].p
                              \/ req[r].owns /\ items[i].owner = "org"}

\* An item that is both granted and theirs appears as the second read saw it;
\* todo: those that a pull takes, which are not archived.
All(r) ==
  LET theirs == Theirs(r) IN
  /\ At(r, "all")
  /\ req' = [req EXCEPT ![r].got = @ \cup theirs,
       ![r].todo = IF req[r].op = "fill"
                   THEN (req[r].got \ theirs) \cup {i \in theirs : ~ items[i].archived}
                   ELSE {},
       ![r].pc = CASE req[r].op = "passkey" -> "act"
                   [] req[r].op = "fill"    -> "secret"
                   [] OTHER                 -> "done"]
  /\ Quiet

Open(r, opened) == req' = [req EXCEPT ![r].got = opened, ![r].todo = {}, ![r].pc = "done"]

\* FillLogin and FillTOTP: the one item, if it is among them and still stored.
FillOne(r) ==
  LET i == req[r].item IN
  /\ At(r, "secret")
  /\ IF i \in req[r].got /\ Stored(i) THEN Open(r, {i}) ELSE Refuse(r)
  /\ Quiet

\* FillLogins: all of them that are still stored (those that match the page).
FillLogins(r) ==
  /\ At(r, "secret")
  /\ Open(r, {i \in req[r].got : Stored(i)})
  /\ Quiet

\* FillSync: one that is not stored any more fails the pull.
FillSync(r) ==
  /\ At(r, "secret")
  /\ IF \A i \in req[r].todo : Stored(i) THEN Open(r, req[r].todo) ELSE Refuse(r)
  /\ Quiet

\* The one read of a use, as agent p.
MayUse(p, i) ==
  agents[p] = "live" /\ <<p, i>> \in grants /\ Stored(i) /\ ~ items[i].archived

Use(r) ==
  LET p == req[r].p
      i == req[r].item IN
  /\ At(r, "use")
  /\ IF MayUse(p, i) THEN Open(r, {i}) ELSE Refuse(r)
  /\ Quiet

UseSession(r) ==
  LET p == req[r].tok.agent
      i == req[r].item IN
  /\ At(r, "use session")
  /\ IF lease[p] = "live" /\ MayUse(p, i)
       THEN req' = [req EXCEPT ![r].p = p, ![r].got = {i}, ![r].pc = "done"]
       ELSE Refuse(r)
  /\ Quiet

(***************************************************************************)
(* The acts.  PutItem (SQLite) never changes the owner an item has.        *)
(***************************************************************************)
Keep(changed) == UNCHANGED <<changed, membership, starts>>

PutItem(i, owner, archived) ==
  /\ items[i] # None => items[i].owner = owner
  /\ items' = [items EXCEPT ![i] = [owner |-> owner, archived |-> archived]]

PutRow(r, owner, archived) ==
  LET i == req[r].item IN
  /\ \/ PutItem(i, owner, archived) /\ Move(r, "done")
     \/ Stored(i) /\ items[i].owner # owner /\ Refuse(r) /\ UNCHANGED items
  /\ Keep(<<agents, bound, lease, grants>>)

CreateItem(r) ==
  /\ At(r, "act") /\ req[r].op = "create"
  /\ PutRow(r, IF req[r].owns THEN "org" ELSE req[r].p, FALSE)

\* An id is made for every row of the import.
ImportItem(r) ==
  /\ At(r, "act") /\ req[r].op = "import" /\ ~ Stored(req[r].item)
  /\ PutRow(r, "org", FALSE)

\* FillPasskeyRegister stores an item of the organization, whoever registers.
PasskeyRegister(r) ==
  /\ At(r, "act") /\ req[r].op = "passkey"
  /\ PutRow(r, "org", FALSE)

\* FillPasskeyGet only reads, and a registration may fail.
PasskeyGet(r) ==
  /\ At(r, "act") /\ req[r].op = "passkey"
  /\ Open(r, {i \in req[r].got : Stored(i)})
  /\ Quiet

\* UpdateItem reads the row again; AttachTOTP writes the one it has checked.
ReadAgain(r) ==
  LET row == items[req[r].item] IN
  /\ At(r, "act") /\ req[r].op \in {"update", "enroll"}
  /\ IF row = None THEN Refuse(r)
     ELSE req' = [req EXCEPT ![r].row = IF req[r].op = "update" THEN row ELSE @,
                             ![r].pc = "write"]
  /\ Quiet

WriteBack(r) ==
  At(r, "write") /\ PutRow(r, req[r].row.owner, req[r].row.archived)

ArchiveRow(i) == items[i] # None /\ items' = [items EXCEPT ![i].archived = TRUE]

Archive(r) ==
  LET i == req[r].item IN
  /\ At(r, "act") /\ req[r].op = "archive"
  /\ \/ ArchiveRow(i) /\ Move(r, "done")
     \/ items[i] = None /\ Refuse(r) /\ UNCHANGED items
  /\ Keep(<<agents, bound, lease, grants>>)

\* DeleteItem: the grants, then the row.
DeleteGrants(r) ==
  /\ At(r, "act") /\ req[r].op = "delete"
  /\ grants' = {g \in grants : g[2] # req[r].item}
  /\ Move(r, "delete row")
  /\ Keep(<<agents, bound, lease, items>>)

DeleteRow(r) ==
  /\ At(r, "delete row")
  /\ items' = [items EXCEPT ![req[r].item] = None]
  /\ IF items[req[r].item] = None THEN Refuse(r) ELSE Move(r, "done")
  /\ Keep(<<agents, bound, lease, grants>>)

\* GrantUntil reads the grantee and the item and then writes.
GrantCheck(r, to) ==
  /\ At(r, "act") /\ req[r].op = "grant"
  /\ IF /\ to \in Agent => agents[to] = "live"
        /\ to \in Human => to \in members
        /\ items[req[r].item] # None /\ ~ items[req[r].item].archived
       THEN req' = [req EXCEPT ![r].to = to, ![r].pc = "put grant"]
       ELSE Refuse(r)
  /\ Quiet

PutGrant(r) ==
  /\ At(r, "put grant")
  /\ grants' = grants \cup {<<req[r].to, req[r].item>>}
  /\ Move(r, "done")
  /\ Keep(<<agents, bound, lease, items>>)

\* PutAgent keeps a revocation, and AddAgent then reports it.
AddAgent(r, a) ==
  /\ At(r, "act") /\ req[r].op = "agent"
  /\ agents' = [agents EXCEPT ![a] = IF @ = "revoked" THEN @ ELSE "live"]
  /\ IF agents[a] = "revoked" THEN Refuse(r) ELSE Move(r, "done")
  /\ Keep(<<bound, lease, items, grants>>)

RevokeAgent(r, a) ==
  /\ At(r, "act") /\ req[r].op = "revoke" /\ agents[a] # "absent"
  /\ agents' = [agents EXCEPT ![a] = "revoked"]
  /\ Move(r, "done")
  /\ Keep(<<bound, lease, items, grants>>)

\* CreateSession reads the agent and then writes the row.
SessionCheck(r, a) ==
  /\ At(r, "act") /\ req[r].op = "session"
  /\ IF agents[a] = "live"
       THEN req' = [req EXCEPT ![r].to = a, ![r].pc = "put session"]
       ELSE Refuse(r)
  /\ Quiet

PutSession(r) ==
  /\ At(r, "put session")
  /\ lease' = [lease EXCEPT ![req[r].to] = "live"]
  /\ Move(r, "done")
  /\ Keep(<<agents, bound, items, grants>>)

\* listGrants, listAgents and listSessions; and listEvents, which shows an agent
\* its own events: one read.
Overview(r) ==
  At(r, "act") /\ req[r].op \in {"overview", "events"} /\ Move(r, "done") /\ Quiet

(***************************************************************************)
(* veil human invite: InviteIdentity.  The actor is a verified human or    *)
(* nobody; the invited human is the item of the request.                   *)
(***************************************************************************)
Invite(r, actor) ==
  /\ Free(r) /\ Start
  /\ req' = [req EXCEPT ![r] = [Fresh EXCEPT !.pc = "require owner", !.op = "invite", !.p = actor]]
  /\ UNCHANGED <<tables, membership>>

\* RequireOwner asks twice: an organization without owners lets anyone invite.
RequireOwner(r) ==
  At(r, "require owner") /\ Move(r, IF owners = {} THEN "kratos" ELSE "allowed") /\ Quiet

Allowed(r) ==
  /\ At(r, "allowed")
  /\ IF req[r].p \in owners THEN Move(r, "kratos") ELSE Refuse(r)
  /\ Quiet

\* An identity exists once; a second invite of it is refused by Kratos.
CreateIdentity(r, h) ==
  /\ At(r, "kratos")
  /\ IF h \in identities THEN Refuse(r) /\ UNCHANGED identities
     ELSE /\ identities' = identities \cup {h}
          /\ req' = [req EXCEPT ![r].to = h, ![r].pc = "code"]
  /\ UNCHANGED <<tables, members, owners, starts>>

\* The recovery code may fail, and then the identity is nobody's member.
RecoveryCode(r) ==
  At(r, "code") /\ (Move(r, "member") \/ Refuse(r)) /\ Quiet

WriteMember(r) ==
  /\ At(r, "member")
  /\ members' = members \cup {req[r].to}
  /\ Move(r, "has owners")
  /\ UNCHANGED <<tables, owners, identities, starts>>

HasOwners(r) ==
  At(r, "has owners") /\ Move(r, IF owners = {} THEN "owner" ELSE "done") /\ Quiet

WriteOwner(r) ==
  /\ At(r, "owner")
  /\ owners' = owners \cup {req[r].to}
  /\ Move(r, "done")
  /\ UNCHANGED <<tables, members, identities, starts>>

\* A command may be stopped anywhere.
StopInvite(r) ==
  /\ req[r].op = "invite" /\ ~ Free(r)
  /\ Refuse(r) /\ Quiet

(***************************************************************************)
(* The commands of the owner on the origin's own host, which need no       *)
(* token, an operator who withdraws a relation in Keto, and time.          *)
(***************************************************************************)
Local == Start /\ UNCHANGED <<membership, req>>

\* BindWorkload refuses a revoked agent; a subject has one row.
Bind(s, a, aud) ==
  /\ Local /\ s \notin Human /\ agents[a] = "live"
  /\ bound' = [bound EXCEPT ![s] = [agent |-> a, aud |-> aud]]
  /\ UNCHANGED <<agents, lease, items, grants>>

LocalAddAgent(a) ==
  /\ Local /\ agents[a] = "absent"
  /\ agents' = [agents EXCEPT ![a] = "live"]
  /\ UNCHANGED <<bound, lease, items, grants>>

LocalRevokeAgent(a) ==
  /\ Local /\ agents[a] # "absent"
  /\ agents' = [agents EXCEPT ![a] = "revoked"]
  /\ UNCHANGED <<bound, lease, items, grants>>

LocalPutItem(i) ==
  /\ Local /\ PutItem(i, "org", FALSE)
  /\ UNCHANGED <<agents, bound, lease, grants>>

LocalArchiveItem(i) ==
  /\ Local /\ ArchiveRow(i)
  /\ UNCHANGED <<agents, bound, lease, grants>>

\* The two steps of DeleteItem: a grant of the item may be written between.
LocalDeleteItem(i) ==
  /\ Local
  /\ \/ grants' = {g \in grants : g[2] # i} /\ UNCHANGED items
     \/ items' = [items EXCEPT ![i] = None] /\ UNCHANGED grants
  /\ UNCHANGED <<agents, bound, lease>>

LocalGrant(to, i) ==
  /\ Local /\ items[i] # None /\ ~ items[i].archived
  /\ to \in Agent => agents[to] = "live"
  /\ to \in Human => to \in members
  /\ grants' = grants \cup {<<to, i>>}
  /\ UNCHANGED <<agents, bound, lease, items>>

LocalSession(a) ==
  /\ Local /\ agents[a] = "live"
  /\ lease' = [lease EXCEPT ![a] = "live"]
  /\ UNCHANGED <<agents, bound, items, grants>>

EndLease(a) ==
  /\ Local /\ lease[a] = "live"
  /\ lease' = [lease EXCEPT ![a] = "ended"]
  /\ UNCHANGED <<agents, bound, items, grants>>

Withdraw(h) ==
  /\ Start
  /\ owners' = owners \ {h} /\ members' \in {members, members \ {h}}
  /\ UNCHANGED <<tables, identities, req>>

RequestStep(r) ==
  \/ \E tok \in Token, op \in Ops \ {"invite"}, i \in Item : Arrive(r, tok, op, i)
  \/ SessionRow(r) \/ SessionAgent(r) \/ Workloads(r) \/ Bound(r) \/ Member(r)
  \/ Owns(r) \/ OwnsAgain(r) \/ ReadRow(r) \/ MayWrite(r)
  \/ ListAgent(r) \/ Granted(r) \/ ListOwns(r) \/ All(r)
  \/ FillOne(r) \/ FillLogins(r) \/ FillSync(r) \/ Use(r) \/ UseSession(r)
  \/ \E i \in Item : Each(r, i)
  \/ CreateItem(r) \/ ImportItem(r) \/ PasskeyRegister(r) \/ PasskeyGet(r) \/ ReadAgain(r) \/ WriteBack(r) \/ Archive(r)
  \/ DeleteGrants(r) \/ DeleteRow(r) \/ PutGrant(r) \/ PutSession(r) \/ Overview(r)
  \/ \E to \in Agent \cup Human : GrantCheck(r, to)
  \/ \E a \in Agent : AddAgent(r, a) \/ RevokeAgent(r, a) \/ SessionCheck(r, a)

InviteStep(r) ==
  \/ "invite" \in Ops /\ \E actor \in Human \cup {None} : Invite(r, actor)
  \/ RequireOwner(r) \/ Allowed(r) \/ RecoveryCode(r) \/ WriteMember(r) \/ HasOwners(r)
  \/ WriteOwner(r) \/ StopInvite(r)
  \/ \E h \in Human : CreateIdentity(r, h)

Elsewhere ==
  \/ \E s \in Subject, a \in Agent, aud \in Audience : Bind(s, a, aud)
  \/ \E a \in Agent : LocalAddAgent(a) \/ LocalRevokeAgent(a) \/ LocalSession(a) \/ EndLease(a)
  \/ \E i \in Item : LocalPutItem(i) \/ LocalArchiveItem(i) \/ LocalDeleteItem(i)
                       \/ \E to \in Agent \cup Human : LocalGrant(to, i)
  \/ \E h \in Human : Withdraw(h)

AccessNext ==
  /\ (\E r \in Request : RequestStep(r) \/ InviteStep(r)) \/ Elsewhere
  /\ Observe

AccessSpec == AccessInit /\ [][AccessNext]_accessVars

(***************************************************************************)
(* Properties.  A request takes several reads to decide, so what it does   *)
(* is measured against what held at some moment of it.                     *)
(***************************************************************************)
\* A request whose token is a JWT acts for an agent only if, at some moment of
\* the request, the token's subject was bound to that agent for the audience
\* the token was issued for, however the row is re-bound meanwhile.
ActsForItsAudience ==
  \A r \in Request :
    LET q == req[r] IN
    q.p \in Agent /\ q.pc # "refused" /\ q.tok.by = "jwt" =>
      <<q.tok.sub, [agent |-> q.p, aud |-> q.tok.aud]>> \in during[r].bound

\* Item i was, at moments of request r, its principal's own, or the
\* organization's while the principal was an owner.
WasTheirs(r, i) ==
  LET d == during[r] IN
  \/ <<req[r].p, i>> \in d.owned
  \/ req[r].p \in d.owners /\ <<"org", i>> \in d.owned

\* An answer names an item, and a fill opens one, only if that item was at
\* some moment of the request the principal's or granted to the principal; and
\* a human among the principals was a member.
ShownIsTheirs ==
  \A r \in Request :
    LET q == req[r] IN
    q.pc # "refused" /\ q.op # "invite" =>
      /\ \A i \in q.got : WasTheirs(r, i) \/ <<q.p, i>> \in during[r].grants
      /\ q.p \in Human => q.p \in during[r].members

\* A request that begins after its agent was revoked neither lists an item nor
\* uses one, by whichever way the token names the agent.
RevokedAgentGetsNothing ==
  \A r \in Request : req[r].p \in req[r].revoked => req[r].got = {}

AccessInv ==
  AccessTypeOK /\ ActsForItsAudience /\ ShownIsTheirs /\ RevokedAgentGetsNothing

\* Whatever a request writes, its principal was entitled to at a moment of the
\* request: an item it updates, archives, deletes or enrolls was its own to
\* write; grants, agents, sessions and imports are an owner's; a new item
\* belongs to its creator or, created by an owner, to the organization; and an
\* invite makes an owner only of an organization that was without one.
MayChange(r) ==
  LET q == req[r]
      d == during[r] IN
  CASE q.op \in ItemWrites -> WasTheirs(r, q.item)
    [] q.op \in OwnerOps   -> q.p \in d.owners
    [] q.op = "create"     -> items'[q.item].owner = q.p \/ q.p \in d.owners
    [] q.op = "passkey"    -> q.p \in d.members
    [] q.op = "invite"     -> owners' # owners => TRUE \in d.ownerless
    [] OTHER               -> FALSE

WritesAreEntitled ==
  [][\A r \in Request :
       req'[r] # req[r] /\ <<tables, membership>>' # <<tables, membership>>
         => MayChange(r)]_accessVars
=============================================================================
