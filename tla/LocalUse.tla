------------------------------- MODULE LocalUse -------------------------------
(***************************************************************************)
(* What `veil run` and the SSH agent do on the owner's machine, without    *)
(* Broker.Use: the injecting proxy (internal/proxy), the environment of a  *)
(* child process (Broker.ChildEnv) and the SSH agent socket                *)
(* (internal/sshagent).  Broker.Use asks one statement for the agent, the  *)
(* item, the grant and the approval of a call; here each is a store call   *)
(* of its own, one item after the other, and the owner's handlers (Owner)  *)
(* run in between.                                                         *)
(*                                                                         *)
(*   connect   agent -> grants -> items -> done       may this host be met *)
(*   request   agent -> grants -> items -> approval -> record -> secret    *)
(*   env       agent -> grants -> items -+                                 *)
(*             one item: approval -> judge -> secret -> record, or record  *)
(*   ssh       list -> secret, one key after the other                     *)
(***************************************************************************)
EXTENDS Owner, FiniteSets

CONSTANTS Kinds,          \* the kinds of task a run lets begin
          SshKeys,        \* the items of kind ssh
          MaxEdits        \* bound: the steps of owner handlers in a behaviour

ASSUME LocalAssumption ==
  /\ MaxEdits \in Nat
  /\ Kinds \subseteq {"connect", "request", "env", "ssh"}
  /\ SshKeys \subseteq Item \ Injectable

VARIABLES
  task,   \* a task by id (the ids of Store's calls): Nil or a Task
  calm,   \* history: the items a running task has found undisturbed so far
  edits   \* the steps of owner handlers taken, for MaxEdits

taskVars == <<task, calm, edits>>
localVars == <<storeVars, ownerVars, taskVars>>

\* The grants of the agent as ListGrants returned them: Nil, no such row.
Grants == [Item -> GrantRow \cup {Nil}]

Task == [kind : Kinds, agent : Agent, url : Url \cup {Nil}, now : Time,
         stage : {"agent", "grants", "items", "approval", "judge", "record",
                  "secret", "done", "failed"},
         read : {"absent", "live", "revoked"},  \* the principal as it was read
         grants : Grants,
         todo : SUBSET Item,    \* granted items the loop has still to visit
         got : SUBSET Item,     \* hits of lookup, pairs of ChildEnv, signers
         at : Item \cup {Nil},  \* the item the loop is at
         row : ItemRow \cup {Nil}, \* and its row as it was read
         live : Expiry \cup {Nil}, \* its live approval as it was read
         said : DecisionKind \cup {Nil},
         lost : BOOLEAN,        \* an audit write failed: its error is ignored
         late : BOOLEAN,        \* history: it began after the agent's revocation
         out : SUBSET Item]     \* the items whose secret has left the process

LocalTypeOK ==
  /\ StoreTypeOK /\ OwnerTypeOK
  /\ task \in [Call -> Task \cup {Nil}]
  /\ calm \in [Call -> SUBSET Item]
  /\ edits \in 0 .. MaxEdits

Unfinished(t) == task[t] # Nil /\ task[t].stage \notin {"done", "failed"}

At(t, stage) == task[t] # Nil /\ task[t].stage = stage

Set(t, k) == task' = [task EXCEPT ![t] = k]

\* The task returns; the secrets of the items in out have left the process.
EndTask(t, stage, out) ==
  Set(t, [task[t] EXCEPT !.stage = stage, !.out = out, !.todo = {},
                         !.grants = [i \in Item |-> Nil], !.row = Nil, !.live = Nil])

Unstored == UNCHANGED <<storeVars, ownerVars>>

-----------------------------------------------------------------------------
\* A CONNECT or a request of the child, the child's environment, or a Sign.
Begin_(t, kind, a, url) ==
  /\ task[t] = Nil
  /\ task' = [task EXCEPT ![t] =
       [kind |-> kind, agent |-> a, url |-> url, now |-> clock,
        stage |-> IF kind = "ssh" THEN "grants" ELSE "agent",
        read |-> "absent", grants |-> [i \in Item |-> Nil], todo |-> {},
        got |-> {}, at |-> Nil, row |-> Nil, live |-> Nil, said |-> Nil,
        lost |-> FALSE, late |-> agent[a] = "revoked", out |-> {}]]
  /\ Unstored

BeginTask(t) ==
  \E a \in Agent :
    \/ \E url \in Url, kind \in Kinds \cap {"connect", "request"} :
         Begin_(t, kind, a, url)
    \/ \E kind \in Kinds \cap {"env", "ssh"} : Begin_(t, kind, a, Nil)

\* Mutant: the proxy goes on with the principal it read when it started.
ReadAgentCached(t) ==
  /\ At(t, "agent")
  /\ IF task[t].kind # "connect" /\ agent[task[t].agent] = "absent"
     THEN EndTask(t, "failed", {})
     ELSE Set(t, [task[t] EXCEPT !.stage = "grants", !.read = "live"])
  /\ Unstored

\* Store.Agent.  ItemsForAgent takes a missing agent for one without grants
\* revoked and answers a revoked one with no items; currentAgent and ChildEnv
\* need the row.
ReadAgent(t) ==
  /\ At(t, "agent")
  /\ LET status == agent[task[t].agent] IN
     IF task[t].kind = "connect" /\ status = "revoked"
       THEN EndTask(t, "done", {})
     ELSE IF task[t].kind # "connect" /\ status = "absent"
       THEN EndTask(t, "failed", {})
     ELSE Set(t, [task[t] EXCEPT !.stage = "grants", !.read = status])
  /\ Unstored

\* The items the agent has a grant of, whether or not the item is there.
GrantedOf(a) == {i \in Item : grant[<<a, i>>] # Nil}

\* Store.ListGrants and, after it, the clock.  The SSH agent lists the items
\* that are not archived instead, and asks for no grant.
ListGrants(t) ==
  /\ At(t, "grants")
  /\ LET a == task[t].agent IN
     IF task[t].kind = "ssh"
       THEN Set(t, [task[t] EXCEPT !.stage = "items",
              !.todo = {i \in SshKeys : item[i] # Nil /\ ~ item[i].archived}])
       ELSE Set(t, [task[t] EXCEPT !.stage = "items", !.now = clock, !.todo = GrantedOf(a),
                                   !.grants = [i \in Item |-> grant[<<a, i>>]]])
  /\ Unstored

-----------------------------------------------------------------------------
(* The loop over the granted items.                                        *)

\* Whether the task k goes on with item i, by its row as it is read now: lookup
\* counts every item that lists the host, ChildEnv takes what injects.
Wanted(k, i) ==
  CASE k.kind = "connect" -> ~ item[i].archived
    [] k.kind = "request" -> HostListed(item[i], k.url)
    [] k.kind = "env"     -> i \in Injectable /\ ~ item[i].archived

\* What the task k makes of an item it goes on with.
Hit(k, i) ==
  CASE k.kind = "connect" ->
         [k EXCEPT !.got = IF HostListed(item[i], k.url) THEN @ \cup {i} ELSE @]
    [] k.kind = "request" -> [k EXCEPT !.got = @ \cup {i}, !.at = i, !.row = item[i]]
    [] k.kind = "env" -> [k EXCEPT !.at = i, !.row = item[i], !.stage = "approval"]

\* Store.Item of the next grant's item.  ItemsForAgent skips an expired grant
\* before it reads the item; a granted item that is gone ends the task with
\* an error, whatever else the agent was granted.
ReadItem(t, i) ==
  /\ At(t, "items") /\ task[t].kind # "ssh" /\ i \in task[t].todo
  /\ LET past == [task[t] EXCEPT !.todo = @ \ {i}] IN
     IF task[t].kind = "connect" /\ ~ Before(task[t].now, task[t].grants[i].expires)
       THEN Set(t, past)
     ELSE IF item[i] = Nil
       THEN EndTask(t, "failed", {})
     ELSE IF Wanted(past, i) THEN Set(t, Hit(past, i)) ELSE Set(t, past)
  /\ Unstored

\* Mutant: the first of several items is taken.
ItemsReadFirst(t) ==
  /\ At(t, "items") /\ task[t].todo = {}
  /\ CASE task[t].kind = "connect" -> EndTask(t, "done", {})
       [] task[t].kind \in {"env", "ssh"} -> EndTask(t, "done", task[t].got)
       [] task[t].kind = "request" ->
            IF task[t].got = {}
            THEN Set(t, [task[t] EXCEPT !.stage = "record", !.said = "deny", !.at = Nil])
            ELSE Set(t, [task[t] EXCEPT !.stage = "approval"])
  /\ Unstored

\* The loop is over.  A host no granted item lists is refused, and one that
\* several list is ambiguous: neither row of the audit table names an item.
ItemsRead(t) ==
  /\ At(t, "items") /\ task[t].todo = {}
  /\ CASE task[t].kind = "connect" -> EndTask(t, "done", {})
       [] task[t].kind \in {"env", "ssh"} -> EndTask(t, "done", task[t].got)
       [] task[t].kind = "request" ->
            IF Cardinality(task[t].got) = 1
            THEN Set(t, [task[t] EXCEPT !.stage = "approval"])
            ELSE Set(t, [task[t] EXCEPT !.stage = "record", !.said = "deny", !.at = Nil,
                                        !.got = {}])
  /\ Unstored

\* Store.LiveApproval of a grant: an expired approval is no row.
LiveApproval(p, now) ==
  IF approval[p] = Nil \/ now >= approval[p] THEN Nil ELSE approval[p]

\* The instant a decision is for: ChildEnv takes the clock once, for all of
\* the items, and the proxy whenever it asks.
Instant(k) == IF k.kind = "env" THEN k.now ELSE clock

ReadApproval(t) ==
  /\ At(t, "approval")
  /\ LET now == Instant(task[t]) IN
     Set(t, [task[t] EXCEPT !.stage = "judge", !.now = now,
               !.live = LiveApproval(<<task[t].agent, task[t].at>>, now)])
  /\ Unstored

\* Evaluate on the principal, the item, the grant and the approval as each
\* was read.
Judgement(k, now) ==
  Evaluate([principal |-> [kind |-> "agent", id |-> k.agent, org |-> Nil,
                           revoked |-> k.read = "revoked"],
            item  |-> [id |-> k.at, org |-> Nil, archived |-> k.row.archived,
                       uris |-> k.row.uris],
            grant |-> [id |-> <<k.agent, k.at>>, org |-> Nil, agent |-> k.agent,
                       item |-> k.at, level |-> k.grants[k.at].level,
                       actions |-> {"fetch"}, expires |-> k.grants[k.at].expires],
            approval |-> IF k.live = Nil THEN Nil
                         ELSE [id |-> <<k.agent, k.at>>, expires |-> k.live,
                               grant |-> <<k.agent, k.at>>],
            action |-> IF k.kind = "env" THEN "env" ELSE "fetch",
            url |-> k.url, now |-> now]).decision

\* The decision, at the clock's instant in the proxy.  The proxy audits it
\* before it reads the secret, ChildEnv after it has read it.
Judge(t) ==
  /\ At(t, "judge")
  /\ LET now == Instant(task[t])
         d   == Judgement(task[t], now)
     IN Set(t, [task[t] EXCEPT !.now = now, !.said = d,
                               !.stage = IF task[t].kind = "env" /\ d = "allow"
                                         THEN "secret" ELSE "record"])
  /\ Unstored

\* Where the task k goes once its decision is recorded, or could not be.
Recorded(k) ==
  CASE k.kind = "env" ->
         [k EXCEPT !.stage = "items", !.at = Nil, !.row = Nil, !.live = Nil, !.said = Nil]
    [] k.kind # "env" /\ k.said = "allow" -> [k EXCEPT !.stage = "secret"]
    [] OTHER -> [k EXCEPT !.stage = "done", !.got = {}]

\* What the task of agent a writes of item i.
LocalRow(t, a, i, said) ==
  [call |-> t, session |-> Nil, agent |-> a, item |-> i, decision |-> said]

AppendDecision(t) ==
  AppendAudit(LocalRow(t, task[t].agent, task[t].at, task[t].said))

\* Mutant: a decision that was to allow is not written.
RecordDenials(t) ==
  /\ At(t, "record")
  /\ Set(t, Recorded(task[t]))
  /\ IF task[t].said = "allow" THEN UNCHANGED storeVars ELSE AppendDecision(t)
  /\ UNCHANGED ownerVars

\* _ = Store.AppendAudit(event)
Record(t) ==
  /\ At(t, "record")
  /\ Set(t, Recorded(task[t]))
  /\ AppendDecision(t)
  /\ UNCHANGED ownerVars

\* The write fails, and nobody looks at its error.
RecordFails(t) ==
  /\ At(t, "record")
  /\ Set(t, [Recorded(task[t]) EXCEPT !.lost = TRUE])
  /\ Unstored

\* Store.Secret.  The row may be gone by now; it may also be another one than
\* the row that was judged.
LoadSecret(t) ==
  /\ At(t, "secret")
  /\ LET i == task[t].at IN
     IF item[i] = Nil THEN EndTask(t, "failed", {})
     ELSE IF task[t].kind = "env"
       THEN Set(t, [task[t] EXCEPT !.stage = "record", !.got = @ \cup {i}])
     ELSE EndTask(t, "done", {i})
  /\ Unstored

\* The OAuth refresh is refused or there is nothing to inject: ChildEnv turns
\* its decision round and goes on, the proxy answers oauth_failed.
SecretUseless(t) ==
  /\ At(t, "secret") /\ item[task[t].at] # Nil
  /\ IF task[t].kind = "env"
     THEN Set(t, [task[t] EXCEPT !.stage = "record", !.said = "deny"])
     ELSE EndTask(t, "failed", {})
  /\ Unstored

\* The SSH agent skips a key it cannot read or parse.
ReadKey(t, i) ==
  /\ At(t, "items") /\ task[t].kind = "ssh" /\ i \in task[t].todo
  /\ \E parses \in BOOLEAN :
       Set(t, [task[t] EXCEPT !.todo = @ \ {i},
                 !.got = IF item[i] # Nil /\ parses THEN @ \cup {i} ELSE @])
  /\ Unstored

TaskStep(t) ==
  \/ BeginTask(t) \/ ReadAgent(t) \/ ListGrants(t)
  \/ \E i \in Item : ReadItem(t, i) \/ ReadKey(t, i)
  \/ ItemsRead(t) \/ ReadApproval(t) \/ Judge(t)
  \/ Record(t) \/ RecordFails(t) \/ LoadSecret(t) \/ SecretUseless(t)

-----------------------------------------------------------------------------
LocalInit ==
  /\ clock = 0
  /\ agent = [a \in Agent |-> "live"]
  /\ item \in [Item -> [archived : {FALSE}, uris : (SUBSET Url) \ {{}}]]
  /\ grant \in [Agent \X Item -> [level : Levels, expires : GrantLives] \cup {Nil}]
  /\ approval \in [Agent \X Item -> ApprovalLives \cup {Nil}]
  /\ session = [s \in Session |-> Nil]
  /\ audit = {}
  /\ locked = {}
  /\ handler = [o \in Owner |-> Idle]
  /\ minted = {}
  /\ task = [t \in Call |-> Nil]
  /\ calm = [t \in Call |-> {}]
  /\ edits = 0

Undisturbed(a, i) ==
  /\ agent'[a] = agent[a] /\ item'[i] = item[i]
  /\ grant'[<<a, i>>] = grant[<<a, i>>] /\ approval'[<<a, i>>] = approval[<<a, i>>]

\* While a task runs an item stays in calm as long as no row that bears on it
\* is written.
Watch ==
  calm' = [t \in Call |->
            IF task[t] = Nil THEN IF task'[t] = Nil THEN {} ELSE Item
            ELSE IF Unfinished(t) THEN {i \in calm[t] : Undisturbed(task[t].agent, i)}
            ELSE calm[t]]

\* Bound: what the owner does, and the time, are of interest until the last
\* task has returned.
Pending == \E t \in Call : task[t] = Nil \/ Unfinished(t)

LocalNext ==
  /\ \/ /\ Pending /\ edits < MaxEdits /\ edits' = edits + 1
        /\ OwnerStep /\ UNCHANGED task
     \/ \E t \in Call : TaskStep(t) /\ UNCHANGED edits
     \/ Pending /\ Tick /\ UNCHANGED <<ownerVars, task, edits>>
  /\ Watch

LocalSpec == LocalInit /\ [][LocalNext]_localVars

-----------------------------------------------------------------------------
\* A secret that the proxy or a child's environment has let out is on an
\* allow row of the audit table, unless a write of that task failed.
ReleasedIsAudited ==
  \A t \in Call : task[t] # Nil /\ task[t].kind # "ssh" /\ ~ task[t].lost =>
    \A i \in task[t].out : LocalRow(t, task[t].agent, i, "allow") \in audit

LocalInv == LocalTypeOK /\ ReleasedIsAudited

\* A task that begins after its agent was revoked lets nothing out, although
\* the proxy that runs it was started while the agent was live (TestProxyRevokeFailsClosed):
\* only the SSH agent, which knows no agent, still signs.
RevocationStopsLaterTasks ==
  \A t \in Call : task[t] # Nil /\ task[t].late /\ task[t].kind # "ssh" =>
    task[t].out = {}

\* What the single statement of Broker.Use says of the item at the instant of
\* the task k.
UseWouldAllow(k, i) ==
  /\ item[i] # Nil
  /\ Evaluate(UseAuth(k.agent, i, IF k.kind = "env" THEN "env" ELSE "fetch",
                      k.url, k.now)).decision = "allow"

RefusedUseless(t, k, i) == k.lost \/ LocalRow(t, k.agent, i, "deny") \in audit

\* The granted items that list the host, archived ones included.
Listing(k) == {j \in GrantedOf(k.agent) : HostListed(item[j], k.url)}

\* An item whose rows were not written while the task ran is treated as
\* Broker.Use would treat it, whatever happened to the other items and in
\* whichever order the task read its rows: in the child's environment exactly
\* when Use would allow it, in a proxied request only when Use would allow it
\* and, once nothing else was written either, exactly when in addition no
\* other granted item lists the host.
TreatedAsUse(t, i) ==
  LET k == task[t] IN
  CASE k.kind = "env" ->
         /\ i \in task'[t].out => i \in Injectable /\ UseWouldAllow(k, i)
         /\ i \in Injectable /\ UseWouldAllow(k, i) =>
              i \in task'[t].out \/ RefusedUseless(t, k, i)
    [] k.kind = "request" ->
         /\ i \in task'[t].out => UseWouldAllow(k, i)
         /\ calm[t] = Item =>
              (i \in task'[t].out <=>
                 /\ UseWouldAllow(k, i)
                 /\ Listing(k) = {i})
    [] k.kind = "connect" ->
         i \in k.got =>
           /\ agent[k.agent] # "revoked" /\ i \in GrantedOf(k.agent)
           /\ ~ item[i].archived /\ HostListed(item[i], k.url)
           /\ Before(k.now, grant[<<k.agent, i>>].expires)
    [] k.kind = "ssh" ->
         i \in task'[t].out => i \in SshKeys /\ ~ item[i].archived

UndisturbedIsTreatedAsUse ==
  [][\A t \in Call : Unfinished(t) /\ task'[t].stage = "done" =>
       \A i \in calm[t] : TreatedAsUse(t, i)]_localVars


=============================================================================
