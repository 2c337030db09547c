------------------------------ MODULE LocalProofs ------------------------------
(***************************************************************************)
(* Theorems of LocalUse: what an agent's tasks on the owner's machine may  *)
(* let out, although they read the agent, the grants, the items and the    *)
(* approvals one after the other while the owner's handlers run.           *)
(*                                                                         *)
(* The invariant says of every task k what it holds at each stage, and of  *)
(* every item that nobody has touched since k began that what k has read   *)
(* of it is still what the store says.  Its parts are stated of a record k *)
(* and a set C of items, so that the same lemmas serve the task before and *)
(* after a step.                                                           *)
(***************************************************************************)
EXTENDS LocalUse, VeilProofs

-----------------------------------------------------------------------------
(* The invariant.                                                          *)

Stopped(k) == k.stage \in {"done", "failed"}

\* The stages of each kind of task, and what it holds at them.
Shape(k) ==
  /\ k.out # {} => k.stage = "done"
  /\ IsFiniteSet(k.got)
  /\ k.kind = "ssh" => k.stage \in {"grants", "items", "done", "failed"}
                       /\ k.todo \cup k.got \subseteq SshKeys
  /\ k.kind = "connect" => k.stage \in {"agent", "grants", "items", "done", "failed"}
                           /\ k.out = {}
  /\ k.stage \in {"agent", "grants"} => k.got = {} /\ k.at = Nil
  /\ k.kind # "ssh" /\ k.stage \notin {"agent", "done", "failed"} =>
       k.read # IF k.kind = "connect" THEN "revoked" ELSE "absent"
  /\ k.kind # "ssh" /\ k.stage \notin {"agent", "grants", "done", "failed"} =>
       \A i \in k.todo : k.grants[i] # Nil
  /\ k.kind = "env" /\ k.stage = "items" => k.at = Nil
  /\ k.kind = "request" /\ k.stage = "items" /\ k.got # {} =>
       k.at \in k.got /\ k.row # Nil /\ k.grants[k.at] # Nil
  /\ k.stage \in {"approval", "judge"} => k.at # Nil /\ k.row # Nil /\ k.grants[k.at] # Nil
  /\ k.stage \in {"approval", "judge", "secret", "record"} =>
       IF k.kind = "env" THEN k.at # Nil /\ k.at \in Injectable
       ELSE IF k.at = Nil THEN k.stage = "record" /\ k.got = {} ELSE k.got = {k.at}
  /\ k.stage = "secret" => k.said = "allow" /\ k.at # Nil
  /\ k.stage = "record" => k.said \in DecisionKind /\ (k.said = "allow" => k.at # Nil)
  /\ k.stage = "record" /\ k.kind = "env" /\ k.said = "allow" => k.at \in k.got

\* Unless a write was lost, the items whose secret the task holds are on an
\* allow row; ChildEnv is the one that writes the row after the read.
Audited(t, k) ==
  k.kind # "ssh" /\ ~ k.lost =>
    /\ \A i \in k.out : LocalRow(t, k.agent, i, "allow") \in audit
    /\ k.kind = "env" => \A i \in k.got :
         \/ LocalRow(t, k.agent, i, "allow") \in audit
         \/ k.stage = "record" /\ k.at = i /\ k.said = "allow"
    /\ k.kind = "request" /\ k.stage = "secret" =>
         LocalRow(t, k.agent, k.at, "allow") \in audit

\* A task that began after the revocation has read it, and holds nothing.
Late(k) ==
  k.kind # "ssh" /\ k.late =>
    /\ agent[k.agent] = "revoked"
    /\ k.out = {}
    /\ k.stage \in {"secret", "record"} => k.said # "allow"
    /\ k.kind = "env" => k.got = {}
    /\ k.stage \notin {"agent", "done", "failed"} => k.read = "revoked"

\* What a task has read of an item nobody has touched is what is there.
Current(k, i) ==
  /\ k.kind # "ssh" /\ k.stage # "agent" => agent[k.agent] = k.read
  /\ k.kind # "ssh" /\ k.stage \notin {"agent", "grants"} => k.grants[i] = grant[<<k.agent, i>>]
  /\ k.stage \in {"items", "approval", "judge"} /\ k.at = i => k.row = item[i]
  /\ k.stage = "judge" /\ k.at = i => k.live = LiveApproval(<<k.agent, i>>, k.now)

\* The item has been judged as Broker.Use would judge it.
Judged(t, k, i) ==
  /\ k.stage = "secret" /\ k.at = i => UseWouldAllow(k, i)
  /\ k.kind = "request" /\ k.stage = "record" /\ k.at = i =>
       (k.said = "allow" <=> UseWouldAllow(k, i))
  /\ k.kind = "env" =>
       /\ i \in k.got => i \in Injectable /\ UseWouldAllow(k, i)
       /\ k.stage \notin {"agent", "grants"} /\ i \in Injectable /\ UseWouldAllow(k, i) =>
            \/ i \in k.todo \cup k.got \/ RefusedUseless(t, k, i)
            \/ k.at = i /\ k.stage \in {"approval", "judge", "secret"}
            \/ k.at = i /\ k.stage = "record" /\ k.said = "deny"
  /\ k.kind = "connect" /\ i \in k.got =>
       /\ i \in GrantedOf(k.agent) /\ ~ item[i].archived /\ HostListed(item[i], k.url)
       /\ Before(k.now, grant[<<k.agent, i>>].expires)
  /\ k.kind = "ssh" /\ i \in k.todo \cup k.got => ~ item[i].archived

\* Nobody has touched anything: the hits of lookup are the granted items that
\* list the host.
Looked(k) ==
  k.kind = "request" =>
    /\ k.stage = "items" => k.got = Listing(k) \ k.todo
    /\ k.stage \in {"approval", "judge", "secret", "record"} =>
         IF k.at # Nil THEN Listing(k) = {k.at}
         ELSE \A i \in Item : Listing(k) # {i}

Faithful(t, k, C) ==
  ~ Stopped(k) =>
    /\ C = Item => Looked(k)
    /\ \A i \in C : Current(k, i) /\ Judged(t, k, i)

Safe(t, k, C) ==
  Shape(k) /\ k.now <= clock /\ Audited(t, k) /\ Late(k) /\ Faithful(t, k, C)

LocalSafe ==
  LocalTypeOK /\ \A t \in Call : task[t] # Nil => Safe(t, task[t], calm[t])

-----------------------------------------------------------------------------
(* The decision.                                                           *)

\* Three reasons to refuse, whatever else is asked.
LEMMA Refused ==
  ASSUME NEW u, u.principal.revoked \/ u.item.archived \/ u.grant = Nil
  PROVE  Evaluate(u).decision = "deny"
BY DEF Evaluate, Deny, Verdict

\* An approval that has run out is worth as much as none.
LEMMA ApprovalRunOut ==
  ASSUME NEW u, NEW v,
         u.principal = v.principal, u.item = v.item, u.grant = v.grant,
         u.action = v.action, u.url = v.url, u.now = v.now,
         u.approval = Nil,
         v.approval = Nil \/ ~ Before(v.now, v.approval.expires)
  PROVE  Evaluate(u).decision = Evaluate(v).decision
<1>1. LevelVerdict(u).decision = LevelVerdict(v).decision
  <2>1. CASE u.grant.level = "level2"
    BY <2>1 DEF LevelVerdict, Verdict
  <2>2. CASE u.grant.level = "level1"
    BY <2>2 DEF LevelVerdict, Verdict
  <2>3. CASE u.grant.level \notin {"level1", "level2"}
    BY <2>3 DEF LevelVerdict, Verdict, Deny
  <2> QED BY <2>1, <2>2, <2>3
<1> DEFINE du == LevelVerdict(u)  dv == LevelVerdict(v)
<1>2. du.decision = dv.decision
  BY <1>1
<1> HIDE DEF du, dv
<1> QED BY <1>2 DEF Evaluate, Deny, Verdict, du, dv

\* What Broker.Use refuses.
LEMMA UseRefused ==
  ASSUME NEW k, NEW i,
         \/ agent[k.agent] = "revoked"
         \/ item[i] = Nil \/ item[i].archived
         \/ grant[<<k.agent, i>>] = Nil
  PROVE  ~ UseWouldAllow(k, i)
<1> DEFINE u == UseAuth(k.agent, i, IF k.kind = "env" THEN "env" ELSE "fetch", k.url, k.now)
<1>1. \/ item[i] = Nil
      \/ u.principal.revoked \/ u.item.archived \/ u.grant = Nil
  BY DEF UseAuth
<1> HIDE DEF u
<1>2. item[i] = Nil \/ Evaluate(u).decision = "deny"
  BY <1>1, Refused
<1> QED BY <1>2 DEF UseWouldAllow, u

\* A revoked principal is refused.
LEMMA JudgedRevoked ==
  ASSUME NEW k, NEW now, k.read = "revoked"
  PROVE  Judgement(k, now) = "deny"
<1> DEFINE v == [principal |-> [kind |-> "agent", id |-> k.agent, org |-> Nil,
                                revoked |-> k.read = "revoked"],
                 item  |-> [id |-> k.at, org |-> Nil, archived |-> k.row.archived,
                            uris |-> k.row.uris],
                 grant |-> [id |-> <<k.agent, k.at>>, org |-> Nil, agent |-> k.agent,
                            item |-> k.at, level |-> k.grants[k.at].level,
                            actions |-> {"fetch"}, expires |-> k.grants[k.at].expires],
                 approval |-> IF k.live = Nil THEN Nil
                              ELSE [id |-> <<k.agent, k.at>>, expires |-> k.live,
                                    grant |-> <<k.agent, k.at>>],
                 action |-> IF k.kind = "env" THEN "env" ELSE "fetch",
                 url |-> k.url, now |-> now]
<1>1. v.principal.revoked
  OBVIOUS
<1>2. Judgement(k, now) = Evaluate(v).decision
  BY DEF Judgement
<1> HIDE DEF v
<1> QED BY <1>1, <1>2, Refused

\* Judged on rows that are still what the store says, at the instant of the
\* approval's read or later, an item is judged as Broker.Use would judge it.
LEMMA JudgedAsUse ==
  ASSUME StoreTypeOK, NEW k \in Task, NEW now \in Time, k.now <= now,
         k.at # Nil, k.row # Nil, k.grants[k.at] # Nil, k.read # "absent",
         agent[k.agent] = k.read, k.row = item[k.at],
         k.grants[k.at] = grant[<<k.agent, k.at>>],
         k.live = LiveApproval(<<k.agent, k.at>>, k.now),
         NEW x, x.kind = k.kind, x.agent = k.agent, x.url = k.url, x.now = now
  PROVE  Judgement(k, now) = "allow" <=> UseWouldAllow(x, k.at)
<1> DEFINE p == <<k.agent, k.at>>
           action == IF k.kind = "env" THEN "env" ELSE "fetch"
           principal == [kind |-> "agent", id |-> k.agent, org |-> Nil,
                         revoked |-> k.read = "revoked"]
           row == [id |-> k.at, org |-> Nil, archived |-> k.row.archived,
                   uris |-> k.row.uris]
           held == [id |-> p, org |-> Nil, agent |-> k.agent, item |-> k.at,
                    level |-> k.grants[k.at].level, actions |-> {"fetch"},
                    expires |-> k.grants[k.at].expires]
           Given(e) == [id |-> p, expires |-> e, grant |-> p]
           In(ap) == [principal |-> principal, item |-> row, grant |-> held,
                      approval |-> ap, action |-> action, url |-> k.url, now |-> now]
           live == IF k.live = Nil THEN Nil ELSE Given(k.live)
           known == IF approval[p] = Nil \/ now >= approval[p] THEN Nil
                    ELSE Given(approval[p])
<1>1. Judgement(k, now) = Evaluate(In(live)).decision
  BY Zenon DEF Judgement
<1>2. UseWouldAllow(x, k.at) <=> Evaluate(In(known)).decision = "allow"
  <2>1. [id |-> p, grant |-> p, expires |-> approval[p]] = Given(approval[p])
    OBVIOUS
  <2>2. UseAuth(k.agent, k.at, action, k.url, now) = In(known)
    BY <2>1 DEF UseAuth
  <2> QED BY <2>2 DEF UseWouldAllow
<1>3. p \in Agent \X Item
  BY DEF Task
<1>4. approval[p] = Nil \/ approval[p] \in Int
  <2>1. Expiry \subseteq Int
    BY StoreAssumption DEF Expiry
  <2>2. approval \in [Agent \X Item -> Expiry \cup {Nil}]
    BY DEF StoreTypeOK
  <2>3. approval[p] \in Expiry \cup {Nil}
    BY ONLY <1>3, <2>2
  <2> QED BY ONLY <2>1, <2>3
<1>5. CASE known = live
  <2> HIDE DEF In, known, live
  <2> QED BY <1>1, <1>2, <1>5
<1>6. CASE known # live
  <2>1. known = Nil /\ k.live = approval[p] /\ approval[p] # Nil /\ now >= approval[p]
    BY <1>4, <1>6 DEF LiveApproval, Time, Task
  <2>2. live = Given(k.live)
    BY <2>1
  <2>3. ~ Before(now, k.live)
    BY <1>4, <2>1 DEF Before, Time
  <2>4. In(live).approval.expires = k.live /\ In(live).now = now
    BY <2>2
  <2>5. Evaluate(In(known)).decision = Evaluate(In(live)).decision
    <3> DEFINE u == In(known)  v == In(live)
    <3>1. /\ u.principal = v.principal /\ u.item = v.item /\ u.grant = v.grant
          /\ u.action = v.action /\ u.url = v.url /\ u.now = v.now
          /\ u.approval = Nil
      BY <2>1
    <3>2. ~ Before(v.now, v.approval.expires)
      BY <2>3, <2>4
    <3> HIDE DEF u, v
    <3>3. Evaluate(u).decision = Evaluate(v).decision
      BY <3>1, <3>2, ApprovalRunOut
    <3> QED BY <3>3 DEF u, v
  <2> QED BY <1>1, <1>2, <2>5
<1> QED BY <1>5, <1>6

-----------------------------------------------------------------------------
(* What others do.                                                         *)

\* Use says the same of an item whose rows nobody has touched.
LEMMA UseStays ==
  ASSUME NEW k, NEW i, Undisturbed(k.agent, i)
  PROVE  UseWouldAllow(k, i)' <=> UseWouldAllow(k, i)
<1> DEFINE action == IF k.kind = "env" THEN "env" ELSE "fetch"
           u == UseAuth(k.agent, i, action, k.url, k.now)
<1>1. u' = u
  BY DEF UseAuth, Undisturbed
<1>2. Evaluate(u)' = Evaluate(u)
  <2>1. Evaluate(u)' = Evaluate(u')
    BY DEF Evaluate, LevelVerdict
  <2> QED BY <1>1, <2>1
<1> HIDE DEF u
<1> QED BY <1>2 DEF Undisturbed, UseWouldAllow, u

\* A task that stands still is safe after any step that keeps revocations and
\* audit rows and turns no clock back; if it is still running, as to the items
\* that the step leaves alone.
LEMMA StandsStill ==
  ASSUME NEW t, NEW k, NEW C, NEW D \in SUBSET C, C \subseteq Item, Safe(t, k, C),
         k.now \in Int, clock \in Int, clock' \in Int, clock <= clock', audit \subseteq audit',
         agent[k.agent] = "revoked" => agent'[k.agent] = "revoked",
         ~ Stopped(k) => \A i \in D : Undisturbed(k.agent, i)
  PROVE  Safe(t, k, D)'
<1>1. Shape(k)' /\ (k.now <= clock)'
  BY DEF Safe, Shape
<1>2. Audited(t, k)'
  BY DEF Safe, Audited, LocalRow
<1>3. Late(k)'
  BY DEF Safe, Late
<1>4. Faithful(t, k, D)'
  <2> SUFFICES ASSUME ~ Stopped(k)
               PROVE  /\ D = Item => Looked(k)'
                      /\ \A i \in D : Current(k, i)' /\ Judged(t, k, i)'
    BY DEF Faithful, Stopped
  <2>1. /\ C = Item => Looked(k)
        /\ \A i \in C : Current(k, i) /\ Judged(t, k, i)
    BY DEF Safe, Faithful
  <2>2. ASSUME D = Item PROVE Looked(k)'
    <3>1. Looked(k)
      BY <2>1, <2>2
    <3>2. GrantedOf(k.agent)' = GrantedOf(k.agent)
      BY <2>2 DEF GrantedOf, Undisturbed
    <3>3. Listing(k)' = Listing(k)
      BY <2>2, <3>2 DEF Listing, HostListed, GrantedOf, Undisturbed
    <3> QED BY <3>1, <3>3 DEF Looked
  <2>3. ASSUME NEW i \in D PROVE Current(k, i)'
    BY <2>1, <2>3 DEF Current, LiveApproval, Undisturbed
  <2>4. ASSUME NEW i \in D PROVE Judged(t, k, i)'
    <3>1. Judged(t, k, i) /\ i \in Item
      BY <2>1, <2>4
    <3>2. UseWouldAllow(k, i)' <=> UseWouldAllow(k, i)
      BY <2>4, UseStays
    <3>3. RefusedUseless(t, k, i) => RefusedUseless(t, k, i)'
      BY DEF RefusedUseless
    <3>4. /\ item'[i] = item[i] /\ grant'[<<k.agent, i>>] = grant[<<k.agent, i>>]
          /\ i \in GrantedOf(k.agent) => (i \in GrantedOf(k.agent))'
          /\ HostListed(item[i], k.url) => HostListed(item[i], k.url)'
      BY <2>4, <3>1 DEF Undisturbed, GrantedOf
    <3> HIDE DEF Undisturbed
    <3> QED BY <3>1, <3>2, <3>3, <3>4 DEF Judged
  <2> QED BY <2>2, <2>3, <2>4
<1> QED BY <1>1, <1>2, <1>3, <1>4 DEF Safe

-----------------------------------------------------------------------------
(* What a task does itself, as long as no row changes.                     *)

\* A task that returns, with the secrets of the items in out.
LEMMA EndSafe ==
  ASSUME NEW t, NEW k \in Task, NEW C \in SUBSET Item, Safe(t, k, C),
         ~ Stopped(k), k.stage # "record",
         NEW stage \in {"done", "failed"}, NEW out \in SUBSET Item,
         out # {} => stage = "done" /\ k.kind # "connect",
         k.kind # "ssh" /\ ~ k.lost => \A i \in out : LocalRow(t, k.agent, i, "allow") \in audit,
         k.kind # "ssh" /\ k.late => out = {}, NEW none \in Grants,
         NEW x, x = [k EXCEPT !.stage = stage, !.out = out, !.todo = {},
                              !.grants = none, !.row = Nil, !.live = Nil]
  PROVE  x \in Task /\ Safe(t, x, C)
<1>1. x \in Task
  BY DEF Task, Grants
<1>2. /\ x.kind = k.kind /\ x.agent = k.agent /\ x.now = k.now /\ x.got = k.got
      /\ x.at = k.at /\ x.said = k.said /\ x.lost = k.lost /\ x.late = k.late
      /\ x.stage = stage /\ x.out = out /\ x.todo = {}
  BY DEF Task
<1>3. Stopped(x)
  BY <1>2 DEF Stopped
<1>4. Shape(x)
  BY <1>2, <1>3 DEF Safe, Shape, Stopped
<1>5. Audited(t, x)
  BY <1>2 DEF Safe, Audited
<1>6. Late(x)
  BY <1>2, <1>3 DEF Safe, Late, Stopped
<1>7. Faithful(t, x, C)
  BY <1>3 DEF Faithful
<1> QED BY <1>1, <1>2, <1>4, <1>5, <1>6, <1>7 DEF Safe

\* Store.Agent answers.
LEMMA AgentRead ==
  ASSUME StoreTypeOK, NEW t, NEW k \in Task, NEW C \in SUBSET Item, Safe(t, k, C),
         k.stage = "agent",
         k.kind = "connect" => agent[k.agent] # "revoked",
         k.kind # "connect" => agent[k.agent] # "absent",
         NEW x, x = [k EXCEPT !.stage = "grants", !.read = agent[k.agent]]
  PROVE  x \in Task /\ Safe(t, x, C)
<1>0. agent[k.agent] \in {"absent", "live", "revoked"}
  BY DEF StoreTypeOK, Task
<1>1. x \in Task
  BY <1>0 DEF Task
<1>2. /\ x.kind = k.kind /\ x.agent = k.agent /\ x.url = k.url /\ x.now = k.now
      /\ x.got = k.got /\ x.at = k.at /\ x.said = k.said /\ x.lost = k.lost
      /\ x.late = k.late /\ x.out = k.out /\ x.todo = k.todo
      /\ x.stage = "grants" /\ x.read = agent[k.agent]
  BY DEF Task
<1>3. k.kind # "ssh" /\ k.got = {} /\ k.at = Nil /\ k.out = {} /\ ~ Stopped(k)
  BY DEF Safe, Shape, Stopped
<1>4. Shape(x)
  BY <1>2, <1>3, FS_EmptySet DEF Safe, Shape
<1>5. Audited(t, x)
  BY <1>2, <1>3 DEF Safe, Audited
<1>6. Late(x)
  BY <1>2, <1>3 DEF Safe, Late
<1>7. Faithful(t, x, C)
  <2>1. Looked(x)
    BY <1>2 DEF Looked
  <2>2. \A i \in C : Current(x, i)
    BY <1>2 DEF Current
  <2>3. \A i \in C : Judged(t, x, i)
    BY <1>2, <1>3 DEF Judged
  <2> QED BY <2>1, <2>2, <2>3 DEF Faithful
<1> QED BY <1>1, <1>2, <1>4, <1>5, <1>6, <1>7 DEF Safe

\* The keys of the SSH agent.
LEMMA KeysListed ==
  ASSUME StoreTypeOK, NEW t, NEW k \in Task, NEW C \in SUBSET Item, Safe(t, k, C),
         k.stage = "grants", k.kind = "ssh",
         NEW todo \in SUBSET SshKeys, \A i \in todo : item[i] # Nil /\ ~ item[i].archived,
         NEW x, x = [k EXCEPT !.stage = "items", !.todo = todo]
  PROVE  x \in Task /\ Safe(t, x, C)
<1>1. x \in Task
  BY LocalAssumption DEF Task
<1>2. /\ x.kind = "ssh" /\ x.agent = k.agent /\ x.now = k.now /\ x.got = k.got
      /\ x.at = k.at /\ x.out = k.out /\ x.stage = "items" /\ x.todo = todo
  BY DEF Task
<1>3. k.got = {} /\ k.at = Nil /\ k.out = {}
  BY DEF Safe, Shape
<1>4. Shape(x)
  BY <1>2, <1>3, FS_EmptySet DEF Safe, Shape
<1>5. Audited(t, x) /\ Late(x)
  BY <1>2 DEF Audited, Late
<1>6. Faithful(t, x, C)
  <2>1. Looked(x)
    BY <1>2 DEF Looked
  <2>2. \A i \in C : Current(x, i)
    BY <1>2, <1>3, StoreAssumption DEF Current
  <2>3. \A i \in C : Judged(t, x, i)
    BY <1>2, <1>3 DEF Judged
  <2> QED BY <2>1, <2>2, <2>3 DEF Faithful
<1> QED BY <1>1, <1>2, <1>4, <1>5, <1>6 DEF Safe

\* Store.ListGrants answers: what Use could allow is among the grants.
LEMMA GrantsListed ==
  ASSUME StoreTypeOK, NEW t, NEW k \in Task, NEW C \in SUBSET Item, Safe(t, k, C),
         k.stage = "grants", k.kind # "ssh",
         NEW todo, todo = GrantedOf(k.agent),
         NEW grants \in Grants, \A i \in Item : grants[i] = grant[<<k.agent, i>>],
         NEW x, x = [k EXCEPT !.stage = "items", !.now = clock, !.todo = todo,
                              !.grants = grants]
  PROVE  x \in Task /\ Safe(t, x, C)
<1>0. todo \in SUBSET Item
  BY DEF GrantedOf
<1>1. x \in Task
  BY <1>0 DEF Task, StoreTypeOK
<1>2. /\ x.kind = k.kind /\ x.agent = k.agent /\ x.url = k.url /\ x.now = clock
      /\ x.got = k.got /\ x.at = k.at /\ x.said = k.said /\ x.lost = k.lost
      /\ x.late = k.late /\ x.out = k.out /\ x.read = k.read /\ x.stage = "items"
      /\ x.todo = todo /\ x.grants = grants
  BY DEF Task
<1>3. k.got = {} /\ k.at = Nil /\ k.out = {} /\ ~ Stopped(k)
  BY DEF Safe, Shape, Stopped
<1>4. Shape(x)
  BY <1>2, <1>3, FS_EmptySet DEF Safe, Shape, GrantedOf
<1>5. Audited(t, x)
  BY <1>2, <1>3 DEF Safe, Audited
<1>6. Late(x)
  BY <1>2, <1>3 DEF Safe, Late
<1>7. Faithful(t, x, C)
  <2>1. Looked(x)
    BY <1>2, <1>3 DEF Looked, Listing
  <2>2. ASSUME NEW i \in C PROVE Current(x, i)
    BY <1>2, <1>3, <2>2, StoreAssumption DEF Current, Safe, Faithful
  <2>3. ASSUME NEW i \in C PROVE Judged(t, x, i)
    <3>1. UseWouldAllow(x, i) => i \in GrantedOf(k.agent)
      BY <1>2, UseRefused DEF GrantedOf
    <3> QED BY <1>2, <1>3, <3>1 DEF Judged
  <2> QED BY <2>1, <2>2, <2>3 DEF Faithful
<1> QED BY <1>1, <1>2, <1>4, <1>5, <1>6, <1>7 DEF Safe, StoreTypeOK, Time

\* The loop goes past an item that is none of the task's business.
LEMMA ItemPassed ==
  ASSUME StoreTypeOK, NEW t, NEW k \in Task, NEW C \in SUBSET Item, Safe(t, k, C),
         k.stage = "items", k.kind # "ssh", NEW i \in k.todo,
         k.kind = "request" => ~ HostListed(item[i], k.url),
         k.kind = "env" => i \notin Injectable \/ item[i].archived,
         NEW x, x = [k EXCEPT !.todo = @ \ {i}]
  PROVE  x \in Task /\ Safe(t, x, C)
<1>1. x \in Task
  BY DEF Task
<1>2. /\ x.kind = k.kind /\ x.agent = k.agent /\ x.url = k.url /\ x.now = k.now
      /\ x.got = k.got /\ x.at = k.at /\ x.said = k.said /\ x.lost = k.lost
      /\ x.late = k.late /\ x.out = k.out /\ x.read = k.read /\ x.stage = k.stage
      /\ x.grants = k.grants /\ x.row = k.row /\ x.todo = k.todo \ {i}
  BY DEF Task
<1>3. ~ Stopped(k)
  BY DEF Stopped
<1>4. Shape(x)
  BY <1>2 DEF Safe, Shape
<1>5. Audited(t, x)
  BY <1>2 DEF Safe, Audited
<1>6. Late(x)
  BY <1>2 DEF Safe, Late
<1>7. Faithful(t, x, C)
  <2>1. ASSUME C = Item PROVE Looked(x)
    <3>1. Looked(k)
      BY <1>3, <2>1 DEF Safe, Faithful
    <3>2. Listing(x) = Listing(k)
      BY <1>2 DEF Listing
    <3>3. k.kind = "request" => i \notin Listing(k)
      BY DEF Listing
    <3> QED BY <1>2, <3>1, <3>2, <3>3 DEF Looked
  <2>2. ASSUME NEW j \in C PROVE Current(x, j)
    <3>1. Current(k, j)
      BY <1>3, <2>2 DEF Safe, Faithful
    <3> QED BY <1>2, <3>1 DEF Current
  <2>3. ASSUME NEW j \in C PROVE Judged(t, x, j)
    <3>1. Judged(t, k, j)
      BY <1>3, <2>3 DEF Safe, Faithful
    <3>2. UseWouldAllow(x, j) <=> UseWouldAllow(k, j)
      BY <1>2 DEF UseWouldAllow
    <3>3. RefusedUseless(t, x, j) <=> RefusedUseless(t, k, j)
      BY <1>2 DEF RefusedUseless
    <3>4. k.kind = "env" /\ i \in Injectable => ~ UseWouldAllow(k, i)
      BY UseRefused
    <3> QED BY <1>2, <3>1, <3>2, <3>3, <3>4 DEF Judged
  <2> QED BY <2>1, <2>2, <2>3 DEF Faithful
<1> QED BY <1>1, <1>2, <1>4, <1>5, <1>6, <1>7 DEF Safe

\* ItemsForAgent finds an item of the agent; hit tells whether it lists the
\* host that is asked for.
LEMMA ItemMet ==
  ASSUME StoreTypeOK, NEW t, NEW k \in Task, NEW C \in SUBSET Item, Safe(t, k, C),
         k.stage = "items", k.kind = "connect", NEW i \in k.todo,
         Before(k.now, k.grants[i].expires), ~ item[i].archived,
         NEW got, got = k.got \/ (HostListed(item[i], k.url) /\ got = k.got \cup {i}),
         NEW x, x = [k EXCEPT !.todo = @ \ {i}, !.got = got]
  PROVE  x \in Task /\ Safe(t, x, C)
<1>0. i \in Item /\ got \in SUBSET Item /\ IsFiniteSet(got)
  <2>1. IsFiniteSet(k.got \cup {i})
    BY FS_AddElement DEF Safe, Shape
  <2> QED BY <2>1 DEF Task, Safe, Shape
<1>1. x \in Task
  BY <1>0 DEF Task
<1>2. /\ x.kind = "connect" /\ x.agent = k.agent /\ x.url = k.url /\ x.now = k.now
      /\ x.got = got /\ x.at = k.at /\ x.said = k.said /\ x.lost = k.lost
      /\ x.late = k.late /\ x.out = k.out /\ x.read = k.read /\ x.stage = "items"
      /\ x.grants = k.grants /\ x.row = k.row /\ x.todo = k.todo \ {i}
  BY DEF Task
<1>3. ~ Stopped(k)
  BY DEF Stopped
<1>4. Shape(x)
  BY <1>0, <1>2 DEF Safe, Shape
<1>5. Audited(t, x) /\ Late(x)
  BY <1>2 DEF Safe, Audited, Late
<1>6. Faithful(t, x, C)
  <2>1. Looked(x)
    BY <1>2 DEF Looked
  <2>2. ASSUME NEW j \in C PROVE Current(x, j) /\ Judged(t, x, j)
    <3>1. Current(k, j) /\ Judged(t, k, j)
      BY <1>3, <2>2 DEF Safe, Faithful
    <3>2. Current(x, j)
      BY <1>2, <3>1 DEF Current
    <3>3. k.grants[i] # Nil
      BY DEF Safe, Shape
    <3>4. j \in got => /\ j \in GrantedOf(k.agent) /\ ~ item[j].archived
                       /\ HostListed(item[j], k.url)
                       /\ Before(k.now, grant[<<k.agent, j>>].expires)
      <4>1. CASE j \in k.got
        BY <3>1, <4>1 DEF Judged
      <4>2. CASE j \notin k.got /\ j \in got
        <5>1. j = i /\ HostListed(item[i], k.url)
          BY <4>2
        <5>2. k.grants[i] = grant[<<k.agent, i>>]
          BY <3>1, <5>1 DEF Current
        <5> QED BY <1>0, <3>3, <5>1, <5>2 DEF GrantedOf
      <4> QED BY <4>1, <4>2
    <3>5. Judged(t, x, j)
      BY <1>2, <3>4 DEF Judged
    <3> QED BY <3>2, <3>5
  <2> QED BY <2>1, <2>2 DEF Faithful
<1> QED BY <1>1, <1>2, <1>4, <1>5, <1>6 DEF Safe

\* lookup finds an item that lists the host.
LEMMA HostFound ==
  ASSUME StoreTypeOK, NEW t, NEW k \in Task, NEW C \in SUBSET Item, Safe(t, k, C),
         k.stage = "items", k.kind = "request", NEW i \in k.todo,
         item[i] # Nil, HostListed(item[i], k.url),
         NEW x, x = [k EXCEPT !.todo = @ \ {i}, !.got = @ \cup {i}, !.at = i, !.row = item[i]]
  PROVE  x \in Task /\ Safe(t, x, C)
<1>0. i \in Item /\ item[i] \in ItemRow /\ IsFiniteSet(k.got \cup {i})
  <2>1. i \in Item
    BY DEF Task
  <2>2. IsFiniteSet(k.got \cup {i})
    BY FS_AddElement DEF Safe, Shape
  <2> QED BY <2>1, <2>2 DEF StoreTypeOK
<1>1. x \in Task
  BY <1>0 DEF Task
<1>2. /\ x.kind = "request" /\ x.agent = k.agent /\ x.url = k.url /\ x.now = k.now
      /\ x.got = k.got \cup {i} /\ x.at = i /\ x.said = k.said /\ x.lost = k.lost
      /\ x.late = k.late /\ x.out = k.out /\ x.read = k.read /\ x.stage = "items"
      /\ x.grants = k.grants /\ x.row = item[i] /\ x.todo = k.todo \ {i}
  BY DEF Task
<1>3. ~ Stopped(k)
  BY DEF Stopped
<1>4. Shape(x)
  BY <1>0, <1>2 DEF Safe, Shape
<1>5. Audited(t, x) /\ Late(x)
  BY <1>2 DEF Safe, Audited, Late
<1>6. Faithful(t, x, C)
  <2>1. ASSUME C = Item PROVE Looked(x)
    <3>1. Looked(k) /\ Current(k, i)
      BY <1>0, <1>3, <2>1 DEF Safe, Faithful
    <3>2. Listing(x) = Listing(k)
      BY <1>2 DEF Listing
    <3>3. i \in Listing(k)
      <4>1. k.grants[i] # Nil
        BY DEF Safe, Shape
      <4> QED BY <1>0, <3>1, <4>1 DEF Current, Listing, GrantedOf
    <3> QED BY <1>2, <3>1, <3>2, <3>3 DEF Looked
  <2>2. ASSUME NEW j \in C PROVE Current(x, j) /\ Judged(t, x, j)
    <3>1. Current(k, j) /\ Judged(t, k, j)
      BY <1>3, <2>2 DEF Safe, Faithful
    <3>2. Current(x, j)
      BY <1>2, <3>1 DEF Current
    <3>3. Judged(t, x, j)
      BY <1>2 DEF Judged
    <3> QED BY <3>2, <3>3
  <2> QED BY <2>1, <2>2 DEF Faithful
<1> QED BY <1>1, <1>2, <1>4, <1>5, <1>6 DEF Safe

\* ChildEnv takes up an item.
LEMMA ItemTaken ==
  ASSUME StoreTypeOK, NEW t, NEW k \in Task, NEW C \in SUBSET Item, Safe(t, k, C),
         k.stage = "items", k.kind = "env", NEW i \in k.todo,
         item[i] # Nil, i \in Injectable,
         NEW x, x = [k EXCEPT !.todo = @ \ {i}, !.at = i, !.row = item[i],
                              !.stage = "approval"]
  PROVE  x \in Task /\ Safe(t, x, C)
<1>0. i \in Item /\ item[i] \in ItemRow /\ i # Nil
  <2>1. i \in Item
    BY DEF Task
  <2> QED BY <2>1, StoreAssumption DEF StoreTypeOK
<1>1. x \in Task
  BY <1>0 DEF Task
<1>2. /\ x.kind = "env" /\ x.agent = k.agent /\ x.url = k.url /\ x.now = k.now
      /\ x.got = k.got /\ x.at = i /\ x.said = k.said /\ x.lost = k.lost
      /\ x.late = k.late /\ x.out = k.out /\ x.read = k.read /\ x.stage = "approval"
      /\ x.grants = k.grants /\ x.row = item[i] /\ x.todo = k.todo \ {i}
  BY DEF Task
<1>3. ~ Stopped(k)
  BY DEF Stopped
<1>4. Shape(x)
  BY <1>0, <1>2 DEF Safe, Shape
<1>5. Audited(t, x)
  BY <1>2 DEF Safe, Audited
<1>6. Late(x)
  BY <1>2 DEF Safe, Late
<1>7. Faithful(t, x, C)
  <2>1. Looked(x)
    BY <1>2 DEF Looked
  <2>2. ASSUME NEW j \in C PROVE Current(x, j) /\ Judged(t, x, j)
    <3>1. Current(k, j) /\ Judged(t, k, j)
      BY <1>3, <2>2 DEF Safe, Faithful
    <3>2. Current(x, j)
      BY <1>2, <3>1 DEF Current
    <3>3. UseWouldAllow(x, j) <=> UseWouldAllow(k, j)
      BY <1>2 DEF UseWouldAllow
    <3>4. RefusedUseless(t, x, j) <=> RefusedUseless(t, k, j)
      BY <1>2 DEF RefusedUseless
    <3>5. k.at = Nil
      BY DEF Safe, Shape
    <3>6. Judged(t, x, j)
      BY <1>2, <3>1, <3>3, <3>4, <3>5 DEF Judged
    <3> QED BY <3>2, <3>6
  <2> QED BY <2>1, <2>2 DEF Faithful
<1> QED BY <1>1, <1>2, <1>4, <1>5, <1>6, <1>7 DEF Safe

\* The SSH agent reads a key, or skips it.
LEMMA KeyTaken ==
  ASSUME StoreTypeOK, NEW t, NEW k \in Task, NEW C \in SUBSET Item, Safe(t, k, C),
         k.stage = "items", k.kind = "ssh", NEW i \in k.todo,
         NEW got \in {k.got, k.got \cup {i}},
         NEW x, x = [k EXCEPT !.todo = @ \ {i}, !.got = got]
  PROVE  x \in Task /\ Safe(t, x, C)
<1>0. got \in SUBSET Item /\ IsFiniteSet(got)
  <2>1. IsFiniteSet(k.got \cup {i})
    BY FS_AddElement DEF Safe, Shape
  <2> QED BY <2>1 DEF Task, Safe, Shape
<1>1. x \in Task
  BY <1>0 DEF Task
<1>2. /\ x.kind = "ssh" /\ x.agent = k.agent /\ x.now = k.now /\ x.got = got
      /\ x.at = k.at /\ x.out = k.out /\ x.stage = "items" /\ x.row = k.row
      /\ x.todo = k.todo \ {i}
  BY DEF Task
<1>3. ~ Stopped(k)
  BY DEF Stopped
<1>4. Shape(x)
  BY <1>0, <1>2 DEF Safe, Shape
<1>5. Audited(t, x) /\ Late(x)
  BY <1>2 DEF Audited, Late
<1>6. Faithful(t, x, C)
  <2>1. Looked(x)
    BY <1>2 DEF Looked
  <2>2. ASSUME NEW j \in C PROVE Current(x, j) /\ Judged(t, x, j)
    <3>1. Current(k, j) /\ Judged(t, k, j)
      BY <1>3, <2>2 DEF Safe, Faithful
    <3>2. Current(x, j)
      BY <1>2, <3>1 DEF Current
    <3>3. Judged(t, x, j)
      BY <1>2, <3>1 DEF Judged
    <3> QED BY <3>2, <3>3
  <2> QED BY <2>1, <2>2 DEF Faithful
<1> QED BY <1>1, <1>2, <1>4, <1>5, <1>6 DEF Safe

\* lookup is done: exactly one granted item lists the host, or none is taken.
LEMMA LookupDone ==
  ASSUME StoreTypeOK, NEW t, NEW k \in Task, NEW C \in SUBSET Item, Safe(t, k, C),
         k.stage = "items", k.kind = "request", k.todo = {},
         NEW x,
         IF Cardinality(k.got) = 1 THEN x = [k EXCEPT !.stage = "approval"]
         ELSE x = [k EXCEPT !.stage = "record", !.said = "deny", !.at = Nil, !.got = {}]
  PROVE  x \in Task /\ Safe(t, x, C)
<1>1. x \in Task
  <2>1. [k EXCEPT !.stage = "approval"] \in Task
    BY DEF Task
  <2>2. [k EXCEPT !.stage = "record", !.said = "deny", !.at = Nil, !.got = {}] \in Task
    BY DEF Task, DecisionKind
  <2> QED BY <2>1, <2>2, Zenon
<1>2. /\ x.kind = "request" /\ x.agent = k.agent /\ x.url = k.url /\ x.now = k.now
      /\ x.lost = k.lost /\ x.late = k.late /\ x.out = k.out /\ x.read = k.read
      /\ x.grants = k.grants /\ x.row = k.row /\ x.todo = {}
  <2>1. CASE x = [k EXCEPT !.stage = "approval"]
    BY <2>1 DEF Task
  <2>2. CASE x = [k EXCEPT !.stage = "record", !.said = "deny", !.at = Nil, !.got = {}]
    BY <2>2 DEF Task
  <2> QED BY <2>1, <2>2
<1>3. ~ Stopped(k)
  BY DEF Stopped
<1>4. IsFiniteSet(k.got)
  BY DEF Safe, Shape
<1>5. CASE Cardinality(k.got) = 1
  <2>1. x.stage = "approval" /\ x.got = k.got /\ x.at = k.at /\ x.said = k.said
    BY <1>5 DEF Task
  <2>2. k.got = {k.at} /\ k.row # Nil /\ k.grants[k.at] # Nil /\ k.at # Nil
    <3>1. \E e : k.got = {e}
      BY <1>4, <1>5, FS_Singleton
    <3>2. k.at \in k.got /\ k.row # Nil /\ k.grants[k.at] # Nil
      BY <3>1 DEF Safe, Shape
    <3>3. k.at \in Item
      BY <3>2 DEF Task
    <3> QED BY <3>1, <3>2, <3>3, StoreAssumption
  <2>3. Shape(x)
    BY <1>2, <1>4, <2>1, <2>2 DEF Safe, Shape
  <2>4. Audited(t, x)
    BY <1>2, <2>1 DEF Safe, Audited
  <2>5. Late(x)
    BY <1>2, <2>1 DEF Safe, Late
  <2>6. ASSUME C = Item PROVE Looked(x)
    <3>1. Looked(k)
      BY <1>3, <2>6 DEF Safe, Faithful
    <3>2. Listing(x) = Listing(k)
      BY <1>2 DEF Listing
    <3> QED BY <1>2, <2>1, <2>2, <3>1, <3>2 DEF Looked
  <2>7. ASSUME NEW j \in C PROVE Current(x, j)
    <3>1. Current(k, j)
      BY <1>3, <2>7 DEF Safe, Faithful
    <3> QED BY <1>2, <2>1, <3>1 DEF Current
  <2>8. \A j \in C : Judged(t, x, j)
    BY <1>2, <2>1 DEF Judged
  <2> QED BY <1>1, <1>2, <2>3, <2>4, <2>5, <2>6, <2>7, <2>8 DEF Safe, Faithful
<1>6. CASE Cardinality(k.got) # 1
  <2>1. x.stage = "record" /\ x.got = {} /\ x.at = Nil /\ x.said = "deny"
    BY <1>6 DEF Task
  <2>2. Shape(x)
    BY <1>2, <2>1, FS_EmptySet DEF Safe, Shape, DecisionKind
  <2>3. Audited(t, x)
    BY <1>2, <2>1 DEF Safe, Audited
  <2>4. Late(x)
    BY <1>2, <2>1 DEF Safe, Late
  <2>5. ASSUME C = Item PROVE Looked(x)
    <3>1. Looked(k)
      BY <1>3, <2>5 DEF Safe, Faithful
    <3>2. Listing(x) = Listing(k)
      BY <1>2 DEF Listing
    <3>3. \A i \in Item : k.got # {i}
      BY <1>6, FS_Singleton
    <3> QED BY <1>2, <2>1, <3>1, <3>2, <3>3 DEF Looked
  <2>6. ASSUME NEW j \in C PROVE Current(x, j)
    <3>1. Current(k, j)
      BY <1>3, <2>6 DEF Safe, Faithful
    <3> QED BY <1>2, <2>1, <3>1 DEF Current
  <2>7. ASSUME NEW j \in C PROVE Judged(t, x, j)
    BY <1>2, <2>1, <2>7, StoreAssumption DEF Judged
  <2> QED BY <1>1, <1>2, <2>2, <2>3, <2>4, <2>5, <2>6, <2>7 DEF Safe, Faithful
<1> QED BY <1>5, <1>6

\* The instant of a decision is the clock's, or an earlier one of ChildEnv.
LEMMA InstantBounds ==
  ASSUME StoreTypeOK, NEW k \in Task, k.now <= clock
  PROVE  /\ Instant(k) \in Time /\ k.now <= Instant(k) /\ Instant(k) <= clock
         /\ k.kind = "env" => Instant(k) = k.now
BY DEF StoreTypeOK, Instant, Task, Time

\* The record stays a task when the approval's answer is put down.
LEMMA AnsweredType ==
  ASSUME NEW k \in Task, NEW now \in Time, NEW live \in Expiry \cup {Nil}
  PROVE  [k EXCEPT !.stage = "judge", !.now = now, !.live = live] \in Task
BY DEF Task

\* Nor does the decision change that.
LEMMA DecidedType ==
  ASSUME NEW k \in Task, NEW now \in Time, NEW d \in DecisionKind,
         NEW stage \in {"secret", "record"}
  PROVE  [k EXCEPT !.now = now, !.said = d, !.stage = stage] \in Task
BY DEF Task

\* Store.LiveApproval answers.
LEMMA ApprovalFound ==
  ASSUME StoreTypeOK, NEW t, NEW k \in Task, NEW C \in SUBSET Item, Safe(t, k, C),
         k.stage = "approval",
         NEW now, now = Instant(k),
         NEW live, live = LiveApproval(<<k.agent, k.at>>, now),
         NEW x, x = [k EXCEPT !.stage = "judge", !.now = now, !.live = live]
  PROVE  x \in Task /\ Safe(t, x, C)
<1>0. now \in Time /\ now <= clock /\ (k.kind = "env" => now = k.now)
  BY InstantBounds DEF Safe
<1>1. k.kind \in {"env", "request"} /\ k.at \in Item /\ ~ Stopped(k)
  BY LocalAssumption DEF Safe, Shape, Task, Stopped
<1>2. live \in Expiry \cup {Nil}
  BY <1>1 DEF StoreTypeOK, LiveApproval, Task
<1>3. x \in Task
  <2>1. now \in Time
    BY <1>0
  <2>2. [k EXCEPT !.stage = "judge", !.now = now, !.live = live] \in Task
    BY <1>2, <2>1, AnsweredType, Zenon
  <2> QED BY <2>2, Zenon
<1>4. /\ x.kind = k.kind /\ x.agent = k.agent /\ x.url = k.url /\ x.now = now
      /\ x.got = k.got /\ x.at = k.at /\ x.said = k.said /\ x.lost = k.lost
      /\ x.late = k.late /\ x.out = k.out /\ x.read = k.read /\ x.stage = "judge"
      /\ x.grants = k.grants /\ x.row = k.row /\ x.todo = k.todo /\ x.live = live
  BY DEF Task
<1>5. Shape(x)
  BY <1>4 DEF Safe, Shape
<1>6. Audited(t, x)
  BY <1>4 DEF Safe, Audited
<1>7. Late(x)
  BY <1>4 DEF Safe, Late
<1>8. ASSUME C = Item PROVE Looked(x)
  <2>1. Looked(k)
    BY <1>1, <1>8 DEF Safe, Faithful
  <2>2. Listing(x) = Listing(k)
    BY <1>4 DEF Listing
  <2> QED BY <1>4, <2>1, <2>2 DEF Looked
<1>9. ASSUME NEW j \in C PROVE Current(x, j) /\ Judged(t, x, j)
  <2>1. Current(k, j) /\ Judged(t, k, j)
    BY <1>1, <1>9 DEF Safe, Faithful
  <2>2. Current(x, j)
    BY <1>4, <2>1 DEF Current
  <2>3. k.kind = "env" => (UseWouldAllow(x, j) <=> UseWouldAllow(k, j))
    BY <1>0, <1>4 DEF UseWouldAllow
  <2>4. RefusedUseless(t, x, j) <=> RefusedUseless(t, k, j)
    BY <1>4 DEF RefusedUseless
  <2>5. Judged(t, x, j)
    BY <1>1, <1>4, <2>1, <2>3, <2>4 DEF Judged
  <2> QED BY <2>2, <2>5
<1> QED BY <1>0, <1>3, <1>4, <1>5, <1>6, <1>7, <1>8, <1>9 DEF Safe, Faithful

\* The decision is made.
LEMMA DecisionMade ==
  ASSUME StoreTypeOK, NEW t, NEW k \in Task, NEW C \in SUBSET Item, Safe(t, k, C),
         k.stage = "judge",
         NEW now, now = Instant(k),
         NEW d, d = Judgement(k, now),
         NEW stage \in {"secret", "record"},
         stage = "secret" <=> k.kind = "env" /\ d = "allow",
         NEW x, x = [k EXCEPT !.now = now, !.said = d, !.stage = stage]
  PROVE  x \in Task /\ Safe(t, x, C)
<1>0. now \in Time /\ k.now <= now /\ now <= clock /\ (k.kind = "env" => now = k.now)
  BY InstantBounds DEF Safe
<1>1. /\ k.kind \in {"env", "request"} /\ k.at \in Item /\ k.at # Nil /\ k.row # Nil
      /\ k.grants[k.at] # Nil /\ k.read # "absent" /\ ~ Stopped(k)
  BY LocalAssumption DEF Safe, Shape, Task, Stopped
<1>2. d \in DecisionKind
  BY EvaluateDecides DEF Judgement
<1>3. x \in Task
  <2>1. now \in Time
    BY <1>0
  <2>2. stage \in {"secret", "record"}
    OBVIOUS
  <2>3. [k EXCEPT !.now = now, !.said = d, !.stage = stage] \in Task
    BY <1>2, <2>1, <2>2, DecidedType, Zenon
  <2> QED BY <2>3, Zenon
<1>4. /\ x.kind = k.kind /\ x.agent = k.agent /\ x.url = k.url /\ x.now = now
      /\ x.got = k.got /\ x.at = k.at /\ x.said = d /\ x.lost = k.lost
      /\ x.late = k.late /\ x.out = k.out /\ x.read = k.read /\ x.stage = stage
      /\ x.grants = k.grants /\ x.row = k.row /\ x.todo = k.todo
  BY DEF Task
<1>5. stage \in {"secret", "record"} /\ (stage = "secret" <=> k.kind = "env" /\ d = "allow")
  OBVIOUS
<1>6. Shape(x)
  BY <1>1, <1>2, <1>4, <1>5 DEF Safe, Shape
<1>7. Audited(t, x)
  BY <1>1, <1>4, <1>5 DEF Safe, Audited
<1>8. Late(x)
  <2>1. k.late => d = "deny"
    BY <1>1, JudgedRevoked DEF Safe, Late
  <2> QED BY <1>4, <1>5, <2>1 DEF Safe, Late
<1>9. ASSUME C = Item PROVE Looked(x)
  <2>1. Looked(k)
    BY <1>1, <1>9 DEF Safe, Faithful
  <2>2. Listing(x) = Listing(k)
    BY <1>4 DEF Listing
  <2> QED BY <1>4, <1>5, <2>1, <2>2 DEF Looked
<1>10. ASSUME NEW j \in C PROVE Current(x, j) /\ Judged(t, x, j)
  <2>1. Current(k, j) /\ Judged(t, k, j)
    BY <1>1, <1>10 DEF Safe, Faithful
  <2>2. Current(x, j)
    BY <1>4, <1>5, <2>1 DEF Current
  <2>3. ASSUME j = k.at PROVE d = "allow" <=> UseWouldAllow(x, j)
    <3>1. /\ agent[k.agent] = k.read /\ k.row = item[k.at]
          /\ k.grants[k.at] = grant[<<k.agent, k.at>>]
          /\ k.live = LiveApproval(<<k.agent, k.at>>, k.now)
      BY <1>1, <2>1, <2>3 DEF Current
    <3>2. Judgement(k, now) = "allow" <=> UseWouldAllow(x, k.at)
      <4>1. k \in Task
        OBVIOUS
      <4> QED BY ONLY StoreTypeOK, <1>0, <1>1, <1>4, <3>1, <4>1, JudgedAsUse
    <3> QED BY <2>3, <3>2
  <2>4. k.kind = "env" => (UseWouldAllow(x, j) <=> UseWouldAllow(k, j))
    BY <1>0, <1>4 DEF UseWouldAllow
  <2>5. RefusedUseless(t, x, j) <=> RefusedUseless(t, k, j)
    BY <1>4 DEF RefusedUseless
  <2>6. Judged(t, x, j)
    BY <1>1, <1>4, <1>5, <2>1, <2>3, <2>4, <2>5 DEF Judged
  <2> QED BY <2>2, <2>6
<1> QED BY <1>0, <1>3, <1>4, <1>6, <1>7, <1>8, <1>9, <1>10 DEF Safe, Faithful

\* ChildEnv has the secret; it records the decision next.
LEMMA SecretTaken ==
  ASSUME StoreTypeOK, NEW t, NEW k \in Task, NEW C \in SUBSET Item, Safe(t, k, C),
         k.stage = "secret", k.kind = "env",
         NEW x, x = [k EXCEPT !.stage = "record", !.got = @ \cup {k.at}]
  PROVE  x \in Task /\ Safe(t, x, C)
<1>0. /\ k.at \in Item /\ k.at \in Injectable /\ k.said = "allow" /\ ~ Stopped(k)
      /\ IsFiniteSet(k.got \cup {k.at})
  BY FS_AddElement DEF Safe, Shape, Task, Stopped
<1>1. x \in Task
  BY <1>0 DEF Task
<1>2. /\ x.kind = "env" /\ x.agent = k.agent /\ x.url = k.url /\ x.now = k.now
      /\ x.got = k.got \cup {k.at} /\ x.at = k.at /\ x.said = "allow" /\ x.lost = k.lost
      /\ x.late = k.late /\ x.out = k.out /\ x.read = k.read /\ x.stage = "record"
      /\ x.grants = k.grants /\ x.row = k.row /\ x.todo = k.todo
  BY <1>0 DEF Task
<1>3. Shape(x)
  BY <1>0, <1>2 DEF Safe, Shape, DecisionKind
<1>4. Audited(t, x)
  BY <1>0, <1>2 DEF Safe, Audited
<1>5. Late(x)
  BY <1>0, <1>2 DEF Safe, Late
<1>6. Looked(x)
  BY <1>2 DEF Looked
<1>7. ASSUME NEW j \in C PROVE Current(x, j) /\ Judged(t, x, j)
  <2>1. Current(k, j) /\ Judged(t, k, j)
    BY <1>0, <1>7 DEF Safe, Faithful
  <2>2. Current(x, j)
    BY <1>2, <2>1 DEF Current
  <2>3. UseWouldAllow(x, j) <=> UseWouldAllow(k, j)
    BY <1>2 DEF UseWouldAllow
  <2>4. RefusedUseless(t, x, j) <=> RefusedUseless(t, k, j)
    BY <1>2 DEF RefusedUseless
  <2>5. Judged(t, x, j)
    BY <1>0, <1>2, <2>1, <2>3, <2>4 DEF Judged
  <2> QED BY <2>2, <2>5
<1> QED BY <1>1, <1>2, <1>3, <1>4, <1>5, <1>6, <1>7 DEF Safe, Faithful

\* ChildEnv cannot use the secret: the decision is turned round.
LEMMA SecretTurned ==
  ASSUME StoreTypeOK, NEW t, NEW k \in Task, NEW C \in SUBSET Item, Safe(t, k, C),
         k.stage = "secret", k.kind = "env",
         NEW x, x = [k EXCEPT !.stage = "record", !.said = "deny"]
  PROVE  x \in Task /\ Safe(t, x, C)
<1>0. k.at \in Item /\ k.at \in Injectable /\ k.said = "allow" /\ ~ Stopped(k)
  BY DEF Safe, Shape, Task, Stopped
<1>1. x \in Task
  BY DEF Task, DecisionKind
<1>2. /\ x.kind = "env" /\ x.agent = k.agent /\ x.url = k.url /\ x.now = k.now
      /\ x.got = k.got /\ x.at = k.at /\ x.said = "deny" /\ x.lost = k.lost
      /\ x.late = k.late /\ x.out = k.out /\ x.read = k.read /\ x.stage = "record"
      /\ x.grants = k.grants /\ x.row = k.row /\ x.todo = k.todo
  BY <1>0 DEF Task
<1>3. Shape(x)
  BY <1>0, <1>2 DEF Safe, Shape, DecisionKind
<1>4. Audited(t, x)
  BY <1>0, <1>2 DEF Safe, Audited
<1>5. Late(x)
  BY <1>0, <1>2 DEF Safe, Late
<1>6. Looked(x)
  BY <1>2 DEF Looked
<1>7. ASSUME NEW j \in C PROVE Current(x, j) /\ Judged(t, x, j)
  <2>1. Current(k, j) /\ Judged(t, k, j)
    BY <1>0, <1>7 DEF Safe, Faithful
  <2>2. Current(x, j)
    BY <1>2, <2>1 DEF Current
  <2>3. UseWouldAllow(x, j) <=> UseWouldAllow(k, j)
    BY <1>2 DEF UseWouldAllow
  <2>4. RefusedUseless(t, x, j) <=> RefusedUseless(t, k, j)
    BY <1>2 DEF RefusedUseless
  <2>5. Judged(t, x, j)
    BY <1>0, <1>2, <2>1, <2>3, <2>4 DEF Judged
  <2> QED BY <2>2, <2>5
<1> QED BY <1>1, <1>2, <1>3, <1>4, <1>5, <1>6, <1>7 DEF Safe, Faithful

\* Where a decision leads.
Follows(k, x) ==
  /\ x \in Task
  /\ x.kind = k.kind /\ x.agent = k.agent /\ x.url = k.url /\ x.now = k.now
  /\ x.late = k.late /\ x.out = k.out /\ x.read = k.read
  /\ x.grants = k.grants /\ x.todo = k.todo /\ (k.lost => x.lost)
  /\ IF k.kind = "env" THEN x.stage = "items" /\ x.got = k.got /\ x.at = Nil
     ELSE IF k.said = "allow"
       THEN x.stage = "secret" /\ x.got = k.got /\ x.at = k.at /\ x.said = k.said
     ELSE x.stage = "done" /\ x.got = {}

\* What stays and what changes when the decision has been written.
LEMMA RecordedFields ==
  ASSUME NEW k \in Task, k.kind \in {"env", "request"},
         NEW r, r = Recorded(k), NEW x \in {r, [r EXCEPT !.lost = TRUE]}
  PROVE  Follows(k, x)
<1> USE DEF Follows
<1>1. /\ r \in Task
      /\ r.kind = k.kind /\ r.agent = k.agent /\ r.url = k.url /\ r.now = k.now
      /\ r.late = k.late /\ r.out = k.out /\ r.read = k.read
      /\ r.grants = k.grants /\ r.todo = k.todo /\ r.lost = k.lost
      /\ IF k.kind = "env" THEN r.stage = "items" /\ r.got = k.got /\ r.at = Nil
         ELSE IF k.said = "allow"
           THEN r.stage = "secret" /\ r.got = k.got /\ r.at = k.at /\ r.said = k.said
         ELSE r.stage = "done" /\ r.got = {}
  <2>1. CASE k.kind = "env"
    <3>1. r = [k EXCEPT !.stage = "items", !.at = Nil, !.row = Nil, !.live = Nil, !.said = Nil]
      BY <2>1 DEF Recorded
    <3> QED BY <2>1, <3>1 DEF Task
  <2>2. CASE k.kind # "env" /\ k.said = "allow"
    <3>1. r = [k EXCEPT !.stage = "secret"]
      BY <2>2 DEF Recorded
    <3> QED BY <2>2, <3>1 DEF Task
  <2>3. CASE k.kind # "env" /\ k.said # "allow"
    <3>1. r = [k EXCEPT !.stage = "done", !.got = {}]
      BY <2>3 DEF Recorded
    <3> QED BY <2>3, <3>1 DEF Task
  <2> QED BY <2>1, <2>2, <2>3
<1>2. CASE x = r
  BY <1>1, <1>2
<1>3. CASE x = [r EXCEPT !.lost = TRUE]
  <2>1. \A q \in Task : [q EXCEPT !.lost = TRUE] \in Task
    BY DEF Task
  <2>2. x \in Task
    BY <1>1, <1>3, <2>1, Zenon
  <2> QED BY <1>1, <1>3, <2>2 DEF Task
<1> QED BY <1>2, <1>3

\* The decision has been recorded, or its write was lost.
LEMMA DecisionRecorded ==
  ASSUME NEW t, NEW k \in Task, NEW C \in SUBSET Item, Safe(t, k, C)', k.stage = "record",
         NEW x, Follows(k, x), x.lost = TRUE \/ LocalRow(t, k.agent, k.at, k.said) \in audit'
  PROVE  x \in Task /\ Safe(t, x, C)'
<1>0. /\ k.kind \in {"env", "request"} /\ k.said \in DecisionKind
      /\ k.at \in Item \cup {Nil} /\ Shape(k) /\ k.out = {} /\ ~ Stopped(k)
  BY LocalAssumption DEF Safe, Shape, Task, Stopped
<1>1. Follows(k, x)
  OBVIOUS
<1> USE DEF Follows
<1>2. Audited(t, k)' /\ Late(k)' /\ (k.now <= clock)'
      /\ (C = Item => Looked(k)') /\ \A j \in C : Current(k, j)' /\ Judged(t, k, j)'
  BY <1>0 DEF Safe, Faithful, Stopped
<1>3. ASSUME NEW j \in C
      PROVE  /\ UseWouldAllow(x, j)' <=> UseWouldAllow(k, j)'
             /\ RefusedUseless(t, k, j)' => RefusedUseless(t, x, j)'
             /\ GrantedOf(x.agent)' = GrantedOf(k.agent)'
  BY <1>1 DEF UseWouldAllow, RefusedUseless
<1>4. CASE k.kind = "env"
  <2>1. x.stage = "items" /\ x.got = k.got /\ x.at = Nil /\ x.kind = "env"
    BY <1>1, <1>4
  <2>2. Shape(x)'
    BY <1>0, <1>1, <1>4, <2>1 DEF Shape
  <2>3. Audited(t, x)'
    BY <1>0, <1>1, <1>2, <1>4, <2>1 DEF Audited
  <2>4. Late(x)'
    BY <1>0, <1>1, <1>2, <1>4, <2>1 DEF Late
  <2>5. Looked(x)'
    BY <2>1 DEF Looked
  <2>6. ASSUME NEW j \in C PROVE Current(x, j)'
    BY <1>1, <1>2, <2>1, <2>6, StoreAssumption DEF Current
  <2>7. ASSUME NEW j \in C PROVE Judged(t, x, j)'
    <3>1. Judged(t, k, j)'
      BY <1>2, <2>7
    <3>2. k.at = j /\ k.said = "deny" => RefusedUseless(t, x, j)'
      BY <1>1 DEF RefusedUseless
    <3>3. k.at = j /\ k.said = "allow" => j \in k.got
      BY <1>0, <1>4 DEF Shape
    <3> QED BY <1>1, <1>3, <1>4, <2>1, <2>7, <3>1, <3>2, <3>3 DEF Judged
  <2> QED BY <1>1, <1>2, <2>2, <2>3, <2>4, <2>5, <2>6, <2>7 DEF Safe, Faithful
<1>5. CASE k.kind = "request" /\ k.said = "allow"
  <2>1. x.stage = "secret" /\ x.got = k.got /\ x.at = k.at /\ x.said = "allow"
        /\ x.kind = "request" /\ k.at # Nil
    BY <1>0, <1>1, <1>5 DEF Shape
  <2>2. Shape(x)'
    BY <1>0, <1>1, <1>5, <2>1 DEF Shape
  <2>3. Audited(t, x)'
    BY <1>0, <1>1, <1>2, <1>5, <2>1 DEF Audited
  <2>4. Late(x)'
    BY <1>0, <1>1, <1>2, <1>5, <2>1 DEF Late
  <2>5. ASSUME C = Item PROVE Looked(x)'
    <3>1. Looked(k)'
      BY <1>2, <2>5
    <3>2. Listing(x)' = Listing(k)'
      BY <1>1 DEF Listing
    <3> QED BY <1>5, <2>1, <3>1, <3>2 DEF Looked
  <2>6. ASSUME NEW j \in C PROVE Current(x, j)'
    BY <1>1, <1>2, <2>1, <2>6 DEF Current
  <2>7. ASSUME NEW j \in C PROVE Judged(t, x, j)'
    BY <1>1, <1>2, <1>3, <1>5, <2>1, <2>7 DEF Judged
  <2> QED BY <1>1, <1>2, <2>2, <2>3, <2>4, <2>5, <2>6, <2>7 DEF Safe, Faithful
<1>6. CASE k.kind = "request" /\ k.said # "allow"
  <2>1. x.stage = "done" /\ x.got = {} /\ x.kind = "request" /\ Stopped(x)
    BY <1>1, <1>6 DEF Stopped
  <2>2. Shape(x)'
    BY <1>0, <1>1, <2>1, FS_EmptySet DEF Shape
  <2>3. Audited(t, x)'
    BY <1>0, <1>1, <1>2, <2>1 DEF Audited
  <2>4. Late(x)'
    BY <1>0, <1>1, <1>2, <2>1 DEF Late
  <2>5. Faithful(t, x, C)'
    BY <2>1 DEF Faithful, Stopped
  <2> QED BY <1>1, <1>2, <2>2, <2>3, <2>4, <2>5 DEF Safe
<1> QED BY <1>0, <1>4, <1>5, <1>6

-----------------------------------------------------------------------------
(* Every step of a task.                                                   *)

\* A task begins: it has read nothing yet.
LEMMA TaskBegun ==
  ASSUME StoreTypeOK, NEW t, NEW C \in SUBSET Item,
         NEW kind \in Kinds, NEW a \in Agent, NEW url \in Url \cup {Nil},
         NEW stage, stage = IF kind = "ssh" THEN "grants" ELSE "agent",
         NEW none \in Grants, NEW late \in BOOLEAN, late <=> agent[a] = "revoked",
         NEW x, x = [kind |-> kind, agent |-> a, url |-> url, now |-> clock,
                     stage |-> stage, read |-> "absent", grants |-> none, todo |-> {},
                     got |-> {}, at |-> Nil, row |-> Nil, live |-> Nil, said |-> Nil,
                     lost |-> FALSE, late |-> late, out |-> {}]
  PROVE  x \in Task /\ Safe(t, x, C)
<1>1. x \in Task
  BY DEF Task, StoreTypeOK
<1>2. /\ x.kind = kind /\ x.agent = a /\ x.now = clock /\ x.stage = stage
      /\ x.todo = {} /\ x.got = {} /\ x.at = Nil /\ x.out = {} /\ x.late = late
  OBVIOUS
<1>3. stage \in {"grants", "agent"} /\ (stage = "grants" <=> kind = "ssh")
  OBVIOUS
<1>4. Shape(x)
  BY <1>2, <1>3, FS_EmptySet DEF Shape
<1>5. Audited(t, x) /\ Late(x) /\ Looked(x)
  BY <1>2, <1>3 DEF Audited, Late, Looked
<1>6. \A i \in C : Current(x, i) /\ Judged(t, x, i)
  BY <1>2, <1>3 DEF Current, Judged
<1>7. x.now <= clock
  BY <1>2 DEF StoreTypeOK, Time
<1> QED BY <1>1, <1>4, <1>5, <1>6, <1>7 DEF Safe, Faithful

\* Task t moves, and is safe where it stands now.
Moves(t, C) == \E x \in Task : Set(t, x) /\ Safe(t, x, C)

\* A task that returns.
LEMMA EndMoves ==
  ASSUME NEW t, NEW k \in Task, k = task[t], NEW C \in SUBSET Item, Safe(t, k, C),
         ~ Stopped(k), k.stage # "record",
         NEW stage \in {"done", "failed"}, NEW out \in SUBSET Item,
         out # {} => stage = "done" /\ k.kind # "connect",
         k.kind # "ssh" /\ ~ k.lost => \A i \in out : LocalRow(t, k.agent, i, "allow") \in audit,
         k.kind # "ssh" /\ k.late => out = {},
         EndTask(t, stage, out)
  PROVE  Moves(t, C)
<1> PICK none : none = [i \in Item |-> Nil]
  OBVIOUS
<1> PICK x : x = [k EXCEPT !.stage = stage, !.out = out, !.todo = {},
                           !.grants = none, !.row = Nil, !.live = Nil]
  OBVIOUS
<1>1. Set(t, x)
  BY Zenon DEF EndTask
<1>2. none \in Grants
  BY DEF Grants
<1>3. /\ k \in Task /\ C \in SUBSET Item /\ Safe(t, k, C) /\ ~ Stopped(k) /\ k.stage # "record"
      /\ stage \in {"done", "failed"} /\ out \in SUBSET Item
      /\ out # {} => stage = "done" /\ k.kind # "connect"
      /\ k.kind # "ssh" /\ k.late => out = {}
  OBVIOUS
<1>4. k.kind # "ssh" /\ ~ k.lost => \A i \in out : LocalRow(t, k.agent, i, "allow") \in audit
  OBVIOUS
<1>5. x = [k EXCEPT !.stage = stage, !.out = out, !.todo = {},
                    !.grants = none, !.row = Nil, !.live = Nil]
  OBVIOUS
<1>6. x \in Task /\ Safe(t, x, C)
  BY ONLY <1>2, <1>3, <1>4, <1>5, EndSafe
<1> QED BY <1>1, <1>6 DEF Moves

\* A task begins.
LEMMA BeginMoves ==
  ASSUME StoreTypeOK, NEW t, NEW C \in SUBSET Item, BeginTask(t)
  PROVE  Moves(t, C)
<1>1. PICK a \in Agent, kind \in Kinds, url \in Url \cup {Nil} : Begin_(t, kind, a, url)
  BY DEF BeginTask
<1> PICK none : none = [i \in Item |-> Nil]
  OBVIOUS
<1>2. none \in Grants
  BY DEF Grants
<1> PICK late \in BOOLEAN : late <=> agent[a] = "revoked"
  OBVIOUS
<1> PICK stage : stage = IF kind = "ssh" THEN "grants" ELSE "agent"
  OBVIOUS
<1> PICK x : x = [kind |-> kind, agent |-> a, url |-> url, now |-> clock,
                  stage |-> stage, read |-> "absent", grants |-> none, todo |-> {},
                  got |-> {}, at |-> Nil, row |-> Nil, live |-> Nil, said |-> Nil,
                  lost |-> FALSE, late |-> late, out |-> {}]
  OBVIOUS
<1>3. Set(t, x)
  <2>1. late = (agent[a] = "revoked")
    OBVIOUS
  <2> QED BY <1>1, <2>1, Zenon DEF Begin_, Set
<1>4. x \in Task /\ Safe(t, x, C)
  BY <1>2, TaskBegun
<1> QED BY <1>3, <1>4 DEF Moves

\* A running task, as every step but its first finds it.
Stands(t, k, C) ==
  /\ k \in Task /\ k = task[t] /\ C \in SUBSET Item /\ Safe(t, k, C)

\* Store.Agent is asked.
LEMMA ReadAgentMoves ==
  ASSUME StoreTypeOK, NEW t, NEW k, NEW C, Stands(t, k, C), ReadAgent(t)
  PROVE  Moves(t, C)
<1> USE DEF Stands
<1>0. k.stage = "agent" /\ ~ Stopped(k)
  BY DEF ReadAgent, At, Stopped
<1>1. CASE EndTask(t, "done", {}) \/ EndTask(t, "failed", {})
  <2>1. PICK stage \in {"done", "failed"} : EndTask(t, stage, {})
    BY <1>1
  <2> QED BY <1>0, <2>1, EndMoves
<1>2. CASE ~ (EndTask(t, "done", {}) \/ EndTask(t, "failed", {}))
  <2> PICK x : x = [k EXCEPT !.stage = "grants", !.read = agent[k.agent]]
    OBVIOUS
  <2>1. /\ Set(t, x)
        /\ k.kind = "connect" => agent[k.agent] # "revoked"
        /\ k.kind # "connect" => agent[k.agent] # "absent"
    BY <1>2 DEF ReadAgent
  <2>2. /\ k \in Task /\ C \in SUBSET Item /\ Safe(t, k, C)
        /\ x = [k EXCEPT !.stage = "grants", !.read = agent[k.agent]]
    OBVIOUS
  <2>3. x \in Task /\ Safe(t, x, C)
    BY ONLY StoreTypeOK, <1>0, <2>1, <2>2, AgentRead
  <2> QED BY <2>1, <2>3 DEF Moves
<1> QED BY <1>1, <1>2

\* Store.ListGrants is asked, or the SSH agent lists its keys.
LEMMA ListGrantsMoves ==
  ASSUME StoreTypeOK, NEW t, NEW k, NEW C, Stands(t, k, C), ListGrants(t)
  PROVE  Moves(t, C)
<1> USE DEF Stands
<1>0. k.stage = "grants"
  BY DEF ListGrants, At
<1>1. CASE k.kind = "ssh"
  <2> PICK todo : todo = {i \in SshKeys : item[i] # Nil /\ ~ item[i].archived}
    BY Zenon
  <2> PICK x : x = [k EXCEPT !.stage = "items", !.todo = todo]
    OBVIOUS
  <2>1. Set(t, x)
    BY <1>1 DEF ListGrants
  <2>2. todo \in SUBSET SshKeys /\ \A i \in todo : item[i] # Nil /\ ~ item[i].archived
    OBVIOUS
  <2>3. x \in Task /\ Safe(t, x, C)
    BY <1>0, <1>1, <2>2, KeysListed, Zenon
  <2> QED BY <2>1, <2>3 DEF Moves
<1>2. CASE k.kind # "ssh"
  <2> PICK todo : todo = GrantedOf(k.agent)
    OBVIOUS
  <2> PICK grants : grants = [i \in Item |-> grant[<<k.agent, i>>]]
    BY Zenon
  <2> PICK x : x = [k EXCEPT !.stage = "items", !.now = clock, !.todo = todo,
                             !.grants = grants]
    OBVIOUS
  <2>1. Set(t, x)
    BY <1>2 DEF ListGrants
  <2>2. grants \in Grants /\ \A i \in Item : grants[i] = grant[<<k.agent, i>>]
    BY DEF StoreTypeOK, Grants, Task
  <2>3. k \in Task /\ C \in SUBSET Item /\ Safe(t, k, C)
    OBVIOUS
  <2>4. x = [k EXCEPT !.stage = "items", !.now = clock, !.todo = todo, !.grants = grants]
    OBVIOUS
  <2>5. x \in Task /\ Safe(t, x, C)
    BY ONLY StoreTypeOK, <1>0, <1>2, <2>2, <2>3, <2>4, todo = GrantedOf(k.agent), GrantsListed
  <2> QED BY <2>1, <2>5 DEF Moves
<1> QED BY <1>1, <1>2

\* The loop reads the next granted item.
LEMMA ReadItemMoves ==
  ASSUME StoreTypeOK, NEW t, NEW k, NEW C, Stands(t, k, C), NEW i, ReadItem(t, i)
  PROVE  Moves(t, C)
<1> USE DEF Stands
<1>0. /\ k.stage = "items" /\ k.kind \in {"connect", "request", "env"} /\ i \in k.todo
      /\ ~ Stopped(k) /\ k \in Task /\ C \in SUBSET Item /\ Safe(t, k, C)
  BY LocalAssumption DEF ReadItem, At, Stopped, Task
<1> PICK past : past = [k EXCEPT !.todo = @ \ {i}]
  OBVIOUS
<1>1. ASSUME Set(t, past), k.kind = "request" => ~ HostListed(item[i], k.url),
             k.kind = "env" => i \notin Injectable \/ item[i].archived
      PROVE  Moves(t, C)
  <2>1. past = [k EXCEPT !.todo = @ \ {i}]
    OBVIOUS
  <2>2. past \in Task /\ Safe(t, past, C)
    BY ONLY StoreTypeOK, <1>0, <1>1, <2>1, ItemPassed
  <2> QED BY <1>1, <2>2 DEF Moves
<1>2. CASE k.kind = "connect" /\ ~ Before(k.now, k.grants[i].expires)
  BY <1>1, <1>2 DEF ReadItem
<1>3. CASE /\ ~ (k.kind = "connect" /\ ~ Before(k.now, k.grants[i].expires))
           /\ item[i] = Nil
  <2>1. EndTask(t, "failed", {})
    BY <1>3 DEF ReadItem
  <2> QED BY <1>0, <2>1, EndMoves
<1>4. CASE /\ ~ (k.kind = "connect" /\ ~ Before(k.now, k.grants[i].expires))
           /\ item[i] # Nil
  <2>1. /\ past.kind = k.kind /\ past.url = k.url /\ past.got = k.got
        /\ IF Wanted(past, i) THEN Set(t, Hit(past, i)) ELSE Set(t, past)
    BY <1>4 DEF ReadItem, Task
  <2>2. CASE ~ Wanted(past, i)
    BY <1>0, <1>1, <2>1, <2>2 DEF Wanted
  <2>3. CASE Wanted(past, i) /\ k.kind = "connect"
    <3> PICK got : got = IF HostListed(item[i], k.url) THEN k.got \cup {i} ELSE k.got
      OBVIOUS
    <3> PICK x : x = [past EXCEPT !.got = got]
      OBVIOUS
    <3>1. Set(t, x) /\ ~ item[i].archived
      BY <2>1, <2>3 DEF Hit, Wanted
    <3>2. got = k.got \/ (HostListed(item[i], k.url) /\ got = k.got \cup {i})
      BY Zenon
    <3>3. x = [k EXCEPT !.todo = @ \ {i}, !.got = got]
      OBVIOUS
    <3>4. Before(k.now, k.grants[i].expires) /\ k.kind = "connect"
      BY <1>4, <2>3
    <3>5. x \in Task /\ Safe(t, x, C)
      BY ONLY StoreTypeOK, <1>0, <3>1, <3>2, <3>3, <3>4, ItemMet
    <3> QED BY <3>1, <3>5 DEF Moves
  <2>4. CASE Wanted(past, i) /\ k.kind = "request"
    <3> PICK x : x = [past EXCEPT !.got = k.got \cup {i}, !.at = i, !.row = item[i]]
      OBVIOUS
    <3>1. Set(t, x) /\ HostListed(item[i], k.url)
      BY <2>1, <2>4 DEF Hit, Wanted
    <3>2. x = [k EXCEPT !.todo = @ \ {i}, !.got = @ \cup {i}, !.at = i, !.row = item[i]]
      BY <2>1
    <3>3. item[i] # Nil /\ k.kind = "request"
      BY <1>4, <2>4
    <3>4. x \in Task /\ Safe(t, x, C)
      BY ONLY StoreTypeOK, <1>0, <3>1, <3>2, <3>3, HostFound
    <3> QED BY <3>1, <3>4 DEF Moves
  <2>5. CASE Wanted(past, i) /\ k.kind = "env"
    <3> PICK x : x = [past EXCEPT !.at = i, !.row = item[i], !.stage = "approval"]
      OBVIOUS
    <3>1. Set(t, x) /\ i \in Injectable
      BY <2>1, <2>5 DEF Hit, Wanted
    <3>2. x = [k EXCEPT !.todo = @ \ {i}, !.at = i, !.row = item[i], !.stage = "approval"]
      OBVIOUS
    <3>3. item[i] # Nil /\ k.kind = "env"
      BY <1>4, <2>5
    <3>4. x \in Task /\ Safe(t, x, C)
      BY ONLY StoreTypeOK, <1>0, <3>1, <3>2, <3>3, ItemTaken
    <3> QED BY <3>1, <3>4 DEF Moves
  <2> QED BY <1>0, <2>2, <2>3, <2>4, <2>5
<1> QED BY <1>2, <1>3, <1>4

\* The SSH agent reads the next key.
LEMMA ReadKeyMoves ==
  ASSUME StoreTypeOK, NEW t, NEW k, NEW C, Stands(t, k, C), NEW i, ReadKey(t, i)
  PROVE  Moves(t, C)
<1> USE DEF Stands
<1>1. PICK parses \in BOOLEAN :
        Set(t, [k EXCEPT !.todo = @ \ {i},
                         !.got = IF item[i] # Nil /\ parses THEN @ \cup {i} ELSE @])
  BY DEF ReadKey
<1> PICK got : got = IF item[i] # Nil /\ parses THEN k.got \cup {i} ELSE k.got
  OBVIOUS
<1> PICK x : x = [k EXCEPT !.todo = @ \ {i}, !.got = got]
  OBVIOUS
<1>2. Set(t, x)
  <2>1. [k EXCEPT !.todo = @ \ {i}].got = k.got
    BY DEF Task
  <2> QED BY <1>1, <2>1
<1>3. /\ k.stage = "items" /\ k.kind = "ssh" /\ i \in k.todo /\ got \in {k.got, k.got \cup {i}}
      /\ k \in Task /\ C \in SUBSET Item /\ Safe(t, k, C)
  BY DEF ReadKey, At
<1>4. x = [k EXCEPT !.todo = @ \ {i}, !.got = got]
  OBVIOUS
<1>5. x \in Task /\ Safe(t, x, C)
  BY ONLY StoreTypeOK, <1>3, <1>4, KeyTaken
<1> QED BY <1>2, <1>5 DEF Moves

\* The loop is over.
LEMMA ItemsReadMoves ==
  ASSUME StoreTypeOK, NEW t, NEW k, NEW C, Stands(t, k, C), ItemsRead(t)
  PROVE  Moves(t, C)
<1> USE DEF Stands
<1>0. /\ k.stage = "items" /\ k.kind \in {"connect", "request", "env", "ssh"} /\ k.todo = {}
      /\ ~ Stopped(k) /\ k \in Task /\ C \in SUBSET Item /\ Safe(t, k, C)
  BY LocalAssumption DEF ItemsRead, At, Stopped, Task
<1>1. CASE k.kind = "connect"
  <2>1. EndTask(t, "done", {})
    BY <1>1 DEF ItemsRead
  <2> QED BY <1>0, <2>1, EndMoves
<1>2. CASE k.kind \in {"env", "ssh"}
  <2>1. EndTask(t, "done", k.got)
    BY <1>2 DEF ItemsRead
  <2>2. k.got \in SUBSET Item
    BY DEF Task
  <2>3. k.kind # "ssh" /\ ~ k.lost => \A i \in k.got : LocalRow(t, k.agent, i, "allow") \in audit
    BY <1>0, <1>2 DEF Safe, Audited
  <2>4. k.kind # "ssh" /\ k.late => k.got = {}
    BY <1>2 DEF Safe, Late
  <2> QED BY <1>0, <1>2, <2>1, <2>2, <2>3, <2>4, EndMoves
<1>3. CASE k.kind = "request"
  <2> PICK x : IF Cardinality(k.got) = 1 THEN x = [k EXCEPT !.stage = "approval"]
               ELSE x = [k EXCEPT !.stage = "record", !.said = "deny", !.at = Nil, !.got = {}]
    OBVIOUS
  <2>1. Set(t, x)
    BY <1>3 DEF ItemsRead
  <2>2. IF Cardinality(k.got) = 1 THEN x = [k EXCEPT !.stage = "approval"]
        ELSE x = [k EXCEPT !.stage = "record", !.said = "deny", !.at = Nil, !.got = {}]
    OBVIOUS
  <2>3. x \in Task /\ Safe(t, x, C)
    BY ONLY StoreTypeOK, <1>0, <1>3, <2>2, LookupDone
  <2> QED BY <2>1, <2>3 DEF Moves
<1> QED BY <1>0, <1>1, <1>2, <1>3

\* Store.LiveApproval is asked.
LEMMA ReadApprovalMoves ==
  ASSUME StoreTypeOK, NEW t, NEW k, NEW C, Stands(t, k, C), ReadApproval(t)
  PROVE  Moves(t, C)
<1> USE DEF Stands
<1>0. k.stage = "approval" /\ k \in Task /\ C \in SUBSET Item /\ Safe(t, k, C)
  BY DEF ReadApproval, At
<1> PICK now : now = Instant(k)
  OBVIOUS
<1> PICK live : live = LiveApproval(<<k.agent, k.at>>, now)
  OBVIOUS
<1> PICK x : x = [k EXCEPT !.stage = "judge", !.now = now, !.live = live]
  OBVIOUS
<1>1. Set(t, x)
  BY DEF ReadApproval
<1>2. /\ now = Instant(k) /\ live = LiveApproval(<<k.agent, k.at>>, now)
      /\ x = [k EXCEPT !.stage = "judge", !.now = now, !.live = live]
  OBVIOUS
<1>3. x \in Task /\ Safe(t, x, C)
  BY ONLY StoreTypeOK, <1>0, <1>2, ApprovalFound
<1> QED BY <1>1, <1>3 DEF Moves

\* Evaluate decides.
LEMMA JudgeMoves ==
  ASSUME StoreTypeOK, NEW t, NEW k, NEW C, Stands(t, k, C), Judge(t)
  PROVE  Moves(t, C)
<1> USE DEF Stands
<1>0. k.stage = "judge" /\ k \in Task /\ C \in SUBSET Item /\ Safe(t, k, C)
  BY DEF Judge, At
<1> PICK now : now = Instant(k)
  OBVIOUS
<1> PICK d : d = Judgement(k, now)
  OBVIOUS
<1> PICK stage : stage = IF k.kind = "env" /\ d = "allow" THEN "secret" ELSE "record"
  OBVIOUS
<1> PICK x : x = [k EXCEPT !.now = now, !.said = d, !.stage = stage]
  OBVIOUS
<1>1. Set(t, x)
  BY DEF Judge
<1>2. now = Instant(k) /\ d = Judgement(k, now)
  OBVIOUS
<1>3. stage \in {"secret", "record"} /\ (stage = "secret" <=> k.kind = "env" /\ d = "allow")
  OBVIOUS
<1>4. x = [k EXCEPT !.now = now, !.said = d, !.stage = stage]
  OBVIOUS
<1>5. x \in Task /\ Safe(t, x, C)
  BY ONLY StoreTypeOK, <1>0, <1>2, <1>3, <1>4, DecisionMade
<1> QED BY <1>1, <1>5 DEF Moves

\* The secret is read, or of no use.
LEMMA SecretMoves ==
  ASSUME StoreTypeOK, NEW t, NEW k, NEW C, Stands(t, k, C), LoadSecret(t) \/ SecretUseless(t)
  PROVE  Moves(t, C)
<1> USE DEF Stands
<1>0. /\ k.stage = "secret" /\ ~ Stopped(k) /\ k.kind \in {"env", "request"}
      /\ k.at \in Item /\ k.said = "allow"
      /\ k \in Task /\ C \in SUBSET Item /\ Safe(t, k, C)
  BY LocalAssumption DEF LoadSecret, SecretUseless, At, Stopped, Safe, Shape, Task
<1>1. CASE EndTask(t, "failed", {})
  BY <1>0, <1>1, EndMoves
<1>2. CASE k.kind = "request" /\ EndTask(t, "done", {k.at})
  <2>1. k.kind # "ssh" /\ ~ k.lost =>
          \A i \in {k.at} : LocalRow(t, k.agent, i, "allow") \in audit
    BY <1>0, <1>2 DEF Safe, Audited
  <2>2. ~ k.late
    BY <1>0, <1>2 DEF Safe, Late
  <2>3. {k.at} \in SUBSET Item
    BY <1>0
  <2> QED BY <1>0, <1>2, <2>1, <2>2, <2>3, EndMoves
<1>3. CASE k.kind = "env" /\ Set(t, [k EXCEPT !.stage = "record", !.got = @ \cup {k.at}])
  <2> PICK x : x = [k EXCEPT !.stage = "record", !.got = @ \cup {k.at}]
    OBVIOUS
  <2>1. x = [k EXCEPT !.stage = "record", !.got = @ \cup {k.at}] /\ Set(t, x)
    BY <1>3
  <2>2. x \in Task /\ Safe(t, x, C)
    BY ONLY StoreTypeOK, <1>0, <1>3, <2>1, SecretTaken
  <2> QED BY <2>1, <2>2 DEF Moves
<1>4. CASE k.kind = "env" /\ Set(t, [k EXCEPT !.stage = "record", !.said = "deny"])
  <2> PICK x : x = [k EXCEPT !.stage = "record", !.said = "deny"]
    OBVIOUS
  <2>1. x = [k EXCEPT !.stage = "record", !.said = "deny"] /\ Set(t, x)
    BY <1>4
  <2>2. x \in Task /\ Safe(t, x, C)
    BY ONLY StoreTypeOK, <1>0, <1>4, <2>1, SecretTurned
  <2> QED BY <2>1, <2>2 DEF Moves
<1>5. CASE LoadSecret(t)
  BY <1>0, <1>1, <1>2, <1>3, <1>5 DEF LoadSecret
<1>6. CASE SecretUseless(t)
  BY <1>0, <1>1, <1>4, <1>6 DEF SecretUseless
<1> QED BY <1>5, <1>6

\* Every step but the recording leaves the store alone.
LEMMA StepMoves ==
  ASSUME StoreTypeOK, NEW t, NEW k, NEW C, Stands(t, k, C), k # Nil,
         TaskStep(t), ~ (Record(t) \/ RecordFails(t))
  PROVE  Moves(t, C) /\ UNCHANGED <<storeVars, ownerVars>>
<1>1. ~ BeginTask(t)
  BY DEF BeginTask, Begin_, Stands
<1>2. CASE \E i \in Item : ReadItem(t, i) \/ ReadKey(t, i)
  BY <1>2, ReadItemMoves, ReadKeyMoves DEF ReadItem, ReadKey, Unstored
<1>3. CASE ReadAgent(t) \/ ListGrants(t)
  BY <1>3, ReadAgentMoves, ListGrantsMoves DEF ReadAgent, ListGrants, Unstored
<1>4. CASE ItemsRead(t) \/ ReadApproval(t) \/ Judge(t)
  BY <1>4, ItemsReadMoves, ReadApprovalMoves, JudgeMoves
     DEF ItemsRead, ReadApproval, Judge, Unstored
<1>5. CASE LoadSecret(t) \/ SecretUseless(t)
  BY <1>5, SecretMoves DEF LoadSecret, SecretUseless, Unstored
<1> QED BY <1>1, <1>2, <1>3, <1>4, <1>5 DEF TaskStep

-----------------------------------------------------------------------------
(* The invariant holds.                                                    *)

\* What every step keeps, whoever takes it.
Kept ==
  /\ StoreTypeOK /\ StoreTypeOK' /\ clock <= clock' /\ audit \subseteq audit'
  /\ \A a \in Agent : agent[a] = "revoked" => agent'[a] = "revoked"

\* A step that writes no row.
LEMMA UnstoredKeeps ==
  ASSUME StoreTypeOK, UNCHANGED storeVars
  PROVE  Kept
<1>1. StoreTypeOK'
  BY DEF StoreTypeOK, storeVars
<1>2. clock <= clock'
  BY DEF StoreTypeOK, storeVars, Time
<1> QED BY <1>1, <1>2 DEF Kept, storeVars

\* A decision is written, or its write fails: the task goes on as Recorded
\* says, and is safe there as to the items it is safe about where it stands.
LEMMA RecordMoves ==
  ASSUME StoreTypeOK, NEW t \in Call, NEW k, NEW C, Stands(t, k, C),
         Record(t) \/ RecordFails(t)
  PROVE  /\ Kept /\ UNCHANGED ownerVars
         /\ \E x : /\ Set(t, x)
                   /\ \A D \in SUBSET Item : Safe(t, k, D)' => x \in Task /\ Safe(t, x, D)'
<1> USE DEF Stands
<1>0. k.stage = "record" /\ k \in Task /\ k.said \in DecisionKind
  BY DEF Record, RecordFails, At, Safe, Shape
<1> PICK r : r = Recorded(k)
  OBVIOUS
<1>1. ASSUME NEW x, Follows(k, x), Set(t, x),
             x.lost = TRUE \/ LocalRow(t, k.agent, k.at, k.said) \in audit'
      PROVE  \E y : /\ Set(t, y)
                    /\ \A D \in SUBSET Item : Safe(t, k, D)' => y \in Task /\ Safe(t, y, D)'
  <2>2. ASSUME NEW D \in SUBSET Item, Safe(t, k, D)'
        PROVE  x \in Task /\ Safe(t, x, D)'
    <3>1. D \in SUBSET Item
      OBVIOUS
    <3> QED BY ONLY <1>0, <1>1, <2>2, <3>1, DecisionRecorded
  <2> QED BY <1>1, <2>2
<1>2. Follows(k, r) /\ Follows(k, [r EXCEPT !.lost = TRUE])
  <2>1. k.kind \in {"env", "request"}
    BY <1>0, LocalAssumption DEF Safe, Shape, Task
  <2> QED BY <1>0, <2>1, RecordedFields
<1>3. CASE Record(t)
  <2>1. Set(t, r) /\ AppendDecision(t) /\ UNCHANGED ownerVars
    BY <1>3 DEF Record
  <2>2. LocalRow(t, k.agent, k.at, k.said) \in AuditRow
    BY <1>0 DEF LocalRow, AuditRow, Task
  <2>3. /\ audit' = audit \cup {LocalRow(t, k.agent, k.at, k.said)}
        /\ UNCHANGED <<clock, agent, item, grant, approval, session, locked>>
    BY <2>1 DEF AppendDecision, AppendAudit
  <2>4. StoreTypeOK' /\ clock <= clock'
    BY <2>2, <2>3 DEF StoreTypeOK, Time
  <2>5. Kept
    BY <2>3, <2>4 DEF Kept
  <2> QED BY <1>1, <1>2, <2>1, <2>3, <2>5
<1>4. CASE RecordFails(t)
  <2> PICK x : x = [r EXCEPT !.lost = TRUE]
    OBVIOUS
  <2>1. Set(t, x) /\ UNCHANGED <<storeVars, ownerVars>>
    BY <1>4 DEF RecordFails, Unstored
  <2>2. x.lost = TRUE
    BY <1>2 DEF Follows, Task
  <2>3. Kept
    BY <2>1, UnstoredKeeps
  <2> QED BY <1>1, <1>2, <2>1, <2>2, <2>3
<1> QED BY <1>3, <1>4

\* What is left of calm.
LEMMA Watched ==
  ASSUME NEW t \in Call, Watch, task[t] # Nil
  PROVE  /\ calm'[t] \subseteq calm[t]
         /\ ~ Stopped(task[t]) => \A i \in calm'[t] : Undisturbed(task[t].agent, i)
<1>1. calm'[t] = IF Unfinished(t) THEN {i \in calm[t] : Undisturbed(task[t].agent, i)}
                 ELSE calm[t]
  BY Zenon DEF Watch
<1>2. Unfinished(t) <=> ~ Stopped(task[t])
  BY DEF Unfinished, Stopped
<1> HIDE DEF Undisturbed
<1> QED BY <1>1, <1>2

\* A task that stands still, with what is left of its calm.
LEMMA Stays ==
  ASSUME LocalTypeOK, Kept, Watch, NEW t \in Call, task[t] # Nil,
         Safe(t, task[t], calm[t]), NEW k, k = task[t], NEW D, D = calm'[t]
  PROVE  Safe(t, k, D)'
<1> PICK C : C = calm[t]
  OBVIOUS
<1>1. D \in SUBSET C /\ (~ Stopped(k) => \A i \in D : Undisturbed(k.agent, i))
  BY Watched
<1>2. k \in Task /\ C \subseteq Item /\ Safe(t, k, C)
  BY DEF LocalTypeOK
<1>3. k.now \in Int /\ clock \in Int /\ clock' \in Int /\ clock <= clock' /\ audit \subseteq audit'
  BY <1>2 DEF Kept, StoreTypeOK, Task, Time
<1>4. agent[k.agent] = "revoked" => agent'[k.agent] = "revoked"
  BY <1>2 DEF Kept, Task
<1> QED BY ONLY <1>1, <1>2, <1>3, <1>4, StandsStill

\* The task that takes a step.
LEMMA TaskSteps ==
  ASSUME LocalSafe, NEW t \in Call, TaskStep(t), Watch
  PROVE  /\ Kept /\ OwnerTypeOK'
         /\ \E x \in Task \cup {Nil} : Set(t, x)
         /\ task'[t] # Nil => Safe(t, task[t], calm[t])'
<1> USE DEF LocalSafe, LocalTypeOK
<1> PICK k : k = task[t]
  OBVIOUS
<1> PICK C : C = calm[t]
  OBVIOUS
<1> PICK D : D = calm'[t]
  OBVIOUS
<1>0. ASSUME NEW x \in Task, Set(t, x), task'[t] # Nil => Safe(t, x, D)',
             Kept, UNCHANGED ownerVars
      PROVE  /\ Kept /\ OwnerTypeOK'
             /\ \E y \in Task \cup {Nil} : Set(t, y)
             /\ task'[t] # Nil => Safe(t, task[t], calm[t])'
  <2>1. task'[t] = x /\ calm'[t] = D
    BY <1>0 DEF Set
  <2>2. Safe(t, x, D)' => Safe(t, task[t], calm[t])'
    BY ONLY <2>1
  <2>3. OwnerTypeOK'
    BY <1>0 DEF OwnerTypeOK, ownerVars
  <2> QED BY <1>0, <2>2, <2>3
<1>1. ASSUME NEW x \in Task, Set(t, x), Safe(t, x, D), D \subseteq Item,
             UNCHANGED <<storeVars, ownerVars>>
      PROVE  /\ Kept /\ OwnerTypeOK'
             /\ \E y \in Task \cup {Nil} : Set(t, y)
             /\ task'[t] # Nil => Safe(t, task[t], calm[t])'
  <2>1. Kept
    BY <1>1, UnstoredKeeps
  <2>2. \A i \in D : Undisturbed(x.agent, i)
    BY <1>1 DEF Undisturbed, storeVars
  <2>3. x.now \in Int /\ clock \in Int /\ clock' \in Int /\ clock <= clock' /\ audit \subseteq audit'
    BY <2>1 DEF Kept, StoreTypeOK, Task, Time
  <2>4. agent[x.agent] = "revoked" => agent'[x.agent] = "revoked"
    BY <1>1 DEF storeVars
  <2>5. D \in SUBSET D /\ D \subseteq Item /\ Safe(t, x, D)
    BY <1>1
  <2>6. Safe(t, x, D)'
    BY ONLY <2>2, <2>3, <2>4, <2>5, StandsStill
  <2> QED BY <1>0, <1>1, <2>1, <2>6
<1>2. CASE k = Nil
  <2>1. BeginTask(t)
    BY <1>2 DEF TaskStep, ReadAgent, ListGrants, ReadItem, ReadKey, ItemsRead, ReadApproval,
                Judge, Record, RecordFails, LoadSecret, SecretUseless, At
  <2>2. Moves(t, Item)
    BY <2>1, BeginMoves
  <2>3. PICK x \in Task : Set(t, x) /\ Safe(t, x, Item)
    BY <2>2 DEF Moves
  <2>4. UNCHANGED <<storeVars, ownerVars>>
    BY <2>1 DEF BeginTask, Begin_, Unstored
  <2>5. D = IF task'[t] = Nil THEN {} ELSE Item
    BY <1>2, Zenon DEF Watch
  <2>6. CASE task'[t] = Nil
    BY <1>0, <2>3, <2>4, <2>6, UnstoredKeeps
  <2>7. CASE task'[t] # Nil
    BY <1>1, <2>3, <2>4, <2>5, <2>7
  <2> QED BY <2>6, <2>7
<1>3. CASE k # Nil /\ (Record(t) \/ RecordFails(t))
  <2>1. Stands(t, k, C)
    BY <1>3 DEF Stands
  <2>2. Kept /\ UNCHANGED ownerVars
    BY <1>3, <2>1, RecordMoves
  <2>3. PICK x : /\ Set(t, x)
                 /\ \A E \in SUBSET Item : Safe(t, k, E)' => x \in Task /\ Safe(t, x, E)'
    BY <1>3, <2>1, RecordMoves
  <2>4. Safe(t, k, D)'
    BY <1>3, <2>2, Stays
  <2>5. D \in SUBSET Item
    BY <1>3, Watched
  <2> QED BY <1>0, <2>2, <2>3, <2>4, <2>5
<1>4. CASE k # Nil /\ ~ (Record(t) \/ RecordFails(t))
  <2>1. Stands(t, k, C)
    BY <1>4 DEF Stands
  <2>2. Moves(t, C) /\ UNCHANGED <<storeVars, ownerVars>>
    BY <1>4, <2>1, StepMoves
  <2>3. PICK x \in Task : Set(t, x) /\ Safe(t, x, C)
    BY <2>2 DEF Moves
  <2>4. D \subseteq C
    BY <1>4, Watched
  <2>5. C \subseteq Item
    OBVIOUS
  <2>6. Safe(t, x, C) => Safe(t, x, D)
    BY <2>4, <2>5 DEF Safe, Faithful
  <2> QED BY <1>1, <2>2, <2>3, <2>4, <2>5, <2>6
<1> QED BY <1>2, <1>3, <1>4

\* Everyone else's tasks stand still.
LEMMA OthersSafe ==
  ASSUME LocalSafe, Kept, Watch, NEW t \in Call, task'[t] = task[t], task'[t] # Nil
  PROVE  Safe(t, task[t], calm[t])'
<1> PICK k : k = task[t]
  OBVIOUS
<1> PICK D : D = calm'[t]
  OBVIOUS
<1>1. Safe(t, k, D)'
  BY Stays DEF LocalSafe
<1>2. task'[t] = k /\ calm'[t] = D
  OBVIOUS
<1> QED BY ONLY <1>1, <1>2

\* Watch keeps calm a set of items of each call.
LEMMA WatchType ==
  ASSUME LocalTypeOK, Watch
  PROVE  calm' \in [Call -> SUBSET Item]
<1>1. ASSUME NEW t \in Call
      PROVE  (IF task[t] = Nil THEN IF task'[t] = Nil THEN {} ELSE Item
              ELSE IF Unfinished(t) THEN {i \in calm[t] : Undisturbed(task[t].agent, i)}
              ELSE calm[t]) \in SUBSET Item
  BY DEF LocalTypeOK
<1> QED BY <1>1, Zenon DEF Watch

\* Nobody takes a step.
LEMMA StutterSafe ==
  ASSUME LocalSafe, UNCHANGED localVars
  PROVE  LocalSafe'
<1>1. UNCHANGED <<storeVars, handler, minted, task, calm, edits>>
  BY DEF localVars, ownerVars, taskVars
<1>2. Kept
  BY <1>1, UnstoredKeeps DEF LocalSafe, LocalTypeOK
<1>3. LocalTypeOK'
  BY <1>1, <1>2 DEF Kept, LocalSafe, LocalTypeOK, OwnerTypeOK
<1>4. ASSUME NEW t \in Call, task'[t] # Nil PROVE Safe(t, task[t], calm[t])'
  <2> PICK k : k = task[t]
    OBVIOUS
  <2> PICK C : C = calm[t]
    OBVIOUS
  <2>1. k \in Task /\ C \in SUBSET C /\ C \subseteq Item /\ Safe(t, k, C)
    BY <1>1, <1>4 DEF LocalSafe, LocalTypeOK
  <2>2. \A i \in C : Undisturbed(k.agent, i)
    BY <1>1 DEF Undisturbed, storeVars
  <2>3. k.now \in Int /\ clock \in Int /\ clock' \in Int /\ clock <= clock' /\ audit \subseteq audit'
    BY <1>2, <2>1 DEF Kept, StoreTypeOK, Task, Time
  <2>4. agent[k.agent] = "revoked" => agent'[k.agent] = "revoked"
    BY <1>1 DEF storeVars
  <2>5. Safe(t, k, C)'
    BY ONLY <2>1, <2>2, <2>3, <2>4, StandsStill
  <2>6. task'[t] = k /\ calm'[t] = C
    BY <1>1
  <2> QED BY ONLY <2>5, <2>6
<1> QED BY <1>3, <1>4 DEF LocalSafe

\* Every step keeps the invariant.
LEMMA LocalNextSafe == LocalSafe /\ [LocalNext]_localVars => LocalSafe'
<1> SUFFICES ASSUME LocalSafe, LocalNext PROVE LocalSafe'
  BY StutterSafe
<1>0. Watch /\ LocalTypeOK
  BY DEF LocalNext, LocalSafe
<1>1. ASSUME Kept, OwnerTypeOK', task' = task, edits' \in 0 .. MaxEdits PROVE LocalSafe'
  <2>1. LocalTypeOK'
    BY <1>0, <1>1, WatchType DEF LocalTypeOK, Kept
  <2>2. \A t \in Call : task'[t] # Nil => Safe(t, task[t], calm[t])'
    BY <1>0, <1>1, OthersSafe
  <2> QED BY <2>1, <2>2 DEF LocalSafe
<1>2. CASE /\ edits < MaxEdits /\ edits' = edits + 1 /\ OwnerStep /\ UNCHANGED task
  <2>1. StoreTypeOK /\ OwnerTypeOK
    BY <1>0 DEF LocalTypeOK
  <2>2. StoreTypeOK' /\ OwnerTypeOK'
    BY <1>2, <2>1, OwnerTypes
  <2>3. /\ clock' = clock
        /\ \A a \in Agent : agent[a] = "revoked" => agent'[a] = "revoked"
    BY <1>2, <2>1, OwnerKeeps
  <2>4. audit \subseteq audit'
    <3>1. audit' = audit \/ \E row : audit' = audit \cup {row}
      BY <1>2, OwnerAudit
    <3> QED BY <3>1
  <2>5. Kept
    BY <2>1, <2>2, <2>3, <2>4 DEF Kept, StoreTypeOK, Time
  <2>6. edits' \in 0 .. MaxEdits
    BY <1>0, <1>2, LocalAssumption DEF LocalTypeOK
  <2> QED BY <1>1, <1>2, <2>2, <2>5, <2>6
<1>3. CASE Tick /\ UNCHANGED <<ownerVars, task, edits>>
  <2>0. /\ clock \in Time /\ clock' \in Time /\ clock <= clock'
        /\ UNCHANGED <<agent, item, grant, approval, session, audit, locked>>
    BY <1>0, <1>3, StoreAssumption DEF Tick, LocalTypeOK, StoreTypeOK, Time
  <2>1. Kept
    BY <1>0, <2>0 DEF Kept, LocalTypeOK, StoreTypeOK
  <2>2. OwnerTypeOK' /\ edits' \in 0 .. MaxEdits
    BY <1>0, <1>3 DEF LocalTypeOK, OwnerTypeOK, ownerVars
  <2> QED BY <1>1, <1>3, <2>1, <2>2
<1>4. ASSUME NEW t \in Call, TaskStep(t), UNCHANGED edits PROVE LocalSafe'
  <2>1. /\ Kept /\ OwnerTypeOK'
        /\ \E x \in Task \cup {Nil} : Set(t, x)
        /\ task'[t] # Nil => Safe(t, task[t], calm[t])'
    BY <1>0, <1>4, TaskSteps
  <2>2. task' \in [Call -> Task \cup {Nil}]
    BY <1>0, <2>1 DEF LocalTypeOK, Set
  <2>3. LocalTypeOK'
    BY <1>0, <1>4, <2>1, <2>2, WatchType DEF LocalTypeOK, Kept
  <2>4. ASSUME NEW u \in Call, task'[u] # Nil PROVE Safe(u, task[u], calm[u])'
    <3>1. CASE u = t
      <4>1. Safe(t, task[t], calm[t])'
        BY <2>1, <2>4, <3>1
      <4> QED BY ONLY <3>1, <4>1
    <3>2. CASE u # t
      <4>1. task'[u] = task[u]
        BY <1>0, <2>1, <3>2 DEF LocalTypeOK, Set
      <4> QED BY <1>0, <2>1, <2>4, <4>1, OthersSafe
    <3> QED BY <3>1, <3>2
  <2> QED BY <2>3, <2>4 DEF LocalSafe
<1> QED BY <1>2, <1>3, <1>4 DEF LocalNext

\* The rows a run starts with are rows.
LEMMA LocalStart == LocalInit => LocalSafe
<1> SUFFICES ASSUME LocalInit PROVE LocalSafe
  OBVIOUS
<1> USE StoreAssumption, OwnerAssumption, LocalAssumption
<1>1. item \in [Item -> ItemRow \cup {Nil}]
  <2>1. [archived : {FALSE}, uris : (SUBSET Url) \ {{}}] \subseteq ItemRow
    BY DEF ItemRow
  <2>2. item \in [Item -> [archived : {FALSE}, uris : (SUBSET Url) \ {{}}]]
    BY DEF LocalInit
  <2> QED BY ONLY <2>1, <2>2
<1>2. grant \in [Agent \X Item -> GrantRow \cup {Nil}]
  <2>1. [level : Levels, expires : GrantLives] \subseteq GrantRow
    <3>1. \A life \in GrantLives : life = Nil \/ life \in 0 .. MaxTTL
      BY ONLY OwnerAssumption
    <3>2. 0 .. MaxTTL \subseteq Expiry
      BY ONLY StoreAssumption DEF Expiry
    <3>3. Levels \subseteq {"level1", "level2"}
      BY ONLY OwnerAssumption
    <3> QED BY ONLY <3>1, <3>2, <3>3 DEF GrantRow
  <2>2. grant \in [Agent \X Item -> [level : Levels, expires : GrantLives] \cup {Nil}]
    BY DEF LocalInit
  <2> QED BY ONLY <2>1, <2>2
<1>3. approval \in [Agent \X Item -> Expiry \cup {Nil}]
  <2>1. ApprovalLives \subseteq Expiry
    <3>1. \A life \in ApprovalLives : life \in 0 .. MaxTTL
      BY ONLY OwnerAssumption
    <3>2. 0 .. MaxTTL \subseteq Expiry
      BY ONLY StoreAssumption DEF Expiry
    <3> QED BY ONLY <3>1, <3>2
  <2>2. approval \in [Agent \X Item -> ApprovalLives \cup {Nil}]
    BY DEF LocalInit
  <2> QED BY ONLY <2>1, <2>2
<1>4. /\ clock \in Time /\ agent \in [Agent -> {"absent", "live", "revoked"}]
      /\ session \in [Session -> Lease \cup {Nil}]
      /\ audit \subseteq AuditRow /\ locked \subseteq Session
  BY DEF LocalInit, Time
<1>5. OwnerTypeOK
  BY DEF LocalInit, OwnerTypeOK, HandlerState, Idle
<1>6. /\ task \in [Call -> Task \cup {Nil}] /\ calm \in [Call -> SUBSET Item]
      /\ edits \in 0 .. MaxEdits
  BY DEF LocalInit
<1>7. \A t \in Call : task[t] = Nil
  BY DEF LocalInit
<1> QED BY <1>1, <1>2, <1>3, <1>4, <1>5, <1>6, <1>7 DEF LocalSafe, LocalTypeOK, StoreTypeOK

\* The invariant of every theorem below.
LEMMA LocalSafeHolds == LocalSpec => []LocalSafe
<1> QED BY LocalStart, LocalNextSafe, PTL DEF LocalSpec

-----------------------------------------------------------------------------
(* The theorems.                                                           *)

\* The store, the owner's handlers and the tasks keep their types, and a
\* secret that the proxy or a child's environment has let out is on an allow
\* row of the audit table unless a write of that task failed.
THEOREM LocalInvHolds == LocalSpec => []LocalInv
<1>1. LocalSafe => LocalInv
  BY DEF LocalSafe, Safe, Audited, LocalInv, ReleasedIsAudited
<1> QED BY <1>1, LocalSafeHolds, PTL

\* A task that begins after its agent was revoked lets nothing out, whatever
\* the owner does meanwhile; the SSH agent alone goes on.
THEOREM TaskRevocationHolds == LocalSpec => []RevocationStopsLaterTasks
<1>1. LocalSafe => RevocationStopsLaterTasks
  BY DEF LocalSafe, Safe, Late, RevocationStopsLaterTasks
<1> QED BY <1>1, LocalSafeHolds, PTL

-----------------------------------------------------------------------------
(* What a task that is done has let out.                                   *)

\* The four ways to be done.
LEMMA Endings ==
  ASSUME LocalTypeOK, NEW t \in Call, NEW k \in Task, k = task[t], k # Nil,
         ~ Stopped(k), k.kind \in {"connect", "request", "env", "ssh"}, k.out = {},
         TaskStep(t), task'[t].stage = "done"
  PROVE  \/ k.stage = "agent" /\ k.kind = "connect"
         \/ /\ k.stage = "items" /\ k.todo = {} /\ k.kind # "request"
            /\ k.kind # "connect" => task'[t].out = k.got
         \/ k.stage = "secret" /\ k.kind # "env" /\ task'[t].out = {k.at}
         \/ /\ k.stage = "record" /\ k.kind \in {"request", "connect", "ssh"}
            /\ k.said # "allow" /\ task'[t].out = {}
<1>1. \A x : Set(t, x) => task'[t] = x
  BY DEF Set, LocalTypeOK
<1>2. ASSUME NEW stage, NEW out, EndTask(t, stage, out)
      PROVE  task'[t].stage = stage /\ task'[t].out = out
  <2> PICK none : none = [i \in Item |-> Nil]
    OBVIOUS
  <2> PICK x : x = [k EXCEPT !.stage = stage, !.out = out, !.todo = {},
                             !.grants = none, !.row = Nil, !.live = Nil]
    OBVIOUS
  <2>1. Set(t, x)
    BY <1>2, Zenon DEF EndTask
  <2>2. x.stage = stage /\ x.out = out
    BY DEF Task
  <2> QED BY <1>1, <2>1, <2>2
<1>3. ~ BeginTask(t)
  BY DEF BeginTask, Begin_
<1>4. CASE ReadAgent(t)
  <2>1. k.stage = "agent"
    BY <1>4 DEF ReadAgent, At
  <2>2. CASE EndTask(t, "done", {}) /\ k.kind = "connect"
    BY <2>1, <2>2
  <2>3. ~ EndTask(t, "failed", {})
    BY <1>2
  <2>4. ~ Set(t, [k EXCEPT !.stage = "grants", !.read = agent[k.agent]])
    BY <1>1 DEF Task
  <2> QED BY <1>4, <2>2, <2>3, <2>4 DEF ReadAgent
<1>5. ~ ListGrants(t)
  BY <1>1 DEF ListGrants, Task
<1>6. ASSUME NEW i \in Item PROVE ~ ReadKey(t, i)
  BY <1>1 DEF ReadKey, At, Stopped, Task
<1>7. ASSUME NEW i \in Item PROVE ~ ReadItem(t, i)
  <2> SUFFICES ASSUME ReadItem(t, i) PROVE FALSE
    OBVIOUS
  <2> PICK past : past = [k EXCEPT !.todo = @ \ {i}]
    OBVIOUS
  <2>1. /\ k.stage = "items" /\ k.kind # "ssh" /\ past \in Task
        /\ past.kind = k.kind /\ past.stage = "items"
    BY DEF ReadItem, At, Task
  <2>2. ~ EndTask(t, "failed", {})
    BY <1>2
  <2>3. ~ Set(t, past)
    BY <1>1, <2>1
  <2>4. Set(t, Hit(past, i))
    BY <2>2, <2>3 DEF ReadItem
  <2>5. Hit(past, i).stage # "done"
    <3>1. CASE k.kind = "connect"
      BY <2>1, <3>1 DEF Hit, Task
    <3>2. CASE k.kind = "request"
      BY <2>1, <3>2 DEF Hit, Task
    <3>3. CASE k.kind = "env"
      BY <2>1, <3>3 DEF Hit, Task
    <3> QED BY <2>1, <3>1, <3>2, <3>3
  <2> QED BY <1>1, <2>4, <2>5
<1>8. CASE ItemsRead(t)
  <2>1. k.stage = "items" /\ k.todo = {}
    BY <1>8 DEF ItemsRead, At
  <2>2. CASE k.kind \in {"env", "ssh"}
    BY <1>2, <1>8, <2>1, <2>2 DEF ItemsRead
  <2>3. CASE k.kind = "request"
    BY <1>1, <1>8, <2>3 DEF ItemsRead, Task
  <2> QED BY <2>1, <2>2, <2>3
<1>9. ~ ReadApproval(t)
  BY <1>1 DEF ReadApproval, Task
<1>10. ~ Judge(t)
  BY <1>1 DEF Judge, Task
<1>11. CASE Record(t) \/ RecordFails(t)
  <2> PICK r : r = Recorded(k)
    OBVIOUS
  <2>1. k.stage = "record" /\ (task'[t] = r \/ task'[t] = [r EXCEPT !.lost = TRUE])
    BY <1>1, <1>11 DEF Record, RecordFails, At
  <2>2. r.stage = "done"
    <3>1. CASE k.kind = "env"
      BY <2>1, <3>1 DEF Recorded, Task
    <3>2. CASE k.kind # "env" /\ k.said = "allow"
      BY <2>1, <3>2 DEF Recorded, Task
    <3>3. CASE k.kind # "env" /\ k.said # "allow"
      BY <3>3 DEF Recorded, Task
    <3> QED BY <3>1, <3>2, <3>3
  <2>3. k.kind # "env"
    BY <2>2 DEF Recorded, Task
  <2>4. k.said # "allow"
    BY <2>2, <2>3 DEF Recorded, Task
  <2>5. r = [k EXCEPT !.stage = "done", !.got = {}]
    BY <2>3, <2>4 DEF Recorded
  <2>6. task'[t].out = {}
    BY <2>1, <2>5 DEF Task
  <2> QED BY <2>1, <2>3, <2>4, <2>6
<1>12. CASE LoadSecret(t)
  <2>1. k.stage = "secret"
    BY <1>12 DEF LoadSecret, At
  <2>2. ~ EndTask(t, "failed", {})
    BY <1>2
  <2>3. ~ Set(t, [k EXCEPT !.stage = "record", !.got = @ \cup {k.at}])
    BY <1>1 DEF Task
  <2>4. CASE k.kind = "env"
    BY <1>12, <2>2, <2>3, <2>4 DEF LoadSecret
  <2>5. CASE k.kind # "env"
    <3>1. EndTask(t, "done", {k.at})
      BY <1>12, <2>2, <2>5 DEF LoadSecret
    <3> QED BY <1>2, <2>1, <2>5, <3>1
  <2> QED BY <2>4, <2>5
<1>13. ~ SecretUseless(t)
  <2>1. ~ EndTask(t, "failed", {})
    BY <1>2
  <2>2. ~ Set(t, [k EXCEPT !.stage = "record", !.said = "deny"])
    BY <1>1 DEF Task
  <2> QED BY <2>1, <2>2 DEF SecretUseless
<1> QED BY <1>3, <1>4, <1>5, <1>6, <1>7, <1>8, <1>9, <1>10, <1>11, <1>12, <1>13 DEF TaskStep

\* What the four ways to be done say of an item nobody has touched.
LEMMA EndedAsUse ==
  ASSUME LocalSafe, NEW t \in Call, Unfinished(t), TaskStep(t), task'[t].stage = "done",
         NEW i \in calm[t]
  PROVE  TreatedAsUse(t, i)
<1> PICK k : k = task[t]
  OBVIOUS
<1> PICK C : C = calm[t]
  OBVIOUS
<1> PICK out : out = task'[t].out
  OBVIOUS
<1>1. /\ k \in Task /\ k # Nil /\ ~ Stopped(k) /\ Safe(t, k, C) /\ i \in C /\ i \in Item
      /\ C \subseteq Item /\ StoreTypeOK /\ LocalTypeOK
  BY DEF LocalSafe, LocalTypeOK, Unfinished, Stopped
<1>2. Shape(k) /\ Audited(t, k) /\ Current(k, i) /\ Judged(t, k, i) /\ (C = Item => Looked(k))
  BY <1>1 DEF Safe, Faithful
<1>3. k.kind \in {"connect", "request", "env", "ssh"} /\ k.out = {}
  BY <1>1, <1>2, LocalAssumption DEF Shape, Task, Stopped
<1>4. k = task[t] /\ out = task'[t].out
  OBVIOUS
<1>5. \/ k.stage = "agent" /\ k.kind = "connect"
      \/ /\ k.stage = "items" /\ k.todo = {} /\ k.kind # "request"
         /\ k.kind # "connect" => out = k.got
      \/ k.stage = "secret" /\ k.kind # "env" /\ out = {k.at}
      \/ /\ k.stage = "record" /\ k.kind \in {"request", "connect", "ssh"}
         /\ k.said # "allow" /\ out = {}
  BY <1>1, <1>3, <1>4, Endings
<1>6. CASE k.kind = "connect"
  <2>1. k.stage = "agent" \/ k.stage = "items"
    BY <1>2, <1>5, <1>6 DEF Shape
  <2>2. ASSUME i \in k.got
        PROVE  /\ agent[k.agent] # "revoked" /\ i \in GrantedOf(k.agent)
               /\ ~ item[i].archived /\ HostListed(item[i], k.url)
               /\ Before(k.now, grant[<<k.agent, i>>].expires)
    <3>1. k.stage = "items"
      BY <1>2, <2>1, <2>2 DEF Shape
    <3>2. agent[k.agent] # "revoked"
      BY <1>2, <1>6, <3>1 DEF Current, Shape
    <3> QED BY <1>2, <1>6, <2>2, <3>2 DEF Judged
  <2> QED BY <1>6, <2>2 DEF TreatedAsUse
<1>7. CASE k.kind = "env"
  <2>1. k.stage = "items" /\ k.todo = {} /\ out = k.got
    BY <1>5, <1>7
  <2>2. k.at # i
    BY <1>1, <1>2, <1>7, <2>1, StoreAssumption DEF Shape
  <2>3. /\ i \in out => i \in Injectable /\ UseWouldAllow(k, i)
        /\ i \in Injectable /\ UseWouldAllow(k, i) => i \in out \/ RefusedUseless(t, k, i)
    BY <1>2, <1>7, <2>1, <2>2 DEF Judged
  <2> QED BY <1>7, <2>3 DEF TreatedAsUse
<1>8. CASE k.kind = "ssh"
  <2>1. k.stage = "items" /\ out = k.got
    BY <1>2, <1>5, <1>8 DEF Shape
  <2>2. i \in out => i \in SshKeys /\ ~ item[i].archived
    BY <1>2, <1>8, <2>1 DEF Shape, Judged
  <2> QED BY <1>8, <2>2 DEF TreatedAsUse
<1>9. CASE k.kind = "request"
  <2>1. \/ k.stage = "secret" /\ out = {k.at} /\ k.at # Nil
        \/ k.stage = "record" /\ k.said # "allow" /\ out = {}
    BY <1>2, <1>5, <1>9 DEF Shape
  <2>2. i \in out => UseWouldAllow(k, i)
    BY <1>2, <1>9, <2>1 DEF Judged
  <2>3. ASSUME C = Item PROVE i \in out <=> UseWouldAllow(k, i) /\ Listing(k) = {i}
    <3>1. IF k.at # Nil THEN Listing(k) = {k.at} ELSE \A j \in Item : Listing(k) # {j}
      BY <1>2, <1>9, <2>1, <2>3 DEF Looked
    <3>2. CASE k.stage = "secret"
      BY <2>1, <2>2, <3>1, <3>2
    <3>3. CASE k.stage = "record" /\ k.at = i
      BY <1>2, <1>9, <2>1, <3>3 DEF Judged
    <3>4. CASE k.stage = "record" /\ k.at # i
      BY <1>1, <2>1, <3>1, <3>4
    <3> QED BY <2>1, <3>2, <3>3, <3>4
  <2>4. calm[t] = Item => (i \in task'[t].out <=> UseWouldAllow(k, i) /\ Listing(k) = {i})
    BY <2>3
  <2> QED BY <1>9, <2>2, <2>4 DEF TreatedAsUse
<1> QED BY <1>3, <1>6, <1>7, <1>8, <1>9

\* An item whose rows were not written while a task ran is treated as
\* Broker.Use would treat it: the rows a task reads one after the other, and
\* the locks it does not take, make no difference to it.
THEOREM UndisturbedHolds == LocalSpec => UndisturbedIsTreatedAsUse
<1> DEFINE A == \A t \in Call : Unfinished(t) /\ task'[t].stage = "done" =>
                  \A i \in calm[t] : TreatedAsUse(t, i)
<1>1. LocalSafe /\ [LocalNext]_localVars => [A]_localVars
  <2> SUFFICES ASSUME LocalSafe, LocalNext, NEW t \in Call, Unfinished(t),
                      task'[t].stage = "done", NEW i \in calm[t]
               PROVE  TreatedAsUse(t, i)
    BY DEF A
  <2>1. task[t].stage # "done"
    BY DEF Unfinished
  <2>2. ASSUME NEW u \in Call, u # t, TaskStep(u) PROVE FALSE
    <3>1. \E x \in Task \cup {Nil} : Set(u, x)
      BY <2>2, TaskSteps DEF LocalNext
    <3>2. task'[t] = task[t]
      BY <2>2, <3>1 DEF LocalSafe, LocalTypeOK, Set
    <3> QED BY <2>1, <3>2
  <2>3. TaskStep(t)
    BY <2>1, <2>2 DEF LocalNext
  <2> QED BY <2>3, EndedAsUse
<1>2. UndisturbedIsTreatedAsUse <=> [][A]_localVars
  BY DEF UndisturbedIsTreatedAsUse
<1> QED BY <1>1, <1>2, LocalSafeHolds, PTL DEF LocalSpec

=============================================================================
