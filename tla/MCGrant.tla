------------------------------- MODULE MCGrant -------------------------------
(***************************************************************************)
(* Every small input of grant.Evaluate, each evaluated in one step and     *)
(* compared with a declarative reading of the two grant levels.            *)
(***************************************************************************)
EXTENDS Grant

CONSTANT MaxNow           \* instants 0 .. MaxNow

VARIABLES in, out

Times == 0 .. MaxNow

Url(scheme, host, port) == [scheme |-> scheme, host |-> host, port |-> port]

\* The same host with and without its default port, another port, a host
\* that does not parse.
Site      == Url("https", "site", Nil)
Connect   == Url(Nil, "site", 443)
Plain     == Url("http", "site", 80)
OtherPort == Url("https", "site", 80)
Broken    == Url("https", Nil, Nil)

Principals == [kind : {"agent", "human"}, id : {"a1"}, org : {"o1", "o2"},
               revoked : BOOLEAN]

Items == [id : {"i1"}, org : {"o1"}, archived : BOOLEAN,
          uris : {{}, {Site}, {Broken, OtherPort}}]

Grants == [id : {"g1"}, org : {"o1", "o2"}, agent : {"a1", "a2"},
           item : {"i1", "i2"}, level : {"level1", "level2", "level3"},
           actions : {{}, {"env"}, {"fetch"}}, expires : {Nil, 1}]

Approvals == [id : {"ap"}, grant : {"g1", "g2"}, expires : {1}]

Inputs == [principal : Principals, item : Items, grant : Grants \cup {Nil},
           action : ActionKind, url : {Nil, Site, Connect, Plain, OtherPort, Broken},
           approval : Approvals \cup {Nil}, now : Times]

\* Nil is none of the values it stands beside.
ASSUME NilAssumption ==
  /\ MaxNow \in Nat
  /\ Nil \notin {"site", "http", "https", "missing_url", "invalid_url", "host_not_allowed"}
  /\ Nil \notin Int
  /\ Nil \notin {Site, Connect, Plain, OtherPort, Broken}
  /\ Nil \notin [host : {"site"}, port : {Nil, 80}]
  /\ Nil \notin Grants
  /\ Nil \notin [id : {"ap"}, grant : {"g1", "g2"}, expires : Int]

Init == in \in Inputs /\ out = Nil

Decide == /\ out = Nil
          /\ out' = Evaluate(in)
          /\ UNCHANGED in

Next == Decide

Spec == Init /\ [][Next]_<<in, out>>

TypeOK == out = Nil \/ out.decision \in DecisionKind

-----------------------------------------------------------------------------
\* The grant covers this call, whatever approval it may still need.
Covered(x) ==
  /\ x.principal.kind = "agent" /\ ~ x.principal.revoked
  /\ ~ x.item.archived
  /\ x.grant # Nil
  /\ x.grant.org = x.principal.org /\ x.grant.org = x.item.org
  /\ x.grant.agent = x.principal.id /\ x.grant.item = x.item.id
  /\ x.grant.expires # Nil => x.now < x.grant.expires
  /\ x.action \in x.grant.actions \/ "fetch" \in x.grant.actions
  /\ x.action = "fetch" =>
       \/ x.url \in {Site, Connect, Plain} /\ Site \in x.item.uris
       \/ x.url = OtherPort /\ OtherPort \in x.item.uris

HumanApproved(x) == x.approval # Nil /\ x.approval.grant = x.grant.id
                                     /\ x.now < x.approval.expires

\* The chain of early returns in Evaluate allows exactly the calls that the
\* grant covers and that are level 2 or approved by a human for this grant.
AllowIffAuthorized ==
  out # Nil =>
    (out.decision = "allow" <=>
       /\ Covered(in)
       /\ \/ in.grant.level = "level2"
          \/ in.grant.level = "level1" /\ HumanApproved(in))

\* A human is asked exactly when an approval given now would be enough: the
\* answer need_approval is never a dead end, and never hides another refusal.
AskOnlyIfEnough ==
  out # Nil =>
    (out.decision = "need_approval" <=>
       /\ in.grant # Nil
       /\ ~ (Evaluate(in).decision = "allow")
       /\ Evaluate([in EXCEPT !.approval =
            [id |-> "ap", grant |-> in.grant.id, expires |-> in.now + 1]]
          ).decision = "allow")

=============================================================================
