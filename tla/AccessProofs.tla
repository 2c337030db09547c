----------------------------- MODULE AccessProofs -----------------------------
(***************************************************************************)
(* Proofs about authorization at an origin: what grant.Evaluate allows and *)
(* when it asks a human (MCGrant), and that a request shows and writes only *)
(* what its principal was entitled to at a moment of that request (Access). *)
(***************************************************************************)
EXTENDS MCAccess, TLAPS

-----------------------------------------------------------------------------
(* The decision.                                                           *)

\* The inputs at any instant, with approvals that end at any instant.
Calls == [principal : Principals, item : Items, grant : Grants \cup {Nil},
          action : ActionKind, url : {Nil, Site, Connect, Plain, OtherPort, Broken},
          approval : [id : {"ap"}, grant : {"g1", "g2"}, expires : Int] \cup {Nil},
          now : Int]

LEMMA InputsAreCalls == Inputs \subseteq Calls
<1>1. Times \subseteq Int /\ Approvals \subseteq [id : {"ap"}, grant : {"g1", "g2"}, expires : Int]
  BY DEF Times, Approvals
<1> QED BY <1>1 DEF Inputs, Calls

\* The destination is one that the item names.
Listed(x) ==
  \/ x.url \in {Site, Connect, Plain} /\ Site \in x.item.uris
  \/ x.url = OtherPort /\ OtherPort \in x.item.uris

\* What the canonical hosts of the addresses are, whatever Nil is.
LEMMA CanonicalHosts ==
  /\ \A url \in {Site, Connect, Plain} : CanonicalHost(url) = [host |-> "site", port |-> Nil]
  /\ CanonicalHost(OtherPort) = [host |-> "site", port |-> 80]
  /\ CanonicalHost(Broken) = Nil
  /\ [host |-> "site", port |-> Nil] # [host |-> "site", port |-> 80]
  /\ Nil \notin {[host |-> "site", port |-> Nil], [host |-> "site", port |-> 80]}
<1> USE NilAssumption DEF Site, Connect, Plain, OtherPort, Broken, Url, CanonicalHost,
                          DefaultPort, Scheme
<1>1. CanonicalHost(Site) = [host |-> "site", port |-> Nil]
  OBVIOUS
<1>2. CanonicalHost(Connect) = [host |-> "site", port |-> Nil]
  OBVIOUS
<1>3. CanonicalHost(Plain) = [host |-> "site", port |-> Nil]
  OBVIOUS
<1>4. CanonicalHost(OtherPort) = [host |-> "site", port |-> 80]
  OBVIOUS
<1>5. CanonicalHost(Broken) = Nil
  OBVIOUS
<1>6. [host |-> "site", port |-> Nil] # [host |-> "site", port |-> 80]
  OBVIOUS
<1>7. Nil \notin {[host |-> "site", port |-> Nil], [host |-> "site", port |-> 80]}
  OBVIOUS
<1> HIDE DEF CanonicalHost, Site, Connect, Plain
<1> QED BY <1>1, <1>2, <1>3, <1>4, <1>5, <1>6, <1>7

\* HostRefusal refuses exactly the destinations the item does not name.
LEMMA ListedNotRefused ==
  ASSUME NEW x \in Calls
  PROVE  HostRefusal(x.item, x.url) = Nil <=> Listed(x)
<1>1. /\ x.url \in {Nil, Site, Connect, Plain, OtherPort, Broken}
      /\ x.item.uris \in {{}, {Site}, {Broken, OtherPort}}
  BY DEF Calls, Items
<1>2. Site # OtherPort /\ Broken \notin {Site, OtherPort, Connect, Plain}
        /\ OtherPort \notin {Site, Connect, Plain}
  BY CanonicalHosts
<1>3. x.url \notin {Nil, Broken} => (HostListed(x.item, x.url) <=> Listed(x))
  BY <1>1, <1>2, CanonicalHosts DEF HostListed, Listed
<1> QED BY <1>1, <1>2, <1>3, CanonicalHosts, NilAssumption DEF HostRefusal, Listed

\* What every check before the level asks: the call is covered by the grant.
LEMMA CoveredReachesTheLevel ==
  ASSUME NEW x \in Calls
  PROVE  /\ Covered(x) => x.grant \in Grants /\ Evaluate(x) = LevelVerdict(x)
         /\ ~ Covered(x) => Evaluate(x).decision = "deny"
<1>1. /\ x.principal \in Principals /\ x.item \in Items
      /\ x.grant \in Grants \cup {Nil} /\ x.action \in ActionKind /\ x.now \in Int
  BY DEF Calls
<1>2. x.grant # Nil => /\ Before(x.now, x.grant.expires) <=>
                            (x.grant.expires # Nil => x.now < x.grant.expires)
                       /\ ActionAllowed(x.grant.actions, x.action) <=>
                            (x.action \in x.grant.actions \/ "fetch" \in x.grant.actions)
  BY <1>1 DEF Before, ActionAllowed, Grants, ActionKind
<1>3. x.action = "fetch" => (HostRefusal(x.item, x.url) # Nil <=> ~ Listed(x))
  BY ListedNotRefused
<1>4. Covered(x) <=>
        /\ x.principal.kind = "agent" /\ ~ x.principal.revoked
        /\ ~ x.item.archived
        /\ x.grant # Nil
        /\ x.grant.org = x.principal.org /\ x.grant.org = x.item.org
        /\ x.grant.agent = x.principal.id /\ x.grant.item = x.item.id
        /\ Before(x.now, x.grant.expires)
        /\ ActionAllowed(x.grant.actions, x.action)
        /\ ~ (x.action = "fetch" /\ HostRefusal(x.item, x.url) # Nil)
  BY <1>2, <1>3 DEF Covered, Listed
<1>5. Covered(x) => x.grant \in Grants /\ Evaluate(x) = LevelVerdict(x)
  BY <1>1, <1>4 DEF Evaluate
<1>6. \A reason : Deny(reason).decision = "deny"
  BY DEF Deny, Verdict
<1>7. ~ Covered(x) => \E reason : Evaluate(x) = Deny(reason)
  <2> USE DEF Evaluate
  <2>1. CASE x.principal.kind # "agent" \/ x.principal.revoked \/ x.item.archived \/ x.grant = Nil
    BY <2>1
  <2>2. CASE ~ (x.principal.kind # "agent" \/ x.principal.revoked \/ x.item.archived \/ x.grant = Nil)
    <3>1. CASE x.grant.org # x.principal.org \/ x.grant.org # x.item.org
      BY <2>2, <3>1
    <3>2. CASE x.grant.org = x.principal.org /\ x.grant.org = x.item.org
      BY <1>4, <2>2, <3>2
    <3> QED BY <3>1, <3>2
  <2> QED BY <2>1, <2>2
<1> QED BY <1>5, <1>6, <1>7

\* What a level says, of a grant that covers the call.
LEMMA LevelAllows ==
  ASSUME NEW x \in Calls, x.grant \in Grants
  PROVE  /\ LevelVerdict(x).decision = "allow" <=>
              \/ x.grant.level = "level2"
              \/ x.grant.level = "level1" /\ HumanApproved(x)
         /\ LevelVerdict(x).decision = "need_approval" <=>
              x.grant.level = "level1" /\ ~ HumanApproved(x)
<1>1. x.grant.level \in {"level1", "level2", "level3"}
  BY DEF Grants
<1>2. x.approval # Nil =>
        (Before(x.now, x.approval.expires) <=> x.now < x.approval.expires)
  BY NilAssumption DEF Before, Calls
<1> QED BY <1>1, <1>2 DEF LevelVerdict, Verdict, Deny, HumanApproved

\* What has been decided is what Evaluate says of an input.
DecisionInv ==
  /\ side = "decision" => in \in Inputs
  /\ out # Nil => in \in Inputs /\ out = Evaluate(in)

LEMMA DecisionInvHolds == AuthorizationSpec => []DecisionInv
<1>1. AuthorizationInit => DecisionInv
  BY DEF AuthorizationInit, Init, DecisionInv
<1>2. DecisionInv /\ [AuthorizationNext]_authorizationVars => DecisionInv'
  <2> SUFFICES ASSUME DecisionInv, [AuthorizationNext]_authorizationVars PROVE DecisionInv'
    OBVIOUS
  <2> USE DEF DecisionInv
  <2>1. CASE RequestSide
    BY <2>1 DEF RequestSide
  <2>2. CASE DecisionSide
    BY <2>2 DEF DecisionSide, Next, Decide
  <2>3. CASE UNCHANGED authorizationVars
    BY <2>3 DEF authorizationVars
  <2> QED BY <2>1, <2>2, <2>3 DEF AuthorizationNext
<1> QED BY <1>1, <1>2, PTL DEF AuthorizationSpec

\* Evaluate allows a call exactly if the grant covers it and either needs no
\* human or has one's approval that has not run out.
THEOREM AllowIffAuthorizedHolds == AuthorizationSpec => []AllowIffAuthorized
<1>1. DecisionInv => AllowIffAuthorized
  <2> SUFFICES ASSUME in \in Calls, out = Evaluate(in) PROVE AllowIffAuthorized
    BY InputsAreCalls DEF DecisionInv, AllowIffAuthorized
  <2>1. CASE Covered(in)
    BY <2>1, CoveredReachesTheLevel, LevelAllows DEF AllowIffAuthorized
  <2>2. CASE ~ Covered(in)
    BY <2>2, CoveredReachesTheLevel DEF AllowIffAuthorized
  <2> QED BY <2>1, <2>2
<1> QED BY <1>1, DecisionInvHolds, PTL

\* A human is asked exactly when an approval given now would be enough.
THEOREM AskOnlyIfEnoughHolds == AuthorizationSpec => []AskOnlyIfEnough
<1>1. DecisionInv => AskOnlyIfEnough
  <2> SUFFICES ASSUME in \in Calls, out = Evaluate(in) PROVE AskOnlyIfEnough
    BY InputsAreCalls DEF DecisionInv, AskOnlyIfEnough
  <2> DEFINE a == [id |-> "ap", grant |-> in.grant.id, expires |-> in.now + 1]
             x == [in EXCEPT !.approval = a]
  <2>1. CASE in.grant \in Grants
    <3>1. a \in [id : {"ap"}, grant : {"g1", "g2"}, expires : Int] /\ in.grant # Nil
      BY <2>1, NilAssumption DEF Grants, Calls
    <3>2. /\ x \in Calls
          /\ x.principal = in.principal /\ x.item = in.item /\ x.grant = in.grant
          /\ x.action = in.action /\ x.url = in.url /\ x.now = in.now /\ x.approval = a
      BY <3>1 DEF Calls
    <3>3. Covered(x) <=> Covered(in)
      BY <3>2 DEF Covered
    <3>4. HumanApproved(x)
      <4>1. a # Nil /\ a.grant = in.grant.id /\ in.now < a.expires
        BY <3>1, NilAssumption DEF Calls
      <4> QED BY <3>2, <4>1 DEF HumanApproved
    <3>5. CASE Covered(in)
      <4>1. Evaluate(x).decision = "allow" <=> in.grant.level \in {"level1", "level2"}
        BY <3>2, <3>3, <3>4, <3>5, CoveredReachesTheLevel, LevelAllows
      <4>2. /\ out.decision = "allow" <=>
                 in.grant.level = "level2" \/ (in.grant.level = "level1" /\ HumanApproved(in))
            /\ out.decision = "need_approval" <=>
                 in.grant.level = "level1" /\ ~ HumanApproved(in)
        BY <3>5, CoveredReachesTheLevel, LevelAllows
      <4>3. in.grant.level = "level1" => in.grant.level # "level2"
        OBVIOUS
      <4>4. out.decision = "need_approval" <=>
              in.grant # Nil /\ out.decision # "allow" /\ Evaluate(x).decision = "allow"
        BY <3>1, <4>1, <4>2, <4>3
      <4> QED BY <4>4 DEF AskOnlyIfEnough
    <3>6. CASE ~ Covered(in)
      <4>1. Evaluate(x).decision = "deny" /\ out.decision = "deny"
        BY <3>2, <3>3, <3>6, CoveredReachesTheLevel
      <4> QED BY <4>1 DEF AskOnlyIfEnough
    <3> QED BY <3>5, <3>6
  <2>2. CASE in.grant = Nil
    <3>1. ~ Covered(in)
      BY <2>2 DEF Covered
    <3> QED BY <2>2, <3>1, CoveredReachesTheLevel DEF AskOnlyIfEnough
  <2> QED BY <2>1, <2>2 DEF Calls
<1> QED BY <1>1, DecisionInvHolds, PTL

-----------------------------------------------------------------------------
(* The inductive invariant of the requests.                                *)

LeasePlaces  == {"lease", "lease agent", "use session"}
JwtPlaces    == {"jwt", "workload", "human"}
InvitePlaces == {"require owner", "allowed", "kratos", "code", "member", "has owners",
                 "owner"}
\* Where a list of items is being made for a principal that may have one.
Listing      == {"granted", "each", "list owns", "all", "secret"}
OtherPlaces  == {"list agent", "use", "owns", "owns again", "row", "may write", "act",
                 "write", "delete row", "put grant", "put session"}
Ended        == {"idle", "done", "refused"}
Places == LeasePlaces \cup JwtPlaces \cup InvitePlaces \cup Listing \cup OtherPlaces \cup Ended

\* A request, as records go.
Asked ==
  [pc : Places, op : Ops \cup {None, "invite"}, tok : Token \cup {None},
   item : Item \cup {None}, p : Agent \cup Human \cup {None},
   to : Agent \cup Human \cup {None}, row : Row \cup {None}, owns : BOOLEAN,
   todo : SUBSET Item, got : SUBSET Item, revoked : SUBSET Agent]

Refused == [Fresh EXCEPT !.pc = "refused"]

\* Item i was the principal's to write at moments d of request q, or to see.
Theirs2(q, d, i) ==
  <<q.p, i>> \in d.owned \/ (q.p \in d.owners /\ <<"org", i>> \in d.owned)
Shown(q, d, i) == Theirs2(q, d, i) \/ <<q.p, i>> \in d.grants

\* The token and the operation fit the place.
PlaceFits(q) ==
  /\ q.pc = "idle" => q = Fresh
  /\ q.pc = "refused" => q = Refused
  /\ q.pc \in LeasePlaces => q.tok \in Token /\ q.tok.by = "lease"
  /\ q.pc \in JwtPlaces => q.tok \in Token /\ q.tok.by = "jwt"
  /\ q.pc \in LeasePlaces \cup JwtPlaces =>
       q.p = None /\ q.got = {} /\ q.todo = {} /\ ~ q.owns
  /\ q.pc \in InvitePlaces => q.op = "invite"
  /\ q.op = "invite" => q.p \in Human \cup {None} /\ q.got = {} /\ q.pc \in InvitePlaces \cup Ended
  /\ q.pc \notin {"idle", "refused"} /\ q.op # "invite" => q.item \in Item
  /\ q.pc \in {"code", "member", "has owners", "owner"} => q.to \in Human
  /\ q.pc \in {"row", "may write"} => q.op \in ItemWrites
  /\ q.pc = "owns" => q.op \notin ItemWrites
  /\ q.pc = "owns again" => q.op \in OwnsTwice
  /\ q.pc = "may write" \/ (q.pc \in {"act", "write"} /\ q.op \in ItemWrites) => q.row \in Row
  /\ q.pc = "write" => q.op \in {"update", "enroll"}
  /\ q.pc = "delete row" => q.op = "delete"
  /\ q.pc = "put grant" => q.op = "grant" /\ q.to # None
  /\ q.pc = "put session" => q.op = "session" /\ q.to \in Agent
  /\ q.pc \in Listing \cup OtherPlaces /\ q.op \in HumanOps => q.p \in Human
  /\ q.pc \in {"list agent", "use"} => q.p \in Agent
  /\ q.pc \in {"list owns", "all"} => q.p \in Human

\* Request q has seen, at moments d, what entitles it to where it is.
Entitled(q, d) ==
  /\ q.p \in Agent /\ q.tok.by = "jwt" =>
       <<q.tok.sub, [agent |-> q.p, aud |-> q.tok.aud]>> \in d.bound
  /\ q.op # "invite" /\ q.p \in Human => q.p \in d.members
  /\ q.owns => q.p \in d.owners
  /\ \A i \in q.got \cup q.todo : Shown(q, d, i)
  /\ q.pc = "may write" => <<q.row.owner, q.item>> \in d.owned
  /\ q.op \in ItemWrites /\ q.pc \in {"act", "write", "delete row"} => Theirs2(q, d, q.item)
  /\ q.op \in OwnerOps /\ q.pc \in {"owns again", "act", "put grant", "put session"} =>
       q.p \in d.owners
  /\ q.pc = "owner" => TRUE \in d.ownerless

\* A revoked agent never gets as far as a list.
NothingIfRevoked(q) == q.pc \in Listing \/ q.got # {} => q.p \notin q.revoked

RequestOK(q, d) == PlaceFits(q) /\ Entitled(q, d) /\ NothingIfRevoked(q)

\* Moments d include moments e.
Includes(d, e) ==
  /\ e.grants \subseteq d.grants /\ e.members \subseteq d.members
  /\ e.owners \subseteq d.owners /\ e.owned \subseteq d.owned
  /\ e.bound \subseteq d.bound /\ e.ownerless \subseteq d.ownerless

RequestsOK ==
  \A r \in Request :
    /\ RequestOK(req[r], during[r])
    /\ req[r].revoked \subseteq {a \in Agent : agents[a] = "revoked"}

\* A request in progress has seen what holds now.
NowSeen == \A r \in Request : ~ Free(r) => Includes(during[r], Moment)

TablesOK ==
  /\ agents \in [Agent -> {"absent", "live", "revoked"}]
  /\ bound \in [Subject -> [agent : Agent, aud : Audience] \cup {None}]
  /\ lease \in [Agent -> {"none", "live", "ended"}]
  /\ items \in [Item -> Row \cup {None}]
  /\ grants \subseteq (Agent \cup Human) \X Item
  /\ owners \subseteq Human /\ members \subseteq Human /\ identities \subseteq Human
  /\ starts \in 0 .. MaxStarts

RequestInv == TablesOK /\ req \in [Request -> Asked] /\ RequestsOK /\ NowSeen

-----------------------------------------------------------------------------
(* What a request has seen only grows until it ends.                       *)

LEMMA IncludesTransitive ==
  ASSUME NEW d, NEW e, NEW f, Includes(d, e), Includes(e, f)
  PROVE  Includes(d, f)
BY DEF Includes

LEMMA EntitledStays ==
  ASSUME NEW q, NEW d, NEW e, RequestOK(q, d), Includes(e, d)
  PROVE  RequestOK(q, e)
<1>1. \A i : Theirs2(q, d, i) => Theirs2(q, e, i)
  BY DEF Includes, Theirs2
<1>2. \A i : Shown(q, d, i) => Shown(q, e, i)
  BY <1>1 DEF Includes, Shown
<1>3. Entitled(q, e)
  BY <1>1, <1>2 DEF RequestOK, Entitled, Includes
<1> QED BY <1>3 DEF RequestOK

\* A request that has just begun or ended in a refusal needs nothing.
LEMMA Observes ==
  ASSUME Observe, NowSeen, NEW r \in Request
  PROVE  /\ ~ Free(r) /\ Free(r)' /\ req'[r].pc = "done" => during'[r] = during[r]
         /\ Free(r) /\ Free(r)' /\ req'[r] = req[r] => during'[r] = during[r]
         /\ ~ Free(r)' => Includes(during'[r], Moment')
         /\ ~ Free(r) /\ ~ Free(r)' => Includes(during'[r], during[r])
<1> DEFINE F == {"grants", "members", "owners", "owned", "bound", "ownerless"}
<1>1. DOMAIN Moment = F
  BY DEF Moment
<1>2. during'[r] =
        IF Free(r)' THEN IF req'[r] = req[r] \/ req'[r].pc = "done" THEN during[r] ELSE Nothing
        ELSE IF Free(r) THEN Moment'
        ELSE IF UNCHANGED <<tables, membership>> THEN during[r]
        ELSE [f \in F |-> during[r][f] \cup Moment'[f]]
  BY <1>1 DEF Observe
<1>3. CASE Free(r)'
  BY <1>2, <1>3
<1>4. CASE ~ Free(r)' /\ Free(r)
  BY <1>2, <1>4 DEF Includes
<1>5. CASE ~ Free(r)' /\ ~ Free(r) /\ UNCHANGED <<tables, membership>>
  <2>1. during'[r] = during[r]
    BY <1>2, <1>5
  <2>2. Moment' = Moment
    BY <1>5 DEF Moment, Owned, tables, membership
  <2>3. Includes(during[r], Moment)
    BY <1>5 DEF NowSeen
  <2> QED BY <1>5, <2>1, <2>2, <2>3 DEF Includes
<1>6. CASE ~ Free(r)' /\ ~ Free(r) /\ ~ UNCHANGED <<tables, membership>>
  <2>1. during'[r] = [f \in F |-> during[r][f] \cup Moment'[f]]
    BY <1>2, <1>6
  <2>2. /\ during'[r].grants = during[r].grants \cup Moment'.grants
        /\ during'[r].members = during[r].members \cup Moment'.members
        /\ during'[r].owners = during[r].owners \cup Moment'.owners
        /\ during'[r].owned = during[r].owned \cup Moment'.owned
        /\ during'[r].bound = during[r].bound \cup Moment'.bound
        /\ during'[r].ownerless = during[r].ownerless \cup Moment'.ownerless
    BY <2>1
  <2> QED BY <1>6, <2>2 DEF Includes
<1> QED BY <1>3, <1>4, <1>5, <1>6

LEMMA RefusedOK ==
  /\ Refused \in Asked /\ Refused.pc = "refused" /\ Refused.revoked = {}
  /\ \A d : RequestOK(Refused, d)
<1>1. /\ Refused \in Asked /\ Refused.pc = "refused" /\ Refused.revoked = {}
      /\ Refused.p = None /\ Refused.op = None /\ Refused.got = {} /\ Refused.todo = {}
      /\ Refused.owns = FALSE
  BY DEF Refused, Fresh, Asked, Places, Ended
<1>2. None \notin Agent \cup Human
  BY AccessAssumption
<1> HIDE DEF Refused
<1>3. PlaceFits(Refused)
  BY <1>1 DEF PlaceFits, LeasePlaces, JwtPlaces, InvitePlaces, Listing, OtherPlaces, Ended,
              ItemWrites, HumanOps, OwnerOps
<1>4. NothingIfRevoked(Refused)
  BY <1>1 DEF NothingIfRevoked, Listing
<1>5. \A d : Entitled(Refused, d)
  BY <1>1, <1>2 DEF Entitled
<1> QED BY <1>1, <1>3, <1>4, <1>5 DEF RequestOK

LEMMA AllOK ==
  ASSUME \A s \in Request :
           /\ RequestOK(req'[s], during'[s])
           /\ req'[s].revoked \subseteq {a \in Agent : agents'[a] = "revoked"}
  PROVE  RequestsOK'
<1>1. ASSUME NEW s \in Request PROVE RequestOK(req[s], during[s])'
  <2>1. RequestOK(req'[s], during'[s])
    OBVIOUS
  <2>2. PlaceFits(req[s])'
    BY <2>1 DEF RequestOK, PlaceFits
  <2>3. Entitled(req[s], during[s])'
    BY <2>1 DEF RequestOK, Entitled, Theirs2, Shown
  <2>4. NothingIfRevoked(req[s])'
    BY <2>1 DEF RequestOK, NothingIfRevoked
  <2> QED BY <2>2, <2>3, <2>4 DEF RequestOK
<1> QED BY <1>1 DEF RequestsOK

\* A step of request r that leaves it as q.
LEMMA RequestMoves ==
  ASSUME RequestInv, Observe, NEW r \in Request, NEW q \in Asked,
         req' = [req EXCEPT ![r] = q], TablesOK',
         \A a \in Agent : agents[a] = "revoked" => agents'[a] = "revoked",
         q.revoked \subseteq {a \in Agent : agents[a] = "revoked"},
         \/ q = Refused
         \/ ~ Free(r) /\ q.pc # "idle" /\ RequestOK(q, during[r])
         \/ q.pc \notin Ended /\ \A d : RequestOK(q, d)
  PROVE  RequestInv'
<1>1. req'[r] = q /\ \A s \in Request \ {r} : req'[s] = req[s]
  BY DEF RequestInv
<1>2. req' \in [Request -> Asked]
  BY DEF RequestInv
<1>3. NowSeen'
  <2>1. ASSUME NEW s \in Request, ~ Free(s)' PROVE Includes(during'[s], Moment')
    BY <2>1, Observes DEF RequestInv
  <2> QED BY <2>1 DEF NowSeen, Includes
<1>4. ASSUME NEW s \in Request \ {r} PROVE RequestOK(req'[s], during'[s])
  <2>1. RequestOK(req[s], during[s]) /\ req'[s] = req[s] /\ (Free(s)' <=> Free(s))
    BY <1>1, <1>4 DEF RequestInv, RequestsOK, Free
  <2>2. during'[s] = during[s] \/ Includes(during'[s], during[s])
    BY <1>4, <2>1, Observes DEF RequestInv
  <2> QED BY <2>1, <2>2, EntitledStays
<1>5. RequestOK(req'[r], during'[r])
  <2>1. CASE q = Refused
    BY <1>1, <2>1, RefusedOK
  <2>2. CASE ~ Free(r) /\ q.pc # "idle" /\ RequestOK(q, during[r])
    <3>1. CASE q.pc = "refused"
      BY <1>1, <2>1, <2>2, <3>1 DEF RequestOK, PlaceFits
    <3>2. CASE q.pc = "done"
      <4>1. during'[r] = during[r]
        BY <1>1, <2>2, <3>2, Observes DEF RequestInv, Free
      <4> QED BY <1>1, <2>2, <4>1
    <3>3. CASE q.pc \notin Ended
      <4>1. Includes(during'[r], during[r])
        BY <1>1, <2>2, <3>3, Observes DEF RequestInv, Free, Ended
      <4> QED BY <1>1, <2>2, <4>1, EntitledStays
    <3> QED BY <2>2, <3>1, <3>2, <3>3 DEF Ended
  <2>3. CASE q.pc \notin Ended /\ \A d : RequestOK(q, d)
    BY <1>1, <2>3
  <2> QED BY <2>1, <2>2, <2>3
<1>6. ASSUME NEW s \in Request
      PROVE  req'[s].revoked \subseteq {a \in Agent : agents'[a] = "revoked"}
  <2>1. req'[s].revoked \subseteq {a \in Agent : agents[a] = "revoked"}
    BY <1>1 DEF RequestInv, RequestsOK
  <2> QED BY <2>1
<1>7. RequestsOK'
  BY <1>4, <1>5, <1>6, AllOK
<1> QED BY <1>2, <1>3, <1>7 DEF RequestInv

\* A step that leaves the tables alone: a read.
LEMMA RequestReads ==
  ASSUME RequestInv, Observe, Quiet, NEW r \in Request, ~ Free(r),
         \/ Refuse(r)
         \/ \E q \in Asked : /\ req' = [req EXCEPT ![r] = q] /\ q.pc # "idle"
                             /\ q.revoked = req[r].revoked /\ RequestOK(q, during[r])
  PROVE  RequestInv'
<1>1. TablesOK' /\ agents' = agents
  BY DEF RequestInv, TablesOK, Quiet, tables, membership
<1>2. CASE Refuse(r)
  <2>1. req' = [req EXCEPT ![r] = Refused]
    BY <1>2 DEF Refuse, Refused
  <2> QED BY <1>1, <2>1, RefusedOK, RequestMoves
<1>3. ASSUME NEW q \in Asked, req' = [req EXCEPT ![r] = q], q.pc # "idle",
             q.revoked = req[r].revoked, RequestOK(q, during[r])
      PROVE  RequestInv'
  <2>1. q.revoked \subseteq {a \in Agent : agents[a] = "revoked"}
    BY <1>3 DEF RequestInv, RequestsOK
  <2> QED BY <1>1, <1>3, <2>1, RequestMoves
<1> QED BY <1>2, <1>3

-----------------------------------------------------------------------------
(* A request with some of its fields replaced.                             *)

\* q is request x with these fields; no step changes the others.
Is(q, x, place, p, to, row, owns, todo, got) ==
  /\ q.op = x.op /\ q.tok = x.tok /\ q.item = x.item /\ q.revoked = x.revoked
  /\ q.pc = place /\ q.p = p /\ q.to = to /\ q.row = row
  /\ q.owns = owns /\ q.todo = todo /\ q.got = got

Becomes(r, place, p, to, row, owns, todo, got) ==
  \E q \in Asked : /\ req' = [req EXCEPT ![r] = q]
                   /\ Is(q, req[r], place, p, to, row, owns, todo, got)

LEMMA Replaced ==
  ASSUME NEW r \in Request, NEW place \in Places, req \in [Request -> Asked]
  PROVE  /\ Move(r, place) =>
              Becomes(r, place, req[r].p, req[r].to, req[r].row, req[r].owns, req[r].todo, req[r].got)
         /\ \A p \in Agent \cup Human :
              req' = [req EXCEPT ![r].p = p, ![r].pc = place] =>
              Becomes(r, place, p, req[r].to, req[r].row, req[r].owns, req[r].todo, req[r].got)
         /\ \A to \in Agent \cup Human :
              req' = [req EXCEPT ![r].to = to, ![r].pc = place] =>
              Becomes(r, place, req[r].p, to, req[r].row, req[r].owns, req[r].todo, req[r].got)
         /\ \A row \in Row :
              req' = [req EXCEPT ![r].row = row, ![r].pc = place] =>
              Becomes(r, place, req[r].p, req[r].to, row, req[r].owns, req[r].todo, req[r].got)
         /\ \A owns \in BOOLEAN :
              req' = [req EXCEPT ![r].owns = owns, ![r].pc = place] =>
              Becomes(r, place, req[r].p, req[r].to, req[r].row, owns, req[r].todo, req[r].got)
         /\ \A todo \in SUBSET Item :
              req' = [req EXCEPT ![r].todo = todo, ![r].pc = place] =>
              Becomes(r, place, req[r].p, req[r].to, req[r].row, req[r].owns, todo, req[r].got)
         /\ \A got \in SUBSET Item, todo \in SUBSET Item :
              req' = [req EXCEPT ![r].got = got, ![r].todo = todo, ![r].pc = place] =>
              Becomes(r, place, req[r].p, req[r].to, req[r].row, req[r].owns, todo, got)
         /\ \A p \in Agent \cup Human, got \in SUBSET Item :
              req' = [req EXCEPT ![r].p = p, ![r].got = got, ![r].pc = place] =>
              Becomes(r, place, p, req[r].to, req[r].row, req[r].owns, req[r].todo, got)
<1>1. req[r] \in Asked
  OBVIOUS
<1>2. ASSUME Move(r, place)
      PROVE  Becomes(r, place, req[r].p, req[r].to, req[r].row, req[r].owns, req[r].todo, req[r].got)
  <2> DEFINE q == [req[r] EXCEPT !.pc = place]
  <2>1. q \in Asked
    BY <1>1 DEF Asked
  <2>2. req' = [req EXCEPT ![r] = q]
    BY <1>2 DEF Move
  <2>3. Is(q, req[r], place, req[r].p, req[r].to, req[r].row, req[r].owns, req[r].todo, req[r].got)
    BY <1>1 DEF Asked, Is
  <2> HIDE DEF q
  <2> QED BY <2>1, <2>2, <2>3 DEF Becomes
<1>3. ASSUME NEW p \in Agent \cup Human, req' = [req EXCEPT ![r].p = p, ![r].pc = place]
      PROVE  Becomes(r, place, p, req[r].to, req[r].row, req[r].owns, req[r].todo, req[r].got)
  <2> DEFINE q == [req[r] EXCEPT !.p = p, !.pc = place]
  <2>1. q \in Asked
    BY <1>1, <1>3 DEF Asked
  <2>2. req' = [req EXCEPT ![r] = q]
    BY <1>3
  <2>3. Is(q, req[r], place, p, req[r].to, req[r].row, req[r].owns, req[r].todo, req[r].got)
    BY <1>1 DEF Asked, Is
  <2> HIDE DEF q
  <2> QED BY <2>1, <2>2, <2>3 DEF Becomes
<1>4. ASSUME NEW to \in Agent \cup Human, req' = [req EXCEPT ![r].to = to, ![r].pc = place]
      PROVE  Becomes(r, place, req[r].p, to, req[r].row, req[r].owns, req[r].todo, req[r].got)
  <2> DEFINE q == [req[r] EXCEPT !.to = to, !.pc = place]
  <2>1. q \in Asked
    BY <1>1, <1>4 DEF Asked
  <2>2. req' = [req EXCEPT ![r] = q]
    BY <1>4
  <2>3. Is(q, req[r], place, req[r].p, to, req[r].row, req[r].owns, req[r].todo, req[r].got)
    BY <1>1 DEF Asked, Is
  <2> HIDE DEF q
  <2> QED BY <2>1, <2>2, <2>3 DEF Becomes
<1>5. ASSUME NEW row \in Row, req' = [req EXCEPT ![r].row = row, ![r].pc = place]
      PROVE  Becomes(r, place, req[r].p, req[r].to, row, req[r].owns, req[r].todo, req[r].got)
  <2> DEFINE q == [req[r] EXCEPT !.row = row, !.pc = place]
  <2>1. q \in Asked
    BY <1>1, <1>5 DEF Asked
  <2>2. req' = [req EXCEPT ![r] = q]
    BY <1>5
  <2>3. Is(q, req[r], place, req[r].p, req[r].to, row, req[r].owns, req[r].todo, req[r].got)
    BY <1>1 DEF Asked, Is
  <2> HIDE DEF q
  <2> QED BY <2>1, <2>2, <2>3 DEF Becomes
<1>6. ASSUME NEW owns \in BOOLEAN, req' = [req EXCEPT ![r].owns = owns, ![r].pc = place]
      PROVE  Becomes(r, place, req[r].p, req[r].to, req[r].row, owns, req[r].todo, req[r].got)
  <2> DEFINE q == [req[r] EXCEPT !.owns = owns, !.pc = place]
  <2>1. q \in Asked
    BY <1>1, <1>6 DEF Asked
  <2>2. req' = [req EXCEPT ![r] = q]
    BY <1>6
  <2>3. Is(q, req[r], place, req[r].p, req[r].to, req[r].row, owns, req[r].todo, req[r].got)
    BY <1>1 DEF Asked, Is
  <2> HIDE DEF q
  <2> QED BY <2>1, <2>2, <2>3 DEF Becomes
<1>7. ASSUME NEW todo \in SUBSET Item, req' = [req EXCEPT ![r].todo = todo, ![r].pc = place]
      PROVE  Becomes(r, place, req[r].p, req[r].to, req[r].row, req[r].owns, todo, req[r].got)
  <2> DEFINE q == [req[r] EXCEPT !.todo = todo, !.pc = place]
  <2>1. q \in Asked
    BY <1>1, <1>7 DEF Asked
  <2>2. req' = [req EXCEPT ![r] = q]
    BY <1>7
  <2>3. Is(q, req[r], place, req[r].p, req[r].to, req[r].row, req[r].owns, todo, req[r].got)
    BY <1>1 DEF Asked, Is
  <2> HIDE DEF q
  <2> QED BY <2>1, <2>2, <2>3 DEF Becomes
<1>8. ASSUME NEW got \in SUBSET Item, NEW todo \in SUBSET Item, req' = [req EXCEPT ![r].got = got, ![r].todo = todo, ![r].pc = place]
      PROVE  Becomes(r, place, req[r].p, req[r].to, req[r].row, req[r].owns, todo, got)
  <2> DEFINE q == [req[r] EXCEPT !.got = got, !.todo = todo, !.pc = place]
  <2>1. q \in Asked
    BY <1>1, <1>8 DEF Asked
  <2>2. req' = [req EXCEPT ![r] = q]
    BY <1>8
  <2>3. Is(q, req[r], place, req[r].p, req[r].to, req[r].row, req[r].owns, todo, got)
    BY <1>1 DEF Asked, Is
  <2> HIDE DEF q
  <2> QED BY <2>1, <2>2, <2>3 DEF Becomes
<1>9. ASSUME NEW p \in Agent \cup Human, NEW got \in SUBSET Item, req' = [req EXCEPT ![r].p = p, ![r].got = got, ![r].pc = place]
      PROVE  Becomes(r, place, p, req[r].to, req[r].row, req[r].owns, req[r].todo, got)
  <2> DEFINE q == [req[r] EXCEPT !.p = p, !.got = got, !.pc = place]
  <2>1. q \in Asked
    BY <1>1, <1>9 DEF Asked
  <2>2. req' = [req EXCEPT ![r] = q]
    BY <1>9
  <2>3. Is(q, req[r], place, p, req[r].to, req[r].row, req[r].owns, req[r].todo, got)
    BY <1>1 DEF Asked, Is
  <2> HIDE DEF q
  <2> QED BY <2>1, <2>2, <2>3 DEF Becomes
<1> QED BY <1>2, <1>3, <1>4, <1>5, <1>6, <1>7, <1>8, <1>9

\* A read that leaves request r with these fields.
LEMMA ReadKeeps ==
  ASSUME RequestInv, Observe, Quiet, NEW r \in Request, ~ Free(r),
         NEW place, place # "idle", NEW p, NEW to, NEW row, NEW owns, NEW todo, NEW got,
         Becomes(r, place, p, to, row, owns, todo, got),
         \A q \in Asked : Is(q, req[r], place, p, to, row, owns, todo, got)
                           => RequestOK(q, during[r])
  PROVE  RequestInv'
<1>1. PICK q \in Asked : /\ req' = [req EXCEPT ![r] = q]
                         /\ Is(q, req[r], place, p, to, row, owns, todo, got)
  BY DEF Becomes
<1>2. q.pc # "idle" /\ q.revoked = req[r].revoked /\ RequestOK(q, during[r])
  BY <1>1 DEF Is
<1> QED BY <1>1, <1>2, RequestReads

-----------------------------------------------------------------------------
(* Where a request may go from where it is.                                *)

\* What holds now, an active request has seen.
LEMMA SeenNow ==
  ASSUME RequestInv, NEW r \in Request, ~ Free(r)
  PROVE  /\ req[r] \in Asked /\ RequestOK(req[r], during[r])
         /\ req[r].pc \in Places \ Ended
         /\ grants \subseteq during[r].grants
         /\ members \subseteq during[r].members
         /\ owners \subseteq during[r].owners
         /\ \A s \in Subject : <<s, bound[s]>> \in during[r].bound
         /\ \A i \in Item : items[i] # None => <<items[i].owner, i>> \in during[r].owned
         /\ owners = {} => TRUE \in during[r].ownerless
<1>1. req[r] \in Asked /\ RequestOK(req[r], during[r])
  BY DEF RequestInv, RequestsOK
<1>2. Includes(during[r], Moment)
  BY DEF RequestInv, NowSeen
<1>3. \A i \in Item : items[i] # None => <<items[i].owner, i>> \in Moment.owned
  BY DEF Moment, Owned
<1>4. /\ Moment.grants = grants /\ Moment.members = members /\ Moment.owners = owners
      /\ Moment.bound = {<<s, bound[s]>> : s \in Subject}
      /\ Moment.ownerless = IF owners = {} THEN {TRUE} ELSE {}
  BY DEF Moment
<1>5. req[r].pc \in Places \ Ended
  BY <1>1 DEF Asked, Free, Ended
<1> QED BY <1>1, <1>2, <1>3, <1>4, <1>5 DEF Includes

\* Where request x may go with its fields unchanged, having seen moments d.
CanGoOn(x, d, place) ==
  \/ x.pc \notin {"idle", "refused"} /\ place = "done"
  \/ x.pc = "lease" /\ place = "lease agent"
  \/ x.pc \in {"jwt", "workload"} /\ place \in {"workload", "human"}
  \/ x.pc = "owns again" /\ place = "act"
  \/ x.pc = "list agent" /\ place = "granted" /\ x.p \notin x.revoked
  \/ x.pc = "may write" /\ place = "act" /\ Theirs2(x, d, x.item)
  \/ x.pc = "act" /\ x.op = "delete" /\ place = "delete row"
  \/ x.pc \in {"require owner", "allowed"} /\ place \in {"allowed", "kratos"}
  \/ x.pc = "code" /\ place = "member"
  \/ x.pc = "member" /\ place = "has owners"
  \/ x.pc = "has owners" /\ place = "owner" /\ TRUE \in d.ownerless

LEMMA GoesOn ==
  ASSUME NEW x \in Asked, NEW q \in Asked, NEW d, RequestOK(x, d), NEW place,
         Is(q, x, place, x.p, x.to, x.row, x.owns, x.todo, x.got),
         CanGoOn(x, d, place)
  PROVE  RequestOK(q, d)
<1> USE DEF CanGoOn, Is, LeasePlaces, JwtPlaces, InvitePlaces, Listing, OtherPlaces, Ended,
            ItemWrites, OwnerOps, HumanOps, OwnsTwice
<1>1. PlaceFits(q)
  BY DEF RequestOK, PlaceFits
<1>2. Entitled(q, d)
  <2>1. \A i : (Theirs2(q, d, i) <=> Theirs2(x, d, i)) /\ (Shown(q, d, i) <=> Shown(x, d, i))
    BY DEF Theirs2, Shown
  <2>2. Entitled(x, d) /\ PlaceFits(x)
    BY DEF RequestOK
  <2>3. /\ q.p \in Agent /\ q.tok.by = "jwt" =>
             <<q.tok.sub, [agent |-> q.p, aud |-> q.tok.aud]>> \in d.bound
        /\ q.op # "invite" /\ q.p \in Human => q.p \in d.members
        /\ q.owns => q.p \in d.owners
        /\ \A i \in q.got \cup q.todo : Shown(q, d, i)
        /\ q.pc = "owner" => TRUE \in d.ownerless
    BY <2>1, <2>2 DEF Entitled
  <2>4. q.pc # "may write"
    OBVIOUS
  <2>5. q.op \in ItemWrites /\ q.pc \in {"act", "write", "delete row"} => Theirs2(q, d, q.item)
    BY <2>1, <2>2 DEF Entitled, PlaceFits
  <2>6. q.op \in OwnerOps /\ q.pc \in {"owns again", "act", "put grant", "put session"} =>
          q.p \in d.owners
    BY <2>2 DEF Entitled, PlaceFits
  <2> QED BY <2>3, <2>4, <2>5, <2>6 DEF Entitled
<1>3. NothingIfRevoked(q)
  BY DEF RequestOK, NothingIfRevoked
<1> QED BY <1>1, <1>2, <1>3 DEF RequestOK

\* The token has named principal p, and the handler's first read comes next.
LEMMA FirstReadFits ==
  ASSUME NEW x \in Asked, NEW q \in Asked, NEW d, RequestOK(x, d), NEW p \in Agent \cup Human,
         x.pc \in LeasePlaces \cup JwtPlaces,
         FirstRead(p, x.op) # "refused",
         Is(q, x, FirstRead(p, x.op), p, x.to, x.row, x.owns, x.todo, x.got),
         p \in Agent /\ x.tok.by = "jwt" =>
           <<x.tok.sub, [agent |-> p, aud |-> x.tok.aud]>> \in d.bound,
         p \in Human => p \in d.members
  PROVE  RequestOK(q, d)
<1>1. /\ FirstRead(p, x.op) \in {"row", "list agent", "granted", "use", "act", "owns"}
      /\ FirstRead(p, x.op) = "row" => x.op \in ItemWrites
      /\ FirstRead(p, x.op) \in {"list agent", "use"} => p \in Agent
      /\ FirstRead(p, x.op) = "granted" => p \notin Agent
      /\ FirstRead(p, x.op) = "owns" => x.op \notin ItemWrites
      /\ FirstRead(p, x.op) = "act" => x.op = "events"
      /\ x.op \in HumanOps => p \in Human
  BY DEF FirstRead, ItemWrites, HumanOps, OwnerOps
<1>2. x.op # "invite" /\ x.item \in Item /\ x.got = {} /\ x.todo = {} /\ ~ x.owns
  BY DEF RequestOK, PlaceFits, LeasePlaces, JwtPlaces, InvitePlaces, Ended
<1>3. p \notin Agent => p \notin x.revoked /\ p \in Human
  BY DEF Asked
<1> USE DEF Is, LeasePlaces, JwtPlaces, InvitePlaces, Listing, OtherPlaces, Ended
<1>4. PlaceFits(q)
  BY <1>1, <1>2, <1>3 DEF PlaceFits, ItemWrites, HumanOps, OwnerOps, OwnsTwice
<1>5. Entitled(q, d)
  BY <1>1, <1>2 DEF Entitled, ItemWrites, OwnerOps
<1>6. NothingIfRevoked(q)
  BY <1>1, <1>2, <1>3 DEF NothingIfRevoked
<1> QED BY <1>4, <1>5, <1>6 DEF RequestOK

\* The ownership has been asked for.
LEMMA OwnsFits ==
  ASSUME NEW x \in Asked, NEW q \in Asked, NEW d, RequestOK(x, d), NEW place, NEW owns \in BOOLEAN,
         Is(q, x, place, x.p, x.to, x.row, owns, x.todo, x.got),
         owns => x.p \in d.owners,
         \/ x.pc = "owns" /\ (owns \/ x.op = "create")
              /\ place = IF x.op \in OwnsTwice THEN "owns again" ELSE "act"
         \/ x.pc = "list owns" /\ place = "all"
  PROVE  RequestOK(q, d)
<1> USE DEF Is, LeasePlaces, JwtPlaces, InvitePlaces, Listing, OtherPlaces, Ended,
            ItemWrites, OwnerOps, HumanOps, OwnsTwice
<1>1. PlaceFits(q)
  BY DEF RequestOK, PlaceFits
<1>2. Entitled(q, d)
  <2>1. \A i : (Theirs2(q, d, i) <=> Theirs2(x, d, i)) /\ (Shown(q, d, i) <=> Shown(x, d, i))
    BY DEF Theirs2, Shown
  <2> QED BY <2>1 DEF RequestOK, Entitled, PlaceFits
<1>3. NothingIfRevoked(q)
  BY DEF RequestOK, NothingIfRevoked
<1> QED BY <1>1, <1>2, <1>3 DEF RequestOK

\* The row has been read, to check it or to write it back.
LEMMA RowFits ==
  ASSUME NEW x \in Asked, NEW q \in Asked, NEW d, RequestOK(x, d), NEW place, NEW row \in Row,
         Is(q, x, place, x.p, x.to, row, x.owns, x.todo, x.got),
         \/ x.pc = "row" /\ place = "may write" /\ <<row.owner, x.item>> \in d.owned
         \/ x.pc = "act" /\ x.op \in {"update", "enroll"} /\ place = "write"
  PROVE  RequestOK(q, d)
<1> USE DEF Is, LeasePlaces, JwtPlaces, InvitePlaces, Listing, OtherPlaces, Ended,
            ItemWrites, OwnerOps, HumanOps, OwnsTwice
<1>1. PlaceFits(q)
  BY DEF RequestOK, PlaceFits
<1>2. Entitled(q, d)
  <2>1. \A i : (Theirs2(q, d, i) <=> Theirs2(x, d, i)) /\ (Shown(q, d, i) <=> Shown(x, d, i))
    BY DEF Theirs2, Shown
  <2> QED BY <2>1 DEF RequestOK, Entitled, PlaceFits
<1>3. NothingIfRevoked(q)
  BY DEF RequestOK, NothingIfRevoked
<1> QED BY <1>1, <1>2, <1>3 DEF RequestOK

\* The one whom a grant, a session or an invite is for has been found.
LEMMA ToFits ==
  ASSUME NEW x \in Asked, NEW q \in Asked, NEW d, RequestOK(x, d), NEW place,
         NEW to \in Agent \cup Human,
         Is(q, x, place, x.p, to, x.row, x.owns, x.todo, x.got),
         \/ x.pc = "act" /\ x.op = "grant" /\ place = "put grant"
         \/ x.pc = "act" /\ x.op = "session" /\ to \in Agent /\ place = "put session"
         \/ x.pc = "kratos" /\ to \in Human /\ place = "code"
  PROVE  RequestOK(q, d)
<1> USE DEF Is, LeasePlaces, JwtPlaces, InvitePlaces, Listing, OtherPlaces, Ended,
            ItemWrites, OwnerOps, HumanOps, OwnsTwice
<1>1. PlaceFits(q)
  BY AccessAssumption DEF RequestOK, PlaceFits
<1>2. Entitled(q, d)
  <2>1. \A i : (Theirs2(q, d, i) <=> Theirs2(x, d, i)) /\ (Shown(q, d, i) <=> Shown(x, d, i))
    BY DEF Theirs2, Shown
  <2> QED BY <2>1 DEF RequestOK, Entitled, PlaceFits
<1>3. NothingIfRevoked(q)
  BY DEF RequestOK, NothingIfRevoked
<1> QED BY <1>1, <1>2, <1>3 DEF RequestOK

\* The list goes on, with items that were theirs or granted.
LEMMA ListFits ==
  ASSUME NEW x \in Asked, NEW q \in Asked, NEW d, RequestOK(x, d), NEW place, NEW todo, NEW got,
         Is(q, x, place, x.p, x.to, x.row, x.owns, todo, got), x.pc \in Listing,
         \A i \in got \cup todo : Shown(x, d, i),
         \/ place \in {"each", "secret", "done"}
         \/ place \in {"list owns", "all"} /\ x.p \in Human
         \/ place = "act" /\ x.op = "passkey"
  PROVE  RequestOK(q, d)
<1> USE DEF Is, LeasePlaces, JwtPlaces, InvitePlaces, Listing, OtherPlaces, Ended,
            ItemWrites, OwnerOps, HumanOps, OwnsTwice
<1>1. PlaceFits(q)
  BY DEF RequestOK, PlaceFits
<1>2. Entitled(q, d)
  <2>1. \A i : (Theirs2(q, d, i) <=> Theirs2(x, d, i)) /\ (Shown(q, d, i) <=> Shown(x, d, i))
    BY DEF Theirs2, Shown
  <2> QED BY <2>1 DEF RequestOK, Entitled, PlaceFits
<1>3. NothingIfRevoked(q)
  BY DEF RequestOK, NothingIfRevoked
<1> QED BY <1>1, <1>2, <1>3 DEF RequestOK

\* The request answers principal p, with items that were theirs or granted.
LEMMA AnswerFits ==
  ASSUME NEW x \in Asked, NEW q \in Asked, NEW d, RequestOK(x, d),
         NEW p \in Agent \cup Human, NEW got,
         Is(q, x, "done", p, x.to, x.row, x.owns, {}, got),
         x.pc \notin Ended, x.op # "invite",
         got # {} => p \notin x.revoked,
         \/ x.p = p /\ \A i \in got : Shown(x, d, i)
         \/ x.pc = "use session" /\ p \in Agent /\ \A i \in got : <<p, i>> \in d.grants
  PROVE  RequestOK(q, d)
<1> USE DEF Is, LeasePlaces, JwtPlaces, InvitePlaces, Listing, OtherPlaces, Ended,
            ItemWrites, OwnerOps, HumanOps, OwnsTwice
<1>1. PlaceFits(q)
  BY DEF RequestOK, PlaceFits
<1>2. CASE x.p = p /\ \A i \in got : Shown(x, d, i)
  <2>1. \A i : (Theirs2(q, d, i) <=> Theirs2(x, d, i)) /\ (Shown(q, d, i) <=> Shown(x, d, i))
    BY <1>2 DEF Theirs2, Shown
  <2>2. Entitled(q, d)
    BY <1>2, <2>1 DEF RequestOK, Entitled, PlaceFits
  <2> QED BY <2>2, <1>1 DEF RequestOK, NothingIfRevoked
<1>3. CASE x.pc = "use session" /\ p \in Agent /\ \A i \in got : <<p, i>> \in d.grants
  <2>1. x.tok.by = "lease" /\ ~ x.owns
    BY <1>3 DEF RequestOK, PlaceFits
  <2>2. \A i \in got : Shown(q, d, i)
    BY <1>3 DEF Shown
  <2>3. p \notin Human
    BY <1>3, AccessAssumption
  <2>4. Entitled(q, d)
    BY <1>3, <2>1, <2>2, <2>3 DEF Entitled
  <2> QED BY <2>4, <1>1 DEF RequestOK, NothingIfRevoked
<1> QED BY <1>2, <1>3

-----------------------------------------------------------------------------
(* The reads, one lemma for each part of the handlers.                     *)

LEMMA MoveKeeps ==
  ASSUME RequestInv, Observe, Quiet, NEW r \in Request, ~ Free(r),
         NEW place \in Places, place # "idle", Move(r, place),
         CanGoOn(req[r], during[r], place)
  PROVE  RequestInv'
<1>1. req[r] \in Asked /\ RequestOK(req[r], during[r]) /\ req \in [Request -> Asked]
  BY SeenNow DEF RequestInv
<1>2. Becomes(r, place, req[r].p, req[r].to, req[r].row, req[r].owns, req[r].todo, req[r].got)
  BY <1>1, Replaced
<1>3. \A q \in Asked :
        Is(q, req[r], place, req[r].p, req[r].to, req[r].row, req[r].owns, req[r].todo, req[r].got)
          => RequestOK(q, during[r])
  BY <1>1, GoesOn
<1> QED BY <1>2, <1>3, ReadKeeps

LEMMA RefuseKeeps ==
  ASSUME RequestInv, Observe, Quiet, NEW r \in Request, ~ Free(r), Refuse(r)
  PROVE  RequestInv'
BY RequestReads

LEMMA ActForKeeps ==
  ASSUME RequestInv, Observe, Quiet, NEW r \in Request, NEW p \in Agent \cup Human,
         req[r].pc \in LeasePlaces \cup JwtPlaces, ActFor(r, p),
         p \in Agent /\ req[r].tok.by = "jwt" =>
           <<req[r].tok.sub, [agent |-> p, aud |-> req[r].tok.aud]>> \in during[r].bound,
         p \in Human => p \in during[r].members
  PROVE  RequestInv'
<1>1. ~ Free(r) /\ req \in [Request -> Asked]
  BY DEF Free, LeasePlaces, JwtPlaces, RequestInv
<1>2. req[r] \in Asked /\ RequestOK(req[r], during[r])
  BY <1>1, SeenNow
<1>3. CASE FirstRead(p, req[r].op) = "refused"
  BY <1>1, <1>3, RefuseKeeps DEF ActFor
<1>4. CASE FirstRead(p, req[r].op) # "refused"
  <2> DEFINE place == FirstRead(p, req[r].op)
  <2>1. place \in Places /\ place # "idle"
    BY <1>4 DEF FirstRead, Places, Listing, OtherPlaces
  <2>2. req' = [req EXCEPT ![r].p = p, ![r].pc = place]
    BY <1>4 DEF ActFor
  <2> HIDE DEF place
  <2>3. Becomes(r, place, p, req[r].to, req[r].row, req[r].owns, req[r].todo, req[r].got)
    BY <1>1, <2>1, <2>2, Replaced
  <2>4. \A q \in Asked :
          Is(q, req[r], place, p, req[r].to, req[r].row, req[r].owns, req[r].todo, req[r].got)
            => RequestOK(q, during[r])
    BY <1>2, <1>4, FirstReadFits DEF place
  <2> QED BY <1>1, <2>1, <2>3, <2>4, ReadKeeps
<1> QED BY <1>3, <1>4

LEMMA PrincipalKeeps ==
  ASSUME RequestInv, Observe, NEW r \in Request,
         SessionRow(r) \/ SessionAgent(r) \/ Workloads(r) \/ Bound(r) \/ Member(r)
  PROVE  RequestInv'
<1>1. ~ Free(r) /\ Quiet /\ req[r].pc \in {"lease", "lease agent", "jwt", "workload", "human"}
  BY DEF SessionRow, SessionAgent, Workloads, Bound, Member, Free, At
<1>2. req[r] \in Asked /\ RequestOK(req[r], during[r])
  BY <1>1, SeenNow
<1>3. /\ req[r].pc \in {"lease", "lease agent"} => req[r].tok.by = "lease" /\ req[r].tok.agent \in Agent
      /\ req[r].pc \in {"jwt", "workload", "human"} =>
           req[r].tok.by = "jwt" /\ req[r].tok.sub \in Subject /\ req[r].tok.aud \in Audience
  BY <1>2, AccessAssumption DEF RequestOK, PlaceFits, LeasePlaces, JwtPlaces, Token
<1>4. {"lease agent", "workload", "human"} \subseteq Places
  BY DEF Places, LeasePlaces, JwtPlaces
<1>5. CASE SessionRow(r)
  BY <1>1, <1>4, <1>5, MoveKeeps, RefuseKeeps DEF SessionRow, At, CanGoOn
<1>6. CASE SessionAgent(r)
  <2>1. req[r].pc \in LeasePlaces /\ req[r].tok.agent \in Agent /\ req[r].tok.agent \notin Human
          /\ req[r].tok.by # "jwt"
    BY <1>3, <1>6, AccessAssumption DEF SessionAgent, At, LeasePlaces
  <2> QED BY <1>1, <1>6, <2>1, ActForKeeps, RefuseKeeps DEF SessionAgent
<1>7. CASE Workloads(r)
  BY <1>1, <1>4, <1>7, MoveKeeps DEF Workloads, At, CanGoOn
<1>8. CASE Bound(r)
  <2> DEFINE row == bound[req[r].tok.sub]
  <2>1. CASE row # None /\ row.aud = req[r].tok.aud
    <3>1. row \in [agent : Agent, aud : Audience]
      BY <1>3, <1>8, <2>1 DEF Bound, At, RequestInv, TablesOK
    <3>2. <<req[r].tok.sub, row>> \in during[r].bound
      BY <1>1, <1>3, <1>8, SeenNow DEF Bound, At
    <3>3. row = [agent |-> row.agent, aud |-> req[r].tok.aud] /\ row.agent \in Agent
            /\ row.agent \notin Human
      BY <2>1, <3>1, AccessAssumption
    <3>4. req[r].pc \in JwtPlaces /\ ActFor(r, row.agent)
      BY <1>8, <2>1 DEF Bound, At, JwtPlaces
    <3> QED BY <1>1, <3>2, <3>3, <3>4, ActForKeeps
  <2>2. CASE ~ (row # None /\ row.aud = req[r].tok.aud)
    BY <1>1, <1>4, <1>8, <2>2, MoveKeeps DEF Bound, At, CanGoOn
  <2> QED BY <2>1, <2>2
<1>9. CASE Member(r)
  <2>1. CASE req[r].tok.sub \in members
    <3>1. /\ req[r].tok.sub \in Human /\ req[r].tok.sub \notin Agent
          /\ req[r].tok.sub \in during[r].members /\ req[r].pc \in JwtPlaces
      BY <1>1, <1>9, <2>1, SeenNow, AccessAssumption DEF Member, At, JwtPlaces, RequestInv, TablesOK
    <3> QED BY <1>1, <1>9, <2>1, <3>1, ActForKeeps, RefuseKeeps DEF Member
  <2>2. CASE req[r].tok.sub \notin members
    BY <1>1, <1>9, <2>2, RefuseKeeps DEF Member
  <2> QED BY <2>1, <2>2
<1> QED BY <1>5, <1>6, <1>7, <1>8, <1>9

LEMMA CheckKeeps ==
  ASSUME RequestInv, Observe, NEW r \in Request,
         \/ Owns(r) \/ OwnsAgain(r) \/ ReadRow(r) \/ MayWrite(r) \/ ReadAgain(r) \/ Overview(r)
         \/ \E to \in Agent \cup Human : GrantCheck(r, to)
         \/ \E a \in Agent : SessionCheck(r, a)
  PROVE  RequestInv'
<1> DEFINE x == req[r]
           d == during[r]
<1>1. /\ ~ Free(r) /\ Quiet /\ req \in [Request -> Asked] /\ x \in Asked
      /\ x.pc \in {"owns", "owns again", "row", "may write", "act"}
  BY DEF Owns, OwnsAgain, ReadRow, MayWrite, ReadAgain, Overview, GrantCheck, SessionCheck, Free, At,
         RequestInv
<1>2. RequestOK(x, d)
  BY <1>1, SeenNow
<1>3. /\ x.op # "invite" /\ x.item \in Item
      /\ x.pc = "may write" \/ (x.pc = "act" /\ x.op \in ItemWrites) => x.row \in Row
  BY <1>1, <1>2 DEF RequestOK, PlaceFits, InvitePlaces, Ended
<1>4. {"owns again", "act", "may write", "write", "put grant", "put session", "done"} \subseteq Places
  BY DEF Places, OtherPlaces, Ended
<1>5. owners \subseteq d.owners /\ \A i \in Item : items[i] # None => <<items[i].owner, i>> \in d.owned
  BY <1>1, SeenNow
<1>6. CASE Owns(r)
  <2> DEFINE owns == x.p \in owners
             place == IF x.op \in OwnsTwice THEN "owns again" ELSE "act"
  <2>1. CASE owns \/ x.op = "create"
    <3>1. req' = [req EXCEPT ![r].owns = owns, ![r].pc = place]
      BY <1>6, <2>1 DEF Owns
    <3>2. place \in Places /\ place # "idle" /\ owns \in BOOLEAN /\ x.pc = "owns"
            /\ (owns => x.p \in d.owners)
      <4>1. place \in Places /\ place # "idle"
        BY <1>4
      <4>2. owns \in BOOLEAN
        OBVIOUS
      <4>3. x.pc = "owns"
        BY <1>6 DEF Owns, At
      <4>4. owns => x.p \in d.owners
        BY <1>5
      <4> QED BY <4>1, <4>2, <4>3, <4>4
    <3>3. Becomes(r, place, x.p, x.to, x.row, owns, x.todo, x.got)
      <4> HIDE DEF owns, place
      <4> QED BY <1>1, <3>1, <3>2, Replaced
    <3>4. \A q \in Asked : Is(q, x, place, x.p, x.to, x.row, owns, x.todo, x.got) => RequestOK(q, d)
      <4>1. place = IF x.op \in OwnsTwice THEN "owns again" ELSE "act"
        OBVIOUS
      <4> HIDE DEF owns, place
      <4> QED BY <1>1, <1>2, <2>1, <3>2, <4>1, OwnsFits
    <3> HIDE DEF owns, place
    <3> QED BY <1>1, <3>2, <3>3, <3>4, ReadKeeps
  <2>2. CASE ~ (owns \/ x.op = "create")
    BY <1>1, <1>6, <2>2, RefuseKeeps DEF Owns
  <2> QED BY <2>1, <2>2
<1>7. CASE OwnsAgain(r)
  BY <1>1, <1>4, <1>7, MoveKeeps, RefuseKeeps DEF OwnsAgain, At, CanGoOn
<1>8. CASE ReadRow(r)
  <2> DEFINE row == items[x.item]
  <2>1. CASE row # None
    <3>1. req' = [req EXCEPT ![r].row = row, ![r].pc = "may write"]
      BY <1>8, <2>1 DEF ReadRow
    <3>2. row \in Row /\ <<row.owner, x.item>> \in d.owned /\ x.pc = "row"
      BY <1>3, <1>5, <1>8, <2>1 DEF ReadRow, At, RequestInv, TablesOK
    <3> HIDE DEF row
    <3>3. Becomes(r, "may write", x.p, x.to, row, x.owns, x.todo, x.got)
      BY <1>1, <1>4, <3>1, <3>2, Replaced
    <3>4. \A q \in Asked : Is(q, x, "may write", x.p, x.to, row, x.owns, x.todo, x.got)
                             => RequestOK(q, d)
      BY <1>1, <1>2, <3>2, RowFits
    <3> QED BY <1>1, <3>3, <3>4, ReadKeeps
  <2>2. CASE row = None
    BY <1>1, <1>8, <2>2, RefuseKeeps DEF ReadRow
  <2> QED BY <2>1, <2>2
<1>9. CASE MayWrite(r)
  <2>1. CASE x.row.owner = x.p \/ (x.row.owner = "org" /\ x.p \in owners)
    <3>1. <<x.row.owner, x.item>> \in d.owned /\ x.pc = "may write"
      BY <1>2, <1>9 DEF MayWrite, At, RequestOK, Entitled
    <3>2. Theirs2(x, d, x.item)
      BY <1>5, <2>1, <3>1 DEF Theirs2
    <3> QED BY <1>1, <1>4, <1>9, <2>1, <3>1, <3>2, MoveKeeps DEF MayWrite, CanGoOn
  <2>2. CASE ~ (x.row.owner = x.p \/ (x.row.owner = "org" /\ x.p \in owners))
    BY <1>1, <1>9, <2>2, RefuseKeeps DEF MayWrite
  <2> QED BY <2>1, <2>2
<1>10. CASE ReadAgain(r)
  <2> DEFINE row == IF x.op = "update" THEN items[x.item] ELSE x.row
  <2>1. CASE items[x.item] # None
    <3>1. req' = [req EXCEPT ![r].row = row, ![r].pc = "write"]
      BY <1>1, <1>10, <2>1 DEF ReadAgain
    <3>2. row \in Row /\ x.pc = "act" /\ x.op \in {"update", "enroll"}
      BY <1>3, <1>10, <2>1 DEF ReadAgain, At, RequestInv, TablesOK, ItemWrites
    <3> HIDE DEF row
    <3>3. Becomes(r, "write", x.p, x.to, row, x.owns, x.todo, x.got)
      BY <1>1, <1>4, <3>1, <3>2, Replaced
    <3>4. \A q \in Asked : Is(q, x, "write", x.p, x.to, row, x.owns, x.todo, x.got)
                             => RequestOK(q, d)
      BY <1>1, <1>2, <3>2, RowFits
    <3> QED BY <1>1, <3>3, <3>4, ReadKeeps
  <2>2. CASE items[x.item] = None
    BY <1>1, <1>10, <2>2, RefuseKeeps DEF ReadAgain
  <2> QED BY <2>1, <2>2
<1>11. CASE Overview(r)
  BY <1>1, <1>4, <1>11, MoveKeeps DEF Overview, At, CanGoOn
<1>12. ASSUME NEW to \in Agent \cup Human, GrantCheck(r, to) PROVE RequestInv'
  <2>1. CASE Refuse(r)
    BY <1>1, <2>1, RefuseKeeps
  <2>2. CASE req' = [req EXCEPT ![r].to = to, ![r].pc = "put grant"]
    <3>1. Becomes(r, "put grant", x.p, to, x.row, x.owns, x.todo, x.got)
      BY <1>1, <1>4, <2>2, Replaced
    <3>2. \A q \in Asked : Is(q, x, "put grant", x.p, to, x.row, x.owns, x.todo, x.got)
                             => RequestOK(q, d)
      BY <1>1, <1>2, <1>12, ToFits DEF GrantCheck, At
    <3> QED BY <1>1, <3>1, <3>2, ReadKeeps
  <2> QED BY <1>12, <2>1, <2>2 DEF GrantCheck
<1>13. ASSUME NEW a \in Agent, SessionCheck(r, a) PROVE RequestInv'
  <2>1. CASE Refuse(r)
    BY <1>1, <2>1, RefuseKeeps
  <2>2. CASE req' = [req EXCEPT ![r].to = a, ![r].pc = "put session"]
    <3>1. Becomes(r, "put session", x.p, a, x.row, x.owns, x.todo, x.got)
      BY <1>1, <1>4, <2>2, Replaced
    <3>2. \A q \in Asked : Is(q, x, "put session", x.p, a, x.row, x.owns, x.todo, x.got)
                             => RequestOK(q, d)
      BY <1>1, <1>2, <1>13, ToFits DEF SessionCheck, At
    <3> QED BY <1>1, <3>1, <3>2, ReadKeeps
  <2> QED BY <1>13, <2>1, <2>2 DEF SessionCheck
<1> QED BY <1>6, <1>7, <1>8, <1>9, <1>10, <1>11, <1>12, <1>13

LEMMA InviteReadKeeps ==
  ASSUME RequestInv, Observe, NEW r \in Request,
         RequireOwner(r) \/ Allowed(r) \/ RecoveryCode(r) \/ HasOwners(r) \/ StopInvite(r)
  PROVE  RequestInv'
<1>1. ~ Free(r) /\ Quiet
  BY DEF RequireOwner, Allowed, RecoveryCode, HasOwners, StopInvite, Free, At
<1>2. {"kratos", "allowed", "member", "owner", "done"} \subseteq Places
  BY DEF Places, InvitePlaces, Ended
<1>3. CASE RequireOwner(r)
  BY <1>1, <1>2, <1>3, MoveKeeps DEF RequireOwner, At, CanGoOn
<1>4. CASE Allowed(r)
  BY <1>1, <1>2, <1>4, MoveKeeps, RefuseKeeps DEF Allowed, At, CanGoOn
<1>5. CASE RecoveryCode(r)
  BY <1>1, <1>2, <1>5, MoveKeeps, RefuseKeeps DEF RecoveryCode, At, CanGoOn
<1>6. CASE HasOwners(r)
  <2>1. owners = {} => TRUE \in during[r].ownerless
    BY <1>1, SeenNow
  <2> QED BY <1>1, <1>2, <1>6, <2>1, MoveKeeps DEF HasOwners, At, CanGoOn
<1>7. CASE StopInvite(r)
  BY <1>1, <1>7, RefuseKeeps DEF StopInvite
<1> QED BY <1>3, <1>4, <1>5, <1>6, <1>7

LEMMA OpenKeeps ==
  ASSUME RequestInv, Observe, Quiet, NEW r \in Request, ~ Free(r),
         NEW opened \in SUBSET Item, Open(r, opened),
         req[r].p \in Agent \cup Human, req[r].op # "invite",
         opened # {} => req[r].p \notin req[r].revoked,
         \A i \in opened : Shown(req[r], during[r], i)
  PROVE  RequestInv'
<1> DEFINE x == req[r]
<1>1. /\ req \in [Request -> Asked] /\ x \in Asked /\ RequestOK(x, during[r])
      /\ x.pc \notin Ended /\ "done" \in Places
  BY SeenNow DEF RequestInv, Places, Ended
<1>2. Becomes(r, "done", x.p, x.to, x.row, x.owns, {}, opened)
  BY <1>1, Replaced DEF Open
<1>3. \A q \in Asked : Is(q, x, "done", x.p, x.to, x.row, x.owns, {}, opened)
                         => RequestOK(q, during[r])
  BY <1>1, AnswerFits
<1> QED BY <1>2, <1>3, ReadKeeps

\* Those who are at a list, and what their lists hold.
LEMMA AtList ==
  ASSUME RequestInv, NEW r \in Request, req[r].pc \in Listing
  PROVE  /\ ~ Free(r) /\ req \in [Request -> Asked] /\ req[r] \in Asked
         /\ RequestOK(req[r], during[r])
         /\ req[r].op # "invite" /\ req[r].item \in Item /\ req[r].p \notin req[r].revoked
         /\ req[r].pc \in {"list owns", "all"} => req[r].p \in Human
         /\ req[r].got \subseteq Item /\ req[r].todo \subseteq Item
         /\ \A i \in req[r].got \cup req[r].todo : Shown(req[r], during[r], i)
<1>1. ~ Free(r)
  BY DEF Free, Listing
<1>2. req[r] \in Asked /\ RequestOK(req[r], during[r]) /\ req \in [Request -> Asked]
  BY <1>1, SeenNow DEF RequestInv
<1>3. req[r].got \subseteq Item /\ req[r].todo \subseteq Item
  BY <1>2 DEF Asked
<1>4. /\ req[r].op # "invite" /\ req[r].item \in Item
      /\ req[r].pc \in {"list owns", "all"} => req[r].p \in Human
  BY <1>2 DEF RequestOK, PlaceFits, Listing, InvitePlaces, Ended
<1>5. req[r].p \notin req[r].revoked
  BY <1>2 DEF RequestOK, NothingIfRevoked
<1> QED BY <1>1, <1>2, <1>3, <1>4, <1>5 DEF RequestOK, Entitled

LEMMA ListKeeps ==
  ASSUME RequestInv, Observe, NEW r \in Request,
         \/ ListAgent(r) \/ Granted(r) \/ ListOwns(r) \/ All(r)
         \/ \E i \in Item : Each(r, i)
  PROVE  RequestInv'
<1> DEFINE x == req[r]
           d == during[r]
<1>1. Quiet /\ req \in [Request -> Asked] /\ ~ Free(r)
  BY DEF ListAgent, Granted, ListOwns, All, Each, At, Free, RequestInv
<1>2. x \in Asked /\ RequestOK(x, d)
  BY <1>1, SeenNow
<1>3. {"done", "granted", "each", "list owns", "all", "act", "secret"} \subseteq Places
  BY DEF Places, Listing, OtherPlaces, Ended
<1>4. \A todo : /\ AfterGrants(r, todo) \in {"each", "list owns", "done"}
                /\ AfterGrants(r, todo) = "list owns" => x.p \in Human
  BY DEF AfterGrants
<1>5. CASE ListAgent(r)
  <2>1. x.pc = "list agent" /\ (agents[x.p] # "revoked" => x.p \notin x.revoked)
    BY <1>5 DEF ListAgent, At, RequestInv, RequestsOK
  <2> QED BY <1>1, <1>3, <1>5, <2>1, MoveKeeps DEF ListAgent, CanGoOn
<1>6. CASE Granted(r)
  <2> DEFINE todo == {i \in Item : <<x.p, i>> \in grants}
             place == AfterGrants(r, todo)
  <2>1. req' = [req EXCEPT ![r].todo = todo, ![r].pc = place] /\ x.pc \in Listing
    BY <1>6 DEF Granted, At, Listing
  <2>2. todo \in SUBSET Item /\ \A i \in todo : Shown(x, d, i)
    BY <1>1, SeenNow DEF Shown
  <2>3. /\ place \in {"each", "list owns", "done"} /\ (place = "list owns" => x.p \in Human)
    BY <1>4
  <2>4. \A i \in x.got \cup todo : Shown(x, d, i)
    BY <2>1, <2>2, AtList
  <2> HIDE DEF todo, place
  <2>5. Becomes(r, place, x.p, x.to, x.row, x.owns, todo, x.got)
    BY <1>1, <1>3, <2>1, <2>2, <2>3, Replaced
  <2>6. \A q \in Asked : Is(q, x, place, x.p, x.to, x.row, x.owns, todo, x.got) => RequestOK(q, d)
    BY <1>2, <2>1, <2>3, <2>4, ListFits
  <2> QED BY <1>1, <2>3, <2>5, <2>6, ReadKeeps
<1>7. CASE ListOwns(r)
  <2> DEFINE owns == x.p \in owners
  <2>1. req' = [req EXCEPT ![r].owns = owns, ![r].pc = "all"] /\ x.pc = "list owns"
    BY <1>7 DEF ListOwns, At
  <2>2. owns \in BOOLEAN
    OBVIOUS
  <2>3. owns => x.p \in d.owners
    BY <1>1, SeenNow
  <2> HIDE DEF owns
  <2>4. Becomes(r, "all", x.p, x.to, x.row, owns, x.todo, x.got)
    BY <1>1, <1>3, <2>1, <2>2, Replaced
  <2>5. \A q \in Asked : Is(q, x, "all", x.p, x.to, x.row, owns, x.todo, x.got) => RequestOK(q, d)
    BY <1>2, <2>1, <2>2, <2>3, OwnsFits
  <2> QED BY <1>1, <2>4, <2>5, ReadKeeps
<1>8. CASE All(r)
  <2> DEFINE theirs == Theirs(r)
             todo == IF x.op = "fill"
                     THEN (x.got \ theirs) \cup {i \in theirs : ~ items[i].archived} ELSE {}
             got == x.got \cup theirs
             place == CASE x.op = "passkey" -> "act"
                        [] x.op = "fill"    -> "secret"
                        [] OTHER            -> "done"
  <2>1. req' = [req EXCEPT ![r].got = got, ![r].todo = todo, ![r].pc = place] /\ x.pc = "all"
    BY <1>8 DEF All, At
  <2>2. theirs \subseteq Item /\ \A i \in theirs : Shown(x, d, i)
    <3>1. \A i \in theirs : <<items[i].owner, i>> \in d.owned /\ i \in Item
      BY <1>1, SeenNow DEF Theirs, Stored
    <3>2. x.owns => x.p \in d.owners
      BY <1>2 DEF RequestOK, Entitled
    <3>3. \A i \in theirs : items[i].owner = x.p \/ (x.owns /\ items[i].owner = "org")
      BY DEF Theirs
    <3> QED BY <3>1, <3>2, <3>3 DEF Shown, Theirs2
  <2>3. \A i \in x.got \cup x.todo : i \in Item /\ Shown(x, d, i)
    BY <2>1, AtList DEF Listing
  <2> HIDE DEF theirs
  <2>4. /\ todo \in SUBSET Item /\ got \in SUBSET Item
        /\ \A i \in got \cup todo : Shown(x, d, i)
    BY <2>2, <2>3
  <2>5. place \in {"secret", "done"} \/ (place = "act" /\ x.op = "passkey")
    OBVIOUS
  <2> HIDE DEF todo, got, place
  <2>6. Becomes(r, place, x.p, x.to, x.row, x.owns, todo, got)
    BY <1>1, <1>3, <2>1, <2>4, <2>5, Replaced
  <2>7. \A q \in Asked : Is(q, x, place, x.p, x.to, x.row, x.owns, todo, got) => RequestOK(q, d)
    BY <1>2, <2>1, <2>4, <2>5, ListFits DEF Listing
  <2> QED BY <1>1, <2>5, <2>6, <2>7, ReadKeeps
<1>9. ASSUME NEW i \in Item, Each(r, i) PROVE RequestInv'
  <2> DEFINE todo == x.todo \ {i}
             got == IF items[i].archived THEN x.got ELSE x.got \cup {i}
             place == AfterGrants(r, todo)
  <2>1. CASE items[i] = None
    BY <1>1, <1>9, <2>1, RefuseKeeps DEF Each
  <2>2. CASE items[i] # None
    <3>1. req' = [req EXCEPT ![r].got = got, ![r].todo = todo, ![r].pc = place]
      <4>1. req' = [req EXCEPT ![r].todo = @ \ {i},
                               ![r].got = IF items[i].archived THEN @ ELSE @ \cup {i},
                               ![r].pc = place]
        BY <1>9, <2>2 DEF Each
      <4>2. x = [pc |-> x.pc, op |-> x.op, tok |-> x.tok, item |-> x.item, p |-> x.p, to |-> x.to,
                 row |-> x.row, owns |-> x.owns, todo |-> x.todo, got |-> x.got,
                 revoked |-> x.revoked]
        BY <1>2 DEF Asked
      <4> HIDE DEF place
      <4> QED BY <1>1, <4>1, <4>2
    <3>2. x.pc \in Listing /\ i \in x.todo
      BY <1>9 DEF Each, At, Listing
    <3>3. /\ todo \in SUBSET Item /\ got \in SUBSET Item
          /\ \A j \in got \cup todo : Shown(x, d, j)
      BY <3>2, AtList
    <3>4. place \in {"each", "list owns", "done"} /\ (place = "list owns" => x.p \in Human)
      BY <1>4
    <3> HIDE DEF todo, got, place
    <3>5. Becomes(r, place, x.p, x.to, x.row, x.owns, todo, got)
      BY <1>1, <1>3, <3>1, <3>3, <3>4, Replaced
    <3>6. \A q \in Asked : Is(q, x, place, x.p, x.to, x.row, x.owns, todo, got) => RequestOK(q, d)
      BY <1>2, <3>2, <3>3, <3>4, ListFits
    <3> QED BY <1>1, <3>4, <3>5, <3>6, ReadKeeps
  <2> QED BY <2>1, <2>2
<1> QED BY <1>5, <1>6, <1>7, <1>8, <1>9

LEMMA AnswerKeeps ==
  ASSUME RequestInv, Observe, NEW r \in Request,
         FillOne(r) \/ FillLogins(r) \/ FillSync(r) \/ Use(r) \/ UseSession(r) \/ PasskeyGet(r)
  PROVE  RequestInv'
<1> DEFINE x == req[r]
           d == during[r]
<1>1. Quiet /\ req \in [Request -> Asked] /\ ~ Free(r)
  BY DEF FillOne, FillLogins, FillSync, Use, UseSession, PasskeyGet, At, Free, RequestInv
<1>2. x \in Asked /\ RequestOK(x, d)
  BY <1>1, SeenNow
<1>3. \A p : p \in x.revoked => agents[p] = "revoked"
  BY DEF RequestInv, RequestsOK
<1>4. ASSUME x.pc = "secret", NEW opened \in SUBSET (x.got \cup x.todo), Open(r, opened)
      PROVE  RequestInv'
  <2>1. x.pc \in Listing
    BY <1>4 DEF Listing
  <2>2. opened \in SUBSET Item /\ \A i \in opened \cup {} : Shown(x, d, i)
    BY <2>1, AtList
  <2>3. Becomes(r, "done", x.p, x.to, x.row, x.owns, {}, opened)
    BY <1>1, <1>4, <2>2, Replaced DEF Open, Places, Ended
  <2>4. \A q \in Asked : Is(q, x, "done", x.p, x.to, x.row, x.owns, {}, opened) => RequestOK(q, d)
    BY <1>2, <2>1, <2>2, ListFits
  <2> QED BY <1>1, <2>3, <2>4, ReadKeeps
<1>5. CASE FillOne(r)
  BY <1>1, <1>4, <1>5, RefuseKeeps DEF FillOne, At
<1>6. CASE FillLogins(r)
  BY <1>4, <1>6 DEF FillLogins, At
<1>7. CASE FillSync(r)
  BY <1>1, <1>4, <1>7, RefuseKeeps DEF FillSync, At
<1>8. CASE Use(r)
  <2>1. x.p \in Agent /\ x.op # "invite" /\ x.item \in Item
    BY <1>2, <1>8 DEF Use, At, RequestOK, PlaceFits, InvitePlaces, Ended
  <2>2. CASE MayUse(x.p, x.item)
    <3>1. Open(r, {x.item}) /\ x.p \notin x.revoked
      BY <1>3, <1>8, <2>2 DEF Use, MayUse
    <3>2. Shown(x, d, x.item)
      BY <1>1, <2>2, SeenNow DEF MayUse, Shown
    <3> QED BY <1>1, <2>1, <3>1, <3>2, OpenKeeps
  <2>3. CASE ~ MayUse(x.p, x.item)
    BY <1>1, <1>8, <2>3, RefuseKeeps DEF Use
  <2> QED BY <2>2, <2>3
<1>9. CASE UseSession(r)
  <2> DEFINE p == x.tok.agent
             got == {x.item}
  <2>1. /\ x.pc = "use session" /\ p \in Agent /\ x.op # "invite" /\ x.item \in Item /\ x.todo = {}
        /\ "done" \in Places
    BY <1>2, <1>9 DEF UseSession, At, RequestOK, PlaceFits, LeasePlaces, InvitePlaces, Ended, Token,
                      Places
  <2>2. CASE MayUse(p, x.item) /\ ~ Refuse(r)
    <3>1. req' = [req EXCEPT ![r].p = p, ![r].got = got, ![r].pc = "done"]
      BY <1>9, <2>2 DEF UseSession
    <3>2. p \notin x.revoked /\ \A i \in got : <<p, i>> \in d.grants
      BY <1>1, <1>3, <2>2, SeenNow DEF MayUse
    <3>3. got \in SUBSET Item /\ p \in Agent \cup Human
      BY <2>1
    <3> HIDE DEF p, got
    <3>4. Becomes(r, "done", p, x.to, x.row, x.owns, x.todo, got)
      BY <1>1, <2>1, <3>1, <3>3, Replaced
    <3>5. \A q \in Asked : Is(q, x, "done", p, x.to, x.row, x.owns, x.todo, got)
                             => RequestOK(q, d)
      BY <1>2, <2>1, <3>2, <3>3, AnswerFits DEF Ended
    <3> QED BY <1>1, <3>4, <3>5, ReadKeeps
  <2>3. CASE Refuse(r)
    BY <1>1, <2>3, RefuseKeeps
  <2> QED BY <1>9, <2>2, <2>3 DEF UseSession
<1>10. CASE PasskeyGet(r)
  <2>1. /\ x.op = "passkey" /\ x.pc = "act" /\ x.p \in Human /\ x.got \subseteq Item
        /\ \A i \in x.got : Shown(x, d, i)
    BY <1>2, <1>10 DEF PasskeyGet, At, RequestOK, PlaceFits, Entitled, HumanOps, OtherPlaces, Asked
  <2>2. x.p \notin x.revoked
    BY <1>2, <2>1, AccessAssumption DEF Asked
  <2> QED BY <1>1, <1>10, <2>1, <2>2, OpenKeeps DEF PasskeyGet
<1> QED BY <1>5, <1>6, <1>7, <1>8, <1>9, <1>10

-----------------------------------------------------------------------------
(* Requests that begin, and the steps that write.                          *)

LEMMA StartCounts ==
  ASSUME TablesOK, Start PROVE starts' \in 0 .. MaxStarts
BY AccessAssumption DEF TablesOK, Start

LEMMA ArriveKeeps ==
  ASSUME RequestInv, Observe, NEW r \in Request, NEW tok \in Token, NEW op \in Ops \ {"invite"},
         NEW i \in Item, Arrive(r, tok, op, i)
  PROVE  RequestInv'
<1>1. PICK place \in Entry(tok, op) :
        req' = [req EXCEPT ![r] = [Fresh EXCEPT !.pc = place, !.op = op, !.tok = tok, !.item = i,
                                                !.revoked = {a \in Agent : agents[a] = "revoked"}]]
  BY DEF Arrive
<1> DEFINE q == [Fresh EXCEPT !.pc = place, !.op = op, !.tok = tok, !.item = i,
                              !.revoked = {a \in Agent : agents[a] = "revoked"}]
<1>2. /\ q.pc = place /\ q.op = op /\ q.tok = tok /\ q.item = i
      /\ q.p = None /\ q.got = {} /\ q.todo = {} /\ q.owns = FALSE
      /\ q.revoked = {a \in Agent : agents[a] = "revoked"}
  BY DEF Fresh
<1>3. /\ place \in LeasePlaces => tok.by = "lease"
      /\ place \in JwtPlaces => tok.by = "jwt"
      /\ place \in LeasePlaces \cup JwtPlaces
  BY DEF Entry, Token, LeasePlaces, JwtPlaces
<1>4. q \in Asked
  BY <1>3 DEF Asked, Fresh, Places
<1>5. req' = [req EXCEPT ![r] = q]
  BY <1>1
<1>6. None \notin Agent \cup Human
  BY AccessAssumption
<1> HIDE DEF q
<1>7. q.pc \notin Ended /\ q.pc \notin Listing /\ q.pc \notin OtherPlaces /\ q.pc \notin InvitePlaces
  BY <1>2, <1>3 DEF LeasePlaces, JwtPlaces, Ended, Listing, OtherPlaces, InvitePlaces
<1>8. PlaceFits(q)
  BY <1>2, <1>3, <1>7
     DEF PlaceFits, LeasePlaces, JwtPlaces, Ended, Listing, OtherPlaces, InvitePlaces
<1>9. \A d : Entitled(q, d)
  BY <1>2, <1>3, <1>6 DEF Entitled, LeasePlaces, JwtPlaces
<1>10. NothingIfRevoked(q)
  BY <1>2, <1>7 DEF NothingIfRevoked
<1>11. TablesOK' /\ agents' = agents
  BY StartCounts DEF Arrive, RequestInv, TablesOK, tables, membership
<1>12. \A d : RequestOK(q, d)
  BY <1>8, <1>9, <1>10 DEF RequestOK
<1>13. /\ q.revoked \subseteq {a \in Agent : agents[a] = "revoked"}
       /\ \A a \in Agent : agents[a] = "revoked" => agents'[a] = "revoked"
  BY <1>2, <1>11
<1> QED BY <1>4, <1>5, <1>7, <1>11, <1>12, <1>13, RequestMoves

LEMMA InviteKeeps ==
  ASSUME RequestInv, Observe, NEW r \in Request, NEW actor \in Human \cup {None}, Invite(r, actor)
  PROVE  RequestInv'
<1> DEFINE q == [Fresh EXCEPT !.pc = "require owner", !.op = "invite", !.p = actor]
<1>1. /\ q.pc = "require owner" /\ q.op = "invite" /\ q.p = actor
      /\ q.got = {} /\ q.todo = {} /\ q.owns = FALSE /\ q.revoked = {}
  BY DEF Fresh
<1>2. q \in Asked
  BY DEF Asked, Fresh, Places, InvitePlaces
<1>3. req' = [req EXCEPT ![r] = q]
  BY DEF Invite
<1>4. actor \notin Agent
  BY AccessAssumption
<1> HIDE DEF q
<1>5. q.pc \notin Ended
  BY <1>1 DEF Ended
<1>6. PlaceFits(q)
  BY <1>1 DEF PlaceFits, LeasePlaces, JwtPlaces, Ended, Listing, OtherPlaces, InvitePlaces
<1>7. \A d : Entitled(q, d)
  BY <1>1, <1>4 DEF Entitled, ItemWrites, OwnerOps
<1>8. NothingIfRevoked(q)
  BY <1>1 DEF NothingIfRevoked, Listing
<1>9. TablesOK' /\ agents' = agents
  BY StartCounts DEF Invite, RequestInv, TablesOK, tables, membership
<1>10. \A d : RequestOK(q, d)
  BY <1>6, <1>7, <1>8 DEF RequestOK
<1>11. /\ q.revoked \subseteq {a \in Agent : agents[a] = "revoked"}
       /\ \A a \in Agent : agents[a] = "revoked" => agents'[a] = "revoked"
  BY <1>1, <1>9
<1> QED BY <1>2, <1>3, <1>5, <1>9, <1>10, <1>11, RequestMoves

\* A write after which the request goes on, ends or is refused.
LEMMA WriteKeeps ==
  ASSUME RequestInv, Observe, NEW r \in Request, ~ Free(r), TablesOK',
         \A a \in Agent : agents[a] = "revoked" => agents'[a] = "revoked",
         \/ Refuse(r)
         \/ \E place \in Places \ {"idle"} : Move(r, place) /\ CanGoOn(req[r], during[r], place)
  PROVE  RequestInv'
<1>1. req[r] \in Asked /\ RequestOK(req[r], during[r]) /\ req \in [Request -> Asked]
  BY SeenNow DEF RequestInv
<1>2. CASE Refuse(r)
  <2>1. req' = [req EXCEPT ![r] = Refused]
    BY <1>2 DEF Refuse, Refused
  <2> QED BY <2>1, RefusedOK, RequestMoves
<1>3. ASSUME NEW place \in Places \ {"idle"}, Move(r, place), CanGoOn(req[r], during[r], place)
      PROVE  RequestInv'
  <2>1. PICK q \in Asked :
          /\ req' = [req EXCEPT ![r] = q]
          /\ Is(q, req[r], place, req[r].p, req[r].to, req[r].row, req[r].owns, req[r].todo, req[r].got)
    BY <1>1, <1>3, Replaced DEF Becomes
  <2>2. RequestOK(q, during[r])
    BY <1>1, <1>3, <2>1, GoesOn
  <2>3. q.pc # "idle" /\ q.revoked \subseteq {a \in Agent : agents[a] = "revoked"}
    BY <1>3, <2>1 DEF Is, RequestInv, RequestsOK
  <2> QED BY <2>1, <2>2, <2>3, RequestMoves
<1> QED BY <1>2, <1>3

\* The tables keep their types when one entry is replaced.
LEMMA OneEntry ==
  ASSUME RequestInv
  PROVE  /\ \A i \in Item, row \in Row \cup {None} :
              [items EXCEPT ![i] = row] \in [Item -> Row \cup {None}]
         /\ \A a \in Agent, state \in {"live", "revoked"} :
              [agents EXCEPT ![a] = state] \in [Agent -> {"absent", "live", "revoked"}]
         /\ \A a \in Agent, state \in {"live", "ended"} :
              [lease EXCEPT ![a] = state] \in [Agent -> {"none", "live", "ended"}]
         /\ \A i, owner, archived : PutItem(i, owner, archived) /\ i \in Item
              /\ owner \in Human \cup {"org"} /\ archived \in BOOLEAN
                => items' \in [Item -> Row \cup {None}]
         /\ \A i \in Item : ArchiveRow(i) => items' \in [Item -> Row \cup {None}]
<1>1. /\ items \in [Item -> Row \cup {None}] /\ agents \in [Agent -> {"absent", "live", "revoked"}]
      /\ lease \in [Agent -> {"none", "live", "ended"}]
  BY DEF RequestInv, TablesOK
<1>2. ASSUME NEW i, NEW owner, NEW archived, PutItem(i, owner, archived), i \in Item,
             owner \in Human \cup {"org"}, archived \in BOOLEAN
      PROVE  items' \in [Item -> Row \cup {None}]
  <2>1. [owner |-> owner, archived |-> archived] \in Row
    BY <1>2 DEF Row
  <2> QED BY <1>1, <1>2, <2>1 DEF PutItem
<1>3. ASSUME NEW i \in Item, ArchiveRow(i) PROVE items' \in [Item -> Row \cup {None}]
  <2>1. [items[i] EXCEPT !.archived = TRUE] \in Row
    BY <1>1, <1>3 DEF ArchiveRow, Row
  <2>2. items' = [items EXCEPT ![i] = [items[i] EXCEPT !.archived = TRUE]]
    BY <1>3 DEF ArchiveRow
  <2> QED BY <1>1, <2>1, <2>2
<1>4. /\ \A i \in Item, row \in Row \cup {None} :
              [items EXCEPT ![i] = row] \in [Item -> Row \cup {None}]
      /\ \A a \in Agent, state \in {"live", "revoked"} :
              [agents EXCEPT ![a] = state] \in [Agent -> {"absent", "live", "revoked"}]
      /\ \A a \in Agent, state \in {"live", "ended"} :
              [lease EXCEPT ![a] = state] \in [Agent -> {"none", "live", "ended"}]
  BY <1>1
<1> QED BY <1>2, <1>3, <1>4

LEMMA PutRowKeeps ==
  ASSUME RequestInv, Observe, NEW r \in Request, ~ Free(r), req[r].item \in Item,
         NEW owner \in Human \cup {"org"}, NEW archived \in BOOLEAN, PutRow(r, owner, archived)
  PROVE  RequestInv'
<1>1. items' \in [Item -> Row \cup {None}]
  <2>1. CASE PutItem(req[r].item, owner, archived)
    BY <2>1, OneEntry
  <2>2. CASE UNCHANGED items
    BY <2>2 DEF RequestInv, TablesOK
  <2> QED BY <2>1, <2>2 DEF PutRow
<1>2. TablesOK' /\ agents' = agents
  BY <1>1 DEF PutRow, Keep, membership, RequestInv, TablesOK
<1>3. Refuse(r) \/ (Move(r, "done") /\ "done" \in Places \ {"idle"}
                      /\ CanGoOn(req[r], during[r], "done"))
  BY DEF PutRow, CanGoOn, Free, Places, Ended
<1> QED BY <1>2, <1>3, WriteKeeps

LEMMA ItemWriteKeeps ==
  ASSUME RequestInv, Observe, NEW r \in Request,
         \/ CreateItem(r) \/ ImportItem(r) \/ PasskeyRegister(r) \/ WriteBack(r) \/ Archive(r)
         \/ DeleteGrants(r) \/ DeleteRow(r)
  PROVE  RequestInv'
<1> DEFINE x == req[r]
<1>1. ~ Free(r) /\ x.pc \in {"act", "write", "delete row"}
  BY DEF CreateItem, ImportItem, PasskeyRegister, WriteBack, Archive, DeleteGrants, DeleteRow, At, Free
<1>2. x \in Asked /\ RequestOK(x, during[r])
  BY <1>1, SeenNow
<1>3. x.op # "invite" /\ x.item \in Item
  BY <1>1, <1>2 DEF RequestOK, PlaceFits, InvitePlaces, Ended
<1>4. /\ "done" \in Places \ {"idle"} /\ CanGoOn(x, during[r], "done")
      /\ "delete row" \in Places \ {"idle"}
  BY <1>1 DEF CanGoOn, Places, Ended, OtherPlaces
<1>5. CASE CreateItem(r)
  <2>1. x.op = "create" /\ x.pc = "act"
    BY <1>5 DEF CreateItem, At
  <2>2. x.p \in Human
    BY <1>2, <2>1 DEF RequestOK, PlaceFits, HumanOps, OtherPlaces
  <2>3. (IF x.owns THEN "org" ELSE x.p) \in Human \cup {"org"}
    BY <2>2
  <2> QED BY <1>1, <1>3, <1>5, <2>3, PutRowKeeps DEF CreateItem
<1>6. CASE ImportItem(r)
  BY <1>1, <1>3, <1>6, PutRowKeeps DEF ImportItem
<1>7. CASE PasskeyRegister(r)
  BY <1>1, <1>3, <1>7, PutRowKeeps DEF PasskeyRegister
<1>8. CASE WriteBack(r)
  <2>1. x.pc = "write"
    BY <1>8 DEF WriteBack, At
  <2>2. x.row \in Row
    BY <1>2, <2>1 DEF RequestOK, PlaceFits, ItemWrites
  <2>3. x.row.owner \in Human \cup {"org"} /\ x.row.archived \in BOOLEAN
    BY <2>2 DEF Row
  <2> QED BY <1>1, <1>3, <1>8, <2>3, PutRowKeeps DEF WriteBack
<1>9. CASE Archive(r)
  <2>1. items' \in [Item -> Row \cup {None}]
    BY <1>3, <1>9, OneEntry DEF Archive, RequestInv, TablesOK
  <2>2. TablesOK' /\ agents' = agents
    BY <1>9, <2>1 DEF Archive, Keep, membership, RequestInv, TablesOK
  <2> QED BY <1>1, <1>4, <1>9, <2>2, WriteKeeps DEF Archive
<1>10. CASE DeleteGrants(r)
  <2>1. grants' \subseteq grants
    BY <1>10 DEF DeleteGrants
  <2>2. TablesOK' /\ agents' = agents
    BY <1>10, <2>1 DEF DeleteGrants, Keep, membership, RequestInv, TablesOK
  <2>3. CanGoOn(x, during[r], "delete row")
    BY <1>10 DEF DeleteGrants, At, CanGoOn
  <2> QED BY <1>1, <1>4, <1>10, <2>2, <2>3, WriteKeeps DEF DeleteGrants
<1>11. CASE DeleteRow(r)
  <2>1. items' \in [Item -> Row \cup {None}]
    BY <1>3, <1>11, OneEntry DEF DeleteRow
  <2>2. TablesOK' /\ agents' = agents
    BY <1>11, <2>1 DEF DeleteRow, Keep, membership, RequestInv, TablesOK
  <2> QED BY <1>1, <1>4, <1>11, <2>2, WriteKeeps DEF DeleteRow
<1> QED BY <1>5, <1>6, <1>7, <1>8, <1>9, <1>10, <1>11

LEMMA OwnerWriteKeeps ==
  ASSUME RequestInv, Observe, NEW r \in Request,
         \/ PutGrant(r) \/ PutSession(r)
         \/ \E a \in Agent : AddAgent(r, a) \/ RevokeAgent(r, a)
  PROVE  RequestInv'
<1> DEFINE x == req[r]
<1>1. ~ Free(r) /\ x.pc \in {"act", "put grant", "put session"}
  BY DEF PutGrant, PutSession, AddAgent, RevokeAgent, At, Free
<1>2. x \in Asked /\ RequestOK(x, during[r])
  BY <1>1, SeenNow
<1>3. "done" \in Places \ {"idle"} /\ CanGoOn(x, during[r], "done")
  BY <1>1 DEF CanGoOn, Places, Ended
<1>4. CASE PutGrant(r)
  <2>1. x.pc = "put grant"
    BY <1>4 DEF PutGrant, At
  <2>2. x.to \in Agent \cup Human /\ x.item \in Item
    BY <1>2, <2>1 DEF RequestOK, PlaceFits, InvitePlaces, Ended, Asked
  <2>3. grants' \subseteq (Agent \cup Human) \X Item
    <3>1. <<x.to, x.item>> \in (Agent \cup Human) \X Item
      BY <2>2
    <3> QED BY <1>4, <3>1 DEF PutGrant, RequestInv, TablesOK
  <2>4. TablesOK' /\ agents' = agents
    BY <1>4, <2>3 DEF PutGrant, Keep, membership, RequestInv, TablesOK
  <2> QED BY <1>1, <1>3, <1>4, <2>4, WriteKeeps DEF PutGrant
<1>5. CASE PutSession(r)
  <2>1. x.to \in Agent
    BY <1>2, <1>5 DEF PutSession, At, RequestOK, PlaceFits
  <2>2. lease' \in [Agent -> {"none", "live", "ended"}]
    BY <1>5, <2>1, OneEntry DEF PutSession
  <2>3. TablesOK' /\ agents' = agents
    BY <1>5, <2>2 DEF PutSession, Keep, membership, RequestInv, TablesOK
  <2> QED BY <1>1, <1>3, <1>5, <2>3, WriteKeeps DEF PutSession
<1>6. ASSUME NEW a \in Agent, AddAgent(r, a) PROVE RequestInv'
  <2>1. agents' = [agents EXCEPT ![a] = IF agents[a] = "revoked" THEN "revoked" ELSE "live"]
    BY <1>6 DEF AddAgent, RequestInv, TablesOK
  <2>2. /\ agents' \in [Agent -> {"absent", "live", "revoked"}]
        /\ \A b \in Agent : agents[b] = "revoked" => agents'[b] = "revoked"
    BY <2>1 DEF RequestInv, TablesOK
  <2>3. TablesOK'
    BY <1>6, <2>2 DEF AddAgent, Keep, membership, RequestInv, TablesOK
  <2> QED BY <1>1, <1>3, <1>6, <2>2, <2>3, WriteKeeps DEF AddAgent
<1>7. ASSUME NEW a \in Agent, RevokeAgent(r, a) PROVE RequestInv'
  <2>1. /\ agents' \in [Agent -> {"absent", "live", "revoked"}]
        /\ \A b \in Agent : agents[b] = "revoked" => agents'[b] = "revoked"
    BY <1>7 DEF RevokeAgent, RequestInv, TablesOK
  <2>2. TablesOK'
    BY <1>7, <2>1 DEF RevokeAgent, Keep, membership, RequestInv, TablesOK
  <2> QED BY <1>1, <1>3, <1>7, <2>1, <2>2, WriteKeeps DEF RevokeAgent
<1> QED BY <1>4, <1>5, <1>6, <1>7

LEMMA InviteWriteKeeps ==
  ASSUME RequestInv, Observe, NEW r \in Request,
         WriteMember(r) \/ WriteOwner(r) \/ \E h \in Human : CreateIdentity(r, h)
  PROVE  RequestInv'
<1> DEFINE x == req[r]
           d == during[r]
<1>1. ~ Free(r) /\ x.pc \in {"kratos", "member", "owner"}
  BY DEF WriteMember, WriteOwner, CreateIdentity, At, Free
<1>2. x \in Asked /\ RequestOK(x, d) /\ req \in [Request -> Asked]
  BY <1>1, SeenNow DEF RequestInv
<1>3. x.pc \in {"member", "owner"} => x.to \in Human
  BY <1>2 DEF RequestOK, PlaceFits
<1>4. {"done", "has owners", "code"} \subseteq Places \ {"idle"}
  BY DEF Places, InvitePlaces, Ended
<1>5. CASE WriteMember(r)
  <2>1. TablesOK' /\ agents' = agents
    BY <1>3, <1>5 DEF WriteMember, At, tables, RequestInv, TablesOK
  <2>2. CanGoOn(x, d, "has owners")
    BY <1>5 DEF WriteMember, At, CanGoOn
  <2> QED BY <1>1, <1>4, <1>5, <2>1, <2>2, WriteKeeps DEF WriteMember
<1>6. CASE WriteOwner(r)
  <2>1. TablesOK' /\ agents' = agents
    BY <1>3, <1>6 DEF WriteOwner, At, tables, RequestInv, TablesOK
  <2>2. CanGoOn(x, d, "done")
    BY <1>6 DEF WriteOwner, At, CanGoOn
  <2> QED BY <1>1, <1>4, <1>6, <2>1, <2>2, WriteKeeps DEF WriteOwner
<1>7. ASSUME NEW h \in Human, CreateIdentity(r, h) PROVE RequestInv'
  <2>1. TablesOK' /\ agents' = agents
    BY <1>7 DEF CreateIdentity, tables, RequestInv, TablesOK
  <2>2. CASE h \in identities
    BY <1>1, <1>7, <2>1, <2>2, WriteKeeps DEF CreateIdentity
  <2>3. CASE h \notin identities
    <3>1. req' = [req EXCEPT ![r].to = h, ![r].pc = "code"] /\ x.pc = "kratos"
      BY <1>7, <2>3 DEF CreateIdentity, At
    <3>2. PICK q \in Asked :
            /\ req' = [req EXCEPT ![r] = q]
            /\ Is(q, x, "code", x.p, h, x.row, x.owns, x.todo, x.got)
      BY <1>2, <1>4, <3>1, Replaced DEF Becomes
    <3>3. RequestOK(q, d)
      BY <1>2, <3>1, <3>2, ToFits
    <3>4. q.pc # "idle" /\ q.revoked \subseteq {a \in Agent : agents[a] = "revoked"}
      BY <3>2 DEF Is, RequestInv, RequestsOK
    <3> QED BY <1>1, <2>1, <3>2, <3>3, <3>4, RequestMoves
  <2> QED BY <2>2, <2>3
<1> QED BY <1>5, <1>6, <1>7

-----------------------------------------------------------------------------
(* What happens elsewhere, and every step.                                 *)

LEMMA OthersKeep ==
  ASSUME RequestInv, Observe, req' = req, TablesOK',
         \A a \in Agent : agents[a] = "revoked" => agents'[a] = "revoked"
  PROVE  RequestInv'
<1>1. NowSeen'
  <2>1. ASSUME NEW s \in Request, ~ Free(s)' PROVE Includes(during'[s], Moment')
    BY <2>1, Observes DEF RequestInv
  <2> QED BY <2>1 DEF NowSeen, Includes
<1>2. ASSUME NEW s \in Request
      PROVE  /\ RequestOK(req'[s], during'[s])
             /\ req'[s].revoked \subseteq {a \in Agent : agents'[a] = "revoked"}
  <2>1. RequestOK(req[s], during[s]) /\ (Free(s)' <=> Free(s))
    BY DEF RequestInv, RequestsOK, Free
  <2>2. during'[s] = during[s] \/ Includes(during'[s], during[s])
    BY <2>1, Observes DEF RequestInv
  <2>3. req[s].revoked \subseteq {a \in Agent : agents[a] = "revoked"}
    BY DEF RequestInv, RequestsOK
  <2> QED BY <2>1, <2>2, <2>3, EntitledStays
<1>3. RequestsOK'
  BY <1>2, AllOK
<1> QED BY <1>1, <1>3 DEF RequestInv

LEMMA ElsewhereKeeps ==
  ASSUME RequestInv, Observe, Elsewhere
  PROVE  RequestInv'
<1> USE DEF Local
<1>1. ASSUME NEW s \in Subject, NEW a \in Agent, NEW aud \in Audience, Bind(s, a, aud)
      PROVE  RequestInv'
  <2>1. bound' \in [Subject -> [agent : Agent, aud : Audience] \cup {None}]
    BY <1>1 DEF Bind, RequestInv, TablesOK
  <2>2. TablesOK'
    BY <1>1, <2>1, StartCounts DEF Bind, membership, RequestInv, TablesOK
  <2> QED BY <1>1, <2>2, OthersKeep DEF Bind
<1>2. ASSUME NEW a \in Agent, LocalAddAgent(a) \/ LocalRevokeAgent(a) PROVE RequestInv'
  <2>1. /\ agents' \in [Agent -> {"absent", "live", "revoked"}]
        /\ \A b \in Agent : agents[b] = "revoked" => agents'[b] = "revoked"
    BY <1>2, OneEntry DEF LocalAddAgent, LocalRevokeAgent, RequestInv, TablesOK
  <2>2. TablesOK'
    BY <1>2, <2>1, StartCounts DEF LocalAddAgent, LocalRevokeAgent, membership, RequestInv, TablesOK
  <2> QED BY <1>2, <2>1, <2>2, OthersKeep DEF LocalAddAgent, LocalRevokeAgent
<1>3. ASSUME NEW a \in Agent, LocalSession(a) \/ EndLease(a) PROVE RequestInv'
  <2>1. lease' \in [Agent -> {"none", "live", "ended"}]
    BY <1>3, OneEntry DEF LocalSession, EndLease
  <2>2. TablesOK'
    BY <1>3, <2>1, StartCounts DEF LocalSession, EndLease, membership, RequestInv, TablesOK
  <2> QED BY <1>3, <2>2, OthersKeep DEF LocalSession, EndLease
<1>4. ASSUME NEW i \in Item, LocalPutItem(i) \/ LocalArchiveItem(i) \/ LocalDeleteItem(i)
      PROVE  RequestInv'
  <2>1. items' \in [Item -> Row \cup {None}]
    BY <1>4, OneEntry DEF LocalPutItem, LocalArchiveItem, LocalDeleteItem, RequestInv, TablesOK
  <2>2. grants' \subseteq grants
    BY <1>4 DEF LocalPutItem, LocalArchiveItem, LocalDeleteItem
  <2>3. TablesOK' /\ agents' = agents
    BY <1>4, <2>1, <2>2, StartCounts
       DEF LocalPutItem, LocalArchiveItem, LocalDeleteItem, membership, RequestInv, TablesOK
  <2>4. req' = req
    BY <1>4 DEF LocalPutItem, LocalArchiveItem, LocalDeleteItem
  <2> QED BY <2>3, <2>4, OthersKeep
<1>5. ASSUME NEW i \in Item, NEW to \in Agent \cup Human, LocalGrant(to, i) PROVE RequestInv'
  <2>1. grants' \subseteq (Agent \cup Human) \X Item
    <3>1. <<to, i>> \in (Agent \cup Human) \X Item
      OBVIOUS
    <3> QED BY <1>5, <3>1 DEF LocalGrant, RequestInv, TablesOK
  <2>2. TablesOK'
    BY <1>5, <2>1, StartCounts DEF LocalGrant, membership, RequestInv, TablesOK
  <2> QED BY <1>5, <2>2, OthersKeep DEF LocalGrant
<1>6. ASSUME NEW h \in Human, Withdraw(h) PROVE RequestInv'
  <2>1. owners' \subseteq Human /\ members' \subseteq Human
    BY <1>6 DEF Withdraw, RequestInv, TablesOK
  <2>2. TablesOK' /\ agents' = agents
    BY <1>6, <2>1, StartCounts DEF Withdraw, tables, RequestInv, TablesOK
  <2> QED BY <1>6, <2>2, OthersKeep DEF Withdraw
<1> QED BY <1>1, <1>2, <1>3, <1>4, <1>5, <1>6 DEF Elsewhere

LEMMA RequestInvStep ==
  ASSUME RequestInv, AccessNext PROVE RequestInv'
<1>1. Observe
  BY DEF AccessNext
<1>2. ASSUME NEW r \in Request, RequestStep(r) PROVE RequestInv'
  BY <1>1, <1>2, ArriveKeeps, PrincipalKeeps, CheckKeeps, ListKeeps, AnswerKeeps, ItemWriteKeeps,
     OwnerWriteKeeps DEF RequestStep
<1>3. ASSUME NEW r \in Request, InviteStep(r) PROVE RequestInv'
  BY <1>1, <1>3, InviteKeeps, InviteReadKeeps, InviteWriteKeeps DEF InviteStep
<1> QED BY <1>1, <1>2, <1>3, ElsewhereKeeps DEF AccessNext

LEMMA RequestInvStays ==
  ASSUME RequestInv, UNCHANGED accessVars PROVE RequestInv'
<1>1. /\ agents' = agents /\ bound' = bound /\ lease' = lease /\ items' = items /\ grants' = grants
      /\ members' = members /\ owners' = owners /\ identities' = identities
      /\ req' = req /\ during' = during /\ starts' = starts
  BY DEF accessVars, tables, membership
<1>2. TablesOK' /\ req' \in [Request -> Asked]
  BY <1>1 DEF RequestInv, TablesOK
<1>3. RequestsOK'
  BY <1>1, AllOK DEF RequestInv, RequestsOK
<1>4. NowSeen'
  BY <1>1 DEF RequestInv, NowSeen, Includes, Moment, Owned, Free
<1> QED BY <1>2, <1>3, <1>4 DEF RequestInv

LEMMA RequestInvInit == AccessInit => RequestInv
<1> SUFFICES ASSUME AccessInit PROVE RequestInv
  OBVIOUS
<1>1. TablesOK
  <2>1. members \subseteq Human /\ owners \subseteq Human /\ identities \subseteq Human
    BY AccessAssumption DEF AccessInit
  <2>2. grants \subseteq (Agent \cup Human) \X Item
    <3>1. CASE grants = {}
      BY <3>1
    <3>2. ASSUME NEW g \in ((Agent \cup Human) \ {Founder}) \X Item, grants = {g}
          PROVE  grants \subseteq (Agent \cup Human) \X Item
      BY <3>2
    <3> QED BY <3>1, <3>2 DEF AccessInit
  <2>3. /\ agents \in [Agent -> {"absent", "live", "revoked"}]
        /\ lease \in [Agent -> {"none", "live", "ended"}]
    BY DEF AccessInit
  <2>4. bound \in [Subject -> [agent : Agent, aud : Audience] \cup {None}]
    <3>1. CASE bound = [s \in Subject |-> None]
      BY <3>1
    <3>2. ASSUME NEW a \in Agent, NEW aud \in Audience \ {Vault},
                 bound = [s \in Subject |->
                            CASE s \in Human -> None
                              [] s \in Guest \ Human -> [agent |-> a, aud |-> aud]
                              [] OTHER      -> [agent |-> a, aud |-> Vault]]
          PROVE  bound \in [Subject -> [agent : Agent, aud : Audience] \cup {None}]
      <4>1. [agent |-> a, aud |-> aud] \in [agent : Agent, aud : Audience]
        OBVIOUS
      <4>2. [agent |-> a, aud |-> Vault] \in [agent : Agent, aud : Audience]
        BY AccessAssumption
      <4> QED BY <3>2, <4>1, <4>2
    <3> QED BY <3>1, <3>2 DEF AccessInit
  <2>5. items \in [Item -> Row \cup {None}]
    BY DEF AccessInit, Row
  <2>6. starts \in 0 .. MaxStarts
    BY AccessAssumption DEF AccessInit
  <2> QED BY <2>1, <2>2, <2>3, <2>4, <2>5, <2>6 DEF TablesOK
<1>2. req = [r \in Request |-> Fresh]
  BY DEF AccessInit
<1>3. /\ Fresh \in Asked /\ Fresh.pc = "idle" /\ Fresh.op = None /\ Fresh.p = None
      /\ Fresh.got = {} /\ Fresh.todo = {} /\ Fresh.owns = FALSE /\ Fresh.revoked = {}
  BY DEF Fresh, Asked, Places, Ended
<1>4. None \notin Agent \cup Human
  BY AccessAssumption
<1> HIDE DEF Fresh
<1>5. ASSUME NEW d PROVE RequestOK(Fresh, d)
  <2>1. PlaceFits(Fresh)
    BY <1>3 DEF PlaceFits, LeasePlaces, JwtPlaces, InvitePlaces, Listing, OtherPlaces, Ended
  <2>2. Entitled(Fresh, d)
    BY <1>3, <1>4 DEF Entitled
  <2>3. NothingIfRevoked(Fresh)
    BY <1>3 DEF NothingIfRevoked, Listing
  <2> QED BY <2>1, <2>2, <2>3 DEF RequestOK
<1>6. RequestsOK /\ NowSeen /\ req \in [Request -> Asked]
  BY <1>2, <1>3, <1>5 DEF RequestsOK, NowSeen, Free
<1> QED BY <1>1, <1>6 DEF RequestInv

\* A step of either side keeps the invariant of the requests.
LEMMA RequestInvHolds == AuthorizationSpec => []RequestInv
<1>1. AuthorizationInit => RequestInv
  BY RequestInvInit DEF AuthorizationInit
<1>2. RequestInv /\ [AuthorizationNext]_authorizationVars => RequestInv'
  <2> SUFFICES ASSUME RequestInv, [AuthorizationNext]_authorizationVars PROVE RequestInv'
    OBVIOUS
  <2>1. CASE RequestSide
    BY <2>1, RequestInvStep DEF RequestSide
  <2>2. CASE DecisionSide
    BY <2>2, RequestInvStays DEF DecisionSide
  <2>3. CASE UNCHANGED authorizationVars
    BY <2>3, RequestInvStays DEF authorizationVars
  <2> QED BY <2>1, <2>2, <2>3 DEF AuthorizationNext
<1> QED BY <1>1, <1>2, PTL DEF AuthorizationSpec

\* A request acts for the agent its token was bound to at a moment of the
\* request, shows only what was its principal's or granted to it at such a
\* moment, and gives a revoked agent nothing.
THEOREM AccessInvHolds == AuthorizationSpec => []AccessInv
<1>1. RequestInv => AccessInv
  <2> SUFFICES ASSUME RequestInv PROVE AccessInv
    OBVIOUS
  <2>1. ASSUME NEW r \in Request PROVE req[r] \in Asked /\ RequestOK(req[r], during[r])
    BY DEF RequestInv, RequestsOK
  <2>2. AccessTypeOK
    <3>1. \A r \in Request : /\ req[r].p \in Agent \cup Human \cup {None}
                             /\ req[r].row \in Row \cup {None}
                             /\ req[r].got \subseteq Item /\ req[r].todo \subseteq Item
      BY <2>1 DEF Asked
    <3> QED BY <3>1 DEF AccessTypeOK, RequestInv, TablesOK
  <2>3. ActsForItsAudience
    BY <2>1 DEF ActsForItsAudience, RequestOK, Entitled
  <2>4. ShownIsTheirs
    BY <2>1 DEF ShownIsTheirs, RequestOK, Entitled, Shown, Theirs2, WasTheirs
  <2>5. RevokedAgentGetsNothing
    BY <2>1 DEF RevokedAgentGetsNothing, RequestOK, NothingIfRevoked
  <2> QED BY <2>2, <2>3, <2>4, <2>5 DEF AccessInv
<1> QED BY <1>1, RequestInvHolds, PTL

\* What a request writes, its principal was entitled to.
LEMMA WriterIsEntitled ==
  ASSUME RequestInv, NEW r \in Request, RequestStep(r) \/ InviteStep(r),
         <<tables, membership>>' # <<tables, membership>>
  PROVE  MayChange(r)
<1> DEFINE x == req[r]
           d == during[r]
<1>1. ~ Quiet /\ ~ UNCHANGED <<tables, membership>>
  BY DEF Quiet
<1>2. x \in Asked /\ RequestOK(x, d)
  BY DEF RequestInv, RequestsOK
<1> USE DEF At
<1>3. ASSUME x.op \in ItemWrites, x.pc \in {"act", "write", "delete row"} PROVE MayChange(r)
  <2>1. WasTheirs(r, x.item)
    BY <1>2, <1>3 DEF RequestOK, Entitled, Theirs2, WasTheirs
  <2> QED BY <1>3, <2>1 DEF MayChange, ItemWrites, OwnerOps
<1>4. ASSUME x.op \in OwnerOps, x.pc \in {"act", "put grant", "put session"} PROVE MayChange(r)
  <2>1. x.p \in d.owners
    BY <1>2, <1>4 DEF RequestOK, Entitled
  <2> QED BY <1>4, <2>1 DEF MayChange, ItemWrites, OwnerOps
<1>5. ASSUME x.op = "invite", UNCHANGED owners \/ TRUE \in d.ownerless PROVE MayChange(r)
  BY <1>5 DEF MayChange, ItemWrites, OwnerOps
<1>6. \/ CreateItem(r) \/ ImportItem(r) \/ PasskeyRegister(r) \/ WriteBack(r) \/ Archive(r)
      \/ DeleteGrants(r) \/ DeleteRow(r) \/ PutGrant(r) \/ PutSession(r)
      \/ (\E a \in Agent : AddAgent(r, a) \/ RevokeAgent(r, a))
      \/ WriteMember(r) \/ WriteOwner(r) \/ (\E h \in Human : CreateIdentity(r, h))
  BY <1>1 DEF RequestStep, InviteStep, Arrive, SessionRow, SessionAgent, Workloads, Bound, Member,
     Owns, OwnsAgain, ReadRow, MayWrite, ListAgent, Granted, ListOwns, All, FillOne, FillLogins,
     FillSync, Use, UseSession, Each, PasskeyGet, ReadAgain, Overview, GrantCheck, SessionCheck,
     Invite, RequireOwner, Allowed, RecoveryCode, HasOwners, StopInvite
<1>7. CASE CreateItem(r)
  <2>1. x.op = "create" /\ x.item \in Item
    BY <1>2, <1>7 DEF CreateItem, RequestOK, PlaceFits
  <2> DEFINE owner == IF x.owns THEN "org" ELSE x.p
  <2>2. PutItem(x.item, owner, FALSE)
    BY <1>1, <1>7 DEF CreateItem, PutRow, Keep, tables, membership
  <2>3. items'[x.item].owner = owner
    BY <2>1, <2>2 DEF PutItem, RequestInv, TablesOK
  <2>4. x.owns => x.p \in d.owners
    BY <1>2 DEF RequestOK, Entitled
  <2> QED BY <2>1, <2>3, <2>4 DEF MayChange, ItemWrites, OwnerOps
<1>8. CASE PasskeyRegister(r)
  <2>1. x.op = "passkey" /\ x.p \in Human
    BY <1>2, <1>8 DEF PasskeyRegister, RequestOK, PlaceFits, HumanOps, OtherPlaces
  <2>2. x.p \in d.members
    BY <1>2, <2>1 DEF RequestOK, Entitled
  <2> QED BY <2>1, <2>2 DEF MayChange, ItemWrites, OwnerOps
<1>9. CASE WriteBack(r) \/ Archive(r) \/ DeleteGrants(r) \/ DeleteRow(r)
  BY <1>2, <1>3, <1>9
     DEF WriteBack, Archive, DeleteGrants, DeleteRow, RequestOK, PlaceFits, ItemWrites
<1>10. CASE ImportItem(r) \/ PutGrant(r) \/ PutSession(r)
              \/ \E a \in Agent : AddAgent(r, a) \/ RevokeAgent(r, a)
  BY <1>2, <1>4, <1>10
     DEF ImportItem, PutGrant, PutSession, AddAgent, RevokeAgent, RequestOK, PlaceFits, OwnerOps
<1>11. CASE WriteMember(r) \/ \E h \in Human : CreateIdentity(r, h)
  BY <1>2, <1>5, <1>11 DEF WriteMember, CreateIdentity, RequestOK, PlaceFits, InvitePlaces
<1>12. CASE WriteOwner(r)
  BY <1>2, <1>5, <1>12 DEF WriteOwner, RequestOK, PlaceFits, Entitled, InvitePlaces
<1> QED BY <1>6, <1>7, <1>8, <1>9, <1>10, <1>11, <1>12

\* Only the request that takes the step is changed by it.
LEMMA OneRequestMoves ==
  ASSUME RequestInv, NEW r \in Request, RequestStep(r) \/ InviteStep(r),
         NEW s \in Request, req'[s] # req[s]
  PROVE  s = r
BY DEF RequestStep, InviteStep, Arrive, SessionRow, SessionAgent, Workloads, Bound, Member,
     Owns, OwnsAgain, ReadRow, MayWrite, ListAgent, Granted, ListOwns, All, FillOne, FillLogins,
     FillSync, Use, UseSession, Each, PasskeyGet, ReadAgain, Overview, GrantCheck, SessionCheck,
     Invite, RequireOwner, Allowed, RecoveryCode, HasOwners, StopInvite, CreateItem, ImportItem,
     PasskeyRegister, WriteBack, Archive, DeleteGrants, DeleteRow, PutGrant, PutSession, AddAgent,
     RevokeAgent, WriteMember, WriteOwner, CreateIdentity, ActFor, Move, Refuse, Open, PutRow,
     RequestInv

\* Every write of a request is one its principal was entitled to at a moment of
\* the request.
THEOREM WritesAreEntitledHolds == AuthorizationSpec => WritesAreEntitled
<1>1. RequestInv /\ [AuthorizationNext]_authorizationVars
        => [\A r \in Request :
              req'[r] # req[r] /\ <<tables, membership>>' # <<tables, membership>>
                => MayChange(r)]_accessVars
  <2> SUFFICES ASSUME RequestInv, RequestSide, NEW s \in Request, req'[s] # req[s],
                      <<tables, membership>>' # <<tables, membership>>
               PROVE  MayChange(s)
    BY DEF AuthorizationNext, DecisionSide, authorizationVars
  <2>1. CASE Elsewhere
    BY <2>1 DEF Elsewhere, Bind, LocalAddAgent, LocalRevokeAgent, LocalSession, EndLease,
       LocalPutItem, LocalArchiveItem, LocalDeleteItem, LocalGrant, Withdraw, Local
  <2>2. ASSUME NEW r \in Request, RequestStep(r) \/ InviteStep(r) PROVE MayChange(s)
    BY <2>2, OneRequestMoves, WriterIsEntitled
  <2> QED BY <2>1, <2>2 DEF RequestSide, AccessNext
<1> QED BY <1>1, RequestInvHolds, PTL DEF AuthorizationSpec, WritesAreEntitled

=============================================================================
