-------------------------------- MODULE Grant --------------------------------
(***************************************************************************)
(* The authorization decision (internal/grant/grant.go): a pure function   *)
(* of the principal, the item, the grant, the approval, the requested      *)
(* action, its destination and the instant the call was received.          *)
(*                                                                         *)
(* A Go pointer that may be nil (a grant, an approval, an expiry, a parsed *)
(* host) is the value or Nil.  An organisation, an identifier and a host   *)
(* are opaque; a URL is the parts CanonicalHost looks at.                  *)
(***************************************************************************)
EXTENDS Integers

CONSTANT Nil              \* the nil pointer, the empty string

\* protocol.ActionKind: Use is always "fetch", ChildEnv is "env"
ActionKind == {"fetch", "env"}

\* protocol.Decision values that reach a caller
DecisionKind == {"allow", "deny", "need_approval"}

-----------------------------------------------------------------------------
(* Destinations.  url.scheme = Nil is a destination written without one    *)
(* (a CONNECT target), url.port = Nil a destination without a port, and    *)
(* url.host = Nil whatever url.Parse refuses or parses to no host.         *)

\* ParseDest prefixes https:// to a destination that has no scheme.
Scheme(url) == IF url.scheme = Nil THEN "https" ELSE url.scheme

DefaultPort(scheme) == IF scheme = "https" THEN 443 ELSE 80

\* The hostname, with its port unless that is the default of the scheme.
CanonicalHost(url) ==
  IF url.host = Nil THEN Nil
  ELSE [host |-> url.host,
        port |-> IF url.port = DefaultPort(Scheme(url)) THEN Nil ELSE url.port]

\* A URI of the item that does not parse is skipped.
HostListed(item, url) ==
  \E raw \in item.uris : /\ CanonicalHost(raw) # Nil
                         /\ CanonicalHost(raw) = CanonicalHost(url)

\* A reason to refuse the destination, or Nil.
HostRefusal(item, url) ==
  IF url = Nil THEN "missing_url"
  ELSE IF CanonicalHost(url) = Nil THEN "invalid_url"
  ELSE IF HostListed(item, url) THEN Nil
  ELSE "host_not_allowed"

-----------------------------------------------------------------------------
\* A fetch on the grant is also the Use that puts the item in a child's
\* environment.
ActionAllowed(actions, want) ==
  want \in actions \/ (want = "env" /\ "fetch" \in actions)

Verdict(decision, reason, approval) ==
  [decision |-> decision, reason |-> reason, approval |-> approval]

Deny(reason) == Verdict("deny", reason, Nil)

\* Mutants: the expiry instant still counts; the comparison is turned round.
BeforeInclusive(now, expires) == expires = Nil \/ now <= expires

\* The expiry instant itself is already outside the grant or the approval.
Before(now, expires) == expires = Nil \/ now < expires

\* Mutant: an approval that has run out is a refusal.
LevelVerdictRefuses(in) ==
  IF in.grant.level = "level2" THEN Verdict("allow", Nil, Nil)
  ELSE IF in.grant.level # "level1" THEN Deny("unknown_level")
  ELSE IF in.approval = Nil \/ in.approval.grant # in.grant.id
    THEN Verdict("need_approval", "need_approval", Nil)
  ELSE IF ~ Before(in.now, in.approval.expires) THEN Deny("approval_expired")
  ELSE Verdict("allow", Nil, in.approval.id)

\* What a grant of either level says once everything else holds.
LevelVerdict(in) ==
  CASE in.grant.level = "level2" -> Verdict("allow", Nil, Nil)
    [] in.grant.level = "level1" ->
         IF in.approval = Nil \/ in.approval.grant # in.grant.id
           THEN Verdict("need_approval", "need_approval", Nil)
         ELSE IF ~ Before(in.now, in.approval.expires)
           THEN Verdict("need_approval", "approval_expired", Nil)
         ELSE Verdict("allow", Nil, in.approval.id)
    [] OTHER -> Deny("unknown_level")

\* The first check that fails names the reason.
Evaluate(in) ==
  IF in.principal.kind # "agent" THEN Deny("human_cannot_use")
  ELSE IF in.principal.revoked THEN Deny("agent_revoked")
  ELSE IF in.item.archived THEN Deny("item_archived")
  ELSE IF in.grant = Nil THEN Deny("no_grant")
  ELSE IF in.grant.org # in.principal.org \/ in.grant.org # in.item.org
    THEN Deny("wrong_org")
  ELSE IF in.grant.agent # in.principal.id THEN Deny("wrong_agent")
  ELSE IF in.grant.item # in.item.id THEN Deny("wrong_item")
  ELSE IF ~ Before(in.now, in.grant.expires) THEN Deny("grant_expired")
  ELSE IF ~ ActionAllowed(in.grant.actions, in.action)
    THEN Deny("action_not_allowed")
  ELSE IF in.action = "fetch" /\ HostRefusal(in.item, in.url) # Nil
    THEN Deny(HostRefusal(in.item, in.url))
  ELSE LevelVerdict(in)

=============================================================================
