----------------------------- MODULE FillProofs -----------------------------
(***************************************************************************)
(* Proofs about the native host that fills a browser: what a host process  *)
(* may do for a page after which acceptance, into which login a page's     *)
(* seed gets, and what a host knows of the logins it has made, for any     *)
(* number of hosts, items and sites.                                       *)
(***************************************************************************)
EXTENDS FillHost, TLAPS

-----------------------------------------------------------------------------
(* The inductive invariant.  Its parts are about one host: its process p,  *)
(* its request r, what was last accepted on it (acc), the makers (mk) and  *)
(* the origin's items (org).                                               *)

\* At these places the human has agreed.
ActingStages == {"unlock", "create", "attach", "passkey", "give"}
QuietStages  == {"pull", "put", "index", "match", "envelope", "ask", "prompt", "fetch"}

NeverReused(r) == r.op \in {"save", "enroll"} \/ (r.op = "fill" /\ r.uuid \in Cards)

\* The window is that of the last acceptance.
WindowOK(p, acc) ==
  p.window # Nil => /\ acc # Nil
                    /\ p.window.site = acc.site
                    /\ p.window.until = acc.at + Reuse

\* What the process says it has made is noted as made by it for that site.
ClaimOK(h, p, mk) ==
  p.made # Nil => mk[p.made.item] = [host |-> h, site |-> p.made.site]

IndexOK(p, org) ==
  ~ p.sealed /\ p.index # Nil /\ p.made # Nil =>
    LET i == p.made.item IN org[i] # Nil /\ ~ org[i].archived => p.index[i] # Nil

HostOK(h, p, acc, mk, org) ==
  /\ ~ p.sealed => p.rows = NoRows
  /\ WindowOK(p, acc) /\ ClaimOK(h, p, mk) /\ IndexOK(p, org)

StageOK(r, p) ==
  /\ r.stage \in {"pull", "put"} => p.sealed
  /\ r.op \notin {"code", "attach"} => r.site \in Site
  /\ r.stage = "create" => r.op \in {"generate", "save"}
  /\ r.stage = "attach" => r.op = "enroll"

\* An enrolment names an item this process has made for the page's site.
EnrollOK(h, r, mk) ==
  r.op = "enroll" => r.uuid \in Item /\ mk[r.uuid] = [host |-> h, site |-> r.site]

\* A request that acts was let pass by an acceptance that still holds.
AcceptOK(r, acc) ==
  r.stage \in ActingStages =>
    /\ acc # Nil
    /\ acc.site = r.site \/ r.op = "code"
    /\ r.passed - acc.at < Reuse
    /\ NeverReused(r) => r.asked

RequestOK(h, r, p, acc, mk) == StageOK(r, p) /\ EnrollOK(h, r, mk) /\ AcceptOK(r, acc)

HostsOK == \A h \in Host : host[h] # Nil => HostOK(h, host[h], accepted[h], maker, origin)

RequestsOK ==
  \A h \in Host : req[h] # Nil =>
    host[h] \in Process /\ RequestOK(h, req[h], host[h], accepted[h], maker)

FillIInv == TypeOK /\ HostsOK /\ RequestsOK

LEMMA Bounds ==
  /\ MaxClock \in Nat /\ MaxEdits \in Nat /\ MaxAsks \in Nat /\ Reuse \in Nat \ {0}
  /\ Platforms \subseteq BOOLEAN /\ Nil \notin Item \cup Site \cup Host \cup Acceptance \cup Maker
BY FillAssumption
-----------------------------------------------------------------------------
(* What a step leaves alone.                                               *)

\* The items host g has made stay noted as made by it, and no item somebody
\* has made comes back.
MakersStay(g, mk) == \A i \in Item : maker[i] # Nil /\ maker[i].host = g => mk[i] = maker[i]

NoneReturns(org) ==
  \A i \in Item : maker[i] # Nil /\ org[i] # Nil /\ ~ org[i].archived =>
    origin[i] # Nil /\ ~ origin[i].archived

\* The types of a host and of its request.
LEMMA HostTypes ==
  ASSUME TypeOK, NEW h \in Host
  PROVE  /\ host[h] # Nil => host[h] \in Process
         /\ req[h] # Nil => req[h] \in Request
         /\ accepted[h] # Nil => accepted[h] \in Acceptance
BY DEF TypeOK

\* A process and its request stand with the makers and the origin's items as
\* they are after a step of somebody else.
LEMMA ProcessStands ==
  ASSUME FillIInv, NEW g \in Host, host[g] # Nil, NEW mk, NEW org,
         MakersStay(g, mk), NoneReturns(org)
  PROVE  HostOK(g, host[g], accepted[g], mk, org)
<1> DEFINE p == host[g]
           i == p.made.item
<1>1. p \in Process /\ HostOK(g, p, accepted[g], maker, origin)
  BY HostTypes DEF FillIInv, HostsOK
<1>2. ASSUME p.made # Nil
      PROVE  i \in Item /\ maker[i] = [host |-> g, site |-> p.made.site] /\ maker[i] # Nil
  <2>1. /\ i \in Item /\ p.made.site \in Site
        /\ maker[i] = [host |-> g, site |-> p.made.site]
    BY <1>1, <1>2 DEF Process, HostOK, ClaimOK
  <2>2. maker[i] \in Maker
    BY <2>1 DEF Maker
  <2> QED BY <2>1, <2>2, Bounds
<1>3. ClaimOK(g, p, mk)
  <2>1. ASSUME p.made # Nil PROVE mk[i] = [host |-> g, site |-> p.made.site]
    <3>1. maker[i].host = g
      BY <1>2, <2>1
    <3> QED BY <1>2, <2>1, <3>1 DEF MakersStay
  <2> QED BY <2>1 DEF ClaimOK
<1>4. IndexOK(p, org)
  <2>1. ASSUME ~ p.sealed, p.index # Nil, p.made # Nil, org[i] # Nil, ~ org[i].archived
        PROVE  p.index[i] # Nil
    <3>1. origin[i] # Nil /\ ~ origin[i].archived
      BY <1>2, <2>1 DEF NoneReturns
    <3> QED BY <1>1, <2>1, <3>1 DEF HostOK, IndexOK
  <2> QED BY <2>1 DEF IndexOK
<1> QED BY <1>1, <1>3, <1>4 DEF HostOK

LEMMA RequestStands ==
  ASSUME FillIInv, NEW g \in Host, req[g] # Nil, NEW mk, MakersStay(g, mk)
  PROVE  RequestOK(g, req[g], host[g], accepted[g], mk)
<1> DEFINE r == req[g]
<1>1. RequestOK(g, r, host[g], accepted[g], maker) /\ r \in Request
  BY HostTypes DEF FillIInv, RequestsOK
<1>2. EnrollOK(g, r, mk)
  <2>1. ASSUME r.op = "enroll" PROVE r.uuid \in Item /\ mk[r.uuid] = [host |-> g, site |-> r.site]
    <3>1. r.uuid \in Item /\ maker[r.uuid] = [host |-> g, site |-> r.site] /\ r.site \in Site
      BY <1>1, <2>1 DEF RequestOK, EnrollOK, StageOK
    <3>2. maker[r.uuid] \in Maker /\ maker[r.uuid].host = g
      BY <3>1 DEF Maker
    <3> QED BY <3>1, <3>2, Bounds DEF MakersStay
  <2> QED BY <2>1 DEF EnrollOK
<1> QED BY <1>1, <1>2 DEF RequestOK

\* A step of host h: it holds after it what its process and request must, and
\* the others still hold theirs.
LEMMA Moves ==
  ASSUME FillIInv, NEW h \in Host, TypeOK',
         \A g \in Host \ {h} : /\ host'[g] = host[g] /\ req'[g] = req[g]
                               /\ accepted'[g] = accepted[g] /\ MakersStay(g, maker'),
         NoneReturns(origin'),
         host'[h] # Nil => HostOK(h, host'[h], accepted'[h], maker', origin'),
         req'[h] # Nil => host'[h] \in Process /\ RequestOK(h, req'[h], host'[h], accepted'[h], maker')
  PROVE  FillIInv'
<1>1. ASSUME NEW g \in Host, host'[g] # Nil
      PROVE  HostOK(g, host'[g], accepted'[g], maker', origin')
  <2>1. CASE g = h
    BY <1>1, <2>1
  <2>2. CASE g # h
    BY <1>1, <2>2, ProcessStands
  <2> QED BY <2>1, <2>2
<1>2. ASSUME NEW g \in Host, req'[g] # Nil
      PROVE  host'[g] \in Process /\ RequestOK(g, req'[g], host'[g], accepted'[g], maker')
  <2>1. CASE g = h
    BY <1>2, <2>1
  <2>2. CASE g # h
    BY <1>2, <2>2, RequestStands DEF FillIInv, RequestsOK
  <2> QED BY <2>1, <2>2
<1>3. HostsOK'
  <2>1. ASSUME NEW g \in Host, host'[g] # Nil
        PROVE  HostOK(g, host[g], accepted[g], maker, origin)'
    BY <1>1, <2>1 DEF HostOK, WindowOK, ClaimOK, IndexOK
  <2> QED BY <2>1 DEF HostsOK
<1>4. RequestsOK'
  <2>1. ASSUME NEW g \in Host, req'[g] # Nil
        PROVE  host'[g] \in Process /\ RequestOK(g, req[g], host[g], accepted[g], maker)'
    BY <1>2, <2>1 DEF RequestOK, StageOK, EnrollOK, AcceptOK, NeverReused
  <2> QED BY <2>1 DEF RequestsOK
<1> QED BY <1>3, <1>4 DEF FillIInv

\* A step of host h that touches nothing but its process, its request, the box
\* and the count of messages.
LEMMA Keeps ==
  ASSUME FillIInv, NEW h \in Host, NEW p \in Process, NEW r \in Request \cup {Nil},
         HostSet(h, p), req' = [req EXCEPT ![h] = r],
         UNCHANGED <<clock, edits, accepted, maker, origin>>,
         boxFile' \in Rows, asks' \in 0 .. MaxAsks,
         HostOK(h, p, accepted[h], maker, origin),
         r # Nil => RequestOK(h, r, p, accepted[h], maker)
  PROVE  FillIInv'
<1>1. TypeOK'
  BY DEF FillIInv, TypeOK, HostSet
<1>2. host'[h] = p /\ req'[h] = r /\ \A g \in Host \ {h} : host'[g] = host[g] /\ req'[g] = req[g]
  BY DEF FillIInv, TypeOK, HostSet
<1>3. NoneReturns(origin') /\ \A g \in Host : MakersStay(g, maker')
  BY DEF NoneReturns, MakersStay
<1> QED BY <1>1, <1>2, <1>3, Moves
-----------------------------------------------------------------------------
(* A process after a call of the origin, a request that goes on.           *)

\* What is known of a host that serves a request.
LEMMA Served ==
  ASSUME FillIInv, NEW h \in Host, NEW stage, Serving(h, stage)
  PROVE  /\ host[h] \in Process /\ req[h] \in Request /\ req[h].stage = stage
         /\ HostOK(h, host[h], accepted[h], maker, origin)
         /\ RequestOK(h, req[h], host[h], accepted[h], maker)
         /\ host \in [Host -> Process \cup {Nil}] /\ req \in [Host -> Request \cup {Nil}]
         /\ asks \in 0 .. MaxAsks /\ boxFile \in Rows /\ origin \in Rows
         /\ clock \in 0 .. MaxClock /\ clock \in Nat
BY HostTypes, Bounds DEF FillIInv, HostsOK, RequestsOK, Serving, TypeOK

\* It differs from p in whether it wants a login and in its index at most, and
\* that is as it was or dropped.
Called(q, p) ==
  /\ q.sealed = p.sealed /\ q.rows = p.rows /\ q.window = p.window /\ q.made = p.made
  /\ q.index = p.index \/ q.index = Nil

LEMMA CalledFits ==
  ASSUME NEW h, NEW p \in Process, NEW acc, NEW mk, NEW org, HostOK(h, p, acc, mk, org)
  PROVE  \A q \in Process : Called(q, p) => HostOK(h, q, acc, mk, org)
<1> SUFFICES ASSUME NEW q \in Process, Called(q, p) PROVE HostOK(h, q, acc, mk, org)
  OBVIOUS
<1>1. (~ q.sealed => q.rows = NoRows) /\ WindowOK(q, acc) /\ ClaimOK(h, q, mk)
  BY DEF HostOK, WindowOK, ClaimOK, Called
<1>2. IndexOK(q, org)
  BY DEF HostOK, IndexOK, Called
<1> QED BY <1>1, <1>2 DEF HostOK

LEMMA CallEffectCalled ==
  ASSUME FillIInv, NEW h \in Host, host[h] \in Process, NEW answer \in Answers
  PROVE  CallEffect(h, answer) \in Process /\ Called(CallEffect(h, answer), host[h])
<1> DEFINE n == IF answer.got \in {"down", "lost"} THEN host[h].needLogin ELSE answer.got = "login"
           x == IF answer.reminted THEN Nil ELSE host[h].index
           q == [host[h] EXCEPT !.index = x, !.needLogin = n]
<1>1. n \in BOOLEAN /\ x \in Rows \cup {Nil} /\ (x = host[h].index \/ x = Nil)
  BY DEF Process
<1>2. CallEffect(h, answer) = q
  BY DEF CallEffect, Process
<1> HIDE DEF n, x
<1>3. q \in Process /\ Called(q, host[h])
  BY <1>1 DEF Process, Called
<1> QED BY <1>2, <1>3

\* What a request keeps when it goes to another place where nothing is done.
Quietly(q, r) ==
  /\ q.op = r.op /\ q.site = r.site /\ (q.uuid = r.uuid \/ r.op # "enroll")
  /\ q.stage \in QuietStages \ {"pull"}

LEMMA QuietlyFits ==
  ASSUME NEW h, NEW r, NEW p, NEW acc, NEW mk, RequestOK(h, r, p, acc, mk)
  PROVE  \A q, p2 : Quietly(q, r) /\ (q.stage = "put" => p2.sealed) =>
           RequestOK(h, q, p2, acc, mk)
<1> SUFFICES ASSUME NEW q, NEW p2, Quietly(q, r), q.stage = "put" => p2.sealed
             PROVE  RequestOK(h, q, p2, acc, mk)
  OBVIOUS
<1>1. q.stage \notin {"pull", "create", "attach"} /\ q.stage \notin ActingStages
  BY DEF Quietly, QuietStages, ActingStages
<1>2. StageOK(q, p2)
  BY <1>1 DEF RequestOK, StageOK, Quietly
<1>3. EnrollOK(h, q, mk)
  BY DEF RequestOK, EnrollOK, Quietly
<1>4. AcceptOK(q, acc)
  BY <1>1 DEF AcceptOK
<1> QED BY <1>2, <1>3, <1>4 DEF RequestOK

\* The request replaced by one that goes on quietly.
GoesQuietly(h) ==
  \E q \in Request : /\ req' = [req EXCEPT ![h] = q]
                     /\ Quietly(q, req[h])
                     /\ q.stage # "put"

LEMMA GoIsQuiet ==
  ASSUME FillIInv, NEW h \in Host, req[h] \in Request
  PROVE  /\ \A stage \in QuietStages \ {"pull", "put"} : Go(h, stage) => GoesQuietly(h)
         /\ \A stage \in QuietStages \ {"pull", "put"}, i \in Item :
              (req[h].op # "enroll" \/ i = req[h].uuid)
                /\ req' = [req EXCEPT ![h].uuid = i, ![h].stage = stage] => GoesQuietly(h)
         /\ \A stage \in QuietStages \ {"pull", "put"} :
              req' = [req EXCEPT ![h].pulled = NoRows, ![h].stage = stage] => GoesQuietly(h)
<1>1. req \in [Host -> Request \cup {Nil}] /\ NoRows \in Rows
  BY DEF FillIInv, TypeOK, NoRows, Rows
<1>2. ASSUME NEW stage \in QuietStages \ {"pull", "put"}, Go(h, stage) PROVE GoesQuietly(h)
  <2> DEFINE q == [req[h] EXCEPT !.stage = stage]
  <2>1. q \in Request /\ Quietly(q, req[h]) /\ q.stage # "put"
    BY <1>2 DEF Request, Quietly, QuietStages
  <2>2. req' = [req EXCEPT ![h] = q]
    BY <1>1, <1>2 DEF Go
  <2> HIDE DEF q
  <2> QED BY <2>1, <2>2 DEF GoesQuietly
<1>3. ASSUME NEW stage \in QuietStages \ {"pull", "put"}, NEW i \in Item,
             req[h].op # "enroll" \/ i = req[h].uuid,
             req' = [req EXCEPT ![h].uuid = i, ![h].stage = stage]
      PROVE  GoesQuietly(h)
  <2> DEFINE q == [req[h] EXCEPT !.uuid = i, !.stage = stage]
  <2>1. q \in Request /\ Quietly(q, req[h]) /\ q.stage # "put"
    BY <1>3 DEF Request, Quietly, QuietStages
  <2>2. req' = [req EXCEPT ![h] = q]
    BY <1>1, <1>3
  <2> HIDE DEF q
  <2> QED BY <2>1, <2>2 DEF GoesQuietly
<1>4. ASSUME NEW stage \in QuietStages \ {"pull", "put"},
             req' = [req EXCEPT ![h].pulled = NoRows, ![h].stage = stage]
      PROVE  GoesQuietly(h)
  <2> DEFINE q == [req[h] EXCEPT !.pulled = NoRows, !.stage = stage]
  <2>1. q \in Request /\ Quietly(q, req[h]) /\ q.stage # "put"
    BY <1>1, <1>4 DEF Request, Quietly, QuietStages
  <2>2. req' = [req EXCEPT ![h] = q]
    BY <1>1, <1>4
  <2> HIDE DEF q
  <2> QED BY <2>1, <2>2 DEF GoesQuietly
<1> QED BY <1>2, <1>3, <1>4

\* A step that answers or goes on quietly, with the process as after a call or
\* as it was.
Calmly(h) ==
  /\ UNCHANGED <<clock, edits, asks, accepted, maker, origin, boxFile>>
  /\ GoesQuietly(h) \/ Reply(h)

LEMMA CalmKeeps ==
  ASSUME FillIInv, NEW h \in Host, host[h] \in Process, req[h] \in Request,
         HostOK(h, host[h], accepted[h], maker, origin),
         RequestOK(h, req[h], host[h], accepted[h], maker),
         Calmly(h),
         \E q \in Process : HostSet(h, q) /\ HostOK(h, q, accepted[h], maker, origin)
  PROVE  FillIInv'
<1>1. PICK p \in Process : HostSet(h, p) /\ HostOK(h, p, accepted[h], maker, origin)
  OBVIOUS
<1>2. boxFile' \in Rows /\ asks' \in 0 .. MaxAsks
  BY DEF FillIInv, TypeOK, Calmly
<1>3. CASE Reply(h)
  <2>1. req' = [req EXCEPT ![h] = Nil] /\ Nil \in Request \cup {Nil}
    BY <1>3 DEF Reply
  <2> QED BY <1>1, <1>2, <2>1, Keeps DEF Calmly
<1>4. CASE GoesQuietly(h)
  <2>1. PICK r \in Request : /\ req' = [req EXCEPT ![h] = r]
                             /\ Quietly(r, req[h]) /\ r.stage # "put"
    BY <1>4 DEF GoesQuietly
  <2>2. RequestOK(h, r, p, accepted[h], maker)
    BY <2>1, QuietlyFits
  <2>3. r \in Request \cup {Nil}
    OBVIOUS
  <2> QED BY <1>1, <1>2, <2>1, <2>2, <2>3, Keeps DEF Calmly
<1> QED BY <1>3, <1>4 DEF Calmly

LEMMA CallKeeps ==
  ASSUME FillIInv, NEW h \in Host, NEW stage, Serving(h, stage), Calmly(h),
         (\E answer \in Answers : HostSet(h, CallEffect(h, answer))) \/ host' = host
  PROVE  FillIInv'
<1>1. /\ host[h] \in Process /\ req[h] \in Request
      /\ HostOK(h, host[h], accepted[h], maker, origin)
      /\ RequestOK(h, req[h], host[h], accepted[h], maker)
      /\ host \in [Host -> Process \cup {Nil}]
  BY Served
<1>2. CASE host' = host
  <2>1. HostSet(h, host[h])
    BY <1>1, <1>2 DEF HostSet
  <2> QED BY <1>1, <2>1, CalmKeeps
<1>3. ASSUME NEW answer \in Answers, HostSet(h, CallEffect(h, answer)) PROVE FillIInv'
  <2>1. CallEffect(h, answer) \in Process /\ Called(CallEffect(h, answer), host[h])
    BY <1>1, CallEffectCalled
  <2>2. HostOK(h, CallEffect(h, answer), accepted[h], maker, origin)
    BY <1>1, <2>1, CalledFits
  <2> QED BY <1>1, <1>3, <2>1, <2>2, CalmKeeps
<1> QED BY <1>2, <1>3
-----------------------------------------------------------------------------
(* The steps of a request, but those that change what was accepted or made.*)

LEMMA ListedRows ==
  ASSUME FillIInv
  PROVE  Listed \in Rows /\ \A i \in Item : origin[i] # Nil /\ ~ origin[i].archived => Listed[i] # Nil
BY DEF FillIInv, TypeOK, Listed, Rows

LEMMA AfterIndexCalm ==
  ASSUME FillIInv, NEW h \in Host, req[h] \in Request, AfterIndex(h)
  PROVE  GoesQuietly(h) \/ Reply(h)
<1>1. "match" \in QuietStages \ {"pull", "put"}
  BY DEF QuietStages
<1> QED BY <1>1, GoIsQuiet DEF AfterIndex

LEMMA IndexKeeps ==
  ASSUME FillIInv, NEW h \in Host, IndexKept(h) \/ IndexFromReplica(h) \/ IndexFromOrigin(h)
  PROVE  FillIInv'
<1>1. Serving(h, "index") /\ AfterIndex(h) /\ Elsewhere /\ UNCHANGED <<origin, boxFile>>
  BY DEF IndexKept, IndexFromReplica, IndexFromOrigin
<1>2. /\ host[h] \in Process /\ req[h] \in Request
      /\ HostOK(h, host[h], accepted[h], maker, origin)
      /\ RequestOK(h, req[h], host[h], accepted[h], maker)
  BY <1>1, Served
<1>3. Calmly(h)
  BY <1>1, <1>2, AfterIndexCalm DEF Calmly, Elsewhere
<1>4. CASE IndexKept(h)
  BY <1>1, <1>3, <1>4, CallKeeps DEF IndexKept
<1>5. CASE IndexFromReplica(h)
  <2> DEFINE q == [host[h] EXCEPT !.index = host[h].rows]
  <2>1. host[h].sealed
    <3>1. Present(NoRows) = {}
      BY DEF Present, NoRows
    <3> QED BY <1>2, <1>5, <3>1 DEF IndexFromReplica, Warm, HostOK
  <2>2. /\ q \in Process /\ q.sealed = host[h].sealed /\ q.rows = host[h].rows
        /\ q.window = host[h].window /\ q.made = host[h].made
    BY <1>2 DEF Process
  <2>3. HostSet(h, q)
    BY <1>5 DEF IndexFromReplica
  <2> HIDE DEF q
  <2>4. WindowOK(q, accepted[h]) /\ ClaimOK(h, q, maker) /\ IndexOK(q, origin)
    BY <1>2, <2>1, <2>2 DEF HostOK, WindowOK, ClaimOK, IndexOK
  <2>5. HostOK(h, q, accepted[h], maker, origin)
    BY <2>1, <2>2, <2>4 DEF HostOK
  <2> QED BY <1>2, <1>3, <2>2, <2>3, <2>5, CalmKeeps
<1>6. CASE IndexFromOrigin(h)
  <2>1. PICK answer \in Answers :
          HostSet(h, IF Heard(answer) THEN [CallEffect(h, answer) EXCEPT !.index = Listed]
                     ELSE CallEffect(h, answer))
    BY <1>6 DEF IndexFromOrigin
  <2>2. CASE ~ Heard(answer)
    BY <1>1, <1>3, <2>1, <2>2, CallKeeps
  <2>3. CASE Heard(answer)
    <3> DEFINE p == CallEffect(h, answer)
               q == [p EXCEPT !.index = Listed]
    <3>1. p \in Process /\ Called(p, host[h])
      BY <1>2, CallEffectCalled
    <3>2. HostSet(h, q)
      BY <2>1, <2>3
    <3> HIDE DEF p
    <3>3. /\ q \in Process /\ q.sealed = p.sealed /\ q.rows = p.rows
          /\ q.window = p.window /\ q.made = p.made /\ q.index = Listed
      BY <3>1, ListedRows DEF Process
    <3> HIDE DEF q
    <3>4. HostOK(h, p, accepted[h], maker, origin)
      BY <1>2, <3>1, CalledFits
    <3>5. WindowOK(q, accepted[h]) /\ ClaimOK(h, q, maker)
      BY <3>3, <3>4 DEF HostOK, WindowOK, ClaimOK
    <3>6. IndexOK(q, origin)
      <4>1. q.made # Nil => q.made.item \in Item
        BY <3>3 DEF Process
      <4> QED BY <3>3, <4>1, ListedRows DEF IndexOK
    <3>7. HostOK(h, q, accepted[h], maker, origin)
      BY <3>3, <3>4, <3>5, <3>6 DEF HostOK
    <3> QED BY <1>2, <1>3, <3>2, <3>3, <3>7, CalmKeeps
  <2> QED BY <2>2, <2>3
<1> QED BY <1>4, <1>5, <1>6

LEMMA MatchKeeps ==
  ASSUME FillIInv, NEW h \in Host,
         MatchAnswered(h) \/ MatchFill(h) \/ MatchMake(h) \/ MatchEnroll(h)
  PROVE  FillIInv'
<1>1. Serving(h, "match") /\ Unchanged
  BY DEF MatchAnswered, MatchFill, MatchMake, MatchEnroll
<1>2. req[h] \in Request
  BY <1>1, Served
<1>3. {"envelope", "ask"} \subseteq QuietStages \ {"pull", "put"}
  BY DEF QuietStages
<1>4. GoesQuietly(h) \/ Reply(h)
  <2>1. CASE MatchAnswered(h)
    BY <2>1 DEF MatchAnswered
  <2>2. CASE MatchFill(h)
    <3>1. CASE Reply(h)
      BY <3>1
    <3>2. CASE \E i \in FillHits(h) :
                 req' = [req EXCEPT ![h].uuid = i,
                                    ![h].stage = IF i \in Cards THEN "envelope" ELSE "ask"]
      <4>1. PICK i \in FillHits(h) :
                 req' = [req EXCEPT ![h].uuid = i,
                                    ![h].stage = IF i \in Cards THEN "envelope" ELSE "ask"]
        BY <3>2
      <4>2. i \in Item
        BY DEF FillHits, Matches, Present
      <4>3. req[h].op # "enroll"
        BY <2>2 DEF MatchFill
      <4>4. CASE i \in Cards
        <5>1. req' = [req EXCEPT ![h].uuid = i, ![h].stage = "envelope"]
          BY <4>1, <4>4
        <5> QED BY <1>2, <1>3, <4>2, <4>3, <5>1, GoIsQuiet
      <4>5. CASE i \notin Cards
        <5>1. req' = [req EXCEPT ![h].uuid = i, ![h].stage = "ask"]
          BY <4>1, <4>5
        <5> QED BY <1>2, <1>3, <4>2, <4>3, <5>1, GoIsQuiet
      <4> QED BY <4>4, <4>5
    <3> QED BY <2>2, <3>1, <3>2 DEF MatchFill
  <2>3. CASE MatchMake(h)
    BY <1>2, <1>3, <2>3, GoIsQuiet DEF MatchMake
  <2>4. CASE MatchEnroll(h)
    <3>1. CASE Reply(h)
      BY <3>1
    <3>2. CASE \E i \in EnrollTarget(h) : req' = [req EXCEPT ![h].uuid = i, ![h].stage = "ask"]
      <4>1. PICK i \in EnrollTarget(h) : req' = [req EXCEPT ![h].uuid = i, ![h].stage = "ask"]
        BY <3>2
      <4>2. i \in Item /\ i = req[h].uuid
        BY DEF EnrollTarget, Matches, Present
      <4> QED BY <1>2, <1>3, <4>1, <4>2, GoIsQuiet
    <3> QED BY <2>4, <3>1, <3>2 DEF MatchEnroll
  <2> QED BY <2>1, <2>2, <2>3, <2>4
<1>5. Calmly(h) /\ host' = host
  BY <1>1, <1>4 DEF Calmly, Unchanged, Elsewhere
<1> QED BY <1>1, <1>5, CallKeeps

\* The calls of the origin after which the request goes on or is answered.
LEMMA OriginKeeps ==
  ASSUME FillIInv, NEW h \in Host,
         \/ Envelope(h) \/ Fetch(h) \/ UnlockLocal(h) \/ UnlockAtOrigin(h)
         \/ Passkey(h) \/ Give(h)
  PROVE  FillIInv'
<1>1. PICK stage \in {"envelope", "fetch", "unlock", "passkey", "give"} : Serving(h, stage)
  BY DEF Envelope, Fetch, UnlockLocal, UnlockAtOrigin, Passkey, Give
<1>2. req[h] \in Request
  BY <1>1, Served
<1>3. "ask" \in QuietStages \ {"pull", "put"}
  BY DEF QuietStages
<1>4. Go(h, "ask") => GoesQuietly(h)
  BY <1>2, <1>3, GoIsQuiet
<1>5. Calmly(h)
  BY <1>4 DEF Envelope, Fetch, UnlockLocal, UnlockAtOrigin, Passkey, Give, Calmly, Elsewhere, Unchanged
<1>6. (\E answer \in Answers : HostSet(h, CallEffect(h, answer))) \/ host' = host
  BY DEF Envelope, Fetch, UnlockLocal, UnlockAtOrigin, Passkey, Give, Unchanged
<1> QED BY <1>1, <1>5, <1>6, CallKeeps

\* A process with new rows and no index.
LEMMA RowsFit ==
  ASSUME NEW h, NEW p \in Process, NEW acc, NEW mk, NEW org, HostOK(h, p, acc, mk, org),
         p.sealed
  PROVE  \A q \in Process :
           q.sealed = p.sealed /\ q.window = p.window /\ q.made = p.made => HostOK(h, q, acc, mk, org)
BY DEF HostOK, WindowOK, ClaimOK, IndexOK

LEMMA PullKeeps ==
  ASSUME FillIInv, NEW h \in Host, Pull(h)
  PROVE  FillIInv'
<1>1. Serving(h, "pull") /\ Elsewhere /\ UNCHANGED <<origin, boxFile>>
  BY DEF Pull
<1>2. /\ host[h] \in Process /\ req[h] \in Request /\ host[h].sealed
      /\ HostOK(h, host[h], accepted[h], maker, origin)
      /\ RequestOK(h, req[h], host[h], accepted[h], maker)
      /\ req \in [Host -> Request \cup {Nil}]
      /\ asks \in 0 .. MaxAsks /\ boxFile \in Rows
  BY <1>1, Served DEF RequestOK, StageOK
<1>3. PICK answer \in Answers :
        /\ HostSet(h, CallEffect(h, answer))
        /\ req' = [req EXCEPT ![h].stage = IF Heard(answer) THEN "put" ELSE "index",
                              ![h].pulled = IF Heard(answer) THEN Listed ELSE NoRows]
  BY DEF Pull
<1> DEFINE p == CallEffect(h, answer)
           r == [req[h] EXCEPT !.stage = IF Heard(answer) THEN "put" ELSE "index",
                               !.pulled = IF Heard(answer) THEN Listed ELSE NoRows]
<1>4. p \in Process /\ Called(p, host[h])
  BY <1>2, CallEffectCalled
<1>5. HostOK(h, p, accepted[h], maker, origin)
  BY <1>2, <1>4, CalledFits
<1>6. req' = [req EXCEPT ![h] = r]
  BY <1>2, <1>3
<1>7. r \in Request /\ Quietly(r, req[h])
  <2>1. Listed \in Rows /\ NoRows \in Rows
    BY ListedRows DEF NoRows, Rows
  <2> QED BY <1>2, <2>1 DEF Request, Quietly, QuietStages
<1>8. HostSet(h, p) /\ p.sealed
  BY <1>2, <1>3, <1>4 DEF Called
<1> HIDE DEF p, r
<1>9. RequestOK(h, r, p, accepted[h], maker)
  BY <1>2, <1>7, <1>8, QuietlyFits
<1> QED BY <1>1, <1>2, <1>4, <1>5, <1>6, <1>7, <1>8, <1>9, Keeps DEF Elsewhere

LEMMA PutKeeps ==
  ASSUME FillIInv, NEW h \in Host, (\E i \in Item : Put(h, i)) \/ PutFails(h) \/ PutDone(h)
  PROVE  FillIInv'
<1>1. Serving(h, "put") /\ Elsewhere /\ UNCHANGED origin
  BY DEF Put, PutFails, PutDone
<1>2. /\ host[h] \in Process /\ req[h] \in Request /\ host[h].sealed /\ req[h].stage = "put"
      /\ HostOK(h, host[h], accepted[h], maker, origin)
      /\ RequestOK(h, req[h], host[h], accepted[h], maker)
      /\ host \in [Host -> Process \cup {Nil}] /\ req \in [Host -> Request \cup {Nil}]
      /\ asks \in 0 .. MaxAsks /\ boxFile \in Rows
  BY <1>1, Served DEF RequestOK, StageOK
<1>3. "index" \in QuietStages \ {"pull", "put"}
  BY DEF QuietStages
<1>4. ASSUME NEW i \in Item, Put(h, i) PROVE FillIInv'
  <2> DEFINE rows == [host[h].rows EXCEPT ![i] = req[h].pulled[i]]
             pulled == [req[h].pulled EXCEPT ![i] = Nil]
             p == [host[h] EXCEPT !.rows = rows]
             r == [req[h] EXCEPT !.pulled = pulled]
  <2>1. rows \in Rows /\ pulled \in Rows
    BY <1>2 DEF Process, Request, Rows
  <2>2. /\ HostSet(h, p) /\ boxFile' = rows
        /\ req' = [req EXCEPT ![h].pulled[i] = Nil]
    BY <1>4 DEF Put
  <2>3. req' = [req EXCEPT ![h] = r]
    BY <1>2, <2>2
  <2> HIDE DEF rows, pulled
  <2>4. p \in Process /\ p.sealed = host[h].sealed /\ p.window = host[h].window /\ p.made = host[h].made
    BY <1>2, <2>1 DEF Process
  <2>5. r \in Request /\ Quietly(r, req[h]) /\ r.stage = "put"
    BY <1>2, <2>1 DEF Request, Quietly, QuietStages
  <2> HIDE DEF p, r
  <2>6. HostOK(h, p, accepted[h], maker, origin)
    BY <1>2, <2>4, RowsFit
  <2>7. RequestOK(h, r, p, accepted[h], maker)
    BY <1>2, <2>4, <2>5, QuietlyFits
  <2> QED BY <1>1, <1>2, <2>1, <2>2, <2>3, <2>4, <2>5, <2>6, <2>7, Keeps DEF Elsewhere
<1>5. CASE PutFails(h)
  <2>1. GoesQuietly(h)
    BY <1>2, <1>3, <1>5, GoIsQuiet DEF PutFails
  <2> QED BY <1>1, <1>5, <2>1, CallKeeps DEF PutFails, Calmly, Elsewhere
<1>6. CASE PutDone(h)
  <2> DEFINE p == [host[h] EXCEPT !.index = Nil]
  <2>1. GoesQuietly(h) /\ HostSet(h, p)
    BY <1>2, <1>3, <1>6, GoIsQuiet DEF PutDone
  <2>2. p \in Process /\ Called(p, host[h])
    BY <1>2 DEF Process, Called
  <2> HIDE DEF p
  <2>3. HostOK(h, p, accepted[h], maker, origin)
    BY <1>2, <2>2, CalledFits
  <2>4. Calmly(h)
    BY <1>1, <1>6, <2>1 DEF PutDone, Calmly, Elsewhere
  <2> QED BY <1>2, <2>1, <2>2, <2>3, <2>4, CalmKeeps
<1> QED BY <1>4, <1>5, <1>6
-----------------------------------------------------------------------------
(* Processes and messages that begin and end.                              *)

LEMMA LaunchKeeps ==
  ASSUME FillIInv, NEW h \in Host, Launch(h)
  PROVE  FillIInv'
<1>1. PICK sealed \in Platforms :
        /\ host' = [host EXCEPT ![h] =
             [sealed |-> sealed, rows |-> IF sealed THEN boxFile ELSE NoRows,
              index |-> Nil, window |-> Nil, needLogin |-> FALSE, made |-> Nil]]
        /\ req' = [req EXCEPT ![h] =
             IF sealed THEN NewRequest("attach", Nil, Nil, "pull") ELSE Nil]
  BY DEF Launch
<1> DEFINE p == [sealed |-> sealed, rows |-> IF sealed THEN boxFile ELSE NoRows,
                 index |-> Nil, window |-> Nil, needLogin |-> FALSE, made |-> Nil]
           new == NewRequest("attach", Nil, Nil, "pull")
           r == IF sealed THEN new ELSE Nil
<1>2. NoRows \in Rows /\ boxFile \in Rows /\ sealed \in BOOLEAN
  BY Bounds DEF FillIInv, TypeOK, NoRows, Rows
<1>3. p \in Process /\ HostOK(h, p, accepted[h], maker, origin)
  <2>1. p \in Process
    BY <1>2 DEF Process
  <2> QED BY <2>1 DEF HostOK, WindowOK, ClaimOK, IndexOK
<1>4. 0 \in 0 .. MaxClock
  BY Bounds
<1>5. new \in Request
  BY <1>2, <1>4 DEF NewRequest, Request
<1>6. sealed => RequestOK(h, new, p, accepted[h], maker)
  BY DEF NewRequest, RequestOK, StageOK, EnrollOK, AcceptOK, ActingStages
<1>7. HostSet(h, p) /\ req' = [req EXCEPT ![h] = r]
  BY <1>1 DEF HostSet
<1>8. asks' \in 0 .. MaxAsks
  BY Bounds DEF FillIInv, TypeOK, Launch
<1> HIDE DEF p, new
<1>9. r \in Request \cup {Nil} /\ (r # Nil => RequestOK(h, r, p, accepted[h], maker))
  BY <1>5, <1>6
<1> HIDE DEF r
<1> QED BY <1>2, <1>3, <1>7, <1>8, <1>9, Keeps DEF Launch

LEMMA StopKeeps ==
  ASSUME FillIInv, NEW h \in Host, Stop(h)
  PROVE  FillIInv'
<1>1. /\ host \in [Host -> Process \cup {Nil}] /\ req \in [Host -> Request \cup {Nil}]
      /\ accepted \in [Host -> Acceptance \cup {Nil}] /\ maker \in [Item -> Maker \cup {Nil}]
  BY DEF FillIInv, TypeOK
<1>2. /\ host'[h] = Nil /\ req'[h] = Nil
      /\ \A g \in Host \ {h} : host'[g] = host[g] /\ req'[g] = req[g] /\ accepted'[g] = accepted[g]
  BY <1>1 DEF Stop, Reply
<1>3. maker' \in [Item -> Maker \cup {Nil}] /\ \A g \in Host \ {h} : MakersStay(g, maker')
  BY <1>1 DEF Stop, MakersStay
<1>4. TypeOK'
  BY <1>1, <1>3 DEF FillIInv, TypeOK, Stop, Reply
<1>5. NoneReturns(origin')
  BY DEF Stop, NoneReturns
<1> QED BY <1>2, <1>3, <1>4, <1>5, Moves

\* The browser sends a message; a code alone names no site.
LEMMA ReceiveKeeps ==
  ASSUME FillIInv, NEW h \in Host, NEW op \in Ops, NEW s \in Site \cup {Nil},
         NEW uuid \in Item \cup {Nil}, s \in Site \/ op = "code", Receive(h, op, s, uuid)
  PROVE  FillIInv'
<1> DEFINE id == IF op = "enroll" THEN CreatedFor(h, s) ELSE uuid
           stage == FirstStage(h, op)
           r == NewRequest(op, s, id, stage)
<1>1. /\ host[h] \in Process /\ host \in [Host -> Process \cup {Nil}]
      /\ HostOK(h, host[h], accepted[h], maker, origin)
  BY HostTypes DEF FillIInv, HostsOK, TypeOK, Receive
<1>2. op = "enroll" => id \in Item /\ maker[id] = [host |-> h, site |-> s]
  <2>1. ASSUME op = "enroll" PROVE id \in Item /\ maker[id] = [host |-> h, site |-> s]
    <3>1. host[h].made # Nil /\ host[h].made.site = s /\ id = host[h].made.item
      BY <2>1 DEF Receive, CreatedFor
    <3> QED BY <1>1, <3>1 DEF Process, HostOK, ClaimOK
  <2> QED BY <2>1
<1>3. stage \in {"pull", "ask", "fetch", "index"} /\ (stage = "pull" => host[h].sealed)
  BY DEF FirstStage
<1>4. NoRows \in Rows /\ 0 \in 0 .. MaxClock /\ asks' \in 0 .. MaxAsks /\ boxFile \in Rows
  BY Bounds DEF FillIInv, TypeOK, NoRows, Rows, Receive
<1>5. req' = [req EXCEPT ![h] = r]
  BY DEF Receive
<1>6. id \in Item \cup {Nil}
  BY <1>2
<1> HIDE DEF id, stage
<1>7. r \in Request /\ r.op = op /\ r.site = s /\ r.uuid = id /\ r.stage = stage
  BY <1>3, <1>4, <1>6 DEF NewRequest, Request
<1> HIDE DEF r
<1>8. RequestOK(h, r, host[h], accepted[h], maker)
  <2>1. StageOK(r, host[h])
    BY <1>3, <1>7 DEF StageOK
  <2>2. EnrollOK(h, r, maker)
    BY <1>2, <1>7 DEF EnrollOK
  <2>3. AcceptOK(r, accepted[h])
    BY <1>3, <1>7 DEF AcceptOK, ActingStages
  <2> QED BY <2>1, <2>2, <2>3 DEF RequestOK
<1>9. HostSet(h, host[h])
  BY <1>1 DEF HostSet, Receive
<1> QED BY <1>1, <1>4, <1>5, <1>7, <1>8, <1>9, Keeps DEF Receive

-----------------------------------------------------------------------------
(* Host.confirm.                                                           *)

LEMMA ReusableMeans ==
  ASSUME NEW h
  PROVE  Reusable(h) <=> ~ NeverReused(req[h])
BY DEF Reusable, NeverReused

\* Where an accepted request goes.
LEMMA AfterConfirmActs ==
  ASSUME NEW h
  PROVE  /\ AfterConfirm(h) \in ActingStages
         /\ AfterConfirm(h) = "create" => req[h].op \in {"generate", "save"}
         /\ AfterConfirm(h) = "attach" => req[h].op = "enroll"
BY DEF AfterConfirm, ActingStages

\* An acceptance of time at lets request q pass at time now.
LEMMA PassedFits ==
  ASSUME NEW h \in Host, FillIInv, req[h] # Nil, NEW q, NEW acc, NEW p,
         q.op = req[h].op, q.site = req[h].site, q.uuid = req[h].uuid,
         q.stage = AfterConfirm(h), acc # Nil, acc.site = q.site \/ q.op = "code",
         q.passed - acc.at < Reuse, NeverReused(q) => q.asked
  PROVE  RequestOK(h, q, p, acc, maker)
<1>1. RequestOK(h, req[h], host[h], accepted[h], maker)
  BY DEF FillIInv, RequestsOK
<1>2. StageOK(q, p)
  BY <1>1, AfterConfirmActs DEF RequestOK, StageOK, ActingStages
<1>3. EnrollOK(h, q, maker)
  BY <1>1 DEF RequestOK, EnrollOK
<1>4. AcceptOK(q, acc)
  BY DEF AcceptOK
<1> QED BY <1>2, <1>3, <1>4 DEF RequestOK

LEMMA AskKeeps ==
  ASSUME FillIInv, NEW h \in Host, Ask(h)
  PROVE  FillIInv'
<1>1. /\ host[h] \in Process /\ req[h] \in Request /\ req[h] # Nil /\ Serving(h, "ask")
      /\ HostOK(h, host[h], accepted[h], maker, origin)
      /\ host \in [Host -> Process \cup {Nil}] /\ req \in [Host -> Request \cup {Nil}]
      /\ asks \in 0 .. MaxAsks /\ boxFile \in Rows /\ clock \in 0 .. MaxClock /\ clock \in Nat
  BY Served DEF Ask, Serving
<1>2. CASE WindowOpen(h)
  <2> DEFINE q == [req[h] EXCEPT !.stage = AfterConfirm(h), !.passed = clock]
             acc == accepted[h]
  <2>1. /\ ~ NeverReused(req[h]) /\ acc # Nil /\ acc \in Acceptance
        /\ acc.site = Scope(h) /\ host[h].window.until = acc.at + Reuse
        /\ clock < host[h].window.until
    BY <1>1, <1>2, ReusableMeans, HostTypes DEF FillIInv, WindowOpen, HostOK, WindowOK
  <2>2. clock - acc.at < Reuse
    <3>1. acc.at \in Nat /\ Reuse \in Nat
      BY <2>1, Bounds DEF Acceptance
    <3> HIDE DEF acc
    <3> QED BY <1>1, <2>1, <3>1
  <2>3. req' = [req EXCEPT ![h] = q]
    BY <1>1, <1>2 DEF Ask
  <2>4. /\ q \in Request /\ q.op = req[h].op /\ q.site = req[h].site /\ q.uuid = req[h].uuid
        /\ q.stage = AfterConfirm(h) /\ q.passed = clock
    BY <1>1, AfterConfirmActs DEF Request, ActingStages
  <2>5. acc.site = q.site \/ q.op = "code"
    BY <2>1, <2>4 DEF Scope
  <2>6. ~ NeverReused(q)
    BY <2>1, <2>4 DEF NeverReused
  <2> HIDE DEF q
  <2>7. RequestOK(h, q, host[h], acc, maker)
    BY <1>1, <2>1, <2>2, <2>4, <2>5, <2>6, PassedFits
  <2>8. HostSet(h, host[h])
    BY <1>1 DEF HostSet, Ask
  <2> QED BY <1>1, <2>3, <2>4, <2>7, <2>8, Keeps DEF Ask, Elsewhere
<1>3. CASE ~ WindowOpen(h)
  <2>1. Go(h, "prompt")
    BY <1>3 DEF Ask, Go
  <2>2. GoesQuietly(h)
    <3>1. "prompt" \in QuietStages \ {"pull", "put"}
      BY DEF QuietStages
    <3> QED BY <1>1, <2>1, <3>1, GoIsQuiet
  <2> QED BY <1>1, <2>2, CallKeeps DEF Ask, Calmly, Elsewhere
<1> QED BY <1>2, <1>3

LEMMA AcceptKeeps ==
  ASSUME FillIInv, NEW h \in Host, Accept(h)
  PROVE  FillIInv'
<1>1. /\ host[h] \in Process /\ req[h] \in Request /\ req[h] # Nil /\ Serving(h, "prompt")
      /\ HostOK(h, host[h], accepted[h], maker, origin)
      /\ RequestOK(h, req[h], host[h], accepted[h], maker)
      /\ host \in [Host -> Process \cup {Nil}] /\ req \in [Host -> Request \cup {Nil}]
      /\ clock \in 0 .. MaxClock /\ clock \in Nat
  BY Served DEF Accept, Serving
<1> DEFINE scope == Scope(h)
           w == IF Reusable(h) /\ scope # Nil
                THEN [site |-> scope, until |-> clock + Reuse] ELSE Nil
           p == [host[h] EXCEPT !.window = w]
           q == [req[h] EXCEPT !.stage = AfterConfirm(h), !.asked = TRUE, !.passed = clock]
           acc == [site |-> scope, at |-> clock]
<1>2. scope \in Site \cup {Nil} /\ (req[h].op # "code" => scope = req[h].site)
  BY <1>1 DEF Scope, Request, Process
<1>3. /\ HostSet(h, p) /\ accepted' = [accepted EXCEPT ![h] = acc]
      /\ req' = [req EXCEPT ![h] = q] /\ UNCHANGED <<clock, edits, asks, origin, boxFile, maker>>
  BY <1>1 DEF Accept
<1> HIDE DEF scope
<1>4. acc \in Acceptance /\ acc # Nil /\ acc.site = scope /\ acc.at = clock
  BY <1>1, <1>2, Bounds DEF Acceptance
<1>5. w \in [site : Site, until : Nat] \cup {Nil}
        /\ (w # Nil => w.site = scope /\ w.until = clock + Reuse)
  <2>1. clock + Reuse \in Nat
    BY <1>1, Bounds
  <2> QED BY <1>2, <2>1
<1> HIDE DEF w, acc
<1>6. /\ p \in Process /\ p.sealed = host[h].sealed /\ p.rows = host[h].rows
      /\ p.made = host[h].made /\ p.index = host[h].index /\ p.window = w
  BY <1>1, <1>5 DEF Process
<1>7. /\ q \in Request /\ q.op = req[h].op /\ q.site = req[h].site /\ q.uuid = req[h].uuid
      /\ q.stage = AfterConfirm(h) /\ q.passed = clock /\ q.asked = TRUE
  BY <1>1, AfterConfirmActs DEF Request, ActingStages
<1> HIDE DEF p, q
<1>8. HostOK(h, p, acc, maker, origin)
  <2>1. WindowOK(p, acc)
    BY <1>4, <1>5, <1>6 DEF WindowOK
  <2>2. ClaimOK(h, p, maker) /\ IndexOK(p, origin)
    BY <1>1, <1>6 DEF HostOK, ClaimOK, IndexOK
  <2> QED BY <1>1, <1>6, <2>1, <2>2 DEF HostOK
<1>9. RequestOK(h, q, p, acc, maker)
  <2>1. q.passed - acc.at < Reuse
    <3>1. clock - clock < Reuse
      BY <1>1, Bounds
    <3> QED BY <1>4, <1>7, <3>1
  <2> QED BY <1>1, <1>2, <1>4, <1>7, <2>1, PassedFits
<1>10. TypeOK'
  BY <1>3, <1>4, <1>6, <1>7 DEF FillIInv, TypeOK, HostSet
<1>11. /\ host'[h] = p /\ req'[h] = q /\ accepted'[h] = acc
       /\ \A g \in Host \ {h} : host'[g] = host[g] /\ req'[g] = req[g] /\ accepted'[g] = accepted[g]
  BY <1>3 DEF FillIInv, TypeOK, HostSet
<1>12. NoneReturns(origin') /\ \A g \in Host : MakersStay(g, maker')
  BY <1>3 DEF NoneReturns, MakersStay
<1> QED BY <1>3, <1>6, <1>8, <1>9, <1>10, <1>11, <1>12, Moves

LEMMA DenyKeeps ==
  ASSUME FillIInv, NEW h \in Host, Deny(h)
  PROVE  FillIInv'
<1>1. /\ host[h] \in Process /\ Serving(h, "prompt")
      /\ HostOK(h, host[h], accepted[h], maker, origin)
  BY Served DEF Deny
<1> DEFINE p == [host[h] EXCEPT !.window = Nil]
<1>2. /\ p \in Process /\ p.sealed = host[h].sealed /\ p.rows = host[h].rows
      /\ p.made = host[h].made /\ p.index = host[h].index /\ p.window = Nil
  BY <1>1 DEF Process
<1>3. /\ HostSet(h, p) /\ accepted' = [accepted EXCEPT ![h] = Nil]
      /\ req' = [req EXCEPT ![h] = Nil] /\ UNCHANGED <<clock, edits, asks, origin, boxFile, maker>>
  BY DEF Deny, Reply
<1> HIDE DEF p
<1>4. HostOK(h, p, Nil, maker, origin)
  BY <1>1, <1>2 DEF HostOK, WindowOK, ClaimOK, IndexOK
<1>5. TypeOK'
  BY <1>2, <1>3 DEF FillIInv, TypeOK, HostSet
<1>6. /\ host'[h] = p /\ req'[h] = Nil /\ accepted'[h] = Nil
      /\ \A g \in Host \ {h} : host'[g] = host[g] /\ req'[g] = req[g] /\ accepted'[g] = accepted[g]
  BY <1>3 DEF FillIInv, TypeOK, HostSet
<1>7. NoneReturns(origin') /\ \A g \in Host : MakersStay(g, maker')
  BY <1>3 DEF NoneReturns, MakersStay
<1> QED BY <1>3, <1>4, <1>5, <1>6, <1>7, Moves
-----------------------------------------------------------------------------
(* What is made, enrolled and edited at the origin.                        *)

LEMMA CreateKeeps ==
  ASSUME FillIInv, NEW h \in Host, NEW i \in Item, Create(h, i)
  PROVE  FillIInv'
<1>1. /\ host[h] \in Process /\ req[h] \in Request /\ req[h].stage = "create"
      /\ HostOK(h, host[h], accepted[h], maker, origin)
      /\ RequestOK(h, req[h], host[h], accepted[h], maker)
      /\ maker \in [Item -> Maker \cup {Nil}] /\ origin \in Rows
  BY Served DEF Create, FillIInv, TypeOK
<1>2. req[h].site \in Site
  BY <1>1 DEF RequestOK, StageOK
<1>3. PICK answer \in Answers :
        /\ HostSet(h, Remember(h, i, answer))
        /\ origin' = IF Done(answer)
                     THEN [origin EXCEPT ![i] = [sites |-> {req[h].site},
                                                 archived |-> FALSE, seed |-> "none"]]
                     ELSE origin
        /\ maker' = IF Done(answer)
                    THEN [maker EXCEPT ![i] = [host |-> h, site |-> req[h].site]]
                    ELSE maker
  BY DEF Create
<1>4. maker[i] = Nil /\ UNCHANGED <<clock, edits, asks, boxFile, accepted>>
        /\ req' = [req EXCEPT ![h] = Nil]
  BY DEF Create, Reply
<1> DEFINE c == CallEffect(h, answer)
           p == Remember(h, i, answer)
<1>5. c \in Process /\ Called(c, host[h])
  BY <1>1, CallEffectCalled
<1>6. HostOK(h, c, accepted[h], maker, origin)
  BY <1>1, <1>5, CalledFits
<1>7. \A g \in Host : MakersStay(g, maker')
  BY <1>1, <1>3, <1>4 DEF MakersStay
<1>8. NoneReturns(origin')
  BY <1>1, <1>3, <1>4 DEF NoneReturns, Rows
<1>9. ASSUME NEW j \in Item, maker[j] # Nil PROVE maker'[j] = maker[j]
  BY <1>1, <1>3, <1>4, <1>9
<1>10. p \in Process /\ HostOK(h, p, accepted[h], maker', origin')
  <2>1. CASE Heard(answer)
    <3> DEFINE m == [site |-> req[h].site, item |-> i]
               q == [c EXCEPT !.index = Nil, !.made = m]
    <3>1. p = q
      BY <2>1 DEF Remember
    <3>2. m \in [site : Site, item : Item] /\ m.site = req[h].site /\ m.item = i
      BY <1>2
    <3> HIDE DEF c, m
    <3>3. /\ q \in Process /\ q.sealed = c.sealed /\ q.rows = c.rows
          /\ q.window = c.window /\ q.made = m /\ q.index = Nil
      BY <1>5, <3>2 DEF Process
    <3> HIDE DEF q
    <3>4. maker'[i] = [host |-> h, site |-> req[h].site]
      BY <1>1, <1>3, <2>1 DEF Heard, Done
    <3>5. ClaimOK(h, q, maker')
      BY <3>2, <3>3, <3>4 DEF ClaimOK
    <3>6. WindowOK(q, accepted[h]) /\ IndexOK(q, origin')
      BY <1>6, <3>3 DEF HostOK, WindowOK, IndexOK
    <3> QED BY <1>6, <3>1, <3>3, <3>5, <3>6 DEF HostOK
  <2>2. CASE ~ Heard(answer)
    <3>1. p = c
      BY <2>2 DEF Remember
    <3> HIDE DEF c
    <3>2. ASSUME c.made # Nil
          PROVE  c.made.item \in Item /\ maker[c.made.item] # Nil
                   /\ maker[c.made.item] = [host |-> h, site |-> c.made.site]
      <4>1. c.made.item \in Item /\ c.made.site \in Site
              /\ maker[c.made.item] = [host |-> h, site |-> c.made.site]
        BY <1>5, <1>6, <3>2 DEF Process, HostOK, ClaimOK
      <4>2. maker[c.made.item] \in Maker
        BY <4>1 DEF Maker
      <4> QED BY <4>1, <4>2, Bounds
    <3>3. ClaimOK(h, c, maker')
      BY <1>9, <3>2 DEF ClaimOK
    <3>4. IndexOK(c, origin')
      BY <1>6, <1>8, <3>2 DEF HostOK, IndexOK, NoneReturns
    <3> QED BY <1>5, <1>6, <3>1, <3>3, <3>4 DEF HostOK
  <2> QED BY <2>1, <2>2
<1>11. TypeOK'
  <2>1. host' \in [Host -> Process \cup {Nil}]
    BY <1>3, <1>10 DEF HostSet, FillIInv, TypeOK
  <2>2. origin' \in Rows
    <3>1. [sites |-> {req[h].site}, archived |-> FALSE, seed |-> "none"] \in Row
      BY <1>2 DEF Row
    <3> QED BY <1>1, <1>3, <3>1 DEF Rows
  <2>3. maker' \in [Item -> Maker \cup {Nil}]
    <3>1. [host |-> h, site |-> req[h].site] \in Maker
      BY <1>2 DEF Maker
    <3> QED BY <1>1, <1>3, <3>1
  <2> QED BY <1>4, <2>1, <2>2, <2>3 DEF FillIInv, TypeOK
<1>12. /\ host'[h] = p /\ req'[h] = Nil /\ accepted'[h] = accepted[h]
       /\ \A g \in Host \ {h} : host'[g] = host[g] /\ req'[g] = req[g] /\ accepted'[g] = accepted[g]
  BY <1>3, <1>4 DEF FillIInv, TypeOK, HostSet
<1> QED BY <1>7, <1>8, <1>10, <1>11, <1>12, Moves

LEMMA AttachKeeps ==
  ASSUME FillIInv, NEW h \in Host, Attach(h)
  PROVE  FillIInv'
<1>1. /\ host[h] \in Process /\ req[h] \in Request
      /\ HostOK(h, host[h], accepted[h], maker, origin) /\ origin \in Rows
  BY Served DEF Attach
<1> DEFINE i == req[h].uuid
<1>2. PICK answer \in Answers :
        /\ Done(answer) => MayAttach(i)
        /\ HostSet(h, IF Heard(answer)
                      THEN [CallEffect(h, answer) EXCEPT !.index = Nil, !.made = Nil]
                      ELSE CallEffect(h, answer))
        /\ origin' = IF Done(answer) THEN [origin EXCEPT ![i].seed = "page"] ELSE origin
  BY DEF Attach
<1>3. UNCHANGED <<clock, edits, asks, boxFile, accepted, maker>> /\ req' = [req EXCEPT ![h] = Nil]
  BY DEF Attach, Reply, Elsewhere
<1> DEFINE c == CallEffect(h, answer)
           q == [c EXCEPT !.index = Nil, !.made = Nil]
           p == IF Heard(answer) THEN q ELSE c
<1>4. c \in Process /\ Called(c, host[h])
  BY <1>1, CallEffectCalled
<1>5. HostOK(h, c, accepted[h], maker, origin)
  BY <1>1, <1>4, CalledFits
<1>6. HostSet(h, p)
  BY <1>2
<1>7. origin' \in Rows
        /\ \A j \in Item : origin'[j] # Nil /\ ~ origin'[j].archived =>
             origin[j] # Nil /\ ~ origin[j].archived
  <2>1. CASE Done(answer) /\ i \in Item
    <3>1. origin[i] \in Row /\ origin[i] # Nil
      BY <1>1, <1>2, <2>1 DEF MayAttach, Rows
    <3>2. [origin[i] EXCEPT !.seed = "page"] \in Row
            /\ [origin[i] EXCEPT !.seed = "page"].archived = origin[i].archived
      BY <3>1 DEF Row
    <3>3. origin' = [origin EXCEPT ![i] = [origin[i] EXCEPT !.seed = "page"]]
      BY <1>2, <2>1
    <3> QED BY <1>1, <3>1, <3>2, <3>3 DEF Rows
  <2>2. CASE ~ (Done(answer) /\ i \in Item)
    BY <1>1, <1>2, <2>2 DEF Rows
  <2> QED BY <2>1, <2>2
<1>8. \A g \in Host : MakersStay(g, maker')
  BY <1>3 DEF MakersStay
<1>9. NoneReturns(origin')
  BY <1>7 DEF NoneReturns
<1> HIDE DEF c
<1>10. /\ q \in Process /\ q.sealed = c.sealed /\ q.rows = c.rows
       /\ q.window = c.window /\ q.made = Nil /\ q.index = Nil
  BY <1>4 DEF Process
<1> HIDE DEF q
<1>11. HostOK(h, q, accepted[h], maker, origin')
  BY <1>5, <1>10 DEF HostOK, WindowOK, ClaimOK, IndexOK
<1>12. HostOK(h, c, accepted[h], maker, origin')
  <2>1. c.made # Nil => c.made.item \in Item
    BY <1>4 DEF Process
  <2>2. IndexOK(c, origin')
    BY <1>5, <1>7, <2>1 DEF HostOK, IndexOK
  <2> QED BY <1>5, <2>2 DEF HostOK
<1>13. p \in Process /\ HostOK(h, p, accepted[h], maker, origin')
  BY <1>4, <1>10, <1>11, <1>12
<1> HIDE DEF p
<1>14. TypeOK'
  BY <1>3, <1>6, <1>7, <1>13 DEF FillIInv, TypeOK, HostSet
<1>15. /\ host'[h] = p /\ req'[h] = Nil /\ accepted'[h] = accepted[h]
       /\ \A g \in Host \ {h} : host'[g] = host[g] /\ req'[g] = req[g] /\ accepted'[g] = accepted[g]
  BY <1>3, <1>6 DEF FillIInv, TypeOK, HostSet
<1> QED BY <1>3, <1>8, <1>9, <1>13, <1>14, <1>15, Moves

\* The others at the origin, and the clock.
LEMMA WorldKeeps ==
  ASSUME FillIInv, Edit \/ Tick \/ UNCHANGED vars
  PROVE  FillIInv'
<1>1. UNCHANGED <<host, req, accepted, maker>>
  BY DEF Edit, Tick, vars
<1>2. TypeOK'
  <2>1. CASE Edit
    <3>1. origin \in Rows /\ edits' \in 0 .. MaxEdits
      BY <2>1, Bounds DEF FillIInv, TypeOK, Edit
    <3>2. origin' \in Rows
      <4>1. PICK i \in Item :
               \/ \E sites \in {{}} \cup {{s} : s \in Site} :
                    origin' = [origin EXCEPT ![i] = [sites |-> sites, archived |-> FALSE,
                                                     seed |-> "none"]]
               \/ /\ origin[i] # Nil
                  /\ origin' \in {[origin EXCEPT ![i].archived = TRUE],
                                  [origin EXCEPT ![i].seed = "owner"],
                                  [origin EXCEPT ![i] = Nil]}
        BY <2>1 DEF Edit
      <4>2. CASE \E sites \in {{}} \cup {{s} : s \in Site} :
                    origin' = [origin EXCEPT ![i] = [sites |-> sites, archived |-> FALSE,
                                                     seed |-> "none"]]
        <5>1. PICK sites \in SUBSET Site :
                    origin' = [origin EXCEPT ![i] = [sites |-> sites, archived |-> FALSE,
                                                     seed |-> "none"]]
          BY <4>2
        <5>2. [sites |-> sites, archived |-> FALSE, seed |-> "none"] \in Row
          BY DEF Row
        <5> QED BY <3>1, <5>1, <5>2 DEF Rows
      <4>3. CASE /\ origin[i] # Nil
                 /\ origin' \in {[origin EXCEPT ![i].archived = TRUE],
                                 [origin EXCEPT ![i].seed = "owner"],
                                 [origin EXCEPT ![i] = Nil]}
        <5>1. origin[i] \in Row
          BY <3>1, <4>3 DEF Rows
        <5>2. [origin[i] EXCEPT !.archived = TRUE] \in Row /\ [origin[i] EXCEPT !.seed = "owner"] \in Row
          BY <5>1 DEF Row
        <5>3. \/ origin' = [origin EXCEPT ![i] = [origin[i] EXCEPT !.archived = TRUE]]
              \/ origin' = [origin EXCEPT ![i] = [origin[i] EXCEPT !.seed = "owner"]]
              \/ origin' = [origin EXCEPT ![i] = Nil]
          BY <4>3
        <5> QED BY <3>1, <5>2, <5>3 DEF Rows
      <4> QED BY <4>1, <4>2, <4>3
    <3> QED BY <1>1, <2>1, <3>1, <3>2 DEF FillIInv, TypeOK, Edit
  <2>2. CASE Tick
    BY <2>2, Bounds DEF FillIInv, TypeOK, Tick
  <2>3. CASE UNCHANGED vars
    BY <2>3 DEF FillIInv, TypeOK, vars
  <2> QED BY <2>1, <2>2, <2>3
<1>3. NoneReturns(origin')
  <2>1. CASE Edit
    <3>1. PICK i \in Item :
             \/ maker[i] = Nil /\ \A j \in Item \ {i} : origin'[j] = origin[j]
             \/ /\ origin[i] # Nil /\ \A j \in Item \ {i} : origin'[j] = origin[j]
                /\ origin'[i] = Nil \/ origin'[i].archived \/ origin'[i].archived = origin[i].archived
      <4>1. origin \in Rows
        BY DEF FillIInv, TypeOK
      <4>2. PICK i \in Item :
               \/ /\ maker[i] = Nil
                  /\ \E x : origin' = [origin EXCEPT ![i] = x]
               \/ /\ origin[i] # Nil
                  /\ origin' \in {[origin EXCEPT ![i].archived = TRUE],
                                  [origin EXCEPT ![i].seed = "owner"],
                                  [origin EXCEPT ![i] = Nil]}
        BY <2>1 DEF Edit
      <4>3. CASE maker[i] = Nil /\ \E x : origin' = [origin EXCEPT ![i] = x]
        BY <4>1, <4>3 DEF Rows
      <4>4. CASE origin[i] # Nil /\ origin' = [origin EXCEPT ![i].archived = TRUE]
        BY <4>1, <4>4 DEF Rows, Row
      <4>5. CASE origin[i] # Nil /\ origin' = [origin EXCEPT ![i].seed = "owner"]
        BY <4>1, <4>5 DEF Rows, Row
      <4>6. CASE origin[i] # Nil /\ origin' = [origin EXCEPT ![i] = Nil]
        BY <4>1, <4>6 DEF Rows
      <4> QED BY <4>2, <4>3, <4>4, <4>5, <4>6
    <3>2. CASE maker[i] = Nil /\ \A j \in Item \ {i} : origin'[j] = origin[j]
      BY <3>2 DEF NoneReturns
    <3>3. CASE /\ origin[i] # Nil /\ \A j \in Item \ {i} : origin'[j] = origin[j]
               /\ origin'[i] = Nil \/ origin'[i].archived \/ origin'[i].archived = origin[i].archived
      BY <3>3 DEF NoneReturns
    <3> QED BY <3>1, <3>2, <3>3
  <2>2. CASE Tick \/ UNCHANGED vars
    BY <2>2 DEF NoneReturns, Tick, vars
  <2> QED BY <2>1, <2>2
<1>4. \A g \in Host : MakersStay(g, maker')
  BY <1>1 DEF MakersStay
<1>5. CASE Host = {}
  BY <1>2, <1>5 DEF FillIInv, HostsOK, RequestsOK
<1>6. ASSUME NEW h \in Host PROVE FillIInv'
  <2>1. host'[h] # Nil => HostOK(h, host'[h], accepted'[h], maker', origin')
    BY <1>1, <1>3, <1>4, ProcessStands
  <2>2. req'[h] # Nil => host'[h] \in Process /\ RequestOK(h, req'[h], host'[h], accepted'[h], maker')
    BY <1>1, <1>4, RequestStands DEF FillIInv, RequestsOK
  <2> QED BY <1>1, <1>2, <1>3, <1>4, <2>1, <2>2, Moves
<1> QED BY <1>5, <1>6

LEMMA HostStepKeeps ==
  ASSUME FillIInv, NEW h \in Host, HostStep(h)
  PROVE  FillIInv'
<1>1. CASE Launch(h) \/ Stop(h)
  BY <1>1, LaunchKeeps, StopKeeps
<1>2. CASE \/ \E op \in Ops \ {"code"}, s \in Site : Receive(h, op, s, Nil)
           \/ \E s \in Site, i \in Item : "fill" \in Ops /\ Receive(h, "fill", s, i)
           \/ \E i \in Item : "code" \in Ops /\ Receive(h, "code", Nil, i)
  <2>1. ASSUME NEW op \in Ops \ {"code"}, NEW s \in Site, Receive(h, op, s, Nil) PROVE FillIInv'
    <3>1. s \in Site \cup {Nil} /\ Nil \in Item \cup {Nil}
      OBVIOUS
    <3> QED BY <2>1, <3>1, ReceiveKeeps
  <2>2. ASSUME NEW s \in Site, NEW i \in Item, "fill" \in Ops, Receive(h, "fill", s, i) PROVE FillIInv'
    <3>1. s \in Site \cup {Nil} /\ i \in Item \cup {Nil}
      OBVIOUS
    <3> QED BY <2>2, <3>1, ReceiveKeeps
  <2>3. ASSUME NEW i \in Item, "code" \in Ops, Receive(h, "code", Nil, i) PROVE FillIInv'
    <3>1. Nil \in Site \cup {Nil} /\ i \in Item \cup {Nil}
      OBVIOUS
    <3> QED BY <2>3, <3>1, ReceiveKeeps
  <2> QED BY <1>2, <2>1, <2>2, <2>3
<1>3. CASE Pull(h) \/ PutFails(h) \/ PutDone(h) \/ \E i \in Item : Put(h, i)
  BY <1>3, PullKeeps, PutKeeps
<1>4. CASE IndexKept(h) \/ IndexFromReplica(h) \/ IndexFromOrigin(h)
  BY <1>4, IndexKeeps
<1>5. CASE MatchAnswered(h) \/ MatchFill(h) \/ MatchMake(h) \/ MatchEnroll(h)
  BY <1>5, MatchKeeps
<1>6. CASE Ask(h) \/ Accept(h) \/ Deny(h)
  BY <1>6, AskKeeps, AcceptKeeps, DenyKeeps
<1>7. CASE \/ Envelope(h) \/ Fetch(h) \/ UnlockLocal(h) \/ UnlockAtOrigin(h)
           \/ Passkey(h) \/ Give(h)
  BY <1>7, OriginKeeps
<1>8. CASE Attach(h) \/ \E i \in Item : Create(h, i)
  BY <1>8, AttachKeeps, CreateKeeps
<1> QED BY <1>1, <1>2, <1>3, <1>4, <1>5, <1>6, <1>7, <1>8 DEF HostStep

LEMMA FillStepKeeps ==
  ASSUME FillIInv, [Next]_vars
  PROVE  FillIInv'
BY HostStepKeeps, WorldKeeps DEF Next

LEMMA FillInitFits ==
  ASSUME Init
  PROVE  FillIInv
<1>1. TypeOK
  <2>1. NoRows \in Rows /\ 0 \in 0 .. MaxClock /\ 0 \in 0 .. MaxEdits /\ 0 \in 0 .. MaxAsks
    BY Bounds DEF NoRows, Rows
  <2>2. origin \in Rows
    <3> DEFINE first == [sites : {{s} : s \in Site}, archived : {FALSE}, seed : {"none"}]
    <3>1. origin \in [Item -> first \cup {Nil}]
      BY DEF Init
    <3>2. ASSUME NEW r \in first PROVE r \in Row
      BY <3>2 DEF Row
    <3>3. first \subseteq Row
      BY <3>2
    <3> HIDE DEF first
    <3> QED BY <3>1, <3>3 DEF Rows
  <2> QED BY <2>1, <2>2 DEF Init, TypeOK
<1>2. HostsOK /\ RequestsOK
  BY DEF Init, HostsOK, RequestsOK
<1> QED BY <1>1, <1>2 DEF FillIInv

\* What the proofs below rest on.
THEOREM FillIInvHolds == Spec => []FillIInv
<1>1. Init => FillIInv
  BY FillInitFits
<1>2. FillIInv /\ [Next]_vars => FillIInv'
  BY FillStepKeeps
<1> QED BY <1>1, <1>2, PTL DEF Spec

-----------------------------------------------------------------------------
(* What the human accepted.                                                *)

\* A secret or a passkey is opened for a page, a login made or a seed put in
\* only if the human accepted on this host, last, for that site, less than
\* confirmReuse before the request passed, and in the same request if it is
\* one that is never reused.
THEOREM ActsAreAcceptedHolds == Spec => ActsAreAccepted
<1>1. FillIInv /\ [Next]_vars
        => [\A h \in Host : Acts(h) =>
              /\ accepted[h] # Nil
              /\ accepted[h].site = req[h].site \/ req[h].op = "code"
              /\ req[h].passed - accepted[h].at < Reuse
              /\ Reusable(h) \/ req[h].asked]_vars
  <2> SUFFICES ASSUME FillIInv, NEW h \in Host, Acts(h)
               PROVE  /\ accepted[h] # Nil
                      /\ accepted[h].site = req[h].site \/ req[h].op = "code"
                      /\ req[h].passed - accepted[h].at < Reuse
                      /\ Reusable(h) \/ req[h].asked
    OBVIOUS
  <2>1. req[h] # Nil /\ req[h].stage \in ActingStages
    BY DEF Acts, UnlockLocal, UnlockAtOrigin, Attach, Passkey, Give, Create, Serving, ActingStages
  <2>2. AcceptOK(req[h], accepted[h])
    BY <2>1 DEF FillIInv, RequestsOK, RequestOK
  <2> QED BY <2>1, <2>2, ReusableMeans DEF AcceptOK
<1> QED BY <1>1, FillIInvHolds, PTL DEF Spec, ActsAreAccepted

-----------------------------------------------------------------------------
(* Where a page's seed gets.                                               *)

\* Most steps of a host leave the origin's items alone.
LEMMA OnlyTheseWrite ==
  ASSUME NEW h \in Host, HostStep(h), origin' # origin
  PROVE  Attach(h) \/ \E i \in Item : Create(h, i)
<1>1. ~ (Launch(h) \/ Stop(h))
  BY DEF Launch, Stop
<1>2. /\ ~ \E op \in Ops \ {"code"}, s \in Site : Receive(h, op, s, Nil)
      /\ ~ \E s \in Site, i \in Item : "fill" \in Ops /\ Receive(h, "fill", s, i)
      /\ ~ \E i \in Item : "code" \in Ops /\ Receive(h, "code", Nil, i)
  BY DEF Receive
<1>3. ~ (Pull(h) \/ PutFails(h) \/ PutDone(h) \/ \E i \in Item : Put(h, i))
  BY DEF Pull, PutFails, PutDone, Put
<1>4. ~ (\/ IndexKept(h) \/ IndexFromReplica(h) \/ IndexFromOrigin(h)
         \/ MatchAnswered(h) \/ MatchFill(h) \/ MatchMake(h) \/ MatchEnroll(h))
  BY DEF IndexKept, IndexFromReplica, IndexFromOrigin, MatchAnswered, MatchFill, MatchMake,
         MatchEnroll, Unchanged
<1>5. ~ (\/ Envelope(h) \/ Fetch(h) \/ Ask(h) \/ Accept(h) \/ Deny(h)
         \/ UnlockLocal(h) \/ UnlockAtOrigin(h) \/ Passkey(h) \/ Give(h))
  BY DEF Envelope, Fetch, Ask, Accept, Deny, UnlockLocal, UnlockAtOrigin, Passkey, Give, Unchanged
<1> QED BY <1>1, <1>2, <1>3, <1>4, <1>5 DEF HostStep

\* An enrolment writes the seed into the login its request names.
LEMMA AttachEnrolls ==
  ASSUME FillIInv, NEW h \in Host, Attach(h), NEW j \in Item, origin'[j] # origin[j]
  PROVE  /\ origin[j] # Nil /\ origin[j].seed = "none"
         /\ maker[j] = [host |-> h, site |-> req[h].site] /\ req[h].asked
<1> DEFINE r == req[h]
<1>1. r # Nil /\ r.stage = "attach" /\ RequestOK(h, r, host[h], accepted[h], maker)
  BY DEF FillIInv, RequestsOK, Attach, Serving
<1>2. r.op = "enroll" /\ r.uuid \in Item /\ maker[r.uuid] = [host |-> h, site |-> r.site]
  BY <1>1 DEF RequestOK, StageOK, EnrollOK
<1>3. r.asked
  BY <1>1, <1>2 DEF RequestOK, AcceptOK, ActingStages, NeverReused
<1>4. j = r.uuid /\ MayAttach(j)
  <2>1. PICK answer \in Answers :
          /\ Done(answer) => MayAttach(r.uuid)
          /\ origin' = IF Done(answer) THEN [origin EXCEPT ![r.uuid].seed = "page"] ELSE origin
    BY DEF Attach
  <2>2. Done(answer)
    BY <2>1
  <2> QED BY <2>1, <2>2 DEF FillIInv, TypeOK, Rows
<1> QED BY <1>2, <1>3, <1>4 DEF MayAttach

\* What another client writes has no page's seed unless it was there.
LEMMA EditEnrollsNone ==
  ASSUME TypeOK, Edit, NEW j \in Item, origin'[j] # origin[j], origin'[j] # Nil,
         origin'[j].seed = "page"
  PROVE  origin[j] # Nil /\ origin[j].seed = "page"
<1>1. origin \in Rows
  BY DEF TypeOK
<1>2. PICK i \in Item :
         \/ \E sites : origin' = [origin EXCEPT ![i] = [sites |-> sites, archived |-> FALSE,
                                                        seed |-> "none"]]
         \/ /\ origin[i] # Nil
            /\ origin' \in {[origin EXCEPT ![i].archived = TRUE],
                            [origin EXCEPT ![i].seed = "owner"],
                            [origin EXCEPT ![i] = Nil]}
  BY DEF Edit
<1>3. CASE \E sites : origin' = [origin EXCEPT ![i] = [sites |-> sites, archived |-> FALSE,
                                                       seed |-> "none"]]
  BY <1>1, <1>3 DEF Rows
<1>4. CASE origin[i] # Nil /\ origin' = [origin EXCEPT ![i].archived = TRUE]
  BY <1>1, <1>4 DEF Rows, Row
<1>5. CASE origin[i] # Nil /\ origin' = [origin EXCEPT ![i].seed = "owner"]
  BY <1>1, <1>5 DEF Rows, Row
<1>6. CASE origin[i] # Nil /\ origin' = [origin EXCEPT ![i] = Nil]
  BY <1>1, <1>6 DEF Rows
<1> QED BY <1>2, <1>3, <1>4, <1>5, <1>6

\* A login that is made has no seed.
LEMMA CreateEnrollsNone ==
  ASSUME TypeOK, NEW h \in Host, NEW i \in Item, Create(h, i),
         NEW j \in Item, origin'[j] # origin[j]
  PROVE  origin'[j].seed = "none"
BY DEF TypeOK, Rows, Create

\* A seed a page offers gets only into a login this host process made for that
\* page's site, and only if it has no seed: never over the owner's.
THEOREM EnrollsItsOwnHolds == Spec => EnrollsItsOwn
<1>1. FillIInv /\ [Next]_vars
        => [\A i \in Item :
              origin'[i] # Nil /\ origin'[i].seed = "page" /\ origin'[i] # origin[i] =>
                /\ origin[i] # Nil
                /\ origin[i].seed = "none" \/ origin[i].seed = origin'[i].seed
                /\ origin[i].seed = "none" =>
                     \E h \in Host : /\ maker[i] = [host |-> h, site |-> req[h].site]
                                    /\ req[h].asked]_vars
  <2> SUFFICES ASSUME FillIInv, Next, NEW j \in Item, origin'[j] # Nil,
                      origin'[j].seed = "page", origin'[j] # origin[j]
               PROVE  /\ origin[j] # Nil
                      /\ origin[j].seed = "none" \/ origin[j].seed = origin'[j].seed
                      /\ origin[j].seed = "none" =>
                           \E h \in Host : /\ maker[j] = [host |-> h, site |-> req[h].site]
                                          /\ req[h].asked
    OBVIOUS
  <2>1. CASE Tick
    BY <2>1 DEF Tick
  <2>2. CASE Edit
    BY <2>2, EditEnrollsNone DEF FillIInv
  <2>3. ASSUME NEW h \in Host, HostStep(h)
        PROVE  /\ origin[j] # Nil /\ origin[j].seed = "none"
               /\ maker[j] = [host |-> h, site |-> req[h].site] /\ req[h].asked
    <3>1. Attach(h) \/ \E i \in Item : Create(h, i)
      BY <2>3, OnlyTheseWrite
    <3>2. ~ \E i \in Item : Create(h, i)
      BY CreateEnrollsNone DEF FillIInv
    <3> QED BY <3>1, <3>2, AttachEnrolls
  <2> QED BY <2>1, <2>2, <2>3 DEF Next
<1> QED BY <1>1, FillIInvHolds, PTL DEF Spec, EnrollsItsOwn
-----------------------------------------------------------------------------
(* What a host knows, and what it would come back with.                    *)

\* A host without a sealed replica that has made a login never matches against
\* an index that lacks it: for any number of hosts.
THEOREM KnowsWhatItMadeHolds == Spec => []KnowsWhatItMade
<1>1. FillIInv => KnowsWhatItMade
  BY DEF FillIInv, HostsOK, HostOK, IndexOK, KnowsWhatItMade
<1> QED BY <1>1, FillIInvHolds, PTL

\* The step leaves the box and the rows of the process alone.
KeepsRows(h) ==
  /\ boxFile' = boxFile
  /\ \/ host' = host
     \/ \E p \in Process : HostSet(h, p) /\ p.rows = host[h].rows /\ p.sealed = host[h].sealed

\* Neither what is indexed, nor the window or the claim, is about the rows.
LEMMA OtherFields ==
  ASSUME NEW p \in Process
  PROVE  /\ \A x \in Rows \cup {Nil} :
              /\ [p EXCEPT !.index = x] \in Process
              /\ [p EXCEPT !.index = x].rows = p.rows /\ [p EXCEPT !.index = x].sealed = p.sealed
         /\ \A m \in [site : Site, item : Item] \cup {Nil} :
              /\ [p EXCEPT !.index = Nil, !.made = m] \in Process
              /\ [p EXCEPT !.index = Nil, !.made = m].rows = p.rows
              /\ [p EXCEPT !.index = Nil, !.made = m].sealed = p.sealed
         /\ \A w \in [site : Site, until : Nat] \cup {Nil} :
              /\ [p EXCEPT !.window = w] \in Process
              /\ [p EXCEPT !.window = w].rows = p.rows /\ [p EXCEPT !.window = w].sealed = p.sealed
BY DEF Process

LEMMA CallKeepsRows ==
  ASSUME FillIInv, NEW h \in Host, host[h] \in Process, NEW answer \in Answers
  PROVE  /\ CallEffect(h, answer) \in Process
         /\ CallEffect(h, answer).rows = host[h].rows
         /\ CallEffect(h, answer).sealed = host[h].sealed
BY CallEffectCalled DEF Called

\* The steps that call the origin.
LEMMA CallsKeepRows ==
  ASSUME FillIInv, NEW h \in Host,
         \/ Pull(h) \/ IndexFromOrigin(h) \/ Envelope(h) \/ Fetch(h) \/ UnlockAtOrigin(h)
         \/ Passkey(h) \/ Attach(h) \/ \E i \in Item : Create(h, i)
  PROVE  KeepsRows(h)
<1>1. PICK stage : Serving(h, stage)
  BY DEF Pull, IndexFromOrigin, Envelope, Fetch, UnlockAtOrigin, Passkey, Attach, Create
<1>2. host[h] \in Process /\ req[h] \in Request /\ boxFile' = boxFile
  <2>1. boxFile' = boxFile
    BY DEF Pull, IndexFromOrigin, Envelope, Fetch, UnlockAtOrigin, Passkey, Attach, Create
  <2> QED BY <1>1, <2>1, Served
<1>3. CASE Pull(h) \/ Envelope(h) \/ Fetch(h) \/ UnlockAtOrigin(h) \/ Passkey(h)
  <2>1. PICK answer \in Answers : HostSet(h, CallEffect(h, answer))
    BY <1>3 DEF Pull, Envelope, Fetch, UnlockAtOrigin, Passkey
  <2> QED BY <1>2, <2>1, CallKeepsRows DEF KeepsRows
<1>4. CASE IndexFromOrigin(h)
  <2>1. PICK answer \in Answers :
          HostSet(h, IF Heard(answer) THEN [CallEffect(h, answer) EXCEPT !.index = Listed]
                     ELSE CallEffect(h, answer))
    BY <1>4 DEF IndexFromOrigin
  <2> DEFINE p == CallEffect(h, answer)
  <2>2. p \in Process /\ p.rows = host[h].rows /\ p.sealed = host[h].sealed
    BY <1>2, CallKeepsRows
  <2> DEFINE q == [p EXCEPT !.index = Listed]
  <2>3. HostSet(h, p) \/ HostSet(h, q)
    BY <2>1
  <2> HIDE DEF p
  <2>4. q \in Process /\ q.rows = p.rows /\ q.sealed = p.sealed
    BY <2>2, ListedRows, OtherFields
  <2> HIDE DEF q
  <2> QED BY <1>2, <2>2, <2>3, <2>4 DEF KeepsRows
<1>5. CASE Attach(h)
  <2>1. PICK answer \in Answers :
          HostSet(h, IF Heard(answer)
                     THEN [CallEffect(h, answer) EXCEPT !.index = Nil, !.made = Nil]
                     ELSE CallEffect(h, answer))
    BY <1>5 DEF Attach
  <2> DEFINE p == CallEffect(h, answer)
  <2>2. p \in Process /\ p.rows = host[h].rows /\ p.sealed = host[h].sealed
    BY <1>2, CallKeepsRows
  <2> DEFINE q == [p EXCEPT !.index = Nil, !.made = Nil]
  <2>3. HostSet(h, p) \/ HostSet(h, q)
    BY <2>1
  <2> HIDE DEF p
  <2>4. q \in Process /\ q.rows = p.rows /\ q.sealed = p.sealed
    BY <2>2, OtherFields
  <2> HIDE DEF q
  <2> QED BY <1>2, <2>2, <2>3, <2>4 DEF KeepsRows
<1>6. ASSUME NEW i \in Item, Create(h, i) PROVE KeepsRows(h)
  <2>1. PICK answer \in Answers : HostSet(h, Remember(h, i, answer))
    BY <1>6 DEF Create
  <2> DEFINE p == CallEffect(h, answer)
             m == [site |-> req[h].site, item |-> i]
  <2>2. p \in Process /\ p.rows = host[h].rows /\ p.sealed = host[h].sealed
    BY <1>2, CallKeepsRows
  <2> DEFINE q == [p EXCEPT !.index = Nil, !.made = m]
  <2>3. HostSet(h, p) \/ HostSet(h, q)
    BY <2>1 DEF Remember
  <2>4. m \in [site : Site, item : Item]
    <3>1. RequestOK(h, req[h], host[h], accepted[h], maker) /\ req[h].stage = "create"
      BY <1>6, Served DEF Create
    <3>2. req[h].site \in Site
      BY <3>1 DEF RequestOK, StageOK
    <3> QED BY <3>2
  <2> HIDE DEF p, m
  <2>5. q \in Process /\ q.rows = p.rows /\ q.sealed = p.sealed
    BY <2>2, <2>4, OtherFields
  <2> HIDE DEF q
  <2> QED BY <1>2, <2>2, <2>3, <2>5 DEF KeepsRows
<1> QED BY <1>3, <1>4, <1>5, <1>6

\* The steps within the host.
LEMMA OthersKeepRows ==
  ASSUME FillIInv, NEW h \in Host,
         \/ PutFails(h) \/ PutDone(h) \/ IndexKept(h) \/ IndexFromReplica(h)
         \/ MatchAnswered(h) \/ MatchFill(h) \/ MatchMake(h) \/ MatchEnroll(h)
         \/ Ask(h) \/ Accept(h) \/ Deny(h) \/ UnlockLocal(h) \/ Give(h)
  PROVE  KeepsRows(h)
<1>1. CASE \/ PutFails(h) \/ IndexKept(h) \/ MatchAnswered(h) \/ MatchFill(h) \/ MatchMake(h)
           \/ MatchEnroll(h) \/ Ask(h) \/ UnlockLocal(h) \/ Give(h)
  BY <1>1 DEF PutFails, IndexKept, MatchAnswered, MatchFill, MatchMake, MatchEnroll, Ask,
              UnlockLocal, Give, Unchanged, KeepsRows
<1>2. CASE PutDone(h) \/ IndexFromReplica(h)
  <2>1. host[h] \in Process /\ host[h].rows \in Rows
    BY <1>2, Served DEF PutDone, IndexFromReplica, Process
  <2>2. /\ boxFile' = boxFile
        /\ \E x \in Rows \cup {Nil} : HostSet(h, [host[h] EXCEPT !.index = x])
    BY <1>2, <2>1 DEF PutDone, IndexFromReplica
  <2> QED BY <2>1, <2>2, OtherFields DEF KeepsRows
<1>3. CASE Accept(h)
  <2>1. /\ host[h] \in Process /\ req[h] \in Request /\ clock \in Nat
    BY <1>3, Served DEF Accept
  <2>2. Scope(h) \in Site \cup {Nil} /\ clock + Reuse \in Nat
    BY <2>1, Bounds DEF Scope, Request, Process
  <2>3. /\ boxFile' = boxFile
        /\ \E w \in [site : Site, until : Nat] \cup {Nil} : HostSet(h, [host[h] EXCEPT !.window = w])
    BY <1>3, <2>2 DEF Accept
  <2> QED BY <2>1, <2>3, OtherFields DEF KeepsRows
<1>4. CASE Deny(h)
  <2>1. host[h] \in Process
    BY <1>4, Served DEF Deny
  <2>2. /\ boxFile' = boxFile
        /\ \E w \in [site : Site, until : Nat] \cup {Nil} : HostSet(h, [host[h] EXCEPT !.window = w])
    BY <1>4 DEF Deny
  <2> QED BY <2>1, <2>2, OtherFields DEF KeepsRows
<1> QED BY <1>1, <1>2, <1>3, <1>4

\* With one host, its rows and the box move together.
LEMMA BoxKept ==
  ASSUME \A g, h \in Host : g = h, FillIInv, BoxIsMemory, [Next]_vars
  PROVE  BoxIsMemory'
<1>1. CASE Edit \/ Tick \/ UNCHANGED vars
  BY <1>1 DEF Edit, Tick, vars, BoxIsMemory
<1>2. ASSUME NEW h \in Host, HostStep(h) PROVE BoxIsMemory'
  <2>1. SUFFICES ASSUME host'[h] # Nil, host'[h].sealed PROVE host'[h].rows = boxFile'
    BY DEF BoxIsMemory
  <2>2. host \in [Host -> Process \cup {Nil}] /\ boxFile \in Rows
    BY DEF FillIInv, TypeOK
  <2>3. CASE KeepsRows(h) /\ host[h] # Nil
    BY <2>1, <2>2, <2>3 DEF KeepsRows, BoxIsMemory, HostSet
  <2>4. CASE Launch(h)
    BY <2>1, <2>2, <2>4 DEF Launch
  <2>5. CASE Stop(h)
    BY <2>1, <2>2, <2>5 DEF Stop
  <2>6. ASSUME NEW i \in Item, Put(h, i) PROVE host'[h].rows = boxFile'
    <3>1. host[h] \in Process
      BY <2>6, Served DEF Put
    <3> QED BY <2>2, <2>6, <3>1 DEF Put, HostSet, Process
  <2>7. CASE \/ \E op \in Ops \ {"code"}, s \in Site : Receive(h, op, s, Nil)
             \/ \E s \in Site, i \in Item : "fill" \in Ops /\ Receive(h, "fill", s, i)
             \/ \E i \in Item : "code" \in Ops /\ Receive(h, "code", Nil, i)
    <3>1. host' = host /\ boxFile' = boxFile
      BY <2>7 DEF Receive
    <3> QED BY <2>1, <3>1 DEF BoxIsMemory
  <2>8. CASE \/ Pull(h) \/ IndexFromOrigin(h) \/ Envelope(h) \/ Fetch(h) \/ UnlockAtOrigin(h)
             \/ Passkey(h) \/ Attach(h) \/ \E i \in Item : Create(h, i)
    <3>1. host[h] # Nil
      BY <2>8 DEF Pull, IndexFromOrigin, Envelope, Fetch, UnlockAtOrigin, Passkey, Attach, Create,
                  Serving
    <3> QED BY <2>3, <2>8, <3>1, CallsKeepRows
  <2>9. CASE \/ PutFails(h) \/ PutDone(h) \/ IndexKept(h) \/ IndexFromReplica(h)
             \/ MatchAnswered(h) \/ MatchFill(h) \/ MatchMake(h) \/ MatchEnroll(h)
             \/ Ask(h) \/ Accept(h) \/ Deny(h) \/ UnlockLocal(h) \/ Give(h)
    <3>1. host[h] # Nil
      BY <2>9 DEF PutFails, PutDone, IndexKept, IndexFromReplica, MatchAnswered, MatchFill,
                  MatchMake, MatchEnroll, Ask, Accept, Deny, UnlockLocal, Give, Serving
    <3> QED BY <2>3, <2>9, <3>1, OthersKeepRows
  <2> QED BY <1>2, <2>4, <2>5, <2>6, <2>7, <2>8, <2>9 DEF HostStep
<1> QED BY <1>1, <1>2 DEF Next

\* With one host, as in the run: the state has its type, the sealed box and the
\* rows the host fills from agree at every step, so a host stopped anywhere
\* comes back with what it had, and the host knows the login it has made.  Two
\* hosts seal one box over each other: the box is that of the last Put.
THEOREM FillInvHolds ==
  ASSUME \A g, h \in Host : g = h
  PROVE  Spec => []FillInv
<1>1. Init => BoxIsMemory
  BY DEF Init, BoxIsMemory
<1>2. FillIInv /\ BoxIsMemory /\ [Next]_vars => BoxIsMemory'
  BY BoxKept
<1>3. FillIInv => TypeOK
  BY DEF FillIInv
<1> QED BY <1>1, <1>2, <1>3, FillIInvHolds, KnowsWhatItMadeHolds, PTL DEF Spec, FillInv

=============================================================================
