------------------------------ MODULE ItemProofs ------------------------------
(***************************************************************************)
(* Proofs about ItemVault: every secret is sealed with the one stored key  *)
(* of its owner, whoever drew it; nothing stays sealed the legacy way      *)
(* beside a process that could reseal it; and SQLite keeps what is         *)
(* overwritten.                                                            *)
(***************************************************************************)
EXTENDS ItemVault, FiniteSetTheorems, TLAPS

-----------------------------------------------------------------------------
(* The inductive invariant.                                                *)

\* d is the stored key of owner o, and process p could unwrap it.
Holds(p, o, d) ==
  ownerKey[o] # Nil /\ ownerKey[o].dek = d /\ ownerKey[o].master = MasterOf(p)

\* A secret that is not legacy is sealed with the stored key of its owner.
Good(b) == b.key # Legacy => ownerKey[b.owner] # Nil /\ ownerKey[b.owner].dek = b.key

\* A legacy secret is one whose owner got a key under another master.
Excused(b) ==
  b.key = Legacy => ownerKey[b.owner] # Nil /\ ownerKey[b.owner].master = "wrong"

StoredGood ==
  /\ \A i \in Item : item[i] # Nil => Good(item[i].blob)
  /\ \A v \in versions : Good(v.blob)

CacheGood == \A p \in Process, o \in Owner : cache[p][o] # Nil => Holds(p, o, cache[p][o])

KeyPlaces == {"key", "keystore", "keyload"}
Sealing   == {"write", "snapshot", "upsert"}

\* What a request holds fits the place it has reached; a key it will seal with
\* is the stored one, and was unwrapped with the master key of its process.
RequestOK(r) ==
  LET q == req[r] IN
  /\ q.pc \notin {"start", "done", "failed"} => q.proc \in up /\ q.item \in Item
  /\ q.pc = "secret" => q.op = "read" \/ q.owner # Nil
  /\ q.pc \in KeyPlaces /\ q.then = "write" =>
       q.owner # Nil /\ q.holder = q.owner /\ q.secret # Nil
  /\ q.pc \in KeyPlaces /\ q.then = "open" =>
       q.holder # Nil /\ q.blob # Nil /\ (q.op = "read" \/ q.owner # Nil)
  /\ q.pc \in Sealing =>
       q.owner # Nil /\ q.secret # Nil /\ q.dek # Nil /\ Holds(q.proc, q.owner, q.dek)
  /\ q.pc \in {"snapshot", "upsert"} => backend = "postgres"
  /\ q.snap # Nil => Good(q.snap.blob) /\ Excused(q.snap.blob)

RequestsOK == \A r \in Request : RequestOK(r)

\* Once a process that can reseal has opened the vault, or all is marked as
\* resealed, and in Postgres always, no legacy secret is left without excuse.
Resealing == up \ WrongKey # {} \/ rewrapped \/ backend = "postgres"

LegacyResealed ==
  Resealing =>
    /\ \A i \in Item : item[i] # Nil => Excused(item[i].blob)
    /\ \A v \in versions : item[v.item] # Nil => Excused(v.blob)

\* A version whose item is gone, which no rewrap sees, is excused.
OrphansExcused == \A v \in versions : item[v.item] = Nil => Excused(v.blob)

\* Between the statements of a deletion: what was written into the emptied
\* history, and the item if there is any such row, is excused.
DeletionsExcused ==
  \A r \in Request : req[r].pc = "row" =>
    \A v \in versions : v.item = req[r].item =>
      /\ Excused(v.blob)
      /\ item[v.item] # Nil => Excused(item[v.item].blob)

\* A legacy secret is its item's owner's, if it is not excused.
LegacyOwned ==
  /\ \A i \in Item : item[i] # Nil /\ item[i].blob.key = Legacy =>
       Excused(item[i].blob) \/ item[i].blob.owner = item[i].owner
  /\ \A v \in versions : item[v.item] # Nil /\ v.blob.key = Legacy =>
       Excused(v.blob) \/ v.blob.owner = item[v.item].owner

KeysInv   == StoredGood /\ CacheGood /\ RequestsOK
LegacyInv == LegacyResealed /\ OrphansExcused /\ DeletionsExcused /\ LegacyOwned
VaultInv  == TypeOK /\ KeysInv /\ LegacyInv

-----------------------------------------------------------------------------
(* Steps of a request that write no table.                                 *)

\* Such a step keeps the invariant if it leaves the request well formed and
\* does not make it a deletion half done.
LEMMA RequestMoves ==
  ASSUME VaultInv, NEW r \in Request, NEW q \in Pending,
         UNCHANGED <<tables, up, cache>>, req' = [req EXCEPT ![r] = q],
         RequestOK(r)', q.pc # "row"
  PROVE  VaultInv'
<1> USE DEF VaultInv, tables
<1>1. TypeOK'
  BY DEF TypeOK
<1>2. StoredGood' /\ CacheGood' /\ LegacyResealed' /\ OrphansExcused' /\ LegacyOwned'
  BY DEF KeysInv, LegacyInv, StoredGood, CacheGood, LegacyResealed, OrphansExcused,
         LegacyOwned, Good, Excused, Holds, Resealing
<1>3. ASSUME NEW s \in Request PROVE RequestOK(s)'
  <2>1. CASE s = r
    BY <2>1
  <2>2. CASE s # r
    BY <2>2 DEF TypeOK, KeysInv, RequestsOK, RequestOK, Good, Excused, Holds
  <2> QED BY <2>1, <2>2
<1>4. DeletionsExcused'
  BY DEF TypeOK, LegacyInv, DeletionsExcused, Excused
<1> QED BY <1>1, <1>2, <1>3, <1>4 DEF KeysInv, LegacyInv, RequestsOK

LEMMA RequestType == ASSUME TypeOK, NEW r \in Request PROVE req[r] \in Pending
BY DEF TypeOK

LEMMA PlaceType ==
  ASSUME NEW q \in Pending, NEW place \in Places
  PROVE  /\ [q EXCEPT !.pc = place] \in Pending /\ [q EXCEPT !.pc = place].pc = place
         /\ [q EXCEPT !.pc = place].snap = q.snap
<1> DEFINE n == [q EXCEPT !.pc = place]
<1>1. n = [pc |-> place, op |-> q.op, proc |-> q.proc, item |-> q.item, owner |-> q.owner,
           totp |-> q.totp, archived |-> q.archived, secret |-> q.secret, seed |-> q.seed,
           holder |-> q.holder, then |-> q.then, dek |-> q.dek, blob |-> q.blob,
           snap |-> q.snap]
  BY DEF Pending
<1> QED BY <1>1 DEF Pending

\* A request that has ended asks nothing but that its snapshot be sound.
LEMMA EndedOK ==
  ASSUME TypeOK, NEW r \in Request, RequestOK(r), UNCHANGED <<ownerKey, up>>,
         NEW place \in {"done", "failed"}, req'[r] = [req[r] EXCEPT !.pc = place]
  PROVE  RequestOK(r)'
<1>1. req[r] \in Pending
  BY RequestType
<1>2. PICK q \in Pending : req'[r] = q /\ q.pc = place /\ q.snap = req[r].snap
  <2>1. place \in Places
    BY DEF Places
  <2> QED BY <1>1, <2>1, PlaceType
<1>3. q.snap # Nil => Good(q.snap.blob) /\ Excused(q.snap.blob)
  BY <1>2 DEF RequestOK
<1>4. ownerKey' = ownerKey /\ q.pc \notin KeyPlaces \cup Sealing \cup {"start", "secret"}
  BY <1>2 DEF KeyPlaces, Sealing
<1> QED BY <1>2, <1>3, <1>4 DEF RequestOK, KeyPlaces, Sealing, Holds, Good, Excused

\* Request r got its key d.
LEMMA GotKeeps ==
  ASSUME VaultInv, NEW r \in Request, NEW d \in Dek, req[r].pc \in KeyPlaces,
         req[r].holder # Nil => Holds(req[r].proc, req[r].holder, d)
  PROVE  /\ Got(r, d) \in Pending /\ Got(r, d).pc # "row"
         /\ Got(r, d).pc \in {"write", "failed", "done", "key"}
         /\ Got(r, d).snap = req[r].snap
         /\ Got(r, d).proc = req[r].proc /\ Got(r, d).item = req[r].item
         /\ Got(r, d).pc = "write" =>
              /\ Got(r, d).owner # Nil /\ Got(r, d).secret # Nil /\ Got(r, d).dek = d
              /\ Got(r, d).owner = req[r].holder
         /\ Got(r, d).pc = "key" =>
              /\ Got(r, d).then = "write" /\ Got(r, d).owner # Nil
              /\ Got(r, d).holder = Got(r, d).owner /\ Got(r, d).secret # Nil
<1>1. req[r] \in Pending /\ RequestOK(r)
  BY RequestType DEF VaultInv, KeysInv, RequestsOK
<1>2. req[r].blob # Nil => req[r].blob.secret \in Secret /\ req[r].blob.seed \in BOOLEAN
  BY <1>1 DEF Pending, Blob
<1>3. CASE req[r].then = "write"
  <2>1. Got(r, d) = [req[r] EXCEPT !.dek = d, !.pc = "write"]
    BY <1>3 DEF Got
  <2> QED BY Zenon, <1>1, <1>3, <2>1 DEF Pending, Places, RequestOK, KeyPlaces
<1>4. CASE req[r].then = "open" /\ req[r].blob.key # d
  <2>1. Got(r, d) = [req[r] EXCEPT !.pc = "failed"]
    BY <1>4 DEF Got
  <2> QED BY <1>1, <1>4, <2>1 DEF Pending, Places
<1>5. CASE req[r].then = "open" /\ req[r].blob.key = d /\ req[r].op = "read"
  <2>1. Got(r, d) = [req[r] EXCEPT !.secret = req[r].blob.secret, !.pc = "done"]
    BY <1>5 DEF Got
  <2> QED BY <1>1, <1>2, <1>5, <2>1 DEF Pending, Places, RequestOK, KeyPlaces
<1>6. CASE req[r].then = "open" /\ req[r].blob.key = d /\ req[r].op # "read"
  <2>1. Got(r, d) = [req[r] EXCEPT !.secret = req[r].blob.secret,
                                   !.seed = req[r].op = "totp" \/ req[r].blob.seed,
                                   !.holder = req[r].owner, !.then = "write", !.pc = "key"]
    BY <1>6 DEF Got
  <2>2. PICK seed \in BOOLEAN : seed = (req[r].op = "totp" \/ req[r].blob.seed)
    OBVIOUS
  <2>3. req[r].blob # Nil /\ req[r].owner # Nil
    BY <1>1, <1>6 DEF RequestOK
  <2>4. req[r].blob.secret \in Secret /\ req[r].blob.secret # Nil
    BY <1>2, <2>3, VaultAssumption
  <2>5. Got(r, d) = [req[r] EXCEPT !.secret = req[r].blob.secret, !.seed = seed,
                                   !.holder = req[r].owner, !.then = "write", !.pc = "key"]
    BY <2>1, <2>2
  <2>6. Got(r, d) \in Pending
    BY Zenon, <1>1, <2>3, <2>4, <2>5 DEF Pending, Places
  <2> QED BY <1>1, <2>3, <2>4, <2>5, <2>6 DEF Pending
<1> QED BY <1>1, <1>3, <1>4, <1>5, <1>6 DEF Pending

\* Request r goes to a place and writes nothing else of itself.
LEMMA GotoMoves ==
  ASSUME VaultInv, NEW r \in Request, NEW place \in Places \ {"row"},
         UNCHANGED <<tables, up, cache>>, Goto(r, place), RequestOK(r)'
  PROVE  VaultInv'
<1> DEFINE q == [req[r] EXCEPT !.pc = place]
<1>1. q \in Pending /\ q.pc = place
  BY RequestType DEF VaultInv, Pending
<1>2. req' = [req EXCEPT ![r] = q]
  BY DEF Goto
<1> QED BY <1>1, <1>2, RequestMoves

LEMMA KeyCachedKeeps == ASSUME VaultInv, NEW r \in Request, KeyCached(r) PROVE VaultInv'
<1> DEFINE p == req[r].proc
           o == req[r].holder
           d == cache[p][o]
<1>1. req[r] \in Pending /\ RequestOK(r)
  BY RequestType DEF VaultInv, KeysInv, RequestsOK
<1>2. req[r].pc = "key" /\ d # Nil
  BY DEF KeyCached
<1>3. p \in Process /\ o \in Owner /\ req[r].item \in Item
  BY <1>1, <1>2 DEF RequestOK, KeyPlaces, VaultInv, TypeOK, Pending
<1>4. d \in Dek /\ Holds(p, o, d)
  BY <1>2, <1>3 DEF VaultInv, TypeOK, KeysInv, CacheGood
<1>5. req' = [req EXCEPT ![r] = Got(r, d)] /\ UNCHANGED <<tables, up, cache>>
  BY DEF KeyCached
<1>6. /\ Got(r, d) \in Pending /\ Got(r, d).pc # "row"
      /\ Got(r, d).pc \in {"write", "failed", "done", "key"}
      /\ Got(r, d).snap = req[r].snap
      /\ Got(r, d).proc = req[r].proc /\ Got(r, d).item = req[r].item
      /\ Got(r, d).pc = "write" =>
           /\ Got(r, d).owner # Nil /\ Got(r, d).secret # Nil /\ Got(r, d).dek = d
           /\ Got(r, d).owner = req[r].holder
      /\ Got(r, d).pc = "key" =>
           /\ Got(r, d).then = "write" /\ Got(r, d).owner # Nil
           /\ Got(r, d).holder = Got(r, d).owner /\ Got(r, d).secret # Nil
  BY <1>2, <1>4, GotKeeps DEF KeyPlaces
<1>7. req'[r] = Got(r, d)
  BY <1>5 DEF VaultInv, TypeOK
<1>8. RequestOK(r)'
  <2>1. PICK q \in Pending : q = Got(r, d)
    BY <1>6
  <2>2. req'[r] = q /\ up' = up /\ ownerKey' = ownerKey
    BY <1>5, <1>7, <2>1 DEF tables
  <2>3. q.pc = "write" => Holds(q.proc, q.owner, q.dek)
    BY <1>4, <1>6, <2>1
  <2>4. q.proc \in up /\ q.item \in Item
    BY <1>1, <1>2, <1>6, <2>1 DEF RequestOK
  <2>5. q.snap # Nil => Good(q.snap.blob) /\ Excused(q.snap.blob)
    BY <1>1, <1>6, <2>1 DEF RequestOK
  <2> QED BY <1>2, <1>6, <2>1, <2>2, <2>3, <2>4, <2>5
       DEF RequestOK, KeyPlaces, Sealing, Holds, Good, Excused
<1> QED BY <1>5, <1>6, <1>8, RequestMoves

LEMMA RequestReads ==
  ASSUME VaultInv, NEW r \in Request,
         \/ KeyMissing(r) \/ ReadSealed(r) \/ PutOtherOwner(r) \/ CheckOwner(r)
         \/ RequestFails(r)
  PROVE  VaultInv'
<1>1. req[r] \in Pending /\ RequestOK(r)
  BY RequestType DEF VaultInv, KeysInv, RequestsOK
<1> USE DEF RequestOK, KeyPlaces, Sealing, Holds, Good, Excused, tables
<1>2. ASSUME Goto(r, "failed"), UNCHANGED <<tables, up, cache>> PROVE VaultInv'
  <2>1. req'[r] = [req[r] EXCEPT !.pc = "failed"]
    BY <1>2 DEF Goto, VaultInv, TypeOK
  <2>2. RequestOK(r)'
    BY <1>1, <1>2, <2>1 DEF Pending
  <2> QED BY <1>2, <2>2, GotoMoves DEF Places
<1>3. CASE PutOtherOwner(r) \/ RequestFails(r)
  BY <1>2, <1>3 DEF PutOtherOwner, RequestFails
<1>4. CASE KeyMissing(r)
  <2>1. req'[r] = [req[r] EXCEPT !.pc = "keystore"]
    BY <1>4 DEF KeyMissing, Goto, VaultInv, TypeOK
  <2>2. RequestOK(r)'
    BY <1>1, <1>4, <2>1 DEF KeyMissing, Pending
  <2> QED BY <1>4, <2>2, GotoMoves DEF KeyMissing, Places
<1>5. CASE CheckOwner(r)
  <2>1. req'[r] = [req[r] EXCEPT !.pc = "snapshot"]
    BY <1>5 DEF CheckOwner, Goto, VaultInv, TypeOK
  <2>2. RequestOK(r)'
    BY <1>1, <1>5, <2>1 DEF CheckOwner, Pending
  <2> QED BY <1>5, <2>2, GotoMoves DEF CheckOwner, Places
<1>6. CASE ReadSealed(r)
  <2> DEFINE i == req[r].item
             q == [req[r] EXCEPT !.blob = item[i].blob, !.holder = item[i].owner,
                                 !.then = "open", !.pc = "key"]
  <2>1. CASE item[i] = Nil
    BY <1>2, <1>6, <2>1 DEF ReadSealed
  <2>2. CASE item[i] # Nil
    <3>1. i \in Item
      BY <1>1, <1>6 DEF ReadSealed
    <3>2. /\ item[i].blob \in Blob /\ item[i].owner \in Owner
          /\ item[i].blob # Nil /\ item[i].owner # Nil
      BY <2>2, <3>1, VaultNilAssumption, VaultAssumption DEF VaultInv, TypeOK, Row
    <3>3. q \in Pending
      BY Zenon, <1>1, <3>2 DEF Pending, Places
    <3>4. req' = [req EXCEPT ![r] = q] /\ UNCHANGED <<tables, up, cache>>
      BY <1>6, <2>2 DEF ReadSealed
    <3>5. req'[r] = q
      BY <3>4 DEF VaultInv, TypeOK
    <3>6. RequestOK(r)'
      BY SMTT(30), <1>1, <1>6, <3>2, <3>4, <3>5 DEF ReadSealed, Pending
    <3>7. q.pc # "row"
      BY <1>1 DEF Pending
    <3> QED BY <3>3, <3>4, <3>6, <3>7, RequestMoves
  <2> QED BY <2>1, <2>2
<1> QED BY <1>3, <1>4, <1>5, <1>6

LEMMA RequestBegins ==
  ASSUME VaultInv, NEW r \in Request, NEW p \in Process, NEW i \in Item,
         \/ \E o \in Owner, x \in Secret, seed \in BOOLEAN : BeginPut(r, p, i, o, x, seed)
         \/ \E op \in {"update", "totp"} : BeginRewrite(r, p, op, i)
         \/ BeginRead(r, p, i)
  PROVE  VaultInv'
<1> USE DEF RequestOK, KeyPlaces, Sealing, Holds, Good, Excused, tables
<1>1. ASSUME NEW q \in Pending, req' = [req EXCEPT ![r] = q], p \in up,
             q.proc = p, q.item = i, q.snap = Nil, UNCHANGED <<tables, up, cache>>,
             \/ q.pc = "key" /\ q.then = "write" /\ q.owner \in Owner /\ q.holder = q.owner
                  /\ q.secret \in Secret
             \/ q.pc = "secret" /\ (q.op = "read" \/ q.owner \in Owner)
      PROVE  VaultInv'
  <2>1. req'[r] = q
    BY <1>1 DEF VaultInv, TypeOK
  <2>2. RequestOK(r)'
    BY <1>1, <2>1, VaultAssumption
  <2> QED BY <1>1, <2>2, RequestMoves
<1>2. ASSUME NEW o \in Owner, NEW x \in Secret, NEW seed \in BOOLEAN,
             BeginPut(r, p, i, o, x, seed)
      PROVE  VaultInv'
  <2> DEFINE q == [Fresh EXCEPT !.pc = "key", !.op = "put", !.proc = p, !.item = i,
                                !.owner = o, !.totp = seed, !.secret = x, !.seed = seed,
                                !.holder = o]
  <2>1. q \in Pending /\ q.pc = "key" /\ q.then = "write" /\ q.owner = o /\ q.holder = o
          /\ q.secret = x /\ q.proc = p /\ q.item = i /\ q.snap = Nil
    BY DEF Fresh, Pending, Places
  <2>2. req' = [req EXCEPT ![r] = q] /\ p \in up /\ UNCHANGED <<tables, up, cache>>
    BY <1>2 DEF BeginPut, Begin
  <2> QED BY <1>1, <2>1, <2>2
<1>3. ASSUME NEW op \in {"update", "totp"}, BeginRewrite(r, p, op, i) PROVE VaultInv'
  <2>0. item[i] \in Row
    BY <1>3 DEF BeginRewrite, VaultInv, TypeOK
  <2>1. PICK totp \in BOOLEAN : totp = (op = "totp" \/ item[i].totp)
    OBVIOUS
  <2> DEFINE q == [Fresh EXCEPT !.pc = "secret", !.op = op, !.proc = p, !.item = i,
                     !.owner = item[i].owner, !.archived = item[i].archived,
                     !.totp = totp]
  <2>2. q \in Pending /\ q.pc = "secret" /\ q.owner \in Owner
          /\ q.proc = p /\ q.item = i /\ q.snap = Nil
    BY <2>0 DEF Fresh, Pending, Places, Row
  <2>3. req' = [req EXCEPT ![r] = q] /\ p \in up /\ UNCHANGED <<tables, up, cache>>
    BY <1>3, <2>1 DEF BeginRewrite, Begin
  <2> QED BY <1>1, <2>2, <2>3
<1>4. CASE BeginRead(r, p, i)
  <2> DEFINE q == [Fresh EXCEPT !.pc = "secret", !.op = "read", !.proc = p, !.item = i]
  <2>1. q \in Pending /\ q.pc = "secret" /\ q.op = "read" /\ q.proc = p /\ q.item = i
          /\ q.snap = Nil
    BY DEF Fresh, Pending, Places
  <2>2. req' = [req EXCEPT ![r] = q] /\ p \in up /\ UNCHANGED <<tables, up, cache>>
    BY <1>4 DEF BeginRead, Begin
  <2> QED BY <1>1, <2>1, <2>2
<1> QED BY <1>2, <1>3, <1>4

-----------------------------------------------------------------------------
(* Steps that load or store a key.                                         *)

\* A key that is stored is never replaced.
KeysGrow == \A o \in Owner : ownerKey[o] # Nil => ownerKey'[o] = ownerKey[o]

\* What was true of a key stays true, also of a request that is at rest.
LEMMA KeysStay ==
  ASSUME TypeOK, KeysGrow
  PROVE  /\ \A b \in Blob : (Good(b) => Good(b)') /\ (Excused(b) => Excused(b)')
         /\ \A p \in Process, o \in Owner, d \in Dek : Holds(p, o, d) => Holds(p, o, d)'
         /\ \A r \in Request :
              /\ RequestOK(r) /\ req'[r] = req[r] /\ backend' = backend
              /\ req[r].pc \notin {"start", "done", "failed"} => req[r].proc \in up'
              => RequestOK(r)'
<1>1. ASSUME NEW b \in Blob PROVE (Good(b) => Good(b)') /\ (Excused(b) => Excused(b)')
  BY DEF KeysGrow, Good, Excused, Blob
<1>2. ASSUME NEW p \in Process, NEW o \in Owner, NEW d \in Dek, Holds(p, o, d)
      PROVE  Holds(p, o, d)'
  BY <1>2 DEF KeysGrow, Holds
<1>3. ASSUME NEW r \in Request, RequestOK(r), req'[r] = req[r], backend' = backend,
             req[r].pc \notin {"start", "done", "failed"} => req[r].proc \in up'
      PROVE  RequestOK(r)'
  <2>1. req[r] \in Pending
    BY DEF TypeOK
  <2>2. req[r].snap # Nil => Good(req[r].snap.blob)' /\ Excused(req[r].snap.blob)'
    BY <1>3, <2>1 DEF KeysGrow, Good, Excused, RequestOK, Pending, Version, Blob
  <2>3. req[r].pc \in Sealing => Holds(req[r].proc, req[r].owner, req[r].dek)'
    BY <1>3, <2>1 DEF KeysGrow, Holds, RequestOK, Pending
  <2> QED BY <1>3, <2>2, <2>3 DEF RequestOK, KeyPlaces, Sealing, Holds, Good, Excused
<1> QED BY <1>1, <1>2, <1>3

\* A step of request r that leaves the other requests alone.
LEMMA OthersStay ==
  ASSUME TypeOK, KeysInv, NEW r \in Request, RequestOK(r)',
         \A s \in Request \ {r} : req'[s] = req[s],
         UNCHANGED backend, up \subseteq up', ownerKey' = ownerKey \/ KeysGrow
  PROVE  RequestsOK'
<1>1. KeysGrow
  BY DEF KeysGrow
<1>2. ASSUME NEW s \in Request \ {r} PROVE RequestOK(s)'
  <2>1. RequestOK(s) /\ req'[s] = req[s]
    BY <1>2 DEF KeysInv, RequestsOK
  <2>2. req[s].pc \notin {"start", "done", "failed"} => req[s].proc \in up'
    BY <2>1 DEF RequestOK
  <2> QED BY <1>1, <2>1, <2>2, KeysStay
<1> QED BY <1>2 DEF RequestsOK

LEMMA DeletionsStay ==
  ASSUME DeletionsExcused, UNCHANGED <<ownerKey, item, versions>>,
         \A s \in Request : req'[s].pc = "row" => req'[s] = req[s]
  PROVE  DeletionsExcused'
<1> SUFFICES ASSUME NEW s \in Request, req'[s].pc = "row", NEW v \in versions,
                    v.item = req'[s].item
             PROVE  /\ Excused(v.blob)
                    /\ item[v.item] # Nil => Excused(item[v.item].blob)
  BY DEF DeletionsExcused, Excused
<1> QED BY DEF DeletionsExcused

LEMMA KeyLoadKeeps == ASSUME VaultInv, NEW r \in Request, KeyLoad(r) PROVE VaultInv'
<1> DEFINE p == req[r].proc
           o == req[r].holder
           d == ownerKey[o].dek
<1>1. req[r] \in Pending /\ RequestOK(r)
  BY RequestType DEF VaultInv, KeysInv, RequestsOK
<1>2. req[r].pc \in {"key", "keyload"} /\ ownerKey[o] # Nil
  BY DEF KeyLoad
<1>3. p \in Process /\ o \in Owner /\ p \in up /\ req[r].item \in Item
  BY <1>1, <1>2 DEF RequestOK, KeyPlaces, VaultInv, TypeOK, Pending
<1>4. d \in Dek
  BY <1>2, <1>3 DEF VaultInv, TypeOK, Wrapped
<1>5. CASE ownerKey[o].master # MasterOf(p)
  <2>1. Goto(r, "failed") /\ UNCHANGED <<tables, up, cache>>
    BY <1>5 DEF KeyLoad
  <2>2. req'[r] = [req[r] EXCEPT !.pc = "failed"]
    BY <2>1 DEF Goto, VaultInv, TypeOK
  <2>3. RequestOK(r)'
    BY <1>1, <2>1, <2>2
       DEF Pending, RequestOK, KeyPlaces, Sealing, Holds, Good, Excused, tables
  <2> QED BY <2>1, <2>3, GotoMoves DEF Places
<1>6. CASE ownerKey[o].master = MasterOf(p)
  <2>1. Holds(p, o, d)
    BY <1>2, <1>6 DEF Holds
  <2>2. /\ Got(r, d) \in Pending /\ Got(r, d).pc # "row"
        /\ Got(r, d).pc \in {"write", "failed", "done", "key"}
        /\ Got(r, d).snap = req[r].snap
        /\ Got(r, d).proc = req[r].proc /\ Got(r, d).item = req[r].item
        /\ Got(r, d).pc = "write" =>
             /\ Got(r, d).owner # Nil /\ Got(r, d).secret # Nil /\ Got(r, d).dek = d
             /\ Got(r, d).owner = req[r].holder
        /\ Got(r, d).pc = "key" =>
             /\ Got(r, d).then = "write" /\ Got(r, d).owner # Nil
             /\ Got(r, d).holder = Got(r, d).owner /\ Got(r, d).secret # Nil
    BY <1>2, <1>4, <2>1, GotKeeps DEF KeyPlaces
  <2>3. /\ cache' = [cache EXCEPT ![p][o] = d] /\ req' = [req EXCEPT ![r] = Got(r, d)]
        /\ UNCHANGED <<tables, up>>
    BY <1>6 DEF KeyLoad
  <2>4. PICK q \in Pending : q = Got(r, d)
    BY <2>2
  <2>5. req'[r] = q /\ \A s \in Request \ {r} : req'[s] = req[s]
    BY <2>3, <2>4 DEF VaultInv, TypeOK
  <2>6. TypeOK'
    BY <1>3, <1>4, <2>3, <2>4 DEF VaultInv, TypeOK, tables
  <2>7. CacheGood'
    BY <1>3, <2>1, <2>3 DEF VaultInv, TypeOK, KeysInv, CacheGood, Holds, tables
  <2>8. StoredGood' /\ LegacyResealed' /\ OrphansExcused' /\ LegacyOwned'
    BY <2>3 DEF VaultInv, KeysInv, LegacyInv, StoredGood, LegacyResealed, OrphansExcused,
                LegacyOwned, Good, Excused, Resealing, tables
  <2>9. RequestOK(r)'
    <3>1. q.pc = "write" => Holds(q.proc, q.owner, q.dek)
      BY <2>1, <2>2, <2>4
    <3>2. q.snap # Nil => Good(q.snap.blob) /\ Excused(q.snap.blob)
      BY <1>1, <2>2, <2>4 DEF RequestOK
    <3>3. up' = up /\ ownerKey' = ownerKey
      BY <2>3 DEF tables
    <3>4. d # Nil /\ q.proc \in up /\ q.item \in Item
      BY <1>3, <1>4, <2>2, <2>4, VaultNilAssumption
    <3> QED BY <2>2, <2>4, <2>5, <3>1, <3>2, <3>3, <3>4
         DEF RequestOK, KeyPlaces, Sealing, Holds, Good, Excused
  <2>10. RequestsOK'
    BY <2>3, <2>5, <2>9, OthersStay DEF VaultInv, tables
  <2>11. DeletionsExcused'
    BY <2>2, <2>3, <2>4, <2>5, DeletionsStay DEF VaultInv, LegacyInv, tables
  <2> QED BY <2>6, <2>7, <2>8, <2>10, <2>11 DEF VaultInv, KeysInv, LegacyInv
<1> QED BY <1>5, <1>6

LEMMA KeyStoreKeeps == ASSUME VaultInv, NEW r \in Request, KeyStore(r) PROVE VaultInv'
<1> DEFINE o == req[r].holder
           k == [dek |-> <<r, o>>, master |-> MasterOf(req[r].proc)]
<1>1. req[r] \in Pending /\ RequestOK(r) /\ req[r].pc = "keystore"
  BY RequestType DEF VaultInv, KeysInv, RequestsOK, KeyStore
<1>2. o \in Owner
  BY <1>1 DEF RequestOK, KeyPlaces, Pending
<1>3. k \in Wrapped
  BY <1>2 DEF Wrapped, Dek, Master, MasterOf
<1>4. /\ ownerKey' = [ownerKey EXCEPT ![o] = IF ownerKey[o] = Nil THEN k ELSE ownerKey[o]]
      /\ req' = [req EXCEPT ![r].pc = "keyload"]
      /\ UNCHANGED <<backend, item, life, versions, nextId, rewrapped, up, cache>>
  BY DEF KeyStore, Goto
<1>5. KeysGrow
  BY <1>2, <1>4 DEF VaultInv, TypeOK, KeysGrow
<1>6. TypeOK'
  BY <1>1, <1>2, <1>3, <1>4, PlaceType DEF VaultInv, TypeOK, Places
<1>7. StoredGood' /\ LegacyResealed' /\ OrphansExcused' /\ LegacyOwned'
  <2>1. /\ \A i \in Item : item[i] # Nil => item[i].blob \in Blob
        /\ \A v \in versions : v.blob \in Blob
    BY DEF VaultInv, TypeOK, Row, Version
  <2> QED BY <1>4, <1>5, <2>1, KeysStay
       DEF VaultInv, KeysInv, LegacyInv, StoredGood, LegacyResealed, OrphansExcused,
           LegacyOwned, Resealing
<1>8. CacheGood'
  BY <1>4, <1>5, KeysStay DEF VaultInv, KeysInv, TypeOK, CacheGood
<1>9. RequestsOK'
  <2>1. req'[r] = [req[r] EXCEPT !.pc = "keyload"]
    BY <1>4 DEF VaultInv, TypeOK
  <2>2. ASSUME NEW b \in Blob, req[r].snap # Nil, b = req[r].snap.blob
        PROVE  Good(b)' /\ Excused(b)'
    BY <1>1, <1>5, <2>2, KeysStay DEF VaultInv, RequestOK
  <2>3. req[r].snap # Nil => req[r].snap.blob \in Blob
    BY <1>1 DEF Pending, Version
  <2>4. RequestOK(r)'
    BY SMTT(30), <1>1, <1>4, <2>1, <2>2, <2>3 DEF RequestOK, KeyPlaces, Sealing, Pending, Good, Excused
  <2>5. \A s \in Request \ {r} : req'[s] = req[s]
    BY <1>4 DEF VaultInv, TypeOK
  <2> QED BY <1>4, <1>5, <2>4, <2>5, OthersStay DEF VaultInv
<1>10. DeletionsExcused'
  <2>1. /\ \A i \in Item : item[i] # Nil => item[i].blob \in Blob
        /\ \A v \in versions : v.blob \in Blob /\ v.item \in Item
    BY DEF VaultInv, TypeOK, Row, Version
  <2>2. \A s \in Request : req'[s].pc = "row" => req'[s] = req[s]
    BY <1>1, <1>4 DEF VaultInv, TypeOK, Pending
  <2> QED BY <1>4, <1>5, <2>1, <2>2, KeysStay DEF VaultInv, LegacyInv, DeletionsExcused
<1> QED BY <1>6, <1>7, <1>8, <1>9, <1>10 DEF VaultInv, KeysInv, LegacyInv

-----------------------------------------------------------------------------
(* Writes of an item and its history.                                      *)

\* The row a request writes is sealed with the stored key of its owner.
LEMMA WrittenRow ==
  ASSUME VaultInv, NEW r \in Request, req[r].pc \in Sealing
  PROVE  LET i == req[r].item
             w == Written(r, item[i]) IN
         /\ i \in Item /\ req[r].proc \in up
         /\ w \in Row /\ w.blob \in Blob /\ w.blob.key # Legacy /\ Good(w.blob)
         /\ w.owner = req[r].owner
<1> DEFINE i == req[r].item
           w == Written(r, item[i])
<1>1. req[r] \in Pending /\ RequestOK(r)
  BY RequestType DEF VaultInv, KeysInv, RequestsOK
<1>2. /\ i \in Item /\ req[r].proc \in up
      /\ req[r].owner \in Owner /\ req[r].secret \in Secret /\ req[r].dek \in Dek
      /\ Holds(req[r].proc, req[r].owner, req[r].dek)
  BY <1>1 DEF RequestOK, Pending, Sealing
<1>3. PICK l \in Nat : l = IF item[i] = Nil THEN life[i] + 1 ELSE item[i].life
  <2>1. item[i] # Nil => item[i] \in Row
    BY <1>2 DEF VaultInv, TypeOK
  <2>2. item[i] # Nil => item[i].life \in Nat
    BY <2>1 DEF Row
  <2>3. life[i] + 1 \in Nat
    BY <1>2 DEF VaultInv, TypeOK
  <2> QED BY <2>2, <2>3
<1>4. w = [owner |-> req[r].owner, totp |-> req[r].totp, archived |-> req[r].archived,
           life |-> l,
           blob |-> [key |-> req[r].dek, owner |-> req[r].owner,
                     secret |-> req[r].secret, seed |-> req[r].seed]]
  BY <1>3 DEF Written
<1>5. w \in Row /\ w.blob \in Blob
  BY <1>1, <1>2, <1>4 DEF Row, Blob, Pending
<1>6. w.blob.key # Legacy
  BY <1>2, <1>4, VaultNilAssumption
<1> QED BY <1>2, <1>4, <1>5, <1>6 DEF Good, Holds

\* The version that keeps the sealed secret of an item.
LEMMA SnapshotType ==
  ASSUME TypeOK, NEW i \in Item, item[i] # Nil
  PROVE  /\ Snapshot(i, item[i].blob, nextId) \in Version
         /\ Snapshot(i, item[i].blob, nextId).item = i
         /\ Snapshot(i, item[i].blob, nextId).blob = item[i].blob
BY DEF TypeOK, Snapshot, Version, Row

LEMMA PutSQLiteKeeps == ASSUME VaultInv, NEW r \in Request, PutSQLite(r) PROVE VaultInv'
<1> DEFINE i == req[r].item
           p == req[r].proc
           w == Written(r, item[i])
           v == Snapshot(i, item[i].blob, nextId)
           New == IF item[i] = Nil THEN {} ELSE {v}
<1>1. req[r] \in Pending /\ RequestOK(r) /\ req[r].pc = "write"
  BY RequestType DEF VaultInv, KeysInv, RequestsOK, PutSQLite
<1>2. /\ i \in Item /\ p \in up
      /\ w \in Row /\ w.blob \in Blob /\ w.blob.key # Legacy /\ Good(w.blob)
      /\ w.owner = req[r].owner
  BY <1>1, WrittenRow DEF Sealing
<1>3. /\ item' = [item EXCEPT ![i] = w] /\ versions' = versions \cup New
      /\ item[i] # Nil => item[i].owner = w.owner
      /\ req' = [req EXCEPT ![r].pc = "done"]
      /\ life' = [life EXCEPT ![i] = w.life]
      /\ nextId' \in {nextId, nextId + 1}
      /\ UNCHANGED <<backend, ownerKey, rewrapped, up, cache>>
  BY <1>2 DEF PutSQLite, Upsert, Goto
<1>4. \A x \in New : x = v /\ item[i] # Nil /\ x \in Version /\ x.item = i /\ x.blob = item[i].blob
  BY <1>2, SnapshotType DEF VaultInv
<1>5. w # Nil
  BY <1>2, VaultNilAssumption
<1>6. TypeOK'
  <2>1. IsFiniteSet(New)
    BY FS_EmptySet, FS_Singleton
  <2>2. IsFiniteSet(versions')
    BY <1>3, <2>1, FS_Union DEF VaultInv, TypeOK
  <2>3. versions' \subseteq Version
    BY <1>3, <1>4 DEF VaultInv, TypeOK
  <2>4. req' \in [Request -> Pending]
    BY <1>1, <1>3, PlaceType DEF VaultInv, TypeOK, Places
  <2>5. item' \in [Item -> Row \cup {Nil}] /\ life' \in [Item -> Nat]
    BY <1>2, <1>3 DEF VaultInv, TypeOK, Row
  <2> QED BY <1>3, <2>2, <2>3, <2>4, <2>5 DEF VaultInv, TypeOK
<1>7. StoredGood'
  BY <1>2, <1>3, <1>4 DEF VaultInv, TypeOK, KeysInv, StoredGood, Good
<1>8. CacheGood'
  BY <1>3 DEF VaultInv, KeysInv, CacheGood, Holds
<1>9. RequestsOK'
  <2>1. req'[r] = [req[r] EXCEPT !.pc = "done"] /\ \A s \in Request \ {r} : req'[s] = req[s]
    BY <1>3 DEF VaultInv, TypeOK
  <2>2. RequestOK(r)'
    BY <1>1, <1>3, <2>1, EndedOK DEF VaultInv
  <2> QED BY <1>3, <2>1, <2>2, OthersStay DEF VaultInv
\* Who writes has unwrapped the owner's key, or could have resealed the item.
<1>10. item[i] # Nil =>
         \/ Excused(item[i].blob)
         \/ ownerKey[w.owner] # Nil /\ ownerKey[w.owner].master = "wrong"
  <2>1. CASE p \in WrongKey
    BY <1>1, <1>2, <2>1 DEF RequestOK, Sealing, Holds, MasterOf
  <2>2. CASE p \notin WrongKey
    <3>1. Resealing
      BY <1>2, <2>2 DEF Resealing
    <3> QED BY <1>2, <3>1 DEF VaultInv, LegacyInv, LegacyResealed
  <2> QED BY <2>1, <2>2
<1>11. item[i] # Nil => Excused(item[i].blob)
  BY <1>2, <1>3, <1>10 DEF VaultInv, LegacyInv, LegacyOwned, Excused
<1>12. LegacyResealed'
  <2>1. Resealing' => Resealing
    BY <1>3 DEF Resealing
  <2>2. item'[i] = w /\ \A j \in Item \ {i} : item'[j] = item[j]
    BY <1>2, <1>3 DEF VaultInv, TypeOK
  <2>3. \A x \in versions : x.item \in Item
    BY DEF VaultInv, TypeOK, Version
  <2>4. ownerKey' = ownerKey
    BY <1>3
  <2>5. ASSUME Resealing, NEW j \in Item, item'[j] # Nil PROVE Excused(item'[j].blob)
    BY <1>2, <2>2, <2>5 DEF VaultInv, LegacyInv, LegacyResealed, Excused
  <2>6. ASSUME Resealing, NEW x \in versions', item'[x.item] # Nil PROVE Excused(x.blob)
    <3>1. CASE x \in New
      BY <1>4, <1>11, <3>1
    <3>2. CASE x \in versions
      BY <2>3, <2>6, <3>2 DEF VaultInv, LegacyInv, LegacyResealed, OrphansExcused
    <3> QED BY <1>3, <3>1, <3>2
  <2> QED BY <2>1, <2>4, <2>5, <2>6 DEF LegacyResealed, Excused
<1>13. /\ item'[i] = w /\ \A j \in Item \ {i} : item'[j] = item[j]
       /\ \A x \in versions : x.item \in Item
       /\ ownerKey' = ownerKey
  BY <1>2, <1>3 DEF VaultInv, TypeOK, Version
<1>14. \A x \in versions' \ versions : x.item = i /\ Excused(x.blob)
  BY <1>3, <1>4, <1>11
<1> HIDE DEF w, v, New
<1>15. OrphansExcused'
  BY <1>2, <1>5, <1>13, <1>14 DEF VaultInv, LegacyInv, OrphansExcused, Excused
<1>16. DeletionsExcused'
  <2>1. ASSUME NEW s \in Request, req'[s].pc = "row" PROVE req[s] = req'[s]
    BY <1>1, <1>3, <2>1 DEF VaultInv, TypeOK, Pending
  <2> QED BY <1>2, <1>13, <1>14, <2>1 DEF VaultInv, LegacyInv, DeletionsExcused, Excused
<1>17. LegacyOwned'
  BY <1>2, <1>3, <1>13, <1>14
     DEF VaultInv, LegacyInv, LegacyOwned, OrphansExcused, Excused
<1> QED BY <1>6, <1>7, <1>8, <1>9, <1>12, <1>15, <1>16, <1>17 DEF VaultInv, KeysInv, LegacyInv

LEMMA TakeSnapshotKeeps == ASSUME VaultInv, NEW r \in Request, TakeSnapshot(r) PROVE VaultInv'
<1> DEFINE i == req[r].item
           v == Snapshot(i, item[i].blob, nextId)
           snap == IF item[i] = Nil THEN req[r].snap ELSE v
           q == [req[r] EXCEPT !.snap = snap, !.pc = "upsert"]
<1>1. req[r] \in Pending /\ RequestOK(r) /\ req[r].pc = "snapshot" /\ i \in Item
  BY RequestType DEF VaultInv, KeysInv, RequestsOK, RequestOK, TakeSnapshot
<1>2. snap \in Version \cup {Nil}
  BY <1>1, SnapshotType DEF VaultInv, Pending
<1>3. snap # Nil => Good(snap.blob) /\ Excused(snap.blob)
  <2>1. CASE item[i] = Nil
    BY <1>1, <2>1 DEF RequestOK
  <2>2. CASE item[i] # Nil
    <3>1. snap.blob = item[i].blob
      BY <1>1, <2>2, SnapshotType DEF VaultInv
    <3>2. Resealing
      BY <1>1 DEF RequestOK, Resealing
    <3> QED BY <1>1, <2>2, <3>1, <3>2
         DEF VaultInv, KeysInv, StoredGood, LegacyInv, LegacyResealed
  <2> QED BY <2>1, <2>2
<1>4. q \in Pending
  <2>1. PICK x \in Version \cup {Nil} : x = snap
    BY <1>2
  <2>2. [req[r] EXCEPT !.snap = x, !.pc = "upsert"] \in Pending
    BY <1>1 DEF Pending, Places
  <2> QED BY <2>1, <2>2
<1>5. /\ req' = [req EXCEPT ![r] = q] /\ nextId' \in {nextId, nextId + 1}
      /\ UNCHANGED <<backend, ownerKey, item, life, versions, rewrapped, up, cache>>
  <2>1. CASE item[i] # Nil
    BY <2>1 DEF TakeSnapshot
  <2>2. CASE item[i] = Nil
    <3>1. q = [req[r] EXCEPT !.pc = "upsert"]
      BY <1>1, <2>2 DEF Pending
    <3> QED BY <2>2, <3>1 DEF TakeSnapshot, Goto
  <2> QED BY <2>1, <2>2
<1>6. TypeOK'
  BY <1>4, <1>5 DEF VaultInv, TypeOK
<1>7. StoredGood' /\ CacheGood' /\ LegacyResealed' /\ OrphansExcused' /\ LegacyOwned'
  BY <1>5
     DEF VaultInv, KeysInv, LegacyInv, StoredGood, CacheGood, LegacyResealed, OrphansExcused,
         LegacyOwned, Good, Excused, Holds, Resealing
<1>8. req'[r] = q /\ \A s \in Request \ {r} : req'[s] = req[s]
  BY <1>5 DEF VaultInv, TypeOK
<1>9. RequestsOK'
  <2>1. RequestOK(r)'
    <3>1. PICK x \in Version \cup {Nil} : x = snap
      BY <1>2
    <3>2. req'[r] = [req[r] EXCEPT !.snap = x, !.pc = "upsert"]
      BY <1>8, <3>1
    <3>3. x # Nil => Good(x.blob) /\ Excused(x.blob)
      BY <1>3, <3>1
    <3>4. /\ req'[r].pc = "upsert" /\ req'[r].snap = x
          /\ req'[r].proc = req[r].proc /\ req'[r].item = req[r].item
          /\ req'[r].owner = req[r].owner /\ req'[r].secret = req[r].secret
          /\ req'[r].dek = req[r].dek
      BY <1>1, <3>2 DEF Pending
    <3>5. up' = up /\ ownerKey' = ownerKey /\ backend' = backend
      BY <1>5
    <3> HIDE DEF q, snap
    <3> QED BY <1>1, <3>3, <3>4, <3>5
         DEF RequestOK, KeyPlaces, Sealing, Holds, Good, Excused
  <2>2. (\A s \in Request \ {r} : req'[s] = req[s]) /\ UNCHANGED <<backend, up, ownerKey>>
    BY <1>5, <1>8
  <2> QED BY <2>1, <2>2, OthersStay DEF VaultInv
<1>10. DeletionsExcused'
  <2>1. \A s \in Request : req'[s].pc = "row" => req'[s] = req[s]
    BY <1>1, <1>8 DEF Pending
  <2> QED BY <1>5, <2>1, DeletionsStay DEF VaultInv, LegacyInv
<1> QED BY <1>6, <1>7, <1>9, <1>10 DEF VaultInv, KeysInv, LegacyInv

LEMMA PutPostgresKeeps == ASSUME VaultInv, NEW r \in Request, PutPostgres(r) PROVE VaultInv'
<1> DEFINE i == req[r].item
           w == Written(r, item[i])
           New == {v \in {req[r].snap} : v # Nil}
<1>1. req[r] \in Pending /\ RequestOK(r) /\ req[r].pc = "upsert" /\ Resealing
  BY RequestType DEF VaultInv, KeysInv, RequestsOK, RequestOK, PutPostgres, Resealing
<1>2. /\ i \in Item /\ w \in Row /\ w.blob \in Blob /\ w.blob.key # Legacy /\ Good(w.blob)
      /\ w # Nil
  BY <1>1, WrittenRow, VaultNilAssumption DEF Sealing
<1>3. /\ item' = [item EXCEPT ![i] = w] /\ versions' = versions \cup New
      /\ req' = [req EXCEPT ![r].pc = "done"]
      /\ life' = [life EXCEPT ![i] = w.life]
      /\ UNCHANGED <<backend, ownerKey, nextId, rewrapped, up, cache>>
  BY <1>2 DEF PutPostgres, Upsert, Goto
<1>4. \A v \in New : v \in Version /\ Good(v.blob) /\ Excused(v.blob)
  BY <1>1 DEF RequestOK, Pending
<1>5. TypeOK'
  <2>1. IsFiniteSet(New)
    <3>1. IsFiniteSet({req[r].snap})
      BY FS_Singleton
    <3> QED BY <3>1, FS_Subset
  <2>2. IsFiniteSet(versions')
    BY <1>3, <2>1, FS_Union DEF VaultInv, TypeOK
  <2>3. versions' \subseteq Version
    BY <1>3, <1>4 DEF VaultInv, TypeOK
  <2>4. req' \in [Request -> Pending]
    BY <1>1, <1>3, PlaceType DEF VaultInv, TypeOK, Places
  <2>5. item' \in [Item -> Row \cup {Nil}] /\ life' \in [Item -> Nat]
    BY <1>2, <1>3 DEF VaultInv, TypeOK, Row
  <2> QED BY <1>3, <2>2, <2>3, <2>4, <2>5 DEF VaultInv, TypeOK
<1>6. StoredGood' /\ CacheGood'
  BY <1>2, <1>3, <1>4
     DEF VaultInv, TypeOK, KeysInv, StoredGood, CacheGood, Good, Holds
<1>7. RequestsOK'
  <2>1. req'[r] = [req[r] EXCEPT !.pc = "done"] /\ \A s \in Request \ {r} : req'[s] = req[s]
    BY <1>3 DEF VaultInv, TypeOK
  <2>2. RequestOK(r)'
    BY <1>1, <1>3, <2>1, EndedOK DEF VaultInv
  <2> QED BY <1>3, <2>1, <2>2, OthersStay DEF VaultInv
<1>8. /\ \A j \in Item : item'[j] # Nil => Excused(item'[j].blob)
      /\ \A v \in versions' : Excused(v.blob)
  BY <1>1, <1>2, <1>3, <1>4
     DEF VaultInv, TypeOK, LegacyInv, LegacyResealed, OrphansExcused, Excused
<1>9. \A v \in versions' : v.item \in Item
  BY <1>5 DEF TypeOK, Version
<1>10. LegacyResealed' /\ OrphansExcused' /\ DeletionsExcused' /\ LegacyOwned'
  BY <1>3, <1>8, <1>9
     DEF LegacyResealed, OrphansExcused, DeletionsExcused, LegacyOwned, Excused
<1> QED BY <1>5, <1>6, <1>7, <1>10 DEF VaultInv, KeysInv, LegacyInv

LEMMA DeleteKeeps ==
  ASSUME VaultInv, NEW r \in Request,
         (\E p \in Process, i \in Item : DeleteHistory(r, p, i)) \/ DeleteItemRow(r)
  PROVE  VaultInv'
<1>1. req[r] \in Pending /\ RequestOK(r)
  BY RequestType DEF VaultInv, KeysInv, RequestsOK
<1>2. ASSUME NEW p \in Process, NEW i \in Item, DeleteHistory(r, p, i) PROVE VaultInv'
  <2> DEFINE q == [Fresh EXCEPT !.pc = "row", !.op = "delete", !.proc = p, !.item = i]
  <2>1. /\ req' = [req EXCEPT ![r] = q] /\ p \in up
        /\ versions' = {v \in versions : v.item # i}
        /\ UNCHANGED <<backend, ownerKey, item, life, nextId, rewrapped, up, cache>>
    BY <1>2 DEF DeleteHistory, Begin
  <2>2. q \in Pending /\ q.pc = "row" /\ q.proc = p /\ q.item = i /\ q.snap = Nil
    BY DEF Fresh, Pending, Places
  <2>3. TypeOK'
    <3>1. versions' \subseteq versions /\ IsFiniteSet(versions')
      BY <2>1, FS_Subset DEF VaultInv, TypeOK
    <3> QED BY <2>1, <2>2, <3>1 DEF VaultInv, TypeOK
  <2>4. req'[r] = q /\ \A s \in Request \ {r} : req'[s] = req[s]
    BY <2>1 DEF VaultInv, TypeOK
  <2>5. RequestsOK'
    <3>1. RequestOK(r)'
      <4>1. PICK x \in Pending : x = q
        BY <2>2
      <4>2. req'[r] = x /\ x.pc = "row" /\ x.proc = p /\ x.item = i /\ x.snap = Nil
        BY <2>2, <2>4, <4>1
      <4> HIDE DEF q
      <4> QED BY <2>1, <4>2 DEF RequestOK, KeyPlaces, Sealing
    <3> QED BY <2>1, <2>4, <3>1, OthersStay DEF VaultInv
  <2>6. StoredGood' /\ CacheGood' /\ LegacyResealed' /\ OrphansExcused' /\ LegacyOwned'
    BY <2>1
       DEF VaultInv, KeysInv, LegacyInv, StoredGood, CacheGood, LegacyResealed,
           OrphansExcused, LegacyOwned, Good, Excused, Holds, Resealing
  <2>7. DeletionsExcused'
    BY <2>1, <2>2, <2>4 DEF VaultInv, LegacyInv, DeletionsExcused, Excused
  <2> QED BY <2>3, <2>5, <2>6, <2>7 DEF VaultInv, KeysInv, LegacyInv
<1>3. CASE DeleteItemRow(r)
  <2> DEFINE i == req[r].item
  <2>1. PICK place \in {"done", "failed"} :
          /\ req' = [req EXCEPT ![r].pc = place]
          /\ req[r].pc = "row" /\ item' = [item EXCEPT ![i] = Nil]
          /\ UNCHANGED <<backend, ownerKey, life, versions, nextId, rewrapped, up, cache>>
    BY <1>3 DEF DeleteItemRow, Goto
  <2>2. i \in Item
    BY <1>1, <2>1 DEF RequestOK
  <2>3. TypeOK'
    BY <1>1, <2>1, <2>2, PlaceType DEF VaultInv, TypeOK, Places
  <2>4. req'[r] = [req[r] EXCEPT !.pc = place] /\ \A s \in Request \ {r} : req'[s] = req[s]
    BY <2>1 DEF VaultInv, TypeOK
  <2>5. RequestsOK'
    <3>1. RequestOK(r)'
      BY <1>1, <2>1, <2>4, EndedOK DEF VaultInv
    <3> QED BY <2>1, <2>4, <3>1, OthersStay DEF VaultInv
  <2>6. StoredGood' /\ CacheGood'
    BY <2>1, <2>2 DEF VaultInv, TypeOK, KeysInv, StoredGood, CacheGood, Good, Holds
  <2>7. LegacyResealed' /\ LegacyOwned'
    BY <2>1, <2>2
       DEF VaultInv, TypeOK, LegacyInv, LegacyResealed, LegacyOwned, Excused, Resealing,
           Version
  <2>8. OrphansExcused'
    BY <2>1, <2>2
       DEF VaultInv, TypeOK, LegacyInv, OrphansExcused, DeletionsExcused, Excused, Version
  <2>9. DeletionsExcused'
    <3>1. \A s \in Request : req'[s].pc = "row" => req'[s] = req[s]
      BY <1>1, <2>1, <2>4 DEF Pending
    <3>2. \A x \in versions : x.item \in Item /\ (item'[x.item] # Nil => item'[x.item] = item[x.item])
      BY <2>1, <2>2 DEF VaultInv, TypeOK, Version
    <3>3. ASSUME NEW s \in Request, req'[s].pc = "row", NEW v \in versions,
                 v.item = req'[s].item
          PROVE  /\ Excused(v.blob)
                 /\ item'[v.item] # Nil => Excused(item'[v.item].blob)
      BY <3>1, <3>2, <3>3 DEF VaultInv, LegacyInv, DeletionsExcused
    <3> QED BY <2>1, <3>3 DEF DeletionsExcused, Excused
  <2> QED BY <2>3, <2>5, <2>6, <2>7, <2>8, <2>9 DEF VaultInv, KeysInv, LegacyInv
<1> QED BY <1>2, <1>3

LEMMA EditKeeps ==
  ASSUME VaultInv, NEW p \in Process, NEW i \in Item,
         Archive(p, i) \/ \E v \in versions : Restore(p, i, v)
  PROVE  VaultInv'
<1>1. CASE Archive(p, i)
  <2> DEFINE w == [item[i] EXCEPT !.archived = TRUE]
  <2>1. /\ item' = [item EXCEPT ![i] = w] /\ item[i] # Nil
        /\ UNCHANGED <<backend, ownerKey, life, versions, nextId, rewrapped, up, cache, req>>
    BY <1>1 DEF Archive
  <2>2. item[i] \in Row
    BY <2>1 DEF VaultInv, TypeOK
  <2>3. w \in Row /\ w.blob = item[i].blob /\ w.owner = item[i].owner /\ w # Nil
    BY <2>2, VaultNilAssumption DEF Row
  <2>4. TypeOK'
    BY <2>1, <2>3 DEF VaultInv, TypeOK
  <2>5. RequestsOK'
    BY <2>1, KeysStay DEF VaultInv, TypeOK, KeysInv, RequestsOK, RequestOK, KeysGrow
  <2>6. \A j \in Item : /\ item'[j] = Nil <=> item[j] = Nil
                        /\ item'[j].blob = item[j].blob /\ item'[j].owner = item[j].owner
    BY <2>1, <2>3 DEF VaultInv, TypeOK
  <2>7. \A v \in versions : v.item \in Item
    BY DEF VaultInv, TypeOK, Version
  <2>8. StoredGood' /\ CacheGood' /\ LegacyResealed' /\ OrphansExcused' /\ LegacyOwned'
    BY <2>1, <2>6, <2>7
       DEF VaultInv, KeysInv, LegacyInv, StoredGood, CacheGood, LegacyResealed,
           OrphansExcused, LegacyOwned, Good, Excused, Holds, Resealing
  <2>9. DeletionsExcused'
    BY <2>1, <2>6, <2>7 DEF VaultInv, LegacyInv, DeletionsExcused, Excused
  <2> QED BY <2>4, <2>5, <2>8, <2>9 DEF VaultInv, KeysInv, LegacyInv
<1>2. ASSUME NEW v \in versions, Restore(p, i, v) PROVE VaultInv'
  <2> DEFINE w == [item[i] EXCEPT !.blob = v.blob]
             n == Snapshot(i, item[i].blob, nextId)
  <2>1. /\ item' = [item EXCEPT ![i] = w] /\ item[i] # Nil /\ v.item = i
        /\ versions' = versions \cup {n} /\ nextId' = nextId + 1
        /\ UNCHANGED <<backend, ownerKey, life, rewrapped, up, cache, req>>
    BY <1>2 DEF Restore
  <2>2. item[i] \in Row /\ v \in Version
    BY <2>1 DEF VaultInv, TypeOK
  <2>3. w \in Row /\ w.blob = v.blob /\ w.owner = item[i].owner /\ w # Nil
    BY <2>2, VaultNilAssumption DEF Row, Version
  <2>4. n \in Version /\ n.item = i /\ n.blob = item[i].blob
    BY <2>1, SnapshotType DEF VaultInv
  <2>5. TypeOK'
    <3>1. IsFiniteSet(versions')
      BY <2>1, FS_Singleton, FS_Union DEF VaultInv, TypeOK
    <3> QED BY <2>1, <2>3, <2>4, <3>1 DEF VaultInv, TypeOK
  <2>6. RequestsOK'
    BY <2>1, KeysStay DEF VaultInv, TypeOK, KeysInv, RequestsOK, RequestOK, KeysGrow
  <2> HIDE DEF n, w
  <2>7. /\ item'[i] = w /\ \A j \in Item \ {i} : item'[j] = item[j]
        /\ \A x \in versions' : x.item \in Item
    BY <2>1, <2>5 DEF VaultInv, TypeOK, Version
  <2>8. StoredGood' /\ CacheGood'
    BY <2>1, <2>3, <2>4, <2>7 DEF VaultInv, KeysInv, StoredGood, CacheGood, Good, Holds
  <2>9. LegacyResealed'
    BY <2>1, <2>3, <2>4, <2>7 DEF VaultInv, LegacyInv, LegacyResealed, Excused, Resealing
  <2>10. OrphansExcused'
    BY <2>1, <2>3, <2>4, <2>7 DEF VaultInv, LegacyInv, OrphansExcused, Excused
  <2>11. DeletionsExcused'
    BY <2>1, <2>3, <2>4, <2>7 DEF VaultInv, LegacyInv, DeletionsExcused, Excused
  <2>12. LegacyOwned'
    BY <2>1, <2>3, <2>4, <2>7 DEF VaultInv, LegacyInv, LegacyOwned, Excused
  <2> QED BY <2>5, <2>6, <2>8, <2>9, <2>10, <2>11, <2>12 DEF VaultInv, KeysInv, LegacyInv
<1> QED BY <1>1, <1>2

-----------------------------------------------------------------------------
(* Processes come and go.                                                  *)

\* What the rewrap of process p makes of one row of owner o: a sealed secret that
\* is as good as before, legacy only if it is untouched, and never legacy if p
\* has the right key or could judge every row.
LEMMA Reseals ==
  ASSUME VaultInv, NEW p \in Process, OpenSQLite(p), ~ rewrapped,
         NEW o \in Owner, NEW b \in Blob, NEW n, n = Resealed(p, o, b),
         <<o, b>> \in Sealed, Good(b)
  PROVE  /\ n \in Blob /\ Good(n)'
         /\ n.key = Legacy => n = b
         /\ Excused(b) => Excused(n)'
         /\ MasterOf(p) = "right" \/ rewrapped' => n.key # Legacy
<1> DEFINE k == KeyAfter(p, o)
<1>1. Verdict(p, o, b) # "fail" /\ ownerKey'[o] = k
  BY DEF OpenSQLite
<1>2. ownerKey[o] # Nil => ownerKey[o] \in Wrapped /\ k = ownerKey[o]
  BY DEF VaultInv, TypeOK, KeyAfter
<1>3. CASE Verdict(p, o, b) = "rewrap"
  <2>1. b.key = Legacy /\ MasterOf(p) = "right"
    BY <1>3 DEF Verdict
  <2>2. k \in Wrapped
    <3>1. CASE ownerKey[o] = Nil
      <4>1. \E x \in Sealed : x[1] = o /\ Verdict(p, o, x[2]) = "rewrap"
        BY <1>3
      <4>2. k = [dek |-> <<p, o>>, master |-> MasterOf(p)]
        BY <3>1, <4>1 DEF KeyAfter
      <4> QED BY <4>2 DEF Wrapped, Dek, Master, MasterOf
    <3> QED BY <1>2, <3>1
  <2>3. n = [b EXCEPT !.key = k.dek, !.owner = o]
    BY <1>3 DEF Resealed
  <2>4. k.dek \in Dek /\ k.dek # Legacy /\ k # Nil
    BY <2>2, VaultNilAssumption DEF Wrapped
  <2>5. n \in Blob /\ n.key = k.dek /\ n.owner = o
    BY <2>3, <2>4 DEF Blob
  <2> HIDE DEF k
  <2> QED BY <1>1, <2>4, <2>5 DEF Good, Excused
<1>4. CASE Verdict(p, o, b) # "rewrap"
  <2>1. n = b
    BY <1>4 DEF Resealed
  <2>2. KeysGrow
    BY DEF VaultInv, TypeOK, OpenSQLite, KeyAfter, KeysGrow
  <2>3. Good(b)' /\ (Excused(b) => Excused(b)')
    BY <2>2, KeysStay DEF VaultInv
  <2>4. ASSUME b.key = Legacy PROVE MasterOf(p) # "right" /\ ~ rewrapped'
    <3>1. MasterOf(p) # "right"
      BY <1>1, <1>4, <2>4 DEF Verdict
    <3>2. ownerKey[o] # Nil => ownerKey[o].dek # Legacy
      BY <1>2, VaultNilAssumption DEF Wrapped
    <3>3. Verdict(p, o, b) = "skip"
      BY <1>1, <1>4, <2>4, <3>1, <3>2 DEF Verdict
    <3> QED BY <3>1, <3>3 DEF OpenSQLite
  <2> QED BY <2>1, <2>3, <2>4 DEF Good
<1> QED BY <1>3, <1>4

LEMMA OpenSQLiteKeeps == ASSUME VaultInv, NEW p \in Process, OpenSQLite(p) PROVE VaultInv'
<1>1. /\ up' = up \cup {p} /\ p \notin up /\ backend = "sqlite"
      /\ UNCHANGED <<backend, life, nextId, req>>
  BY DEF OpenSQLite
<1>2. CASE rewrapped
  <2>1. UNCHANGED <<ownerKey, item, versions, rewrapped, cache>>
    BY <1>2 DEF OpenSQLite
  <2>2. TypeOK' /\ StoredGood' /\ CacheGood' /\ OrphansExcused' /\ DeletionsExcused'
          /\ LegacyOwned'
    BY <1>1, <2>1
       DEF VaultInv, KeysInv, LegacyInv, TypeOK, StoredGood, CacheGood, OrphansExcused,
           DeletionsExcused, LegacyOwned, Good, Excused, Holds
  <2>3. LegacyResealed'
    BY <1>2, <2>1 DEF VaultInv, LegacyInv, LegacyResealed, Resealing, Excused
  <2>4. RequestsOK'
    BY <1>1, <2>1, KeysStay DEF VaultInv, TypeOK, KeysInv, RequestsOK, RequestOK, KeysGrow
  <2> QED BY <2>2, <2>3, <2>4 DEF VaultInv, KeysInv, LegacyInv
<1>3. CASE ~ rewrapped
  <2> DEFINE NewRow(i) == [item[i] EXCEPT !.blob = Resealed(p, item[i].owner, item[i].blob)]
             NewVersion(v) == IF item[v.item] = Nil THEN v
                ELSE [v EXCEPT !.blob = Resealed(p, item[v.item].owner, v.blob)]
             GoodNext(b) == b.key # Legacy =>
                ownerKey'[b.owner] # Nil /\ ownerKey'[b.owner].dek = b.key
             ExcusedNext(b) == b.key = Legacy =>
                ownerKey'[b.owner] # Nil /\ ownerKey'[b.owner].master = "wrong"
             RewrapsFor(o) == \E x \in Sealed : x[1] = o /\ Verdict(p, o, x[2]) = "rewrap"
  <2>1. /\ item' = [i \in Item |-> IF item[i] = Nil THEN Nil ELSE NewRow(i)]
        /\ versions' = {NewVersion(v) : v \in versions}
        /\ ownerKey' = [o \in Owner |-> KeyAfter(p, o)]
        /\ cache' = [cache EXCEPT ![p] =
                       [o \in Owner |-> IF RewrapsFor(o) THEN KeyAfter(p, o).dek ELSE Nil]]
        /\ rewrapped' \in BOOLEAN
    BY <1>3 DEF OpenSQLite, RewrapRows
  <2>2. KeysGrow
    BY <2>1 DEF VaultInv, TypeOK, KeysGrow, KeyAfter
  \* The rows that are resealed.
  <2>3. ASSUME NEW i \in Item, item[i] # Nil
        PROVE  /\ item'[i] \in Row /\ item'[i] # Nil /\ item'[i].owner = item[i].owner
               /\ item[i].owner \in Owner
               /\ item'[i].blob = Resealed(p, item[i].owner, item[i].blob)
               /\ GoodNext(item'[i].blob)
               /\ item'[i].blob.key = Legacy => item'[i].blob = item[i].blob
               /\ Excused(item[i].blob) => ExcusedNext(item'[i].blob)
               /\ MasterOf(p) = "right" \/ rewrapped' => item'[i].blob.key # Legacy
    <3>1. item[i] \in Row /\ item[i].owner \in Owner /\ item[i].blob \in Blob
      BY <2>3 DEF VaultInv, TypeOK, Row
    <3>2. PICK n : n = Resealed(p, item[i].owner, item[i].blob)
      OBVIOUS
    <3>3. <<item[i].owner, item[i].blob>> \in Sealed
      BY <2>3 DEF Sealed
    <3>4. Good(item[i].blob)
      BY <2>3 DEF VaultInv, KeysInv, StoredGood
    <3>5. PICK b \in Blob : b = item[i].blob
      BY <3>1
    <3>6. /\ n \in Blob /\ GoodNext(n)
          /\ n.key = Legacy => n = b
          /\ Excused(b) => ExcusedNext(n)
          /\ MasterOf(p) = "right" \/ rewrapped' => n.key # Legacy
      BY <1>3, <3>1, <3>2, <3>3, <3>4, <3>5, Reseals DEF Good, Excused
    <3>7. item'[i] = [item[i] EXCEPT !.blob = n]
      BY <2>1, <2>3, <3>2
    <3>8. item'[i] \in Row /\ item'[i].blob = n /\ item'[i].owner = item[i].owner
      BY <3>1, <3>6, <3>7 DEF Row
    <3> HIDE DEF GoodNext, ExcusedNext
    <3> QED BY <3>1, <3>2, <3>5, <3>6, <3>8, VaultNilAssumption
  <2>4. ASSUME NEW i \in Item PROVE item'[i] = Nil <=> item[i] = Nil
    BY <2>1, <2>3
  \* The versions: those without an item stay.
  <2>5. ASSUME NEW v \in versions
        PROVE  /\ NewVersion(v) \in Version /\ NewVersion(v).item = v.item /\ v.item \in Item
               /\ item[v.item] = Nil => NewVersion(v) = v
               /\ GoodNext(NewVersion(v).blob)
               /\ NewVersion(v).blob.key = Legacy => NewVersion(v).blob = v.blob
               /\ Excused(v.blob) => ExcusedNext(NewVersion(v).blob)
               /\ item[v.item] # Nil /\ (MasterOf(p) = "right" \/ rewrapped') =>
                    NewVersion(v).blob.key # Legacy
    <3>1. v \in Version /\ v.item \in Item /\ v.blob \in Blob /\ Good(v.blob)
      BY DEF VaultInv, TypeOK, Version, KeysInv, StoredGood
    <3>2. CASE item[v.item] = Nil
      <4>1. ASSUME NEW b \in Blob, b = v.blob
            PROVE  GoodNext(b) /\ (Excused(b) => ExcusedNext(b))
        BY <2>2, <3>1, <4>1, KeysStay DEF VaultInv, Good, Excused
      <4>2. NewVersion(v) = v
        BY <3>2
      <4> HIDE DEF GoodNext, ExcusedNext, NewVersion
      <4> QED BY <3>1, <3>2, <4>1, <4>2
    <3>3. CASE item[v.item] # Nil
      <4>1. item[v.item].owner \in Owner
        BY <3>1, <3>3 DEF VaultInv, TypeOK, Row
      <4>2. PICK n : n = Resealed(p, item[v.item].owner, v.blob)
        OBVIOUS
      <4>3. <<item[v.item].owner, v.blob>> \in Sealed
        BY <3>1, <3>3 DEF Sealed
      <4>4. PICK b \in Blob : b = v.blob
        BY <3>1
      <4>5. /\ n \in Blob /\ GoodNext(n)
            /\ n.key = Legacy => n = b
            /\ Excused(b) => ExcusedNext(n)
            /\ MasterOf(p) = "right" \/ rewrapped' => n.key # Legacy
        BY <1>3, <3>1, <4>1, <4>2, <4>3, <4>4, Reseals DEF Good, Excused
      <4>6. NewVersion(v) = [v EXCEPT !.blob = n]
        BY <3>3, <4>2
      <4>7. NewVersion(v) \in Version /\ NewVersion(v).blob = n /\ NewVersion(v).item = v.item
        BY <3>1, <4>5, <4>6 DEF Version
      <4> HIDE DEF GoodNext, ExcusedNext, NewVersion
      <4> QED BY <3>1, <3>3, <4>4, <4>5, <4>7
    <3> QED BY <3>2, <3>3
  <2>6. \A v \in versions' : \E w \in versions : v = NewVersion(w)
    BY <2>1
  <2> HIDE DEF NewRow, NewVersion, GoodNext, ExcusedNext
  <2>7. IsFiniteSet(versions')
    <3> DEFINE f == [v \in versions |-> NewVersion(v)]
    <3>1. f \in Surjection(versions, versions')
      BY <2>1 DEF Surjection
    <3> QED BY <3>1, FS_Surjection DEF VaultInv, TypeOK
  \* A key that is drawn or kept for a row that is resealed.
  <2>8. ASSUME NEW o \in Owner, RewrapsFor(o)
        PROVE  /\ KeyAfter(p, o) \in Wrapped /\ KeyAfter(p, o) # Nil
               /\ ownerKey'[o] = KeyAfter(p, o) /\ KeyAfter(p, o).master = MasterOf(p)
    <3>1. MasterOf(p) = "right" /\ (ownerKey[o] # Nil => ownerKey[o].master = "right")
      BY <2>8 DEF Verdict
    <3>2. CASE ownerKey[o] = Nil
      <4>1. KeyAfter(p, o) = [dek |-> <<p, o>>, master |-> "right"]
        BY <2>8, <3>1, <3>2 DEF KeyAfter
      <4>2. KeyAfter(p, o) \in Wrapped
        BY <4>1 DEF Wrapped, Dek, Master
      <4> QED BY <2>1, <3>1, <4>1, <4>2, VaultNilAssumption
    <3>3. CASE ownerKey[o] # Nil
      <4>1. KeyAfter(p, o) = ownerKey[o] /\ ownerKey[o] \in Wrapped
        BY <3>3 DEF KeyAfter, VaultInv, TypeOK
      <4> QED BY <2>1, <3>1, <3>3, <4>1
    <3> QED BY <3>2, <3>3
  <2>9. TypeOK'
    <3>1. item' \in [Item -> Row \cup {Nil}]
      BY <2>1, <2>3
    <3>2. versions' \subseteq Version
      BY <2>5, <2>6
    <3>3. ownerKey' \in [Owner -> Wrapped \cup {Nil}]
      <4>1. ASSUME NEW o \in Owner PROVE KeyAfter(p, o) \in Wrapped \cup {Nil}
        BY <2>8 DEF KeyAfter, VaultInv, TypeOK
      <4> QED BY <2>1, <4>1
    <3>4. cache' \in [Process -> [Owner -> Dek \cup {Nil}]]
      <4>1. ASSUME NEW o \in Owner, RewrapsFor(o) PROVE KeyAfter(p, o).dek \in Dek
        BY <2>8, <4>1 DEF Wrapped
      <4> HIDE DEF RewrapsFor
      <4>2. [o \in Owner |-> IF RewrapsFor(o) THEN KeyAfter(p, o).dek ELSE Nil]
              \in [Owner -> Dek \cup {Nil}]
        BY <4>1
      <4> QED BY <2>1, <4>2 DEF VaultInv, TypeOK
    <3> QED BY <1>1, <2>1, <2>7, <3>1, <3>2, <3>3, <3>4 DEF VaultInv, TypeOK
  <2>10. StoredGood'
    <3>1. ASSUME NEW i \in Item, item'[i] # Nil PROVE GoodNext(item'[i].blob)
      BY <2>3, <2>4, <3>1
    <3>2. ASSUME NEW v \in versions' PROVE GoodNext(v.blob)
      BY <2>5, <2>6
    <3> QED BY <3>1, <3>2 DEF StoredGood, Good, GoodNext, ExcusedNext
  <2>11. CacheGood'
    <3>1. ASSUME NEW q \in Process, NEW o \in Owner, cache'[q][o] # Nil
          PROVE  Holds(q, o, cache[q][o])'
      <4>1. CASE q = p
        <5>1. RewrapsFor(o) /\ cache'[p][o] = KeyAfter(p, o).dek
          BY <2>1, <3>1, <4>1 DEF VaultInv, TypeOK
        <5> QED BY <2>8, <4>1, <5>1 DEF Holds
      <4>2. CASE q # p
        <5>1. cache'[q][o] = cache[q][o] /\ cache[q][o] \in Dek
          BY <2>1, <3>1, <4>2 DEF VaultInv, TypeOK
        <5>2. Holds(q, o, cache[q][o])
          BY <3>1, <5>1 DEF VaultInv, KeysInv, CacheGood
        <5> QED BY <2>2, <5>1, <5>2 DEF Holds, KeysGrow
      <4> QED BY <4>1, <4>2
    <3> QED BY <3>1 DEF CacheGood
  <2>12. RequestsOK'
    BY <1>1, <2>2, KeysStay DEF VaultInv, KeysInv, RequestsOK, RequestOK
  <2>13. LegacyResealed'
    <3>1. CASE Resealing
      <4>1. ASSUME NEW i \in Item, item'[i] # Nil PROVE ExcusedNext(item'[i].blob)
        BY <2>3, <2>4, <3>1, <4>1 DEF VaultInv, LegacyInv, LegacyResealed
      <4>2. ASSUME NEW v \in versions', item'[v.item] # Nil PROVE ExcusedNext(v.blob)
        BY <2>4, <2>5, <2>6, <3>1, <4>2 DEF VaultInv, LegacyInv, LegacyResealed
      <4> QED BY <4>1, <4>2 DEF LegacyResealed, Excused, GoodNext, ExcusedNext
    <3>2. CASE MasterOf(p) = "right" \/ rewrapped'
      <4>1. ASSUME NEW i \in Item, item'[i] # Nil PROVE item'[i].blob.key # Legacy
        BY <2>3, <2>4, <3>2, <4>1
      <4>2. ASSUME NEW v \in versions', item'[v.item] # Nil PROVE v.blob.key # Legacy
        BY <2>4, <2>5, <2>6, <3>2, <4>2
      <4> QED BY <4>1, <4>2 DEF LegacyResealed, Excused, GoodNext, ExcusedNext
    <3>3. CASE ~ Resealing /\ ~ (MasterOf(p) = "right" \/ rewrapped')
      BY <1>1, <3>3 DEF LegacyResealed, Resealing, MasterOf
    <3> QED BY <3>1, <3>2, <3>3
  <2>14. OrphansExcused'
    <3>1. ASSUME NEW v \in versions', item'[v.item] = Nil PROVE ExcusedNext(v.blob)
      BY <2>4, <2>5, <2>6, <3>1 DEF VaultInv, LegacyInv, OrphansExcused
    <3> QED BY <3>1 DEF OrphansExcused, Excused, GoodNext, ExcusedNext
  <2>15. DeletionsExcused'
    <3>1. ASSUME NEW r \in Request, req'[r].pc = "row", NEW v \in versions',
                 v.item = req'[r].item
          PROVE  ExcusedNext(v.blob) /\ (item'[v.item] # Nil => ExcusedNext(item'[v.item].blob))
      <4>1. PICK w \in versions : v = NewVersion(w)
        BY <2>6
      <4>2. w.item = req[r].item /\ req[r].pc = "row" /\ v.item = w.item /\ w.item \in Item
        BY <1>1, <2>5, <3>1, <4>1
      <4>3. Excused(w.blob) /\ (item[w.item] # Nil => Excused(item[w.item].blob))
        BY <4>2 DEF VaultInv, LegacyInv, DeletionsExcused
      <4> QED BY <2>3, <2>4, <2>5, <4>1, <4>2, <4>3
    <3> QED BY <3>1 DEF DeletionsExcused, Excused, GoodNext, ExcusedNext
  <2>16. LegacyOwned'
    <3>1. ASSUME NEW i \in Item, item'[i] # Nil, item'[i].blob.key = Legacy
          PROVE  ExcusedNext(item'[i].blob) \/ item'[i].blob.owner = item'[i].owner
      BY <2>3, <2>4, <3>1 DEF VaultInv, LegacyInv, LegacyOwned
    <3>2. ASSUME NEW v \in versions', item'[v.item] # Nil, v.blob.key = Legacy
          PROVE  ExcusedNext(v.blob) \/ v.blob.owner = item'[v.item].owner
      <4>1. PICK w \in versions : v = NewVersion(w)
        BY <2>6
      <4>2. v.blob = w.blob /\ v.item = w.item /\ w.item \in Item /\ item[w.item] # Nil
        BY <2>4, <2>5, <3>2, <4>1
      <4>3. Excused(w.blob) \/ w.blob.owner = item[w.item].owner
        BY <3>2, <4>2 DEF VaultInv, LegacyInv, LegacyOwned
      <4> QED BY <2>3, <2>5, <4>1, <4>2, <4>3
    <3> QED BY <3>1, <3>2 DEF LegacyOwned, Excused, GoodNext, ExcusedNext
  <2> QED BY <2>9, <2>10, <2>11, <2>12, <2>13, <2>14, <2>15, <2>16
       DEF VaultInv, KeysInv, LegacyInv
<1> QED BY <1>2, <1>3

LEMMA OpenPostgresKeeps ==
  ASSUME VaultInv, NEW p \in Process, OpenPostgres(p) PROVE VaultInv'
<1>1. up' = up \cup {p} /\ UNCHANGED <<tables, cache, req>> /\ Resealing
  BY DEF OpenPostgres, Resealing
<1>2. TypeOK' /\ StoredGood' /\ CacheGood' /\ LegacyInv'
  BY <1>1
     DEF VaultInv, KeysInv, LegacyInv, TypeOK, StoredGood, CacheGood, LegacyResealed,
         OrphansExcused, DeletionsExcused, LegacyOwned, Good, Excused, Holds, tables
<1>3. RequestsOK'
  BY <1>1, KeysStay
     DEF VaultInv, TypeOK, KeysInv, RequestsOK, RequestOK, KeysGrow, tables
<1> QED BY <1>2, <1>3 DEF VaultInv, KeysInv

LEMMA StopKeeps == ASSUME VaultInv, NEW p \in Process, Stop(p) PROVE VaultInv'
<1>1. /\ up' = up \ {p} /\ cache' = [cache EXCEPT ![p] = [o \in Owner |-> Nil]]
      /\ ownerKey' = ownerKey /\ UNCHANGED tables
      /\ \A r \in Request : req'[r] =
           IF req[r].proc = p /\ req[r].pc \notin {"done", "failed"}
           THEN [req[r] EXCEPT !.pc = "failed"] ELSE req[r]
      /\ req' \in [Request -> Pending]
  <2>1. ASSUME NEW r \in Request PROVE [req[r] EXCEPT !.pc = "failed"] \in Pending
    BY RequestType, PlaceType DEF VaultInv, Places
  <2> QED BY <2>1 DEF Stop, tables, VaultInv, TypeOK
<1>2. TypeOK'
  BY <1>1 DEF VaultInv, TypeOK, tables
<1>3. StoredGood' /\ CacheGood' /\ OrphansExcused' /\ LegacyOwned'
  BY <1>1
     DEF VaultInv, KeysInv, LegacyInv, TypeOK, StoredGood, CacheGood, OrphansExcused,
         LegacyOwned, Good, Excused, Holds, tables
<1>4. LegacyResealed'
  <2>1. Resealing' => Resealing
    BY <1>1 DEF Resealing, tables
  <2> QED BY <1>1, <2>1 DEF VaultInv, LegacyInv, LegacyResealed, Excused, tables
<1>5. ASSUME NEW r \in Request PROVE RequestOK(r)'
  <2>1. CASE req'[r] = [req[r] EXCEPT !.pc = "failed"]
    <3>1. PICK q \in Pending : req'[r] = q /\ q.pc = "failed" /\ q.snap = req[r].snap
      BY Zenon, <2>1, RequestType, PlaceType DEF VaultInv, Places
    <3>2. q.snap # Nil => Good(q.snap.blob) /\ Excused(q.snap.blob)
      BY <3>1 DEF VaultInv, KeysInv, RequestsOK, RequestOK
    <3> QED BY <1>1, <3>1, <3>2 DEF RequestOK, KeyPlaces, Sealing, Holds, Good, Excused
  <2>2. CASE req'[r] = req[r] /\ (req[r].proc # p \/ req[r].pc \in {"done", "failed"})
    BY <1>1, <2>2, KeysStay
       DEF VaultInv, TypeOK, KeysInv, RequestsOK, RequestOK, KeysGrow, tables
  <2> QED BY <1>1, <2>1, <2>2
<1>6. DeletionsExcused'
  <2>1. ASSUME NEW r \in Request, req'[r].pc = "row" PROVE req'[r] = req[r]
    BY <1>1, <2>1, RequestType, PlaceType DEF VaultInv, Places
  <2> QED BY <1>1, <2>1 DEF VaultInv, LegacyInv, DeletionsExcused, Excused, tables
<1> QED BY <1>2, <1>3, <1>4, <1>5, <1>6 DEF VaultInv, KeysInv, LegacyInv, RequestsOK

-----------------------------------------------------------------------------
(* The theorems.                                                           *)

LEMMA VaultInit == ASSUME Init PROVE VaultInv
<1>1. PICK legacy \in SUBSET Item, o \in Owner, s \in Secret :
      \E rotated \in {{}} \cup {{i} : i \in legacy} :
        /\ backend = "postgres" => legacy = {}
        /\ item = [i \in Item |->
             IF i \in legacy
             THEN [owner |-> o, totp |-> FALSE, archived |-> FALSE, life |-> 1,
                   blob |-> [key |-> Legacy, owner |-> o, secret |-> s, seed |-> FALSE]]
             ELSE Nil]
        /\ life = [i \in Item |-> IF i \in legacy THEN 1 ELSE 0]
        /\ versions = {[id |-> 1, item |-> i, life |-> 1, blob |-> item[i].blob] : i \in rotated}
        /\ nextId = 1 + Cardinality(versions)
  BY DEF Init
<1>2. PICK rotated \in {{}} \cup {{i} : i \in legacy} :
        /\ backend = "postgres" => legacy = {}
        /\ item = [i \in Item |->
             IF i \in legacy
             THEN [owner |-> o, totp |-> FALSE, archived |-> FALSE, life |-> 1,
                   blob |-> [key |-> Legacy, owner |-> o, secret |-> s, seed |-> FALSE]]
             ELSE Nil]
        /\ life = [i \in Item |-> IF i \in legacy THEN 1 ELSE 0]
        /\ versions = {[id |-> 1, item |-> i, life |-> 1, blob |-> item[i].blob] : i \in rotated}
        /\ nextId = 1 + Cardinality(versions)
  BY <1>1
<1>3. /\ backend \in Backends /\ ownerKey = [x \in Owner |-> Nil]
      /\ rewrapped = FALSE /\ up = {}
      /\ cache = [p \in Process |-> [x \in Owner |-> Nil]]
      /\ req = [r \in Request |-> Fresh]
  BY DEF Init
<1> DEFINE b == [key |-> Legacy, owner |-> o, secret |-> s, seed |-> FALSE]
<1>4. b \in Blob /\ b.key = Legacy /\ b.owner = o
  BY DEF Blob
<1>5. ASSUME NEW i \in Item
      PROVE  /\ item[i] # Nil <=> i \in legacy
             /\ i \in legacy => /\ item[i] \in Row /\ item[i].blob = b /\ item[i].owner = o
             /\ i \notin legacy => item[i] = Nil
  <2>1. CASE i \in legacy
    <3>1. item[i] = [owner |-> o, totp |-> FALSE, archived |-> FALSE, life |-> 1, blob |-> b]
      BY <1>2, <2>1
    <3>2. item[i] \in Row /\ item[i].blob = b /\ item[i].owner = o
      BY <1>4, <3>1 DEF Row
    <3> QED BY <2>1, <3>2, VaultNilAssumption
  <2>2. CASE i \notin legacy
    BY <1>2, <2>2
  <2> QED BY <2>1, <2>2
<1>6. ASSUME NEW v \in versions
      PROVE  v \in Version /\ v.item \in legacy /\ v.blob = b
  <2>1. PICK i \in rotated : v = [id |-> 1, item |-> i, life |-> 1, blob |-> item[i].blob]
    BY <1>2
  <2>2. i \in legacy /\ i \in Item
    BY <1>1, <2>1
  <2>3. item[i].blob = b
    BY <1>5, <2>2
  <2> HIDE DEF b
  <2> QED BY <1>4, <2>1, <2>2, <2>3 DEF Version
<1>7. IsFiniteSet(versions) /\ nextId \in Nat
  <2>1. CASE rotated = {}
    <3>1. versions = {}
      BY <1>2, <2>1
    <3>2. IsFiniteSet(versions) /\ Cardinality(versions) = 0
      BY <3>1, FS_EmptySet
    <3>3. nextId = 1 + Cardinality(versions)
      BY <1>2
    <3> QED BY <3>2, <3>3
  <2>2. CASE rotated # {}
    <3>1. PICK i \in legacy : rotated = {i}
      BY <2>2
    <3>2. versions = {[id |-> 1, item |-> i, life |-> 1, blob |-> item[i].blob]}
      BY <1>2, <3>1
    <3>3. IsFiniteSet(versions) /\ Cardinality(versions) = 1
      BY <3>2, FS_Singleton
    <3> QED BY <1>2, <3>3
  <2> QED BY <2>1, <2>2
<1>8. Fresh \in Pending /\ Fresh.pc = "start" /\ Fresh.snap = Nil
  BY DEF Fresh, Pending, Places
<1> HIDE DEF b
<1>9. TypeOK
  <2>1. item \in [Item -> Row \cup {Nil}]
    BY <1>2, <1>5
  <2>2. life \in [Item -> Nat] /\ req \in [Request -> Pending]
    BY <1>2, <1>3, <1>8
  <2> QED BY <1>3, <1>6, <1>7, <2>1, <2>2 DEF TypeOK
<1>10. StoredGood /\ CacheGood
  BY <1>3, <1>4, <1>5, <1>6 DEF StoredGood, CacheGood, Good
<1>11. RequestsOK
  <2>1. ASSUME NEW r \in Request PROVE req[r].pc = "start" /\ req[r].snap = Nil
    BY <1>3, <1>8
  <2> QED BY <2>1 DEF RequestsOK, RequestOK, KeyPlaces, Sealing
<1>12. LegacyResealed
  <2>1. Resealing => legacy = {}
    BY <1>2, <1>3 DEF Resealing
  <2> QED BY <1>5, <1>6, <2>1 DEF LegacyResealed
<1>13. OrphansExcused /\ LegacyOwned
  BY <1>1, <1>4, <1>5, <1>6 DEF OrphansExcused, LegacyOwned
<1>14. DeletionsExcused
  BY <1>3, <1>8 DEF DeletionsExcused
<1> QED BY <1>9, <1>10, <1>11, <1>12, <1>13, <1>14 DEF VaultInv, KeysInv, LegacyInv

LEMMA VaultStutters == ASSUME VaultInv, UNCHANGED vars PROVE VaultInv'
<1> USE DEF VaultInv, vars, tables
<1>1. TypeOK' /\ StoredGood' /\ CacheGood'
  BY DEF KeysInv, TypeOK, StoredGood, CacheGood, Good, Holds
<1>2. RequestsOK'
  BY DEF KeysInv, RequestsOK, RequestOK, Good, Excused, Holds
<1>3. LegacyResealed' /\ OrphansExcused' /\ LegacyOwned'
  BY DEF LegacyInv, LegacyResealed, OrphansExcused, LegacyOwned, Excused, Resealing
<1>4. DeletionsExcused'
  BY DeletionsStay DEF LegacyInv
<1> QED BY <1>1, <1>2, <1>3, <1>4 DEF KeysInv, LegacyInv

LEMMA VaultSteps == ASSUME VaultInv, [Next]_vars PROVE VaultInv'
<1>1. ASSUME NEW p \in Process, OpenSQLite(p) \/ OpenPostgres(p) \/ Stop(p) PROVE VaultInv'
  BY <1>1, OpenSQLiteKeeps, OpenPostgresKeeps, StopKeeps
<1>2. ASSUME NEW r \in Request, RequestStep(r) PROVE VaultInv'
  BY <1>2, KeyCachedKeeps, KeyLoadKeeps, KeyStoreKeeps, RequestReads, PutSQLiteKeeps,
     TakeSnapshotKeeps, PutPostgresKeeps, DeleteKeeps DEF RequestStep
<1>3. ASSUME NEW r \in Request, RequestFails(r) PROVE VaultInv'
  BY <1>3, RequestReads
<1>4. ASSUME NEW r \in Request, NEW p \in Process, NEW i \in Item,
             \/ \E o \in Owner, s \in Secret, seed \in BOOLEAN : BeginPut(r, p, i, o, s, seed)
             \/ \E op \in {"update", "totp"} : BeginRewrite(r, p, op, i)
             \/ BeginRead(r, p, i)
             \/ DeleteHistory(r, p, i)
      PROVE  VaultInv'
  BY <1>4, RequestBegins, DeleteKeeps
<1>5. ASSUME NEW p \in Process, NEW i \in Item,
             Archive(p, i) \/ \E v \in versions : Restore(p, i, v)
      PROVE  VaultInv'
  BY <1>5, EditKeeps
<1> QED BY <1>1, <1>2, <1>3, <1>4, <1>5, VaultStutters DEF Next

\* The invariant that carries the proofs: what a request, a cache and a stored
\* secret may hold, and which legacy secrets may be left where.
THEOREM VaultInvHolds == Spec => []VaultInv
<1>1. Init => VaultInv
  BY VaultInit
<1>2. VaultInv /\ [Next]_vars => VaultInv'
  BY VaultSteps
<1> QED BY <1>1, <1>2, PTL DEF Spec

\* However many processes and requests share the vault, and wherever they stop,
\* all that is sealed for an owner is sealed with the one stored key of that
\* owner, and nothing that is in reach of the rewrap stays sealed the legacy
\* way while a process with the right master key runs.
THEOREM ItemsInvHolds == Spec => []ItemsInv
<1>1. VaultInv => ItemsInv
  <2> SUFFICES ASSUME VaultInv PROVE ItemsInv
    OBVIOUS
  <2>1. OneKeyPerOwner
    <3>1. \A i \in Item : item[i] # Nil => Good(item[i].blob)
      BY DEF VaultInv, KeysInv, StoredGood
    <3>2. \A v \in versions : Good(v.blob)
      BY DEF VaultInv, KeysInv, StoredGood
    <3>3. \A p \in Process, o \in Owner :
            cache[p][o] # Nil => ownerKey[o] # Nil /\ ownerKey[o].dek = cache[p][o]
      BY DEF VaultInv, KeysInv, CacheGood, Holds
    <3> QED BY <3>1, <3>2, <3>3 DEF OneKeyPerOwner, Good
  <2>2. LegacyIsGone
    <3>1. ASSUME up \ WrongKey # {}, NEW x \in Sealed PROVE Excused(x[2])
      <4>1. LegacyResealed /\ Resealing
        BY <3>1 DEF VaultInv, LegacyInv, Resealing
      <4> QED BY <4>1 DEF Sealed, LegacyResealed
    <3> QED BY <3>1 DEF LegacyIsGone, Excused
  <2> QED BY <2>1, <2>2 DEF VaultInv, ItemsInv
<1> QED BY <1>1, VaultInvHolds, PTL

\* No step of any process replaces a secret of a SQLite vault without leaving
\* it in the history: a reseal keeps what is inside, and whoever writes another
\* secret keeps the one there was in the same transaction.
THEOREM SecretsKeptHolds == Spec => SecretsKept
<1>1. ASSUME VaultInv, [Next]_vars, NEW i \in Item, backend = "sqlite", item[i] # Nil,
             item'[i] # Nil, item'[i].blob.secret # item[i].blob.secret
      PROVE  \E v \in versions' : v.item = i /\ v.blob = item[i].blob
  <2>1. item[i] \in Row /\ TypeOK
    BY <1>1 DEF VaultInv, TypeOK
  <2>2. CASE item' = item
    BY <1>1, <2>2
  <2>3. ASSUME NEW p \in Process, OpenSQLite(p) PROVE FALSE
    <3>1. CASE rewrapped
      BY <1>1, <2>3, <3>1 DEF OpenSQLite
    <3>2. CASE ~ rewrapped
      <4>1. PICK n : n = Resealed(p, item[i].owner, item[i].blob)
        OBVIOUS
      <4>2. n.secret = item[i].blob.secret
        BY <2>1, <4>1 DEF Resealed, Row, Blob
      <4>3. item'[i] = [item[i] EXCEPT !.blob = n]
        BY <1>1, <2>3, <3>2, <4>1 DEF OpenSQLite, RewrapRows
      <4> QED BY <1>1, <2>1, <4>2, <4>3 DEF Row
    <3> QED BY <3>1, <3>2
  <2>4. ASSUME NEW r \in Request, PutSQLite(r)
        PROVE  \E v \in versions' : v.item = i /\ v.blob = item[i].blob
    <3>1. req[r].item = i
      BY <1>1, <2>1, <2>4 DEF PutSQLite, Upsert, TypeOK
    <3>2. Snapshot(i, item[i].blob, nextId) \in versions'
      BY <1>1, <2>4, <3>1 DEF PutSQLite
    <3> QED BY <1>1, <2>1, <3>2, SnapshotType
  <2>5. ASSUME NEW r \in Request, PutPostgres(r) PROVE FALSE
    BY <1>1, <2>5 DEF PutPostgres, VaultInv, KeysInv, RequestsOK, RequestOK
  <2>6. ASSUME NEW r \in Request, DeleteItemRow(r) PROVE FALSE
    BY <1>1, <2>1, <2>6 DEF DeleteItemRow, TypeOK
  <2>7. ASSUME NEW p \in Process, NEW j \in Item, NEW v \in versions, Restore(p, j, v)
        PROVE  \E w \in versions' : w.item = i /\ w.blob = item[i].blob
    <3>1. i = j
      BY <1>1, <2>1, <2>7 DEF Restore, TypeOK
    <3>2. Snapshot(i, item[i].blob, nextId) \in versions'
      BY <2>7, <3>1 DEF Restore
    <3> QED BY <1>1, <2>1, <3>2, SnapshotType
  <2>8. ASSUME NEW p \in Process, NEW j \in Item, Archive(p, j) PROVE FALSE
    <3>1. item'[i] = item[i] \/ item'[i] = [item[i] EXCEPT !.archived = TRUE]
      BY <2>1, <2>8 DEF Archive, TypeOK
    <3> QED BY <1>1, <2>1, <3>1 DEF Row
  <2>9. ASSUME NEW r \in Request,
               \/ KeyCached(r) \/ KeyLoad(r) \/ KeyMissing(r) \/ KeyStore(r) \/ ReadSealed(r)
               \/ PutOtherOwner(r) \/ CheckOwner(r) \/ TakeSnapshot(r) \/ RequestFails(r)
        PROVE  item' = item
    BY <2>9 DEF KeyCached, KeyLoad, KeyMissing, KeyStore, ReadSealed, PutOtherOwner,
                CheckOwner, TakeSnapshot, RequestFails, tables
  <2>10. ASSUME NEW r \in Request, NEW p \in Process, NEW j \in Item,
                \/ \E o \in Owner, x \in Secret, seed \in BOOLEAN :
                     BeginPut(r, p, j, o, x, seed)
                \/ \E op \in {"update", "totp"} : BeginRewrite(r, p, op, j)
                \/ BeginRead(r, p, j) \/ DeleteHistory(r, p, j)
         PROVE  item' = item
    BY <2>10 DEF BeginPut, BeginRewrite, BeginRead, DeleteHistory, Begin, tables
  <2>11. ASSUME NEW p \in Process, OpenPostgres(p) \/ Stop(p) PROVE item' = item
    BY <2>11 DEF OpenPostgres, Stop, tables
  <2>12. CASE UNCHANGED vars
    BY <2>2, <2>12 DEF vars, tables
  <2>13. ASSUME NEW r \in Request, RequestStep(r)
         PROVE  \E v \in versions' : v.item = i /\ v.blob = item[i].blob
    BY <2>2, <2>4, <2>5, <2>6, <2>9, <2>13 DEF RequestStep
  <2> QED BY <1>1, <2>2, <2>3, <2>7, <2>8, <2>9, <2>10, <2>11, <2>12, <2>13 DEF Next
<1>2. VaultInv /\ [Next]_vars =>
        [\A i \in Item :
           /\ backend = "sqlite" /\ item[i] # Nil /\ item'[i] # Nil
           /\ item'[i].blob.secret # item[i].blob.secret
           => \E v \in versions' : v.item = i /\ v.blob = item[i].blob]_vars
  BY <1>1
<1> QED BY <1>2, VaultInvHolds, PTL DEF Spec, SecretsKept

=============================================================================
