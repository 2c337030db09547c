------------------------------ MODULE ItemVault ------------------------------
(***************************************************************************)
(* Items, their sealed secrets and their history, under the data key of    *)
(* their owner: keyManager (internal/store/owner.go), PutItem, Secret,     *)
(* RestoreVersion and DeleteItem of both databases, the legacy rewrap of   *)
(* OpenSQLite, and the handlers of internal/app that read a secret, change *)
(* it and write it back.                                                   *)
(*                                                                         *)
(* Several processes share one database.  A process keeps the data keys it *)
(* has unwrapped in memory; a crash loses them and every request it was    *)
(* serving.  A SQLite transaction takes the write lock when it begins      *)
(* (_txlock=immediate), so it is one action.  A Postgres transaction is    *)
(* READ COMMITTED: each of its statements is one action, and its writes    *)
(* appear with the last one, which takes the row lock and commits.         *)
(***************************************************************************)
EXTENDS Integers, FiniteSets

CONSTANTS Process, Request, Item, Owner, Secret,
          WrongKey,    \* the processes given another master key
          Backends,    \* "sqlite", "postgres"
          MaxRestore,  \* bound: a secret is restored below this many versions
          Legacy,      \* the key of secrets sealed before owners had keys
          Nil

ASSUME VaultAssumption ==
  /\ Backends \subseteq {"sqlite", "postgres"}
  /\ WrongKey \subseteq Process
  /\ Process \cap Request = {}
  /\ MaxRestore \in Nat
  /\ Nil \notin Item \cup Owner \cup Secret \cup Process \cup Request

\* A data key is named by who drew it (a request, or the rewrap of a process
\* that opens the vault) and for whom.  Legacy stands for the master key
\* that sealed secrets directly before owners had keys.
Dek     == (Request \cup Process) \X Owner
Master  == {"right", "wrong"}
Wrapped == [dek : Dek, master : Master]
\* A sealed envelope.  The owner is not part of it: it says whose key the
\* writer meant to use.
Blob    == [key : Dek \cup {Legacy}, owner : Owner, secret : Secret, seed : BOOLEAN]
\* life counts the rows an id has had, to tell an item from a later one of
\* the same id.
Row     == [owner : Owner, totp : BOOLEAN, archived : BOOLEAN, blob : Blob, life : Nat]
Version == [id : Nat, item : Item, blob : Blob, life : Nat]

ASSUME VaultNilAssumption ==
  /\ Nil \notin Wrapped \cup Blob \cup Row \cup Version \cup Dek
  /\ Legacy \notin Dek

VARIABLES
  backend,   \* which database
  ownerKey,  \* owner_keys: Nil or the wrapped data key
  item,      \* items
  life,      \* how many rows an id has had
  versions,  \* item_versions
  nextId,    \* the sequence of item_versions
  rewrapped, \* schema_version has rewrap_legacy
  up,        \* the processes that run
  cache,     \* keyManager.deks of each process
  req        \* the requests

tables == <<backend, ownerKey, item, life, versions, nextId, rewrapped>>
vars   == <<tables, up, cache, req>>

\* A request: where it is, the row it will write (item to seed), the owner
\* whose key it needs and what it does with it, the sealed secret it read, and
\* the snapshot a Postgres transaction has taken.
Fresh == [pc |-> "start", op |-> Nil, proc |-> Nil, item |-> Nil, owner |-> Nil,
          totp |-> FALSE, archived |-> FALSE, secret |-> Nil, seed |-> FALSE,
          holder |-> Nil, then |-> "write", dek |-> Nil, blob |-> Nil,
          snap |-> Nil]

Places == {"start", "secret", "key", "keystore", "keyload", "write", "snapshot",
           "upsert", "row", "done", "failed"}

Pending ==
  [pc : Places, op : {"put", "update", "totp", "read", "delete", Nil},
   proc : Process \cup {Nil}, item : Item \cup {Nil}, owner : Owner \cup {Nil},
   totp : BOOLEAN, archived : BOOLEAN, secret : Secret \cup {Nil},
   seed : BOOLEAN, holder : Owner \cup {Nil}, then : {"open", "write"},
   dek : Dek \cup {Nil}, blob : Blob \cup {Nil}, snap : Version \cup {Nil}]

TypeOK ==
  /\ backend \in Backends
  /\ ownerKey \in [Owner -> Wrapped \cup {Nil}]
  /\ item \in [Item -> Row \cup {Nil}]
  /\ life \in [Item -> Nat]
  /\ versions \subseteq Version /\ IsFiniteSet(versions)
  /\ nextId \in Nat
  /\ rewrapped \in BOOLEAN
  /\ up \subseteq Process
  /\ cache \in [Process -> [Owner -> Dek \cup {Nil}]]
  /\ req \in [Request -> Pending]

\* A vault of an earlier version: some items hold secrets the master key
\* sealed, and one of them has a history.  A database that is new is empty; Postgres never had such rows.
Init ==
  /\ backend \in Backends
  /\ ownerKey = [o \in Owner |-> Nil]
  /\ \E legacy \in SUBSET Item, o \in Owner, s \in Secret :
     \E rotated \in {{}} \cup {{i} : i \in legacy} :
       /\ backend = "postgres" => legacy = {}
       /\ item = [i \in Item |->
            IF i \in legacy
            THEN [owner |-> o, totp |-> FALSE, archived |-> FALSE, life |-> 1,
                  blob |-> [key |-> Legacy, owner |-> o, secret |-> s, seed |-> FALSE]]
            ELSE Nil]
       /\ life = [i \in Item |-> IF i \in legacy THEN 1 ELSE 0]
       /\ versions = {[id |-> 1, item |-> i, life |-> 1, blob |-> item[i].blob] :
                        i \in rotated}
       /\ nextId = 1 + Cardinality(versions)
  /\ rewrapped = FALSE
  /\ up = {} /\ cache = [p \in Process |-> [o \in Owner |-> Nil]]
  /\ req = [r \in Request |-> Fresh]

MasterOf(p) == IF p \in WrongKey THEN "wrong" ELSE "right"

Goto(r, place) == req' = [req EXCEPT ![r].pc = place]

-----------------------------------------------------------------------------
(* Opening the vault.                                                      *)

\* What rewrapRows makes of a sealed row of owner o: it reseals what the
\* master key opens, keeps what the owner's key opens, skips what it has no
\* way to judge, and stops at anything else.
Verdict(p, o, blob) ==
  IF blob.key = Legacy /\ MasterOf(p) = "right"
  THEN IF ownerKey[o] # Nil /\ ownerKey[o].master # "right" THEN "fail" ELSE "rewrap"
  ELSE IF ownerKey[o] = Nil \/ ownerKey[o].master # MasterOf(p) THEN "skip"
  ELSE IF ownerKey[o].dek = blob.key THEN "resolved" ELSE "fail"

\* Every sealed row with the owner it is joined to; a version whose item is
\* gone joins nothing.
Sealed == {<<item[i].owner, item[i].blob>> : i \in {j \in Item : item[j] # Nil}}
          \cup {<<item[v.item].owner, v.blob>> :
                  v \in {w \in versions : item[w.item] # Nil}}

\* The owner's key once process p has rewrapped: the one there is, or a new one.
KeyAfter(p, o) ==
  IF ownerKey[o] = Nil /\ \E x \in Sealed : x[1] = o /\ Verdict(p, o, x[2]) = "rewrap"
  THEN [dek |-> <<p, o>>, master |-> MasterOf(p)]
  ELSE ownerKey[o]

Resealed(p, o, blob) ==
  IF Verdict(p, o, blob) = "rewrap"
  THEN [blob EXCEPT !.key = KeyAfter(p, o).dek, !.owner = o] ELSE blob

\* Mutant: the rows of item_versions are not resealed.
RewrapNoHistory(p) ==
  /\ item' = [i \in Item |-> IF item[i] = Nil THEN Nil
                ELSE [item[i] EXCEPT !.blob = Resealed(p, item[i].owner, @)]]
  /\ UNCHANGED versions

\* Items, then the history of the items that are there.
RewrapRows(p) ==
  /\ item' = [i \in Item |-> IF item[i] = Nil THEN Nil
                ELSE [item[i] EXCEPT !.blob = Resealed(p, item[i].owner, @)]]
  /\ versions' = {IF item[v.item] = Nil THEN v
                  ELSE [v EXCEPT !.blob = Resealed(p, item[v.item].owner, @)] :
                  v \in versions}

\* OpenSQLite: the rewrap is one transaction, unless it is marked done.  The
\* mark needs at least one row and every row judged.
OpenSQLite(p) ==
  /\ backend = "sqlite" /\ p \notin up
  /\ up' = up \cup {p}
  /\ IF rewrapped
     THEN UNCHANGED <<ownerKey, item, versions, rewrapped, cache>>
     ELSE /\ \A x \in Sealed : Verdict(p, x[1], x[2]) # "fail"
          /\ RewrapRows(p)
          /\ ownerKey' = [o \in Owner |-> KeyAfter(p, o)]
          /\ cache' = [cache EXCEPT ![p] = [o \in Owner |->
                         IF \E x \in Sealed : x[1] = o /\ Verdict(p, o, x[2]) = "rewrap"
                         THEN KeyAfter(p, o).dek ELSE Nil]]
          /\ rewrapped' = (/\ Sealed # {}
                           /\ \A x \in Sealed : Verdict(p, x[1], x[2]) # "skip")
  /\ UNCHANGED <<backend, life, nextId, req>>

OpenPostgres(p) ==
  /\ backend = "postgres" /\ p \notin up
  /\ up' = up \cup {p}
  /\ UNCHANGED <<tables, cache, req>>

\* A process stops: its keys are forgotten, its requests end where they are.
Stop(p) ==
  /\ p \in up
  /\ up' = up \ {p}
  /\ cache' = [cache EXCEPT ![p] = [o \in Owner |-> Nil]]
  /\ req' = [r \in Request |->
       IF req[r].proc = p /\ req[r].pc \notin {"done", "failed"}
       THEN [req[r] EXCEPT !.pc = "failed"] ELSE req[r]]
  /\ UNCHANGED tables

-----------------------------------------------------------------------------
(* ownerDEK: the cache, else the table; a key that is not there is drawn,  *)
(* stored unless another one came first, and the stored one is loaded.     *)

\* Request r has its key d: it opens the secret it read, or goes on to seal.
Got(r, d) ==
  IF req[r].then = "write" THEN [req[r] EXCEPT !.dek = d, !.pc = "write"]
  ELSE IF req[r].blob.key # d THEN [req[r] EXCEPT !.pc = "failed"]
  ELSE IF req[r].op = "read"
  THEN [req[r] EXCEPT !.secret = req[r].blob.secret, !.pc = "done"]
  ELSE [req[r] EXCEPT !.secret = req[r].blob.secret,
                      !.seed = req[r].op = "totp" \/ req[r].blob.seed,
                      !.holder = req[r].owner, !.then = "write", !.pc = "key"]

KeyCached(r) ==
  LET p == req[r].proc  o == req[r].holder IN
  /\ req[r].pc = "key" /\ cache[p][o] # Nil
  /\ req' = [req EXCEPT ![r] = Got(r, cache[p][o])]
  /\ UNCHANGED <<tables, up, cache>>

\* The stored key is unwrapped with the master key and kept.
KeyLoad(r) ==
  LET p == req[r].proc  o == req[r].holder IN
  /\ \/ req[r].pc = "key" /\ cache[p][o] = Nil
     \/ req[r].pc = "keyload"
  /\ ownerKey[o] # Nil
  /\ IF ownerKey[o].master = MasterOf(p)
     THEN /\ cache' = [cache EXCEPT ![p][o] = ownerKey[o].dek]
          /\ req' = [req EXCEPT ![r] = Got(r, ownerKey[o].dek)]
     ELSE Goto(r, "failed") /\ UNCHANGED cache
  /\ UNCHANGED <<tables, up>>

KeyMissing(r) ==
  /\ req[r].pc = "key" /\ cache[req[r].proc][req[r].holder] = Nil
  /\ ownerKey[req[r].holder] = Nil
  /\ Goto(r, "keystore")
  /\ UNCHANGED <<tables, up, cache>>

\* INSERT ... ON CONFLICT DO NOTHING.
KeyStore(r) ==
  LET o == req[r].holder IN
  /\ req[r].pc = "keystore"
  /\ ownerKey' = [ownerKey EXCEPT ![o] =
                    IF @ = Nil THEN [dek |-> <<r, o>>, master |-> MasterOf(req[r].proc)]
                    ELSE @]
  /\ Goto(r, "keyload")
  /\ UNCHANGED <<backend, item, life, versions, nextId, rewrapped, up, cache>>

-----------------------------------------------------------------------------
(* Handlers.                                                               *)

Begin(r, p) ==
  /\ p \in up /\ req[r].pc = "start"
  /\ UNCHANGED <<up, cache>>

\* App.PutItem, as PutItemFor, ImportItems and the passkey handlers call it.
BeginPut(r, p, i, o, s, seed) ==
  /\ Begin(r, p)
  /\ req' = [req EXCEPT ![r] =
       [Fresh EXCEPT !.pc = "key", !.op = "put", !.proc = p, !.item = i, !.owner = o,
                     !.totp = seed, !.secret = s, !.seed = seed, !.holder = o]]
  /\ UNCHANGED tables

\* UpdateItem and AttachTOTP read the row first; the row is written back with
\* the owner and the flags read here.  A second seed is refused.
BeginRewrite(r, p, op, i) ==
  /\ Begin(r, p)
  /\ item[i] # Nil
  /\ op = "totp" => ~ item[i].totp
  /\ req' = [req EXCEPT ![r] =
       [Fresh EXCEPT !.pc = "secret", !.op = op, !.proc = p, !.item = i,
                     !.owner = item[i].owner, !.archived = item[i].archived,
                     !.totp = op = "totp" \/ item[i].totp]]
  /\ UNCHANGED tables

\* A reader of the secret: Use, the fill handlers, WriteFile.
BeginRead(r, p, i) ==
  /\ Begin(r, p)
  /\ item[i] # Nil
  /\ req' = [req EXCEPT ![r] = [Fresh EXCEPT !.pc = "secret", !.op = "read",
                                             !.proc = p, !.item = i]]
  /\ UNCHANGED tables

\* Secret reads the sealed secret and its owner in one statement.
ReadSealed(r) ==
  LET i == req[r].item IN
  /\ req[r].pc = "secret"
  /\ IF item[i] = Nil THEN Goto(r, "failed")
     ELSE req' = [req EXCEPT ![r].blob = item[i].blob, ![r].holder = item[i].owner,
                             ![r].then = "open", ![r].pc = "key"]
  /\ UNCHANGED <<tables, up, cache>>

-----------------------------------------------------------------------------
(* Writes of an item.                                                      *)

\* The row request r writes over row old (Nil if there is none).
Written(r, old) ==
  [owner |-> req[r].owner, totp |-> req[r].totp, archived |-> req[r].archived,
   life |-> IF old = Nil THEN life[req[r].item] + 1 ELSE old.life,
   blob |-> [key |-> req[r].dek, owner |-> req[r].owner,
             secret |-> req[r].secret, seed |-> req[r].seed]]

Upsert(r) ==
  LET i == req[r].item IN
  /\ item' = [item EXCEPT ![i] = Written(r, item[i])]
  /\ life' = [life EXCEPT ![i] = Written(r, item[i]).life]

\* The row of item_versions that keeps a sealed secret of item i.
Snapshot(i, blob, id) == [id |-> id, item |-> i, blob |-> blob, life |-> life[i]]

\* Mutant: the secret is snapshotted after it is replaced.
PutSQLiteLateSnapshot(r) ==
  LET i == req[r].item IN
  /\ backend = "sqlite" /\ req[r].pc = "write"
  /\ item[i] # Nil => item[i].owner = req[r].owner
  /\ Upsert(r)
  /\ IF item[i] = Nil THEN UNCHANGED <<versions, nextId>>
     ELSE /\ versions' = versions \cup {Snapshot(i, Written(r, item[i]).blob, nextId)}
          /\ nextId' = nextId + 1
  /\ Goto(r, "done")
  /\ UNCHANGED <<backend, ownerKey, rewrapped, up, cache>>

\* SQLite's PutItem: the owner never changes, the secret that is replaced goes
\* to the history.
PutSQLite(r) ==
  LET i == req[r].item IN
  /\ backend = "sqlite" /\ req[r].pc = "write"
  /\ item[i] # Nil => item[i].owner = req[r].owner
  /\ Upsert(r)
  /\ IF item[i] = Nil THEN UNCHANGED <<versions, nextId>>
     ELSE /\ versions' = versions \cup {Snapshot(i, item[i].blob, nextId)}
          /\ nextId' = nextId + 1
  /\ Goto(r, "done")
  /\ UNCHANGED <<backend, ownerKey, rewrapped, up, cache>>

\* The owner the item has is not the one it is written with.
PutOtherOwner(r) ==
  LET i == req[r].item IN
  /\ req[r].pc = "write"
  /\ item[i] # Nil /\ item[i].owner # req[r].owner
  /\ Goto(r, "failed")
  /\ UNCHANGED <<tables, up, cache>>

\* Postgres: the owner is read, the snapshot selected, the row written.
CheckOwner(r) ==
  LET i == req[r].item IN
  /\ backend = "postgres" /\ req[r].pc = "write"
  /\ item[i] # Nil => item[i].owner = req[r].owner
  /\ Goto(r, "snapshot")
  /\ UNCHANGED <<tables, up, cache>>

TakeSnapshot(r) ==
  LET i == req[r].item IN
  /\ req[r].pc = "snapshot"
  /\ IF item[i] = Nil THEN Goto(r, "upsert") /\ UNCHANGED nextId
     ELSE /\ req' = [req EXCEPT ![r].snap = Snapshot(i, item[i].blob, nextId),
                               ![r].pc = "upsert"]
          /\ nextId' = nextId + 1
  /\ UNCHANGED <<backend, ownerKey, item, life, versions, rewrapped, up, cache>>

PutPostgres(r) ==
  /\ req[r].pc = "upsert"
  /\ Upsert(r)
  /\ versions' = versions \cup {v \in {req[r].snap} : v # Nil}
  /\ Goto(r, "done")
  /\ UNCHANGED <<backend, ownerKey, nextId, rewrapped, up, cache>>

\* RestoreVersion, which only the local command line calls: the current secret
\* goes to the history and a sealed one comes back.
Restore(p, i, v) ==
  /\ backend = "sqlite" /\ p \in up
  /\ v \in versions /\ v.item = i
  /\ item[i] # Nil /\ nextId < MaxRestore
  /\ versions' = versions \cup {Snapshot(i, item[i].blob, nextId)}
  /\ nextId' = nextId + 1
  /\ item' = [item EXCEPT ![i].blob = v.blob]
  /\ UNCHANGED <<backend, ownerKey, life, rewrapped, up, cache, req>>

Archive(p, i) ==
  /\ p \in up /\ item[i] # Nil /\ ~ item[i].archived
  /\ item' = [item EXCEPT ![i].archived = TRUE]
  /\ UNCHANGED <<backend, ownerKey, life, versions, nextId, rewrapped, up, cache, req>>

\* DeleteItem: the history, the grants (module Owner), then the row, each in a
\* statement of its own.
DeleteHistory(r, p, i) ==
  /\ Begin(r, p)
  /\ versions' = {v \in versions : v.item # i}
  /\ req' = [req EXCEPT ![r] = [Fresh EXCEPT !.pc = "row", !.op = "delete",
                                             !.proc = p, !.item = i]]
  /\ UNCHANGED <<backend, ownerKey, item, life, nextId, rewrapped>>

DeleteItemRow(r) ==
  /\ req[r].pc = "row"
  /\ item' = [item EXCEPT ![req[r].item] = Nil]
  /\ Goto(r, IF item[req[r].item] = Nil THEN "failed" ELSE "done")
  /\ UNCHANGED <<backend, ownerKey, life, versions, nextId, rewrapped, up, cache>>

\* A statement or a transaction fails, is rolled back, and ends the request.
RequestFails(r) ==
  /\ req[r].pc \notin {"start", "done", "failed"}
  /\ Goto(r, "failed")
  /\ UNCHANGED <<tables, up, cache>>

RequestStep(r) ==
  \/ KeyCached(r) \/ KeyLoad(r) \/ KeyMissing(r) \/ KeyStore(r)
  \/ ReadSealed(r)
  \/ PutSQLite(r) \/ PutOtherOwner(r)
  \/ CheckOwner(r) \/ TakeSnapshot(r) \/ PutPostgres(r)
  \/ DeleteItemRow(r)

Next ==
  \/ \E p \in Process : OpenSQLite(p) \/ OpenPostgres(p) \/ Stop(p)
  \/ \E r \in Request :
       \/ RequestStep(r) \/ RequestFails(r)
       \/ \E p \in Process, i \in Item :
            \/ \E o \in Owner, s \in Secret, seed \in BOOLEAN : BeginPut(r, p, i, o, s, seed)
            \/ \E op \in {"update", "totp"} : BeginRewrite(r, p, op, i)
            \/ BeginRead(r, p, i)
            \/ DeleteHistory(r, p, i)
  \/ \E p \in Process, i \in Item : Archive(p, i) \/ \E v \in versions : Restore(p, i, v)

Spec == Init /\ [][Next]_vars

-----------------------------------------------------------------------------
(* Properties.                                                             *)

\* All processes seal with one key for each owner, the stored one: whoever drew
\* a key, however the draws, loads, restarts and rewraps interleave, every
\* sealed secret and every key in memory is that key.  A second key would make
\* secrets unreadable to whoever loads the first (owner.go ownerDEK).
OneKeyPerOwner ==
  /\ \A b \in {item[i].blob : i \in {j \in Item : item[j] # Nil}}
              \cup {v.blob : v \in versions} :
       b.key # Legacy => ownerKey[b.owner] # Nil /\ ownerKey[b.owner].dek = b.key
  /\ \A p \in Process, o \in Owner :
       cache[p][o] # Nil => ownerKey[o] # Nil /\ ownerKey[o].dek = cache[p][o]

\* While a process with the right master key runs, no item and no version of an
\* item is sealed the legacy way any more, in particular none that the rewrap
\* marked as done has missed (OpenSQLite, rewrapLegacy); unless the key of its
\* owner was drawn under another master.  Such a process may write an item
\* between the statements of DeleteItem and so leave a version without an item,
\* which no rewrap sees and which a later item of that id has in its history.
LegacyIsGone ==
  up \ WrongKey # {} =>
    \A x \in Sealed : x[2].key = Legacy =>
      ownerKey[x[2].owner] # Nil /\ ownerKey[x[2].owner].master = "wrong"

ItemsInv == TypeOK /\ OneKeyPerOwner /\ LegacyIsGone

\* In SQLite no secret is overwritten without being kept in the history:
\* whatever replaces it (PutItem, UpdateItem, AttachTOTP, a restore) leaves a
\* version that holds it, until the item is deleted.  In Postgres a secret
\* written between another writer's snapshot and its upsert is lost.
SecretsKept ==
  [][\A i \in Item :
       /\ backend = "sqlite" /\ item[i] # Nil /\ item'[i] # Nil
       /\ item'[i].blob.secret # item[i].blob.secret
       => \E v \in versions' : v.item = i /\ v.blob = item[i].blob]_vars


=============================================================================
