---------------------------- MODULE MigrateProofs ----------------------------
(***************************************************************************)
(* Proofs about veil migrate: what a cutover leaves behind, which key      *)
(* opens what it has brought over, and which ids it has taken, for any     *)
(* items, sessions and events and any number of copies that stop half-way. *)
(***************************************************************************)
EXTENDS Migrate, TLAPS

-----------------------------------------------------------------------------
(* The inductive invariant.  Its parts are about the tables S of SQLite    *)
(* and the tables D of Postgres.                                           *)

Names == Range(Tables)

\* A table without rows, or with a row of a highest id.
HasTop(rows) == DOMAIN rows = {} \/ \E m \in DOMAIN rows : \A k \in DOMAIN rows : k <= m

LogRow == [by : Side, of : Item \cup Event \cup {Nil}]

RowOK(t, row, keys) ==
  /\ t = "items" => row \in ItemRow(keys)
  /\ t = "owner_keys" => row \in keys
  /\ t = "sessions" => row \in Nat
  /\ t \in Identity => row \in LogRow

TableOK(t, rows, keys) ==
  /\ DOMAIN rows \subseteq Keys(t)
  /\ t \in Identity => HasTop(rows)
  /\ \A k \in DOMAIN rows : RowOK(t, rows[k], keys)

TablesOK(D, keys) ==
  /\ DOMAIN D = Names /\ D = [t \in Names |-> D[t]]
  /\ \A t \in Names : TableOK(t, D[t], keys)

CountsOK ==
  /\ next \in [Identity -> Nat \ {0}]
  /\ taken \in [Identity -> SUBSET (Nat \ {0})]
  /\ rewritten \subseteq ({"items"} \X Item) \cup ({"sessions"} \X Session)
  /\ pos \in 0 .. Len(Tables) + 2 /\ passes \in 0 .. MaxPasses
  /\ {writing, final, done, serving, orderly, clashed} \subseteq BOOLEAN

\* The source: who has an item has a data key.
Stored(S) ==
  /\ DOMAIN S["items"] # {} => "owner" \in DOMAIN S["owner_keys"]
  /\ "owner" \in DOMAIN S["owner_keys"] => S["owner_keys"]["owner"] = "sqlite"

\* Postgres while the service does not run: copied rows only.
Copied(S, D) ==
  /\ \A t \in Names : DOMAIN D[t] \subseteq DOMAIN S[t]
  /\ \A i \in DOMAIN D["items"] : D["items"][i].key = "sqlite"
  /\ "owner" \in DOMAIN D["owner_keys"] => D["owner_keys"]["owner"] = "sqlite"

\* Row new is row old, or what the service has made of it.
Follows(t, new, old) ==
  /\ t \in WrittenOnce => new = old
  /\ t = "items" => new = old \/ new.by = "postgres"
  /\ t = "sessions" => new >= old

\* The row Postgres has under a key of the source follows the row of the source,
\* unless R says that the source has written it again.
Agree(S, D, R) ==
  \A t \in Names : \A k \in DOMAIN S[t] \cap DOMAIN D[t] :
    <<t, k>> \notin R => Follows(t, D[t][k], S[t][k])

\* The tables before place n have been brought over.
Brought(S, D, n) ==
  \A k \in 1 .. Len(Tables) : k < n => DOMAIN S[Tables[k]] \subseteq DOMAIN D[Tables[k]]

Below(rows, n) == \A id \in DOMAIN rows : id < n

\* The ids the sequence has given, and those in the table, are behind it.
Ahead(rows, given, n) ==
  Below(rows, n) /\ \A id \in given : id < n /\ id \notin DOMAIN rows

Readable(D) ==
  \A i \in DOMAIN D["items"] :
    "owner" \in DOMAIN D["owner_keys"] /\ D["items"][i].key = D["owner_keys"]["owner"]

BeforeService ==
  ~ serving => /\ orderly /\ Copied(src, dst)
               /\ \A t \in Identity : taken[t] = {}

CopyOK ==
  pos # 0 /\ final => /\ ~ writing /\ Brought(src, dst, pos)
                      /\ orderly /\ pos = Len(Tables) + 2 => Below(dst["audit"], next["audit"])

DoneOK ==
  done => /\ ~ writing
          /\ \A t \in Names : DOMAIN src[t] \subseteq DOMAIN dst[t]
          /\ orderly => \A t \in Identity : Ahead(dst[t], taken[t], next[t])

ServiceOK ==
  /\ orderly => Agree(src, dst, rewritten) /\ ~ clashed
  /\ orderly /\ serving => done /\ pos = 0 /\ Readable(dst)

MigrateIInv ==
  /\ TablesOK(src, {"sqlite"}) /\ Stored(src) /\ TablesOK(dst, Side) /\ CountsOK
  /\ BeforeService /\ CopyOK /\ DoneOK /\ ServiceOK

-----------------------------------------------------------------------------
(* Tables.                                                                 *)

LEMMA NamesAre ==
  /\ Names = {"items", "audit", "owner_keys", "item_versions", "sessions"}
  /\ Len(Tables) = 5 /\ Identity \subseteq Names
  /\ \A k \in 1 .. 5 : Tables[k] \in Names
  /\ \A t \in Names : \E k \in 1 .. 5 : Tables[k] = t
<1>1. Len(Tables) = 5 /\ DOMAIN Tables = 1 .. 5
  BY DEF Tables
<1>2. 1 .. 5 = {1, 2, 3, 4, 5}
  OBVIOUS
<1>3. /\ Tables[1] = "items" /\ Tables[2] = "audit" /\ Tables[3] = "owner_keys"
      /\ Tables[4] = "item_versions" /\ Tables[5] = "sessions"
  BY DEF Tables
<1>4. Names = {Tables[k] : k \in 1 .. 5}
  BY <1>1 DEF Names, Range
<1> QED BY <1>1, <1>2, <1>3, <1>4 DEF Identity

LEMMA KeysAre ==
  /\ Keys("items") = Item /\ Keys("owner_keys") = {"owner"} /\ Keys("sessions") = Session
  /\ \A t \in Identity : Keys(t) = Nat \ {0}
BY DEF Keys, Identity

LEMMA TopIs ==
  ASSUME NEW rows, DOMAIN rows \subseteq Nat \ {0}, HasTop(rows)
  PROVE  TopId(rows) \in Nat /\ \A k \in DOMAIN rows : k <= TopId(rows)
<1>1. CASE DOMAIN rows = {}
  BY <1>1 DEF TopId, Ids
<1>2. CASE DOMAIN rows # {}
  <2>1. PICK m \in DOMAIN rows : \A k \in DOMAIN rows : m >= k
    BY <1>2 DEF HasTop
  <2>2. TopId(rows) = CHOOSE x \in DOMAIN rows : \A y \in DOMAIN rows : x >= y
    BY <1>2 DEF TopId, Ids, Max
  <2>3. TopId(rows) \in DOMAIN rows /\ \A y \in DOMAIN rows : TopId(rows) >= y
    BY <2>1, <2>2
  <2> QED BY <2>3
<1> QED BY <1>1, <1>2

LEMMA WithRows ==
  ASSUME NEW rows, NEW key, NEW row
  PROVE  /\ DOMAIN With(rows, key, row) = DOMAIN rows \cup {key}
         /\ With(rows, key, row)[key] = row
         /\ \A k \in DOMAIN rows \ {key} : With(rows, key, row)[k] = rows[k]
BY DEF With

LEMMA InsertNewRows ==
  ASSUME NEW into, NEW rows
  PROVE  /\ DOMAIN InsertNew(into, rows) = DOMAIN into \cup DOMAIN rows
         /\ \A k \in DOMAIN into : InsertNew(into, rows)[k] = into[k]
         /\ \A k \in DOMAIN rows \ DOMAIN into : InsertNew(into, rows)[k] = rows[k]
BY DEF InsertNew

\* A table stays one when a row is added, or another table's rows are.
LEMMA TableWith ==
  ASSUME NEW t \in Names, NEW rows, NEW keys, TableOK(t, rows, keys),
         NEW key \in Keys(t), NEW row, RowOK(t, row, keys)
  PROVE  TableOK(t, With(rows, key, row), keys)
<1> DEFINE w == With(rows, key, row)
<1>1. /\ DOMAIN w = DOMAIN rows \cup {key} /\ w[key] = row
      /\ \A k \in DOMAIN rows \ {key} : w[k] = rows[k]
  BY DEF With
<1> HIDE DEF w
<1>2. ASSUME t \in Identity PROVE HasTop(w)
  <2>1. key \in Nat /\ DOMAIN rows \subseteq Nat /\ HasTop(rows)
    BY <1>2 DEF TableOK, Keys, Identity
  <2>2. CASE DOMAIN rows = {}
    BY <1>1, <2>1, <2>2 DEF HasTop
  <2>3. CASE DOMAIN rows # {}
    <3>1. PICK m \in DOMAIN rows : \A k \in DOMAIN rows : k <= m
      BY <2>1, <2>3 DEF HasTop
    <3>2. CASE key <= m
      BY <1>1, <2>1, <3>1, <3>2 DEF HasTop
    <3>3. CASE ~ (key <= m)
      <4>1. \A k \in DOMAIN rows : k <= key
        BY <2>1, <3>1, <3>3
      <4> QED BY <1>1, <2>1, <4>1 DEF HasTop
    <3> QED BY <3>2, <3>3
  <2> QED BY <2>2, <2>3
<1>3. ASSUME NEW k \in DOMAIN w PROVE RowOK(t, w[k], keys)
  <2>1. CASE k = key
    BY <1>1, <2>1
  <2>2. CASE k # key
    BY <1>1, <1>3, <2>2 DEF TableOK
  <2> QED BY <2>1, <2>2
<1>4. DOMAIN w \subseteq Keys(t)
  BY <1>1 DEF TableOK
<1> QED BY <1>2, <1>3, <1>4 DEF TableOK, w

\* A row the source may hold is one Postgres may hold.
LEMMA RowsOfEither ==
  ASSUME NEW t, NEW row, RowOK(t, row, {"sqlite"})
  PROVE  RowOK(t, row, Side)
BY DEF RowOK, ItemRow, Side

LEMMA TableInsert ==
  ASSUME NEW t \in Names, NEW into, TableOK(t, into, Side), NEW rows, TableOK(t, rows, {"sqlite"})
  PROVE  TableOK(t, InsertNew(into, rows), Side)
<1> DEFINE w == InsertNew(into, rows)
<1>1. /\ DOMAIN w = DOMAIN into \cup DOMAIN rows
      /\ \A k \in DOMAIN into : w[k] = into[k]
      /\ \A k \in DOMAIN rows \ DOMAIN into : w[k] = rows[k]
  BY InsertNewRows
<1> HIDE DEF w
<1>2. ASSUME t \in Identity PROVE HasTop(w)
  <2>1. DOMAIN into \subseteq Nat /\ HasTop(into) /\ DOMAIN rows \subseteq Nat /\ HasTop(rows)
    BY <1>2 DEF TableOK, Keys, Identity
  <2>2. CASE DOMAIN rows = {} \/ DOMAIN into = {}
    BY <1>1, <2>1, <2>2 DEF HasTop
  <2>3. CASE DOMAIN rows # {} /\ DOMAIN into # {}
    <3>1. PICK m \in DOMAIN into : \A k \in DOMAIN into : k <= m
      BY <2>1, <2>3 DEF HasTop
    <3>2. PICK n \in DOMAIN rows : \A k \in DOMAIN rows : k <= n
      BY <2>1, <2>3 DEF HasTop
    <3>3. CASE m <= n
      <4>1. \A k \in DOMAIN into \cup DOMAIN rows : k <= n
        BY <2>1, <3>1, <3>2, <3>3
      <4> QED BY <1>1, <4>1 DEF HasTop
    <3>4. CASE ~ (m <= n)
      <4>1. \A k \in DOMAIN into \cup DOMAIN rows : k <= m
        BY <2>1, <3>1, <3>2, <3>4
      <4> QED BY <1>1, <4>1 DEF HasTop
    <3> QED BY <3>3, <3>4
  <2> QED BY <2>2, <2>3
<1>3. ASSUME NEW k \in DOMAIN w PROVE RowOK(t, w[k], Side)
  <2>1. CASE k \in DOMAIN into
    BY <1>1, <2>1 DEF TableOK
  <2>2. CASE k \notin DOMAIN into
    <3>1. RowOK(t, rows[k], {"sqlite"}) /\ w[k] = rows[k]
      BY <1>1, <1>3, <2>2 DEF TableOK
    <3> QED BY <3>1, RowsOfEither
  <2> QED BY <2>1, <2>2
<1>4. DOMAIN w \subseteq Keys(t)
  BY <1>1 DEF TableOK
<1> QED BY <1>2, <1>3, <1>4 DEF TableOK, w

\* How rows follow each other.
LEMMA FollowsRows ==
  ASSUME NEW t \in Names
  PROVE  /\ \A x : RowOK(t, x, Side) => Follows(t, x, x)
         /\ \A x, y, z : /\ RowOK(t, x, Side) /\ RowOK(t, y, Side) /\ RowOK(t, z, Side)
                         /\ Follows(t, x, y) /\ Follows(t, y, z)
                         => Follows(t, x, z)
<1>1. t \in WrittenOnce \/ t = "items" \/ t = "sessions"
  BY NamesAre DEF WrittenOnce, Identity
<1>2. "items" \notin WrittenOnce /\ "sessions" \notin WrittenOnce
  BY DEF WrittenOnce, Identity
<1>3. CASE t \in WrittenOnce
  BY <1>2, <1>3 DEF Follows
<1>4. CASE t = "items"
  BY <1>2, <1>4 DEF Follows
<1>5. CASE t = "sessions"
  BY <1>2, <1>5 DEF Follows, RowOK
<1> QED BY <1>1, <1>3, <1>4, <1>5

-----------------------------------------------------------------------------
(* The source is written.                                                  *)

\* A row stays, as it is unless R has it or Postgres has no row under its key.
GrowsTo(S, E, D, R) ==
  /\ \A t \in Names : DOMAIN S[t] \subseteq DOMAIN E[t]
  /\ \A t \in Names : \A k \in DOMAIN S[t] \cap DOMAIN D[t] :
       <<t, k>> \notin R => E[t][k] = S[t][k]

\* A row appended to a log is under a new id.
LEMMA LogAppends ==
  ASSUME NEW t \in Identity, NEW rows, NEW keys, TableOK(t, rows, keys), NEW row \in LogRow
  PROVE  /\ TableOK(t, With(rows, TopId(rows) + 1, row), keys)
         /\ DOMAIN rows \subseteq DOMAIN With(rows, TopId(rows) + 1, row)
         /\ \A id \in DOMAIN rows : With(rows, TopId(rows) + 1, row)[id] = rows[id]
<1> DEFINE n == TopId(rows) + 1
<1>1. DOMAIN rows \subseteq Nat \ {0} /\ HasTop(rows)
  BY DEF TableOK, Keys, Identity
<1>2. TopId(rows) \in Nat /\ \A k \in DOMAIN rows : k <= TopId(rows)
  BY <1>1, TopIs
<1>3. n \in Nat \ {0} /\ n \notin DOMAIN rows
  BY <1>1, <1>2
<1>4. n \in Keys(t) /\ t \in Names /\ t \notin {"items", "owner_keys", "sessions"}
  BY <1>3, NamesAre, KeysAre DEF Identity
<1> HIDE DEF n
<1>5. RowOK(t, row, keys)
  BY <1>4 DEF RowOK
<1>6. TableOK(t, With(rows, n, row), keys)
  BY <1>4, <1>5, TableWith
<1> QED BY <1>3, <1>6 DEF With, n

LEMMA SourceKeeps ==
  ASSUME MigrateIInv, writing, SourceOnly,
         TablesOK(src', {"sqlite"}), Stored(src'), GrowsTo(src, src', dst, rewritten'),
         rewritten \subseteq rewritten',
         rewritten' \subseteq ({"items"} \X Item) \cup ({"sessions"} \X Session)
  PROVE  MigrateIInv'
<1>1. ~ done /\ (pos = 0 \/ ~ final) /\ (orderly => ~ serving)
  BY DEF MigrateIInv, DoneOK, CopyOK, ServiceOK
<1>2. TablesOK(src, {"sqlite"})' /\ Stored(src)' /\ TablesOK(dst, Side)' /\ CountsOK'
  BY DEF MigrateIInv, SourceOnly, copy, service, TablesOK, TableOK, Stored, CountsOK
<1>3. Copied(src, dst) => Copied(src', dst)
  BY DEF Copied, GrowsTo
<1>4. BeforeService'
  BY <1>3 DEF MigrateIInv, BeforeService, SourceOnly, copy, service, Copied
<1>5. CopyOK' /\ DoneOK'
  BY <1>1 DEF SourceOnly, copy, service, CopyOK, DoneOK
<1>6. ServiceOK'
  <2>1. ASSUME orderly PROVE Agree(src', dst, rewritten')
    <3>1. Agree(src, dst, rewritten) /\ Copied(src, dst)
      BY <1>1, <2>1 DEF MigrateIInv, BeforeService, ServiceOK
    <3>2. ASSUME NEW t \in Names, NEW k \in DOMAIN src'[t] \cap DOMAIN dst[t],
                 <<t, k>> \notin rewritten'
          PROVE  Follows(t, dst[t][k], src'[t][k])
      <4>1. k \in DOMAIN src[t] \cap DOMAIN dst[t] /\ <<t, k>> \notin rewritten
        BY <3>1, <3>2 DEF Copied
      <4>2. src'[t][k] = src[t][k]
        BY <3>2, <4>1 DEF GrowsTo
      <4>3. Follows(t, dst[t][k], src[t][k])
        BY <3>1, <4>1 DEF Agree
      <4> QED BY <4>2, <4>3
    <3> QED BY <3>2 DEF Agree
  <2>2. orderly => ~ clashed
    BY DEF MigrateIInv, ServiceOK
  <2> QED BY <1>1, <2>1, <2>2 DEF SourceOnly, copy, service, ServiceOK, Agree
<1> QED BY <1>2, <1>4, <1>5, <1>6 DEF MigrateIInv

\* What is written again is noted, if Postgres has the row.
LEMMA WriteAgainNotes ==
  ASSUME NEW t \in {"items", "sessions"}, NEW k \in Keys(t), WriteAgain(t, k), MigrateIInv
  PROVE  /\ rewritten \subseteq rewritten'
         /\ rewritten' \subseteq ({"items"} \X Item) \cup ({"sessions"} \X Session)
         /\ k \in DOMAIN dst[t] => <<t, k>> \in rewritten'
BY KeysAre DEF WriteAgain, MigrateIInv, CountsOK

LEMMA SourceTables ==
  ASSUME MigrateIInv, NEW t \in Names
  PROVE  TablesOK(src, {"sqlite"}) /\ TableOK(t, src[t], {"sqlite"})
BY DEF MigrateIInv, TablesOK

LEMMA SourcePutItemKeeps ==
  ASSUME MigrateIInv, NEW i \in Item, SourcePutItem(i)
  PROVE  MigrateIInv'
<1>1. writing /\ SourceOnly /\ TablesOK(src, {"sqlite"}) /\ Stored(src)
  BY DEF SourcePutItem, MigrateIInv
<1>2. CASE i \in DOMAIN src["items"]
  <2> DEFINE x == [src["items"] EXCEPT ![i] = [src["items"][i] EXCEPT !.rev = 2]]
             y == With(src["item_versions"], TopId(src["item_versions"]) + 1, Log("sqlite", i))
  <2>1. src' = [src EXCEPT !["items"] = x, !["item_versions"] = y] /\ WriteAgain("items", i)
    BY <1>2 DEF SourcePutItem
  <2>2. /\ TableOK("item_versions", y, {"sqlite"})
        /\ DOMAIN src["item_versions"] \subseteq DOMAIN y
        /\ \A id \in DOMAIN src["item_versions"] : y[id] = src["item_versions"][id]
    <3>1. Log("sqlite", i) \in LogRow /\ "item_versions" \in Identity
      BY DEF Log, LogRow, Side, Identity
    <3>2. TableOK("item_versions", src["item_versions"], {"sqlite"})
      BY SourceTables, NamesAre
    <3> QED BY <3>1, <3>2, LogAppends
  <2>3. /\ TableOK("items", x, {"sqlite"}) /\ DOMAIN x = DOMAIN src["items"]
        /\ \A j \in DOMAIN src["items"] \ {i} : x[j] = src["items"][j]
    <3>1. TableOK("items", src["items"], {"sqlite"})
      BY SourceTables, NamesAre
    <3>2. [src["items"][i] EXCEPT !.rev = 2] \in ItemRow({"sqlite"})
      BY <1>2, <3>1 DEF TableOK, RowOK, ItemRow
    <3>3. RowOK("items", [src["items"][i] EXCEPT !.rev = 2], {"sqlite"})
      BY <3>2 DEF RowOK, Identity
    <3> HIDE DEF ItemRow
    <3> QED BY <3>1, <3>3 DEF TableOK, Identity
  <2> HIDE DEF x, y
  <2>4. /\ TablesOK(src', {"sqlite"}) /\ src'["items"] = x /\ src'["item_versions"] = y
        /\ \A t \in Names \ {"items", "item_versions"} : src'[t] = src[t]
    BY <1>1, <2>1, <2>2, <2>3, NamesAre DEF TablesOK
  <2>5. /\ rewritten \subseteq rewritten'
        /\ rewritten' \subseteq ({"items"} \X Item) \cup ({"sessions"} \X Session)
        /\ i \in DOMAIN dst["items"] => <<"items", i>> \in rewritten'
    BY <2>1, KeysAre, WriteAgainNotes
  <2>6. GrowsTo(src, src', dst, rewritten')
    <3>1. \A t \in Names : DOMAIN src[t] \subseteq DOMAIN src'[t]
      BY <2>2, <2>3, <2>4
    <3>2. ASSUME NEW t \in Names, NEW k \in DOMAIN src[t] \cap DOMAIN dst[t],
                 <<t, k>> \notin rewritten'
          PROVE  src'[t][k] = src[t][k]
      <4>1. CASE t = "items"
        BY <2>3, <2>4, <2>5, <3>2, <4>1
      <4>2. CASE t = "item_versions"
        BY <2>2, <2>4, <3>2, <4>2
      <4>3. CASE t \notin {"items", "item_versions"}
        BY <2>4, <3>2, <4>3
      <4> QED BY <4>1, <4>2, <4>3
    <3> QED BY <3>1, <3>2 DEF GrowsTo
  <2>7. Stored(src')
    BY <1>1, <2>3, <2>4, NamesAre DEF Stored
  <2> QED BY <1>1, <2>4, <2>5, <2>6, <2>7, SourceKeeps
<1>3. CASE i \notin DOMAIN src["items"]
  <2> DEFINE row == [by |-> "sqlite", key |-> "sqlite", rev |-> 1]
             x == With(src["items"], i, row)
             y == With(src["owner_keys"], "owner", "sqlite")
  <2>1. src' = [src EXCEPT !["items"] = x, !["owner_keys"] = y] /\ rewritten' = rewritten
    BY <1>3 DEF SourcePutItem
  <2>2. TableOK("items", x, {"sqlite"})
    <3>1. TableOK("items", src["items"], {"sqlite"}) /\ "items" \in Names
      BY SourceTables, NamesAre
    <3>2. i \in Keys("items") /\ RowOK("items", row, {"sqlite"})
      BY KeysAre DEF RowOK, ItemRow, Identity
    <3> QED BY <3>1, <3>2, TableWith
  <2>3. TableOK("owner_keys", y, {"sqlite"})
    <3>1. TableOK("owner_keys", src["owner_keys"], {"sqlite"}) /\ "owner_keys" \in Names
      BY SourceTables, NamesAre
    <3>2. "owner" \in Keys("owner_keys") /\ RowOK("owner_keys", "sqlite", {"sqlite"})
      BY KeysAre DEF RowOK, Identity
    <3> QED BY <3>1, <3>2, TableWith
  <2>4. /\ DOMAIN src["items"] \subseteq DOMAIN x /\ y["owner"] = "sqlite"
        /\ DOMAIN y = DOMAIN src["owner_keys"] \cup {"owner"}
        /\ \A j \in DOMAIN src["items"] : x[j] = src["items"][j]
    BY <1>3 DEF With
  <2>5. \A k \in DOMAIN src["owner_keys"] : y[k] = src["owner_keys"][k]
    <3>1. DOMAIN src["owner_keys"] \subseteq {"owner"}
      BY SourceTables, NamesAre, KeysAre DEF TableOK
    <3> QED BY <1>1, <2>4, <3>1 DEF Stored
  <2> HIDE DEF row, x, y
  <2>6. /\ TablesOK(src', {"sqlite"}) /\ src'["items"] = x /\ src'["owner_keys"] = y
        /\ \A t \in Names \ {"items", "owner_keys"} : src'[t] = src[t]
    BY <1>1, <2>1, <2>2, <2>3, NamesAre DEF TablesOK
  <2>7. GrowsTo(src, src', dst, rewritten')
    <3>1. \A t \in Names : DOMAIN src[t] \subseteq DOMAIN src'[t]
      BY <2>4, <2>6
    <3>2. \A t \in Names : \A k \in DOMAIN src[t] : src'[t][k] = src[t][k]
      BY <2>4, <2>5, <2>6
    <3> QED BY <3>1, <3>2 DEF GrowsTo
  <2>8. Stored(src')
    BY <2>4, <2>6 DEF Stored
  <2>9. rewritten' \subseteq ({"items"} \X Item) \cup ({"sessions"} \X Session)
    BY <2>1 DEF MigrateIInv, CountsOK
  <2> QED BY <1>1, <2>1, <2>6, <2>7, <2>8, <2>9, SourceKeeps
<1> QED BY <1>2, <1>3

LEMMA SourceUseKeeps ==
  ASSUME MigrateIInv, NEW s \in Session, NEW e \in Event, SourceUse(s, e)
  PROVE  MigrateIInv'
<1>1. writing /\ SourceOnly /\ TablesOK(src, {"sqlite"}) /\ Stored(src)
  BY DEF SourceUse, MigrateIInv
<1> DEFINE u == IF s \in DOMAIN src["sessions"] THEN src["sessions"][s] + 1 ELSE 1
           x == With(src["sessions"], s, u)
           y == With(src["audit"], TopId(src["audit"]) + 1, Log("sqlite", e))
<1>2. src' = [src EXCEPT !["sessions"] = x, !["audit"] = y] /\ WriteAgain("sessions", s)
  BY DEF SourceUse
<1>3. /\ TableOK("sessions", x, {"sqlite"}) /\ DOMAIN src["sessions"] \subseteq DOMAIN x
      /\ \A k \in DOMAIN src["sessions"] \ {s} : x[k] = src["sessions"][k]
  <2>1. TableOK("sessions", src["sessions"], {"sqlite"}) /\ "sessions" \in Names
    BY SourceTables, NamesAre
  <2>2. s \in Keys("sessions") /\ u \in Nat
    BY <2>1, KeysAre DEF TableOK, RowOK
  <2> HIDE DEF u
  <2>3. RowOK("sessions", u, {"sqlite"})
    BY <2>2 DEF RowOK, Identity
  <2>4. TableOK("sessions", x, {"sqlite"})
    BY <2>1, <2>2, <2>3, TableWith
  <2> QED BY <2>4 DEF With
<1> HIDE DEF u
<1>4. /\ TableOK("audit", y, {"sqlite"}) /\ DOMAIN src["audit"] \subseteq DOMAIN y
      /\ \A id \in DOMAIN src["audit"] : y[id] = src["audit"][id]
  <2>1. Log("sqlite", e) \in LogRow /\ "audit" \in Identity
    BY DEF Log, LogRow, Side, Identity
  <2>2. TableOK("audit", src["audit"], {"sqlite"})
    BY SourceTables, NamesAre
  <2> QED BY <2>1, <2>2, LogAppends
<1> HIDE DEF x, y
<1>5. /\ TablesOK(src', {"sqlite"}) /\ src'["sessions"] = x /\ src'["audit"] = y
      /\ \A t \in Names \ {"sessions", "audit"} : src'[t] = src[t]
  BY <1>1, <1>2, <1>3, <1>4, NamesAre DEF TablesOK
<1>6. /\ rewritten \subseteq rewritten'
      /\ rewritten' \subseteq ({"items"} \X Item) \cup ({"sessions"} \X Session)
      /\ s \in DOMAIN dst["sessions"] => <<"sessions", s>> \in rewritten'
  BY <1>2, KeysAre, WriteAgainNotes
<1>7. GrowsTo(src, src', dst, rewritten')
  <2>1. \A t \in Names : DOMAIN src[t] \subseteq DOMAIN src'[t]
    BY <1>3, <1>4, <1>5
  <2>2. ASSUME NEW t \in Names, NEW k \in DOMAIN src[t] \cap DOMAIN dst[t],
               <<t, k>> \notin rewritten'
        PROVE  src'[t][k] = src[t][k]
    <3>1. CASE t = "sessions"
      BY <1>3, <1>5, <1>6, <2>2, <3>1
    <3>2. CASE t = "audit"
      BY <1>4, <1>5, <2>2, <3>2
    <3>3. CASE t \notin {"sessions", "audit"}
      BY <1>5, <2>2, <3>3
    <3> QED BY <3>1, <3>2, <3>3
  <2> QED BY <2>1, <2>2 DEF GrowsTo
<1>8. Stored(src')
  BY <1>1, <1>5, NamesAre DEF Stored
<1> QED BY <1>1, <1>5, <1>6, <1>7, <1>8, SourceKeeps

-----------------------------------------------------------------------------
(* The service over Postgres.                                              *)

LEMMA TargetTables ==
  ASSUME MigrateIInv, NEW t \in Names
  PROVE  TablesOK(dst, Side) /\ TableOK(t, dst[t], Side)
BY DEF MigrateIInv, TablesOK

\* A write of the service that leaves the logs alone: its rows follow those it
\* finds.
LEMMA ServiceKeeps ==
  ASSUME MigrateIInv, serving, UNCHANGED <<src, next, taken, writing, rewritten, copy, service>>,
         TablesOK(dst', Side), \A t \in Names : DOMAIN dst[t] \subseteq DOMAIN dst'[t],
         \A t \in Identity : dst'[t] = dst[t],
         \A t \in Names : \A k \in DOMAIN dst[t] : Follows(t, dst'[t][k], dst[t][k]),
         Readable(dst) => Readable(dst')
  PROVE  MigrateIInv'
<1>1. TablesOK(src, {"sqlite"})' /\ Stored(src)' /\ TablesOK(dst, Side)' /\ CountsOK'
  BY DEF MigrateIInv, copy, service, TablesOK, TableOK, Stored, CountsOK
<1>2. BeforeService'
  BY DEF BeforeService, service
<1>3. CopyOK'
  <2>1. "audit" \in Identity /\ \A k \in 1 .. Len(Tables) : Tables[k] \in Names
    BY NamesAre DEF Identity
  <2>2. Brought(src, dst, pos) => Brought(src, dst', pos)
    BY <2>1 DEF Brought
  <2> QED BY <2>1, <2>2 DEF MigrateIInv, CopyOK, copy, service, Brought, Below
<1>4. DoneOK'
  <2>1. (\A t \in Names : DOMAIN src[t] \subseteq DOMAIN dst[t])
          => \A t \in Names : DOMAIN src[t] \subseteq DOMAIN dst'[t]
    OBVIOUS
  <2>2. (\A t \in Identity : Ahead(dst[t], taken[t], next[t]))
          => \A t \in Identity : Ahead(dst'[t], taken[t], next[t])
    OBVIOUS
  <2> QED BY <2>1, <2>2 DEF MigrateIInv, DoneOK, copy, service, Ahead, Below
<1>5. ServiceOK'
  <2>1. ASSUME orderly PROVE Agree(src, dst', rewritten)
    <3>1. /\ Agree(src, dst, rewritten)
          /\ \A t \in Names : DOMAIN src[t] \subseteq DOMAIN dst[t]
      BY <2>1 DEF MigrateIInv, ServiceOK, DoneOK
    <3>2. ASSUME NEW t \in Names, NEW k \in DOMAIN src[t] \cap DOMAIN dst'[t],
                 <<t, k>> \notin rewritten
          PROVE  Follows(t, dst'[t][k], src[t][k])
      <4>1. k \in DOMAIN dst[t] /\ Follows(t, dst[t][k], src[t][k])
        BY <3>1, <3>2 DEF Agree
      <4>2. RowOK(t, src[t][k], Side) /\ RowOK(t, dst[t][k], Side) /\ RowOK(t, dst'[t][k], Side)
        BY <3>2, <4>1, SourceTables, TargetTables, RowsOfEither DEF TablesOK, TableOK
      <4> QED BY <4>1, <4>2, FollowsRows
    <3> QED BY <3>2 DEF Agree
  <2> QED BY <2>1 DEF MigrateIInv, ServiceOK, copy, service, Agree, Readable
<1> QED BY <1>1, <1>2, <1>3, <1>4, <1>5 DEF MigrateIInv

LEMMA ServicePutItemKeeps ==
  ASSUME MigrateIInv, NEW i \in Item, ServicePutItem(i)
  PROVE  MigrateIInv'
<1>1. /\ serving /\ UNCHANGED <<src, next, taken, writing, rewritten, copy, service>>
      /\ TablesOK(dst, Side)
  BY DEF ServicePutItem, MigrateIInv
<1> DEFINE key == IF "owner" \in DOMAIN dst["owner_keys"] THEN dst["owner_keys"]["owner"]
                  ELSE "postgres"
           row == [by |-> "postgres", key |-> key, rev |-> 1]
           x == With(dst["items"], i, row)
           y == With(dst["owner_keys"], "owner", key)
<1>2. dst' = [dst EXCEPT !["items"] = x, !["owner_keys"] = y]
  BY DEF ServicePutItem
<1>3. key \in Side
  <2>1. TableOK("owner_keys", dst["owner_keys"], Side)
    BY TargetTables, NamesAre
  <2> QED BY <2>1 DEF TableOK, RowOK, Side
<1>4. "owner" \in DOMAIN dst["owner_keys"] => key = dst["owner_keys"]["owner"]
  OBVIOUS
<1> HIDE DEF key
<1>5. TableOK("items", x, Side)
  <2>1. TableOK("items", dst["items"], Side) /\ "items" \in Names
    BY TargetTables, NamesAre
  <2>2. i \in Keys("items") /\ RowOK("items", row, Side)
    BY <1>3, KeysAre DEF RowOK, ItemRow, Side, Identity
  <2> QED BY <2>1, <2>2, TableWith
<1>6. TableOK("owner_keys", y, Side)
  <2>1. TableOK("owner_keys", dst["owner_keys"], Side) /\ "owner_keys" \in Names
    BY TargetTables, NamesAre
  <2>2. "owner" \in Keys("owner_keys") /\ RowOK("owner_keys", key, Side)
    BY <1>3, KeysAre DEF RowOK, Identity
  <2> QED BY <2>1, <2>2, TableWith
<1>7. /\ DOMAIN x = DOMAIN dst["items"] \cup {i} /\ x[i] = row
      /\ row.key = key /\ row.by = "postgres"
      /\ \A j \in DOMAIN dst["items"] \ {i} : x[j] = dst["items"][j]
      /\ y["owner"] = key /\ DOMAIN y = DOMAIN dst["owner_keys"] \cup {"owner"}
  BY DEF With
<1>8. DOMAIN dst["owner_keys"] \subseteq {"owner"}
  BY TargetTables, NamesAre, KeysAre DEF TableOK
<1> HIDE DEF row, x, y
<1>9. /\ TablesOK(dst', Side) /\ dst'["items"] = x /\ dst'["owner_keys"] = y
      /\ \A t \in Names \ {"items", "owner_keys"} : dst'[t] = dst[t]
  BY <1>1, <1>2, <1>5, <1>6, NamesAre DEF TablesOK
<1>10. \A t \in Names : DOMAIN dst[t] \subseteq DOMAIN dst'[t]
  BY <1>7, <1>9
<1>11. \A t \in Identity : dst'[t] = dst[t]
  BY <1>9, NamesAre DEF Identity
<1>12. ASSUME NEW t \in Names, NEW k \in DOMAIN dst[t]
       PROVE  Follows(t, dst'[t][k], dst[t][k])
  <2>1. CASE t = "items" /\ k = i
    <3>1. dst'[t][k] = row /\ "items" \notin WrittenOnce
      BY <1>7, <1>9, <2>1 DEF WrittenOnce, Identity
    <3> QED BY <1>7, <2>1, <3>1 DEF Follows
  <2>2. CASE ~ (t = "items" /\ k = i)
    <3>1. dst'[t][k] = dst[t][k]
      BY <1>4, <1>7, <1>8, <1>9, <1>12, <2>2
    <3>2. RowOK(t, dst[t][k], Side)
      BY <1>12, TargetTables DEF TableOK
    <3> QED BY <3>1, <3>2, FollowsRows
  <2> QED BY <2>1, <2>2
<1>13. Readable(dst) => Readable(dst')
  BY <1>4, <1>7, <1>9 DEF Readable
<1> QED BY <1>1, <1>9, <1>10, <1>11, <1>12, <1>13, ServiceKeeps

LEMMA ServiceUseKeeps ==
  ASSUME MigrateIInv, NEW s \in Session, ServiceUse(s)
  PROVE  MigrateIInv'
<1>1. /\ serving /\ UNCHANGED <<src, next, taken, writing, rewritten, copy, service>>
      /\ TablesOK(dst, Side) /\ "sessions" \in Names /\ "sessions" \notin Identity
      /\ s \in DOMAIN dst["sessions"]
  BY NamesAre DEF ServiceUse, MigrateIInv, Identity
<1> DEFINE x == [dst["sessions"] EXCEPT ![s] = dst["sessions"][s] + 1]
<1>2. /\ dst' = [dst EXCEPT !["sessions"] = x] /\ DOMAIN x = DOMAIN dst["sessions"]
      /\ x[s] = dst["sessions"][s] + 1
      /\ \A k \in DOMAIN dst["sessions"] \ {s} : x[k] = dst["sessions"][k]
  BY <1>1 DEF ServiceUse
<1> HIDE DEF x
<1>3. TableOK("sessions", x, Side) /\ dst["sessions"][s] \in Nat
  <2>1. TableOK("sessions", dst["sessions"], Side)
    BY TargetTables, <1>1
  <2>2. \A k \in DOMAIN dst["sessions"] : dst["sessions"][k] \in Nat
    BY <2>1 DEF TableOK, RowOK
  <2>3. \A k \in DOMAIN x : x[k] \in Nat
    BY <1>1, <1>2, <2>2
  <2>4. DOMAIN x \subseteq Keys("sessions")
    BY <1>2, <2>1 DEF TableOK
  <2> QED BY <1>1, <2>2, <2>3, <2>4 DEF TableOK, RowOK
<1>4. /\ TablesOK(dst', Side) /\ dst'["sessions"] = x
      /\ \A t \in Names \ {"sessions"} : dst'[t] = dst[t]
  BY <1>1, <1>2, <1>3 DEF TablesOK
<1>5. \A t \in Names : DOMAIN dst[t] \subseteq DOMAIN dst'[t]
  BY <1>2, <1>4
<1>6. \A t \in Identity : dst'[t] = dst[t]
  BY <1>1, <1>4, NamesAre
<1>7. ASSUME NEW t \in Names, NEW k \in DOMAIN dst[t]
      PROVE  Follows(t, dst'[t][k], dst[t][k])
  <2>1. CASE t = "sessions" /\ k = s
    <3>1. "sessions" \notin WrittenOnce
      BY DEF WrittenOnce, Identity
    <3>2. dst'[t][k] = dst[t][k] + 1 /\ dst[t][k] \in Nat
      BY <1>2, <1>3, <1>4, <2>1
    <3> QED BY <2>1, <3>1, <3>2 DEF Follows
  <2>2. CASE ~ (t = "sessions" /\ k = s)
    <3>1. dst'[t][k] = dst[t][k]
      BY <1>2, <1>4, <1>7, <2>2
    <3>2. RowOK(t, dst[t][k], Side)
      BY <1>7, TargetTables DEF TableOK
    <3> QED BY <3>1, <3>2, FollowsRows
  <2> QED BY <2>1, <2>2
<1>8. Readable(dst) => Readable(dst')
  BY <1>4, NamesAre DEF Readable
<1> QED BY <1>1, <1>4, <1>5, <1>6, <1>7, <1>8, ServiceKeeps

\* The sequence has not given an id that is in the table, while all is orderly.
LEMMA TakeIdKeeps ==
  ASSUME MigrateIInv, NEW t \in Identity, TakeId(t)
  PROVE  MigrateIInv'
<1>1. /\ serving /\ taken' = [taken EXCEPT ![t] = {next[t]}]
      /\ next' = [next EXCEPT ![t] = next[t] + 1]
      /\ UNCHANGED <<src, dst, writing, rewritten, copy, service>>
  BY DEF TakeId
<1>2. next \in [Identity -> Nat \ {0}] /\ taken \in [Identity -> SUBSET (Nat \ {0})]
  BY DEF MigrateIInv, CountsOK
<1>3. next' \in [Identity -> Nat \ {0}] /\ taken' \in [Identity -> SUBSET (Nat \ {0})]
  BY <1>1, <1>2
<1>4. TablesOK(src, {"sqlite"})' /\ Stored(src)' /\ TablesOK(dst, Side)' /\ CountsOK'
  BY <1>1, <1>3 DEF MigrateIInv, copy, service, TablesOK, TableOK, Stored, CountsOK
<1>5. BeforeService'
  BY <1>1 DEF BeforeService, service
<1>6. CopyOK' /\ ServiceOK'
  <2>1. orderly => pos = 0
    BY <1>1 DEF MigrateIInv, ServiceOK
  <2>2. CopyOK'
    BY <1>1, <2>1 DEF MigrateIInv, CopyOK, copy, service, Brought
  <2> QED BY <1>1, <2>2 DEF MigrateIInv, ServiceOK, copy, service, Agree, Readable
<1>7. ASSUME done, orderly, NEW u \in Identity PROVE Ahead(dst[u], taken'[u], next'[u])
  <2>1. Ahead(dst[u], taken[u], next[u]) /\ next[u] \in Nat
    BY <1>2, <1>7 DEF MigrateIInv, DoneOK
  <2>2. DOMAIN dst[u] \subseteq Nat
    <3>1. TableOK(u, dst[u], Side)
      BY TargetTables, NamesAre
    <3> QED BY <3>1, KeysAre DEF TableOK
  <2>3. CASE u # t
    BY <1>1, <1>2, <2>1, <2>3
  <2>4. CASE u = t
    <3>1. taken'[u] = {next[u]} /\ next'[u] = next[u] + 1
      BY <1>1, <1>2, <2>4
    <3> QED BY <2>1, <2>2, <3>1 DEF Ahead, Below
  <2> QED BY <2>3, <2>4
<1>8. DoneOK'
  BY <1>1, <1>7 DEF MigrateIInv, DoneOK, copy, service, Ahead, Below
<1> QED BY <1>4, <1>5, <1>6, <1>8 DEF MigrateIInv

LEMMA InsertTakenKeeps ==
  ASSUME MigrateIInv, NEW t \in Identity, InsertTaken(t)
  PROVE  MigrateIInv'
<1>1. PICK id \in taken[t] :
        /\ taken' = [taken EXCEPT ![t] = {}]
        /\ IF id \in DOMAIN dst[t] THEN clashed' = TRUE /\ UNCHANGED dst
           ELSE dst' = [dst EXCEPT ![t] = With(dst[t], id, Log("postgres", Nil))] /\ UNCHANGED clashed
        /\ UNCHANGED <<src, next, writing, rewritten, copy, serving, orderly>>
  BY DEF InsertTaken
<1>2. /\ next \in [Identity -> Nat \ {0}] /\ taken \in [Identity -> SUBSET (Nat \ {0})]
      /\ TablesOK(dst, Side) /\ t \in Names /\ t \notin {"items", "owner_keys", "sessions"}
      /\ id \in Nat \ {0}
  BY NamesAre DEF MigrateIInv, CountsOK, Identity
<1>3. serving
  BY <1>1 DEF MigrateIInv, BeforeService
<1>4. /\ TablesOK(dst', Side) /\ \A u \in Names \ {t} : dst'[u] = dst[u]
      /\ id \in DOMAIN dst[t] => dst' = dst
      /\ id \notin DOMAIN dst[t] => DOMAIN dst'[t] = DOMAIN dst[t] \cup {id}
      /\ \A k \in DOMAIN dst[t] : dst'[t][k] = dst[t][k]
  <2> DEFINE x == With(dst[t], id, Log("postgres", Nil))
  <2>1. TableOK(t, x, Side)
    <3>1. TableOK(t, dst[t], Side) /\ id \in Keys(t) /\ Log("postgres", Nil) \in LogRow
      BY <1>2, TargetTables, KeysAre DEF Log, LogRow, Side
    <3>2. RowOK(t, Log("postgres", Nil), Side)
      BY <1>2, <3>1 DEF RowOK
    <3> QED BY <1>2, <3>1, <3>2, TableWith
  <2>2. CASE id \in DOMAIN dst[t]
    BY <1>1, <1>2, <2>2
  <2>3. CASE id \notin DOMAIN dst[t]
    <3>1. DOMAIN x = DOMAIN dst[t] \cup {id} /\ \A k \in DOMAIN dst[t] : x[k] = dst[t][k]
      BY <2>3 DEF With
    <3>2. dst' = [dst EXCEPT ![t] = x]
      BY <1>1, <2>3
    <3> HIDE DEF x
    <3>3. TablesOK(dst', Side) /\ dst'[t] = x /\ \A u \in Names \ {t} : dst'[u] = dst[u]
      BY <1>2, <2>1, <3>2 DEF TablesOK
    <3> QED BY <2>3, <3>1, <3>3
  <2> QED BY <2>2, <2>3
<1>5. taken' \in [Identity -> SUBSET (Nat \ {0})] /\ clashed' \in BOOLEAN
  BY <1>1, <1>2 DEF MigrateIInv, CountsOK
<1>6. TablesOK(src, {"sqlite"})' /\ Stored(src)' /\ TablesOK(dst, Side)' /\ CountsOK'
  BY <1>1, <1>4, <1>5 DEF MigrateIInv, copy, TablesOK, TableOK, Stored, CountsOK
<1>7. BeforeService'
  BY <1>1, <1>3 DEF BeforeService
<1>8. \A u \in Names : DOMAIN dst[u] \subseteq DOMAIN dst'[u]
  BY <1>4
<1>9. orderly => /\ done /\ pos = 0 /\ ~ writing /\ ~ clashed
                 /\ Readable(dst) /\ Agree(src, dst, rewritten)
                 /\ \A u \in Names : DOMAIN src[u] \subseteq DOMAIN dst[u]
                 /\ \A u \in Identity : Ahead(dst[u], taken[u], next[u])
  BY <1>3 DEF MigrateIInv, ServiceOK, DoneOK
<1>10. CopyOK'
  <2>1. Brought(src, dst, pos) => Brought(src, dst', pos)
    BY <1>8, NamesAre DEF Brought
  <2> QED BY <1>1, <1>9, <2>1 DEF MigrateIInv, CopyOK, copy, Brought
<1>11. orderly => id \notin DOMAIN dst[t]
  BY <1>2, <1>9 DEF Ahead
<1>12. DoneOK'
  <2>1. ASSUME orderly, NEW u \in Identity PROVE Ahead(dst'[u], taken'[u], next[u])
    <3>1. Ahead(dst[u], taken[u], next[u])
      BY <1>9, <2>1
    <3>2. CASE u = t
      BY <1>1, <1>2, <1>4, <1>11, <2>1, <3>1, <3>2 DEF Ahead, Below
    <3>3. CASE u # t
      <4>1. dst'[u] = dst[u] /\ taken'[u] = taken[u]
        BY <1>1, <1>2, <1>4, <3>3, NamesAre
      <4> QED BY <3>1, <4>1
    <3> QED BY <3>2, <3>3
  <2>2. (\A u \in Names : DOMAIN src[u] \subseteq DOMAIN dst[u])
          => \A u \in Names : DOMAIN src[u] \subseteq DOMAIN dst'[u]
    BY <1>8
  <2> QED BY <1>1, <2>1, <2>2 DEF MigrateIInv, DoneOK, copy, Ahead, Below
<1>13. ServiceOK'
  <2>1. ASSUME orderly PROVE Agree(src, dst', rewritten) /\ clashed' = clashed /\ Readable(dst')
    <3>1. Agree(src, dst', rewritten)
      <4>1. ASSUME NEW u \in Names, NEW k \in DOMAIN src[u], <<u, k>> \notin rewritten
            PROVE  Follows(u, dst'[u][k], src[u][k])
        <5>1. k \in DOMAIN dst[u] /\ dst'[u][k] = dst[u][k]
          BY <1>4, <1>9, <2>1, <4>1
        <5> QED BY <1>9, <2>1, <4>1, <5>1 DEF Agree
      <4> QED BY <4>1 DEF Agree
    <3>2. dst'["items"] = dst["items"] /\ dst'["owner_keys"] = dst["owner_keys"]
      BY <1>2, <1>4, NamesAre
    <3>3. Readable(dst')
      BY <1>9, <2>1, <3>2 DEF Readable
    <3> QED BY <1>1, <1>11, <2>1, <3>1, <3>3
  <2> QED BY <1>1, <1>9, <2>1 DEF ServiceOK, copy, Agree, Readable
<1> QED BY <1>6, <1>7, <1>10, <1>12, <1>13 DEF MigrateIInv

-----------------------------------------------------------------------------
(* The cutover: the source is shut down, tables are copied, the service    *)
(* starts.                                                                 *)

\* A step that changes no table.
LEMMA TablesStand ==
  ASSUME MigrateIInv, UNCHANGED <<src, dst>>, CountsOK'
  PROVE  TablesOK(src, {"sqlite"})' /\ Stored(src)' /\ TablesOK(dst, Side)' /\ CountsOK'
BY DEF MigrateIInv, TablesOK, TableOK, Stored

LEMMA StopWritingKeeps ==
  ASSUME MigrateIInv, StopWriting
  PROVE  MigrateIInv'
<1>1. writing' = FALSE /\ UNCHANGED <<src, dst, next, taken, rewritten, copy, service>>
  BY DEF StopWriting
<1>2. CountsOK'
  BY <1>1 DEF MigrateIInv, CountsOK, copy, service
<1>3. BeforeService' /\ CopyOK' /\ DoneOK' /\ ServiceOK'
  BY <1>1 DEF MigrateIInv, BeforeService, CopyOK, DoneOK, ServiceOK, copy, service, Copied, Agree,
              Brought, Below, Ahead, Readable
<1> QED BY <1>1, <1>2, <1>3, TablesStand DEF MigrateIInv

\* What has been copied once it is done can be read with the copied key.
LEMMA StartServiceKeeps ==
  ASSUME MigrateIInv, StartService
  PROVE  MigrateIInv'
<1>1. /\ ~ serving /\ serving' = TRUE /\ orderly' = (done /\ pos = 0)
      /\ UNCHANGED <<src, dst, next, taken, writing, rewritten, copy, clashed>>
  BY DEF StartService
<1>2. CountsOK'
  BY <1>1 DEF MigrateIInv, CountsOK, copy
<1>3. orderly /\ Copied(src, dst)
  BY <1>1 DEF MigrateIInv, BeforeService
<1>4. BeforeService' /\ CopyOK' /\ DoneOK'
  BY <1>1, <1>3 DEF MigrateIInv, BeforeService, CopyOK, DoneOK, copy, Brought, Below, Ahead
<1>5. ASSUME done PROVE Readable(dst)
  <2>1. \A t \in {"items", "owner_keys"} : DOMAIN src[t] \subseteq DOMAIN dst[t]
                                         /\ DOMAIN dst[t] \subseteq DOMAIN src[t]
    BY <1>3, <1>5, NamesAre DEF MigrateIInv, DoneOK, Copied
  <2>2. Stored(src)
    BY DEF MigrateIInv
  <2> QED BY <1>3, <2>1, <2>2 DEF Readable, Copied, Stored
<1>6. ServiceOK'
  BY <1>1, <1>3, <1>5 DEF MigrateIInv, ServiceOK, copy, Agree, Readable
<1> QED BY <1>1, <1>2, <1>4, <1>6, TablesStand DEF MigrateIInv

LEMMA StartCopyKeeps ==
  ASSUME MigrateIInv, StartCopy
  PROVE  MigrateIInv'
<1>1. /\ pos' = 1 /\ passes' = passes + 1 /\ passes < MaxPasses /\ final' = ~ writing
      /\ orderly' = (orderly /\ ~ serving)
      /\ UNCHANGED <<src, dst, next, taken, writing, rewritten, done, serving, clashed>>
  BY DEF StartCopy
<1>2. CountsOK'
  BY <1>1, NamesAre, MigrateAssumption DEF MigrateIInv, CountsOK
<1>3. BeforeService' /\ DoneOK' /\ ServiceOK'
  BY <1>1 DEF MigrateIInv, BeforeService, DoneOK, ServiceOK, Copied, Agree, Ahead, Below, Readable
<1>4. CopyOK'
  <2>1. Brought(src', dst', pos')
    BY <1>1, NamesAre DEF Brought
  <2>2. pos' # Len(Tables) + 2
    BY <1>1, NamesAre
  <2> QED BY <1>1, <2>1, <2>2 DEF CopyOK, Brought
<1> QED BY <1>1, <1>2, <1>3, <1>4, TablesStand DEF MigrateIInv

LEMMA CopyTableKeeps ==
  ASSUME MigrateIInv, CopyTable
  PROVE  MigrateIInv'
<1> DEFINE t == Tables[pos]
           x == InsertNew(dst[t], src[t])
<1>1. /\ pos \in 1 .. 5 /\ t \in Names /\ pos' = pos + 1 /\ dst' = [dst EXCEPT ![t] = x]
      /\ UNCHANGED <<src, next, taken, passes, writing, rewritten, final, done, service>>
  BY NamesAre DEF CopyTable
<1>2. TablesOK(dst, Side) /\ TablesOK(src, {"sqlite"})
  BY DEF MigrateIInv
<1>3. TableOK(t, x, Side)
  BY <1>1, SourceTables, TargetTables, TableInsert
<1>4. /\ DOMAIN x = DOMAIN dst[t] \cup DOMAIN src[t]
      /\ \A k \in DOMAIN dst[t] : x[k] = dst[t][k]
      /\ \A k \in DOMAIN src[t] \ DOMAIN dst[t] : x[k] = src[t][k]
  BY InsertNewRows
<1> HIDE DEF x
<1>5. TablesOK(dst', Side) /\ dst'[t] = x /\ \A u \in Names \ {t} : dst'[u] = dst[u]
  BY <1>1, <1>2, <1>3 DEF TablesOK
<1>6. CountsOK'
  BY <1>1, NamesAre DEF MigrateIInv, CountsOK, service
<1>7. TablesOK(src, {"sqlite"})' /\ Stored(src)' /\ TablesOK(dst, Side)'
  BY <1>1, <1>5 DEF MigrateIInv, TablesOK, TableOK, Stored
<1>8. orderly => ~ serving
  BY <1>1 DEF MigrateIInv, ServiceOK
<1>9. ASSUME NEW u \in Names
      PROVE  /\ DOMAIN dst[u] \subseteq DOMAIN dst'[u]
             /\ DOMAIN dst'[u] \subseteq DOMAIN dst[u] \cup DOMAIN src[u]
  BY <1>4, <1>5
<1>10. BeforeService'
  <2>1. ASSUME ~ serving PROVE Copied(src, dst')
    <3>1. Copied(src, dst) /\ Stored(src) /\ TableOK("items", src["items"], {"sqlite"})
      BY <2>1, SourceTables, NamesAre DEF MigrateIInv, BeforeService
    <3>2. \A u \in Names : DOMAIN dst'[u] \subseteq DOMAIN src[u]
      BY <1>9, <3>1 DEF Copied
    <3>3. \A i \in DOMAIN dst'["items"] : dst'["items"][i].key = "sqlite"
      <4>1. CASE t = "items"
        <5>1. \A i \in DOMAIN src["items"] : src["items"][i].key = "sqlite"
          BY <3>1 DEF TableOK, RowOK, ItemRow
        <5> QED BY <1>4, <1>5, <3>1, <4>1, <5>1 DEF Copied
      <4>2. CASE t # "items"
        BY <1>5, <3>1, <4>2, NamesAre DEF Copied
      <4> QED BY <4>1, <4>2
    <3>4. "owner" \in DOMAIN dst'["owner_keys"] => dst'["owner_keys"]["owner"] = "sqlite"
      <4>1. CASE t = "owner_keys"
        BY <1>4, <1>5, <3>1, <4>1 DEF Copied, Stored
      <4>2. CASE t # "owner_keys"
        BY <1>5, <3>1, <4>2, NamesAre DEF Copied
      <4> QED BY <4>1, <4>2
    <3> QED BY <3>2, <3>3, <3>4 DEF Copied
  <2> QED BY <1>1, <2>1 DEF MigrateIInv, BeforeService, service, Copied
<1>11. CopyOK'
  <2>1. ASSUME final PROVE ~ writing /\ Brought(src, dst', pos + 1)
    <3>1. ~ writing /\ Brought(src, dst, pos)
      BY <1>1, <2>1 DEF MigrateIInv, CopyOK
    <3>2. ASSUME NEW k \in 1 .. Len(Tables), k < pos + 1
          PROVE  DOMAIN src[Tables[k]] \subseteq DOMAIN dst'[Tables[k]]
      <4>1. Tables[k] \in Names
        BY NamesAre
      <4>2. CASE k < pos
        BY <1>9, <3>1, <4>1, <4>2 DEF Brought
      <4>3. CASE ~ (k < pos)
        <5>1. k = pos
          BY <1>1, <3>2, <4>3, NamesAre
        <5> QED BY <1>4, <1>5, <5>1
      <4> QED BY <4>2, <4>3
    <3> QED BY <3>1, <3>2 DEF Brought
  <2>2. pos' # Len(Tables) + 2
    BY <1>1, NamesAre
  <2> QED BY <1>1, <2>1, <2>2 DEF CopyOK, service, Brought
<1>12. ASSUME done PROVE \A u \in Names : DOMAIN dst'[u] = DOMAIN dst[u]
  <2>1. \A u \in Names : DOMAIN src[u] \subseteq DOMAIN dst[u]
    BY <1>12 DEF MigrateIInv, DoneOK
  <2> QED BY <1>9, <2>1
<1>13. DoneOK'
  <2>1. ASSUME done, orderly, NEW u \in Identity PROVE Ahead(dst'[u], taken[u], next[u])
    <3>1. Ahead(dst[u], taken[u], next[u]) /\ DOMAIN dst'[u] = DOMAIN dst[u]
      BY <1>12, <2>1, NamesAre DEF MigrateIInv, DoneOK
    <3> QED BY <3>1 DEF Ahead, Below
  <2>2. done => ~ writing /\ \A u \in Names : DOMAIN src[u] \subseteq DOMAIN dst'[u]
    BY <1>9 DEF MigrateIInv, DoneOK
  <2> QED BY <1>1, <2>1, <2>2 DEF DoneOK, service, Ahead, Below
<1>14. ServiceOK'
  <2>1. ASSUME orderly, NEW u \in Names, NEW id \in DOMAIN src[u] \cap DOMAIN dst'[u],
               <<u, id>> \notin rewritten
        PROVE  Follows(u, dst'[u][id], src[u][id])
    <3>1. Agree(src, dst, rewritten)
      BY <2>1 DEF MigrateIInv, ServiceOK
    <3>2. CASE u # t
      BY <1>5, <2>1, <3>1, <3>2 DEF Agree
    <3>3. CASE u = t /\ id \in DOMAIN dst[t]
      BY <1>4, <1>5, <2>1, <3>1, <3>3 DEF Agree
    <3>4. CASE u = t /\ id \notin DOMAIN dst[t]
      <4>1. RowOK(u, src[u][id], {"sqlite"}) /\ dst'[u][id] = src[u][id]
        BY <1>4, <1>5, <2>1, <3>4, SourceTables DEF TableOK
      <4> QED BY <4>1, RowsOfEither, FollowsRows
    <3> QED BY <3>2, <3>3, <3>4
  <2>2. orderly => Agree(src, dst', rewritten) /\ ~ clashed
    BY <2>1 DEF MigrateIInv, ServiceOK, Agree
  <2> QED BY <1>1, <1>8, <2>2 DEF ServiceOK, service, Agree
<1> QED BY <1>6, <1>7, <1>10, <1>11, <1>13, <1>14 DEF MigrateIInv

\* The sequence is moved behind the highest id that is there.
LEMMA MoveSequenceKeeps ==
  ASSUME MigrateIInv, MoveSequence
  PROVE  MigrateIInv'
<1> DEFINE t == IF pos = Len(Tables) + 1 THEN "audit" ELSE "item_versions"
<1>1. /\ pos > Len(Tables) /\ next' = [next EXCEPT ![t] = TopId(dst[t]) + 1]
      /\ IF pos = Len(Tables) + 1 THEN pos' = pos + 1 /\ UNCHANGED done
         ELSE pos' = 0 /\ done' = (done \/ final)
      /\ UNCHANGED <<src, dst, taken, passes, writing, rewritten, final, service>>
  BY DEF MoveSequence
<1>2. t \in Identity /\ t \in Names /\ Len(Tables) = 5 /\ pos \in {6, 7} /\ pos # 0
  BY <1>1, NamesAre DEF Identity, MigrateIInv, CountsOK
<1>3. next \in [Identity -> Nat \ {0}]
  BY DEF MigrateIInv, CountsOK
<1>4. TopId(dst[t]) \in Nat /\ \A k \in DOMAIN dst[t] : k \in Nat /\ k <= TopId(dst[t])
  <2>1. DOMAIN dst[t] \subseteq Nat \ {0} /\ HasTop(dst[t])
    BY <1>2, TargetTables, KeysAre DEF TableOK
  <2> QED BY <2>1, TopIs
<1>5. next' \in [Identity -> Nat \ {0}] /\ Below(dst[t], next'[t])
  BY <1>1, <1>2, <1>3, <1>4 DEF Below
<1>6. CountsOK'
  BY <1>1, <1>2, <1>5 DEF MigrateIInv, CountsOK, service
<1>7. orderly => ~ serving /\ \A u \in Identity : taken[u] = {}
  BY <1>2 DEF MigrateIInv, ServiceOK, BeforeService
<1>8. BeforeService' /\ ServiceOK'
  BY <1>1, <1>7 DEF MigrateIInv, BeforeService, ServiceOK, service, Copied, Agree
<1>9. final => ~ writing /\ \A u \in Names : DOMAIN src[u] \subseteq DOMAIN dst[u]
  <2>1. ASSUME final, NEW u \in Names PROVE ~ writing /\ DOMAIN src[u] \subseteq DOMAIN dst[u]
    <3>1. ~ writing /\ Brought(src, dst, pos)
      BY <1>2, <2>1 DEF MigrateIInv, CopyOK
    <3>2. PICK k \in 1 .. 5 : Tables[k] = u
      BY NamesAre
    <3>3. k < pos
      BY <1>2
    <3> QED BY <1>2, <3>1, <3>2, <3>3 DEF Brought
  <2>2. final => ~ writing
    BY <1>2 DEF MigrateIInv, CopyOK
  <2> QED BY <2>1, <2>2
<1>10. CopyOK'
  <2>1. final => Brought(src, dst, pos + 1)
    BY <1>9, NamesAre DEF Brought
  <2>2. CASE pos = 6
    <3>1. t = "audit" /\ pos' = 7 /\ pos' = pos + 1
      BY <1>1, <1>2, <2>2
    <3> QED BY <1>1, <1>5, <1>9, <2>1, <3>1 DEF CopyOK, service, Brought, Below
  <2>3. CASE pos = 7
    BY <1>1, <1>2, <2>3 DEF CopyOK
  <2> QED BY <1>2, <2>2, <2>3
<1>11. DoneOK'
  <2>1. ASSUME done', orderly, NEW u \in Identity PROVE Ahead(dst[u], taken[u], next'[u])
    <3>1. taken[u] = {}
      BY <1>7, <2>1
    <3>2. Below(dst[u], next'[u])
      <4>1. CASE u = t
        BY <1>5, <4>1
      <4>2. CASE u # t /\ done
        <5>1. Ahead(dst[u], taken[u], next[u])
          BY <2>1, <4>2 DEF MigrateIInv, DoneOK
        <5>2. next'[u] = next[u]
          BY <1>1, <1>3, <4>2
        <5> QED BY <5>1, <5>2 DEF Ahead
      <4>3. CASE u # t /\ ~ done
        <5>1. pos = 7 /\ final
          <6>1. done \in BOOLEAN /\ final \in BOOLEAN
            BY DEF MigrateIInv, CountsOK
          <6>2. CASE pos = 6
            <7>1. pos = Len(Tables) + 1
              BY <1>2, <6>2
            <7>2. done' = done
              BY <1>1, <7>1
            <7> QED BY <2>1, <4>3, <7>2
          <6>3. CASE pos = 7
            <7>1. pos # Len(Tables) + 1
              BY <1>2, <6>3
            <7>2. done' = (done \/ final)
              BY <1>1, <7>1
            <7> QED BY <2>1, <4>3, <6>1, <6>3, <7>2
          <6> QED BY <1>2, <6>2, <6>3
        <5>2. t = "item_versions"
          BY <1>2, <5>1
        <5>3. u = "audit"
          BY <4>3, <5>2 DEF Identity
        <5>4. Below(dst["audit"], next["audit"])
          BY <1>2, <2>1, <5>1 DEF MigrateIInv, CopyOK
        <5>5. next'[u] = next[u]
          BY <1>1, <1>3, <4>3
        <5> QED BY <5>3, <5>4, <5>5
      <4> QED BY <4>1, <4>2, <4>3
    <3> QED BY <3>1, <3>2 DEF Ahead
  <2>2. done' => ~ writing /\ \A u \in Names : DOMAIN src[u] \subseteq DOMAIN dst[u]
    BY <1>1, <1>9 DEF MigrateIInv, DoneOK
  <2> QED BY <1>1, <2>1, <2>2 DEF DoneOK, service, Ahead, Below
<1> QED BY <1>1, <1>6, <1>8, <1>10, <1>11, TablesStand DEF MigrateIInv

LEMMA CopyStopsKeeps ==
  ASSUME MigrateIInv, CopyStops
  PROVE  MigrateIInv'
<1>1. pos' = 0 /\ UNCHANGED <<src, dst, next, taken, passes, writing, rewritten, final, done, service>>
  BY DEF CopyStops
<1>2. CountsOK'
  BY <1>1, NamesAre DEF MigrateIInv, CountsOK, service
<1>3. BeforeService' /\ CopyOK' /\ DoneOK' /\ ServiceOK'
  BY <1>1 DEF MigrateIInv, BeforeService, CopyOK, DoneOK, ServiceOK, service, Copied, Agree,
              Ahead, Below, Readable
<1> QED BY <1>1, <1>2, <1>3, TablesStand DEF MigrateIInv

-----------------------------------------------------------------------------

LEMMA MigrateStepKeeps ==
  ASSUME MigrateIInv, [Next]_vars
  PROVE  MigrateIInv'
<1>1. CASE UNCHANGED vars
  <2>1. UNCHANGED <<src, dst, next, taken, writing, rewritten, pos, passes, final, done, serving,
                  orderly, clashed>>
    BY <1>1 DEF vars, copy, service
  <2>2. CountsOK'
    BY <2>1 DEF MigrateIInv, CountsOK
  <2>3. BeforeService' /\ CopyOK'
    BY <2>1 DEF MigrateIInv, BeforeService, CopyOK, Copied, Brought, Below
  <2>4. DoneOK' /\ ServiceOK'
    BY <2>1 DEF MigrateIInv, DoneOK, ServiceOK, Agree, Ahead, Below, Readable
  <2> QED BY <2>1, <2>2, <2>3, <2>4, TablesStand DEF MigrateIInv
<1>2. CASE \E i \in Item : SourcePutItem(i) \/ ServicePutItem(i)
  BY <1>2, SourcePutItemKeeps, ServicePutItemKeeps
<1>3. CASE \E s \in Session : ServiceUse(s) \/ (\E e \in Event : SourceUse(s, e))
  BY <1>3, ServiceUseKeeps, SourceUseKeeps
<1>4. CASE \E t \in Identity : TakeId(t) \/ InsertTaken(t)
  BY <1>4, TakeIdKeeps, InsertTakenKeeps
<1>5. CASE \/ StopWriting \/ StartService
           \/ StartCopy \/ CopyTable \/ MoveSequence \/ CopyStops
  BY <1>5, StopWritingKeeps, StartServiceKeeps, StartCopyKeeps, CopyTableKeeps, MoveSequenceKeeps,
     CopyStopsKeeps
<1> QED BY <1>1, <1>2, <1>3, <1>4, <1>5 DEF Next

LEMMA MigrateInitFits ==
  ASSUME Init
  PROVE  MigrateIInv
<1>1. /\ DOMAIN src = Names /\ DOMAIN dst = Names
      /\ \A t \in Names : src[t] = <<>> /\ dst[t] = <<>>
      /\ src = [t \in Names |-> src[t]] /\ dst = [t \in Names |-> dst[t]]
  BY DEF Init, NoRows, Names
<1>2. \A t \in Names : DOMAIN src[t] = {} /\ DOMAIN dst[t] = {}
  BY <1>1
<1>3. TablesOK(src, {"sqlite"}) /\ TablesOK(dst, Side)
  <2>1. \A t \in Names : /\ TableOK(t, src[t], {"sqlite"})
                         /\ TableOK(t, dst[t], Side)
    BY <1>2 DEF TableOK, RowOK, HasTop
  <2> QED BY <1>1, <2>1 DEF TablesOK
<1>4. Stored(src)
  BY <1>2, NamesAre DEF Stored
<1>5. CountsOK
  <2>1. 0 \in 0 .. Len(Tables) + 2 /\ 0 \in 0 .. MaxPasses
    BY NamesAre, MigrateAssumption
  <2>2. /\ next \in [Identity -> Nat \ {0}]
        /\ taken \in [Identity -> SUBSET (Nat \ {0})]
    BY DEF Init
  <2> QED BY <2>1, <2>2 DEF Init, CountsOK
<1>6. Copied(src, dst) /\ Agree(src, dst, rewritten)
  BY <1>2, NamesAre DEF Copied, Agree
<1>7. BeforeService /\ CopyOK /\ DoneOK /\ ServiceOK
  BY <1>6 DEF Init, BeforeService, CopyOK, DoneOK, ServiceOK
<1> QED BY <1>3, <1>4, <1>5, <1>7 DEF MigrateIInv

\* What the proofs below rest on.
THEOREM MigrateIInvHolds == Spec => []MigrateIInv
BY MigrateInitFits, MigrateStepKeeps, PTL DEF Spec

\* At every state the tables have their types; after an orderly cutover no
\* insert of the service is refused for its id, and the data key in owner_keys
\* opens every item that is in Postgres, whichever pass of the copy brought
\* them over and wherever a copy stopped.
THEOREM MigrateInvHolds == Spec => []MigrateInv
<1>1. MigrateIInv => MigrateInv
  <2> SUFFICES ASSUME MigrateIInv PROVE MigrateInv
    OBVIOUS
  <2>1. TypeOK
    <3>1. \A t \in Names : TableOK(t, src[t], {"sqlite"}) /\ TableOK(t, dst[t], Side)
      BY SourceTables, TargetTables
    <3>2. \A t \in Range(Tables) : DOMAIN src[t] \subseteq Keys(t) /\ DOMAIN dst[t] \subseteq Keys(t)
      BY <3>1 DEF TableOK, Names
    <3>3. /\ \A i \in DOMAIN src["items"] : src["items"][i] \in ItemRow({"sqlite"})
          /\ \A i \in DOMAIN dst["items"] : dst["items"][i] \in ItemRow(Side)
      BY <3>1, NamesAre DEF TableOK, RowOK
    <3>4. \A t \in Identity : \A id \in DOMAIN dst[t] : dst[t][id] \in LogRow
      BY <3>1, NamesAre DEF TableOK, RowOK
    <3>5. CountsOK /\ taken \in [Identity -> SUBSET Nat]
      BY DEF MigrateIInv, CountsOK
    <3> QED BY <3>2, <3>3, <3>4, <3>5 DEF TypeOK, CountsOK, LogRow
  <2>2. NoIdClash /\ MigratedReadable
    BY DEF MigrateIInv, ServiceOK, NoIdClash, MigratedReadable, Readable
  <2> QED BY <2>1, <2>2 DEF MigrateInv
<1> QED BY <1>1, MigrateIInvHolds, PTL

\* After an orderly cutover every row of the source is in Postgres, under its
\* key, however many copies stopped half-way before; and it is the row the source
\* has, or what the service has made of it since, unless an earlier pass had
\* brought it over when it was written again.
THEOREM NothingLeftBehindHolds == Spec => []NothingLeftBehind
<1>1. MigrateIInv => NothingLeftBehind
  <2> SUFFICES ASSUME MigrateIInv, done, orderly PROVE NothingLeftBehind
    BY DEF NothingLeftBehind
  <2>1. (\A t \in Names : DOMAIN src[t] \subseteq DOMAIN dst[t]) /\ Agree(src, dst, rewritten)
    BY DEF MigrateIInv, DoneOK, ServiceOK
  <2>2. \A t \in Names : \A k \in DOMAIN src[t] :
          <<t, k>> \notin rewritten => Follows(t, dst[t][k], src[t][k])
    BY <2>1 DEF Agree
  <2>3. \A t \in WrittenOnce : t \in Names /\ \A k : <<t, k>> \notin rewritten
    BY NamesAre DEF MigrateIInv, CountsOK, WrittenOnce, Identity
  <2>4. \A t \in WrittenOnce : \A k \in DOMAIN src[t] : dst[t][k] = src[t][k]
    BY <2>2, <2>3 DEF Follows
  <2>5. \A i \in DOMAIN src["items"] : <<"items", i>> \notin rewritten =>
          dst["items"][i] = src["items"][i] \/ dst["items"][i].by = "postgres"
    BY <2>2, NamesAre DEF Follows
  <2>6. \A s \in DOMAIN src["sessions"] : <<"sessions", s>> \notin rewritten =>
          dst["sessions"][s] >= src["sessions"][s]
    BY <2>2, NamesAre DEF Follows
  <2> QED BY <2>1, <2>4, <2>5, <2>6 DEF NothingLeftBehind, Names
<1> QED BY <1>1, MigrateIInvHolds, PTL

=============================================================================
