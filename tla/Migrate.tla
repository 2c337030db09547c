------------------------------- MODULE Migrate -------------------------------
(***************************************************************************)
(* veil migrate: MigrateSQLiteToPostgres of internal/store/migrate.go.     *)
(* Each table is copied by one Postgres transaction that skips the rows    *)
(* that conflict, then two identity sequences are moved.  A copy that      *)
(* fails or stops between two tables is run again.  The source may still   *)
(* be written, and the service may already run over Postgres.              *)
(*                                                                         *)
(* Five tables stand for the ten.  agents, humans, grants, approvals and   *)
(* workloads are rows under a key of their own, like items, and nothing    *)
(* in them refers to another copied row.                                   *)
(***************************************************************************)
EXTENDS Naturals, Sequences, FiniteSets, Functions, FiniteSetsExt

CONSTANTS Item, Session,
          Event,     \* what is appended to the tables with an identity
          MaxPasses,  \* bound: copies that are started
          MaxInserts, \* bound: rows the service inserts into an identity table
          Nil

ASSUME MigrateAssumption ==
  /\ MaxPasses \in Nat /\ MaxInserts \in Nat
  /\ IsFiniteSet(Event)
  /\ Nil \notin Item \cup Session \cup Event

\* Who drew the data key of the owner: a process over the source or over
\* Postgres.  Secrets and wrapped keys are copied byte for byte.
Side == {"sqlite", "postgres"}

\* migrateTables, in this order.
Tables == <<"items", "audit", "owner_keys", "item_versions", "sessions">>
Identity == {"audit", "item_versions"}

\* The tables with no row that the source writes again.
WrittenOnce == Identity \cup {"owner_keys"}

VARIABLES
  src,     \* the tables of SQLite: each a function from keys to rows
  dst,     \* the tables of Postgres
  next,    \* the identity sequences of Postgres: the id they give next
  taken,   \* ids the service has been given and not yet inserted a row with
  pos,     \* the table the running copy is at, 0 if none runs
  passes,  \* copies that were started
  writing, \* the source is still written
  rewritten, \* history: <<table, key>> of the rows that the source has written
             \* again when Postgres had a row under their key
  final,   \* the running copy began after the last write to the source
  done,    \* a copy has completed, the last write to the source before it
  serving, \* the service runs over Postgres
  orderly, \* the service was not started before a copy was done, and no copy
           \* was started after it
  clashed  \* an insert of the service was refused: its id was there already

copy    == <<pos, passes, final, done>>
service == <<serving, orderly, clashed>>
vars    == <<src, dst, next, taken, writing, rewritten, copy, service>>

NoRows == [t \in Range(Tables) |-> <<>>]

Keys(t) == CASE t = "items"      -> Item
             [] t = "owner_keys" -> {"owner"}
             [] t = "sessions"   -> Session
             [] t \in Identity   -> Nat \ {0}

\* An item: who wrote its secret, under whose data key, and how often.
ItemRow(sides) == [by : sides, key : sides, rev : Nat]

TypeOK ==
  /\ \A t \in Range(Tables) : /\ DOMAIN src[t] \subseteq Keys(t)
                              /\ DOMAIN dst[t] \subseteq Keys(t)
  /\ \A i \in DOMAIN src["items"] : src["items"][i] \in ItemRow({"sqlite"})
  /\ \A i \in DOMAIN dst["items"] : dst["items"][i] \in ItemRow(Side)
  /\ \A t \in Identity : \A id \in DOMAIN dst[t] :
       dst[t][id] \in [by : Side, of : Item \cup Event \cup {Nil}]
  /\ next \in [Identity -> Nat \ {0}]
  /\ taken \in [Identity -> SUBSET Nat]
  /\ rewritten \subseteq ({"items"} \X Item) \cup ({"sessions"} \X Session)
  /\ pos \in 0 .. Len(Tables) + 2 /\ passes \in 0 .. MaxPasses
  /\ {writing, final, done, serving, orderly, clashed} \subseteq BOOLEAN

Init ==
  /\ src = NoRows /\ dst = NoRows
  /\ next = [t \in Identity |-> 1]
  /\ taken = [t \in Identity |-> {}]
  /\ pos = 0 /\ passes = 0 /\ rewritten = {}
  /\ writing = TRUE /\ final = FALSE /\ done = FALSE
  /\ serving = FALSE /\ orderly = TRUE /\ clashed = FALSE

\* Table rows with row added under key, or in place of the row that has it.
With(rows, key, row) == [k \in DOMAIN rows \cup {key} |-> IF k = key THEN row ELSE rows[k]]

Ids(rows) == DOMAIN rows
TopId(rows) == IF Ids(rows) = {} THEN 0 ELSE Max(Ids(rows))

\* A row of audit or item_versions: who wrote it and what it is about.
Log(side, what) == [by |-> side, of |-> what]

\* Bound: an event is appended once.
Appended(rows, e) == \E id \in DOMAIN rows : rows[id].of = e

-----------------------------------------------------------------------------
(* The vault over SQLite: each write is one transaction.                   *)

SourceOnly == UNCHANGED <<dst, next, taken, writing, copy, service>>

\* The row under key is written again; Postgres keeps the one it may have.
WriteAgain(t, key) ==
  rewritten' = rewritten \cup (IF key \in DOMAIN dst[t] THEN {<<t, key>>} ELSE {})

\* A secret is written; the one it replaces goes to item_versions.
SourcePutItem(i) ==
  /\ writing
  /\ IF i \in DOMAIN src["items"]
     THEN /\ src["items"][i].rev = 1   \* bound: written twice
          /\ src' = [src EXCEPT !["items"][i].rev = 2,
                                !["item_versions"] =
                                   With(@, TopId(@) + 1, Log("sqlite", i))]
          /\ WriteAgain("items", i)
     ELSE /\ src' = [src EXCEPT
               !["items"] = With(@, i, [by |-> "sqlite", key |-> "sqlite", rev |-> 1]),
               !["owner_keys"] = With(@, "owner", "sqlite")]
          /\ UNCHANGED rewritten
  /\ SourceOnly

\* An allowed use: the uses of the session and the audit row.
SourceUse(s, e) ==
  /\ writing
  /\ ~ Appended(src["audit"], e)
  /\ src' = [src EXCEPT
       !["sessions"] = With(@, s, IF s \in DOMAIN @ THEN @[s] + 1 ELSE 1),
       !["audit"] = With(@, TopId(@) + 1, Log("sqlite", e))]
  /\ WriteAgain("sessions", s)
  /\ SourceOnly

\* The vault over SQLite is shut down for good.
StopWriting ==
  /\ writing
  /\ writing' = FALSE
  /\ UNCHANGED <<src, dst, next, taken, rewritten, copy, service>>

-----------------------------------------------------------------------------
(* The copy.                                                               *)

StartCopy ==
  /\ pos = 0 /\ passes < MaxPasses
  /\ pos' = 1 /\ passes' = passes + 1
  /\ final' = ~ writing
  /\ orderly' = (orderly /\ ~ serving)
  /\ UNCHANGED <<src, dst, next, taken, writing, rewritten, done, serving, clashed>>

\* Mutant: a table that an earlier pass has filled is left alone.
InsertIfEmpty(into, rows) == IF into = <<>> THEN rows ELSE into

\* ON CONFLICT DO NOTHING.
InsertNew(into, rows) ==
  [k \in DOMAIN into \cup DOMAIN rows |-> IF k \in DOMAIN into THEN into[k] ELSE rows[k]]

\* migrateOneTable: one read of the source, one transaction.  Only keys tell
\* rows apart, so a write of the service comes before or after all of it.
CopyTable ==
  /\ pos \in 1 .. Len(Tables)
  /\ LET t == Tables[pos] IN dst' = [dst EXCEPT ![t] = InsertNew(@, src[t])]
  /\ pos' = pos + 1
  /\ UNCHANGED <<src, next, taken, passes, writing, rewritten, final, done, service>>

\* Mutant: the sequence of item_versions is left alone.
MoveSequenceOfAudit ==
  /\ pos > Len(Tables)
  /\ next' = [next EXCEPT !["audit"] = TopId(dst["audit"]) + 1]
  /\ IF pos = Len(Tables) + 1
     THEN pos' = pos + 1 /\ UNCHANGED done
     ELSE pos' = 0 /\ done' = (done \/ final)
  /\ UNCHANGED <<src, dst, taken, passes, writing, rewritten, final, service>>

\* setval to the highest id that is committed: audit, then item_versions.
MoveSequence ==
  /\ pos > Len(Tables)
  /\ LET t == IF pos = Len(Tables) + 1 THEN "audit" ELSE "item_versions" IN
       next' = [next EXCEPT ![t] = TopId(dst[t]) + 1]
  /\ IF pos = Len(Tables) + 1
     THEN pos' = pos + 1 /\ UNCHANGED done
     ELSE pos' = 0 /\ done' = (done \/ final)
  /\ UNCHANGED <<src, dst, taken, passes, writing, rewritten, final, service>>

\* The copy fails or its process stops; the tables it has finished stay.
CopyStops ==
  /\ pos # 0
  /\ pos' = 0
  /\ UNCHANGED <<src, dst, next, taken, passes, writing, rewritten, final, done, service>>

-----------------------------------------------------------------------------
(* The service over Postgres.                                              *)

StartService ==
  /\ ~ serving
  /\ serving' = TRUE
  /\ orderly' = (done /\ pos = 0)
  /\ UNCHANGED <<src, dst, next, taken, writing, rewritten, copy, clashed>>

\* A secret is written, the first of an item or a later one: the stored data key
\* of the owner seals it, or the service draws one (module ItemVault).  The
\* version of one that it replaces is a row of InsertTaken.
ServicePutItem(i) ==
  /\ serving
  /\ LET key == IF "owner" \in DOMAIN dst["owner_keys"] THEN dst["owner_keys"]["owner"]
                ELSE "postgres" IN
       dst' = [dst EXCEPT !["items"] = With(@, i, [by |-> "postgres", key |-> key, rev |-> 1]),
                          !["owner_keys"] = With(@, "owner", key)]
  /\ UNCHANGED <<src, next, taken, writing, rewritten, copy, service>>

\* An insert into a table with an identity is given the next id, in its own
\* transaction, ...
TakeId(t) ==
  /\ serving
  /\ Cardinality(taken[t]) = 0
  /\ Cardinality({id \in DOMAIN dst[t] : dst[t][id].by = "postgres"}) < MaxInserts  \* bound
  /\ taken' = [taken EXCEPT ![t] = {next[t]}]
  /\ next' = [next EXCEPT ![t] = @ + 1]
  /\ UNCHANGED <<src, dst, writing, rewritten, copy, service>>

\* ... and commits, or is refused if a row has that id: the audited use or the
\* write of the item that it belongs to fails.
InsertTaken(t) ==
  \E id \in taken[t] :
    /\ taken' = [taken EXCEPT ![t] = {}]
    /\ IF id \in DOMAIN dst[t] THEN clashed' = TRUE /\ UNCHANGED dst
       ELSE dst' = [dst EXCEPT ![t] = With(@, id, Log("postgres", Nil))] /\ UNCHANGED clashed
    /\ UNCHANGED <<src, next, writing, rewritten, copy, serving, orderly>>

\* A use of a session is counted by the service.
ServiceUse(s) ==
  /\ serving
  /\ s \in DOMAIN dst["sessions"] /\ dst["sessions"][s] < Cardinality(Event) + 1  \* bound
  /\ dst' = [dst EXCEPT !["sessions"][s] = @ + 1]
  /\ UNCHANGED <<src, next, taken, writing, rewritten, copy, service>>

Next ==
  \/ \E i \in Item : SourcePutItem(i) \/ ServicePutItem(i)
  \/ \E s \in Session : ServiceUse(s) \/ (\E e \in Event : SourceUse(s, e))
  \/ \E t \in Identity : TakeId(t) \/ InsertTaken(t)
  \/ StopWriting \/ StartService
  \/ StartCopy \/ CopyTable \/ MoveSequence \/ CopyStops

Spec == Init /\ [][Next]_vars

-----------------------------------------------------------------------------
(* Properties.                                                             *)

\* After an orderly cutover the data key in owner_keys opens every item that
\* is in Postgres, whichever tables which pass of the copy brought over.  A
\* service that is started earlier draws a key of its own, the copied one is
\* skipped, and the copied items cannot be opened.
MigratedReadable ==
  serving /\ orderly => \A i \in DOMAIN dst["items"] :
    "owner" \in DOMAIN dst["owner_keys"] /\ dst["items"][i].key = dst["owner_keys"]["owner"]

\* After an orderly cutover every row of the source is in Postgres under its key,
\* however many copies stopped half-way before.  It is the row the source has,
\* or what the service has made of it since: audit rows, versions and the data
\* key as they are, the last secret of an item, a session with all its uses;
\* except a row that an earlier pass had brought over when it was written again.
NothingLeftBehind ==
  done /\ orderly =>
    /\ \A t \in Range(Tables) : DOMAIN src[t] \subseteq DOMAIN dst[t]
    /\ \A t \in WrittenOnce : \A k \in DOMAIN src[t] : dst[t][k] = src[t][k]
    /\ \A i \in DOMAIN src["items"] : <<"items", i>> \notin rewritten =>
         dst["items"][i] = src["items"][i] \/ dst["items"][i].by = "postgres"
    /\ \A s \in DOMAIN src["sessions"] : <<"sessions", s>> \notin rewritten =>
         dst["sessions"][s] >= src["sessions"][s]

\* After an orderly cutover no insert of the service is refused because its id
\* is used already (migrate.go, the reset of the sequences).
NoIdClash == orderly => ~ clashed

MigrateInv == TypeOK /\ NoIdClash /\ MigratedReadable

-----------------------------------------------------------------------------
(* What the repository says of the copy and the code does not do, refuted  *)
(* by a run of its own.                                                    *)

\* "copies every application row", and a rerun those "written since the last
\* pass" (migrate.go): after an orderly cutover the secret of an item is the
\* one the source had last, or one the service has written.
CopiesEveryRow ==
  done /\ orderly => \A i \in DOMAIN src["items"] :
    /\ i \in DOMAIN dst["items"]
    /\ dst["items"][i] = src["items"][i] \/ dst["items"][i].by = "postgres"

=============================================================================
