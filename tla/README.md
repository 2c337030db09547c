# Veil: verification

This directory holds TLA+ models of Veil, the agent-first credential broker of
this repository, the TLC configurations that check them on small instances, and
proofs, checked by TLAPS, of the properties that matter most. File and line
numbers refer to the repository; the main sources are under `internal/`, with
`identity/glue` and the extension in `apps/fill`.

    tlc -config UseSqlite.cfg MCVeil      # one run
    tlapm LocalProofs.tla                 # one proof module

## The system

Veil keeps secrets ("items") for an owner and lets agents use them without ever
holding them. A call names an agent (by an agent token or a session token), an
item, an action and a destination. The broker authorizes it against the store,
writes an audit row, injects the secret into the request and sends it upstream.
Around it are the ways to reach the broker (HTTP, MCP, sockets, a command line
against a remote origin), the ways a secret is used on the owner's own machine
(a child's environment, an injecting proxy, an SSH agent), the browser's native
host with its extension, and the files of a vault.

| Part | State | Operations | Talks to |
|---|---|---|---|
| Decision, `internal/grant` | none | `Evaluate`: principal, item, grant, approval, action, destination, instant -> allow, deny or need_approval | called by the broker, the proxy, `ChildEnv` |
| Store, `internal/store` | one row per agent, item, grant, approval, session, human, workload; the audit table; over SQLite, Postgres or memory | reads of the Use path, upserts and deletes of the owner path, `ConsumeSession(Audited)`, `Sweep` | everybody |
| Items and owner keys, `internal/store` | sealed secrets, versions, wrapped data keys, a cache of keys in each process, the rewrap mark | put, rewrite, restore, archive, delete, draw or load a key, rewrap of the legacy format | handlers, broker |
| Migration, `store/migrate.go` | the two databases, the identity sequences | ten tables copied in order, two sequences moved, run again | the running service |
| Vault directory, `app/wrap.go`, `internal/device` | device key, wraps, `master.key`, `config.json`, `vault.db` | init, open, offer, accept, the move of a plain master into wraps | file system |
| Broker, `internal/broker` | the admission semaphore, the calls in progress | `Use`, `UseSession`, `Approve`, `ChildEnv` | decision, store, auditor, upstream |
| Owner handlers, `internal/app` | the request in progress | agents, items, grants, approvals, sessions, revocation, TOTP, passkeys, offers | store, broker |
| Sweep, `veil sweep` | its cutoff | three DELETEs | store |
| Auditor, `internal/audit` | queue, batch, closed flags, first error | `Append`, worker, `Close` | store |
| Access, `internal/publicapi`, MCP, socket, `internal/workload`, `internal/human` | none of their own | bearer token -> principal, the checks of each route, the handler | app, Keto |
| Invites, `identity/glue` | relations in Keto, identities in Kratos | invite a human, make the first an owner | Keto, Kratos |
| Client, `internal/cli` against an origin | client secret, JWT and ID-token files | set up the Hydra client, mint, log in, present a token | Hydra, the origin |
| Local use: `broker/env.go`, `internal/proxy`, `internal/sshagent` | CA, per-connection state | CONNECT, inject, child environment, signature | store, decision |
| Fill host, `internal/fill`, `internal/replica`, `internal/confirm` | index, pulled rows and their sealed box, last confirmation, logins made | browser messages, native confirmation | the origin's fill handlers |
| Extension, `apps/fill` | port, queue of waiters, matches of tabs, pending save | page visits, focus, popup, save, enroll | native host |
| Crypto, material, inject, scrub, passgen, oneimport | none | conversions of bytes | |
| Ory services, SDKs, web vault, docs site | external or generated | | HTTP API |

What makes each part correct, and what is hard about it:

* **Decision.** Allow exactly the calls that a grant covers; ask a human only if
  the human's answer can help. Hard: a chain of early returns in which order
  matters, three instants compared with `now`, and hosts with and without their
  default port.
* **Store and broker.** No secret leaves before its audit row is durable; a
  lease is charged once for each row and never beyond `max_uses`; a revocation
  stops every later call; every call gives its admission slot back. Hard: a call
  makes three to five store calls with nothing held between them, several calls
  share a lease, Postgres gives the consuming UPDATE a snapshot and one row lock,
  any store call may fail with its effect done or not done, the process may stop.
* **Items and keys.** One data key for each owner whoever draws it first; no
  secret overwritten without a version; nothing left in the legacy format. Hard:
  several processes with caches, a rewrap beside writers, Postgres statements of
  one transaction that see different rows.
* **Owner handlers.** A lease never lives past `SessionTTLMax` however it is
  renewed; revocation is final; deleting and archiving an item take effect.
  Hard: handlers read, compute and write in separate statements, and `DeleteItem`
  is three statements without a transaction.
* **Sweep.** Removes what is dead and changes no answer. Hard: its cutoff is
  computed before it runs, calls were received before that, renewals are pending.
* **Auditor.** Nothing taken is lost or written twice, nothing is sent on a
  closed channel, `Close` and `Append` always return. Hard: four kinds of
  goroutine, a select with several ready cases, a timer, failing writes.
* **Migration and vault directory.** A stop at any point leaves something that
  opens; running again finishes. Hard: files are emptied before they are written,
  tables are copied at different instants while the source is written.
* **Access.** A principal acts only for what it is, sees only its own and what it
  was granted, and writes only what it may. Hard: a request reads the lease, the
  agent, the binding, Keto and the item one after the other.
* **Client.** A stale, emptied or half-replaced file never makes a command
  present a dead token or throw away a working secret; a login returns. Hard:
  several commands share files with no lock, Hydra may do and not answer, two
  channels and handlers of a login race its timer.
* **Local use.** What the proxy, a child or a signature gets is what `Use` would
  have given. Hard: rows of several items are read one by one, and `Evaluate` is
  applied to a row read earlier.
* **Fill host and extension.** One acceptance for one site and one purpose;
  answers are given to who asked; memory and the sealed box agree. Hard: answers
  carry no id, askers time out, the human thinks while the index changes, and
  worker, host and tab die independently.

`PROJECT.json` lists the hazards at their lines, with the property that covers
each, or the reason why none does.

## The modules

    Grant ── Store ──┬─ Owner ──┬─ LocalUse ── MCLocal (run)
      │              │          │      └──────────┐
      │              └─ Broker ─┴─ Veil ── VeilProofs ── LocalProofs
      │                              ├─ MCVeil (runs)
      │                              └─ Ledger == INSTANCE UseLedger
      └─ MCGrant ─┐
        Access ───┴─ MCAccess (run) ── AccessProofs
    Client ─┐
    VaultDir┴─ MCMachine (run) ── MachineProofs
    ItemVault ──┬─ MCItems (run)    Migrate (run) ── MigrateProofs
                └─ ItemProofs
    FillHost ───┬─ MCFill (run)     FillTabs ───┬─ MCTabs (run)
                └─ FillProofs                   └─ QueueProofs
    AuditAsync ─┬─ QueueProofs      AuditAsync, MCVeil ── MCRecords (run)
                └ Log == INSTANCE AuditLog

`Grant` translates `grant.Evaluate` with every early return in order.
Destinations are records of scheme, host and port; an unparsable host is `Nil`.

`Store` has one variable for each table. An action is one SQL statement or one
transaction. A row keeps the columns the Use path and the handlers decide on;
the sealed secret is part of the item row and is not spelled out. Instants are
whole seconds, as the store keeps them. `locked` is the set of session rows that
an open Postgres transaction has updated; every other write of such a row waits.

`Owner` has the handlers of the owner. One that makes a single store call is one
action. One that reads and then writes is two or three, and `handler[o]` holds
what it has read: `UpdateItem`, `GrantUntil`, `Approve`, `DeleteItem`,
`CreateSession`, `RenewSession` and the sweep. `HandlerFails` ends any of them
between two statements. Session ids are random and never repeat (`minted`).

`Broker` has the calls. `pc[c]` is the store call that is next, `ctx[c]` what was
asked and the instant the call was received, `outcome[c]` the decision and then
the answer. A path through the code is a path through `pc`:

| Code | Actions |
|---|---|
| `TryAcquire` in `Use`, `UseSession` | `StartAgent`, `StartSession` |
| `UseAuth`, `UseAuthSession`, the decision | `ReadAuth`, `Unauthorized` |
| reload of the agent (broker.go:225) | `Reload` |
| `auditUse` of a refusal (best effort) | `AuditRefusal` |
| `appendAudit` of an allowed call | `AuditAllow`, `AuditFails` |
| `ConsumeSessionAudited`, SQLite | `Consume` |
| `ConsumeSessionAudited`, Postgres | `ConsumeSnapshot`, `ConsumeUpdate`, `ConsumeCommit` |
| its refusal, failure, lost answer | `ConsumeRefused`, `ConsumeFails`, `ConsumeUnacknowledged` |
| `Store.Secret`, inject and fetch | `ReadSecret`, `SecretGone`, `Fetch` |
| any read that fails | `ReadFails` |

`Veil` interleaves calls, owner requests, the clock and a crash that loses the
process and rolls open transactions back, and states the properties.

`UseLedger` is the abstract specification of metered and audited use: a ledger,
leases with a limit and uses, and the set of calls that sent. `Veil` implements
it: the entries are the allow rows a call wrote, the meters are `max_uses` and
`uses` of the session rows.

`AuditAsync` is `audit.Async` with one step for each channel operation, section
under a mutex and store call; `AuditLog` is what it promises. What is pending is
the worker's batch followed by the channel. `app.Init` builds the broker with
`audit.Sync`, so `Broker` writes the audit table directly.

`ItemVault` has several processes over one database. `cache[p]` are the data
keys a process has unwrapped, `up` the processes that run, `req[r]` a request
with what it has read. A sealed secret names the key it is under and whose key
that was meant to be. A SQLite transaction takes the write lock when it begins
and is one action; in Postgres each statement is one (`CheckOwner`,
`TakeSnapshot`, `PutPostgres`). `OpenSQLite` includes the rewrap, which is one
transaction. A process in `WrongKey` was given another master key.

`VaultDir` has the files of a vault directory and processes that do one file
operation at a time (`Operate` runs the list that `WrapMaster`, `RemoveFile` and
the others make). `os.WriteFile` is two operations. `Stop` ends a process
anywhere.

`Migrate` has the tables of both databases as functions from keys to rows, the
identity sequences of Postgres, and the table the copy is at (`pos`). `orderly`
is a history variable: the service was not started before a copy was done, and
no copy was started while it ran. Another, `rewritten`, has the items and sessions
that the source wrote again after Postgres had them. Nothing in the code enforces that order; the
properties are claimed under it.

`LocalUse` has one task for each CONNECT, proxied request, child environment or
signature. Every store call on the way is an action, and the owner's handlers of
`Owner` run between them. `calm` is a history variable: the items whose rows have
not been written since the task began.

`Access` has a request from its bearer token to its last write, one action for
each read of the database or of Keto and each write. `during[r]` is a history
variable: what held at some moment of the request (bindings, memberships,
ownership, grants), against which what it does is measured. The commands of the
origin's owner (`Local...`), an operator of Keto (`Withdraw`) and the expiry of a
lease (`EndLease`) run between. `Broker.Use` of an agent is one read here, since
`Broker` has its steps.

`Client` has the commands of one machine against an origin. A secret is a number
that counts Hydra's rotations, a token is the instant at which it expires, and 0
is a file that is missing or empty. `RotateLost` is an answer of Hydra that is
lost after Hydra has rotated, `KeepSecret` one that holds no secret. `callback` holds the channels and waiting handlers
of a browser login.

`FillHost` has host processes with their index, rows, prompt and reuse window,
the sealed box on disk, and the origin they ask; `maker` records who made a login.
`Accept` and `Deny` are the human, `Edit` another client of the origin.

`FillTabs` is the background worker of the extension: `queue` is what the host
has still to answer, `waiters` the askers of the worker in order. A question has
a number that only the properties look at; the code has none, which is the point.

`MCMachine` composes `Client` and `VaultDir` for one run. They share no file, so
a behaviour is of one of them (`side`). `MCRecords` does the same for `Veil` over
Postgres and `AuditAsync`, the two ways a use is put on record, each against its
abstract specification; `MCAccess` for a request and for the input of `Evaluate`
that `MCGrant` enumerates.

## The runs

| Run | Question | Bounds and why they are enough |
|---|---|---|
| `access` | Does anybody act for, see or write what was at no moment of the request theirs? Does `Evaluate` agree with a declarative reading? | Two requests, one agent, two humans, one item, two workload subjects, two audiences, and two starts in a behaviour (requests, local commands, withdrawals): every pair of a request and one thing that changes what it has read. For the decision: two values of everything that is compared, three instants around one expiry, six destinations. |
| `use_sqlite` | Do audit rows, uses, slots and the consume guard stay together over SQLite? | Three calls and room for two, so that one is turned away while two contend for a lease with one use; one agent, item and session, since calls only meet on rows they share; crashes and failures at every step. |
| `records` | The same ledger over READ COMMITTED: does every call return, and does a revocation of the agent stop every later call? And does the auditor's queue lose, repeat or reorder events, and does everybody return? | Two calls contend for one row; the clock passes the expiry once. A channel of two, batches of two, four events and two callers of `Close`: a full queue with a waiting sender, a full batch and a partial one. Without a flush interval the worker drains at once, which is the behaviour in which the timer fires at once. |
| `leases` | Do leases stay below the cap, does the sweep change nothing, and does a revocation last? | Two owner requests, so that two renewals, or a renewal and a sweep, overlap with a revocation and a call on the lease; the clock reaches MaxTTL, so that revocations have three instants and a lease is swept; renewals of one and of MaxTTL seconds; the agent is revoked and added again. |
| `orphan_grant` | Does `DeleteItem` remove the grants of the item? (It does not always: see below.) | Two owner requests, one of each kind. |
| `items` | Do all processes seal with one key, and is no secret lost? | Three processes, one with the wrong master, two requests, one item with two possible owners, either backend: two right processes draw, load and rewrap at the same time, while the wrong one tries. |
| `machine` | Does a command present a live token and leave a working secret? Does a vault directory survive a stop anywhere? | Two commands that share the files; a token life of two, a skew of one and one tick, so that a token goes stale under a command; two rotations and two callbacks. On the directory one process at a time, restarted as often as it likes, two masters and the key of the machine that pairs. |
| `migrate` | Does a copy that stops and is run again bring over everything, readable, with free ids? | Two passes over five tables, two items, one session and one event: a row written, or written again, between any two tables, before, during and between the passes. |
| `stale_copy` | Is what a copy leaves the source's last state? (It is not always: see below.) | The same. |
| `local_use` | Is a local use what `Use` would have given? | One task of each kind with two items (one is an SSH key) and three steps of the owner's handlers, so that a row changes, and changes back or is followed by another, between any two reads. Tasks share nothing but the tables. |
| `fill` | Does every act follow an acceptance for that site and purpose? Do memory and box agree? | One host, two sites, three ids (one a card), four messages or launches, one edit by another client, one tick with a reuse window of one: an acceptance is reused, expires, or is for the other site, and a host is started again after a stop. |
| `tabs` | Does an answer reach its asker, and a password its tab? | Two tabs of two sites, two calls at a time, one navigation, one loss of host or worker: the least with which answers of two sites can be mixed up. The vault has two logins, or a login and a card that fits every page, and room for one. The sites are alike, so the first login is of the first site (`MCTabs`). |

`MaxClock`, `MaxNow`, `MaxTTL`, `MaxStarts`, `MaxBegins`, `MaxRotations`,
`MaxCallbacks`, `MaxRestore`, `MaxPasses`, `MaxInserts`, `MaxEdits`, `MaxAsks`,
`MaxCalls`, `MaxMoves`, `MaxFaults`, the sets `Ops`, `Kinds`, `UseLimits`,
`GrantLives`, `ApprovalLives`, `SessionTTLs` and `Keeps` bound the runs and
nothing else. In every run the behaviours end when the bounds are used up, so
deadlock is not checked: `CallsReturn`, `CloseReturns`, `AppendReturns`,
`LoginReturns` and `CallsSettle` say instead that nobody is left waiting.
Symmetry (`access`, `items`, `fill`) is used only with safety properties.

What the passing runs show, property by property:

* `AllowIffAuthorized`, `AskOnlyIfEnough`: the decision allows exactly what a
  grant covers and asks only if the answer can help.
* `AccessInv`: a request with a JWT acts for an agent only if its subject was bound
  to that agent for the token's audience at some moment of the request
  (`ActsForItsAudience`); what it shows was at some moment its principal's, or
  granted to it (`ShownIsTheirs`); a request that begins after its agent was
  revoked gets nothing, by whichever token (`RevokedAgentGetsNothing`).
* `WritesAreEntitled`: the same for what it writes, and an invite makes an owner
  only of an organization it saw without one.
* `AuditedBeforeRelease`: no secret is read or sent before its row is durable.
* `UsesAreCharged`: uses equal allow rows, one for each call, within `max_uses`.
* `SlotsBalance`: one slot for each call in progress, on every way out.
* `RevocationIsFinal`, `RevocationStopsLaterCalls`,
  `RevokedLeaseStopsLaterCalls`: re-adding an agent, a late renewal or a sweep
  undo no revocation (`leases`), and a call that starts after the revocation of its
  agent (`records`) or of its lease (`leases`) sends nothing.
* `ConsumeStopsAtRevocation`: with SQLite no use is charged after a revocation.
* `LeaseIsCapped`, `LeaseBoundsUse`: no renewal passes the cap, no call received
  at or after it is given a secret.
* `SweepIsInvisible`: a sweep changes no answer to a call received at its cutoff
  or later.
* `ImplementsLedger`, `ImplementsLog`: the refinements.
* `CloseDrains`, `CloseReturns`, `AppendReturns`, `CallsReturn`: the auditor
  drains, and every call returns.
* `ItemsInv`: every sealed secret and every key in memory is the one stored for
  the owner (`OneKeyPerOwner`), and nothing is legacy while a process with the
  right master runs over SQLite, other than what another master has the key of
  (`LegacyIsGone`). `SecretsKept`: in SQLite whatever replaces
  a secret leaves a version of it.
* `ClientInv`: a command presents a token that was live, and of the right
  principal (`PresentsLive`); a set-up that ends well, nobody else rotating, leaves
  the secret Hydra accepts on disk, whatever earlier runs left there
  (`LeavesAWorkingSecret`; an answer of Hydra without a secret apart). `RotationsAreJustified`: a working copy is never
  thrown away because Hydra did not answer. `LoginReturns`: a browser login ends.
* `DirInv`: wherever a command stops, the master that sealed the database can
  still be had (`MasterSurvives`), and an open vault has it
  (`OpenWithItsMaster`). `PlainGoesLast`: the plain master goes when a wrap loads.
* `MigrateInv`, `NothingLeftBehind`: after an orderly cutover no insert clashes
  with a copied id, the copied key opens the copied items, and every row is there:
  what is written once as it is, an item and a session as the source had them last
  or as the service has made them since, unless the source wrote them again after
  an earlier pass.
* `LocalInv` (`ReleasedIsAudited`), `RevocationStopsLaterTasks`: the proxy and
  `ChildEnv` audit what they let out, and let nothing out after a revocation.
  `UndisturbedIsTreatedAsUse`: an item whose rows nobody wrote meanwhile is
  treated as `Use` would treat it, whatever happened to the others.
* `FillInv`: box and rows agree at every step (`BoxIsMemory`), and a host knows the
  login it has just made (`KnowsWhatItMade`). `ActsAreAccepted`: nothing is opened,
  made or attached without the human's acceptance for that site within the reuse
  window, or of that very request if it is of the kind that is never reused.
  `EnrollsItsOwn`: a page's seed only gets into a login this host made for the
  page's site, and never over another seed.
* `TabsInv`: answers are in the order of the waiters unless somebody has left
  (`InOrder`), never ahead of the question (`NeverAhead`), and a password kept from
  a tab was typed there (`SavedInItsTab`). `WrittenFitsTheAsk`: a secret is written
  only for its site, or for any site if it is a card's, late answers apart. `CallsSettle`: every call ends.

### Where the code and its documents part

Two runs show a disagreement.

`orphan_grant`: spec.json says that deleting removes "the item and its grants"; a
grant checked before and written after the second DELETE stays, and applies to the
next item of that name.

`stale_copy`: migrate.go:158-161 says that the migration "copies every application
row" and that a rerun brings those "written since the last pass". A row that the
source writes again between two passes is there already, so `ON CONFLICT DO
NOTHING` skips it: Postgres keeps the secret, the revocation mark or the expiry of
the first pass, though the last pass began after the last write to the source
(`CopiesEveryRow`). A row that the source has deleted in between stays as well;
deletions are not modelled.

The properties above carry premises. Each premise is there because the code does
not give more, and the text or the reader may expect it:

* *Calls in flight.* spec.json says that revoking "kills in-flight Use". A call
  that passed the reload is audited and sent after the revocation, so the
  properties speak of calls that start later.
* *Postgres.* `ConsumeSession` is the "final revocation race guard" (store.go).
  Under READ COMMITTED the UPDATE sees the agent as of its start, so
  `ConsumeStopsAtRevocation` is claimed for SQLite. A secret written between
  another writer's snapshot and its upsert leaves no version: `SecretsKept` too.
* *Two versions of an item.* The host check and the read of the secret use two
  reads of the item; an `UpdateItem` that read the row before an archive writes
  the flag back.
* *Vault directory.* Two processes that work on one directory at the same time
  may wrap two masters; the run has one. `Accept` compares master.key only after
  it has written device.key and the wrap, so an offer of another vault is refused
  but its wrap stays, and `loadMaster` prefers it: run and theorems have one
  vault's master among `Offers` and `Plain`.
* *Replica.* Two hosts share `replica.box` and the last writer wins; the run has
  one. A warm replica does not know a login the host has just generated, so
  `KnowsWhatItMade` is about hosts without one (docs/fill.md:428).
* *Migration.* A service that is started before the copy draws a data key of its
  own, and the copied items cannot be opened. `NothingLeftBehind` excepts the rows
  of `stale_copy` (`rewritten`), and no others.
* *Local use.* The proxy does not ask whether an item's kind injects, and the SSH
  agent knows no agent to revoke.
* *Extension.* After a timeout the late answer goes to the next waiter; the tab is
  written without a second look at its URL (docs/fill.md:138); the end of a save
  removes an offer that another tab has made since; a page can have its code from
  any site's acceptance in the keepassxc-browser channel.
* *Access.* The MCP server and the socket know no humans, and a use of a lease
  there is not charged; a granted item that is missing fails the whole list of an
  agent; two first invites at once may both make an owner.
* *Client.* If Hydra answers the replacement of a client without a secret, `agent
  hydra` asks only whether some secret file exists (cli.go:1036) and ends well with
  the copy that was just rejected: `KeepSecret`, which `LeavesAWorkingSecret`
  excepts (`silent`). A second callback can keep a browser login from returning; `item
  update` against an origin is several PATCHes; a proxy keeps the token and the
  item list it began with.

### Fairness

`Fairness` of `Veil` asks only that a call that has started goes on while it can:
the store answers, the transaction that holds a session row ends, the HTTP client
gives up after its timeout. Starting calls, owner requests, the clock, failures
and crashes are not obliged to happen. Two Postgres transactions contend for the
same row; weak fairness of each call is enough because a call holds one row lock
at most and takes no other while it holds it. For the auditor: a select with a
ready case takes one, the worker goes on, its timer fires and the store answers;
nobody is obliged to call `Append` or `Close` or to cancel. For a browser login
(`ClientFairness`): the HTTP server runs its handlers, the login's timer fires,
Hydra answers or the call fails. For the extension: `Proceed`, which is a timer
that fires or a message to a tab that is answered or fails; the host is never
obliged to answer. `MCRecords` conjoins the fairness of its two sides. The other modules state no fairness, and no property of
theirs needs any.

## The proofs

Proved is every safety property that a passing run checks: of `Veil` (with
`Store`, `Owner` and `Broker`), `LocalUse`, `AuditAsync`, `FillTabs`,
`ItemVault`, the decision and `Access`, `Client`, `VaultDir`, `FillHost` and
`Migrate`. The theorems hold for every set of agents, items, sessions, calls, requests,
processes, commands, hosts, sites, tabs, tasks and events, every limit, and both
databases unless said otherwise. They assume what the ASSUMEs of the modules say: the sets
are of the right kind, `Nil` (`None`, `Legacy`, and what a file of a vault directory
may hold besides a key) is none of the values, the set of calls and that of events are finite, limits are positive, a token lives longer
than its skew, agents are no humans.

Apart from the two of the decision, no property below is inductive as it stands:
each proof first shows a stronger
invariant, which TLC has checked on the run's instance, and takes the properties
from it, the action properties step by step.

* `InvHolds` (VeilProofs). `Inv` is the type invariant with three facts that none
  of the properties could be carried through a step without: every call's fields
  fit the place it has reached (`CallsWellFormed`), a locked session row belongs
  to exactly one transaction that found it usable (`LocksHeld`), and a lease id
  is written once, by the request that minted it (`FreshLeases`).
* `AuditedHolds`, `SlotsHold`, `LeaseCapHolds`, `LeaseBoundHolds`,
  `RevocationFinalHolds`, `RevocationStopsHolds` (VeilProofs). The last one rests
  on `Barred`: once an agent is revoked before a call starts, the call either has
  not read its agent yet or has been refused.
* `RevokedLeaseHolds`. A lease that was revoked is `Dead`: its id is taken, no
  request that minted it is still to write it, and its row is gone or revoked, so
  that neither a renewal that read it earlier nor a sweep brings it back. A call
  of it that had not started by then is `Shut`.
* `SweepInvisibleHolds`. No statement of a sweep changes the answer that the
  authorization queries give at its cutoff or later: a grant or an approval it
  drops is refused by its expiry, and an answer without the grant is the same
  refusal (`SweepKeepsAnswer`).
* `ConsumeStopsHolds` assumes SQLite; over Postgres a use can commit after the
  revocation.
* `UsesChargedHolds`. `Inv` says nothing of the audit table; the strengthening is
  `RowsOfCalls`: the table is finite, a row that names a call was written when
  that call passed its audit, so a call still before it has none, and a row that
  names a session names one whose id has been written, so a new lease starts with
  none. Then a consume adds one new row and one use.
* `ImplementsLedgerHolds`. Each step of Veil is a step of the ledger or a stutter,
  from `Inv`, `RowsOfCalls` and `AuditedBeforeRelease`.
* `AuditInvHolds`, `NoSendAfterCloseHolds`, `CloseDrainsHolds`,
  `ImplementsLogHolds` (QueueProofs). `AsyncInv` orders the callers of
  `Close` (`CloseInOrder`) and the worker (`WorkerInOrder`) and says that what was
  taken is in table, batch or channel, once, while no write has failed
  (`NothingLost`).
* `TabsInvHolds`, `WrittenFitsTheAskHolds` (QueueProofs), from `TabsSafe`. What
  the properties say of the next answer is carried for the whole line (`Lines`):
  questions in the queue and waiters are numbered upwards, a waiter is a call that
  is still asking under the number it has, and the k-th answer owed was asked no
  later than the k-th waiter's question, with equality as long as no waiter has
  left. A call that has its answer holds something of the site it asked for
  (`Holds`).
* `LocalInvHolds`, `TaskRevocationHolds`, `UndisturbedHolds` (LocalProofs), from
  `LocalSafe`, which says of every task what it holds at its stage (`Shape`), that
  what it will let out is on an allow row or the row is written next (`Audited`),
  that one that began after the revocation has read it (`Late`), and of every item
  nobody has touched since it began: that what was read is still what is there
  (`Current`), and that the item was judged as `Use` would have (`Judged`); if
  nothing was touched, the hits of `lookup` are the granted items that list the
  host (`Looked`). The instant of `UseWouldAllow` moves with the task, which is why
  the decision is compared at the time of `Evaluate` and an approval that has run
  out since it was read has to be worth as much as none (`ApprovalRunOut`). The
  theorems hold for any number of tasks side by side and of owner's steps.
* `ItemsInvHolds`, `SecretsKeptHolds` (ItemProofs), from `VaultInv`
  (`VaultInvHolds`). That all seal with one key needs to know what a request
  carries: a key it will seal with is the stored one and was unwrapped with the
  master key of its process (`RequestsOK`). That nothing legacy is left needs to
  know where such a secret may still come from: a row that was read before the
  rewrap and is written after it, a version written into a history that a deletion
  has just emptied (`OrphansExcused`, `DeletionsExcused`), and whose it is
  (`LegacyOwned`).
* `AllowIffAuthorizedHolds`, `AskOnlyIfEnoughHolds` (AccessProofs) are about the
  decision: every check before the level refuses exactly what the grant does not
  cover (`CoveredReachesTheLevel`), so what remains is the level.
* `AccessInvHolds`, `WritesAreEntitledHolds` (AccessProofs), from `RequestInv`: a
  request that has passed a check holds something that `during` still shows
  (`Entitled`), `during` has seen the present (`NowSeen`) and never forgets, and a
  principal that was revoked when the request began has got nothing.
* `ClientInvHolds`, `RotationsAreJustifiedHolds` (MachineProofs), from
  `ClientIInv`. Each command knows something of the secret for which the others
  only have to leave Hydra's secret growing (`Knows`), except for a run that was
  alone, and nobody else rotates while a run is alone (`Exclusive`). A token that
  will be stored or presented was not about to expire when the command began
  (`Timely`).
* `DirInvHolds`, `PlainGoesLastHolds` (MachineProofs), from `DirIInv`. A process
  that writes knows at which place of its list of file operations it is, and what
  the operations before that place have left on disk (`InitAt`, `MigrateAt`,
  `OfferAt`, `AcceptAt`, `RemoveAt`); once a process has a master the device key
  that is there unwraps the same one (`Loaded`); what a process that has stopped
  leaves is a directory of which the next can say as much without knowing how far
  it came (`DiskOK`). Both theorems assume, as the run does (`OneAtATime`), that
  one command works on a directory at a time and that the masters that were
  offered or are in the clear are of one vault; the number of keys, masters and
  crashes is arbitrary.
* `ActsAreAcceptedHolds`, `EnrollsItsOwnHolds`, `KnowsWhatItMadeHolds`,
  `FillInvHolds` (FillProofs), from `FillIInv`: the window of a host is that of its
  last acceptance (`WindowOK`), a request at a place where it acts was let pass by
  one that still holds (`AcceptOK`), a login that the host remembers is noted as
  its own (`ClaimOK`), and so is the one an enrolment names (`EnrollOK`). The
  first three hold for any number of hosts. `FillInvHolds` assumes, as the run
  does, that there is one: `BoxIsMemory` compares its rows with the box, and two
  hosts seal one box over each other.
* `MigrateInvHolds`, `NothingLeftBehindHolds` (MigrateProofs), from `MigrateIInv`:
  while the service does not run, Postgres has copied rows only (`Copied`); a row
  of both databases is the source's, or what the service has made of it, unless the
  source has written it again (`Agree`), which a pass and the service leave true and
  the source only loses where it notes it (`GrowsTo`); a pass that began after the
  source had stopped has brought over the tables before its place (`Brought`); a moved sequence is ahead of every id of its table and of every id it
  has given (`Ahead`). An identity table has a highest id whenever it has a row
  (`HasTop`), which the invariant carries so that no induction over it is needed.

Where a proof could not be finished, the model or a property was wrong, and was
corrected:

* `LegacyIsGone` used to have no exception. A process with another master key can
  write between the statements of `DeleteItem`, and the version it leaves, under a
  data key that the right master does not open, is of no item; it comes back as
  the history of the next item of that id.
* The list of events is an owner's, of the organization's, and was not told
  apart from the human's own lists; two arms of a CASE on the kind of request
  overlapped.
* `NothingLeftBehind` compared items by their keys, under which a secret left
  behind is not seen; compared by rows it needs the exception of `stale_copy`.
* `ClientAssumption` allowed no rotation at all, in which case the first secret is
  already one too many.

Only model-checked: liveness (`CallsReturn`, `CloseReturns`, `AppendReturns`,
`LoginReturns`, `CallsSettle`), which with ENABLED is out of the prover's reach.
So is induction over data: what a fold or a list computes for every input is used
only where an explicit bound or a property of its members is enough.

## Not modelled

* Cryptography, sealing, request injection, scrubbing of responses, password
  generation and 1Password import are conversions without state.
* Kratos, Hydra and Keto are external and appear as what the code asks of them;
  consent and the first-party client of the identity stack are configuration. The
  SDKs and the user interfaces are generated or have no logic of their own.
* The network between broker and upstream appears only as `Fetch`, which sends or
  fails.
* Local use: TLS, the proxy's own authentication, rewriting of responses, and the
  origin mode of the proxy after its first request.
* Fill host: the keys and associations of the keepassxc-browser channel, what is
  in a passkey, Touch ID and the rules for passwords. Extension: which fields of a
  page are written, the badge, the page side of passkeys.
* Vault directory: `VEIL_MASTER_KEY`, which by-passes the files. Client: a set-up
  without VEIL_HYDRA_SECRET_FILE, in which `originTokenLive` presents the token of
  the file even if it has expired, and VEIL_HUMAN_TOKEN in place of its file.
* Organizations are compared by `Evaluate` (run `access`) and are one value
  elsewhere.

## Plan

All parts of the plan are done: every component that decides or writes has its
module, and every safety property of a passing run its theorem. What would come
next is to let the behaviours that the premises above exclude happen, once the
code closes them: Postgres in `SecretsKept` and `ConsumeStopsAtRevocation`, two
commands on a vault directory, two hosts over one box.
