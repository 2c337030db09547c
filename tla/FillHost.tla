------------------------------- MODULE FillHost -------------------------------
(***************************************************************************)
(* The native host that fills a browser (internal/fill, nyc.veil.fill),    *)
(* its sealed copy of the vault (internal/replica), the human's            *)
(* confirmation (internal/confirm) and the origin's fill handlers          *)
(* (internal/app).  The browser launches a host and sends it one message   *)
(* at a time; the origin is changed by other clients meanwhile, its        *)
(* answers may be refused, missing or lost, the clock runs while the human *)
(* thinks, and a host may be stopped anywhere.                             *)
(*                                                                         *)
(*   ping      pull -> put* -> index -> reply                              *)
(*   fill      index -> match -> [envelope] -> ask -> [prompt] -> unlock   *)
(*   generate, save    index -> match -> ask -> [prompt] -> create         *)
(*   enroll    index -> match -> ask -> prompt -> attach                   *)
(*   passkey   ask -> [prompt] -> passkey                                  *)
(*   logins, code (the channel of keepassxc-browser)                       *)
(*             fetch -> ask -> [prompt] -> give                            *)
(*                                                                         *)
(* A URL and its registrable domain are one Site.                          *)
(***************************************************************************)
EXTENDS Integers, FiniteSets

CONSTANTS Host,      \* host processes, one for each port of the browser
          Item,      \* ids the origin mints
          Site,
          Fresh,     \* the ids nothing has at first
          Cards,     \* the items that are cards with a CVV; others are logins
          Ops,       \* the messages a run lets the browser send
          Platforms, \* whether there is a credential store for the replica key
          Reuse,     \* confirmReuse, in ticks
          MaxClock,  \* bound: ticks of a behaviour
          MaxEdits,  \* bound: writes of the origin by other clients
          MaxAsks,   \* bound: launches and messages of the browser
          Nil

\* What the human accepted, and when; the process that made an item, and for
\* which page.
Acceptance == [site : Site \cup {Nil}, at : 0 .. MaxClock]
Maker      == [host : Host, site : Site]

ASSUME FillAssumption ==
  /\ Cards \subseteq Item /\ Fresh \subseteq Item
  /\ Ops \subseteq {"ping", "match", "fill", "generate", "save", "enroll",
                    "passkey", "logins", "code"}
  /\ Platforms \subseteq BOOLEAN
  /\ Reuse \in Nat \ {0} /\ MaxClock \in Nat /\ MaxEdits \in Nat /\ MaxAsks \in Nat
  /\ Nil \notin Item \cup Site \cup Host \cup Acceptance \cup Maker

VARIABLES
  clock, edits, asks,
  origin,   \* the origin's items: Nil or a Row; with its secret in the row
  boxFile,  \* replica.box: the rows the last flush sealed
  host,     \* a host process: Nil or a Process
  req,      \* the message a host is at: Nil or a Request
  accepted, \* history: what the human last accepted on a host, and when
  maker     \* history: the host process and the site an item was made for

vars == <<clock, edits, asks, origin, boxFile, host, req, accepted, maker>>

\* A row's one-time-password seed: none, the owner's, or one a page offered.
Row   == [sites : SUBSET Site, archived : BOOLEAN, seed : {"none", "owner", "page"}]
Rows  == [Item -> Row \cup {Nil}]
NoRows == [i \in Item |-> Nil]

Process == [sealed : BOOLEAN,           \* h.Replica is attached
            rows : Rows,                \* Vault.rows
            index : Rows \cup {Nil},    \* h.index; Nil while indexOK is false
            window : [site : Site, until : Nat] \cup {Nil}, \* confirmScope, confirmUntil
            needLogin : BOOLEAN,
            made : [site : Site, item : Item] \cup {Nil}]   \* lastScope, lastUUID

Request == [op : Ops \cup {"attach"}, site : Site \cup {Nil},
            uuid : Item \cup {Nil},     \* the item the browser or the match names
            stage : {"pull", "put", "index", "match", "envelope", "ask",
                     "prompt", "unlock", "create", "attach", "passkey", "fetch", "give"},
            pulled : Rows,              \* rows of the sync answer still to put
            asked : BOOLEAN,            \* history: prompted in this request
            passed : 0 .. MaxClock]     \* history: when confirm let it pass

TypeOK ==
  /\ clock \in 0 .. MaxClock /\ edits \in 0 .. MaxEdits /\ asks \in 0 .. MaxAsks
  /\ origin \in Rows /\ boxFile \in Rows
  /\ host \in [Host -> Process \cup {Nil}]
  /\ req \in [Host -> Request \cup {Nil}]
  /\ accepted \in [Host -> Acceptance \cup {Nil}]
  /\ maker \in [Item -> Maker \cup {Nil}]

Present(rows) == {i \in Item : rows[i] # Nil}

\* h.Replica.Len() > 0
Warm(h) == Present(host[h].rows) # {}

\* loginNeeded: a warm replica hides a dead token.
LoginNeeded(h) == ~ Warm(h) /\ host[h].needLogin

Serving(h, stage) == host[h] # Nil /\ req[h] # Nil /\ req[h].stage = stage

HostSet(h, process) == host' = [host EXCEPT ![h] = process]
Go(h, stage)        == req' = [req EXCEPT ![h].stage = stage]
Reply(h)            == req' = [req EXCEPT ![h] = Nil]

NewRequest(op, s, uuid, stage) ==
  [op |-> op, site |-> s, uuid |-> uuid, stage |-> stage, pulled |-> NoRows,
   asked |-> FALSE, passed |-> 0]

Elsewhere == UNCHANGED <<clock, edits, asks, accepted, maker>>

-----------------------------------------------------------------------------
(* The host and its messages.                                              *)

\* fill.NewOrigin and attachFillReplica: without the replica key, or with a
\* box that does not open, the host works without a replica.
Launch(h) ==
  /\ host[h] = Nil
  /\ asks < MaxAsks /\ asks' = asks + 1
  /\ \E sealed \in Platforms :
       /\ host' = [host EXCEPT ![h] =
            [sealed |-> sealed, rows |-> IF sealed THEN boxFile ELSE NoRows,
             index |-> Nil, window |-> Nil, needLogin |-> FALSE, made |-> Nil]]
       /\ req' = [req EXCEPT ![h] =
            IF sealed THEN NewRequest("attach", Nil, Nil, "pull") ELSE Nil]
  /\ UNCHANGED <<clock, edits, origin, boxFile, accepted, maker>>

\* The browser closes the port, or the process dies: what is in memory is
\* gone, and so is its claim on the items it has made.
Stop(h) ==
  /\ host[h] # Nil
  /\ host' = [host EXCEPT ![h] = Nil]
  /\ Reply(h)
  /\ maker' = [i \in Item |-> IF maker[i] # Nil /\ maker[i].host = h THEN Nil
                              ELSE maker[i]]
  /\ accepted' = [accepted EXCEPT ![h] = Nil]
  /\ UNCHANGED <<clock, edits, asks, origin, boxFile>>

\* createdFor: the item this process made last, if the site is the one it
\* was made for.
CreatedFor(h, s) ==
  IF host[h].made # Nil /\ host[h].made.site = s THEN host[h].made.item ELSE Nil

\* The first stage of a message: a ping pulls, the rest looks into the index;
\* a passkey is asked for at once, and keepassxc-browser's messages are
\* answered by the origin before anyone is asked.
FirstStage(h, op) ==
  CASE op = "ping" /\ host[h].sealed -> "pull"
    [] op = "passkey"                -> "ask"
    [] op \in {"logins", "code"}     -> "fetch"
    [] OTHER                         -> "index"

\* Serve reads the next message.  An enrolment for a site nothing was made
\* for is told to choose at once.
Receive(h, op, s, uuid) ==
  /\ host[h] # Nil /\ req[h] = Nil
  /\ asks < MaxAsks /\ asks' = asks + 1
  /\ op = "enroll" => CreatedFor(h, s) # Nil
  /\ req' = [req EXCEPT ![h] =
       NewRequest(op, s, IF op = "enroll" THEN CreatedFor(h, s) ELSE uuid,
                  FirstStage(h, op))]
  /\ UNCHANGED <<clock, edits, origin, boxFile, host, accepted, maker>>

-----------------------------------------------------------------------------
(* A call of the origin.                                                   *)

\* "ok": 2xx; "down": no answer, or one that is neither 2xx nor 401; "login":
\* no token, or 401 without a new one or with it; "lost": the origin has done
\* what it was asked, and the host never hears of it.  Each of them may have
\* come after a first 401 and a token minted anew.
Answers == [got : {"ok", "down", "login", "lost"}, reminted : BOOLEAN]

Heard(answer) == answer.got = "ok"
Done(answer)  == answer.got \in {"ok", "lost"}

\* What the call leaves in the host, whatever it was for: a new token drops
\* the index, a success clears needLogin.
CallEffect(h, answer) ==
  [host[h] EXCEPT !.index = IF answer.reminted THEN Nil ELSE @,
                  !.needLogin = IF answer.got \in {"down", "lost"} THEN @
                                ELSE answer.got = "login"]

\* ItemsForPrincipal for the owner: the items that are not archived.
Listed == [i \in Item |-> IF origin[i] # Nil /\ ~ origin[i].archived
                          THEN origin[i] ELSE Nil]

-----------------------------------------------------------------------------
(* PullReplica: one answer, put row by row, each Put sealing the whole box.*)

\* FillSync reads the list and then each secret: an item deleted in between
\* fails the whole answer ("down").
Pull(h) ==
  /\ Serving(h, "pull")
  /\ \E answer \in Answers :
       /\ HostSet(h, CallEffect(h, answer))
       /\ req' = [req EXCEPT ![h].stage = IF Heard(answer) THEN "put" ELSE "index",
                             ![h].pulled = IF Heard(answer) THEN Listed ELSE NoRows]
  /\ Elsewhere /\ UNCHANGED <<origin, boxFile>>

\* Vault.Put: the row replaces the one of its id or is appended, and the box
\* is sealed, written beside the old one and renamed over it.
Put(h, i) ==
  /\ Serving(h, "put") /\ req[h].pulled[i] # Nil
  /\ LET rows == [host[h].rows EXCEPT ![i] = req[h].pulled[i]] IN
     /\ HostSet(h, [host[h] EXCEPT !.rows = rows])
     /\ boxFile' = rows
  /\ req' = [req EXCEPT ![h].pulled[i] = Nil]
  /\ Elsewhere /\ UNCHANGED origin

\* Mutant: a row whose box cannot be written stays in memory.
PutFailsKeeps(h) ==
  /\ Serving(h, "put")
  /\ \E i \in Present(req[h].pulled) :
       HostSet(h, [host[h] EXCEPT !.rows[i] = req[h].pulled[i]])
  /\ req' = [req EXCEPT ![h].pulled = NoRows, ![h].stage = "index"]
  /\ Elsewhere /\ UNCHANGED <<origin, boxFile>>

\* The flush fails: the rows in memory are what they were, the rest of the
\* answer is dropped and the index is not.
PutFails(h) ==
  /\ Serving(h, "put") /\ Present(req[h].pulled) # {}
  /\ req' = [req EXCEPT ![h].pulled = NoRows, ![h].stage = "index"]
  /\ Elsewhere /\ UNCHANGED <<origin, boxFile, host>>

PutDone(h) ==
  /\ Serving(h, "put") /\ Present(req[h].pulled) = {}
  /\ HostSet(h, [host[h] EXCEPT !.index = Nil])
  /\ Go(h, "index")
  /\ Elsewhere /\ UNCHANGED <<origin, boxFile>>

-----------------------------------------------------------------------------
(* ensureIndex and the match.                                              *)

\* PullReplica at attach ends here; a ping ends once the index is there.
AfterIndex(h) == IF req[h].op \in {"attach", "ping"} THEN Reply(h) ELSE Go(h, "match")

\* The index is kept until something drops it: it is not read again for each
\* match.  A warm replica is the index; otherwise the origin lists it.
IndexKept(h) ==
  /\ Serving(h, "index")
  /\ host[h].index # Nil \/ req[h].op = "attach"
  /\ AfterIndex(h)
  /\ Elsewhere /\ UNCHANGED <<origin, boxFile, host>>

IndexFromReplica(h) ==
  /\ Serving(h, "index") /\ req[h].op # "attach"
  /\ host[h].index = Nil /\ Warm(h)
  /\ HostSet(h, [host[h] EXCEPT !.index = host[h].rows])
  /\ AfterIndex(h)
  /\ Elsewhere /\ UNCHANGED <<origin, boxFile>>

IndexFromOrigin(h) ==
  /\ Serving(h, "index") /\ req[h].op # "attach"
  /\ host[h].index = Nil /\ ~ Warm(h)
  /\ \E answer \in Answers :
       HostSet(h, IF Heard(answer)
                  THEN [CallEffect(h, answer) EXCEPT !.index = Listed]
                  ELSE CallEffect(h, answer))
  /\ AfterIndex(h)
  /\ Elsewhere /\ UNCHANGED <<origin, boxFile>>

Indexed(h) == IF host[h].index = Nil THEN NoRows ELSE host[h].index

\* jsonMatch: not archived and listing the site; a card without sites fits all.
Matches(h, s) ==
  {i \in Present(Indexed(h)) :
     /\ ~ Indexed(h)[i].archived
     /\ s \in Indexed(h)[i].sites \/ (i \in Cards /\ Indexed(h)[i].sites = {})}

\* Mutant: any item of the index will do, whichever site it was made for.
EnrollTargetAnySite(h) ==
  {i \in Present(Indexed(h)) \ Cards : ~ Indexed(h)[i].archived}

\* enrollTarget: the item that was made, if the index knows it as a login of
\* the site that has no seed yet.
EnrollTarget(h) ==
  {i \in Matches(h, req[h].site) \ Cards :
     i = req[h].uuid /\ Indexed(h)[i].seed = "none"}

\* The item a fill is for: the one it names, or the only match if that is a
\* login.
FillHits(h) ==
  LET m == Matches(h, req[h].site) IN
  IF req[h].uuid # Nil THEN m \cap {req[h].uuid}
  ELSE IF Cardinality(m) = 1 THEN m \ Cards ELSE {}

Unchanged == Elsewhere /\ UNCHANGED <<origin, boxFile, host>>

MatchAnswered(h) ==
  /\ Serving(h, "match") /\ req[h].op = "match"
  /\ Reply(h)
  /\ Unchanged

\* A fill without a hit is empty.
MatchFill(h) ==
  /\ Serving(h, "match") /\ req[h].op = "fill"
  /\ \/ FillHits(h) = {} /\ Reply(h)
     \/ \E i \in FillHits(h) :
          req' = [req EXCEPT ![h].uuid = i,
                             ![h].stage = IF i \in Cards THEN "envelope" ELSE "ask"]
  /\ Unchanged

\* A generate or a save where a login matches is told to choose; need_login
\* comes first.
MatchMake(h) ==
  /\ Serving(h, "match") /\ req[h].op \in {"generate", "save"}
  /\ IF LoginNeeded(h) \/ Matches(h, req[h].site) \ Cards # {}
     THEN Reply(h) ELSE Go(h, "ask")
  /\ Unchanged

MatchEnroll(h) ==
  /\ Serving(h, "match") /\ req[h].op = "enroll"
  /\ IF LoginNeeded(h) \/ EnrollTarget(h) = {} THEN Reply(h)
     ELSE \E i \in EnrollTarget(h) :
            req' = [req EXCEPT ![h].uuid = i, ![h].stage = "ask"]
  /\ Unchanged

\* A card is read from the origin, or else from the replica, before it is
\* asked for: a card nobody has ends the fill without a prompt.
Envelope(h) ==
  /\ Serving(h, "envelope")
  /\ \E answer \in Answers :
       /\ HostSet(h, CallEffect(h, answer))
       /\ IF \/ Heard(answer) /\ Listed[req[h].uuid] # Nil
             \/ host[h].rows[req[h].uuid] # Nil
          THEN Go(h, "ask") ELSE Reply(h)
  /\ Elsewhere /\ UNCHANGED <<origin, boxFile>>

\* What keepassxc-browser asks for: every login of the site, opened, or the
\* code of the item it names.
OpenedAtOrigin(h) ==
  {i \in Present(Listed) \ Cards :
     IF req[h].op = "logins" THEN req[h].site \in Listed[i].sites
     ELSE i = req[h].uuid /\ Listed[i].seed # "none"}

\* It is told nothing, unasked, if there is nothing, or if it is not associated.
Fetch(h) ==
  /\ Serving(h, "fetch")
  /\ \E answer \in Answers :
       /\ HostSet(h, CallEffect(h, answer))
       /\ \/ Reply(h)
          \/ Heard(answer) /\ OpenedAtOrigin(h) # {} /\ Go(h, "ask")
  /\ Elsewhere /\ UNCHANGED <<origin, boxFile>>

-----------------------------------------------------------------------------
(* Host.confirm.                                                           *)

\* A card with a CVV, a save and an enrolment are asked for each time.
Reusable(h) == ~ (req[h].op \in {"save", "enroll"} \/
                  (req[h].op = "fill" /\ req[h].uuid \in Cards))

AfterConfirm(h) ==
  CASE req[h].op \in {"generate", "save"} -> "create"
    [] req[h].op = "enroll"               -> "attach"
    [] req[h].op = "passkey"              -> "passkey"
    [] req[h].op \in {"logins", "code"}   -> "give"
    [] OTHER                              -> "unlock"

\* What is confirmed: the site of the request.  A code has none and takes that
\* of the window (lastConfirmScope), open or not.
Scope(h) == IF req[h].op # "code" THEN req[h].site
            ELSE IF host[h].window = Nil THEN Nil ELSE host[h].window.site

WindowOpen(h) ==
  /\ Reusable(h) /\ host[h].window # Nil
  /\ host[h].window.site = Scope(h)
  /\ clock < host[h].window.until

Ask(h) ==
  /\ Serving(h, "ask")
  /\ req' = IF WindowOpen(h)
            THEN [req EXCEPT ![h].stage = AfterConfirm(h), ![h].passed = clock]
            ELSE [req EXCEPT ![h].stage = "prompt"]
  /\ Elsewhere /\ UNCHANGED <<origin, boxFile, host>>

\* The window starts when the human has answered.
Accept(h) ==
  /\ Serving(h, "prompt")
  /\ HostSet(h, [host[h] EXCEPT !.window =
                   IF Reusable(h) /\ Scope(h) # Nil
                   THEN [site |-> Scope(h), until |-> clock + Reuse] ELSE Nil])
  /\ req' = [req EXCEPT ![h].stage = AfterConfirm(h), ![h].asked = TRUE,
                      ![h].passed = clock]
  /\ accepted' = [accepted EXCEPT ![h] = [site |-> Scope(h), at |-> clock]]
  /\ UNCHANGED <<clock, edits, asks, origin, boxFile, maker>>

\* Mutant: a refusal leaves the earlier window open.
DenyKeepsWindow(h) ==
  /\ Serving(h, "prompt")
  /\ Reply(h)
  /\ accepted' = [accepted EXCEPT ![h] = Nil]
  /\ UNCHANGED <<clock, edits, asks, origin, boxFile, host, maker>>

\* A refusal, or no Confirm attached: the request is empty or canceled.
Deny(h) ==
  /\ Serving(h, "prompt")
  /\ HostSet(h, [host[h] EXCEPT !.window = Nil])
  /\ Reply(h)
  /\ accepted' = [accepted EXCEPT ![h] = Nil]
  /\ UNCHANGED <<clock, edits, asks, origin, boxFile, maker>>

-----------------------------------------------------------------------------
(* What follows an acceptance.                                             *)

\* A login of the replica is opened there, a card has been read; anything
\* else is decrypted by the origin, for an item it still lists.
UnlockLocal(h) ==
  /\ Serving(h, "unlock")
  /\ req[h].uuid \in Cards \/ host[h].rows[req[h].uuid] # Nil
  /\ Reply(h)
  /\ Elsewhere /\ UNCHANGED <<origin, boxFile, host>>

UnlockAtOrigin(h) ==
  /\ Serving(h, "unlock")
  /\ req[h].uuid \notin Cards /\ host[h].rows[req[h].uuid] = Nil
  /\ \E answer \in Answers : HostSet(h, CallEffect(h, answer))
  /\ Reply(h)
  /\ Elsewhere /\ UNCHANGED <<origin, boxFile>>

\* What the host knows after it has made item i: the index no longer holds.
Remember(h, i, answer) ==
  IF Heard(answer)
  THEN [CallEffect(h, answer) EXCEPT !.index = Nil,
                                     !.made = [site |-> req[h].site, item |-> i]]
  ELSE CallEffect(h, answer)

\* createGeneratedLogin: POST /v1/items mints an id.
Create(h, i) ==
  /\ Serving(h, "create")
  /\ origin[i] = Nil /\ maker[i] = Nil /\ i \notin Cards
  /\ \E answer \in Answers :
       /\ HostSet(h, Remember(h, i, answer))
       /\ origin' = IF Done(answer)
                    THEN [origin EXCEPT ![i] = [sites |-> {req[h].site},
                                                archived |-> FALSE, seed |-> "none"]]
                    ELSE origin
       /\ maker' = IF Done(answer)
                   THEN [maker EXCEPT ![i] = [host |-> h, site |-> req[h].site]]
                   ELSE maker
  /\ Reply(h)
  /\ UNCHANGED <<clock, edits, asks, boxFile, accepted>>

\* App.AttachTOTP: an item that has a seed keeps it.
MayAttach(i) == origin[i] # Nil /\ origin[i].seed = "none"

\* attachTOTP: a refusal of the origin is an error like any other.
Attach(h) ==
  /\ Serving(h, "attach")
  /\ LET i == req[h].uuid IN
     \E answer \in Answers :
       /\ Done(answer) => MayAttach(i)
       /\ HostSet(h, IF Heard(answer)
                     THEN [CallEffect(h, answer) EXCEPT !.index = Nil, !.made = Nil]
                     ELSE CallEffect(h, answer))
       /\ origin' = IF Done(answer) THEN [origin EXCEPT ![i].seed = "page"] ELSE origin
  /\ Reply(h)
  /\ Elsewhere /\ UNCHANGED boxFile

\* passkeyCreate and passkeyGet, at the origin; what is made there is of a kind
\* no other message of the host shows.
Passkey(h) ==
  /\ Serving(h, "passkey")
  /\ \E answer \in Answers : HostSet(h, CallEffect(h, answer))
  /\ Reply(h)
  /\ Elsewhere /\ UNCHANGED <<origin, boxFile>>

\* The logins or the code that were fetched are handed over.
Give(h) == Serving(h, "give") /\ Reply(h) /\ Unchanged

\* A step that does what the human was asked for.
Acts(h) ==
  \/ UnlockLocal(h) \/ UnlockAtOrigin(h) \/ Attach(h) \/ Passkey(h) \/ Give(h)
  \/ \E i \in Item : Create(h, i)

-----------------------------------------------------------------------------
(* The origin's other clients (the web vault, the owner's CLI).            *)

Edit ==
  /\ edits < MaxEdits /\ edits' = edits + 1
  /\ \E i \in Item :
       \/ /\ origin[i] = Nil /\ maker[i] = Nil
          /\ \E sites \in {{}} \cup {{s} : s \in Site} :
               origin' = [origin EXCEPT ![i] = [sites |-> sites, archived |-> FALSE,
                                                seed |-> "none"]]
       \/ /\ origin[i] # Nil
          /\ origin' \in {[origin EXCEPT ![i].archived = TRUE],
                          [origin EXCEPT ![i].seed = "owner"],
                          [origin EXCEPT ![i] = Nil]}
  /\ UNCHANGED <<clock, asks, boxFile, host, req, accepted, maker>>

Tick ==
  /\ clock < MaxClock
  /\ clock' = clock + 1
  /\ UNCHANGED <<edits, asks, origin, boxFile, host, req, accepted, maker>>

Init ==
  /\ clock = 0 /\ edits = 0 /\ asks = 0
  /\ origin \in [Item -> [sites : {{s} : s \in Site}, archived : {FALSE},
                          seed : {"none"}] \cup {Nil}]
  /\ \A i \in Fresh : origin[i] = Nil
  /\ boxFile = NoRows
  /\ host = [h \in Host |-> Nil]
  /\ req = [h \in Host |-> Nil]
  /\ accepted = [h \in Host |-> Nil]
  /\ maker = [i \in Item |-> Nil]

HostStep(h) ==
  \/ Launch(h) \/ Stop(h)
  \/ \E op \in Ops \ {"code"}, s \in Site : Receive(h, op, s, Nil)
  \/ \E s \in Site, i \in Item : "fill" \in Ops /\ Receive(h, "fill", s, i)
  \/ \E i \in Item : "code" \in Ops /\ Receive(h, "code", Nil, i)
  \/ Pull(h) \/ PutFails(h) \/ PutDone(h) \/ \E i \in Item : Put(h, i)
  \/ IndexKept(h) \/ IndexFromReplica(h) \/ IndexFromOrigin(h)
  \/ MatchAnswered(h) \/ MatchFill(h) \/ MatchMake(h) \/ MatchEnroll(h)
  \/ Envelope(h) \/ Fetch(h) \/ Ask(h) \/ Accept(h) \/ Deny(h)
  \/ UnlockLocal(h) \/ UnlockAtOrigin(h) \/ Passkey(h) \/ Give(h)
  \/ Attach(h) \/ \E i \in Item : Create(h, i)

Next == (\E h \in Host : HostStep(h)) \/ Edit \/ Tick

Spec == Init /\ [][Next]_vars

-----------------------------------------------------------------------------
(* Properties.                                                             *)

\* With one host, the sealed box and the rows the host fills from agree at
\* every step, so a host stopped anywhere comes back with what it had: a Put
\* that cannot be written is undone in memory (replica.Vault.Put).
BoxIsMemory ==
  \A h \in Host : host[h] # Nil /\ host[h].sealed => host[h].rows = boxFile

\* A host without a sealed replica that has made a login never matches against
\* an index that lacks it, so it does not make a second one for the page
\* (invalidateIndex after each create, whatever was indexed before).
KnowsWhatItMade ==
  \A h \in Host :
    host[h] # Nil /\ ~ host[h].sealed /\ host[h].index # Nil /\ host[h].made # Nil =>
      LET i == host[h].made.item IN
      origin[i] # Nil /\ ~ origin[i].archived => host[h].index[i] # Nil

FillInv == TypeOK /\ BoxIsMemory /\ KnowsWhatItMade

\* A secret or a passkey is opened for a page, a login made or a seed put in only
\* if the human accepted on this host, last, for that very site (any site for a
\* code that keepassxc-browser asks for: it takes the window's), less than confirmReuse
\* before the request passed; and what is never reused (a card with a CVV, a
\* save, a seed) only if it was prompted for in the same request (Host.confirm
\* with its callers: window, index and replica change in between).
ActsAreAccepted ==
  [][\A h \in Host : Acts(h) =>
       /\ accepted[h] # Nil
       /\ accepted[h].site = req[h].site \/ req[h].op = "code"
       /\ req[h].passed - accepted[h].at < Reuse
       /\ Reusable(h) \/ req[h].asked]_vars

\* A seed a page offers gets only into a login this host process made for that
\* page's site, and only if it has no seed: never over the owner's
\* (createdFor, enrollTarget on an index that may be old, App.AttachTOTP).
EnrollsItsOwn ==
  [][\A i \in Item :
       origin'[i] # Nil /\ origin'[i].seed = "page" /\ origin'[i] # origin[i] =>
         /\ origin[i] # Nil
         /\ origin[i].seed = "none" \/ origin[i].seed = origin'[i].seed
         /\ origin[i].seed = "none" =>
              \E h \in Host : /\ maker[i] = [host |-> h, site |-> req[h].site]
                             /\ req[h].asked]_vars

=============================================================================
