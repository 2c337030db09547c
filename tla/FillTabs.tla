------------------------------- MODULE FillTabs -------------------------------
(***************************************************************************)
(* The browser extension (apps/fill): the background worker, its tabs and  *)
(* its one port to the native host.  The host answers in the order it is   *)
(* asked, and an answer names no question: the worker keeps its askers in  *)
(* a queue (waiters) and gives each answer to the first.  An asker that    *)
(* runs out of time leaves the queue, while the host still answers.        *)
(*                                                                         *)
(*   visit            match                                                *)
(*   focus            [match -> badge] -> prime -> fill -> write           *)
(*   focus (new)      [match -> badge] -> generate -> write -> match       *)
(*   list             match -> badge -> the popup                          *)
(*   click            prime -> fill -> write                               *)
(*   suggest          generate -> write -> match                           *)
(*   keep             [typed] -> save -> match                             *)
(*   enroll, passkey  one question each                                    *)
(*                                                                         *)
(* A page is the site of its URL; the vault is what the host answers from. *)
(* The badge, the tab opened for a login and the ping of the start, whose  *)
(* answer nobody reads, are left out.                                      *)
(***************************************************************************)
EXTENDS Integers, Sequences, SequencesExt

CONSTANTS Tab, Site, Item,
          Vaults,     \* the sites of the items a vault has at first, Nil for no item
          Everywhere, \* in place of a site: the item is a card, which fits every page
          Calls,      \* bound: chains of promises of the worker at a time
          Kinds,      \* the calls a run lets start
          MaxCalls,   \* bound: calls of a behaviour
          MaxMoves,   \* bound: navigations, closed tabs and typed passwords
          MaxFaults,  \* bound: hosts and workers that go
          Nil

ASSUME TabsAssumption ==
  /\ Kinds \subseteq {"visit", "focus", "focusNew", "list", "click", "suggest",
                      "keep", "enroll", "passkey"}
  /\ Vaults \subseteq [Item -> Site \cup {Everywhere, Nil}]
  /\ Calls \in Nat \ {0} /\ MaxCalls \in Nat /\ MaxMoves \in Nat /\ MaxFaults \in Nat
  /\ Nil \notin Tab \cup Site \cup Item \cup {Everywhere} /\ Everywhere \notin Site

VARIABLES
  calls, moves, faults,
  page,        \* the site a tab shows; Nil when the tab is closed
  vault,       \* the host's items: Nil or [site, typed, from]
  port,        \* "none", "open", or "dead": the host is gone, the worker not told
  queue,       \* what the host has still to answer
  waiters,     \* who waits for an answer
  sends,       \* history: messages of this worker
  late,        \* history: the host owes an answer whose asker has left
  call,        \* Nil or a call of the worker
  matches,     \* the last match of a tab
  pendingSave, \* the submitted password the popup may keep
  lastPage,    \* the tab a fill falls back to
  popup        \* what the popup lists

vars == <<calls, moves, faults, page, vault, port, queue, waiters, sends, late,
          call, matches, pendingSave, lastPage, popup>>

Call     == 1 .. Calls
Listing  == [site : Site, hits : SUBSET Item]
Password == [tab : Tab, site : Site]   \* where it was typed

\* A message: for whom it asks, and what a save keeps.
Message == [id : Nat, op : {"match", "fill", "generate", "save", "enroll", "passkey"},
            site : Site, uuid : Item \cup {Nil}, from : Tab,
            password : Password \cup {Nil}]

\* An entry in hand: secret is FALSE for one a match answered; inOrder is
\* history, whether the host owed no other answer when it came.
Entry == [item : Item, secret : BOOLEAN, inOrder : BOOLEAN]

Stages == {"match", "badge", "prime", "fill", "generate", "write", "typed", "save",
           "rematch", "enroll", "passkey"}

CallRecord == [kind : Kinds, tab : Tab, site : Site, stage : Stages,
               uuid : Item \cup {Nil}, hits : SUBSET Item, entry : Entry \cup {Nil}]

Waiter == [id : Nat, call : Call]

VaultRow == [site : Site \cup {Everywhere}, typed : Password \cup {Nil}, from : Tab \cup {Nil}]

\* Nothing at all is not a record.
ASSUME NilAssumption == Nil \notin Listing \cup Password \cup Entry \cup CallRecord \cup VaultRow

TypeOK ==
  /\ calls \in 0 .. MaxCalls /\ moves \in 0 .. MaxMoves /\ faults \in 0 .. MaxFaults
  /\ page \in [Tab -> Site \cup {Nil}]
  /\ vault \in [Item -> VaultRow \cup {Nil}]
  /\ port \in {"none", "open", "dead"}
  /\ queue \in Seq(Message) /\ waiters \in Seq(Waiter)
  /\ sends \in Nat /\ late \in BOOLEAN
  /\ call \in [Call -> CallRecord \cup {Nil}]
  /\ matches \in [Tab -> Listing \cup {Nil}]
  /\ pendingSave \in Password \cup {Nil}
  /\ lastPage \in Tab \cup {Nil}
  /\ popup \in [tab : Tab, site : Site, hits : SUBSET Item] \cup {Nil}

\* Only a page of http or https is matched, listed or filled.
Usable(t) == page[t] # Nil

\* tabByURL finds a tab that shows the URL.
Shows(t, s) == page[t] = s

Cards == {i \in Item : vault[i] # Nil /\ vault[i].site = Everywhere}

Logins(s) == {i \in Item : vault[i] # Nil /\ vault[i].site = s}

Fitting(s) == Logins(s) \cup Cards

-----------------------------------------------------------------------------
(* The port.                                                               *)

Ask(op, c, r, password) ==
  [id |-> sends + 1, op |-> op, site |-> r.site, uuid |-> r.uuid,
   from |-> r.tab, password |-> password]

\* hostSend in call c, which is then r.  The port is opened if there is none;
\* posting to a host that is gone throws, and the promise with it.
Send(c, r, op, password) ==
  /\ sends' = sends + 1
  /\ UNCHANGED late
  /\ IF port = "dead"
     THEN /\ call' = [call EXCEPT ![c] = Nil]
          /\ UNCHANGED <<port, queue, waiters>>
     ELSE /\ port' = "open"
          /\ queue' = Append(queue, Ask(op, c, r, password))
          /\ waiters' = Append(waiters, [id |-> sends + 1, call |-> c])
          /\ call' = [call EXCEPT ![c] = r]

PortKept == UNCHANGED <<port, queue, waiters, sends, late>>

End(c)    == call' = [call EXCEPT ![c] = Nil]
Go(c, stage) == call' = [call EXCEPT ![c].stage = stage]

\* The end of a save, whatever came of it: the pending password is wiped.
WipeAfter(c) == pendingSave' = IF call[c].kind = "keep" THEN Nil ELSE pendingSave

\* Mutant: the waiter leaves the queue and its promise is never settled.
TimeoutForgets(c) ==
  /\ \E k \in DOMAIN waiters :
       waiters[k].call = c /\ waiters' = RemoveAt(waiters, k)
  /\ late' = TRUE
  /\ UNCHANGED <<calls, moves, faults, page, vault, port, queue, sends, call, matches,
                 pendingSave, lastPage, popup>>

\* The timer of hostSend: the waiter leaves the queue, wherever it stands.
Timeout(c) ==
  /\ \E k \in DOMAIN waiters :
       waiters[k].call = c /\ waiters' = RemoveAt(waiters, k)
  /\ late' = TRUE
  /\ End(c) /\ WipeAfter(c)
  /\ UNCHANGED <<calls, moves, faults, page, vault, port, queue, sends, matches, lastPage, popup>>

\* The host dies: what it has not answered it never will.
HostGone ==
  /\ port = "open"
  /\ faults < MaxFaults /\ faults' = faults + 1
  /\ port' = "dead" /\ queue' = <<>>
  /\ UNCHANGED <<calls, moves, page, vault, waiters, sends, late, call, matches,
                 pendingSave, lastPage, popup>>

Rejected == {waiters[k].call : k \in DOMAIN waiters}

\* Mutant: those who wait are left to their timers.
DisconnectKeepsWaiters ==
  /\ port = "dead"
  /\ port' = "none" /\ late' = FALSE
  /\ UNCHANGED <<calls, moves, faults, page, vault, queue, waiters, sends, call, matches,
                 pendingSave, lastPage, popup>>

\* onDisconnect: everyone who waits is told.
Disconnect ==
  /\ port = "dead"
  /\ port' = "none" /\ waiters' = <<>> /\ late' = FALSE
  /\ call' = [c \in Call |-> IF c \in Rejected THEN Nil ELSE call[c]]
  /\ pendingSave' = IF \E c \in Rejected : call[c].kind = "keep" THEN Nil ELSE pendingSave
  /\ UNCHANGED <<calls, moves, faults, page, vault, queue, sends, matches, lastPage, popup>>

\* The browser stops the worker: only lastPage is stored.
WorkerGone ==
  /\ faults < MaxFaults /\ faults' = faults + 1
  /\ port' = "none" /\ queue' = <<>> /\ waiters' = <<>> /\ late' = FALSE
  /\ call' = [c \in Call |-> Nil]
  /\ matches' = [t \in Tab |-> Nil]
  /\ pendingSave' = Nil
  /\ UNCHANGED <<calls, moves, page, vault, sends, lastPage, popup>>

-----------------------------------------------------------------------------
(* The host's answers (Host.handleJSON), as far as the worker reads them:  *)
(* entries, with secrets in a fill's; the password of a generate; the uuid *)
(* of what was made.  A refusal, an error or need_login is the empty one.  *)

Empty == [hits |-> {}, secrets |-> FALSE, password |-> Nil, uuid |-> Nil]

MadeFor(m) == [site |-> m.site, typed |-> m.password,
               from |-> IF m.op = "save" THEN m.from ELSE Nil]

\* Mutant: a fill is answered with the item it names, whatever its site.
OutcomesUnchecked(m) ==
  {[answer |-> Empty, made |-> Nil]} \cup
  CASE m.op = "match" ->
         {[answer |-> [Empty EXCEPT !.hits = Fitting(m.site)], made |-> Nil]}
    [] m.op = "fill" ->
         {[answer |-> [Empty EXCEPT !.hits = {m.uuid}, !.secrets = TRUE], made |-> Nil]}
    [] OTHER -> {}

\* What message m may be answered, and what the vault is then.
Outcomes(m) ==
  {[answer |-> Empty, made |-> Nil]} \cup
  CASE m.op = "match" ->
         {[answer |-> [Empty EXCEPT !.hits = Fitting(m.site)], made |-> Nil]}
    [] m.op = "fill" ->
         {[answer |-> [Empty EXCEPT !.hits = {i}, !.secrets = TRUE], made |-> Nil] :
            i \in Fitting(m.site) \cap {m.uuid}}
    [] m.op \in {"generate", "save"} ->
         {[answer |-> [Empty EXCEPT !.uuid = i,
                                    !.password = IF m.op = "generate" THEN i ELSE Nil],
           made |-> i] :
            i \in {j \in Item : vault[j] = Nil /\ Logins(m.site) = {}}}
    [] m.op = "enroll" ->
         {[answer |-> [Empty EXCEPT !.uuid = i], made |-> Nil] : i \in Logins(m.site)}
    [] OTHER -> {}

-----------------------------------------------------------------------------
(* What a call does with the answer it is given, its own or another's.     *)

Remembered(r, answer) == [matches EXCEPT ![r.tab] = [site |-> r.site, hits |-> answer.hits]]

\* matchTab: the answer is the tab's match under the URL of this call.
TakesMatch(c, answer) ==
  LET r == call[c] IN
  /\ r.stage \in {"match", "rematch"}
  /\ matches' = Remembered(r, answer)
  /\ IF r.kind = "visit" \/ r.stage = "rematch" THEN End(c)
     ELSE call' = [call EXCEPT ![c].stage = "badge", ![c].hits = answer.hits]
  /\ WipeAfter(c)

\* fillTab: the first entry is written, if there is one.
TakesFill(c, answer) ==
  /\ call[c].stage = "fill"
  /\ IF answer.hits = {} THEN End(c)
     ELSE \E i \in answer.hits :
            call' = [call EXCEPT ![c].stage = "write",
                                 ![c].entry = [item |-> i, secret |-> answer.secrets,
                                               inOrder |-> ~ late]]
  /\ UNCHANGED <<matches, pendingSave>>

\* generateTab: the password is written, if there is one.
TakesGenerated(c, answer) ==
  /\ call[c].stage = "generate"
  /\ IF answer.password = Nil THEN End(c)
     ELSE call' = [call EXCEPT ![c].stage = "write",
                               ![c].entry = [item |-> answer.password, secret |-> TRUE,
                                             inOrder |-> ~ late]]
  /\ UNCHANGED <<matches, pendingSave>>

\* What call c is to ask next in the same step, if anything.
AsksOn(c, answer) == call[c].stage \in {"save", "enroll"} /\ answer.uuid # Nil

\* A passkey's answer goes to the page; a save or an enrolment that failed ends.
TakesLast(c, answer) ==
  /\ call[c].stage \in {"save", "enroll", "passkey"}
  /\ End(c) /\ WipeAfter(c)
  /\ UNCHANGED matches

\* The host answers the first message; the first waiter gets it.  An answer
\* nobody waits for is dropped, and an empty queue owes nothing.
Answer ==
  /\ port = "open" /\ queue # <<>>
  /\ \E o \in Outcomes(Head(queue)) :
       /\ vault' = IF o.made = Nil THEN vault
                   ELSE [vault EXCEPT ![o.made] = MadeFor(Head(queue))]
       /\ IF waiters = <<>>
          THEN /\ queue' = Tail(queue) /\ late' = (late /\ Len(queue) > 1)
               /\ UNCHANGED <<waiters, sends, call, matches, pendingSave>>
          ELSE LET c == Head(waiters).call
                   next == [call[c] EXCEPT !.stage = "rematch"]
               IN IF AsksOn(c, o.answer)
                  THEN /\ queue' = Append(Tail(queue), Ask("match", c, next, Nil))
                       /\ waiters' = Append(Tail(waiters), [id |-> sends + 1, call |-> c])
                       /\ sends' = sends + 1 /\ late' = (late /\ Len(queue) > 1)
                       /\ call' = [call EXCEPT ![c] = next]
                       /\ UNCHANGED <<matches, pendingSave>>
                  ELSE /\ queue' = Tail(queue) /\ waiters' = Tail(waiters)
                       /\ late' = (late /\ Len(queue) > 1)
                       /\ UNCHANGED sends
                       /\ \/ TakesMatch(c, o.answer) \/ TakesFill(c, o.answer)
                          \/ TakesGenerated(c, o.answer) \/ TakesLast(c, o.answer)
  /\ UNCHANGED <<calls, moves, faults, page, port, lastPage, popup>>

-----------------------------------------------------------------------------
(* The steps of a call between two questions.                              *)

Between == UNCHANGED <<calls, moves, faults, page, vault, matches, pendingSave, lastPage>>

\* executeTab once the match is there: it reads the tab's match again, which
\* another call may have replaced.  A login in it stops a generate; of a focus,
\* anything but one login opens the popup.
Decide(c) ==
  /\ call[c] # Nil /\ call[c].stage = "badge" /\ call[c].kind \in {"focus", "focusNew"}
  /\ LET hits == IF matches[call[c].tab] = Nil THEN {} ELSE matches[call[c].tab].hits
         r == call[c]
     IN \/ /\ r.kind = "focus"
           /\ \/ \E i \in hits \ Cards :
                   /\ hits = {i}
                   /\ call' = [call EXCEPT ![c].stage = "prime", ![c].uuid = i]
              \/ (\A i \in hits \ Cards : hits # {i}) /\ End(c)
           /\ PortKept
        \/ /\ r.kind = "focusNew" /\ hits \ Cards # {}
           /\ End(c) /\ PortKept
        \/ /\ r.kind = "focusNew" /\ hits \subseteq Cards
           /\ Send(c, [r EXCEPT !.stage = "generate"], "generate", Nil)
  /\ Between /\ UNCHANGED popup

\* popup-list: the popup shows what this call's own match answered.
List(c) ==
  /\ call[c] # Nil /\ call[c].stage = "badge" /\ call[c].kind = "list"
  /\ popup' = [tab |-> call[c].tab, site |-> call[c].site, hits |-> call[c].hits]
  /\ End(c) /\ PortKept /\ Between

\* fillTab, its scripts in the page.
Prime(c) ==
  /\ call[c] # Nil /\ call[c].stage = "prime"
  /\ Send(c, [call[c] EXCEPT !.stage = "fill"], "fill", Nil)
  /\ Between /\ UNCHANGED popup

\* writeTab: into the tab, whatever it shows by now.  After a generate the tab
\* is matched again.
Write(c) ==
  /\ call[c] # Nil /\ call[c].stage = "write"
  /\ IF call[c].kind \in {"focusNew", "suggest"}
     THEN Send(c, [call[c] EXCEPT !.stage = "rematch", !.entry = Nil], "match", Nil)
     ELSE End(c) /\ PortKept
  /\ Between /\ UNCHANGED popup

\* popup-save without a pending password asks the page for what is typed; an
\* empty one is not sent.
Typed(c) ==
  /\ call[c] # Nil /\ call[c].stage = "typed"
  /\ \/ /\ page[call[c].tab] # Nil
        /\ Send(c, [call[c] EXCEPT !.stage = "save"], "save",
                [tab |-> call[c].tab, site |-> page[call[c].tab]])
        /\ pendingSave' = IF port = "dead" THEN Nil ELSE pendingSave
     \/ /\ End(c) /\ PortKept /\ WipeAfter(c)
  /\ UNCHANGED <<calls, moves, faults, page, vault, matches, lastPage, popup>>

-----------------------------------------------------------------------------
(* What starts a call.                                                     *)

NewCall(kind, t, s, stage, uuid) ==
  [kind |-> kind, tab |-> t, site |-> s, stage |-> stage, uuid |-> uuid,
   hits |-> {}, entry |-> Nil]

Free(c, kind) ==
  /\ kind \in Kinds /\ call[c] = Nil
  /\ \A d \in Call : call[d] = Nil => c <= d
  /\ calls < MaxCalls /\ calls' = calls + 1

Begun == UNCHANGED <<moves, faults, page, vault, matches, popup>>

\* tabs.onUpdated and onActivated; a page that loads in the background is not
\* the tab a fill falls back to.
Visit(c, t) ==
  /\ Free(c, "visit") /\ Usable(t)
  /\ lastPage' \in {lastPage, t}
  /\ Send(c, NewCall("visit", t, page[t], "match", Nil), "match", Nil)
  /\ Begun /\ UNCHANGED pendingSave

\* trusted-focus and the shortcut: executeTab, which keeps the match it has if
\* that is of the page's URL.
Focus(c, t, kind) ==
  /\ Free(c, kind) /\ Usable(t)
  /\ lastPage' = t
  /\ LET r == NewCall(kind, t, page[t], "match", Nil) IN
     IF matches[t] # Nil /\ matches[t].site = page[t]
     THEN call' = [call EXCEPT ![c] = [r EXCEPT !.stage = "badge"]] /\ PortKept
     ELSE Send(c, r, "match", Nil)
  /\ Begun /\ UNCHANGED pendingSave

\* fillTargetTab: the tab remembered, while it is open, or an open one.
Target(t) ==
  /\ Usable(t)
  /\ \A u \in Tab \ {t} : u = lastPage => ~ Usable(u)

OpenPopup(c, t) ==
  /\ Free(c, "list") /\ Target(t)
  /\ lastPage' = t
  /\ Send(c, NewCall("list", t, page[t], "match", Nil), "match", Nil)
  /\ Begun /\ UNCHANGED pendingSave

\* popup-fill: a tab that shows the listed URL, or else the target tab; the
\* URL stays the listed one.
Click(c, t, i) ==
  /\ Free(c, "click") /\ popup # Nil /\ i \in popup.hits
  /\ \/ Shows(t, popup.site) /\ UNCHANGED lastPage
     \/ /\ Target(t) /\ \A u \in Tab : ~ Shows(u, popup.site)
        /\ lastPage' = t
  /\ call' = [call EXCEPT ![c] = NewCall("click", t, popup.site, "prime", i)]
  /\ PortKept /\ Begun /\ UNCHANGED pendingSave

Suggest(c) ==
  /\ Free(c, "suggest") /\ popup # Nil
  /\ Send(c, NewCall("suggest", popup.tab, popup.site, "generate", Nil), "generate", Nil)
  /\ Begun /\ UNCHANGED <<pendingSave, lastPage>>

\* The pending password is the popup's tab's.
PendingOf(t) == pendingSave # Nil /\ pendingSave.tab = t

\* popup-save: the pending password of the tab, or what its page has typed.
Keep(c) ==
  /\ Free(c, "keep") /\ popup # Nil
  /\ LET r == NewCall("keep", popup.tab, popup.site, "save", Nil) IN
     IF PendingOf(popup.tab)
     THEN /\ Send(c, r, "save", pendingSave)
          /\ pendingSave' = IF port = "dead" THEN Nil ELSE pendingSave
     ELSE /\ call' = [call EXCEPT ![c] = [r EXCEPT !.stage = "typed"]]
          /\ PortKept /\ UNCHANGED pendingSave
  /\ Begun /\ UNCHANGED lastPage

\* found-otpauth: the page offers a seed.
Enroll(c, t) ==
  /\ Free(c, "enroll") /\ Usable(t)
  /\ Send(c, NewCall("enroll", t, page[t], "enroll", Nil), "enroll", Nil)
  /\ Begun /\ UNCHANGED <<pendingSave, lastPage>>

\* A page asks for a passkey of its own origin.
Passkey(c, t) ==
  /\ Free(c, "passkey") /\ Usable(t)
  /\ Send(c, NewCall("passkey", t, page[t], "passkey", Nil), "passkey", Nil)
  /\ Begun /\ UNCHANGED <<pendingSave, lastPage>>

-----------------------------------------------------------------------------
(* The browser and its human.                                              *)

Moved == moves < MaxMoves /\ moves' = moves + 1

Navigate(t, s) ==
  /\ Moved /\ page[t] # s
  /\ page' = [page EXCEPT ![t] = s]
  /\ UNCHANGED <<calls, faults, vault, call, matches, pendingSave, lastPage, popup>>
  /\ PortKept

\* tabs.onRemoved drops the tab's match; a match still on its way sets it again.
Close(t) ==
  /\ Moved /\ page[t] # Nil
  /\ page' = [page EXCEPT ![t] = Nil]
  /\ matches' = [matches EXCEPT ![t] = Nil]
  /\ UNCHANGED <<calls, faults, vault, call, pendingSave, lastPage, popup>>
  /\ PortKept

\* offer-save: a form is submitted with a password; the popup opens.
Submit(t) ==
  /\ Moved /\ page[t] # Nil
  /\ pendingSave' = [tab |-> t, site |-> page[t]]
  /\ UNCHANGED <<calls, faults, page, vault, call, matches, lastPage, popup>>
  /\ PortKept

Init ==
  /\ calls = 0 /\ moves = 0 /\ faults = 0
  /\ page \in [Tab -> Site]
  /\ \E site \in Vaults :
       vault = [i \in Item |-> IF site[i] = Nil THEN Nil
                               ELSE [site |-> site[i], typed |-> Nil, from |-> Nil]]
  /\ port = "none" /\ queue = <<>> /\ waiters = <<>> /\ sends = 0 /\ late = FALSE
  /\ call = [c \in Call |-> Nil]
  /\ matches = [t \in Tab |-> Nil]
  /\ pendingSave = Nil /\ lastPage = Nil /\ popup = Nil

Proceed(c) == Timeout(c) \/ Decide(c) \/ List(c) \/ Prime(c) \/ Write(c) \/ Typed(c)

Start(c) ==
  \/ Suggest(c) \/ Keep(c)
  \/ \E t \in Tab :
       \/ Visit(c, t) \/ OpenPopup(c, t)
       \/ \E kind \in {"focus", "focusNew"} : Focus(c, t, kind)
       \/ Enroll(c, t) \/ Passkey(c, t)
       \/ \E i \in Item : Click(c, t, i)

Next ==
  \/ Answer \/ HostGone \/ Disconnect \/ WorkerGone
  \/ \E c \in Call : Start(c) \/ Proceed(c)
  \/ \E t \in Tab : Close(t) \/ Submit(t) \/ \E s \in Site : Navigate(t, s)

\* Timers fire, messages to tabs are answered or fail.
Spec == Init /\ [][Next]_vars /\ \A c \in Call : WF_vars(Proceed(c))

-----------------------------------------------------------------------------
(* Properties.                                                             *)

\* While the host owes no answer to an asker that has left, it answers the
\* waiters in their order, each its own question (waiters, against a host
\* that dies, a worker that is stopped, a post that throws).
InOrder ==
  ~ late /\ port # "dead" =>
    [k \in DOMAIN waiters |-> waiters[k].id] = [k \in DOMAIN queue |-> queue[k].id]

\* At any time, whoever has left, no waiter gets the answer to a question asked
\* after its own, and none waits for an answer that nobody will send.
NeverAhead ==
  port # "dead" =>
    /\ Len(waiters) <= Len(queue)
    /\ \A k \in DOMAIN waiters : queue[k].id <= waiters[k].id

\* A secret is written for a site it does not fit only if another question had run
\* out of time before on a port that has not been quiet since: neither a host
\* that dies nor a match replaced under way mixes two sites up.
WrittenFitsTheAsk ==
  \A c \in Call :
    call[c] # Nil /\ call[c].stage = "write" /\ call[c].entry.secret /\ call[c].entry.inOrder =>
      call[c].entry.item \in Fitting(call[c].site)

\* A password that is kept from the popup of a tab was typed in that tab: never
\* one that another tab has submitted meanwhile (pendingSave).
SavedInItsTab ==
  \A i \in Item :
    vault[i] # Nil /\ vault[i].typed # Nil => vault[i].typed.tab = vault[i].from

TabsInv == TypeOK /\ InOrder /\ NeverAhead /\ SavedInItsTab

\* Every call of the worker ends: a host that hangs, dies or answers another,
\* or a worker that is stopped, leaves nobody waiting for ever.
CallsSettle == \A c \in Call : call[c] # Nil ~> call[c] = Nil

=============================================================================
