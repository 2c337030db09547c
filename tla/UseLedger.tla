------------------------------ MODULE UseLedger ------------------------------
(***************************************************************************)
(* What the origin promises of metered and audited uses, whichever store   *)
(* is behind it and whatever fails: a ledger with at most one entry for    *)
(* each call, that nothing is ever removed from; a use of a lease and the  *)
(* entry it is charged with appear together and never beyond the limit;    *)
(* a secret goes upstream only for a call that has its entry.              *)
(***************************************************************************)
EXTENDS Naturals

CONSTANTS Call, Session, Nil

VARIABLES ledger,  \* the entries: the calls that were allowed
          lease,   \* for each session its limit (0: none) and uses, or Nil
          sent     \* the calls that took a secret upstream

ledgerVars == <<ledger, lease, sent>>

LedgerInit ==
  /\ ledger = {} /\ sent = {}
  /\ lease \in [Session -> [limit : Nat, used : {0}] \cup {Nil}]

HasEntry(c) == \E e \in ledger : e.call = c

Charge(s) ==
  /\ lease[s] # Nil
  /\ lease[s].limit = 0 \/ lease[s].used < lease[s].limit
  /\ lease' = [lease EXCEPT ![s].used = @ + 1]

\* An entry without a session is charged to none.
Authorize(c) ==
  /\ ~ HasEntry(c)
  /\ \E e \in ledger' \ ledger :
       /\ e.call = c
       /\ ledger' = ledger \cup {e}
       /\ IF e.session = Nil THEN UNCHANGED lease ELSE Charge(e.session)
  /\ UNCHANGED sent

Send(c) ==
  /\ HasEntry(c)
  /\ sent' = sent \cup {c}
  /\ UNCHANGED <<ledger, lease>>

\* A lease starts with no use and no entry charged to it.
Open(s) ==
  /\ lease[s] = Nil /\ \A e \in ledger : e.session # s
  /\ \E new \in {lease'[s]} :
       /\ lease' = [lease EXCEPT ![s] = new]
       /\ new # Nil /\ new.used = 0
  /\ UNCHANGED <<ledger, sent>>

Retire ==
  /\ \A s \in Session : lease'[s] \in {lease[s], Nil}
  /\ UNCHANGED <<ledger, sent>>

LedgerNext ==
  \/ \E c \in Call : Authorize(c) \/ Send(c)
  \/ \E s \in Session : Open(s)
  \/ Retire

LedgerSpec == LedgerInit /\ [][LedgerNext]_ledgerVars

=============================================================================
