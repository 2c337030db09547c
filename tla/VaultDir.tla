------------------------------ MODULE VaultDir ------------------------------
(***************************************************************************)
(* The files of a vault directory and the commands that create, open, pair *)
(* and migrate it: Init, Open, OpenOrInit, Offer and Accept of             *)
(* internal/app/app.go, and the key wraps of internal/app/wrap.go.         *)
(*                                                                         *)
(* os.WriteFile empties the file and then writes it, so a write is two     *)
(* operations; a process may stop between any two operations, and then     *)
(* loses what it holds in memory.  What a finished write wrote stays.      *)
(***************************************************************************)
EXTENDS Sequences, Naturals

CONSTANTS Process,
          Key,        \* private device keys
          MasterKey,  \* master keys
          PeerKey,    \* the key "device new" wrote for the machine to be paired
          Offers,     \* the masters that were offered to PeerKey
          Plain,      \* the masters that vaults of the earlier version have
          Absent, Torn, Written, Nil

\* device.key, master.key (of earlier versions), config.json and vault.db; the
\* file of wraps/ for a device is named by its key.
Name == {"device.key", "master.key", "config.json", "vault.db"}

ASSUME DirAssumption ==
  /\ PeerKey \in Key /\ Offers \subseteq MasterKey /\ Plain \subseteq MasterKey
  /\ Key \cap (MasterKey \cup Name) = {}
  /\ {Absent, Torn, Written, Nil} \cap (Key \cup MasterKey) = {}
  /\ Absent \notin {Torn, Written, Nil} /\ Torn \notin {Written, Nil} /\ Written # Nil

VARIABLES
  disk,    \* what each file holds
  sealed,  \* the master under which vault.db keeps its owner key, if any
  human,   \* the human "self" is in vault.db
  proc     \* the processes

vars == <<disk, sealed, human, proc>>

\* A process: where it is, what it will do with the master it loads, the
\* device key and the master it holds, and the file operations it is at.
Idle == [pc |-> "idle", then |-> "config", key |-> Nil, master |-> Nil,
         todo |-> <<>>, next |-> "idle"]

FileOp == [file : Name \cup Key, value : {Absent, Torn, Written} \cup Key \cup MasterKey]

TypeOK ==
  /\ DOMAIN disk = Name \cup Key
  /\ disk["device.key"] \in {Absent, Torn} \cup Key
  /\ disk["master.key"] \in {Absent} \cup MasterKey
  /\ disk["config.json"] \in {Absent, Torn, Written}
  /\ disk["vault.db"] \in {Absent, Written}
  /\ \A k \in Key : disk[k] \in {Absent, Torn} \cup MasterKey
  /\ sealed \in MasterKey \cup {Nil}
  /\ human \in BOOLEAN
  /\ \A p \in Process :
       /\ proc[p].key \in Key \cup {Nil} /\ proc[p].master \in MasterKey \cup {Nil}
       /\ proc[p].todo \in Seq(FileOp)

Empty == [f \in Name \cup Key |-> Absent]

\* Nothing; a vault of the version that kept master.key in the clear; a copy
\* of the database and the configuration of the vault to be paired with.
Init ==
  /\ \/ disk = Empty /\ sealed = Nil /\ human = FALSE
     \/ \E m \in Plain :
          /\ disk = [Empty EXCEPT !["master.key"] = m, !["config.json"] = Written,
                                  !["vault.db"] = Written]
          /\ sealed = m /\ human = TRUE
     \/ \E m \in Offers :
          /\ disk = [Empty EXCEPT !["config.json"] = Written, !["vault.db"] = Written]
          /\ sealed = m /\ human = TRUE
  /\ proc = [p \in Process |-> Idle]

HasWraps == \E k \in Key : disk[k] # Absent

Goto(p, place) == proc' = [proc EXCEPT ![p].pc = place]

\* The command ends with an error.
Fail(p) == proc' = [proc EXCEPT ![p] = Idle]

\* Keys and masters are random: nobody has drawn them before.
Unused(x) ==
  /\ x # PeerKey /\ x \notin Offers /\ x # sealed
  /\ \A f \in DOMAIN disk : f # x => disk[f] # x
  /\ x \in Key => disk[x] = Absent
  /\ \A p \in Process : proc[p].key # x /\ proc[p].master # x

-----------------------------------------------------------------------------
(* File operations.                                                        *)

WriteFile(f, value) == <<[file |-> f, value |-> Torn], [file |-> f, value |-> value]>>
RemoveFile(f)       == <<[file |-> f, value |-> Absent]>>

PersistWrap(key, master) == WriteFile(key, master)
WrapMaster(key, master)  == WriteFile("device.key", key) \o PersistWrap(key, master)

\* Process p goes on with the operations ops and then at place.
Do(p, key, master, ops, place) ==
  proc' = [proc EXCEPT ![p].key = key, ![p].master = master, ![p].todo = ops,
                       ![p].pc = "files", ![p].next = place]

\* The next operation; the one that is the last ends the list.
Operate(p) ==
  /\ proc[p].pc = "files"
  /\ LET op == Head(proc[p].todo) IN disk' = [disk EXCEPT ![op.file] = op.value]
  /\ proc' = [proc EXCEPT ![p].todo = Tail(@),
                          ![p].pc = IF Len(proc[p].todo) = 1 THEN proc[p].next ELSE @]
  /\ UNCHANGED <<sealed, human>>

-----------------------------------------------------------------------------
(* Creating a vault.                                                       *)

\* OpenOrInit: wraps/ or master.key mean a vault; a database alone means an
\* error.  The files are looked at one after the other.
StartOpenOrInit(p) ==
  /\ proc[p].pc = "idle"
  /\ Goto(p, IF HasWraps THEN "load" ELSE "plain?")
  /\ UNCHANGED <<disk, sealed, human>>

LookForPlain(p) ==
  /\ proc[p].pc = "plain?"
  /\ Goto(p, IF disk["master.key"] # Absent THEN "load" ELSE "stray?")
  /\ UNCHANGED <<disk, sealed, human>>

LookForStray(p) ==
  /\ proc[p].pc = "stray?"
  /\ IF disk["vault.db"] # Absent THEN Fail(p) ELSE Goto(p, "init")
  /\ UNCHANGED <<disk, sealed, human>>

\* Init, also as a command of its own.
StartInit(p) ==
  /\ proc[p].pc = "idle"
  /\ Goto(p, "init")
  /\ UNCHANGED <<disk, sealed, human>>

InitRefused(p) ==
  /\ proc[p].pc = "init" /\ disk["vault.db"] # Absent
  /\ Fail(p)
  /\ UNCHANGED <<disk, sealed, human>>

\* wrapMaster, config.json, and OpenSQLite creates the database.
InitWrites(p) ==
  /\ proc[p].pc = "init" /\ disk["vault.db"] = Absent
  /\ \E key \in Key, master \in MasterKey :
       /\ Unused(key) /\ Unused(master)
       /\ Do(p, key, master,
             WrapMaster(key, master) \o WriteFile("config.json", Written)
               \o <<[file |-> "vault.db", value |-> Written]>>,
             "plant")
  /\ UNCHANGED <<disk, sealed, human>>

PutHuman(p) ==
  /\ proc[p].pc = "plant"
  /\ human' = TRUE
  /\ Goto(p, "open")
  /\ UNCHANGED <<disk, sealed>>

-----------------------------------------------------------------------------
(* Loading the master.                                                     *)

StartOpen(p) ==
  /\ proc[p].pc = "idle"
  /\ Goto(p, "load")
  /\ UNCHANGED <<disk, sealed, human>>

\* Offer of an open vault loads the master again.
StartOffer(p) ==
  /\ proc[p].pc = "open"
  /\ proc' = [proc EXCEPT ![p].pc = "load", ![p].then = "offer"]
  /\ UNCHANGED <<disk, sealed, human>>

\* loadMaster with wraps: unwrapLocal reads the device key, then its wrap.
ReadDevice(p) ==
  /\ proc[p].pc = "load" /\ HasWraps
  /\ IF disk["device.key"] \in Key
     THEN proc' = [proc EXCEPT ![p].key = disk["device.key"], ![p].pc = "unwrap"]
     ELSE Fail(p)
  /\ UNCHANGED <<disk, sealed, human>>

Unwrap(p) ==
  /\ proc[p].pc = "unwrap"
  /\ IF disk[proc[p].key] \in MasterKey
     THEN proc' = [proc EXCEPT ![p].master = disk[proc[p].key], ![p].pc = proc[p].then]
     ELSE Fail(p)
  /\ UNCHANGED <<disk, sealed, human>>

\* Without wraps the master is in the clear.
ReadPlain(p) ==
  /\ proc[p].pc = "load" /\ ~ HasWraps
  /\ IF disk["master.key"] \in MasterKey
     THEN proc' = [proc EXCEPT ![p].master = disk["master.key"], ![p].pc = "migrate"]
     ELSE Fail(p)
  /\ UNCHANGED <<disk, sealed, human>>

\* Mutant: master.key is removed before the wrap is written.
MigrateWrapsEarly(p) ==
  /\ proc[p].pc = "migrate"
  /\ \/ /\ disk["device.key"] = Absent
        /\ \E key \in Key :
             /\ Unused(key)
             /\ Do(p, key, proc[p].master,
                   RemoveFile("master.key") \o WrapMaster(key, proc[p].master),
                   proc[p].then)
     \/ disk["device.key"] = Torn /\ Fail(p)
     \/ /\ disk["device.key"] \in Key
        /\ Do(p, disk["device.key"], proc[p].master,
              RemoveFile("master.key") \o WrapMaster(disk["device.key"], proc[p].master),
              proc[p].then)
  /\ UNCHANGED <<disk, sealed, human>>

\* migrateWraps: a device key that is there is used again, and only after the
\* pair is written master.key goes.
MigrateWraps(p) ==
  /\ proc[p].pc = "migrate"
  /\ \/ /\ disk["device.key"] = Absent
        /\ \E key \in Key :
             /\ Unused(key)
             /\ Do(p, key, proc[p].master,
                   WrapMaster(key, proc[p].master) \o RemoveFile("master.key"),
                   proc[p].then)
     \/ disk["device.key"] = Torn /\ Fail(p)
     \/ /\ disk["device.key"] \in Key
        /\ Do(p, disk["device.key"], proc[p].master,
              WrapMaster(disk["device.key"], proc[p].master) \o RemoveFile("master.key"),
              proc[p].then)
  /\ UNCHANGED <<disk, sealed, human>>

\* Open reads config.json; OpenSQLite creates a database that is not there.
OpenVault(p) ==
  /\ proc[p].pc = "config"
  /\ IF disk["config.json"] = Written
     THEN Goto(p, "open") /\ disk' = [disk EXCEPT !["vault.db"] = Written]
     ELSE Fail(p) /\ UNCHANGED disk
  /\ UNCHANGED <<sealed, human>>

\* An open vault seals its first secret: the owner's key is wrapped under the
\* master (module ItemVault).
Seal(p) ==
  /\ proc[p].pc = "open" /\ sealed = Nil
  /\ sealed' = proc[p].master
  /\ UNCHANGED <<disk, human, proc>>

\* The wrap of the master for the peer's public key is kept in wraps/ too.
Offer(p) ==
  /\ proc[p].pc = "offer"
  /\ proc' = [proc EXCEPT ![p].pc = "files", ![p].then = "config", ![p].next = "open",
                          ![p].todo = PersistWrap(PeerKey, proc[p].master)]
  /\ UNCHANGED <<disk, sealed, human>>

-----------------------------------------------------------------------------
(* Pairing: the machine that accepts.                                      *)

\* Mutant: another device key is overwritten.
AcceptAnyDevice(p) ==
  /\ proc[p].pc = "idle"
  /\ \E m \in Offers :
       Do(p, PeerKey, m, WrapMaster(PeerKey, m), "legacy?")
  /\ UNCHANGED <<disk, sealed, human>>

\* Accept: the device key must be the one the offer is for, or not be there.
Accept(p) ==
  /\ proc[p].pc = "idle"
  /\ disk["device.key"] \in {Absent, PeerKey}
  /\ \E m \in Offers :
       Do(p, PeerKey, m, WrapMaster(PeerKey, m), "legacy?")
  /\ UNCHANGED <<disk, sealed, human>>

\* A master.key that is the same goes; another one is an error.
AcceptPlain(p) ==
  /\ proc[p].pc = "legacy?"
  /\ IF disk["master.key"] = proc[p].master
     THEN Do(p, proc[p].key, proc[p].master, RemoveFile("master.key"), "idle")
     ELSE Fail(p)
  /\ UNCHANGED <<disk, sealed, human>>

\* A process closes the vault or stops anywhere.
Stop(p) ==
  /\ proc[p].pc # "idle"
  /\ Fail(p)
  /\ UNCHANGED <<disk, sealed, human>>

Next == \E p \in Process :
  \/ StartInit(p) \/ StartOpenOrInit(p) \/ StartOpen(p) \/ StartOffer(p) \/ Accept(p)
  \/ LookForPlain(p) \/ LookForStray(p) \/ InitRefused(p) \/ InitWrites(p) \/ PutHuman(p)
  \/ ReadDevice(p) \/ Unwrap(p) \/ ReadPlain(p) \/ MigrateWraps(p)
  \/ OpenVault(p) \/ Seal(p) \/ Offer(p) \/ AcceptPlain(p)
  \/ Operate(p) \/ Stop(p)

Spec == Init /\ [][Next]_vars

-----------------------------------------------------------------------------
(* Properties.                                                             *)

\* The master a later command would load, Nil if none.
LoadedMaster ==
  IF ~ HasWraps THEN IF disk["master.key"] = Absent THEN Nil ELSE disk["master.key"]
  ELSE IF disk["device.key"] \in Key /\ disk[disk["device.key"]] \in MasterKey
       THEN disk[disk["device.key"]] ELSE Nil

\* Wherever a command stops, the master that sealed the database is still in
\* the directory or in the offer the user holds: in the clear, or wrapped for
\* the device key that is there (wrap.go migrateWraps, app.go Accept).
MasterSurvives ==
  sealed # Nil =>
    \/ disk["master.key"] = sealed
    \/ disk["device.key"] \in Key /\ disk[disk["device.key"]] = sealed
    \/ disk["device.key"] \in {PeerKey, Torn, Absent} /\ sealed \in Offers

\* A vault that is open can open what it holds: the master of the process is
\* the one that sealed the database (OpenOrInit "opens an existing vault, or
\* creates one").
OpenWithItsMaster ==
  \A p \in Process : proc[p].pc = "open" /\ sealed # Nil => proc[p].master = sealed

DirInv == TypeOK /\ MasterSurvives /\ OpenWithItsMaster

\* master.key is never removed before another way to load the same master is
\* complete on disk.
PlainGoesLast ==
  [][disk["master.key"] # Absent /\ disk'["master.key"] = Absent
     => LoadedMaster' = disk["master.key"]]_vars


=============================================================================
