---------------------------- MODULE MachineProofs ----------------------------
(***************************************************************************)
(* Proofs about the files of one machine.  Of the client of an origin:     *)
(* what its commands present, what "agent hydra" leaves on disk, and when  *)
(* it replaces the secret, for any number of commands at once.  Of a vault *)
(* directory: that wherever a command stops the master is not lost, and    *)
(* that master.key goes last, for one command at a time and one vault.     *)
(***************************************************************************)
EXTENDS MCMachine, SequenceTheorems, TLAPS

-----------------------------------------------------------------------------
(* The inductive invariant of the client.                                  *)

SecretPlaces == {"read secret", "verify", "rotate", "create", "replace", "empty secret",
                 "write secret", "bind"}
MintPlaces   == {"mint with", "mint", "empty token", "write token"}
LoginPlaces  == {"listen", "trade", "shutdown"}
Place == SecretPlaces \cup MintPlaces \cup LoginPlaces
           \cup {"idle", "done", "token file", "human file", "password", "totp", "exchange",
                 "empty human", "write human", "confirm", "present", "serving"}

Commands ==
  [pc : Place, op : Operation, since : 0 .. MaxClock, held : 0 .. MaxRotations, tok : Time,
   whose : {"agent", "human"}, tries : 0 .. 3, alone : BOOLEAN, silent : BOOLEAN]

Callbacks == [made : Nat, err : 0 .. 1, code : 0 .. 1, errWait : Nat, codeWait : Nat]

\* Which operation may be at which place, and whose token it is after.
PlaceFits(x) ==
  /\ x.pc \in SecretPlaces => x.op \in {"hydra", "force"}
  /\ x.pc \in {"read secret", "verify"} => x.op = "hydra"
  /\ x.pc \in MintPlaces => x.op \in {"token", "use", "list", "proxy"}
  /\ x.pc = "token file" => x.op \in {"use", "list", "proxy"}
  /\ x.pc \in {"human file", "confirm"} => x.op \in HumanCommands \cup {"list"}
  /\ x.pc \in {"password", "totp", "exchange"} => x.op \in HumanCommands \cup {"list", "relogin"}
  /\ x.pc \in {"empty human", "write human"} =>
       x.op \in HumanCommands \cup {"list", "relogin", "login"}
  /\ x.pc = "present" => x.op \in HumanCommands \cup {"list", "use", "proxy"}
  /\ x.pc \in LoginPlaces => x.op = "login"
  /\ x.op \in HumanCommands /\ x.pc \notin {"idle", "done"} => x.whose = "human"
  /\ x.op \in {"use", "proxy"} => x.whose = "agent"

\* A token that is held to be stored or presented is not about to expire.
Timely(x) ==
  x.pc \in {"empty token", "write token", "empty human", "write human", "confirm", "present"} =>
    x.tok > x.since + Skew

\* What a command knows of the secret: s is Hydra's, f the one on disk.  Only
\* of a run that was alone anything is known that others could change.
Knows(x, s, f) ==
  /\ x.held <= s
  /\ x.op = "hydra" /\ x.pc \in {"rotate", "create", "replace"} => x.held = 0 \/ x.held < s
  /\ x.alone /\ x.op \in {"hydra", "force"} =>
       /\ x.pc = "verify" => x.held = f /\ f # 0
       /\ x.pc \in {"empty secret", "write secret"} => x.held = s /\ s # 0
       /\ x.pc \in {"bind", "done"} /\ ~ x.silent => s # 0 /\ f = s

Fits(x, s, f) == PlaceFits(x) /\ Timely(x) /\ Knows(x, s, f)

CommandOK(x, t, s, f) == x.since <= t /\ Fits(x, s, f)

\* While a command is alone no other one rotates.
Exclusive == \A c, d \in Command : c # d /\ cmd[c].alone => ~ Rotates(d)

ClientTypes ==
  /\ now \in 0 .. MaxClock /\ secret \in 0 .. MaxRotations
  /\ secretFile \in 0 .. MaxRotations /\ secretFile <= secret
  /\ tokenFile \in Time /\ humanFile \in Time
  /\ cmd \in [Command -> Commands] /\ callback \in Callbacks /\ begins \in 0 .. MaxBegins

ClientIInv ==
  /\ ClientTypes
  /\ \A c \in Command : CommandOK(cmd[c], now, secret, secretFile)
  /\ Exclusive

LEMMA Bounds ==
  /\ Life \in Nat /\ Skew \in Nat /\ MaxClock \in Nat /\ MaxBegins \in Nat
  /\ MaxRotations \in Nat \ {0} /\ MaxCallbacks \in Nat /\ Life > Skew
BY ClientAssumption

\* What command d holds is still in order when another command moves.
LEMMA OthersStand ==
  ASSUME ClientIInv, NEW d \in Command, NEW t \in Nat, now <= t, NEW f,
         f = secretFile \/ ~ (cmd[d].alone /\ cmd[d].op \in {"hydra", "force"})
  PROVE  CommandOK(cmd[d], t, secret, f)
<1>1. CommandOK(cmd[d], now, secret, secretFile) /\ cmd[d] \in Commands /\ now \in Nat
  BY Bounds DEF ClientIInv, ClientTypes
<1>2. cmd[d].since <= t
  BY <1>1 DEF CommandOK, Commands
<1>3. Knows(cmd[d], secret, f)
  BY <1>1 DEF CommandOK, Fits, Knows
<1> QED BY <1>1, <1>2, <1>3 DEF CommandOK, Fits

LEMMA AllCommandsOK ==
  ASSUME \A d \in Command : CommandOK(cmd'[d], now', secret', secretFile')
  PROVE  (\A d \in Command : CommandOK(cmd[d], now, secret, secretFile))'
<1>1. ASSUME NEW d \in Command PROVE CommandOK(cmd[d], now, secret, secretFile)'
  <2>1. CommandOK(cmd'[d], now', secret', secretFile')
    OBVIOUS
  <2>2. PlaceFits(cmd[d])'
    BY <2>1 DEF CommandOK, Fits, PlaceFits
  <2>3. Timely(cmd[d])'
    BY <2>1 DEF CommandOK, Fits, Timely
  <2>4. Knows(cmd[d], secret, secretFile)'
    BY <2>1 DEF CommandOK, Fits, Knows
  <2> QED BY <2>1, <2>2, <2>3, <2>4 DEF CommandOK, Fits
<1> QED BY <1>1

\* A step of command c that leaves it as q; a command that may rotate is the
\* only one to write the secret's file.
LEMMA CommandMoves ==
  ASSUME ClientIInv, NEW c \in Command, NEW q \in Commands, cmd' = [cmd EXCEPT ![c] = q],
         now' = now, secret' = secret, begins' = begins,
         secretFile' \in 0 .. MaxRotations, secretFile' <= secret,
         secretFile' = secretFile \/ Rotates(c),
         tokenFile' \in Time, humanFile' \in Time, callback' \in Callbacks,
         CommandOK(q, now, secret, secretFile'),
         q.alone => cmd[c].alone,
         q.pc \notin {"idle", "done"} /\ q.op \in {"hydra", "force"} => Rotates(c)
  PROVE  ClientIInv'
<1>1. cmd'[c] = q /\ \A d \in Command \ {c} : cmd'[d] = cmd[d]
  BY DEF ClientIInv, ClientTypes
<1>2. ClientTypes'
  BY DEF ClientIInv, ClientTypes
<1>3. ASSUME NEW d \in Command PROVE CommandOK(cmd'[d], now', secret', secretFile')
  <2>1. CASE d = c
    BY <1>1, <2>1
  <2>2. CASE d # c
    <3>1. secretFile' = secretFile \/ ~ (cmd[d].alone /\ cmd[d].op \in {"hydra", "force"})
      BY <2>2 DEF ClientIInv, Exclusive
    <3>2. now \in Nat /\ now <= now
      BY Bounds DEF ClientIInv, ClientTypes
    <3> QED BY <1>1, <2>2, <3>1, <3>2, OthersStand
  <2> QED BY <2>1, <2>2
<1>4. Exclusive'
  <2>1. \A d \in Command : Rotates(d)' => Rotates(d)
    BY <1>1 DEF Rotates, Ended
  <2>2. \A d \in Command : cmd'[d].alone => cmd[d].alone
    BY <1>1
  <2> QED BY <2>1, <2>2 DEF ClientIInv, Exclusive
<1>5. (\A d \in Command : CommandOK(cmd[d], now, secret, secretFile))'
  BY <1>3, AllCommandsOK
<1> QED BY <1>2, <1>4, <1>5 DEF ClientIInv

-----------------------------------------------------------------------------
(* A command with some of its fields replaced.                             *)

Is(q, x, place, held, tok, whose, tries) ==
  /\ q.op = x.op /\ q.since = x.since /\ q.alone = x.alone /\ q.silent = x.silent
  /\ q.pc = place /\ q.held = held /\ q.tok = tok /\ q.whose = whose /\ q.tries = tries

Becomes(c, place, held, tok, whose, tries) ==
  \E q \in Commands : /\ cmd' = [cmd EXCEPT ![c] = q]
                      /\ Is(q, cmd[c], place, held, tok, whose, tries)

LEMMA Replaced ==
  ASSUME NEW c \in Command, NEW place \in Place, cmd \in [Command -> Commands]
  PROVE  /\ To(c, place) => Becomes(c, place, cmd[c].held, cmd[c].tok, cmd[c].whose, cmd[c].tries)
         /\ \A held \in 0 .. MaxRotations :
              cmd' = [cmd EXCEPT ![c].held = held, ![c].pc = place] =>
              Becomes(c, place, held, cmd[c].tok, cmd[c].whose, cmd[c].tries)
         /\ \A tok \in Time, whose \in {"agent", "human"} :
              cmd' = [cmd EXCEPT ![c].tok = tok, ![c].whose = whose, ![c].pc = place] =>
              Becomes(c, place, cmd[c].held, tok, whose, cmd[c].tries)
         /\ \A tok \in Time :
              cmd' = [cmd EXCEPT ![c].tok = tok, ![c].pc = place] =>
              Becomes(c, place, cmd[c].held, tok, cmd[c].whose, cmd[c].tries)
         /\ \A tries \in 0 .. 3 :
              cmd' = [cmd EXCEPT ![c].tries = tries, ![c].pc = place] =>
              Becomes(c, place, cmd[c].held, cmd[c].tok, cmd[c].whose, tries)
<1>1. cmd[c] \in Commands
  OBVIOUS
<1>2. ASSUME To(c, place)
      PROVE  Becomes(c, place, cmd[c].held, cmd[c].tok, cmd[c].whose, cmd[c].tries)
  <2> DEFINE q == [cmd[c] EXCEPT !.pc = place]
  <2>1. q \in Commands
    BY <1>1 DEF Commands
  <2>2. cmd' = [cmd EXCEPT ![c] = q]
    BY <1>2 DEF To
  <2>3. /\ q.op = cmd[c].op /\ q.since = cmd[c].since /\ q.alone = cmd[c].alone
        /\ q.silent = cmd[c].silent /\ q.pc = place
        /\ q.held = cmd[c].held /\ q.tok = cmd[c].tok /\ q.whose = cmd[c].whose /\ q.tries = cmd[c].tries
    BY <1>1 DEF Commands
  <2> HIDE DEF q
  <2> QED BY <2>1, <2>2, <2>3 DEF Becomes, Is
<1>3. ASSUME NEW held \in 0 .. MaxRotations, cmd' = [cmd EXCEPT ![c].held = held, ![c].pc = place]
      PROVE  Becomes(c, place, held, cmd[c].tok, cmd[c].whose, cmd[c].tries)
  <2> DEFINE q == [cmd[c] EXCEPT !.held = held, !.pc = place]
  <2>1. q \in Commands
    BY <1>1, <1>3 DEF Commands
  <2>2. cmd' = [cmd EXCEPT ![c] = q]
    BY <1>3
  <2>3. /\ q.op = cmd[c].op /\ q.since = cmd[c].since /\ q.alone = cmd[c].alone
        /\ q.silent = cmd[c].silent /\ q.pc = place
        /\ q.held = held /\ q.tok = cmd[c].tok /\ q.whose = cmd[c].whose /\ q.tries = cmd[c].tries
    BY <1>1 DEF Commands
  <2> HIDE DEF q
  <2> QED BY <2>1, <2>2, <2>3 DEF Becomes, Is
<1>4. ASSUME NEW tok \in Time, NEW whose \in {"agent", "human"}, cmd' = [cmd EXCEPT ![c].tok = tok, ![c].whose = whose, ![c].pc = place]
      PROVE  Becomes(c, place, cmd[c].held, tok, whose, cmd[c].tries)
  <2> DEFINE q == [cmd[c] EXCEPT !.tok = tok, !.whose = whose, !.pc = place]
  <2>1. q \in Commands
    BY <1>1, <1>4 DEF Commands
  <2>2. cmd' = [cmd EXCEPT ![c] = q]
    BY <1>4
  <2>3. /\ q.op = cmd[c].op /\ q.since = cmd[c].since /\ q.alone = cmd[c].alone
        /\ q.silent = cmd[c].silent /\ q.pc = place
        /\ q.held = cmd[c].held /\ q.tok = tok /\ q.whose = whose /\ q.tries = cmd[c].tries
    BY <1>1 DEF Commands
  <2> HIDE DEF q
  <2> QED BY <2>1, <2>2, <2>3 DEF Becomes, Is
<1>5. ASSUME NEW tok \in Time, cmd' = [cmd EXCEPT ![c].tok = tok, ![c].pc = place]
      PROVE  Becomes(c, place, cmd[c].held, tok, cmd[c].whose, cmd[c].tries)
  <2> DEFINE q == [cmd[c] EXCEPT !.tok = tok, !.pc = place]
  <2>1. q \in Commands
    BY <1>1, <1>5 DEF Commands
  <2>2. cmd' = [cmd EXCEPT ![c] = q]
    BY <1>5
  <2>3. /\ q.op = cmd[c].op /\ q.since = cmd[c].since /\ q.alone = cmd[c].alone
        /\ q.silent = cmd[c].silent /\ q.pc = place
        /\ q.held = cmd[c].held /\ q.tok = tok /\ q.whose = cmd[c].whose /\ q.tries = cmd[c].tries
    BY <1>1 DEF Commands
  <2> HIDE DEF q
  <2> QED BY <2>1, <2>2, <2>3 DEF Becomes, Is
<1>6. ASSUME NEW tries \in 0 .. 3, cmd' = [cmd EXCEPT ![c].tries = tries, ![c].pc = place]
      PROVE  Becomes(c, place, cmd[c].held, cmd[c].tok, cmd[c].whose, tries)
  <2> DEFINE q == [cmd[c] EXCEPT !.tries = tries, !.pc = place]
  <2>1. q \in Commands
    BY <1>1, <1>6 DEF Commands
  <2>2. cmd' = [cmd EXCEPT ![c] = q]
    BY <1>6
  <2>3. /\ q.op = cmd[c].op /\ q.since = cmd[c].since /\ q.alone = cmd[c].alone
        /\ q.silent = cmd[c].silent /\ q.pc = place
        /\ q.held = cmd[c].held /\ q.tok = cmd[c].tok /\ q.whose = cmd[c].whose /\ q.tries = tries
    BY <1>1 DEF Commands
  <2> HIDE DEF q
  <2> QED BY <2>1, <2>2, <2>3 DEF Becomes, Is
<1> QED BY <1>2, <1>3, <1>4, <1>5, <1>6

\* A step of command c changes nothing else, but the files and the callbacks.
Frame(c) ==
  /\ now' = now /\ secret' = secret /\ begins' = begins
  /\ secretFile' \in 0 .. MaxRotations /\ secretFile' <= secret
  /\ secretFile' = secretFile \/ Rotates(c)
  /\ tokenFile' \in Time /\ humanFile' \in Time /\ callback' \in Callbacks

LEMMA QuietFrame ==
  ASSUME ClientIInv, NEW c, UNCHANGED <<World, files>>
  PROVE  Frame(c) /\ secretFile' = secretFile
BY DEF ClientIInv, ClientTypes, World, files, Frame

\* The command that goes on keeps what it must.
LEMMA GoesOn ==
  ASSUME ClientIInv, NEW c \in Command, ~ Ended(c), Frame(c),
         NEW place, NEW held, NEW tok, NEW whose, NEW tries,
         Becomes(c, place, held, tok, whose, tries),
         \A q \in Commands : Is(q, cmd[c], place, held, tok, whose, tries)
                             => Fits(q, secret, secretFile')
  PROVE  ClientIInv'
<1>1. PICK q \in Commands : /\ cmd' = [cmd EXCEPT ![c] = q]
                            /\ Is(q, cmd[c], place, held, tok, whose, tries)
  BY DEF Becomes
<1>2. CommandOK(q, now, secret, secretFile')
  BY <1>1 DEF CommandOK, ClientIInv, Is
<1>3. q.op \in {"hydra", "force"} => Rotates(c)
  BY <1>1 DEF Rotates, Is
<1>4. q.alone => cmd[c].alone
  BY <1>1 DEF Is
<1> QED BY <1>1, <1>2, <1>3, <1>4, CommandMoves DEF Frame

LEMMA LoseKeeps ==
  ASSUME ClientIInv, NEW c \in Command, Frame(c), Lose(c)
  PROVE  ClientIInv'
<1>1. /\ Waiting.pc = "idle" /\ Waiting.op = "use" /\ Waiting.since = 0 /\ Waiting.held = 0
      /\ Waiting.tok = 0 /\ Waiting.whose = "agent" /\ Waiting.tries = 0
      /\ Waiting.alone = FALSE
  BY DEF Waiting
<1>2. Waiting \in Commands
  BY Bounds DEF Waiting, Commands, Place, Operation, Time
<1> HIDE DEF Waiting
<1>3. CommandOK(Waiting, now, secret, secretFile')
  <2>1. 0 <= now /\ 0 <= secret
    BY Bounds DEF ClientIInv, ClientTypes
  <2>2. PlaceFits(Waiting)
    BY <1>1 DEF PlaceFits, SecretPlaces, MintPlaces, LoginPlaces, HumanCommands
  <2>3. Timely(Waiting)
    BY <1>1 DEF Timely
  <2>4. Knows(Waiting, secret, secretFile')
    BY <1>1, <2>1 DEF Knows
  <2> QED BY <1>1, <2>1, <2>2, <2>3, <2>4 DEF CommandOK, Fits
<1> QED BY <1>1, <1>2, <1>3, CommandMoves DEF Lose, Frame

LEMMA FinishKeeps ==
  ASSUME ClientIInv, NEW c \in Command, Frame(c), Finish(c),
         cmd[c].alone /\ cmd[c].op \in {"hydra", "force"} /\ ~ cmd[c].silent
           => secret # 0 /\ secretFile' = secret
  PROVE  ClientIInv'
<1> DEFINE q == [Waiting EXCEPT !.pc = "done", !.op = cmd[c].op, !.alone = cmd[c].alone,
                                !.silent = cmd[c].silent]
<1>1. /\ q.pc = "done" /\ q.op = cmd[c].op /\ q.since = 0 /\ q.held = 0
      /\ q.tok = 0 /\ q.whose = "agent" /\ q.tries = 0 /\ q.alone = cmd[c].alone
      /\ q.silent = cmd[c].silent
  BY DEF Waiting
<1>2. q \in Commands
  <2>1. cmd[c].op \in Operation /\ cmd[c].alone \in BOOLEAN /\ cmd[c].silent \in BOOLEAN
    BY DEF ClientIInv, ClientTypes, Commands
  <2>2. 0 \in 0 .. MaxClock /\ 0 \in 0 .. MaxRotations /\ 0 \in Time /\ 0 \in 0 .. 3
    BY Bounds DEF Time
  <2> QED BY <2>1, <2>2 DEF Waiting, Commands, Place
<1>3. cmd' = [cmd EXCEPT ![c] = q]
  BY DEF Finish
<1> HIDE DEF q
<1>4. CommandOK(q, now, secret, secretFile')
  <2>1. 0 <= now /\ 0 <= secret
    BY Bounds DEF ClientIInv, ClientTypes
  <2>2. PlaceFits(q)
    BY <1>1 DEF PlaceFits, SecretPlaces, MintPlaces, LoginPlaces, HumanCommands
  <2>3. Timely(q)
    BY <1>1 DEF Timely
  <2>4. Knows(q, secret, secretFile')
    BY <1>1, <2>1 DEF Knows
  <2> QED BY <1>1, <2>1, <2>2, <2>3, <2>4 DEF CommandOK, Fits
<1> QED BY <1>1, <1>2, <1>3, <1>4, CommandMoves DEF Frame

\* What is known of a command that is at work.
LEMMA AtWork ==
  ASSUME ClientIInv, NEW c \in Command
  PROVE  /\ cmd \in [Command -> Commands] /\ cmd[c] \in Commands
         /\ PlaceFits(cmd[c]) /\ Timely(cmd[c]) /\ Knows(cmd[c], secret, secretFile)
         /\ cmd[c].since \in Nat /\ cmd[c].since <= now /\ cmd[c].held \in 0 .. MaxRotations
         /\ cmd[c].op \in Operation /\ cmd[c].tok \in Time
         /\ now \in Nat /\ now <= MaxClock /\ secret \in Nat /\ secretFile \in 0 .. MaxRotations
         /\ secretFile <= secret /\ tokenFile \in Time /\ humanFile \in Time
         /\ 0 \in Time /\ now + Life \in Time
<1>1. cmd \in [Command -> Commands] /\ cmd[c] \in Commands /\ CommandOK(cmd[c], now, secret, secretFile)
  BY DEF ClientIInv, ClientTypes
<1>2. /\ now \in Nat /\ now <= MaxClock /\ secret \in Nat /\ secretFile \in 0 .. MaxRotations
      /\ secretFile <= secret /\ tokenFile \in Time /\ humanFile \in Time
  BY Bounds DEF ClientIInv, ClientTypes
<1>3. 0 \in Time /\ now + Life \in Time
  BY <1>2, Bounds DEF Time
<1>4. /\ cmd[c].since \in Nat /\ cmd[c].held \in 0 .. MaxRotations
      /\ cmd[c].op \in Operation /\ cmd[c].tok \in Time
  BY <1>1, Bounds DEF Commands
<1> QED BY <1>1, <1>2, <1>3, <1>4 DEF CommandOK, Fits

\* The command goes on at another place with all it has.
LEMMA ToKeeps ==
  ASSUME ClientIInv, NEW c \in Command, ~ Ended(c), Frame(c), NEW place \in Place, To(c, place),
         \A q \in Commands :
           Is(q, cmd[c], place, cmd[c].held, cmd[c].tok, cmd[c].whose, cmd[c].tries)
             => Fits(q, secret, secretFile')
  PROVE  ClientIInv'
<1>1. Becomes(c, place, cmd[c].held, cmd[c].tok, cmd[c].whose, cmd[c].tries)
  BY AtWork, Replaced
<1> QED BY <1>1, GoesOn

LEMMA SecretKeeps ==
  ASSUME ClientIInv, NEW c \in Command,
         ReadSecret(c) \/ Verify(c) \/ LookUp(c) \/ EmptySecret(c) \/ WriteSecret(c) \/ BindClient(c)
  PROVE  ClientIInv'
<1> DEFINE x == cmd[c]
<1>1. /\ ~ Ended(c)
      /\ x.pc \in {"read secret", "verify", "rotate", "empty secret", "write secret", "bind"}
  BY DEF ReadSecret, Verify, LookUp, EmptySecret, WriteSecret, BindClient, In, Ended
<1>2. /\ x.op \in {"hydra", "force"} /\ Rotates(c)
      /\ x.pc \in {"read secret", "verify"} => x.op = "hydra"
  BY <1>1, AtWork DEF PlaceFits, SecretPlaces, Rotates
<1>3. UNCHANGED <<World, files>> => Frame(c) /\ secretFile' = secretFile
  BY QuietFrame
<1>4. {"rotate", "verify", "bind", "create", "replace", "write secret"} \subseteq Place
  BY DEF Place, SecretPlaces
<1>5. Knows(x, secret, secretFile) /\ secretFile <= secret /\ secret \in Nat
        /\ secretFile \in 0 .. MaxRotations /\ x.held \in 0 .. MaxRotations
  BY AtWork
\* At these places nothing is asked of an operation but that it rotates.
<1>6. ASSUME NEW q, NEW place, q.pc = place, q.op = x.op,
             place \in {"rotate", "verify", "bind", "create", "replace", "write secret"},
             place = "verify" => x.op = "hydra"
      PROVE  PlaceFits(q) /\ Timely(q)
  BY <1>2, <1>6 DEF PlaceFits, Timely, SecretPlaces, MintPlaces, LoginPlaces, HumanCommands
<1>7. CASE ReadSecret(c)
  <2> DEFINE place == IF secretFile = 0 THEN "rotate" ELSE "verify"
  <2>1. cmd' = [cmd EXCEPT ![c].held = secretFile, ![c].pc = place] /\ Frame(c)
          /\ secretFile' = secretFile /\ x.op = "hydra"
    BY <1>2, <1>3, <1>7 DEF ReadSecret, In
  <2>2. /\ secretFile = 0 => place = "rotate"
        /\ secretFile # 0 => place = "verify"
    OBVIOUS
  <2> HIDE DEF place
  <2>3. Becomes(c, place, secretFile, x.tok, x.whose, x.tries)
    BY <1>4, <1>5, <2>1, <2>2, AtWork, Replaced
  <2>4. \A q \in Commands : Is(q, x, place, secretFile, x.tok, x.whose, x.tries)
            => Fits(q, secret, secretFile')
    BY <1>5, <1>6, <2>1, <2>2 DEF Is, Fits, Knows
  <2> QED BY <1>1, <2>1, <2>3, <2>4, GoesOn
<1>8. CASE Verify(c)
  <2>1. Frame(c) /\ secretFile' = secretFile /\ x.pc = "verify" /\ x.op = "hydra"
    BY <1>2, <1>3, <1>8 DEF Verify, In
  <2>2. CASE To(c, "bind") /\ x.held = secret
    <3>1. \A q \in Commands : Is(q, x, "bind", x.held, x.tok, x.whose, x.tries)
              => Fits(q, secret, secretFile')
      BY <1>5, <1>6, <2>1, <2>2 DEF Is, Fits, Knows
    <3> QED BY <1>1, <1>4, <2>1, <2>2, <3>1, ToKeeps
  <2>3. CASE To(c, "rotate") /\ x.held # secret
    <3>1. x.held < secret
      <4>1. x.held <= secret
        BY <1>5 DEF Knows
      <4>2. x.held \in Nat /\ secret \in Nat
        BY <1>5, Bounds
      <4> HIDE DEF x
      <4> QED BY <2>3, <4>1, <4>2
    <3>2. \A q \in Commands : Is(q, x, "rotate", x.held, x.tok, x.whose, x.tries)
              => Fits(q, secret, secretFile')
      BY <1>5, <1>6, <2>1, <3>1 DEF Is, Fits, Knows
    <3> QED BY <1>1, <1>4, <2>1, <2>3, <3>2, ToKeeps
  <2>4. CASE Lose(c)
    BY <2>1, <2>4, LoseKeeps
  <2> QED BY <1>8, <2>2, <2>3, <2>4 DEF Verify
<1>9. CASE LookUp(c)
  <2>1. Frame(c) /\ secretFile' = secretFile /\ x.pc = "rotate"
    BY <1>3, <1>9 DEF LookUp, In
  <2>2. ASSUME NEW place \in {"create", "replace"}, To(c, place) PROVE ClientIInv'
    <3>1. \A q \in Commands : Is(q, x, place, x.held, x.tok, x.whose, x.tries)
              => Fits(q, secret, secretFile')
      BY <1>5, <1>6, <2>1 DEF Is, Fits, Knows
    <3> QED BY <1>1, <1>4, <2>1, <2>2, <3>1, ToKeeps
  <2>3. CASE Lose(c)
    BY <2>1, <2>3, LoseKeeps
  <2> QED BY <1>9, <2>2, <2>3 DEF LookUp
<1>10. CASE EmptySecret(c)
  <2>1. Frame(c) /\ secretFile' = 0 /\ x.pc = "empty secret" /\ To(c, "write secret")
    <3>1. 0 \in 0 .. MaxRotations /\ 0 <= secret
      BY <1>5, Bounds
    <3>2. UNCHANGED World /\ tokenFile' = tokenFile /\ humanFile' = humanFile /\ secretFile' = 0
            /\ x.pc = "empty secret" /\ To(c, "write secret")
      BY <1>10 DEF EmptySecret, In
    <3> QED BY <1>2, <3>1, <3>2 DEF World, Frame, ClientIInv, ClientTypes
  <2>2. \A q \in Commands : Is(q, x, "write secret", x.held, x.tok, x.whose, x.tries)
            => Fits(q, secret, secretFile')
    BY <1>2, <1>5, <1>6, <2>1 DEF Is, Fits, Knows
  <2> QED BY <1>1, <1>4, <2>1, <2>2, ToKeeps
<1>11. CASE WriteSecret(c)
  <2>1. Frame(c) /\ secretFile' = x.held /\ x.pc = "write secret" /\ To(c, "bind")
    BY <1>2, <1>5, <1>11 DEF WriteSecret, In, World, Frame, ClientIInv, ClientTypes, Knows
  <2>2. \A q \in Commands : Is(q, x, "bind", x.held, x.tok, x.whose, x.tries)
            => Fits(q, secret, secretFile')
    BY <1>2, <1>5, <1>6, <2>1 DEF Is, Fits, Knows
  <2> QED BY <1>1, <1>4, <2>1, <2>2, ToKeeps
<1>12. CASE BindClient(c)
  <2>1. Frame(c) /\ secretFile' = secretFile /\ x.pc = "bind"
    BY <1>3, <1>12 DEF BindClient, In
  <2>2. x.alone /\ ~ x.silent => secret # 0 /\ secretFile = secret
    BY <1>2, <1>5, <2>1 DEF Is, Fits, Knows
  <2> QED BY <1>12, <2>1, <2>2, LoseKeeps, FinishKeeps DEF BindClient
<1> QED BY <1>1, <1>7, <1>8, <1>9, <1>10, <1>11, <1>12

LEMMA KeepSecretKeeps ==
  ASSUME ClientIInv, NEW c \in Command, KeepSecret(c)
  PROVE  ClientIInv'
<1>1. /\ cmd[c].pc = "replace" /\ UNCHANGED <<World, files>>
      /\ cmd' = [cmd EXCEPT ![c].silent = TRUE, ![c].pc = "bind"] \/ Lose(c)
  BY DEF KeepSecret, In
<1>2. Frame(c) /\ secretFile' = secretFile
  BY <1>1, QuietFrame
<1>3. /\ cmd[c].op \in {"hydra", "force"} /\ Rotates(c) /\ cmd[c] \in Commands
      /\ cmd[c].since <= now /\ cmd[c].held <= secret
  BY <1>1, AtWork DEF PlaceFits, SecretPlaces, Rotates, Ended, Knows
<1>4. CASE cmd' = [cmd EXCEPT ![c].silent = TRUE, ![c].pc = "bind"]
  <2> DEFINE q == [cmd[c] EXCEPT !.silent = TRUE, !.pc = "bind"]
  <2>1. /\ q \in Commands /\ q.pc = "bind" /\ q.silent /\ q.op = cmd[c].op
        /\ q.since = cmd[c].since /\ q.alone = cmd[c].alone /\ q.held = cmd[c].held
    BY <1>3 DEF Commands, Place, SecretPlaces
  <2>2. cmd' = [cmd EXCEPT ![c] = q]
    BY <1>4
  <2> HIDE DEF q
  <2>3. PlaceFits(q) /\ Timely(q)
    BY <1>3, <2>1 DEF PlaceFits, Timely, SecretPlaces, MintPlaces, LoginPlaces, HumanCommands
  <2>4. Knows(q, secret, secretFile')
    BY <1>3, <2>1 DEF Knows
  <2>5. CommandOK(q, now, secret, secretFile')
    BY <1>3, <2>1, <2>3, <2>4 DEF CommandOK, Fits
  <2> QED BY <1>2, <1>3, <2>1, <2>2, <2>5, CommandMoves DEF Frame
<1>5. CASE Lose(c)
  BY <1>2, <1>5, LoseKeeps
<1> QED BY <1>1, <1>4, <1>5

\* Of a command that does not rotate nothing is asked of the secret.
LEMMA TokenFits ==
  ASSUME NEW q, NEW s, NEW f, q.op \notin {"hydra", "force"}, q.held <= s,
         PlaceFits(q), Timely(q)
  PROVE  Fits(q, s, f)
BY DEF Fits, Knows

LEMMA TokenKeeps ==
  ASSUME ClientIInv, NEW c \in Command,
         ReadToken(c) \/ MintWith(c) \/ Mint(c) \/ EmptyToken(c) \/ WriteToken(c)
  PROVE  ClientIInv'
<1> DEFINE x == cmd[c]
<1>1. ~ Ended(c) /\ x.pc \in {"token file", "mint with", "mint", "empty token", "write token"}
  BY DEF ReadToken, MintWith, Mint, EmptyToken, WriteToken, In, Ended
<1>2. x.op \in {"token", "use", "list", "proxy"} /\ (x.pc = "token file" => x.op # "token")
  BY <1>1, AtWork DEF PlaceFits, MintPlaces
<1>3. UNCHANGED <<World, files>> => Frame(c) /\ secretFile' = secretFile
  BY QuietFrame
<1>4. {"present", "mint with", "mint", "empty token", "write token"} \subseteq Place
  BY DEF Place, MintPlaces
<1>5. /\ x.held <= secret /\ secretFile <= secret /\ x.since <= now /\ x.since \in Nat /\ now \in Nat
      /\ secretFile \in 0 .. MaxRotations /\ tokenFile \in Time /\ now + Life \in Time
      /\ x.tok \in Time
      /\ x.op \in {"use", "proxy"} => x.whose = "agent"
  BY AtWork DEF Knows, PlaceFits
<1>6. ASSUME NEW q, NEW place, q.pc = place, q.op = x.op, q.held <= secret,
             place \in {"present", "mint with", "mint", "empty token", "write token"},
             place = "present" => x.op # "token",
             q.whose \in {x.whose, "agent"},
             place \in {"present", "empty token", "write token"} => q.tok > q.since + Skew
      PROVE  Fits(q, secret, secretFile')
  <2>1. PlaceFits(q)
    BY <1>2, <1>5, <1>6 DEF PlaceFits, SecretPlaces, MintPlaces, LoginPlaces, HumanCommands
  <2>2. Timely(q)
    BY <1>6 DEF Timely
  <2> QED BY <1>2, <1>6, <2>1, <2>2, TokenFits
<1>7. CASE ReadToken(c)
  <2> DEFINE place == IF Live(tokenFile) THEN "present" ELSE "mint with"
  <2>1. cmd' = [cmd EXCEPT ![c].tok = tokenFile, ![c].whose = "agent", ![c].pc = place]
          /\ Frame(c) /\ x.op # "token"
    BY <1>2, <1>3, <1>7 DEF ReadToken, In
  <2>2. place \in {"present", "mint with"} /\ (place = "present" => tokenFile > x.since + Skew)
    <3>1. tokenFile \in Nat /\ Skew \in Nat
      BY <1>5, Bounds DEF Time
    <3>2. Live(tokenFile) => tokenFile > x.since + Skew
      <4> HIDE DEF x
      <4> QED BY <1>5, <3>1 DEF Live
    <3> QED BY <3>2
  <2> HIDE DEF place
  <2>3. Becomes(c, place, x.held, tokenFile, "agent", x.tries)
    BY <1>4, <1>5, <2>1, <2>2, AtWork, Replaced
  <2>4. \A q \in Commands : Is(q, x, place, x.held, tokenFile, "agent", x.tries)
                              => Fits(q, secret, secretFile')
    BY <1>5, <1>6, <2>1, <2>2 DEF Is
  <2> QED BY <1>1, <2>1, <2>3, <2>4, GoesOn
<1>8. CASE MintWith(c)
  <2>1. Frame(c) /\ secretFile' = secretFile
    BY <1>3, <1>8 DEF MintWith
  <2>2. CASE cmd' = [cmd EXCEPT ![c].held = secretFile, ![c].pc = "mint"]
    <3>1. Becomes(c, "mint", secretFile, x.tok, x.whose, x.tries)
      BY <1>4, <1>5, <2>2, AtWork, Replaced
    <3>2. \A q \in Commands : Is(q, x, "mint", secretFile, x.tok, x.whose, x.tries)
                                => Fits(q, secret, secretFile')
      BY <1>5, <1>6 DEF Is
    <3> QED BY <1>1, <2>1, <3>1, <3>2, GoesOn
  <2>3. CASE Lose(c)
    BY <2>1, <2>3, LoseKeeps
  <2> QED BY <1>8, <2>2, <2>3 DEF MintWith
<1>9. CASE Mint(c)
  <2>1. Frame(c)
    BY <1>3, <1>9 DEF Mint
  <2>2. CASE cmd' = [cmd EXCEPT ![c].tok = now + Life, ![c].pc = "empty token"]
    <3>1. Becomes(c, "empty token", x.held, now + Life, x.whose, x.tries)
      BY <1>4, <1>5, <2>2, AtWork, Replaced
    <3>2. now + Life > x.since + Skew
      BY <1>5, Bounds
    <3>3. \A q \in Commands : Is(q, x, "empty token", x.held, now + Life, x.whose, x.tries)
                                => Fits(q, secret, secretFile')
      BY <1>5, <1>6, <3>2 DEF Is
    <3> QED BY <1>1, <2>1, <3>1, <3>3, GoesOn
  <2>3. CASE Lose(c)
    BY <2>1, <2>3, LoseKeeps
  <2> QED BY <1>9, <2>2, <2>3 DEF Mint
<1>10. CASE EmptyToken(c)
  <2>1. Frame(c) /\ x.pc = "empty token" /\ To(c, "write token")
    <3>1. UNCHANGED World /\ secretFile' = secretFile /\ tokenFile' = 0 /\ humanFile' = humanFile
            /\ x.pc = "empty token" /\ To(c, "write token")
      BY <1>10 DEF EmptyToken, In
    <3> QED BY <3>1, AtWork DEF World, Frame, ClientIInv, ClientTypes
  <2>2. x.tok > x.since + Skew
    BY <2>1, AtWork DEF Timely
  <2>3. \A q \in Commands : Is(q, x, "write token", x.held, x.tok, x.whose, x.tries)
                              => Fits(q, secret, secretFile')
    BY <1>5, <1>6, <2>2 DEF Is
  <2> QED BY <1>1, <1>4, <2>1, <2>3, ToKeeps
<1>11. CASE WriteToken(c)
  <2>1. Frame(c) /\ x.pc = "write token"
    <3>1. UNCHANGED World /\ secretFile' = secretFile /\ tokenFile' = x.tok /\ humanFile' = humanFile
            /\ x.pc = "write token"
      BY <1>11 DEF WriteToken, In
    <3> QED BY <1>5, <3>1, AtWork DEF World, Frame, ClientIInv, ClientTypes
  <2>2. CASE x.op = "token"
    BY <1>11, <2>1, <2>2, FinishKeeps DEF WriteToken
  <2>3. CASE x.op # "token"
    <3>1. x.tok > x.since + Skew
      BY <2>1, AtWork DEF Timely
    <3>2. \A q \in Commands : Is(q, x, "present", x.held, x.tok, x.whose, x.tries)
                                => Fits(q, secret, secretFile')
      BY <1>5, <1>6, <2>3, <3>1 DEF Is
    <3> QED BY <1>1, <1>4, <1>11, <2>1, <2>3, <3>2, ToKeeps DEF WriteToken
  <2> QED BY <2>2, <2>3
<1> QED BY <1>7, <1>8, <1>9, <1>10, <1>11

\* Where a command with a human's token goes: what it must have there.
LEMMA HumanFits ==
  ASSUME NEW x, PlaceFits(x), NEW q, NEW s, NEW f, q.op = x.op, q.held <= s,
         x.pc \in {"human file", "password", "totp", "exchange", "empty human", "write human",
                   "confirm", "trade"},
         q.whose = x.whose \/ (x.op = "login" /\ q.whose = "human"),
         \/ q.pc \in {"totp", "exchange"} /\ x.pc \in {"password", "totp"}
         \/ q.pc = "password" /\ x.pc = "human file"
         \/ q.pc \in {"empty human", "write human"} /\ q.tok > q.since + Skew
              /\ x.pc \in {"exchange", "trade", "empty human"}
         \/ q.pc \in {"confirm", "present"} /\ q.tok > q.since + Skew
              /\ x.op \in HumanCommands \cup {"list"}
         \/ q.pc = "shutdown" /\ x.op = "login"
         \/ q.pc = "token file" /\ x.op = "list"
  PROVE  Fits(q, s, f)
<1>1. x.op \in HumanCommands \cup {"list", "relogin", "login"}
  BY DEF PlaceFits, LoginPlaces
<1>2. PlaceFits(q)
  BY <1>1 DEF PlaceFits, SecretPlaces, MintPlaces, LoginPlaces, HumanCommands
<1>3. Timely(q)
  BY DEF Timely
<1> QED BY <1>1, <1>2, <1>3, TokenFits DEF HumanCommands

LEMMA NoHumanKeeps ==
  ASSUME ClientIInv, NEW c \in Command, Frame(c), NoHuman(c),
         cmd[c].pc \in {"password", "totp", "exchange"}
  PROVE  ClientIInv'
<1>1. CASE cmd[c].op = "list"
  <2>1. ~ Ended(c) /\ "token file" \in Place /\ To(c, "token file")
    BY <1>1 DEF Ended, Place, NoHuman
  <2>2. PlaceFits(cmd[c]) /\ cmd[c].held <= secret
    BY AtWork DEF Knows
  <2>3. \A q \in Commands :
          Is(q, cmd[c], "token file", cmd[c].held, cmd[c].tok, cmd[c].whose, cmd[c].tries)
            => Fits(q, secret, secretFile')
    BY <1>1, <2>2, HumanFits DEF Is
  <2> QED BY <2>1, <2>3, ToKeeps
<1>2. CASE cmd[c].op # "list"
  BY <1>2, LoseKeeps DEF NoHuman
<1> QED BY <1>1, <1>2

LEMMA HumanKeeps ==
  ASSUME ClientIInv, NEW c \in Command,
         \/ ReadHuman(c) \/ Password(c) \/ TryCode(c) \/ Exchange(c)
         \/ EmptyHuman(c) \/ WriteHuman(c) \/ Confirm(c)
  PROVE  ClientIInv'
<1> DEFINE x == cmd[c]
<1>1. /\ ~ Ended(c)
      /\ x.pc \in {"human file", "password", "totp", "exchange", "empty human", "write human",
                   "confirm"}
  BY DEF ReadHuman, Password, TryCode, Exchange, EmptyHuman, WriteHuman, Confirm, In, Ended
<1>2. UNCHANGED <<World, files>> => Frame(c)
  BY QuietFrame
<1>3. {"confirm", "password", "totp", "exchange", "empty human", "write human", "present",
       "shutdown"} \subseteq Place
  BY DEF Place, LoginPlaces
<1>12. /\ x.since <= now /\ x.since \in Nat /\ now \in Nat /\ humanFile \in Time
       /\ now + Life \in Time /\ x.tok \in Time /\ 3 \in 0 .. 3
  BY AtWork
<1>4. /\ x.held <= secret /\ PlaceFits(x)
      /\ x.pc \in {"human file", "confirm"} => x.op \in HumanCommands \cup {"list"}
      /\ x.pc \in {"empty human", "write human", "confirm"} => x.tok > x.since + Skew
      /\ x.pc \in {"empty human", "write human"} =>
           x.op \in HumanCommands \cup {"list", "relogin", "login"}
  BY AtWork DEF Knows, PlaceFits, Timely
<1>5. CASE ReadHuman(c)
  <2> DEFINE place == IF Live(humanFile) THEN "confirm" ELSE "password"
  <2>1. cmd' = [cmd EXCEPT ![c].tok = humanFile, ![c].pc = place] /\ Frame(c) /\ x.pc = "human file"
    BY <1>2, <1>5 DEF ReadHuman, In
  <2>2. place \in {"confirm", "password"} /\ (place = "confirm" => humanFile > x.since + Skew)
    <3>1. humanFile \in Nat /\ Skew \in Nat
      BY <1>12, Bounds DEF Time
    <3>2. Live(humanFile) => humanFile > x.since + Skew
      <4> HIDE DEF x
      <4> QED BY <1>12, <3>1 DEF Live
    <3> QED BY <3>2
  <2> HIDE DEF place
  <2>3. Becomes(c, place, x.held, humanFile, x.whose, x.tries)
    BY <1>3, <1>12, <2>1, <2>2, AtWork, Replaced
  <2>4. \A q \in Commands : Is(q, x, place, x.held, humanFile, x.whose, x.tries)
                              => Fits(q, secret, secretFile')
    BY <1>4, <2>1, <2>2, HumanFits DEF Is
  <2> QED BY <1>1, <2>1, <2>3, <2>4, GoesOn
<1>6. CASE Password(c)
  <2>1. Frame(c) /\ x.pc = "password"
    BY <1>2, <1>6 DEF Password, In
  <2>2. CASE cmd' = [cmd EXCEPT ![c].tries = 3, ![c].pc = "totp"]
    <3>1. Becomes(c, "totp", x.held, x.tok, x.whose, 3)
      BY <1>3, <1>12, <2>2, AtWork, Replaced
    <3>2. \A q \in Commands : Is(q, x, "totp", x.held, x.tok, x.whose, 3)
                                => Fits(q, secret, secretFile')
      BY <1>4, <2>1, HumanFits DEF Is
    <3> QED BY <1>1, <2>1, <3>1, <3>2, GoesOn
  <2>3. CASE NoHuman(c)
    BY <2>1, <2>3, NoHumanKeeps
  <2> QED BY <1>6, <2>2, <2>3 DEF Password
<1>7. CASE TryCode(c)
  <2>1. Frame(c) /\ x.pc = "totp"
    BY <1>2, <1>7 DEF TryCode, In
  <2>2. CASE To(c, "exchange")
    <3>1. \A q \in Commands : Is(q, x, "exchange", x.held, x.tok, x.whose, x.tries)
                                => Fits(q, secret, secretFile')
      BY <1>4, <2>1, HumanFits DEF Is
    <3> QED BY <1>1, <1>3, <2>1, <2>2, <3>1, ToKeeps
  <2>3. CASE x.tries > 1 /\ cmd' = [cmd EXCEPT ![c].tries = @ - 1]
    <3> DEFINE tries == x.tries - 1
    <3>1. x \in Commands /\ cmd \in [Command -> Commands] /\ tries \in 0 .. 3
      BY <2>3, AtWork DEF Commands
    <3>2. cmd' = [cmd EXCEPT ![c] = [x EXCEPT !.tries = tries]]
      BY <2>3, <3>1
    <3>3. [x EXCEPT !.tries = tries] = [x EXCEPT !.tries = tries, !.pc = "totp"]
      BY <2>1, <3>1 DEF Commands
    <3>4. cmd' = [cmd EXCEPT ![c].tries = tries, ![c].pc = "totp"]
      BY <3>1, <3>2, <3>3
    <3> HIDE DEF tries
    <3>5. Becomes(c, "totp", x.held, x.tok, x.whose, tries)
      BY <1>3, <3>1, <3>4, Replaced
    <3>6. \A q \in Commands : Is(q, x, "totp", x.held, x.tok, x.whose, tries)
                                => Fits(q, secret, secretFile')
      BY <1>4, <2>1, HumanFits DEF Is
    <3> QED BY <1>1, <2>1, <3>5, <3>6, GoesOn
  <2>4. CASE NoHuman(c)
    BY <2>1, <2>4, NoHumanKeeps
  <2> QED BY <1>7, <2>2, <2>3, <2>4 DEF TryCode
<1>8. CASE Exchange(c)
  <2>1. Frame(c) /\ x.pc = "exchange"
    BY <1>2, <1>8 DEF Exchange, In
  <2>2. CASE cmd' = [cmd EXCEPT ![c].tok = now + Life, ![c].pc = "empty human"]
    <3>1. Becomes(c, "empty human", x.held, now + Life, x.whose, x.tries)
      BY <1>3, <1>12, <2>2, AtWork, Replaced
    <3>2. now + Life > x.since + Skew
      BY <1>12, Bounds
    <3>3. \A q \in Commands : Is(q, x, "empty human", x.held, now + Life, x.whose, x.tries)
                                => Fits(q, secret, secretFile')
      BY <1>4, <2>1, <3>2, HumanFits DEF Is
    <3> QED BY <1>1, <2>1, <3>1, <3>3, GoesOn
  <2>3. CASE NoHuman(c)
    BY <2>1, <2>3, NoHumanKeeps
  <2> QED BY <1>8, <2>2, <2>3 DEF Exchange
<1>9. CASE EmptyHuman(c)
  <2>1. Frame(c) /\ x.pc = "empty human" /\ To(c, "write human")
    <3>1. UNCHANGED World /\ secretFile' = secretFile /\ tokenFile' = tokenFile /\ humanFile' = 0
            /\ x.pc = "empty human" /\ To(c, "write human")
      BY <1>9 DEF EmptyHuman, In
    <3> QED BY <3>1, AtWork DEF World, Frame, ClientIInv, ClientTypes
  <2>2. \A q \in Commands : Is(q, x, "write human", x.held, x.tok, x.whose, x.tries)
                              => Fits(q, secret, secretFile')
    BY <1>4, <2>1, HumanFits DEF Is
  <2> QED BY <1>1, <1>3, <2>1, <2>2, ToKeeps
<1>10. CASE WriteHuman(c)
  <2>1. Frame(c) /\ x.pc = "write human"
    <3>1. UNCHANGED World /\ secretFile' = secretFile /\ tokenFile' = tokenFile /\ humanFile' = x.tok
            /\ x.pc = "write human"
      BY <1>10 DEF WriteHuman, In
    <3> QED BY <1>12, <3>1, AtWork DEF World, Frame, ClientIInv, ClientTypes
  <2>2. CASE x.op = "login"
    <3>1. To(c, "shutdown")
      BY <1>10, <2>2 DEF WriteHuman
    <3>2. \A q \in Commands : Is(q, x, "shutdown", x.held, x.tok, x.whose, x.tries)
                                => Fits(q, secret, secretFile')
      BY <1>4, <2>1, <2>2, HumanFits DEF Is
    <3> QED BY <1>1, <1>3, <2>1, <3>1, <3>2, ToKeeps
  <2>3. CASE x.op = "relogin"
    BY <1>10, <2>1, <2>3, FinishKeeps DEF WriteHuman
  <2>4. CASE x.op \notin {"login", "relogin"}
    <3>1. To(c, "confirm")
      BY <1>10, <2>4 DEF WriteHuman
    <3>2. \A q \in Commands : Is(q, x, "confirm", x.held, x.tok, x.whose, x.tries)
                                => Fits(q, secret, secretFile')
      BY <1>4, <2>1, <2>4, HumanFits DEF Is
    <3> QED BY <1>1, <1>3, <2>1, <3>1, <3>2, ToKeeps
  <2> QED BY <2>2, <2>3, <2>4
<1>11. CASE Confirm(c)
  <2>1. Frame(c) /\ x.pc = "confirm"
    BY <1>2, <1>11 DEF Confirm, In
  <2>2. \A q \in Commands : Is(q, x, "present", x.held, x.tok, x.whose, x.tries)
                              => Fits(q, secret, secretFile')
    BY <1>4, <2>1, HumanFits DEF Is
  <2> QED BY <1>1, <1>3, <1>11, <2>1, <2>2, ToKeeps, LoseKeeps DEF Confirm
<1> QED BY <1>1, <1>5, <1>6, <1>7, <1>8, <1>9, <1>10, <1>11
LEMMA PresentKeeps ==
  ASSUME ClientIInv, NEW c \in Command,
         Use(c) \/ List(c) \/ Admin(c) \/ Present(c, {"item"}) \/ Serve(c)
  PROVE  ClientIInv'
<1>1. cmd[c].pc = "present" /\ ~ Ended(c) /\ Frame(c)
  BY QuietFrame DEF Use, List, Admin, Serve, Present, In, Ended
<1>2. /\ cmd[c].op \in HumanCommands \cup {"list", "use", "proxy"} /\ cmd[c].held <= secret
      /\ PlaceFits(cmd[c])
  BY <1>1, AtWork DEF PlaceFits, Knows
<1>3. ASSUME Finish(c) PROVE ClientIInv'
  BY <1>1, <1>2, <1>3, FinishKeeps DEF HumanCommands
<1>4. ASSUME Lose(c) PROVE ClientIInv'
  BY <1>1, <1>4, LoseKeeps
<1>5. ASSUME To(c, "serving"), cmd[c].op = "proxy" PROVE ClientIInv'
  <2>1. ASSUME NEW q \in Commands,
               Is(q, cmd[c], "serving", cmd[c].held, cmd[c].tok, cmd[c].whose, cmd[c].tries)
        PROVE  Fits(q, secret, secretFile')
    <3>1. q.pc = "serving" /\ q.op = "proxy" /\ q.held <= secret /\ q.whose = "agent"
      BY <1>1, <1>2, <1>5, <2>1 DEF Is, PlaceFits
    <3>2. PlaceFits(q)
      BY <3>1 DEF PlaceFits, SecretPlaces, MintPlaces, LoginPlaces, HumanCommands
    <3>3. Timely(q)
      BY <3>1 DEF Timely
    <3> QED BY <3>1, <3>2, <3>3, TokenFits
  <2>2. "serving" \in Place
    BY DEF Place
  <2> QED BY <1>1, <1>5, <2>1, <2>2, ToKeeps
<1> QED BY <1>3, <1>4, <1>5 DEF Use, List, Admin, Serve, Present

\* The place a browser login goes to with what it has.
LEMMA LoginGoesOn ==
  ASSUME ClientIInv, NEW c \in Command, Frame(c), cmd[c].pc \in LoginPlaces,
         NEW place \in LoginPlaces, To(c, place)
  PROVE  ClientIInv'
<1>1. cmd[c].op = "login" /\ cmd[c].held <= secret /\ ~ Ended(c) /\ place \in Place
  BY AtWork DEF PlaceFits, Knows, LoginPlaces, Ended, Place
<1>2. ASSUME NEW q \in Commands,
             Is(q, cmd[c], place, cmd[c].held, cmd[c].tok, cmd[c].whose, cmd[c].tries)
      PROVE  Fits(q, secret, secretFile')
  <2>1. q.pc \in LoginPlaces /\ q.op = "login" /\ q.held <= secret
    BY <1>1, <1>2 DEF Is
  <2>2. PlaceFits(q)
    BY <2>1 DEF PlaceFits, SecretPlaces, MintPlaces, LoginPlaces, HumanCommands
  <2>3. Timely(q)
    BY <2>1 DEF Timely, LoginPlaces
  <2> QED BY <2>1, <2>2, <2>3, TokenFits
<1> QED BY <1>1, <1>2, ToKeeps

LEMMA LoginKeeps ==
  ASSUME ClientIInv, NEW c \in Command,
         TakeError(c) \/ TakeCode(c) \/ TimeOut(c) \/ Trade(c) \/ Shutdown(c)
  PROVE  ClientIInv'
<1>1. cmd[c].pc \in LoginPlaces
  BY DEF TakeError, TakeCode, TimeOut, Trade, Shutdown, In, LoginPlaces
<1>2. /\ cmd[c].op = "login" /\ cmd[c].held <= secret /\ PlaceFits(cmd[c]) /\ ~ Ended(c)
  BY <1>1, AtWork DEF PlaceFits, Knows, LoginPlaces, Ended
<1>3. ASSUME UNCHANGED <<now, secret, files, begins>>, callback' \in Callbacks PROVE Frame(c)
  BY <1>3 DEF ClientIInv, ClientTypes, files, Frame
<1>4. callback \in Callbacks /\ NoCallback \in Callbacks
  BY DEF ClientIInv, ClientTypes, Callbacks, NoCallback
<1>5. CASE TakeError(c)
  <2>1. callback' \in Callbacks
    BY <1>4, <1>5 DEF TakeError, Callbacks
  <2>2. Frame(c)
    BY <1>3, <1>5, <2>1 DEF TakeError
  <2> QED BY <1>1, <1>5, <2>2, LoginGoesOn DEF TakeError, LoginPlaces
<1>6. CASE TakeCode(c)
  <2>1. callback' \in Callbacks
    BY <1>4, <1>6 DEF TakeCode, Callbacks
  <2>2. Frame(c)
    BY <1>3, <1>6, <2>1 DEF TakeCode
  <2> QED BY <1>1, <1>6, <2>2, LoginGoesOn DEF TakeCode, LoginPlaces
<1>7. CASE TimeOut(c)
  BY <1>1, <1>7, QuietFrame, LoginGoesOn DEF TimeOut, LoginPlaces
<1>8. CASE Trade(c)
  <2>1. Frame(c) /\ cmd[c].pc = "trade"
    BY <1>8, QuietFrame DEF Trade, In
  <2>2. CASE cmd' = [cmd EXCEPT ![c].tok = now + Life, ![c].whose = "human", ![c].pc = "empty human"]
    <3>1. Becomes(c, "empty human", cmd[c].held, now + Life, "human", cmd[c].tries)
      BY <2>2, AtWork, Replaced DEF Place
    <3>2. now + Life > cmd[c].since + Skew
      BY Bounds, AtWork
    <3>3. \A q \in Commands : Is(q, cmd[c], "empty human", cmd[c].held, now + Life, "human", cmd[c].tries)
                                => Fits(q, secret, secretFile')
      BY <1>2, <2>1, <3>2, HumanFits DEF Is
    <3> QED BY <1>2, <2>1, <3>1, <3>3, GoesOn
  <2>3. CASE To(c, "shutdown")
    BY <1>1, <2>1, <2>3, LoginGoesOn DEF LoginPlaces
  <2> QED BY <1>8, <2>2, <2>3 DEF Trade
<1>9. CASE Shutdown(c)
  <2>1. Frame(c) /\ Finish(c)
    BY <1>3, <1>4, <1>9 DEF Shutdown
  <2> QED BY <1>2, <2>1, FinishKeeps
<1> QED BY <1>5, <1>6, <1>7, <1>8, <1>9

LEMMA StopKeeps ==
  ASSUME ClientIInv, NEW c \in Command, StopCommand(c)
  PROVE  ClientIInv'
<1>1. callback' \in Callbacks
  BY DEF ClientIInv, ClientTypes, Callbacks, NoCallback, StopCommand
<1>2. Frame(c)
  BY <1>1 DEF ClientIInv, ClientTypes, files, Frame, StopCommand
<1> QED BY <1>2, LoseKeeps DEF StopCommand

-----------------------------------------------------------------------------
(* A new secret: what the others hold is of an older one.                  *)

\* A command that is not alone, or no more, stands whatever the secret becomes.
LEMMA StaleStands ==
  ASSUME ClientIInv, NEW d \in Command, NEW q, ~ q.alone,
         q.pc = cmd[d].pc, q.op = cmd[d].op, q.since = cmd[d].since, q.held = cmd[d].held,
         q.tok = cmd[d].tok, q.whose = cmd[d].whose,
         NEW s \in Nat, secret <= s
  PROVE  CommandOK(q, now, s, secretFile)
<1>1. /\ PlaceFits(cmd[d]) /\ Timely(cmd[d]) /\ Knows(cmd[d], secret, secretFile)
      /\ cmd[d].since <= now
  BY AtWork
<1>2. cmd[d].held \in Nat /\ secret \in Nat
  BY AtWork, Bounds
<1>3. PlaceFits(q)
  BY <1>1 DEF PlaceFits
<1>4. Timely(q)
  BY <1>1 DEF Timely
<1>5. Knows(q, s, secretFile)
  <2> DEFINE h == cmd[d].held
  <2>1. h <= secret /\ (q.op = "hydra" /\ q.pc \in {"rotate", "create", "replace"} => h = 0 \/ h < secret)
    BY <1>1 DEF Knows
  <2>2. h \in Nat /\ secret \in Nat
    BY <1>2
  <2>3. q.held = h
    OBVIOUS
  <2> HIDE DEF h
  <2>4. h <= s /\ (h < secret => h < s)
    BY <2>1, <2>2
  <2> QED BY <2>1, <2>3, <2>4 DEF Knows
<1> QED BY <1>1, <1>3, <1>4, <1>5 DEF CommandOK, Fits

\* The secret may change while every command stands with it.
LEMMA SecretMoves ==
  ASSUME ClientIInv, secret' \in 0 .. MaxRotations, secret <= secret',
         UNCHANGED <<now, callback, begins, files>>,
         cmd' \in [Command -> Commands],
         \A d \in Command : CommandOK(cmd'[d], now, secret', secretFile),
         \A d \in Command : cmd'[d].alone => cmd[d].alone,
         \A d \in Command : cmd'[d].op \in {"hydra", "force"} /\ cmd'[d].pc \notin {"idle", "done"}
                              => Rotates(d)
  PROVE  ClientIInv'
<1>1. ClientTypes'
  <2>1. secretFile <= secret'
    BY Bounds DEF ClientIInv, ClientTypes
  <2> QED BY <2>1 DEF ClientIInv, ClientTypes, files
<1>2. Exclusive'
  BY DEF ClientIInv, Exclusive, Rotates, Ended
<1>3. (\A d \in Command : CommandOK(cmd[d], now, secret, secretFile))'
  BY AllCommandsOK DEF files
<1> QED BY <1>1, <1>2, <1>3 DEF ClientIInv

\* A rotation that Hydra grants, with or without its answer, is justified.
LEMMA MayRotateFacts ==
  ASSUME ClientIInv, NEW c \in Command, In(c, "create") \/ In(c, "replace")
  PROVE  /\ Rotates(c) /\ cmd[c].op \in {"hydra", "force"}
         /\ \A d \in Command \ {c} : ~ cmd[d].alone
         /\ cmd[c].op = "hydra" => cmd[c].held = 0 \/ cmd[c].held # secret
<1>1. cmd[c].pc \in {"create", "replace"}
  BY DEF In
<1>2. cmd[c].op \in {"hydra", "force"} /\ Rotates(c)
  BY <1>1, AtWork DEF PlaceFits, SecretPlaces, Rotates, Ended
<1>3. \A d \in Command \ {c} : ~ cmd[d].alone
  BY <1>2 DEF ClientIInv, Exclusive
<1>4. cmd[c].op = "hydra" => cmd[c].held = 0 \/ cmd[c].held # secret
  <2> DEFINE h == cmd[c].held
  <2>1. cmd[c].op = "hydra" => h = 0 \/ h < secret
    BY <1>1, AtWork DEF Knows
  <2>2. h \in Nat /\ secret \in Nat
    BY Bounds, AtWork
  <2> HIDE DEF h
  <2>3. h < secret => h # secret
    BY <2>2
  <2> QED BY <2>1, <2>3 DEF h
<1> QED BY <1>2, <1>3, <1>4

LEMMA RotateKeeps ==
  ASSUME ClientIInv, NEW c \in Command, Rotate(c)
  PROVE  ClientIInv'
<1> DEFINE s == secret + 1
           r == [cmd[c] EXCEPT !.held = s, !.pc = "empty secret"]
           stale(d) == [cmd[d] EXCEPT !.alone = FALSE]
<1>1. /\ cmd \in [Command -> Commands] /\ secret \in Nat /\ cmd[c].since <= now
  BY AtWork
<1>2. Rotates(c) /\ cmd[c].op \in {"hydra", "force"}
  BY MayRotateFacts DEF Rotate, MayRotate
<1>3. s \in 0 .. MaxRotations /\ s \in Nat /\ secret <= s /\ s # 0
  BY <1>1, Bounds DEF Rotate, MayRotate
<1>4. secret' = s /\ UNCHANGED <<now, callback, begins, files>>
        /\ cmd' = [d \in Command |-> IF d # c THEN stale(d) ELSE r]
  BY DEF Rotate
<1>5. /\ r \in Commands /\ r.op = cmd[c].op /\ r.since = cmd[c].since /\ r.alone = cmd[c].alone
      /\ r.held = s /\ r.pc = "empty secret" /\ r.tok = cmd[c].tok
  <2>1. "empty secret" \in Place
    BY DEF Place, SecretPlaces
  <2>2. cmd[c] \in Commands /\ s \in 0 .. MaxRotations
    BY <1>1, <1>3
  <2> HIDE DEF s
  <2> QED BY <2>1, <2>2 DEF Commands
<1>6. ASSUME NEW d \in Command
      PROVE  /\ stale(d) \in Commands /\ ~ stale(d).alone
             /\ stale(d).pc = cmd[d].pc /\ stale(d).op = cmd[d].op
             /\ stale(d).since = cmd[d].since /\ stale(d).held = cmd[d].held
             /\ stale(d).tok = cmd[d].tok /\ stale(d).whose = cmd[d].whose
  <2>1. cmd[d] \in Commands
    BY <1>1
  <2> QED BY <2>1 DEF Commands
<1> HIDE DEF r, stale, s
<1>7. cmd' \in [Command -> Commands]
  BY <1>4, <1>5, <1>6
<1>8. ASSUME NEW d \in Command PROVE CommandOK(cmd'[d], now, secret', secretFile)
  <2>1. CASE d = c
    <3>1. PlaceFits(r)
      BY <1>2, <1>5 DEF PlaceFits, SecretPlaces, MintPlaces, LoginPlaces, HumanCommands
    <3>2. Timely(r)
      BY <1>5 DEF Timely
    <3>3. Knows(r, s, secretFile)
      <4>1. s <= s /\ s # 0
        BY <1>3
      <4>2. r.held = s /\ r.pc = "empty secret"
        BY <1>5
      <4> QED BY <4>1, <4>2 DEF Knows
    <3>4. r.since <= now
      <4>1. r.since = cmd[c].since
        BY <1>5
      <4> QED BY <4>1, AtWork
    <3>5. CommandOK(r, now, s, secretFile)
      BY <3>1, <3>2, <3>3, <3>4 DEF CommandOK, Fits
    <3>6. cmd'[d] = r
      BY <1>4, <2>1
    <3> QED BY <1>4, <3>5, <3>6
  <2>2. CASE d # c
    <3>1. CommandOK(stale(d), now, s, secretFile)
      BY <1>3, <1>6, StaleStands
    <3> QED BY <1>4, <2>2, <3>1
  <2> QED BY <2>1, <2>2
<1>9. \A d \in Command : /\ cmd'[d].alone => cmd[d].alone
                         /\ cmd'[d].op \in {"hydra", "force"} /\ cmd'[d].pc \notin {"idle", "done"}
                              => Rotates(d)
  BY <1>2, <1>4, <1>5, <1>6 DEF Rotates, Ended
<1> QED BY <1>3, <1>4, <1>7, <1>8, <1>9, SecretMoves

\* The waiting command is in order at any time.
LEMMA WaitingStands ==
  ASSUME ClientIInv, NEW s \in Nat, NEW f
  PROVE  Waiting \in Commands /\ ~ Waiting.alone /\ Waiting.pc = "idle" /\ CommandOK(Waiting, now, s, f)
<1>1. /\ Waiting.pc = "idle" /\ Waiting.op = "use" /\ Waiting.since = 0 /\ Waiting.held = 0
      /\ Waiting.tok = 0 /\ Waiting.whose = "agent" /\ Waiting.tries = 0
      /\ Waiting.alone = FALSE
  BY DEF Waiting
<1>2. Waiting \in Commands
  BY Bounds DEF Waiting, Commands, Place, Operation, Time
<1> HIDE DEF Waiting
<1>3. 0 <= now /\ 0 <= s
  BY Bounds DEF ClientIInv, ClientTypes
<1>4. PlaceFits(Waiting)
  BY <1>1 DEF PlaceFits, SecretPlaces, MintPlaces, LoginPlaces, HumanCommands
<1>5. Timely(Waiting)
  BY <1>1 DEF Timely
<1>6. Knows(Waiting, s, f)
  BY <1>1, <1>3 DEF Knows
<1> QED BY <1>1, <1>2, <1>3, <1>4, <1>5, <1>6 DEF CommandOK, Fits

LEMMA RotateLostKeeps ==
  ASSUME ClientIInv, NEW c \in Command, RotateLost(c)
  PROVE  ClientIInv'
<1>1. cmd \in [Command -> Commands] /\ secret \in Nat
  BY AtWork
<1>2. Rotates(c) /\ \A d \in Command \ {c} : ~ cmd[d].alone
  BY MayRotateFacts DEF RotateLost, MayRotate
<1>3. secret' \in 0 .. MaxRotations /\ secret' \in Nat /\ secret <= secret'
  <2>1. secret \in 0 .. MaxRotations
    BY DEF ClientIInv, ClientTypes
  <2> QED BY <1>1, <2>1, Bounds DEF RotateLost, MayRotate
<1>4. UNCHANGED <<now, callback, begins, files>> /\ cmd' = [cmd EXCEPT ![c] = Waiting]
  BY DEF RotateLost, Lose
<1>5. Waiting \in Commands /\ ~ Waiting.alone /\ Waiting.pc = "idle"
        /\ CommandOK(Waiting, now, secret', secretFile)
  BY <1>3, WaitingStands
<1>6. ASSUME NEW d \in Command PROVE CommandOK(cmd'[d], now, secret', secretFile)
  <2>1. CASE d = c
    BY <1>1, <1>4, <1>5, <2>1
  <2>2. CASE d # c
    <3>1. CommandOK(cmd[d], now, secret', secretFile)
      BY <1>2, <1>3, <2>2, StaleStands
    <3> QED BY <1>1, <1>4, <2>2, <3>1
  <2> QED BY <2>1, <2>2
<1>7. cmd' \in [Command -> Commands]
  BY <1>1, <1>4, <1>5
<1>8. \A d \in Command : /\ cmd'[d].alone => cmd[d].alone
                         /\ cmd'[d].op \in {"hydra", "force"} /\ cmd'[d].pc \notin {"idle", "done"}
                              => Rotates(d)
  BY <1>1, <1>2, <1>4, <1>5 DEF Rotates, Ended
<1> QED BY <1>3, <1>4, <1>6, <1>7, <1>8, SecretMoves

LEMMA RotateElsewhereKeeps ==
  ASSUME ClientIInv, RotateElsewhere
  PROVE  ClientIInv'
<1> DEFINE stale(d) == [cmd[d] EXCEPT !.alone = FALSE]
<1>1. cmd \in [Command -> Commands] /\ secret \in Nat
  BY Bounds DEF ClientIInv, ClientTypes
<1>2. secret' \in 0 .. MaxRotations /\ secret' \in Nat /\ secret <= secret'
  BY <1>1, Bounds DEF RotateElsewhere
<1>3. UNCHANGED <<now, callback, begins, files>> /\ cmd' = [d \in Command |-> stale(d)]
  BY DEF RotateElsewhere
<1>4. ASSUME NEW d \in Command
      PROVE  /\ stale(d) \in Commands /\ ~ stale(d).alone
             /\ stale(d).pc = cmd[d].pc /\ stale(d).op = cmd[d].op
             /\ stale(d).since = cmd[d].since /\ stale(d).held = cmd[d].held
             /\ stale(d).tok = cmd[d].tok /\ stale(d).whose = cmd[d].whose
  <2>1. cmd[d] \in Commands
    BY <1>1
  <2> QED BY <2>1 DEF Commands
<1> HIDE DEF stale
<1>5. cmd' \in [Command -> Commands]
  BY <1>3, <1>4
<1>6. ASSUME NEW d \in Command PROVE CommandOK(cmd'[d], now, secret', secretFile)
  BY <1>2, <1>3, <1>4, StaleStands
<1>7. \A d \in Command : /\ cmd'[d].alone => cmd[d].alone
                         /\ cmd'[d].op \in {"hydra", "force"} /\ cmd'[d].pc \notin {"idle", "done"}
                              => Rotates(d)
  BY <1>3, <1>4 DEF Rotates, Ended
<1> QED BY <1>2, <1>3, <1>5, <1>6, <1>7, SecretMoves
-----------------------------------------------------------------------------
(* Beginning, the callbacks and the clock.                                 *)

\* Where each operation begins.
Start(op) ==
  CASE op = "hydra" -> "read secret"
    [] op = "force" -> "rotate"
    [] op = "token" -> "mint with"
    [] op \in HumanCommands \cup {"list"} -> "human file"
    [] op = "relogin" -> "password"
    [] op = "login" -> "listen"
    [] OTHER -> "token file"

LEMMA StartFits ==
  ASSUME NEW op \in Operation, NEW q, q.op = op, q.pc = Start(op),
         q.whose = (IF op \in HumanCommands \cup {"list"} THEN "human" ELSE "agent")
  PROVE  Start(op) \in Place /\ PlaceFits(q) /\ Timely(q)
           /\ Start(op) \notin {"verify", "create", "replace", "empty secret", "write secret",
                                "bind", "done"}
<1>1. \/ op = "hydra" /\ Start(op) = "read secret"
      \/ op = "force" /\ Start(op) = "rotate"
      \/ op = "token" /\ Start(op) = "mint with"
      \/ op \in HumanCommands \cup {"list"} /\ Start(op) = "human file"
      \/ op = "relogin" /\ Start(op) = "password"
      \/ op = "login" /\ Start(op) = "listen"
      \/ op \in {"use", "proxy"} /\ Start(op) = "token file"
  BY DEF Start, HumanCommands, Operation
<1>2. Start(op) \in Place
  BY <1>1 DEF Place, SecretPlaces, MintPlaces, LoginPlaces
<1>3. PlaceFits(q)
  BY <1>1 DEF PlaceFits, SecretPlaces, MintPlaces, LoginPlaces, HumanCommands
<1>4. Timely(q)
  BY <1>1 DEF Timely
<1> QED BY <1>1, <1>2, <1>3, <1>4

LEMMA BeginKeeps ==
  ASSUME ClientIInv, NEW c \in Command, NEW op \in Operation, Begin(c, op)
  PROVE  ClientIInv'
<1> DEFINE free == ~ \E d \in Command \ {c} : Rotates(d)
           r == [Waiting EXCEPT !.op = op, !.since = now, !.alone = free,
                   !.whose = IF op \in HumanCommands \cup {"list"} THEN "human" ELSE "agent",
                   !.pc = Start(op)]
           rest(d) == [cmd[d] EXCEPT !.alone = @ /\ op \notin {"hydra", "force"}]
<1>1. /\ cmd \in [Command -> Commands] /\ now \in 0 .. MaxClock /\ now \in Nat
      /\ secret \in Nat /\ secretFile \in 0 .. MaxRotations /\ begins \in Nat
  BY Bounds DEF ClientIInv, ClientTypes
<1>2. /\ r.op = op /\ r.since = now /\ r.held = 0 /\ r.pc = Start(op) /\ r.tok = 0 /\ r.tries = 0
      /\ r.whose = (IF op \in HumanCommands \cup {"list"} THEN "human" ELSE "agent")
      /\ r.alone = free
  BY DEF Waiting
<1>3. r \in Commands
  <2>1. Start(op) \in Place
    BY <1>2, StartFits
  <2>2. 0 \in 0 .. MaxRotations /\ 0 \in Time /\ 0 \in 0 .. 3
    BY Bounds DEF Time
  <2> QED BY <1>1, <2>1, <2>2 DEF Commands, Waiting
<1>4. /\ cmd' = [d \in Command |-> IF d = c THEN r ELSE rest(d)]
      /\ begins' = begins + 1 /\ begins < MaxBegins
      /\ callback' \in {callback, NoCallback} /\ UNCHANGED <<now, secret, files>>
  BY DEF Begin, Start
<1>5. ASSUME NEW d \in Command
      PROVE  /\ rest(d) \in Commands
             /\ rest(d).alone => cmd[d].alone /\ op \notin {"hydra", "force"}
             /\ rest(d).pc = cmd[d].pc /\ rest(d).op = cmd[d].op
             /\ rest(d).since = cmd[d].since /\ rest(d).held = cmd[d].held
             /\ rest(d).tok = cmd[d].tok /\ rest(d).whose = cmd[d].whose
             /\ rest(d).silent = cmd[d].silent
  <2>1. cmd[d] \in Commands
    BY <1>1
  <2> QED BY <2>1 DEF Commands
<1>6. Rotates(c)' => op \in {"hydra", "force"}
  BY <1>2, <1>4 DEF Rotates
<1> HIDE DEF r, rest
<1>7. ClientTypes'
  <2>1. cmd' \in [Command -> Commands]
    BY <1>3, <1>4, <1>5
  <2>2. begins' \in 0 .. MaxBegins
    BY <1>1, <1>4, Bounds
  <2>3. callback' \in Callbacks
    BY <1>4 DEF ClientIInv, ClientTypes, Callbacks, NoCallback
  <2> QED BY <1>4, <2>1, <2>2, <2>3 DEF ClientIInv, ClientTypes, files
<1>8. ASSUME NEW d \in Command PROVE CommandOK(cmd'[d], now, secret, secretFile)
  <2>1. CASE d = c
    <3>1. PlaceFits(r) /\ Timely(r)
      BY <1>2, StartFits
    <3>2. Knows(r, secret, secretFile)
      <4>1. r.held = 0 /\ r.pc \notin {"verify", "create", "replace", "empty secret", "write secret",
                                       "bind", "done"}
        BY <1>2, StartFits
      <4>2. 0 <= secret
        BY <1>1
      <4> QED BY <4>1, <4>2 DEF Knows
    <3>3. r.since <= now
      BY <1>1, <1>2
    <3>4. CommandOK(r, now, secret, secretFile)
      BY <3>1, <3>2, <3>3 DEF CommandOK, Fits
    <3> QED BY <1>4, <2>1, <3>4
  <2>2. CASE d # c
    <3>1. /\ PlaceFits(cmd[d]) /\ Timely(cmd[d]) /\ Knows(cmd[d], secret, secretFile)
          /\ cmd[d].since <= now
      BY AtWork
    <3>2. PlaceFits(rest(d))
      BY <1>5, <3>1 DEF PlaceFits
    <3>3. Timely(rest(d))
      BY <1>5, <3>1 DEF Timely
    <3>4. Knows(rest(d), secret, secretFile)
      BY <1>5, <3>1 DEF Knows
    <3>5. CommandOK(rest(d), now, secret, secretFile)
      BY <1>5, <3>1, <3>2, <3>3, <3>4 DEF CommandOK, Fits
    <3> QED BY <1>4, <2>2, <3>5
  <2> QED BY <2>1, <2>2
<1>9. (\A d \in Command : CommandOK(cmd[d], now, secret, secretFile))'
  BY <1>4, <1>8, AllCommandsOK DEF files
<1>10. Exclusive'
  <2>1. ASSUME NEW d \in Command, NEW e \in Command, d # e, cmd'[d].alone
        PROVE  ~ Rotates(e)'
    <3>1. cmd'[c] = r /\ \A b \in Command \ {c} : cmd'[b] = rest(b)
      BY <1>4
    <3>2. \A b \in Command \ {c} : Rotates(b)' => Rotates(b)
      BY <1>5, <3>1 DEF Rotates, Ended
    <3>3. CASE d = c
      <4>1. free
        BY <1>2, <2>1, <3>1, <3>3
      <4> QED BY <2>1, <3>2, <3>3, <4>1
    <3>4. CASE d # c
      <4>1. cmd[d].alone /\ op \notin {"hydra", "force"}
        BY <1>5, <2>1, <3>1, <3>4
      <4>2. CASE e = c
        BY <1>6, <4>1, <4>2
      <4>3. CASE e # c
        BY <2>1, <3>2, <4>1, <4>3 DEF ClientIInv, Exclusive
      <4> QED BY <4>2, <4>3
    <3> QED BY <3>3, <3>4
  <2> QED BY <2>1 DEF Exclusive
<1> QED BY <1>7, <1>9, <1>10 DEF ClientIInv

\* Nobody's command moves.
LEMMA NobodyMoves ==
  ASSUME ClientIInv, UNCHANGED <<secret, files, cmd, begins>>, callback' \in Callbacks,
         now' \in 0 .. MaxClock, now <= now'
  PROVE  ClientIInv'
<1>1. ClientTypes' /\ Exclusive'
  BY DEF ClientIInv, ClientTypes, files, Exclusive, Rotates, Ended
<1>2. ASSUME NEW d \in Command PROVE CommandOK(cmd'[d], now', secret', secretFile')
  <2>1. now' \in Nat
    BY Bounds
  <2>2. CommandOK(cmd[d], now', secret, secretFile)
    BY <2>1, OthersStand
  <2> QED BY <2>2 DEF files
<1>3. (\A d \in Command : CommandOK(cmd[d], now, secret, secretFile))'
  BY <1>2, AllCommandsOK
<1> QED BY <1>1, <1>3 DEF ClientIInv

LEMMA WorldKeeps ==
  ASSUME ClientIInv, Visit \/ Send \/ Tick \/ UNCHANGED clientVars
  PROVE  ClientIInv'
<1>1. callback \in Callbacks /\ now \in 0 .. MaxClock /\ now \in Nat
  BY Bounds DEF ClientIInv, ClientTypes
<1>2. callback' \in Callbacks
  <2>1. CASE Visit
    <3>1. callback.made + 1 \in Nat /\ callback.errWait + 1 \in Nat /\ callback.codeWait + 1 \in Nat
      BY <1>1 DEF Callbacks
    <3>2. \/ callback' = [callback EXCEPT !.made = @ + 1, !.errWait = @ + 1]
          \/ callback' = [callback EXCEPT !.made = @ + 1, !.codeWait = @ + 1]
      BY <2>1 DEF Visit
    <3> QED BY <1>1, <3>1, <3>2 DEF Callbacks
  <2>2. CASE Send
    <3>1. CASE callback.errWait > 0 /\ callback' = [callback EXCEPT !.errWait = @ - 1, !.err = 1]
      <4>1. callback.errWait - 1 \in Nat /\ 1 \in 0 .. 1
        BY <1>1, <3>1 DEF Callbacks
      <4> QED BY <1>1, <3>1, <4>1 DEF Callbacks
    <3>2. CASE callback.codeWait > 0 /\ callback' = [callback EXCEPT !.codeWait = @ - 1, !.code = 1]
      <4>1. callback.codeWait - 1 \in Nat /\ 1 \in 0 .. 1
        BY <1>1, <3>2 DEF Callbacks
      <4> QED BY <1>1, <3>2, <4>1 DEF Callbacks
    <3> QED BY <2>2, <3>1, <3>2 DEF Send
  <2>3. CASE Tick \/ UNCHANGED clientVars
    BY <1>1, <2>3 DEF Tick, clientVars
  <2> QED BY <2>1, <2>2, <2>3
<1>3. now' \in 0 .. MaxClock /\ now <= now'
  BY <1>1, Bounds DEF Visit, Send, Tick, clientVars
<1> QED BY <1>2, <1>3, NobodyMoves DEF Visit, Send, Tick, clientVars

LEMMA CommandStepKeeps ==
  ASSUME ClientIInv, NEW c \in Command, CommandStep(c)
  PROVE  ClientIInv'
<1>1. CASE ReadSecret(c) \/ Verify(c) \/ LookUp(c) \/ EmptySecret(c) \/ WriteSecret(c) \/ BindClient(c)
  BY <1>1, SecretKeeps
<1>2. CASE Rotate(c) \/ RotateLost(c) \/ KeepSecret(c)
  BY <1>2, RotateKeeps, RotateLostKeeps, KeepSecretKeeps
<1>3. CASE ReadToken(c) \/ MintWith(c) \/ Mint(c) \/ EmptyToken(c) \/ WriteToken(c)
  BY <1>3, TokenKeeps
<1>4. CASE \/ ReadHuman(c) \/ Password(c) \/ TryCode(c) \/ Exchange(c)
           \/ EmptyHuman(c) \/ WriteHuman(c) \/ Confirm(c)
  BY <1>4, HumanKeeps
<1>5. CASE Use(c) \/ List(c) \/ WriteItem(c) \/ Admin(c) \/ Serve(c)
  BY <1>5, PresentKeeps, WorldKeeps DEF WriteItem
<1>6. CASE LoginStep(c)
  BY <1>4, <1>6, LoginKeeps DEF LoginStep
<1>7. CASE StopCommand(c)
  BY <1>7, StopKeeps
<1>8. CASE \E op \in Operation : Begin(c, op)
  BY <1>8, BeginKeeps
<1> QED BY <1>1, <1>2, <1>3, <1>4, <1>5, <1>6, <1>7, <1>8 DEF CommandStep

LEMMA ClientStepKeeps ==
  ASSUME ClientIInv, [ClientNext]_clientVars
  PROVE  ClientIInv'
BY CommandStepKeeps, RotateElsewhereKeeps, WorldKeeps DEF ClientNext

\* The files of a new machine, or of one that was set up just now.
LEMMA ClientInitFits ==
  ASSUME ClientInit
  PROVE  ClientIInv
<1>1. ClientTypes
  <2>1. /\ now \in 0 .. MaxClock /\ secret \in 0 .. MaxRotations
        /\ secretFile \in 0 .. MaxRotations /\ secretFile <= secret
        /\ tokenFile \in Time /\ humanFile \in Time /\ begins \in 0 .. MaxBegins
    BY Bounds DEF ClientInit, Time
  <2>2. callback \in Callbacks
    BY DEF ClientInit, Callbacks, NoCallback
  <2>3. Waiting \in Commands
    BY Bounds DEF Waiting, Commands, Place, Operation, Time
  <2> QED BY <2>1, <2>2, <2>3 DEF ClientInit, ClientTypes
<1>2. ASSUME NEW d \in Command PROVE CommandOK(cmd[d], now, secret, secretFile)
  <2>1. /\ Waiting.pc = "idle" /\ Waiting.op = "use" /\ Waiting.since = 0 /\ Waiting.held = 0
        /\ Waiting.whose = "agent" /\ Waiting.alone = FALSE
    BY DEF Waiting
  <2>2. cmd[d] = Waiting /\ now = 0 /\ 0 <= secret
    BY DEF ClientInit
  <2> HIDE DEF Waiting
  <2>3. PlaceFits(Waiting)
    BY <2>1 DEF PlaceFits, SecretPlaces, MintPlaces, LoginPlaces, HumanCommands
  <2>4. Timely(Waiting)
    BY <2>1 DEF Timely
  <2>5. Knows(Waiting, secret, secretFile)
    BY <2>1, <2>2 DEF Knows
  <2> QED BY <2>1, <2>2, <2>3, <2>4, <2>5 DEF CommandOK, Fits
<1>3. Exclusive
  <2>1. \A d \in Command : cmd[d].alone = FALSE
    BY DEF ClientInit, Waiting
  <2> QED BY <2>1 DEF Exclusive
<1> QED BY <1>1, <1>2, <1>3 DEF ClientIInv
-----------------------------------------------------------------------------
(* What the invariant means, and the theorems.                             *)

LEMMA ClientInvFollows ==
  ASSUME ClientIInv
  PROVE  ClientInv
<1>1. ClientTypeOK
  <2>1. \A c \in Command : cmd[c] \in Commands
    BY DEF ClientIInv, ClientTypes
  <2> QED BY <2>1 DEF ClientIInv, ClientTypes, ClientTypeOK, Commands, Callbacks
<1>2. PresentsLive
  <2>1. ASSUME NEW c \in Command, In(c, "present")
        PROVE  /\ cmd[c].tok > cmd[c].since + Skew
               /\ cmd[c].op \in HumanCommands => cmd[c].whose = "human"
               /\ cmd[c].op \in {"use", "proxy"} => cmd[c].whose = "agent"
    BY <2>1, AtWork DEF In, PlaceFits, Timely
  <2> QED BY <2>1 DEF PresentsLive
<1>3. LeavesAWorkingSecret
  <2>1. ASSUME NEW c \in Command, cmd[c].alone, cmd[c].op \in {"hydra", "force"},
               cmd[c].pc \in {"bind", "done"}, ~ cmd[c].silent
        PROVE  secret # 0 /\ secretFile = secret
    BY <2>1, AtWork DEF Knows
  <2> QED BY <2>1 DEF LeavesAWorkingSecret
<1> QED BY <1>1, <1>2, <1>3 DEF ClientInv

LEMMA MachineInitFits ==
  ASSUME MachineInit
  PROVE  ClientIInv
BY ClientInitFits DEF MachineInit

\* The commands on a vault directory leave the client's files alone.
LEMMA MachineStepKeeps ==
  ASSUME ClientIInv, [MachineNext]_machineVars
  PROVE  ClientIInv'
BY ClientStepKeeps DEF MachineNext, ClientSide, VaultSide, machineVars

\* For any number of commands that interleave, stop at any step and lose the
\* answers of Hydra: no command presents a token that was about to expire when
\* it began, nor a human's command the agent's, and a run of "agent hydra" that
\* ends well with nobody else rotating, and has verified the copy or was given a
\* secret, leaves the one that works.
THEOREM ClientInvHolds == MachineSpec => []ClientInv
<1>1. MachineInit => ClientIInv
  BY MachineInitFits
<1>2. ClientIInv /\ [MachineNext]_machineVars => ClientIInv'
  BY MachineStepKeeps
<1>3. ClientIInv => ClientInv
  BY ClientInvFollows
<1> QED BY <1>1, <1>2, <1>3, PTL DEF MachineSpec

LEMMA RotationJustified ==
  ASSUME ClientIInv, NEW c \in Command, MayRotate(c), cmd[c].op = "hydra"
  PROVE  cmd[c].held = 0 \/ cmd[c].held # secret
BY MayRotateFacts DEF MayRotate

\* However the commands interleave with each other and with other machines, a
\* run of "agent hydra" that is not forced replaces Hydra's secret only when the
\* copy it read was missing or was not the one Hydra accepts.
THEOREM RotationsAreJustifiedHolds == MachineSpec => RotationsAreJustified
<1> DEFINE Justified ==
      \A c \in Command : MayRotate(c) /\ cmd[c].op = "hydra" /\ secret' # secret
        /\ cmd'[c] # cmd[c] => cmd[c].held = 0 \/ cmd[c].held # secret
<1>1. MachineInit => ClientIInv
  BY MachineInitFits
<1>2. ClientIInv /\ [MachineNext]_machineVars => ClientIInv'
  BY MachineStepKeeps
<1>3. ClientIInv /\ [MachineNext]_machineVars => [Justified]_clientVars
  BY RotationJustified
<1> QED BY <1>1, <1>2, <1>3, PTL DEF MachineSpec, RotationsAreJustified

-----------------------------------------------------------------------------
(* The vault directory.  Its commands run one at a time, on a directory     *)
(* that was made by Init, or that belongs to the vault it is paired with.  *)

OneAtATime ==
  /\ \A p, q \in Process : p = q
  /\ \A m, n \in Offers \cup Plain : m = n

Op(f, value) == [file |-> f, value |-> value]

\* The file operations of the commands, in order, and what is left of them
\* from place n on.
WrapOps(k, m)    == <<Op("device.key", Torn), Op("device.key", k), Op(k, Torn), Op(k, m)>>
InitOps(k, m)    == <<Op("device.key", Torn), Op("device.key", k), Op(k, Torn), Op(k, m),
                      Op("config.json", Torn), Op("config.json", Written),
                      Op("vault.db", Written)>>
MigrateOps(k, m) == <<Op("device.key", Torn), Op("device.key", k), Op(k, Torn), Op(k, m),
                      Op("master.key", Absent)>>
OfferOps(m)      == <<Op(PeerKey, Torn), Op(PeerKey, m)>>
RemoveOps        == <<Op("master.key", Absent)>>

Rest(ops, n) == SubSeq(ops, n, Len(ops))

Device == disk["device.key"]

\* What the directory is like wherever a command has stopped.
DiskOK ==
  /\ Device = Absent => ~ HasWraps
  /\ disk["master.key"] # Absent => disk["master.key"] \in Plain /\ sealed = disk["master.key"]
  /\ sealed # Nil => disk["vault.db"] = Written
  /\ Device = PeerKey => /\ disk[PeerKey] \in {Absent, Torn} \cup Offers
                         /\ sealed # Nil => sealed \in Offers
  /\ sealed # Nil /\ Device \in Key /\ disk[Device] \in MasterKey => disk[Device] = sealed
  /\ MasterSurvives

\* The device key and its wrap are whole, and q holds what is wrapped.
Loaded(q) == Device \in Key /\ q.master \in MasterKey /\ disk[Device] = q.master

InitAt(q, n) ==
  /\ n \in 1 .. 7 /\ q.todo = Rest(InitOps(q.key, q.master), n)
  /\ q.next = "plant" /\ q.then = "config"
  /\ q.key \in Key \ {PeerKey} /\ q.master \in MasterKey /\ sealed = Nil
  /\ n = 2 => Device = Torn
  /\ n >= 3 => Device = q.key
  /\ n >= 5 => disk[q.key] = q.master

MigrateAt(q, n) ==
  /\ n \in 1 .. 5 /\ q.todo = Rest(MigrateOps(q.key, q.master), n)
  /\ q.next = q.then
  /\ q.key \in Key /\ q.master \in MasterKey /\ disk["master.key"] = q.master
  /\ q.key = PeerKey => sealed \in Offers
  /\ n = 2 => Device = Torn
  /\ n >= 3 => Device = q.key
  /\ n <= 3 => disk[q.key] = Absent
  /\ n = 4 => disk[q.key] = Torn
  /\ n = 5 => disk[q.key] = q.master

OfferAt(q, n) ==
  /\ n \in 1 .. 2 /\ q.todo = Rest(OfferOps(q.master), n)
  /\ q.next = "open" /\ q.then = "config"
  /\ disk["vault.db"] = Written
  /\ Device \in Key /\ q.master \in MasterKey /\ sealed \in {Nil, q.master}
  /\ Device # PeerKey => disk[Device] = q.master
  /\ Device = PeerKey => q.master \in Offers

AcceptAt(q, n) ==
  /\ n \in 1 .. 4 /\ q.todo = Rest(WrapOps(PeerKey, q.master), n)
  /\ q.next = "legacy?" /\ q.then = "config" /\ q.key = PeerKey
  /\ q.master \in Offers /\ sealed \in {Nil, q.master}
  /\ disk[PeerKey] \in {Absent, Torn} \cup Offers
  /\ n = 1 => Device \in {Absent, PeerKey}
  /\ n = 2 => Device = Torn
  /\ n >= 3 => Device = PeerKey

Accepted(q) == Device = PeerKey /\ disk[PeerKey] = q.master /\ q.key = PeerKey
                 /\ q.master \in Offers

RemoveAt(q) ==
  /\ q.todo = Rest(RemoveOps, 1) /\ q.next = "idle" /\ q.then = "config"
  /\ Accepted(q) /\ disk["master.key"] = q.master

AtFiles(q) ==
  \/ \E n \in 1 .. 7 : InitAt(q, n) \/ MigrateAt(q, n) \/ OfferAt(q, n) \/ AcceptAt(q, n)
  \/ RemoveAt(q)

ProcOK(q) ==
  /\ q.pc \notin {"load", "unwrap", "migrate", "offer", "files"} => q.then = "config"
  /\ q.pc = "offer" => q.then = "offer"
  /\ q.then = "offer" => disk["vault.db"] = Written
  /\ q.pc = "unwrap" => q.key \in Key /\ q.key = Device
  /\ q.pc \in {"config", "offer", "plant", "open"} => Loaded(q)
  /\ q.pc \in {"plant", "open"} => disk["vault.db"] = Written
  /\ q.pc = "migrate" => /\ ~ HasWraps /\ q.master \in MasterKey
                         /\ disk["master.key"] = q.master
  /\ q.pc = "legacy?" => Accepted(q)
  /\ q.pc = "files" => AtFiles(q)

DirPlaces == {"idle", "plain?", "stray?", "init", "files", "plant", "load", "unwrap", "migrate",
              "config", "offer", "open", "legacy?"}

ProcTypes ==
  proc \in [Process -> [pc : DirPlaces, then : {"config", "offer"}, key : Key \cup {Nil},
                        master : MasterKey \cup {Nil}, todo : Seq(FileOp), next : DirPlaces]]

DirIInv == TypeOK /\ ProcTypes /\ DiskOK /\ \A p \in Process : ProcOK(proc[p])

LEMMA DirFacts ==
  /\ PeerKey \in Key /\ Offers \subseteq MasterKey /\ Plain \subseteq MasterKey
  /\ \A k \in Key : k \notin MasterKey /\ k \notin Name
  /\ \A x \in Key \cup MasterKey : x # Absent /\ x # Torn /\ x # Written /\ x # Nil
  /\ Absent # Torn /\ Absent # Written /\ Absent # Nil /\ Torn # Written /\ Torn # Nil
  /\ Written # Nil
BY DirAssumption

LEMMA OpIsFileOp ==
  ASSUME NEW k \in Key, NEW m \in MasterKey
  PROVE  /\ Op("device.key", Torn) \in FileOp /\ Op("device.key", k) \in FileOp
         /\ Op(k, Torn) \in FileOp /\ Op(k, m) \in FileOp
         /\ Op("config.json", Torn) \in FileOp /\ Op("config.json", Written) \in FileOp
         /\ Op("vault.db", Written) \in FileOp /\ Op("master.key", Absent) \in FileOp
         /\ Op(PeerKey, Torn) \in FileOp /\ Op(PeerKey, m) \in FileOp
<1>1. \A f \in Name \cup Key, v \in {Absent, Torn, Written} \cup Key \cup MasterKey :
        Op(f, v) \in FileOp
  BY DEF Op, FileOp
<1>2. {"device.key", "master.key", "config.json", "vault.db"} \subseteq Name /\ PeerKey \in Key
  BY DirFacts DEF Name
<1> QED BY <1>1, <1>2

\* The operations are sequences of file operations.
LEMMA OpsAreOps ==
  ASSUME NEW k \in Key, NEW m \in MasterKey
  PROVE  /\ WrapOps(k, m) \in Seq(FileOp) /\ Len(WrapOps(k, m)) = 4
         /\ InitOps(k, m) \in Seq(FileOp) /\ Len(InitOps(k, m)) = 7
         /\ MigrateOps(k, m) \in Seq(FileOp) /\ Len(MigrateOps(k, m)) = 5
         /\ OfferOps(m) \in Seq(FileOp) /\ Len(OfferOps(m)) = 2
         /\ RemoveOps \in Seq(FileOp) /\ Len(RemoveOps) = 1
<1>1. /\ Op("device.key", Torn) \in FileOp /\ Op("device.key", k) \in FileOp
      /\ Op(k, Torn) \in FileOp /\ Op(k, m) \in FileOp
      /\ Op("config.json", Torn) \in FileOp /\ Op("config.json", Written) \in FileOp
      /\ Op("vault.db", Written) \in FileOp /\ Op("master.key", Absent) \in FileOp
      /\ Op(PeerKey, Torn) \in FileOp /\ Op(PeerKey, m) \in FileOp
  BY OpIsFileOp
<1> HIDE DEF Op, FileOp
<1> QED BY <1>1 DEF WrapOps, InitOps, MigrateOps, OfferOps, RemoveOps

LEMMA Joined ==
  ASSUME NEW S, NEW s \in Seq(S), NEW t \in Seq(S), NEW u \in Seq(S),
         Len(u) = Len(s) + Len(t),
         \A i \in 1 .. Len(u) : u[i] = IF i <= Len(s) THEN s[i] ELSE t[i - Len(s)]
  PROVE  s \o t = u
<1>1. /\ s \o t \in Seq(S) /\ Len(s \o t) = Len(s) + Len(t)
      /\ \A i \in 1 .. Len(s) + Len(t) :
           (s \o t)[i] = IF i <= Len(s) THEN s[i] ELSE t[i - Len(s)]
  BY ConcatProperties
<1> QED BY <1>1, SeqEqual

\* What the actions put together is these operations.
LEMMA OpsOfTheActions ==
  ASSUME NEW k \in Key, NEW m \in MasterKey
  PROVE  /\ WrapMaster(k, m) = WrapOps(k, m)
         /\ WrapMaster(k, m) \o RemoveFile("master.key") = MigrateOps(k, m)
         /\ WrapMaster(k, m) \o WriteFile("config.json", Written)
              \o <<[file |-> "vault.db", value |-> Written]>> = InitOps(k, m)
         /\ PersistWrap(PeerKey, m) = OfferOps(m)
         /\ RemoveFile("master.key") = RemoveOps
<1> DEFINE a == Op("device.key", Torn)
           b == Op("device.key", k)
           c == Op(k, Torn)
           d == Op(k, m)
           e == Op("config.json", Torn)
           f == Op("config.json", Written)
           g == Op("vault.db", Written)
           x == Op("master.key", Absent)
<1>1. /\ WriteFile("device.key", k) = <<a, b>> /\ WriteFile(k, m) = <<c, d>>
      /\ WriteFile("config.json", Written) = <<e, f>> /\ RemoveFile("master.key") = <<x>>
      /\ <<[file |-> "vault.db", value |-> Written]>> = <<g>>
      /\ WriteFile(PeerKey, m) = <<Op(PeerKey, Torn), Op(PeerKey, m)>>
  BY DEF WriteFile, RemoveFile, Op
<1>2. {a, b, c, d, e, f, g, x} \subseteq FileOp
  BY OpIsFileOp
<1>3. /\ WrapOps(k, m) = <<a, b, c, d>> /\ MigrateOps(k, m) = <<a, b, c, d, x>>
      /\ InitOps(k, m) = <<a, b, c, d, e, f, g>> /\ RemoveOps = <<x>>
  BY DEF WrapOps, MigrateOps, InitOps, RemoveOps
<1> HIDE DEF a, b, c, d, e, f, g, x
<1>4. <<a, b>> \o <<c, d>> = <<a, b, c, d>>
  <2> DEFINE s == <<a, b>>
             t == <<c, d>>
             u == <<a, b, c, d>>
  <2>1. s \in Seq(FileOp) /\ t \in Seq(FileOp) /\ u \in Seq(FileOp)
    BY <1>2
  <2>2. Len(s) = 2 /\ Len(t) = 2 /\ Len(u) = 4
    OBVIOUS
  <2>3. \A i \in 1 .. 4 : u[i] = IF i <= 2 THEN s[i] ELSE t[i - 2]
    OBVIOUS
  <2>4. \A i \in 1 .. Len(u) : u[i] = IF i <= Len(s) THEN s[i] ELSE t[i - Len(s)]
    BY <2>2, <2>3
  <2>5. Len(u) = Len(s) + Len(t)
    BY <2>2
  <2> HIDE DEF s, t, u
  <2>6. s \o t = u
    BY <2>1, <2>4, <2>5, Joined
  <2> QED BY <2>6 DEF s, t, u
<1>5. <<a, b, c, d>> \o <<x>> = <<a, b, c, d, x>>
  <2> DEFINE s == <<a, b, c, d>>
             t == <<x>>
             u == <<a, b, c, d, x>>
  <2>1. s \in Seq(FileOp) /\ t \in Seq(FileOp) /\ u \in Seq(FileOp)
    BY <1>2
  <2>2. Len(s) = 4 /\ Len(t) = 1 /\ Len(u) = 5
    OBVIOUS
  <2>3. \A i \in 1 .. 5 : u[i] = IF i <= 4 THEN s[i] ELSE t[i - 4]
    OBVIOUS
  <2>4. \A i \in 1 .. Len(u) : u[i] = IF i <= Len(s) THEN s[i] ELSE t[i - Len(s)]
    BY <2>2, <2>3
  <2>5. Len(u) = Len(s) + Len(t)
    BY <2>2
  <2> HIDE DEF s, t, u
  <2>6. s \o t = u
    BY <2>1, <2>4, <2>5, Joined
  <2> QED BY <2>6 DEF s, t, u
<1>6. <<a, b, c, d>> \o <<e, f>> = <<a, b, c, d, e, f>>
  <2> DEFINE s == <<a, b, c, d>>
             t == <<e, f>>
             u == <<a, b, c, d, e, f>>
  <2>1. s \in Seq(FileOp) /\ t \in Seq(FileOp) /\ u \in Seq(FileOp)
    BY <1>2
  <2>2. Len(s) = 4 /\ Len(t) = 2 /\ Len(u) = 6
    OBVIOUS
  <2>3. \A i \in 1 .. 6 : u[i] = IF i <= 4 THEN s[i] ELSE t[i - 4]
    OBVIOUS
  <2>4. \A i \in 1 .. Len(u) : u[i] = IF i <= Len(s) THEN s[i] ELSE t[i - Len(s)]
    BY <2>2, <2>3
  <2>5. Len(u) = Len(s) + Len(t)
    BY <2>2
  <2> HIDE DEF s, t, u
  <2>6. s \o t = u
    BY <2>1, <2>4, <2>5, Joined
  <2> QED BY <2>6 DEF s, t, u
<1>7. <<a, b, c, d, e, f>> \o <<g>> = <<a, b, c, d, e, f, g>>
  <2> DEFINE s == <<a, b, c, d, e, f>>
             t == <<g>>
             u == <<a, b, c, d, e, f, g>>
  <2>1. s \in Seq(FileOp) /\ t \in Seq(FileOp) /\ u \in Seq(FileOp)
    BY <1>2
  <2>2. Len(s) = 6 /\ Len(t) = 1 /\ Len(u) = 7
    OBVIOUS
  <2>3. \A i \in 1 .. 7 : u[i] = IF i <= 6 THEN s[i] ELSE t[i - 6]
    OBVIOUS
  <2>4. \A i \in 1 .. Len(u) : u[i] = IF i <= Len(s) THEN s[i] ELSE t[i - Len(s)]
    BY <2>2, <2>3
  <2>5. Len(u) = Len(s) + Len(t)
    BY <2>2
  <2> HIDE DEF s, t, u
  <2>6. s \o t = u
    BY <2>1, <2>4, <2>5, Joined
  <2> QED BY <2>6 DEF s, t, u
<1> QED BY <1>1, <1>3, <1>4, <1>5, <1>6, <1>7 DEF WrapMaster, PersistWrap, OfferOps

\* Process p has done the operation at place n of ops.
Did(p, ops, n) ==
  /\ DOMAIN disk' = Name \cup Key
  /\ \A f \in Name \cup Key : disk'[f] = IF f = ops[n].file THEN ops[n].value ELSE disk[f]
  /\ sealed' = sealed /\ human' = human
  /\ proc'[p].todo = Rest(ops, n + 1)
  /\ proc'[p].pc = IF n = Len(ops) THEN proc[p].next ELSE "files"
  /\ proc'[p].then = proc[p].then /\ proc'[p].key = proc[p].key
  /\ proc'[p].master = proc[p].master /\ proc'[p].next = proc[p].next
  /\ ProcTypes'

LEMMA OperateOn ==
  ASSUME TypeOK, ProcTypes, NEW p \in Process, Operate(p),
         NEW ops \in Seq(FileOp), NEW n \in 1 .. Len(ops), proc[p].todo = Rest(ops, n)
  PROVE  Did(p, ops, n)
<1>1. Len(ops) \in Nat /\ n \in Nat /\ \A i \in 1 .. Len(ops) : ops[i] \in FileOp
  BY LenProperties
<1>2. Head(Rest(ops, n)) = ops[n] /\ Tail(Rest(ops, n)) = Rest(ops, n + 1)
  BY <1>1, HeadTailOfSubSeq DEF Rest
<1>3. Len(Rest(ops, n)) = Len(ops) - n + 1 /\ Rest(ops, n + 1) \in Seq(FileOp)
  BY <1>1, SubSeqProperties DEF Rest
<1>4. Len(proc[p].todo) = 1 <=> n = Len(ops)
  BY <1>1, <1>3
<1>5. /\ disk' = [disk EXCEPT ![ops[n].file] = ops[n].value]
      /\ sealed' = sealed /\ human' = human
  BY <1>2 DEF Operate
<1>6. proc' = [proc EXCEPT ![p].todo = Rest(ops, n + 1),
                           ![p].pc = IF n = Len(ops) THEN proc[p].next ELSE "files"]
  BY <1>2, <1>4 DEF Operate, ProcTypes
<1>7. "files" \in DirPlaces
  BY DEF DirPlaces
<1>8. /\ proc'[p].todo = Rest(ops, n + 1)
      /\ proc'[p].pc = IF n = Len(ops) THEN proc[p].next ELSE "files"
      /\ proc'[p].then = proc[p].then /\ proc'[p].key = proc[p].key
      /\ proc'[p].master = proc[p].master /\ proc'[p].next = proc[p].next
  BY <1>6 DEF ProcTypes
<1>9. ProcTypes'
  <2> DEFINE q == [proc[p] EXCEPT !.todo = Rest(ops, n + 1),
                                  !.pc = IF n = Len(ops) THEN proc[p].next ELSE "files"]
  <2>1. proc' = [proc EXCEPT ![p] = q]
    BY <1>6 DEF ProcTypes
  <2>2. q \in [pc : DirPlaces, then : {"config", "offer"}, key : Key \cup {Nil},
               master : MasterKey \cup {Nil}, todo : Seq(FileOp), next : DirPlaces]
    BY <1>3, <1>7 DEF ProcTypes
  <2> HIDE DEF q
  <2> QED BY <2>1, <2>2 DEF ProcTypes
<1> QED BY <1>5, <1>8, <1>9 DEF TypeOK, Did
\* What the directory holds is of the right kind.
DiskTypes ==
  /\ DOMAIN disk = Name \cup Key
  /\ Device \in {Absent, Torn} \cup Key
  /\ disk["master.key"] \in {Absent} \cup MasterKey
  /\ disk["config.json"] \in {Absent, Torn, Written}
  /\ disk["vault.db"] \in {Absent, Written}
  /\ \A k \in Key : disk[k] \in {Absent, Torn} \cup MasterKey
  /\ sealed \in MasterKey \cup {Nil} /\ human \in BOOLEAN

LEMMA Assemble ==
  ASSUME OneAtATime, NEW p \in Process, DiskTypes', ProcTypes', DiskOK', ProcOK(proc[p])'
  PROVE  DirIInv'
<1>1. TypeOK'
  BY DEF TypeOK, DiskTypes, ProcTypes, Device
<1>2. \A g \in Process : ProcOK(proc[g])'
  BY DEF OneAtATime
<1> QED BY <1>1, <1>2 DEF DirIInv

LEMMA Disassemble ==
  ASSUME DirIInv, NEW p \in Process
  PROVE  /\ TypeOK /\ DiskTypes /\ ProcTypes /\ DiskOK /\ ProcOK(proc[p])
         /\ proc[p] \in [pc : DirPlaces, then : {"config", "offer"}, key : Key \cup {Nil},
                         master : MasterKey \cup {Nil}, todo : Seq(FileOp), next : DirPlaces]
BY DEF DirIInv, TypeOK, DiskTypes, ProcTypes, Device

LEMMA FileNames ==
  /\ {"device.key", "master.key", "config.json", "vault.db"} = Name
  /\ \A k \in Key : k \notin {"device.key", "master.key", "config.json", "vault.db"}
BY DirFacts DEF Name

LEMMA OperateInit ==
  ASSUME OneAtATime, DirIInv, NEW p \in Process, Operate(p),
         NEW n \in 1 .. 7, InitAt(proc[p], n)
  PROVE  DirIInv'
<1> DEFINE q == proc[p]
           ops == InitOps(q.key, q.master)
<1>0. /\ TypeOK /\ DiskTypes /\ ProcTypes /\ DiskOK /\ ProcOK(proc[p])
      /\ q \in [pc : DirPlaces, then : {"config", "offer"}, key : Key \cup {Nil},
                master : MasterKey \cup {Nil}, todo : Seq(FileOp), next : DirPlaces]
      /\ q.pc = "files"
  BY Disassemble DEF Operate
<1>1. q.key \in Key \cup {Nil} /\ q.master \in MasterKey
  BY <1>0, DirFacts DEF InitAt
<1>2. ops \in Seq(FileOp) /\ Len(ops) = 7 /\ proc[p].todo = Rest(ops, n)
  BY <1>1, DirFacts, OpsAreOps DEF InitAt
<1>3. n \in 1 .. Len(ops)
  BY <1>2
<1> HIDE DEF ops
<1>4. /\ DOMAIN disk' = Name \cup Key
      /\ \A f \in Name \cup Key : disk'[f] = IF f = ops[n].file THEN ops[n].value ELSE disk[f]
      /\ sealed' = sealed /\ human' = human
      /\ proc'[p].todo = Rest(ops, n + 1)
      /\ proc'[p].pc = IF n = 7 THEN q.next ELSE "files"
      /\ proc'[p].then = q.then /\ proc'[p].key = q.key
      /\ proc'[p].master = q.master /\ proc'[p].next = q.next
      /\ ProcTypes'
  <2>1. Did(p, ops, n)
    BY <1>0, <1>2, <1>3, OperateOn
  <2> QED BY <1>2, <2>1 DEF Did
<1>5. CASE n = 1
  <2>1. ops[n].file = "device.key" /\ ops[n].value = Torn
    BY <1>5 DEF ops, InitOps, Op
  <2>2. /\ DOMAIN disk' = Name \cup Key
        /\ \A f \in Name \cup Key : disk'[f] = IF f = "device.key" THEN Torn ELSE disk[f]
    BY <1>4, <2>1
  <2>3. DiskTypes'
    BY <1>0, <1>1, <1>4, <2>2, <1>5, DirFacts, FileNames DEF DiskTypes, Device, InitAt
  <2>4. DiskOK'
    BY <1>0, <1>1, <1>4, <2>2, <1>5, DirFacts, FileNames
    DEF DiskTypes, DiskOK, MasterSurvives, HasWraps, Device, InitAt, OneAtATime
  <2>5. ProcOK(proc[p])'
    BY <1>0, <1>1, <1>4, <2>2, <1>5, DirFacts, FileNames
    DEF ProcOK, AtFiles, DiskTypes, DiskOK, HasWraps, Device, ops, InitAt, Loaded, Accepted
  <2> QED BY <1>4, <2>3, <2>4, <2>5, Assemble
<1>6. CASE n = 2
  <2>1. ops[n].file = "device.key" /\ ops[n].value = q.key
    BY <1>6 DEF ops, InitOps, Op
  <2>2. /\ DOMAIN disk' = Name \cup Key
        /\ \A f \in Name \cup Key : disk'[f] = IF f = "device.key" THEN q.key ELSE disk[f]
    BY <1>4, <2>1
  <2>3. DiskTypes'
    BY <1>0, <1>1, <1>4, <2>2, <1>6, DirFacts, FileNames DEF DiskTypes, Device, InitAt
  <2>4. DiskOK'
    BY <1>0, <1>1, <1>4, <2>2, <1>6, DirFacts, FileNames
    DEF DiskTypes, DiskOK, MasterSurvives, HasWraps, Device, InitAt, OneAtATime
  <2>5. ProcOK(proc[p])'
    BY <1>0, <1>1, <1>4, <2>2, <1>6, DirFacts, FileNames
    DEF ProcOK, AtFiles, DiskTypes, DiskOK, HasWraps, Device, ops, InitAt, Loaded, Accepted
  <2> QED BY <1>4, <2>3, <2>4, <2>5, Assemble
<1>7. CASE n = 3
  <2>1. ops[n].file = q.key /\ ops[n].value = Torn
    BY <1>7 DEF ops, InitOps, Op
  <2>2. /\ DOMAIN disk' = Name \cup Key
        /\ \A f \in Name \cup Key : disk'[f] = IF f = q.key THEN Torn ELSE disk[f]
    BY <1>4, <2>1
  <2>3. DiskTypes'
    BY <1>0, <1>1, <1>4, <2>2, <1>7, DirFacts, FileNames DEF DiskTypes, Device, InitAt
  <2>4. DiskOK'
    BY <1>0, <1>1, <1>4, <2>2, <1>7, DirFacts, FileNames
    DEF DiskTypes, DiskOK, MasterSurvives, HasWraps, Device, InitAt, OneAtATime
  <2>5. ProcOK(proc[p])'
    BY <1>0, <1>1, <1>4, <2>2, <1>7, DirFacts, FileNames
    DEF ProcOK, AtFiles, DiskTypes, DiskOK, HasWraps, Device, ops, InitAt, Loaded, Accepted
  <2> QED BY <1>4, <2>3, <2>4, <2>5, Assemble
<1>8. CASE n = 4
  <2>1. ops[n].file = q.key /\ ops[n].value = q.master
    BY <1>8 DEF ops, InitOps, Op
  <2>2. /\ DOMAIN disk' = Name \cup Key
        /\ \A f \in Name \cup Key : disk'[f] = IF f = q.key THEN q.master ELSE disk[f]
    BY <1>4, <2>1
  <2>3. DiskTypes'
    BY <1>0, <1>1, <1>4, <2>2, <1>8, DirFacts, FileNames DEF DiskTypes, Device, InitAt
  <2>4. DiskOK'
    BY <1>0, <1>1, <1>4, <2>2, <1>8, DirFacts, FileNames
    DEF DiskTypes, DiskOK, MasterSurvives, HasWraps, Device, InitAt, OneAtATime
  <2>5. ProcOK(proc[p])'
    BY <1>0, <1>1, <1>4, <2>2, <1>8, DirFacts, FileNames
    DEF ProcOK, AtFiles, DiskTypes, DiskOK, HasWraps, Device, ops, InitAt, Loaded, Accepted
  <2> QED BY <1>4, <2>3, <2>4, <2>5, Assemble
<1>9. CASE n = 5
  <2>1. ops[n].file = "config.json" /\ ops[n].value = Torn
    BY <1>9 DEF ops, InitOps, Op
  <2>2. /\ DOMAIN disk' = Name \cup Key
        /\ \A f \in Name \cup Key : disk'[f] = IF f = "config.json" THEN Torn ELSE disk[f]
    BY <1>4, <2>1
  <2>3. DiskTypes'
    BY <1>0, <1>1, <1>4, <2>2, <1>9, DirFacts, FileNames DEF DiskTypes, Device, InitAt
  <2>4. DiskOK'
    BY <1>0, <1>1, <1>4, <2>2, <1>9, DirFacts, FileNames
    DEF DiskTypes, DiskOK, MasterSurvives, HasWraps, Device, InitAt, OneAtATime
  <2>5. ProcOK(proc[p])'
    BY <1>0, <1>1, <1>4, <2>2, <1>9, DirFacts, FileNames
    DEF ProcOK, AtFiles, DiskTypes, DiskOK, HasWraps, Device, ops, InitAt, Loaded, Accepted
  <2> QED BY <1>4, <2>3, <2>4, <2>5, Assemble
<1>10. CASE n = 6
  <2>1. ops[n].file = "config.json" /\ ops[n].value = Written
    BY <1>10 DEF ops, InitOps, Op
  <2>2. /\ DOMAIN disk' = Name \cup Key
        /\ \A f \in Name \cup Key : disk'[f] = IF f = "config.json" THEN Written ELSE disk[f]
    BY <1>4, <2>1
  <2>3. DiskTypes'
    BY <1>0, <1>1, <1>4, <2>2, <1>10, DirFacts, FileNames DEF DiskTypes, Device, InitAt
  <2>4. DiskOK'
    BY <1>0, <1>1, <1>4, <2>2, <1>10, DirFacts, FileNames
    DEF DiskTypes, DiskOK, MasterSurvives, HasWraps, Device, InitAt, OneAtATime
  <2>5. ProcOK(proc[p])'
    BY <1>0, <1>1, <1>4, <2>2, <1>10, DirFacts, FileNames
    DEF ProcOK, AtFiles, DiskTypes, DiskOK, HasWraps, Device, ops, InitAt, Loaded, Accepted
  <2> QED BY <1>4, <2>3, <2>4, <2>5, Assemble
<1>11. CASE n = 7
  <2>1. ops[n].file = "vault.db" /\ ops[n].value = Written
    BY <1>11 DEF ops, InitOps, Op
  <2>2. /\ DOMAIN disk' = Name \cup Key
        /\ \A f \in Name \cup Key : disk'[f] = IF f = "vault.db" THEN Written ELSE disk[f]
    BY <1>4, <2>1
  <2>3. DiskTypes'
    BY <1>0, <1>1, <1>4, <2>2, <1>11, DirFacts, FileNames DEF DiskTypes, Device, InitAt
  <2>4. DiskOK'
    BY <1>0, <1>1, <1>4, <2>2, <1>11, DirFacts, FileNames
    DEF DiskTypes, DiskOK, MasterSurvives, HasWraps, Device, InitAt, OneAtATime
  <2>5. ProcOK(proc[p])'
    BY <1>0, <1>1, <1>4, <2>2, <1>11, DirFacts, FileNames
    DEF ProcOK, AtFiles, DiskTypes, DiskOK, HasWraps, Device, ops, InitAt, Loaded, Accepted
  <2> QED BY <1>4, <2>3, <2>4, <2>5, Assemble
<1> QED BY <1>5, <1>6, <1>7, <1>8, <1>9, <1>10, <1>11

LEMMA OperateMigrate ==
  ASSUME OneAtATime, DirIInv, NEW p \in Process, Operate(p),
         NEW n \in 1 .. 5, MigrateAt(proc[p], n)
  PROVE  DirIInv'
<1> DEFINE q == proc[p]
           ops == MigrateOps(q.key, q.master)
<1>0. /\ TypeOK /\ DiskTypes /\ ProcTypes /\ DiskOK /\ ProcOK(proc[p])
      /\ q \in [pc : DirPlaces, then : {"config", "offer"}, key : Key \cup {Nil},
                master : MasterKey \cup {Nil}, todo : Seq(FileOp), next : DirPlaces]
      /\ q.pc = "files"
  BY Disassemble DEF Operate
<1>1. q.key \in Key \cup {Nil} /\ q.master \in MasterKey
  BY <1>0, DirFacts DEF MigrateAt
<1>2. ops \in Seq(FileOp) /\ Len(ops) = 5 /\ proc[p].todo = Rest(ops, n)
  BY <1>1, DirFacts, OpsAreOps DEF MigrateAt
<1>3. n \in 1 .. Len(ops)
  BY <1>2
<1> HIDE DEF ops
<1>4. /\ DOMAIN disk' = Name \cup Key
      /\ \A f \in Name \cup Key : disk'[f] = IF f = ops[n].file THEN ops[n].value ELSE disk[f]
      /\ sealed' = sealed /\ human' = human
      /\ proc'[p].todo = Rest(ops, n + 1)
      /\ proc'[p].pc = IF n = 5 THEN q.next ELSE "files"
      /\ proc'[p].then = q.then /\ proc'[p].key = q.key
      /\ proc'[p].master = q.master /\ proc'[p].next = q.next
      /\ ProcTypes'
  <2>1. Did(p, ops, n)
    BY <1>0, <1>2, <1>3, OperateOn
  <2> QED BY <1>2, <2>1 DEF Did
<1>5. CASE n = 1
  <2>1. ops[n].file = "device.key" /\ ops[n].value = Torn
    BY <1>5 DEF ops, MigrateOps, Op
  <2>2. /\ DOMAIN disk' = Name \cup Key
        /\ \A f \in Name \cup Key : disk'[f] = IF f = "device.key" THEN Torn ELSE disk[f]
    BY <1>4, <2>1
  <2>3. DiskTypes'
    BY <1>0, <1>1, <1>4, <2>2, <1>5, DirFacts, FileNames DEF DiskTypes, Device, MigrateAt
  <2>4. DiskOK'
    BY <1>0, <1>1, <1>4, <2>2, <1>5, DirFacts, FileNames
    DEF DiskTypes, DiskOK, MasterSurvives, HasWraps, Device, MigrateAt, OneAtATime
  <2>5. ProcOK(proc[p])'
    BY <1>0, <1>1, <1>4, <2>2, <1>5, DirFacts, FileNames
    DEF ProcOK, AtFiles, DiskTypes, DiskOK, HasWraps, Device, ops, MigrateAt, Loaded, Accepted
  <2> QED BY <1>4, <2>3, <2>4, <2>5, Assemble
<1>6. CASE n = 2
  <2>1. ops[n].file = "device.key" /\ ops[n].value = q.key
    BY <1>6 DEF ops, MigrateOps, Op
  <2>2. /\ DOMAIN disk' = Name \cup Key
        /\ \A f \in Name \cup Key : disk'[f] = IF f = "device.key" THEN q.key ELSE disk[f]
    BY <1>4, <2>1
  <2>3. DiskTypes'
    BY <1>0, <1>1, <1>4, <2>2, <1>6, DirFacts, FileNames DEF DiskTypes, Device, MigrateAt
  <2>4. DiskOK'
    BY <1>0, <1>1, <1>4, <2>2, <1>6, DirFacts, FileNames
    DEF DiskTypes, DiskOK, MasterSurvives, HasWraps, Device, MigrateAt, OneAtATime
  <2>5. ProcOK(proc[p])'
    BY <1>0, <1>1, <1>4, <2>2, <1>6, DirFacts, FileNames
    DEF ProcOK, AtFiles, DiskTypes, DiskOK, HasWraps, Device, ops, MigrateAt, Loaded, Accepted
  <2> QED BY <1>4, <2>3, <2>4, <2>5, Assemble
<1>7. CASE n = 3
  <2>1. ops[n].file = q.key /\ ops[n].value = Torn
    BY <1>7 DEF ops, MigrateOps, Op
  <2>2. /\ DOMAIN disk' = Name \cup Key
        /\ \A f \in Name \cup Key : disk'[f] = IF f = q.key THEN Torn ELSE disk[f]
    BY <1>4, <2>1
  <2>3. DiskTypes'
    BY <1>0, <1>1, <1>4, <2>2, <1>7, DirFacts, FileNames DEF DiskTypes, Device, MigrateAt
  <2>4. DiskOK'
    BY <1>0, <1>1, <1>4, <2>2, <1>7, DirFacts, FileNames
    DEF DiskTypes, DiskOK, MasterSurvives, HasWraps, Device, MigrateAt, OneAtATime
  <2>5. ProcOK(proc[p])'
    BY <1>0, <1>1, <1>4, <2>2, <1>7, DirFacts, FileNames
    DEF ProcOK, AtFiles, DiskTypes, DiskOK, HasWraps, Device, ops, MigrateAt, Loaded, Accepted
  <2> QED BY <1>4, <2>3, <2>4, <2>5, Assemble
<1>8. CASE n = 4
  <2>1. ops[n].file = q.key /\ ops[n].value = q.master
    BY <1>8 DEF ops, MigrateOps, Op
  <2>2. /\ DOMAIN disk' = Name \cup Key
        /\ \A f \in Name \cup Key : disk'[f] = IF f = q.key THEN q.master ELSE disk[f]
    BY <1>4, <2>1
  <2>3. DiskTypes'
    BY <1>0, <1>1, <1>4, <2>2, <1>8, DirFacts, FileNames DEF DiskTypes, Device, MigrateAt
  <2>4. DiskOK'
    BY <1>0, <1>1, <1>4, <2>2, <1>8, DirFacts, FileNames
    DEF DiskTypes, DiskOK, MasterSurvives, HasWraps, Device, MigrateAt, OneAtATime
  <2>5. ProcOK(proc[p])'
    BY <1>0, <1>1, <1>4, <2>2, <1>8, DirFacts, FileNames
    DEF ProcOK, AtFiles, DiskTypes, DiskOK, HasWraps, Device, ops, MigrateAt, Loaded, Accepted
  <2> QED BY <1>4, <2>3, <2>4, <2>5, Assemble
<1>9. CASE n = 5
  <2>1. ops[n].file = "master.key" /\ ops[n].value = Absent
    BY <1>9 DEF ops, MigrateOps, Op
  <2>2. /\ DOMAIN disk' = Name \cup Key
        /\ \A f \in Name \cup Key : disk'[f] = IF f = "master.key" THEN Absent ELSE disk[f]
    BY <1>4, <2>1
  <2>3. DiskTypes'
    BY <1>0, <1>1, <1>4, <2>2, <1>9, DirFacts, FileNames DEF DiskTypes, Device, MigrateAt
  <2>4. DiskOK'
    BY <1>0, <1>1, <1>4, <2>2, <1>9, DirFacts, FileNames
    DEF DiskTypes, DiskOK, MasterSurvives, HasWraps, Device, MigrateAt, OneAtATime
  <2>5. ProcOK(proc[p])'
    BY <1>0, <1>1, <1>4, <2>2, <1>9, DirFacts, FileNames
    DEF ProcOK, AtFiles, DiskTypes, DiskOK, HasWraps, Device, ops, MigrateAt, Loaded, Accepted
  <2> QED BY <1>4, <2>3, <2>4, <2>5, Assemble
<1> QED BY <1>5, <1>6, <1>7, <1>8, <1>9

LEMMA OperateOffer ==
  ASSUME OneAtATime, DirIInv, NEW p \in Process, Operate(p),
         NEW n \in 1 .. 2, OfferAt(proc[p], n)
  PROVE  DirIInv'
<1> DEFINE q == proc[p]
           ops == OfferOps(q.master)
<1>0. /\ TypeOK /\ DiskTypes /\ ProcTypes /\ DiskOK /\ ProcOK(proc[p])
      /\ q \in [pc : DirPlaces, then : {"config", "offer"}, key : Key \cup {Nil},
                master : MasterKey \cup {Nil}, todo : Seq(FileOp), next : DirPlaces]
      /\ q.pc = "files"
  BY Disassemble DEF Operate
<1>1. q.key \in Key \cup {Nil} /\ q.master \in MasterKey
  BY <1>0, DirFacts DEF OfferAt
<1>2. ops \in Seq(FileOp) /\ Len(ops) = 2 /\ proc[p].todo = Rest(ops, n)
  BY <1>1, DirFacts, OpsAreOps DEF OfferAt
<1>3. n \in 1 .. Len(ops)
  BY <1>2
<1> HIDE DEF ops
<1>4. /\ DOMAIN disk' = Name \cup Key
      /\ \A f \in Name \cup Key : disk'[f] = IF f = ops[n].file THEN ops[n].value ELSE disk[f]
      /\ sealed' = sealed /\ human' = human
      /\ proc'[p].todo = Rest(ops, n + 1)
      /\ proc'[p].pc = IF n = 2 THEN q.next ELSE "files"
      /\ proc'[p].then = q.then /\ proc'[p].key = q.key
      /\ proc'[p].master = q.master /\ proc'[p].next = q.next
      /\ ProcTypes'
  <2>1. Did(p, ops, n)
    BY <1>0, <1>2, <1>3, OperateOn
  <2> QED BY <1>2, <2>1 DEF Did
<1>5. CASE n = 1
  <2>1. ops[n].file = PeerKey /\ ops[n].value = Torn
    BY <1>5 DEF ops, OfferOps, Op
  <2>2. /\ DOMAIN disk' = Name \cup Key
        /\ \A f \in Name \cup Key : disk'[f] = IF f = PeerKey THEN Torn ELSE disk[f]
    BY <1>4, <2>1
  <2>3. DiskTypes'
    BY <1>0, <1>1, <1>4, <2>2, <1>5, DirFacts, FileNames DEF DiskTypes, Device, OfferAt
  <2>4. DiskOK'
    BY <1>0, <1>1, <1>4, <2>2, <1>5, DirFacts, FileNames
    DEF DiskTypes, DiskOK, MasterSurvives, HasWraps, Device, OfferAt, OneAtATime
  <2>5. ProcOK(proc[p])'
    BY <1>0, <1>1, <1>4, <2>2, <1>5, DirFacts, FileNames
    DEF ProcOK, AtFiles, DiskTypes, DiskOK, HasWraps, Device, ops, OfferAt, Loaded, Accepted
  <2> QED BY <1>4, <2>3, <2>4, <2>5, Assemble
<1>6. CASE n = 2
  <2>1. ops[n].file = PeerKey /\ ops[n].value = q.master
    BY <1>6 DEF ops, OfferOps, Op
  <2>2. /\ DOMAIN disk' = Name \cup Key
        /\ \A f \in Name \cup Key : disk'[f] = IF f = PeerKey THEN q.master ELSE disk[f]
    BY <1>4, <2>1
  <2>3. DiskTypes'
    BY <1>0, <1>1, <1>4, <2>2, <1>6, DirFacts, FileNames DEF DiskTypes, Device, OfferAt
  <2>4. DiskOK'
    BY <1>0, <1>1, <1>4, <2>2, <1>6, DirFacts, FileNames
    DEF DiskTypes, DiskOK, MasterSurvives, HasWraps, Device, OfferAt, OneAtATime
  <2>5. ProcOK(proc[p])'
    BY <1>0, <1>1, <1>4, <2>2, <1>6, DirFacts, FileNames
    DEF ProcOK, AtFiles, DiskTypes, DiskOK, HasWraps, Device, ops, OfferAt, Loaded, Accepted
  <2> QED BY <1>4, <2>3, <2>4, <2>5, Assemble
<1> QED BY <1>5, <1>6

LEMMA OperateAccept ==
  ASSUME OneAtATime, DirIInv, NEW p \in Process, Operate(p),
         NEW n \in 1 .. 4, AcceptAt(proc[p], n)
  PROVE  DirIInv'
<1> DEFINE q == proc[p]
           ops == WrapOps(PeerKey, q.master)
<1>0. /\ TypeOK /\ DiskTypes /\ ProcTypes /\ DiskOK /\ ProcOK(proc[p])
      /\ q \in [pc : DirPlaces, then : {"config", "offer"}, key : Key \cup {Nil},
                master : MasterKey \cup {Nil}, todo : Seq(FileOp), next : DirPlaces]
      /\ q.pc = "files"
  BY Disassemble DEF Operate
<1>1. q.key \in Key \cup {Nil} /\ q.master \in MasterKey
  BY <1>0, DirFacts DEF AcceptAt
<1>2. ops \in Seq(FileOp) /\ Len(ops) = 4 /\ proc[p].todo = Rest(ops, n)
  BY <1>1, DirFacts, OpsAreOps DEF AcceptAt
<1>3. n \in 1 .. Len(ops)
  BY <1>2
<1> HIDE DEF ops
<1>4. /\ DOMAIN disk' = Name \cup Key
      /\ \A f \in Name \cup Key : disk'[f] = IF f = ops[n].file THEN ops[n].value ELSE disk[f]
      /\ sealed' = sealed /\ human' = human
      /\ proc'[p].todo = Rest(ops, n + 1)
      /\ proc'[p].pc = IF n = 4 THEN q.next ELSE "files"
      /\ proc'[p].then = q.then /\ proc'[p].key = q.key
      /\ proc'[p].master = q.master /\ proc'[p].next = q.next
      /\ ProcTypes'
  <2>1. Did(p, ops, n)
    BY <1>0, <1>2, <1>3, OperateOn
  <2> QED BY <1>2, <2>1 DEF Did
<1>5. CASE n = 1
  <2>1. ops[n].file = "device.key" /\ ops[n].value = Torn
    BY <1>5 DEF ops, WrapOps, Op
  <2>2. /\ DOMAIN disk' = Name \cup Key
        /\ \A f \in Name \cup Key : disk'[f] = IF f = "device.key" THEN Torn ELSE disk[f]
    BY <1>4, <2>1
  <2>3. DiskTypes'
    BY <1>0, <1>1, <1>4, <2>2, <1>5, DirFacts, FileNames DEF DiskTypes, Device, AcceptAt
  <2>4. DiskOK'
    BY <1>0, <1>1, <1>4, <2>2, <1>5, DirFacts, FileNames
    DEF DiskTypes, DiskOK, MasterSurvives, HasWraps, Device, AcceptAt, OneAtATime
  <2>5. ProcOK(proc[p])'
    BY <1>0, <1>1, <1>4, <2>2, <1>5, DirFacts, FileNames
    DEF ProcOK, AtFiles, DiskTypes, DiskOK, HasWraps, Device, ops, AcceptAt, Loaded, Accepted
  <2> QED BY <1>4, <2>3, <2>4, <2>5, Assemble
<1>6. CASE n = 2
  <2>1. ops[n].file = "device.key" /\ ops[n].value = PeerKey
    BY <1>6 DEF ops, WrapOps, Op
  <2>2. /\ DOMAIN disk' = Name \cup Key
        /\ \A f \in Name \cup Key : disk'[f] = IF f = "device.key" THEN PeerKey ELSE disk[f]
    BY <1>4, <2>1
  <2>3. DiskTypes'
    BY <1>0, <1>1, <1>4, <2>2, <1>6, DirFacts, FileNames DEF DiskTypes, Device, AcceptAt
  <2>4. DiskOK'
    BY <1>0, <1>1, <1>4, <2>2, <1>6, DirFacts, FileNames
    DEF DiskTypes, DiskOK, MasterSurvives, HasWraps, Device, AcceptAt, OneAtATime
  <2>5. ProcOK(proc[p])'
    BY <1>0, <1>1, <1>4, <2>2, <1>6, DirFacts, FileNames
    DEF ProcOK, AtFiles, DiskTypes, DiskOK, HasWraps, Device, ops, AcceptAt, Loaded, Accepted
  <2> QED BY <1>4, <2>3, <2>4, <2>5, Assemble
<1>7. CASE n = 3
  <2>1. ops[n].file = PeerKey /\ ops[n].value = Torn
    BY <1>7 DEF ops, WrapOps, Op
  <2>2. /\ DOMAIN disk' = Name \cup Key
        /\ \A f \in Name \cup Key : disk'[f] = IF f = PeerKey THEN Torn ELSE disk[f]
    BY <1>4, <2>1
  <2>3. DiskTypes'
    BY <1>0, <1>1, <1>4, <2>2, <1>7, DirFacts, FileNames DEF DiskTypes, Device, AcceptAt
  <2>4. DiskOK'
    BY <1>0, <1>1, <1>4, <2>2, <1>7, DirFacts, FileNames
    DEF DiskTypes, DiskOK, MasterSurvives, HasWraps, Device, AcceptAt, OneAtATime
  <2>5. ProcOK(proc[p])'
    BY <1>0, <1>1, <1>4, <2>2, <1>7, DirFacts, FileNames
    DEF ProcOK, AtFiles, DiskTypes, DiskOK, HasWraps, Device, ops, AcceptAt, Loaded, Accepted
  <2> QED BY <1>4, <2>3, <2>4, <2>5, Assemble
<1>8. CASE n = 4
  <2>1. ops[n].file = PeerKey /\ ops[n].value = q.master
    BY <1>8 DEF ops, WrapOps, Op
  <2>2. /\ DOMAIN disk' = Name \cup Key
        /\ \A f \in Name \cup Key : disk'[f] = IF f = PeerKey THEN q.master ELSE disk[f]
    BY <1>4, <2>1
  <2>3. DiskTypes'
    BY <1>0, <1>1, <1>4, <2>2, <1>8, DirFacts, FileNames DEF DiskTypes, Device, AcceptAt
  <2>4. DiskOK'
    BY <1>0, <1>1, <1>4, <2>2, <1>8, DirFacts, FileNames
    DEF DiskTypes, DiskOK, MasterSurvives, HasWraps, Device, AcceptAt, OneAtATime
  <2>5. ProcOK(proc[p])'
    BY <1>0, <1>1, <1>4, <2>2, <1>8, DirFacts, FileNames
    DEF ProcOK, AtFiles, DiskTypes, DiskOK, HasWraps, Device, ops, AcceptAt, Loaded, Accepted
  <2> QED BY <1>4, <2>3, <2>4, <2>5, Assemble
<1> QED BY <1>5, <1>6, <1>7, <1>8
LEMMA OperateRemove ==
  ASSUME OneAtATime, DirIInv, NEW p \in Process, Operate(p), RemoveAt(proc[p])
  PROVE  DirIInv'
<1> DEFINE q == proc[p]
           ops == RemoveOps
<1>0. /\ TypeOK /\ DiskTypes /\ ProcTypes /\ DiskOK /\ ProcOK(proc[p])
      /\ q \in [pc : DirPlaces, then : {"config", "offer"}, key : Key \cup {Nil},
                master : MasterKey \cup {Nil}, todo : Seq(FileOp), next : DirPlaces]
      /\ q.pc = "files"
  BY Disassemble DEF Operate
<1>1. q.key = PeerKey /\ q.master \in MasterKey
  BY <1>0, DirFacts DEF RemoveAt, Accepted
<1>2. ops \in Seq(FileOp) /\ Len(ops) = 1 /\ proc[p].todo = Rest(ops, 1)
  BY <1>1, DirFacts, OpsAreOps DEF RemoveAt
<1>3. ops[1].file = "master.key" /\ ops[1].value = Absent /\ 1 \in 1 .. Len(ops)
  BY <1>2 DEF RemoveOps, Op
<1> HIDE DEF ops
<1>4. /\ DOMAIN disk' = Name \cup Key
      /\ \A f \in Name \cup Key : disk'[f] = IF f = "master.key" THEN Absent ELSE disk[f]
      /\ sealed' = sealed /\ human' = human
      /\ proc'[p].pc = q.next
      /\ proc'[p].then = q.then /\ proc'[p].key = q.key
      /\ proc'[p].master = q.master /\ proc'[p].next = q.next
      /\ ProcTypes'
  <2>1. Did(p, ops, 1)
    BY <1>0, <1>2, <1>3, OperateOn
  <2> QED BY <1>2, <1>3, <2>1 DEF Did
<1>5. DiskTypes'
  BY <1>0, <1>1, <1>4, DirFacts, FileNames DEF DiskTypes, Device
<1>6. DiskOK'
  BY <1>0, <1>1, <1>4, DirFacts, FileNames
  DEF DiskTypes, DiskOK, MasterSurvives, HasWraps, Device, RemoveAt, Accepted, OneAtATime
<1>7. ProcOK(proc[p])'
  BY <1>0, <1>4 DEF ProcOK, RemoveAt
<1> QED BY <1>4, <1>5, <1>6, <1>7, Assemble

LEMMA OperateKeeps ==
  ASSUME OneAtATime, DirIInv, NEW p \in Process, Operate(p)
  PROVE  DirIInv'
<1>1. AtFiles(proc[p])
  BY Disassemble DEF Operate, ProcOK
<1>2. CASE RemoveAt(proc[p])
  BY <1>2, OperateRemove
<1>3. ASSUME NEW n \in 1 .. 7, InitAt(proc[p], n)
      PROVE  DirIInv'
  BY <1>3, OperateInit
<1>4. ASSUME NEW n \in 1 .. 7, MigrateAt(proc[p], n)
      PROVE  DirIInv'
  <2>1. n \in 1 .. 5
    BY <1>4 DEF MigrateAt
  <2> QED BY <1>4, <2>1, OperateMigrate
<1>5. ASSUME NEW n \in 1 .. 7, OfferAt(proc[p], n)
      PROVE  DirIInv'
  <2>1. n \in 1 .. 2
    BY <1>5 DEF OfferAt
  <2> QED BY <1>5, <2>1, OperateOffer
<1>6. ASSUME NEW n \in 1 .. 7, AcceptAt(proc[p], n)
      PROVE  DirIInv'
  <2>1. n \in 1 .. 4
    BY <1>6 DEF AcceptAt
  <2> QED BY <1>6, <2>1, OperateAccept
<1> QED BY <1>1, <1>2, <1>3, <1>4, <1>5, <1>6 DEF AtFiles

-----------------------------------------------------------------------------
(* The other actions.  Most only move a process on.                        *)

ProcessRecord ==
  [pc : DirPlaces, then : {"config", "offer"}, key : Key \cup {Nil},
   master : MasterKey \cup {Nil}, todo : Seq(FileOp), next : DirPlaces]

\* A process becomes x and the files stay.
LEMMA ProcessBecomes ==
  ASSUME OneAtATime, DirIInv, NEW p \in Process, NEW x \in ProcessRecord,
         proc' = [proc EXCEPT ![p] = x], UNCHANGED <<disk, sealed>>, human' \in {human, TRUE},
         ProcOK(x)
  PROVE  DirIInv'
<1>1. DiskTypes /\ ProcTypes /\ DiskOK
  BY Disassemble
<1>2. ProcTypes' /\ proc'[p] = x
  BY <1>1 DEF ProcTypes, ProcessRecord
<1>3. DiskTypes' /\ DiskOK'
  BY <1>1 DEF DiskTypes, DiskOK, MasterSurvives, HasWraps, Device
<1>4. ProcOK(proc[p])'
  BY <1>2 DEF ProcOK, AtFiles, InitAt, MigrateAt, OfferAt, AcceptAt, RemoveAt, Accepted, Loaded,
              HasWraps, Device
<1> QED BY <1>2, <1>3, <1>4, Assemble

LEMMA FailKeeps ==
  ASSUME OneAtATime, DirIInv, NEW p \in Process, Fail(p), UNCHANGED <<disk, sealed, human>>
  PROVE  DirIInv'
<1>1. Idle \in ProcessRecord
  BY DEF Idle, ProcessRecord, DirPlaces
<1>2. ProcOK(Idle)
  BY DEF ProcOK, Idle
<1> QED BY <1>1, <1>2, ProcessBecomes DEF Fail

\* The places a process only passes through.
LEMMA GotoKeeps ==
  ASSUME OneAtATime, DirIInv, NEW p \in Process, UNCHANGED <<disk, sealed, human>>,
         NEW place \in {"plain?", "stray?", "init", "load"}, Goto(p, place),
         proc[p].then = "config"
  PROVE  DirIInv'
<1> DEFINE x == [proc[p] EXCEPT !.pc = place]
<1>1. proc[p] \in ProcessRecord
  BY Disassemble DEF ProcessRecord
<1>2. /\ x \in ProcessRecord /\ x.then = "config" /\ x.pc = place
      /\ proc' = [proc EXCEPT ![p] = x]
  BY <1>1 DEF ProcessRecord, DirPlaces, Goto
<1> HIDE DEF x
<1>3. ProcOK(x)
  BY <1>2 DEF ProcOK
<1> QED BY <1>2, <1>3, ProcessBecomes
LEMMA RecordIs ==
  ASSUME NEW pc, NEW then, NEW k, NEW m, NEW ops, NEW place,
         NEW x \in [pc : {pc}, then : {then}, key : {k}, master : {m}, todo : {ops}, next : {place}]
  PROVE  x = [pc |-> pc, then |-> then, key |-> k, master |-> m, todo |-> ops, next |-> place]
OBVIOUS

LEMMA WholeRest == \A ops \in Seq(FileOp) : Rest(ops, 1) = ops
BY SubSeqFull DEF Rest

\* Process p begins the file operations ops.
LEMMA BeginsFiles ==
  ASSUME OneAtATime, DirIInv, NEW p \in Process, UNCHANGED <<disk, sealed, human>>,
         NEW k \in Key \cup {Nil}, NEW m \in MasterKey, NEW ops \in Seq(FileOp),
         NEW then \in {"config", "offer"}, NEW place \in DirPlaces,
         proc' = [proc EXCEPT ![p] = [pc |-> "files", then |-> then, key |-> k, master |-> m,
                                      todo |-> ops, next |-> place]],
         AtFiles([pc |-> "files", then |-> then, key |-> k, master |-> m, todo |-> ops,
                  next |-> place]),
         then = "offer" => disk["vault.db"] = Written
  PROVE  DirIInv'
<1> DEFINE x == [pc |-> "files", then |-> then, key |-> k, master |-> m, todo |-> ops,
                 next |-> place]
<1>1. x \in ProcessRecord /\ x.pc = "files" /\ x.then = then
  BY DEF ProcessRecord, DirPlaces
<1>2. proc' = [proc EXCEPT ![p] = x] /\ AtFiles(x)
  OBVIOUS
<1> HIDE DEF x
<1>3. ProcOK(x)
  BY <1>1, <1>2 DEF ProcOK
<1> QED BY <1>1, <1>2, <1>3, ProcessBecomes

\* Do in the fields of the record.
LEMMA DoSets ==
  ASSUME DirIInv, NEW p \in Process, NEW k, NEW m, NEW ops, NEW place, Do(p, k, m, ops, place)
  PROVE  proc' = [proc EXCEPT ![p] = [pc |-> "files", then |-> proc[p].then, key |-> k,
                                      master |-> m, todo |-> ops, next |-> place]]
<1>1. proc[p] \in ProcessRecord /\ ProcTypes
  BY Disassemble DEF ProcessRecord
<1>2. [proc[p] EXCEPT !.key = k, !.master = m, !.todo = ops, !.pc = "files", !.next = place]
        = [pc |-> "files", then |-> proc[p].then, key |-> k, master |-> m, todo |-> ops,
           next |-> place]
  <2> DEFINE x == [proc[p] EXCEPT !.key = k, !.master = m, !.todo = ops, !.pc = "files",
                                  !.next = place]
  <2>1. x \in [pc : {"files"}, then : {proc[p].then}, key : {k}, master : {m}, todo : {ops},
               next : {place}]
    BY <1>1 DEF ProcessRecord
  <2> HIDE DEF x
  <2>2. x = [pc |-> "files", then |-> proc[p].then, key |-> k, master |-> m, todo |-> ops,
             next |-> place]
    BY <2>1, RecordIs
  <2> QED BY <2>2 DEF x
<1>3. proc' = [proc EXCEPT ![p] = [proc[p] EXCEPT !.key = k, !.master = m, !.todo = ops,
                                                  !.pc = "files", !.next = place]]
  BY <1>1 DEF Do, ProcTypes
<1> QED BY <1>2, <1>3

LEMMA InitWritesKeeps ==
  ASSUME OneAtATime, DirIInv, NEW p \in Process, InitWrites(p)
  PROVE  DirIInv'
<1>1. PICK key \in Key, master \in MasterKey :
        /\ Unused(key)
        /\ Do(p, key, master, WrapMaster(key, master) \o WriteFile("config.json", Written)
                                \o <<[file |-> "vault.db", value |-> Written]>>, "plant")
  BY DEF InitWrites
<1> DEFINE ops == InitOps(key, master)
<1>2. ops \in Seq(FileOp) /\ Rest(ops, 1) = ops
  BY OpsAreOps, WholeRest
<1>3. Do(p, key, master, ops, "plant")
  BY <1>1, OpsOfTheActions
<1>4. proc[p].then = "config" /\ sealed = Nil /\ key # PeerKey
  BY <1>1, Disassemble, DirFacts DEF InitWrites, ProcOK, DiskOK, Unused
<1> HIDE DEF ops
<1>5. proc' = [proc EXCEPT ![p] = [pc |-> "files", then |-> "config", key |-> key,
                                   master |-> master, todo |-> ops, next |-> "plant"]]
  BY <1>3, <1>4, DoSets
<1>6. InitAt([pc |-> "files", then |-> "config", key |-> key, master |-> master, todo |-> ops,
              next |-> "plant"], 1)
  BY <1>2, <1>4 DEF InitAt, ops
<1>7. AtFiles([pc |-> "files", then |-> "config", key |-> key, master |-> master, todo |-> ops,
               next |-> "plant"])
  BY <1>6 DEF AtFiles
<1>8. "plant" \in DirPlaces /\ UNCHANGED <<disk, sealed, human>>
  BY DEF DirPlaces, InitWrites
<1> QED BY <1>2, <1>5, <1>7, <1>8, BeginsFiles

LEMMA MigrateWith ==
  ASSUME OneAtATime, DirIInv, NEW p \in Process, proc[p].pc = "migrate",
         UNCHANGED <<disk, sealed, human>>, NEW k \in Key,
         Do(p, k, proc[p].master, WrapMaster(k, proc[p].master) \o RemoveFile("master.key"),
            proc[p].then),
         k = PeerKey => k = disk["device.key"]
  PROVE  DirIInv'
<1> DEFINE m == proc[p].master
           then == proc[p].then
           ops == MigrateOps(k, m)
<1>1. /\ m \in MasterKey /\ disk["master.key"] = m /\ then \in {"config", "offer"}
      /\ then = "offer" => disk["vault.db"] = Written
      /\ disk[k] = Absent
      /\ k = PeerKey => sealed \in Offers
  BY Disassemble, DirFacts DEF ProcOK, DiskOK, HasWraps, Device
<1>2. ops \in Seq(FileOp) /\ Rest(ops, 1) = ops
  BY <1>1, OpsAreOps, WholeRest
<1>3. Do(p, k, m, ops, then)
  BY <1>1, OpsOfTheActions
<1> HIDE DEF ops
<1>4. proc' = [proc EXCEPT ![p] = [pc |-> "files", then |-> then, key |-> k, master |-> m,
                                   todo |-> ops, next |-> then]]
  BY <1>3, DoSets
<1> HIDE DEF m, then
<1>5. MigrateAt([pc |-> "files", then |-> then, key |-> k, master |-> m, todo |-> ops,
                 next |-> then], 1)
  BY <1>1, <1>2 DEF MigrateAt, ops
<1>6. AtFiles([pc |-> "files", then |-> then, key |-> k, master |-> m, todo |-> ops,
               next |-> then])
  BY <1>5 DEF AtFiles
<1>7. then \in DirPlaces
  BY <1>1 DEF DirPlaces
<1> QED BY <1>1, <1>2, <1>4, <1>6, <1>7, BeginsFiles

LEMMA MigrateWrapsKeeps ==
  ASSUME OneAtATime, DirIInv, NEW p \in Process, MigrateWraps(p)
  PROVE  DirIInv'
<1>1. proc[p].pc = "migrate" /\ UNCHANGED <<disk, sealed, human>>
  BY DEF MigrateWraps
<1>2. CASE disk["device.key"] = Absent
  <2>1. PICK k \in Key : Unused(k) /\ Do(p, k, proc[p].master,
          WrapMaster(k, proc[p].master) \o RemoveFile("master.key"), proc[p].then)
    BY <1>2, DirFacts DEF MigrateWraps
  <2>2. k # PeerKey
    BY <2>1 DEF Unused
  <2> QED BY <1>1, <2>1, <2>2, MigrateWith
<1>3. CASE disk["device.key"] = Torn
  BY <1>1, <1>3, FailKeeps, DirFacts DEF MigrateWraps
<1>4. CASE disk["device.key"] \in Key
  <2>1. Do(p, disk["device.key"], proc[p].master,
           WrapMaster(disk["device.key"], proc[p].master) \o RemoveFile("master.key"),
           proc[p].then)
    BY <1>4, DirFacts DEF MigrateWraps
  <2> QED BY <1>1, <1>4, <2>1, MigrateWith
<1> QED BY <1>2, <1>3, <1>4 DEF MigrateWraps

LEMMA OfferKeeps ==
  ASSUME OneAtATime, DirIInv, NEW p \in Process, Offer(p)
  PROVE  DirIInv'
<1> DEFINE m == proc[p].master
           k == proc[p].key
           ops == OfferOps(m)
<1>1. /\ Device \in Key /\ m \in MasterKey /\ disk[Device] = m /\ k \in Key \cup {Nil}
      /\ disk["vault.db"] = Written /\ sealed \in {Nil, m}
      /\ Device = PeerKey => m \in Offers
  BY Disassemble, DirFacts DEF Offer, ProcOK, DiskOK, Loaded, DiskTypes
<1>2. ops \in Seq(FileOp) /\ Rest(ops, 1) = ops /\ PersistWrap(PeerKey, m) = ops
  BY <1>1, OpsAreOps, WholeRest, OpsOfTheActions, DirFacts
<1> HIDE DEF ops
<1>3. proc' = [proc EXCEPT ![p] = [pc |-> "files", then |-> "config", key |-> k, master |-> m,
                                   todo |-> ops, next |-> "open"]]
  <2>1. proc[p] \in ProcessRecord /\ ProcTypes
    BY Disassemble DEF ProcessRecord
  <2>2. [proc[p] EXCEPT !.pc = "files", !.then = "config", !.next = "open", !.todo = ops]
          = [pc |-> "files", then |-> "config", key |-> k, master |-> m, todo |-> ops,
             next |-> "open"]
    <3> DEFINE x == [proc[p] EXCEPT !.pc = "files", !.then = "config", !.next = "open",
                                    !.todo = ops]
    <3>1. x \in [pc : {"files"}, then : {"config"}, key : {k}, master : {m}, todo : {ops},
                 next : {"open"}]
      BY <2>1 DEF ProcessRecord
    <3> QED BY <3>1, RecordIs
  <2>3. proc' = [proc EXCEPT ![p] = [proc[p] EXCEPT !.pc = "files", !.then = "config",
                                                    !.next = "open", !.todo = ops]]
    BY <1>2, <2>1 DEF Offer, ProcTypes
  <2> QED BY <2>2, <2>3
<1> HIDE DEF m, k
<1>4. OfferAt([pc |-> "files", then |-> "config", key |-> k, master |-> m, todo |-> ops,
               next |-> "open"], 1)
  BY <1>1, <1>2 DEF OfferAt, ops
<1>5. AtFiles([pc |-> "files", then |-> "config", key |-> k, master |-> m, todo |-> ops,
               next |-> "open"])
  BY <1>4 DEF AtFiles
<1>6. "open" \in DirPlaces /\ UNCHANGED <<disk, sealed, human>>
  BY DEF DirPlaces, Offer
<1> QED BY <1>1, <1>2, <1>3, <1>5, <1>6, BeginsFiles

\* A vault that can still be paired holds the master that was offered.
LEMMA AcceptKeeps ==
  ASSUME OneAtATime, DirIInv, NEW p \in Process, Accept(p)
  PROVE  DirIInv'
<1>1. PICK m \in Offers : Do(p, PeerKey, m, WrapMaster(PeerKey, m), "legacy?")
  BY DEF Accept
<1> DEFINE ops == WrapOps(PeerKey, m)
<1>2. m \in MasterKey /\ PeerKey \in Key
  BY DirFacts
<1>3. ops \in Seq(FileOp) /\ Rest(ops, 1) = ops /\ WrapMaster(PeerKey, m) = ops
  BY <1>2, OpsAreOps, WholeRest, OpsOfTheActions
<1>4. proc[p].then = "config" /\ Device \in {Absent, PeerKey}
  BY Disassemble DEF Accept, ProcOK, Device
<1>5. disk[PeerKey] \in {Absent, Torn} \cup Offers
  BY <1>2, <1>4, Disassemble DEF DiskOK, HasWraps
<1>6. sealed \in {Nil, m}
  <2>1. CASE disk["master.key"] = sealed /\ sealed # Nil
    BY <2>1, Disassemble, DirFacts DEF DiskOK, DiskTypes, OneAtATime
  <2>2. CASE Device \in Key /\ disk[Device] = sealed /\ sealed # Nil
    BY <1>4, <2>2, Disassemble, DirFacts DEF DiskOK, DiskTypes, OneAtATime
  <2>3. CASE sealed \in Offers
    BY <2>3 DEF OneAtATime
  <2> QED BY <2>1, <2>2, <2>3, Disassemble DEF DiskOK, MasterSurvives, Device
<1>7. Do(p, PeerKey, m, ops, "legacy?")
  BY <1>1, <1>3
<1> HIDE DEF ops
<1>8. proc' = [proc EXCEPT ![p] = [pc |-> "files", then |-> "config", key |-> PeerKey,
                                   master |-> m, todo |-> ops, next |-> "legacy?"]]
  BY <1>4, <1>7, DoSets
<1>9. AcceptAt([pc |-> "files", then |-> "config", key |-> PeerKey, master |-> m, todo |-> ops,
                next |-> "legacy?"], 1)
  BY <1>3, <1>4, <1>5, <1>6 DEF AcceptAt, ops
<1>10. AtFiles([pc |-> "files", then |-> "config", key |-> PeerKey, master |-> m, todo |-> ops,
                next |-> "legacy?"])
  BY <1>9 DEF AtFiles
<1>11. "legacy?" \in DirPlaces /\ UNCHANGED <<disk, sealed, human>>
  BY DEF DirPlaces, Accept
<1> QED BY <1>2, <1>3, <1>8, <1>10, <1>11, BeginsFiles

LEMMA AcceptPlainKeeps ==
  ASSUME OneAtATime, DirIInv, NEW p \in Process, AcceptPlain(p)
  PROVE  DirIInv'
<1> DEFINE m == proc[p].master
           ops == RemoveOps
<1>1. UNCHANGED <<disk, sealed, human>>
  BY DEF AcceptPlain
<1>2. CASE disk["master.key"] # m
  BY <1>1, <1>2, FailKeeps DEF AcceptPlain
<1>3. CASE disk["master.key"] = m
  <2>1. /\ proc[p].then = "config" /\ proc[p].key = PeerKey /\ m \in Offers /\ m \in MasterKey
        /\ Device = PeerKey /\ disk[PeerKey] = m
    BY Disassemble, DirFacts DEF AcceptPlain, ProcOK, Accepted
  <2>2. ops \in Seq(FileOp) /\ Rest(ops, 1) = ops /\ RemoveFile("master.key") = ops
    BY <2>1, OpsAreOps, WholeRest, OpsOfTheActions, DirFacts
  <2>3. Do(p, PeerKey, m, ops, "idle")
    BY <1>3, <2>1, <2>2 DEF AcceptPlain
  <2> HIDE DEF ops
  <2>4. proc' = [proc EXCEPT ![p] = [pc |-> "files", then |-> "config", key |-> PeerKey,
                                     master |-> m, todo |-> ops, next |-> "idle"]]
    BY <2>1, <2>3, DoSets
  <2> HIDE DEF m
  <2>5. AtFiles([pc |-> "files", then |-> "config", key |-> PeerKey, master |-> m,
                 todo |-> ops, next |-> "idle"])
    BY <1>3, <2>1, <2>2 DEF AtFiles, RemoveAt, Accepted, ops
  <2>6. "idle" \in DirPlaces /\ PeerKey \in Key
    BY DirFacts DEF DirPlaces
  <2> QED BY <1>1, <2>1, <2>2, <2>4, <2>5, <2>6, BeginsFiles
<1> QED BY <1>2, <1>3
LEMMA SearchKeeps ==
  ASSUME OneAtATime, DirIInv, NEW p \in Process,
         \/ StartInit(p) \/ StartOpenOrInit(p) \/ StartOpen(p)
         \/ LookForPlain(p) \/ LookForStray(p) \/ InitRefused(p) \/ Stop(p)
  PROVE  DirIInv'
<1>1. proc[p].pc \in {"idle", "plain?", "stray?", "init"} => proc[p].then = "config"
  BY Disassemble DEF ProcOK
<1>2. CASE StartInit(p)
  BY <1>1, <1>2, GotoKeeps DEF StartInit
<1>3. CASE StartOpenOrInit(p)
  <2>1. \E place \in {"load", "plain?"} : Goto(p, place)
    BY <1>3 DEF StartOpenOrInit
  <2> QED BY <1>1, <1>3, <2>1, GotoKeeps DEF StartOpenOrInit
<1>4. CASE StartOpen(p)
  BY <1>1, <1>4, GotoKeeps DEF StartOpen
<1>5. CASE LookForPlain(p)
  <2>1. \E place \in {"load", "stray?"} : Goto(p, place)
    BY <1>5 DEF LookForPlain
  <2> QED BY <1>1, <1>5, <2>1, GotoKeeps DEF LookForPlain
<1>6. CASE LookForStray(p)
  <2>1. Fail(p) \/ Goto(p, "init")
    BY <1>6 DEF LookForStray
  <2> QED BY <1>1, <1>6, <2>1, GotoKeeps, FailKeeps DEF LookForStray
<1>7. CASE InitRefused(p)
  BY <1>7, FailKeeps DEF InitRefused
<1>8. CASE Stop(p)
  BY <1>8, FailKeeps DEF Stop
<1> QED BY <1>2, <1>3, <1>4, <1>5, <1>6, <1>7, <1>8

\* What the lemmas below need of the process that moves.
LEMMA ProcessFields ==
  ASSUME DirIInv, NEW p \in Process
  PROVE  /\ proc[p] \in ProcessRecord /\ proc \in [Process -> ProcessRecord]
         /\ proc[p].then \in {"config", "offer"} /\ proc[p].then \in DirPlaces
         /\ ProcOK(proc[p]) /\ DiskTypes /\ DiskOK
BY Disassemble DEF ProcessRecord, ProcTypes, DirPlaces

LEMMA PutHumanKeeps ==
  ASSUME OneAtATime, DirIInv, NEW p \in Process, PutHuman(p)
  PROVE  DirIInv'
<1> DEFINE q == proc[p]
           x == [q EXCEPT !.pc = "open"]
<1>1. /\ proc' = [proc EXCEPT ![p] = x]
      /\ q.pc = "plant" /\ UNCHANGED <<disk, sealed>> /\ human' \in {human, TRUE}
  BY DEF PutHuman, Goto
<1>2. q \in ProcessRecord /\ ProcOK(q)
  BY ProcessFields
<1>3. /\ x \in ProcessRecord
      /\ x.pc = "open" /\ x.then = q.then /\ x.master = q.master
  BY <1>2 DEF ProcessRecord, DirPlaces
<1> HIDE DEF x
<1>4. ProcOK(x)
  BY <1>1, <1>2, <1>3 DEF ProcOK, Loaded
<1> QED BY <1>1, <1>3, <1>4, ProcessBecomes

LEMMA StartOfferKeeps ==
  ASSUME OneAtATime, DirIInv, NEW p \in Process, StartOffer(p)
  PROVE  DirIInv'
<1> DEFINE q == proc[p]
           x == [q EXCEPT !.pc = "load", !.then = "offer"]
<1>1. /\ proc' = [proc EXCEPT ![p] = x]
      /\ q.pc = "open" /\ UNCHANGED <<disk, sealed, human>>
  BY ProcessFields DEF StartOffer
<1>2. q \in ProcessRecord /\ ProcOK(q)
  BY ProcessFields
<1>3. x \in ProcessRecord /\ x.pc = "load" /\ x.then = "offer"
  BY <1>2 DEF ProcessRecord, DirPlaces
<1> HIDE DEF x
<1>4. ProcOK(x)
  BY <1>1, <1>2, <1>3 DEF ProcOK
<1> QED BY <1>1, <1>3, <1>4, ProcessBecomes

LEMMA ReadDeviceKeeps ==
  ASSUME OneAtATime, DirIInv, NEW p \in Process, ReadDevice(p)
  PROVE  DirIInv'
<1> DEFINE q == proc[p]
           x == [q EXCEPT !.key = Device, !.pc = "unwrap"]
<1>1. CASE Device \notin Key
  BY <1>1, FailKeeps DEF ReadDevice, Device
<1>2. CASE Device \in Key
  <2>1. /\ proc' = [proc EXCEPT ![p] = x]
        /\ q.pc = "load" /\ UNCHANGED <<disk, sealed, human>>
    BY <1>2, ProcessFields DEF ReadDevice, Device
  <2>2. q \in ProcessRecord /\ ProcOK(q)
    BY ProcessFields
  <2>3. x \in ProcessRecord /\ x.pc = "unwrap" /\ x.then = q.then /\ x.key = Device
    BY <1>2, <2>2 DEF ProcessRecord, DirPlaces
  <2> HIDE DEF x
  <2>4. ProcOK(x)
    BY <1>2, <2>1, <2>2, <2>3 DEF ProcOK
  <2> QED BY <2>1, <2>3, <2>4, ProcessBecomes
<1> QED BY <1>1, <1>2

LEMMA UnwrapKeeps ==
  ASSUME OneAtATime, DirIInv, NEW p \in Process, Unwrap(p)
  PROVE  DirIInv'
<1> DEFINE q == proc[p]
           m == disk[q.key]
           x == [q EXCEPT !.master = m, !.pc = q.then]
<1>1. CASE m \notin MasterKey
  BY <1>1, FailKeeps DEF Unwrap
<1>2. CASE m \in MasterKey
  <2>1. /\ proc' = [proc EXCEPT ![p] = x]
        /\ q.pc = "unwrap" /\ UNCHANGED <<disk, sealed, human>>
    BY <1>2, ProcessFields DEF Unwrap
  <2>2. q \in ProcessRecord /\ ProcOK(q) /\ q.then \in {"config", "offer"} /\ q.then \in DirPlaces
    BY ProcessFields
  <2>3. x \in ProcessRecord /\ x.pc = q.then /\ x.then = q.then /\ x.master = m
    BY <1>2, <2>2 DEF ProcessRecord
  <2>4. q.key \in Key /\ q.key = Device
    BY <2>1, <2>2 DEF ProcOK
  <2> HIDE DEF x
  <2>5. Loaded(x)
    BY <1>2, <2>3, <2>4 DEF Loaded
  <2>6. ProcOK(x)
    BY <2>1, <2>2, <2>3, <2>5 DEF ProcOK
  <2> QED BY <2>1, <2>3, <2>6, ProcessBecomes
<1> QED BY <1>1, <1>2

LEMMA ReadPlainKeeps ==
  ASSUME OneAtATime, DirIInv, NEW p \in Process, ReadPlain(p)
  PROVE  DirIInv'
<1> DEFINE q == proc[p]
           m == disk["master.key"]
           x == [q EXCEPT !.master = m, !.pc = "migrate"]
<1>1. CASE m \notin MasterKey
  BY <1>1, FailKeeps DEF ReadPlain
<1>2. CASE m \in MasterKey
  <2>1. /\ proc' = [proc EXCEPT ![p] = x]
        /\ q.pc = "load" /\ ~ HasWraps /\ UNCHANGED <<disk, sealed, human>>
    BY <1>2, ProcessFields DEF ReadPlain
  <2>2. q \in ProcessRecord /\ ProcOK(q)
    BY ProcessFields
  <2>3. x \in ProcessRecord /\ x.pc = "migrate" /\ x.then = q.then /\ x.master = m
    BY <1>2, <2>2 DEF ProcessRecord, DirPlaces
  <2> HIDE DEF x
  <2>4. ProcOK(x)
    BY <1>2, <2>1, <2>2, <2>3 DEF ProcOK
  <2> QED BY <2>1, <2>3, <2>4, ProcessBecomes
<1> QED BY <1>1, <1>2
LEMMA OpenVaultKeeps ==
  ASSUME OneAtATime, DirIInv, NEW p \in Process, OpenVault(p)
  PROVE  DirIInv'
<1> DEFINE q == proc[p]
           x == [q EXCEPT !.pc = "open"]
<1>1. CASE disk["config.json"] # Written
  BY <1>1, FailKeeps DEF OpenVault
<1>2. CASE disk["config.json"] = Written
  <2>1. /\ proc' = [proc EXCEPT ![p] = x] /\ q.pc = "config"
        /\ disk' = [disk EXCEPT !["vault.db"] = Written] /\ sealed' = sealed /\ human' = human
    BY <1>2 DEF OpenVault, Goto
  <2>2. /\ q \in ProcessRecord /\ ProcOK(q) /\ proc \in [Process -> ProcessRecord]
        /\ DiskTypes /\ DiskOK
    BY ProcessFields
  <2>3. /\ x \in ProcessRecord
        /\ x.pc = "open" /\ x.then = q.then /\ x.master = q.master
    BY <2>2 DEF ProcessRecord, DirPlaces
  <2> HIDE DEF x
  <2>4. /\ DOMAIN disk' = Name \cup Key /\ disk'["vault.db"] = Written
        /\ \A f \in Name \cup Key : f # "vault.db" => disk'[f] = disk[f]
    BY <2>1, <2>2, FileNames DEF DiskTypes
  <2>5. /\ Device' = Device /\ disk'["master.key"] = disk["master.key"]
        /\ disk'["config.json"] = disk["config.json"]
        /\ \A k \in Key : disk'[k] = disk[k]
        /\ HasWraps' = HasWraps
    BY <2>4, FileNames DEF Device, HasWraps
  <2>6. DiskTypes'
    BY <2>1, <2>2, <2>4, <2>5 DEF DiskTypes
  <2>7. DiskOK'
    BY <2>1, <2>2, <2>4, <2>5, DirFacts DEF DiskOK, MasterSurvives, Device
  <2>8. ProcTypes' /\ proc'[p] = x
    BY <2>1, <2>2, <2>3 DEF ProcTypes, ProcessRecord
  <2>9. Loaded(proc[p])'
    BY <2>1, <2>2, <2>3, <2>5, <2>8 DEF Loaded, ProcOK
  <2>10. ProcOK(proc[p])'
    BY <2>1, <2>2, <2>3, <2>4, <2>8, <2>9 DEF ProcOK
  <2> QED BY <2>6, <2>7, <2>8, <2>10, Assemble
<1> QED BY <1>1, <1>2

\* Nothing is sealed yet, so no master.key is left: the master of the vault
\* that is open is the one its device can unwrap.
LEMMA SealKeeps ==
  ASSUME OneAtATime, DirIInv, NEW p \in Process, Seal(p)
  PROVE  DirIInv'
<1> DEFINE q == proc[p]
<1>1. /\ q.pc = "open" /\ sealed = Nil /\ sealed' = q.master
      /\ disk' = disk /\ human' = human /\ proc' = proc
  BY DEF Seal
<1>2. /\ q \in ProcessRecord /\ ProcOK(q) /\ ProcTypes /\ DiskTypes /\ DiskOK
  BY ProcessFields, Disassemble
<1>3. Device \in Key /\ q.master \in MasterKey /\ disk[Device] = q.master
      /\ disk["vault.db"] = Written
  BY <1>1, <1>2 DEF ProcOK, Loaded
<1>4. disk["master.key"] = Absent
  BY <1>1, <1>2, DirFacts DEF DiskOK, DiskTypes
<1>5. Device = PeerKey => q.master \in Offers
  BY <1>2, <1>3, DirFacts DEF DiskOK
<1>6. DiskTypes' /\ ProcTypes'
  BY <1>1, <1>2, <1>3 DEF DiskTypes, ProcTypes, Device
<1>7. DiskOK'
  <2>1. Device' = Device /\ HasWraps' = HasWraps
    BY <1>1 DEF Device, HasWraps
  <2> QED BY <1>1, <1>2, <1>3, <1>4, <1>5, <2>1 DEF DiskOK, MasterSurvives, Device
<1>8. Loaded(q)'
  BY <1>1, <1>3 DEF Loaded, Device
<1>9. ProcOK(q)'
  BY <1>1, <1>2, <1>3, <1>8 DEF ProcOK
<1> QED BY <1>1, <1>6, <1>7, <1>9, Assemble

LEMMA DirStepKeeps ==
  ASSUME OneAtATime, DirIInv, [Next]_vars
  PROVE  DirIInv'
<1>1. CASE UNCHANGED vars
  BY <1>1 DEF vars, DirIInv, TypeOK, ProcTypes, DiskOK, MasterSurvives, HasWraps, Device, ProcOK,
              AtFiles, InitAt, MigrateAt, OfferAt, AcceptAt, RemoveAt, Accepted, Loaded
<1>2. CASE Next
  <2>1. PICK p \in Process :
          \/ StartInit(p) \/ StartOpenOrInit(p) \/ StartOpen(p) \/ StartOffer(p) \/ Accept(p)
          \/ LookForPlain(p) \/ LookForStray(p) \/ InitRefused(p) \/ InitWrites(p) \/ PutHuman(p)
          \/ ReadDevice(p) \/ Unwrap(p) \/ ReadPlain(p) \/ MigrateWraps(p)
          \/ OpenVault(p) \/ Seal(p) \/ Offer(p) \/ AcceptPlain(p)
          \/ Operate(p) \/ Stop(p)
    BY <1>2 DEF Next
  <2> QED BY <2>1, SearchKeeps, StartOfferKeeps, AcceptKeeps, InitWritesKeeps, PutHumanKeeps,
             ReadDeviceKeeps, UnwrapKeeps, ReadPlainKeeps, MigrateWrapsKeeps, OpenVaultKeeps,
             SealKeeps, OfferKeeps, AcceptPlainKeeps, OperateKeeps
<1> QED BY <1>1, <1>2

LEMMA DirInitFits ==
  ASSUME Init
  PROVE  DirIInv
<1>1. /\ Idle \in ProcessRecord /\ ProcOK(Idle) /\ proc = [p \in Process |-> Idle]
  BY DEF Idle, ProcessRecord, DirPlaces, ProcOK, Init
<1>2. ProcTypes /\ \A p \in Process : proc[p] = Idle
  BY <1>1 DEF ProcTypes, ProcessRecord
<1>3. PICK m \in MasterKey \cup {Nil} :
        \/ disk = Empty /\ sealed = Nil /\ human = FALSE
        \/ /\ m \in Plain
           /\ disk = [Empty EXCEPT !["master.key"] = m, !["config.json"] = Written,
                                   !["vault.db"] = Written]
           /\ sealed = m /\ human = TRUE
        \/ /\ m \in Offers
           /\ disk = [Empty EXCEPT !["config.json"] = Written, !["vault.db"] = Written]
           /\ sealed = m /\ human = TRUE
  BY DirFacts DEF Init
<1>4. /\ DOMAIN disk = Name \cup Key /\ Device = Absent /\ \A k \in Key : disk[k] = Absent
      /\ disk["master.key"] \in {Absent, m} /\ disk["config.json"] \in {Absent, Written}
      /\ disk["vault.db"] \in {Absent, Written}
      /\ sealed \in {Nil, m} /\ human \in BOOLEAN
      /\ disk["master.key"] # Absent => disk["master.key"] = m /\ m \in Plain /\ sealed = m
      /\ sealed # Nil => disk["vault.db"] = Written
      /\ sealed # Nil => disk["master.key"] = sealed \/ sealed \in Offers
  BY <1>3, FileNames DEF Empty, Device
<1>5. DiskTypes
  BY <1>3, <1>4, DirFacts DEF DiskTypes
<1>6. DiskOK
  BY <1>4, DirFacts DEF DiskOK, MasterSurvives, HasWraps, Device
<1>7. TypeOK
  BY <1>1, <1>2, <1>5 DEF TypeOK, DiskTypes, Device, ProcessRecord
<1> QED BY <1>1, <1>2, <1>6, <1>7 DEF DirIInv

LEMMA DirInvFollows ==
  ASSUME DirIInv
  PROVE  DirInv
<1>1. MasterSurvives /\ TypeOK
  BY DEF DirIInv, DiskOK
<1>2. ASSUME NEW p \in Process, proc[p].pc = "open", sealed # Nil
      PROVE  proc[p].master = sealed
  BY <1>2 DEF DirIInv, DiskOK, ProcOK, Loaded
<1> QED BY <1>1, <1>2 DEF DirInv, OpenWithItsMaster
-----------------------------------------------------------------------------
(* master.key goes last.                                                   *)

\* The file operation of process p that is the n-th of ops.
LEMMA OperateWrites ==
  ASSUME DirIInv, NEW p \in Process, Operate(p),
         NEW ops \in Seq(FileOp), NEW n \in 1 .. Len(ops), proc[p].todo = Rest(ops, n)
  PROVE  \A f \in Name \cup Key : disk'[f] = IF f = ops[n].file THEN ops[n].value ELSE disk[f]
BY Disassemble, OperateOn DEF Did

\* None of these is the removal of master.key, but the fifth of MigrateOps.
LEMMA OtherFiles ==
  ASSUME NEW k \in Key, NEW m
  PROVE  /\ \A n \in 1 .. 7 : InitOps(k, m)[n].file # "master.key"
         /\ \A n \in 1 .. 4 : MigrateOps(k, m)[n].file # "master.key"
         /\ MigrateOps(k, m)[5] = Op("master.key", Absent)
         /\ \A n \in 1 .. 2 : OfferOps(m)[n].file # "master.key"
         /\ \A n \in 1 .. 4 : WrapOps(k, m)[n].file # "master.key"
<1>1. k # "master.key" /\ PeerKey # "master.key"
  BY FileNames, DirFacts
<1>2. \A n \in 1 .. 7 : InitOps(k, m)[n].file # "master.key"
  BY <1>1 DEF InitOps, Op
<1>3. \A n \in 1 .. 4 : MigrateOps(k, m)[n].file # "master.key"
  BY <1>1 DEF MigrateOps, Op
<1>4. \A n \in 1 .. 2 : OfferOps(m)[n].file # "master.key"
  BY <1>1 DEF OfferOps, Op
<1>5. \A n \in 1 .. 4 : WrapOps(k, m)[n].file # "master.key"
  BY <1>1 DEF WrapOps, Op
<1>6. MigrateOps(k, m)[5] = Op("master.key", Absent)
  BY DEF MigrateOps
<1> QED BY <1>2, <1>3, <1>4, <1>5, <1>6

\* When a whole wrap for the device key is left, a later command loads it.
LEMMA LoadsTheWrap ==
  ASSUME DirIInv, NEW p \in Process, Operate(p), NEW ops \in Seq(FileOp), NEW n \in 1 .. Len(ops),
         proc[p].todo = Rest(ops, n), ops[n].file = "master.key",
         Device \in Key, disk[Device] \in MasterKey, disk[Device] = disk["master.key"]
  PROVE  LoadedMaster' = disk["master.key"]
<1>1. \A f \in Name \cup Key : f # "master.key" => disk'[f] = disk[f]
  BY OperateWrites
<1>2. Device' = Device /\ disk'[Device] = disk[Device]
  BY <1>1, FileNames DEF Device
<1>3. HasWraps'
  BY <1>2, DirFacts DEF HasWraps
<1> QED BY <1>2, <1>3 DEF LoadedMaster, Device

LEMMA PlainStays ==
  ASSUME OneAtATime, DirIInv, Next,
         disk["master.key"] # Absent, disk'["master.key"] = Absent
  PROVE  LoadedMaster' = disk["master.key"]
<1>1. PICK p \in Process : Operate(p)
  <2>1. ASSUME NEW p \in Process, OpenVault(p)
        PROVE  FALSE
    <3>1. DOMAIN disk = Name \cup Key /\ "master.key" \in Name
      BY ProcessFields, FileNames DEF DiskTypes
    <3> QED BY <2>1, <3>1 DEF OpenVault
  <2>2. disk' # disk
    OBVIOUS
  <2>3. PICK p \in Process : OpenVault(p) \/ Operate(p)
    BY <2>2 DEF Next, StartInit, StartOpenOrInit, StartOpen, StartOffer, Accept, LookForPlain,
                LookForStray, InitRefused, InitWrites, PutHuman, ReadDevice, Unwrap, ReadPlain,
                MigrateWraps, Seal, Offer, AcceptPlain, Stop
  <2> QED BY <2>1, <2>3
<1> DEFINE q == proc[p]
<1>2. AtFiles(q) /\ DiskTypes
  BY <1>1, ProcessFields DEF Operate, ProcOK
<1>3. "master.key" \in Name \cup Key
  BY FileNames
<1>4. ASSUME NEW ops \in Seq(FileOp), NEW n \in 1 .. Len(ops), q.todo = Rest(ops, n)
      PROVE  ops[n].file = "master.key"
  BY <1>1, <1>3, <1>4, OperateWrites
<1>5. ASSUME NEW n \in 1 .. 7, InitAt(q, n)
      PROVE  FALSE
  <2> DEFINE ops == InitOps(q.key, q.master)
  <2>1. q.key \in Key /\ q.master \in MasterKey /\ q.todo = Rest(ops, n)
    BY <1>5 DEF InitAt
  <2>2. ops \in Seq(FileOp) /\ Len(ops) = 7 /\ ops[n].file # "master.key"
    BY <2>1, OpsAreOps, OtherFiles
  <2> HIDE DEF ops
  <2> QED BY <1>4, <2>1, <2>2
<1>6. ASSUME NEW n \in 1 .. 7, MigrateAt(q, n)
      PROVE  LoadedMaster' = disk["master.key"]
  <2> DEFINE ops == MigrateOps(q.key, q.master)
  <2>1. q.key \in Key /\ q.master \in MasterKey /\ q.todo = Rest(ops, n) /\ n \in 1 .. 5
        /\ disk["master.key"] = q.master
    BY <1>6 DEF MigrateAt
  <2>2. /\ ops \in Seq(FileOp) /\ Len(ops) = 5
        /\ \A i \in 1 .. 4 : ops[i].file # "master.key"
    BY <2>1, OpsAreOps, OtherFiles
  <2> HIDE DEF ops
  <2>3. ops[n].file = "master.key"
    BY <1>4, <2>1, <2>2
  <2>4. n = 5
    BY <2>1, <2>2, <2>3
  <2>5. Device = q.key /\ disk[q.key] = q.master
    BY <1>6, <2>4 DEF MigrateAt
  <2>6. n \in 1 .. Len(ops)
    BY <2>1, <2>2
  <2> QED BY <1>1, <2>1, <2>2, <2>3, <2>5, <2>6, LoadsTheWrap
<1>7. ASSUME NEW n \in 1 .. 7, OfferAt(q, n)
      PROVE  FALSE
  <2> DEFINE ops == OfferOps(q.master)
  <2>1. n \in 1 .. 2 /\ q.master \in MasterKey /\ q.todo = Rest(ops, n)
    BY <1>7 DEF OfferAt
  <2>2. ops \in Seq(FileOp) /\ Len(ops) = 2 /\ ops[n].file # "master.key"
    BY <2>1, OpsAreOps, OtherFiles, DirFacts
  <2> HIDE DEF ops
  <2> QED BY <1>4, <2>1, <2>2
<1>8. ASSUME NEW n \in 1 .. 7, AcceptAt(q, n)
      PROVE  FALSE
  <2> DEFINE ops == WrapOps(PeerKey, q.master)
  <2>1. n \in 1 .. 4 /\ q.master \in MasterKey /\ q.todo = Rest(ops, n)
    BY <1>8, DirFacts DEF AcceptAt
  <2>2. ops \in Seq(FileOp) /\ Len(ops) = 4 /\ ops[n].file # "master.key"
    BY <2>1, OpsAreOps, OtherFiles, DirFacts
  <2> HIDE DEF ops
  <2> QED BY <1>4, <2>1, <2>2
<1>9. CASE RemoveAt(q)
  <2> DEFINE ops == RemoveOps
  <2>1. /\ q.master \in MasterKey /\ q.todo = Rest(ops, 1)
        /\ Device = PeerKey /\ disk[PeerKey] = q.master /\ disk["master.key"] = q.master
    BY <1>9, DirFacts DEF RemoveAt, Accepted
  <2>2. ops \in Seq(FileOp) /\ Len(ops) = 1
    BY <2>1, OpsAreOps, DirFacts
  <2>3. ops[1].file = "master.key"
    BY DEF RemoveOps, Op
  <2> HIDE DEF ops
  <2>4. 1 \in 1 .. Len(ops) /\ Device \in Key
    BY <2>1, <2>2, DirFacts
  <2> QED BY <1>1, <2>1, <2>2, <2>3, <2>4, LoadsTheWrap
<1> QED BY <1>2, <1>5, <1>6, <1>7, <1>8, <1>9 DEF AtFiles

\* The commands of an origin's client leave the vault directory alone.
LEMMA DirMachineStep ==
  ASSUME OneAtATime, DirIInv, [MachineNext]_machineVars
  PROVE  DirIInv'
<1>1. [Next]_vars
  BY DEF MachineNext, ClientSide, VaultSide, machineVars
<1> QED BY <1>1, DirStepKeeps

\* With one command at a time and one vault, for any number of keys: wherever
\* a command stops, between two file operations or within one, the master that
\* sealed the database can still be loaded or is in the offer the user holds,
\* and a vault that is open holds the master its database was sealed under.
THEOREM DirInvHolds ==
  ASSUME OneAtATime
  PROVE  MachineSpec => []DirInv
<1>1. MachineInit => DirIInv
  BY DirInitFits DEF MachineInit
<1>2. DirIInv /\ [MachineNext]_machineVars => DirIInv'
  BY DirMachineStep
<1>3. DirIInv => DirInv
  BY DirInvFollows
<1> QED BY <1>1, <1>2, <1>3, PTL DEF MachineSpec

\* With one command at a time and one vault, no step removes master.key before
\* the device key and the wrap that hold the same master are whole on disk.
THEOREM PlainGoesLastHolds ==
  ASSUME OneAtATime
  PROVE  MachineSpec => PlainGoesLast
<1> DEFINE Last == disk["master.key"] # Absent /\ disk'["master.key"] = Absent
                     => LoadedMaster' = disk["master.key"]
<1>1. MachineInit => DirIInv
  BY DirInitFits DEF MachineInit
<1>2. DirIInv /\ [MachineNext]_machineVars => DirIInv'
  BY DirMachineStep
<1>3. DirIInv /\ [MachineNext]_machineVars => [Last]_vars
  <2>1. ASSUME DirIInv, Next
        PROVE  Last
    BY <2>1, PlainStays
  <2> QED BY <2>1 DEF MachineNext, ClientSide, VaultSide, machineVars
<1> QED BY <1>1, <1>2, <1>3, PTL DEF MachineSpec, PlainGoesLast

=============================================================================
