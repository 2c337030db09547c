------------------------------- MODULE Client -------------------------------
(***************************************************************************)
(* The commands of a machine whose vault is an origin (VEIL_ORIGIN), and   *)
(* the files they share: the agent's client secret, its JWT and the        *)
(* human's ID token (internal/cli/origin.go, origin_human.go,              *)
(* origin_run.go, mcp_stdio.go, the "agent hydra" and "agent token"        *)
(* commands of cli.go, internal/human/loginhttp.go).                       *)
(*                                                                         *)
(* A secret is a number, counting Hydra's rotations; a token is the time   *)
(* at which it expires; 0 is a file that is missing or emptied.            *)
(* os.WriteFile empties a file and then writes it.  A command may stop     *)
(* between any two steps.  Hydra and Kratos may fail to answer, and may    *)
(* have done what was asked all the same.                                  *)
(***************************************************************************)
EXTENDS Integers, FiniteSets

CONSTANTS Command,    \* the commands that may run at once, numbered
          Life, Skew, \* of a token, and jwtRefreshSkew
          MaxClock, MaxBegins, MaxRotations, MaxCallbacks  \* bounds

ASSUME ClientAssumption ==
  /\ Command \cup {Life, Skew, MaxClock, MaxBegins, MaxRotations, MaxCallbacks} \subseteq Nat
  /\ Life > Skew /\ MaxRotations > 0

VARIABLES
  now,
  secret,   \* the client secret Hydra accepts; 0: no client yet
  secretFile, tokenFile, humanFile,
  cmd,
  callback, \* of the browser login: how many were made, what the two channels
            \* hold, and how many handlers wait to send to each
  begins

files      == <<secretFile, tokenFile, humanFile>>
clientVars == <<now, secret, files, cmd, callback, begins>>

\* "use" stands for the commands that need the agent's JWT (use, events, the
\* calls of the MCP adapter), "item" for those that write items and "admin" for
\* those on grants, sessions and agents, which need the human, "proxy" for proxy
\* and run, "login" for human login with a browser and "relogin" without one.
HumanCommands == {"item", "admin"}
Operation == {"hydra", "force", "token", "use", "list", "proxy", "login", "relogin"}
               \cup HumanCommands

\* The clock and Hydra's secret when it began, the secret and the token it
\* holds, whose token that is, the codes LoginHTTP has still to try.  alone:
\* nobody else has rotated the secret, nor could have, since it began.  silent:
\* Hydra has replaced the client and given it no new secret.
Waiting == [pc |-> "idle", op |-> "use", since |-> 0, held |-> 0, tok |-> 0,
            whose |-> "agent", tries |-> 0, alone |-> FALSE, silent |-> FALSE]

NoCallback == [made |-> 0, err |-> 0, code |-> 0, errWait |-> 0, codeWait |-> 0]

Time == 0 .. MaxClock + Life

ClientTypeOK ==
  /\ now \in 0 .. MaxClock /\ secret \in 0 .. MaxRotations
  /\ secretFile \in 0 .. MaxRotations /\ tokenFile \in Time /\ humanFile \in Time
  /\ \A c \in Command :
       /\ cmd[c].op \in Operation /\ cmd[c].tok \in Time
       /\ cmd[c].held \in 0 .. MaxRotations /\ cmd[c].whose \in {"agent", "human"}
  /\ callback.err \in 0 .. 1 /\ callback.code \in 0 .. 1
  /\ begins \in 0 .. MaxBegins

\* A new machine, or one that was set up just now.
ClientInit ==
  /\ now = 0
  /\ \/ secret = 0 /\ secretFile = 0 /\ tokenFile = 0 /\ humanFile = 0
     \/ secret = 1 /\ secretFile = 1 /\ tokenFile = Life /\ humanFile = Life
  /\ cmd = [c \in Command |-> Waiting] /\ callback = NoCallback /\ begins = 0

In(c, place)   == cmd[c].pc = place
To(c, place)   == cmd' = [cmd EXCEPT ![c].pc = place]
Ended(c)       == cmd[c].pc \in {"idle", "done"}
Lose(c)        == cmd' = [cmd EXCEPT ![c] = Waiting]
Finish(c)      == cmd' = [cmd EXCEPT ![c] = [Waiting EXCEPT !.pc = "done", !.op = cmd[c].op,
                                                            !.alone = cmd[c].alone, !.silent = cmd[c].silent]]
World          == <<now, secret, callback, begins>>
Rotates(c)     == ~ Ended(c) /\ cmd[c].op \in {"hydra", "force"}

\* Commands are alike: a new one takes the first number that is free.
Begin(c, op) ==
  LET rival == \E d \in Command \ {c} : Rotates(d) IN
  /\ Ended(c) /\ \A d \in Command : Ended(d) => c <= d
  /\ begins < MaxBegins /\ begins' = begins + 1
  /\ op = "login" => \A d \in Command : Ended(d) \/ cmd[d].op # "login"
  /\ cmd' = [d \in Command |->
       IF d = c THEN [Waiting EXCEPT !.op = op, !.since = now, !.alone = ~ rival,
                        !.whose = IF op \in HumanCommands \cup {"list"} THEN "human" ELSE "agent",
                        !.pc = CASE op = "hydra" -> "read secret"
                                 [] op = "force" -> "rotate"
                                 [] op = "token" -> "mint with"
                                 [] op \in HumanCommands \cup {"list"} -> "human file"
                                 [] op = "relogin" -> "password"
                                 [] op = "login" -> "listen"
                                 [] OTHER -> "token file"]
       ELSE [cmd[d] EXCEPT !.alone = @ /\ op \notin {"hydra", "force"}]]
  /\ callback' = IF op = "login" THEN NoCallback ELSE callback
  /\ UNCHANGED <<now, secret, files>>

(***************************************************************************)
(* agent hydra: verify the secret on disk, rotate only if it is rejected.  *)
(***************************************************************************)
ReadSecret(c) ==
  /\ In(c, "read secret")
  /\ cmd' = [cmd EXCEPT ![c].held = secretFile,
                        ![c].pc = IF secretFile = 0 THEN "rotate" ELSE "verify"]
  /\ UNCHANGED <<World, files>>

\* Hydra rejects it, or accepts it, or does not answer: that proves nothing.
VerifyLoose(c) ==
  /\ In(c, "verify")
  /\ To(c, IF cmd[c].held = secret THEN "bind" ELSE "rotate") \/ To(c, "rotate")
  /\ UNCHANGED <<World, files>>

Verify(c) ==
  /\ In(c, "verify")
  /\ \/ To(c, IF cmd[c].held = secret THEN "bind" ELSE "rotate")
     \/ Lose(c)
  /\ UNCHANGED <<World, files>>

\* EnsureAgent: a client that is not there is created, which makes a secret; one
\* that is there is replaced, which makes a new one or leaves it as it is.
LookUp(c) ==
  /\ In(c, "rotate")
  /\ To(c, IF secret = 0 THEN "create" ELSE "replace") \/ Lose(c)
  /\ UNCHANGED <<World, files>>

MayRotate(c) ==
  /\ In(c, "create") => secret = 0
  /\ In(c, "create") \/ In(c, "replace")
  /\ secret < MaxRotations

Rotate(c) ==
  /\ MayRotate(c)
  /\ secret' = secret + 1
  /\ cmd' = [d \in Command |->
       IF d # c THEN [cmd[d] EXCEPT !.alone = FALSE]
       ELSE [cmd[c] EXCEPT !.held = secret + 1, !.pc = "empty secret"]]
  /\ UNCHANGED <<now, callback, begins, files>>

\* The replaced client comes back without a secret: a file that is there, emptied
\* or with a copy that was just rejected, is taken for the one to keep.
KeepSecret(c) ==
  /\ In(c, "replace")
  /\ \/ cmd' = [cmd EXCEPT ![c].silent = TRUE, ![c].pc = "bind"]
     \/ secretFile = 0 /\ Lose(c)
  /\ UNCHANGED <<World, files>>

\* The answer is lost; or somebody else has created the client.
RotateLost(c) ==
  /\ \/ MayRotate(c) /\ secret' \in {secret, secret + 1}
     \/ In(c, "create") /\ secret # 0 /\ secret' = secret
  /\ Lose(c)
  /\ UNCHANGED <<now, callback, begins, files>>

EmptySecret(c) ==
  /\ In(c, "empty secret") /\ secretFile' = 0 /\ To(c, "write secret")
  /\ UNCHANGED <<World, tokenFile, humanFile>>

WriteSecret(c) ==
  /\ In(c, "write secret") /\ secretFile' = cmd[c].held /\ To(c, "bind")
  /\ UNCHANGED <<World, tokenFile, humanFile>>

\* BindWorkload, or not if the agent was revoked.
BindClient(c) ==
  /\ In(c, "bind") /\ (Finish(c) \/ Lose(c)) /\ UNCHANGED <<World, files>>

\* The same client is set up from another machine.
RotateElsewhere ==
  /\ secret < MaxRotations /\ secret' = secret + 1
  /\ cmd' = [d \in Command |-> [cmd[d] EXCEPT !.alone = FALSE]]
  /\ UNCHANGED <<now, callback, begins, files>>

(***************************************************************************)
(* originTokenLive: the token file, if it is not about to expire; else one *)
(* minted with the client secret.                                          *)
(***************************************************************************)
Live(tok) == tok # 0 /\ now + Skew < tok

ReadAnyToken(c) ==
  /\ In(c, "token file")
  /\ cmd' = [cmd EXCEPT ![c].tok = tokenFile, ![c].whose = "agent",
                        ![c].pc = IF tokenFile # 0 THEN "present" ELSE "mint with"]
  /\ UNCHANGED <<World, files>>

ReadToken(c) ==
  /\ In(c, "token file")
  /\ cmd' = [cmd EXCEPT ![c].tok = tokenFile, ![c].whose = "agent",
                        ![c].pc = IF Live(tokenFile) THEN "present" ELSE "mint with"]
  /\ UNCHANGED <<World, files>>

\* originRemint and agent token: an empty secret file is an error.
MintWith(c) ==
  /\ In(c, "mint with")
  /\ IF secretFile = 0 THEN Lose(c)
     ELSE cmd' = [cmd EXCEPT ![c].held = secretFile, ![c].pc = "mint"]
  /\ UNCHANGED <<World, files>>

Mint(c) ==
  /\ In(c, "mint")
  /\ \/ /\ cmd[c].held = secret
        /\ cmd' = [cmd EXCEPT ![c].tok = now + Life, ![c].pc = "empty token"]
     \/ Lose(c)
  /\ UNCHANGED <<World, files>>

EmptyToken(c) ==
  /\ In(c, "empty token") /\ tokenFile' = 0 /\ To(c, "write token")
  /\ UNCHANGED <<World, secretFile, humanFile>>

WriteToken(c) ==
  /\ In(c, "write token") /\ tokenFile' = cmd[c].tok
  /\ IF cmd[c].op = "token" THEN Finish(c) ELSE To(c, "present")
  /\ UNCHANGED <<World, secretFile, humanFile>>

(***************************************************************************)
(* originHumanTokenLive: the human's file, or LoginHTTP: password, then    *)
(* the code of now, of the step before and of the next, then the exchange. *)
(***************************************************************************)
ReadHuman(c) ==
  /\ In(c, "human file")
  /\ cmd' = [cmd EXCEPT ![c].tok = humanFile,
                        ![c].pc = IF Live(humanFile) THEN "confirm" ELSE "password"]
  /\ UNCHANGED <<World, files>>

\* originOwnerToken takes the agent's token when no human's can be had.
NoHuman(c) == IF cmd[c].op = "list" THEN To(c, "token file") ELSE Lose(c)

\* A callback already here would be a login of one factor: refused.
Password(c) ==
  /\ In(c, "password")
  /\ \/ cmd' = [cmd EXCEPT ![c].tries = 3, ![c].pc = "totp"]
     \/ NoHuman(c)
  /\ UNCHANGED <<World, files>>

TryCode(c) ==
  /\ In(c, "totp")
  /\ \/ To(c, "exchange")
     \/ IF cmd[c].tries > 1 THEN cmd' = [cmd EXCEPT ![c].tries = @ - 1] ELSE NoHuman(c)
     \/ NoHuman(c)
  /\ UNCHANGED <<World, files>>

\* The exchange, and RequireTOTP of the token it gives.
Exchange(c) ==
  /\ In(c, "exchange")
  /\ \/ cmd' = [cmd EXCEPT ![c].tok = now + Life, ![c].pc = "empty human"]
     \/ NoHuman(c)
  /\ UNCHANGED <<World, files>>

EmptyHuman(c) ==
  /\ In(c, "empty human") /\ humanFile' = 0 /\ To(c, "write human")
  /\ UNCHANGED <<World, secretFile, tokenFile>>

WriteHuman(c) ==
  /\ In(c, "write human") /\ humanFile' = cmd[c].tok
  /\ CASE cmd[c].op = "login"   -> To(c, "shutdown")
       [] cmd[c].op = "relogin" -> Finish(c)
       [] OTHER                 -> To(c, "confirm")
  /\ UNCHANGED <<World, secretFile, tokenFile>>

\* confirm.CLIAccess: the person at the machine agrees or not, and a refusal
\* is not answered with the agent's token.
Confirm(c) ==
  /\ In(c, "confirm") /\ (To(c, "present") \/ Lose(c)) /\ UNCHANGED <<World, files>>

\* The request to the origin, which may fail.
Present(c, ops) ==
  /\ In(c, "present") /\ cmd[c].op \in ops
  /\ Finish(c) \/ Lose(c)
  /\ UNCHANGED <<World, files>>

Use(c)   == Present(c, {"use"})
List(c)  == Present(c, {"list"})
Admin(c) == Present(c, {"admin"})

\* "item update" sends a request for every URL, all with the token it has, and
\* stops at the first that fails.
WriteItem(c) ==
  \/ Present(c, {"item"})
  \/ In(c, "present") /\ cmd[c].op = "item" /\ UNCHANGED clientVars

\* A proxy lists the agent's items once and then presents the same token with
\* every request of its child.
Serve(c) ==
  /\ In(c, "present") /\ cmd[c].op = "proxy"
  /\ To(c, "serving") \/ Lose(c)
  /\ UNCHANGED <<World, files>>

(***************************************************************************)
(* human login with a browser: a handler answers each callback and sends   *)
(* to one of two channels that hold one value; the command takes the first *)
(* value or times out, and Shutdown waits for the handlers.                *)
(***************************************************************************)
Listening == \E c \in Command : cmd[c].op = "login" /\ cmd[c].pc = "listen"

\* An error or another login's state, or a code.
Visit ==
  /\ Listening /\ callback.made < MaxCallbacks
  /\ \/ callback' = [callback EXCEPT !.made = @ + 1, !.errWait = @ + 1]
     \/ callback' = [callback EXCEPT !.made = @ + 1, !.codeWait = @ + 1]
  /\ UNCHANGED <<now, secret, files, cmd, begins>>

Send ==
  /\ \/ /\ callback.errWait > 0 /\ callback.err = 0
        /\ callback' = [callback EXCEPT !.errWait = @ - 1, !.err = 1]
     \/ /\ callback.codeWait > 0 /\ callback.code = 0
        /\ callback' = [callback EXCEPT !.codeWait = @ - 1, !.code = 1]
  /\ UNCHANGED <<now, secret, files, cmd, begins>>

TakeError(c) ==
  /\ In(c, "listen") /\ callback.err = 1
  /\ callback' = [callback EXCEPT !.err = 0] /\ To(c, "shutdown")
  /\ UNCHANGED <<now, secret, files, begins>>

TakeCode(c) ==
  /\ In(c, "listen") /\ callback.code = 1
  /\ callback' = [callback EXCEPT !.code = 0] /\ To(c, "trade")
  /\ UNCHANGED <<now, secret, files, begins>>

\* The timer of ten minutes.
Await(c) == In(c, "listen") /\ callback.made > 0 /\ To(c, "shutdown") /\ UNCHANGED <<World, files>>

TimeOut(c) == In(c, "listen") /\ To(c, "shutdown") /\ UNCHANGED <<World, files>>

Trade(c) ==
  /\ In(c, "trade")
  /\ \/ cmd' = [cmd EXCEPT ![c].tok = now + Life, ![c].whose = "human", ![c].pc = "empty human"]
     \/ To(c, "shutdown")
  /\ UNCHANGED <<World, files>>

Shutdown(c) ==
  /\ In(c, "shutdown") /\ callback.errWait = 0 /\ callback.codeWait = 0
  /\ Finish(c) /\ callback' = NoCallback
  /\ UNCHANGED <<now, secret, files, begins>>

(***************************************************************************)
(* Time passes, a command is stopped.                                      *)
(***************************************************************************)
Tick == /\ now < MaxClock /\ now' = now + 1
        /\ UNCHANGED <<secret, files, cmd, callback, begins>>

StopCommand(c) ==
  /\ ~ Ended(c) /\ Lose(c) /\ callback' = IF cmd[c].op = "login" THEN NoCallback ELSE callback
  /\ UNCHANGED <<now, secret, files, begins>>

LoginStep(c) ==
  TakeError(c) \/ TakeCode(c) \/ TimeOut(c) \/ Trade(c) \/ Shutdown(c)
    \/ (cmd[c].op = "login" /\ (EmptyHuman(c) \/ WriteHuman(c)))

CommandStep(c) ==
  \/ ReadSecret(c) \/ Verify(c) \/ LookUp(c) \/ Rotate(c) \/ RotateLost(c) \/ KeepSecret(c)
  \/ EmptySecret(c) \/ WriteSecret(c) \/ BindClient(c) \/ ReadToken(c) \/ MintWith(c) \/ Mint(c)
  \/ EmptyToken(c) \/ WriteToken(c) \/ ReadHuman(c) \/ Password(c) \/ TryCode(c)
  \/ Exchange(c) \/ EmptyHuman(c) \/ WriteHuman(c) \/ Confirm(c)
  \/ Use(c) \/ List(c) \/ WriteItem(c) \/ Admin(c) \/ Serve(c)
  \/ LoginStep(c) \/ StopCommand(c) \/ \E op \in Operation : Begin(c, op)

ClientNext == (\E c \in Command : CommandStep(c)) \/ Visit \/ Send \/ RotateElsewhere \/ Tick

\* The handlers run, the timer fires and Hydra answers or the call fails.
ClientFairness ==
  WF_clientVars(Send) /\ \A c \in Command : WF_clientVars(LoginStep(c))

ClientSpec == ClientInit /\ [][ClientNext]_clientVars /\ ClientFairness

(***************************************************************************)
(* Properties                                                              *)
(***************************************************************************)
\* A command presents a token that was not yet about to expire when the
\* command began, or a newer one, though other commands empty and rewrite the
\* files meanwhile; and a human's command never presents the agent's.
PresentsLive ==
  \A c \in Command : In(c, "present") =>
    /\ cmd[c].tok > cmd[c].since + Skew
    /\ cmd[c].op \in HumanCommands => cmd[c].whose = "human"
    /\ cmd[c].op \in {"use", "proxy"} => cmd[c].whose = "agent"

\* Whatever earlier runs left behind (a stale copy, an emptied file, an answer
\* of Hydra that was lost), a run of "agent hydra" that ends well, with nobody
\* else rotating meanwhile, leaves the secret that Hydra accepts on disk: it has
\* verified the copy or written the secret it was given.  A run that was given
\* none says it ended well and may leave a copy that Hydra rejects.
LeavesAWorkingSecret ==
  \A c \in Command :
    /\ cmd[c].alone /\ cmd[c].op \in {"hydra", "force"} /\ cmd[c].pc \in {"bind", "done"}
    /\ ~ cmd[c].silent
    => secret # 0 /\ secretFile = secret

ClientInv == ClientTypeOK /\ PresentsLive /\ LeavesAWorkingSecret

\* A run that is not forced replaces Hydra's secret only when the copy it has
\* read is missing or is not the one Hydra accepts, never because Hydra did
\* not answer: every other copy of a working secret would be lost.
RotationsAreJustified ==
  [][\A c \in Command : MayRotate(c) /\ cmd[c].op = "hydra" /\ secret' # secret
       /\ cmd'[c] # cmd[c] => cmd[c].held = 0 \/ cmd[c].held # secret]_clientVars

\* A browser login ends, whether the browser answers or not, while at most one
\* callback is made; a second one can leave a handler waiting for good.
LoginReturns ==
  \A c \in Command :
    (In(c, "listen") /\ cmd[c].op = "login") ~> (Ended(c) \/ callback.made > 1)
=============================================================================
