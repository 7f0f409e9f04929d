-------------------------------- MODULE Connection --------------------------------
(***************************************************************************)
(* The SSH connections of one k3sup command, from the flags of join to the *)
(* return: which keys a connection is tried with, and what closes it.      *)
(*                                                                         *)
(* install, get-config and node-token make one connection, to a server,    *)
(* with connectOperator. join makes one to the host it sets up, with the   *)
(* copies of that code in setupAdditionalServer and setupAgent, and before *)
(* that one to the server, when it has no token yet.                       *)
(*                                                                         *)
(* A deferred call is the name of what it closes. What is deferred by      *)
(* connectOperator runs when that returns, all the rest with the command.  *)
(***************************************************************************)
EXTENDS Integers

VARIABLES
  command,   \* "connect" (install, get-config, node-token) or "join"
  flags,     \* of join: where the token comes from
  windows,   \* GOOS
  token,     \* join's nodeToken
  pc,
  stage,     \* which connection is being made or used
  auth,      \* what the handshake under way signs with
  conn,      \* the SSH connections
  sockets,   \* the connections to the agent that are open
  unmatched, \* history: the connections for which the agent had other keys only
  deferred,  \* what the command closes when it returns
  silent,    \* the peer that is waited for never answers
  installed, \* join's installer was run on the host
  misused,   \* history: a connection was used after its close
  result

env  == <<command, flags, windows>>
vars == <<env, token, pc, stage, auth, conn, sockets, unmatched, deferred, silent,
          installed, misused, result>>

Stages  == {"server", "host"}
Sources == {"none", "flag", "path"}
Flags   == [source : Sources, value : {"token", "empty"}, valid : BOOLEAN]

Conn(s)      == <<s, "conn">>        \* sshOperator
AgentOnly(s) == <<s, "agentOnly">>   \* the socket of sshAgentOnly
AgentKey(s)  == <<s, "agentKey">>    \* the socket of sshAgent, under loadPublickey

Init ==
  /\ command \in {"connect", "join"}
  /\ flags \in Flags
  /\ windows \in BOOLEAN
  /\ token = "empty"
  /\ pc = IF command = "join" THEN "start" ELSE "agent"
  /\ stage = "server"
  /\ auth = "none"
  /\ conn = [s \in Stages |-> "none"]
  /\ sockets = {}
  /\ unmatched = {}
  /\ deferred = {}
  /\ silent = FALSE
  /\ installed = FALSE
  /\ misused = FALSE
  /\ result = "none"

--------------------------------------------------------------------------------
Close(closed) ==
  /\ conn' = [s \in Stages |-> IF Conn(s) \in closed THEN "closed" ELSE conn[s]]
  /\ sockets' = sockets \ closed

Return(r) ==
  /\ pc' = "returned"
  /\ result' = r
  /\ Close(deferred)
  /\ UNCHANGED <<env, token, stage, auth, unmatched, deferred, silent>>

(***************************************************************************)
(* join, before it connects                                                *)
(***************************************************************************)

\* Flags that do not go together, or a file of --node-token-path that cannot be
\* read: nothing is open yet.
Refuse ==
  /\ pc = "start"
  /\ ~flags.valid
  /\ Return("error")
  /\ UNCHANGED <<installed, misused>>

\* --node-token wins over --node-token-path, and either may be empty.
TakeToken ==
  /\ pc = "start"
  /\ flags.valid
  /\ token' = IF flags.source = "none" THEN "empty" ELSE flags.value
  /\ stage' = IF token' = "empty" THEN "server" ELSE "host"
  /\ pc' = "agent"
  /\ UNCHANGED <<env, auth, conn, sockets, unmatched, deferred, silent, installed, misused,
                 result>>

--------------------------------------------------------------------------------
(***************************************************************************)
(* Making a connection: the agent first, then the key file                 *)
(***************************************************************************)
MayMiss(next) ==
  /\ pc' = next
  /\ UNCHANGED <<env, token, stage, conn, silent, installed, misused, result>>

Step(next) == MayMiss(next) /\ UNCHANGED unmatched

\* sshAgentOnly: nobody closes this socket.
DialAgent ==
  /\ pc = "agent"
  /\ ~windows
  /\ sockets' = sockets \union {AgentOnly(stage)}
  /\ auth' = "agentOnly"
  /\ Step("agentDial")
  /\ UNCHANGED deferred

NoAgent ==
  /\ pc = "agent"
  /\ Step("key")
  /\ UNCHANGED <<auth, sockets, deferred>>

\* NewSSHOperator with the agent fails: fall through to the key file.
AgentRefused ==
  /\ pc = "agentDial"
  /\ ~silent
  /\ Step("key")
  /\ UNCHANGED <<auth, sockets, deferred>>

\* loadPublickey: the file has a key without a passphrase.
PlainKey ==
  /\ pc = "key"
  /\ auth' = "file"
  /\ Step("keyDial")
  /\ UNCHANGED <<sockets, deferred>>

\* loadPublickey: no such file, or no key in it.
NoKey ==
  /\ pc = "key"
  /\ Return("error")
  /\ UNCHANGED <<installed, misused>>

\* sshAgent dials the agent for an encrypted key.
AskAgent ==
  /\ pc = "key"
  /\ sockets' = sockets \union {AgentKey(stage)}
  /\ Step("match")
  /\ UNCHANGED <<auth, deferred>>

\* An encrypted key and no agent.
AskPassphrase ==
  /\ pc = "key"
  /\ Step("passphrase")
  /\ UNCHANGED <<auth, sockets, deferred>>

\* mutant: sshAgent closes its socket when it returns
AgentHasKeyClosed ==
  /\ pc = "match"
  /\ ~silent
  /\ auth' = "agentKey"
  /\ sockets' = sockets \ {AgentKey(stage)}
  /\ Step("keyDial")
  /\ UNCHANGED deferred

\* The agent has the key of the .pub file: loadPublickey returns the agent, and
\* the close function that its caller defers.
AgentHasKey ==
  /\ pc = "match"
  /\ ~silent
  /\ auth' = "agentKey"
  /\ deferred' = deferred \union {AgentKey(stage)}
  /\ Step("keyDial")
  /\ UNCHANGED sockets

\* The agent has no keys, or the .pub file cannot be read: sshAgent returns the
\* close function, which loadPublickey defers until after the prompt.
AgentUnusable ==
  /\ pc = "match"
  /\ ~silent
  /\ Step("passphrase")
  /\ UNCHANGED <<auth, sockets, deferred>>

\* The agent has keys, but not this one: sshAgent returns a function that does
\* nothing, and nobody closes the socket.
AgentLacksKey ==
  /\ pc = "match"
  /\ ~silent
  /\ unmatched' = unmatched \union {stage}
  /\ MayMiss("passphrase")
  /\ UNCHANGED <<auth, sockets, deferred>>

\* What loadPublickey closes when it returns.
OwnDefer == IF stage \in unmatched THEN {} ELSE {AgentKey(stage)}

\* mutant: no defer close() in loadPublickey
PassphraseRightLeaks ==
  /\ pc = "passphrase"
  /\ ~silent
  /\ auth' = "file"
  /\ Step("keyDial")
  /\ UNCHANGED <<sockets, deferred>>

PassphraseRight ==
  /\ pc = "passphrase"
  /\ ~silent
  /\ sockets' = sockets \ OwnDefer
  /\ auth' = "file"
  /\ Step("keyDial")
  /\ UNCHANGED deferred

PassphraseWrong ==
  /\ pc = "passphrase"
  /\ ~silent
  /\ pc' = "returned"
  /\ result' = "error"
  /\ Close(deferred \union OwnDefer)
  /\ UNCHANGED <<env, token, stage, auth, unmatched, deferred, silent, installed, misused>>

\* mutant: a connection that fails is tried again, for good
KeyRefusedRetries ==
  /\ pc = "keyDial"
  /\ ~silent
  /\ Step("agent")
  /\ UNCHANGED <<auth, sockets, deferred>>

\* NewSSHOperator with the key file's signer fails.
KeyRefused ==
  /\ pc = "keyDial"
  /\ ~silent
  /\ Return("error")
  /\ UNCHANGED <<installed, misused>>

\* The handshake with what auth says succeeds.
Handshake ==
  /\ pc \in {"agentDial", "keyDial"}
  /\ ~silent
  /\ conn' = [conn EXCEPT ![stage] = "open"]
  /\ pc' = "connected"
  /\ UNCHANGED <<env, token, stage, auth, unmatched, silent, installed, misused, result>>

\* connectOperator returns, which closes what it deferred: the socket to the agent
\* that loadPublickey returned, and nothing if that was a function that does nothing.
\* The command defers doneFunc.
ConnectedToServer ==
  /\ stage = "server"
  /\ Handshake
  /\ sockets' = sockets \ (deferred \intersect {AgentKey("server")})
  /\ deferred' = (deferred \ {AgentKey("server")}) \union {Conn("server")}

\* setupAdditionalServer and setupAgent defer both closes to their end.
ConnectedToHost ==
  /\ stage = "host"
  /\ Handshake
  /\ deferred' = deferred \union {Conn("host")}
  /\ UNCHANGED sockets

--------------------------------------------------------------------------------
(***************************************************************************)
(* Using it: what a call returns is CommandOperator's promise              *)
(***************************************************************************)
Answers == pc = "connected" /\ ~silent

UsesConnection == misused' = (misused \/ conn[stage] = "closed")

\* install, get-config, node-token: the calls of Execute, and the return.
RunCommands ==
  /\ Answers
  /\ command = "connect"
  /\ UsesConnection
  /\ \E r \in {"nil", "error"} : Return(r)
  /\ UNCHANGED installed

\* join reads the token, which is lost when the connection is lost behind the
\* exit status of cat.
FetchToken ==
  /\ Answers
  /\ stage = "server" /\ command = "join"
  /\ UsesConnection
  /\ token' \in {"token"} \union (IF conn["server"] = "lost" THEN {"empty"} ELSE {})
  /\ pc' = "fetched"
  /\ UNCHANGED <<env, stage, auth, conn, sockets, unmatched, deferred, silent, installed,
                 result>>

FetchFails ==
  /\ Answers
  /\ stage = "server" /\ command = "join"
  /\ UsesConnection
  /\ Return("error")
  /\ UNCHANGED installed

\* mutant: only the deferred doneFunc closes the connection
NothingClosed == {}

\* The explicit close, which the deferred doneFunc repeats.
ClosedEarly == {Conn("server")}

ToHost ==
  /\ pc = "fetched"
  /\ Close(ClosedEarly)
  /\ stage' = "host"
  /\ pc' = "agent"
  /\ auth' = "none"
  /\ UNCHANGED <<env, token, unmatched, deferred, silent, installed, misused, result>>

\* setupAdditionalServer or setupAgent runs the installer on the host; nothing
\* reads the flag --skip-install.
Install ==
  /\ Answers
  /\ stage = "host"
  /\ UsesConnection
  /\ installed' = TRUE
  /\ \E r \in {"nil", "error"} : Return(r)

--------------------------------------------------------------------------------
ConnectionLost ==
  /\ conn[stage] = "open"
  /\ conn' = [conn EXCEPT ![stage] = "lost"]
  /\ UNCHANGED <<env, token, pc, stage, auth, sockets, unmatched, deferred, silent,
                 installed, misused, result>>

\* A peer, an agent or the user at the prompt stops answering: nothing in the code
\* has a timeout.
PeerGoesSilent ==
  /\ pc \in {"agentDial", "match", "passphrase", "keyDial", "connected"}
  /\ silent' = TRUE
  /\ UNCHANGED <<env, token, pc, stage, auth, conn, sockets, unmatched, deferred,
                 installed, misused, result>>

Connect ==
  \/ DialAgent \/ NoAgent \/ AgentRefused
  \/ PlainKey \/ NoKey \/ AskAgent \/ AskPassphrase
  \/ AgentHasKey \/ AgentUnusable \/ AgentLacksKey
  \/ PassphraseRight \/ PassphraseWrong
  \/ KeyRefused \/ ConnectedToServer \/ ConnectedToHost

Command ==
  \/ Refuse \/ TakeToken
  \/ Connect
  \/ RunCommands \/ FetchToken \/ FetchFails \/ ToHost \/ Install

Next == Command \/ ConnectionLost \/ PeerGoesSilent

\* The process is scheduled. No peer has to answer.
Spec == Init /\ [][Next]_vars /\ WF_vars(Command)

--------------------------------------------------------------------------------
TypeOK ==
  /\ command \in {"connect", "join"}
  /\ flags \in Flags
  /\ windows \in BOOLEAN
  /\ token \in {"token", "empty"}
  /\ pc \in {"start", "agent", "agentDial", "key", "match", "passphrase", "keyDial",
             "connected", "fetched", "returned"}
  /\ stage \in Stages
  /\ auth \in {"none", "agentOnly", "agentKey", "file"}
  /\ conn \in [Stages -> {"none", "open", "lost", "closed"}]
  /\ sockets \subseteq Stages \X {"agentOnly", "agentKey"}
  /\ unmatched \subseteq Stages
  /\ deferred \subseteq Stages \X {"conn", "agentKey"}
  /\ silent \in BOOLEAN
  /\ installed \in BOOLEAN
  /\ misused \in BOOLEAN
  /\ result \in {"none", "nil", "error"}

(***************************************************************************)
(* While a handshake signs with an agent, the socket to that agent is      *)
(* open: it is closed behind the handshake and not when the function that  *)
(* opened it returns. (install.go 371-391, 519-536, 554-559)               *)
(***************************************************************************)
SignerReachable ==
  /\ pc = "agentDial" => AgentOnly(stage) \in sockets
  /\ pc = "keyDial" /\ auth = "agentKey" => AgentKey(stage) \in sockets

(***************************************************************************)
(* However a command ends, it has closed every connection it made. What    *)
(* stays open are sockets to the agent, at most two per connection: that   *)
(* of sshAgentOnly, and that of an agent which had other keys only. Every  *)
(* other socket that loadPublickey opened is closed.                       *)
(* (install.go 348-355, 380, 517-538, 560, join.go 347)                    *)
(***************************************************************************)
ClosedOnReturn ==
  pc = "returned" =>
    /\ \A s \in Stages : conn[s] \in {"none", "closed"}
    /\ sockets \subseteq
         {AgentOnly(s) : s \in Stages} \union {AgentKey(s) : s \in unmatched}

(***************************************************************************)
(* The close in join that comes before the deferred one comes at the right *)
(* time: no command is run over a connection that was closed, and the one  *)
(* to the server is closed before the one to the host is tried.            *)
(* (join.go 231-236)                                                       *)
(***************************************************************************)
OneConnectionAtATime ==
  /\ ~misused
  /\ stage = "host" /\ pc # "returned" => conn["server"] \in {"none", "closed"}

(***************************************************************************)
(* A command returns unless a peer, an agent or the user leaves it         *)
(* waiting. (install.go 347-404, join.go 200-254)                          *)
(***************************************************************************)
Returns == <>(pc = "returned" \/ silent)

(***************************************************************************)
(* The inductive invariant: whatever is open has someone who will close    *)
(* it, and what is about to be used is open.                               *)
(***************************************************************************)
Owned ==
  /\ \A s \in Stages : conn[s] \in {"open", "lost"} => Conn(s) \in deferred
  /\ \A s \in Stages : AgentKey(s) \in sockets =>
       \/ AgentKey(s) \in deferred
       \/ s \in unmatched
       \/ s = stage /\ pc \in {"match", "passphrase"}

Usable ==
  /\ pc = "start" => \A s \in Stages : conn[s] = "none"
  /\ pc = "match" => AgentKey(stage) \in sockets
  /\ pc = "connected" => conn[stage] \in {"open", "lost"}

IInv ==
  TypeOK /\ Owned /\ Usable /\ SignerReachable /\ ClosedOnReturn /\ OneConnectionAtATime

(***************************************************************************)
(* What is safety in Returns: nothing is tried again. Every step, be it of *)
(* the command or a loss, leaves fewer to take; a join makes its way to a  *)
(* connection twice, any other command once. (install.go 347-404, join.go  *)
(* 200-254)                                                                *)
(***************************************************************************)
PlaceLeft ==
  [start |-> 10, agent |-> 9, agentDial |-> 8, key |-> 7, match |-> 6, passphrase |-> 5,
   keyDial |-> 4, connected |-> 2, fetched |-> 1, returned |-> 0]

StageLeft == [server |-> 9, host |-> 0]

StepsLeft ==
  PlaceLeft[pc] + StageLeft[stage] + (IF silent THEN 0 ELSE 1)
  + (IF conn["server"] = "open" THEN 1 ELSE 0) + (IF conn["host"] = "open" THEN 1 ELSE 0)

NothingTwice == [][StepsLeft' < StepsLeft]_vars

================================================================================
