---------------------------- MODULE ConnectionProofs ----------------------------
(***************************************************************************)
(* TLAPS proofs about Connection.                                          *)
(***************************************************************************)
EXTENDS Connection, TLAPS

\* No two handles are the same.
LEMMA HandlesDiffer ==
  \A s, t \in Stages :
    /\ Conn(s) # AgentKey(t) /\ Conn(s) # AgentOnly(t) /\ AgentKey(s) # AgentOnly(t)
    /\ Conn(s) = Conn(t) => s = t
    /\ AgentKey(s) = AgentKey(t) => s = t
    /\ AgentOnly(s) = AgentOnly(t) => s = t
  BY DEF Conn, AgentKey, AgentOnly

Sockets == Stages \X {"agentOnly", "agentKey"}
Deferrable == Stages \X {"conn", "agentKey"}

LEMMA HandlesTyped ==
  /\ \A s \in Stages :
       /\ AgentOnly(s) \in Sockets /\ AgentKey(s) \in Sockets
       /\ Conn(s) \in Deferrable /\ AgentKey(s) \in Deferrable
  /\ \A h \in Sockets : \E s \in Stages : h = AgentOnly(s) \/ h = AgentKey(s)
  BY DEF Conn, AgentKey, AgentOnly, Sockets, Deferrable

LEMMA IInit == Init => IInv
<1> SUFFICES ASSUME Init PROVE IInv
  OBVIOUS
<1>1. TypeOK
  BY DEF Init, TypeOK, Stages
<1> QED
  BY <1>1 DEF Init, IInv, Owned, Usable, SignerReachable, ClosedOnReturn,
     OneConnectionAtATime, Stages

\* Every return closes what is deferred, at least.
LEMMA ReturnStep ==
  ASSUME IInv, NEW D, deferred \subseteq D, pc' = "returned", Close(D),
         UNCHANGED <<env, token, stage, auth, unmatched, deferred, silent>>,
         result' \in {"nil", "error"}, installed' \in BOOLEAN, misused' = FALSE,
         pc \in {"match", "passphrase"} => stage \in unmatched \/ AgentKey(stage) \in D
  PROVE  IInv'
<1>1. TypeOK /\ Owned
  BY DEF IInv
<1>2. TypeOK'
  BY <1>1 DEF TypeOK, Close, env
<1>3. \A s \in Stages : conn'[s] \in {"none", "closed"}
  BY <1>1 DEF TypeOK, Owned, Close
<1>4. \A s \in Stages : AgentKey(s) \in sockets' => s \in unmatched'
  BY <1>1 DEF Owned, Close
<1>5. ClosedOnReturn'
  BY <1>2, <1>3, <1>4, HandlesTyped DEF TypeOK, ClosedOnReturn, Sockets
<1> QED
  BY <1>2, <1>3, <1>4, <1>5 DEF IInv, Owned, Usable, SignerReachable, OneConnectionAtATime

\* The steps that open and close nothing.
LEMMA QuietSteps ==
  ASSUME IInv, NoAgent \/ AgentRefused \/ PlainKey \/ AskPassphrase \/ AgentUnusable \/ AgentLacksKey
  PROVE  IInv'
<1>1. TypeOK'
  BY DEF IInv, TypeOK, NoAgent, AgentRefused, PlainKey, AskPassphrase, AgentUnusable,
     AgentLacksKey, Step, MayMiss, env
<1>2. Owned'
  BY DEF IInv, Owned, NoAgent, AgentRefused, PlainKey, AskPassphrase, AgentUnusable,
     AgentLacksKey, Step, MayMiss
<1>3. Usable' /\ SignerReachable' /\ ClosedOnReturn'
  BY DEF Usable, SignerReachable, ClosedOnReturn, NoAgent, AgentRefused, PlainKey,
     AskPassphrase, AgentUnusable, AgentLacksKey, Step, MayMiss
<1>4. OneConnectionAtATime'
  BY DEF IInv, OneConnectionAtATime, NoAgent, AgentRefused, PlainKey, AskPassphrase,
     AgentUnusable, AgentLacksKey, Step, MayMiss
<1> QED
  BY <1>1, <1>2, <1>3, <1>4 DEF IInv

LEMMA AskAgentStep == ASSUME IInv, AskAgent PROVE IInv'
<1>1. TypeOK'
  BY HandlesTyped DEF IInv, TypeOK, AskAgent, Step, MayMiss, env, Sockets
<1>2. Owned'
  BY HandlesDiffer DEF IInv, TypeOK, Owned, AskAgent, Step, MayMiss
<1>3. Usable' /\ SignerReachable' /\ ClosedOnReturn'
  BY DEF Usable, SignerReachable, ClosedOnReturn, AskAgent, Step, MayMiss
<1>4. OneConnectionAtATime'
  BY DEF IInv, OneConnectionAtATime, AskAgent, Step, MayMiss
<1> QED
  BY <1>1, <1>2, <1>3, <1>4 DEF IInv

LEMMA AgentHasKeyStep == ASSUME IInv, AgentHasKey PROVE IInv'
<1>1. TypeOK'
  BY HandlesTyped DEF IInv, TypeOK, AgentHasKey, Step, MayMiss, env, Deferrable
<1>2. Owned'
  BY DEF IInv, Owned, AgentHasKey, Step, MayMiss
<1>3. Usable' /\ SignerReachable' /\ ClosedOnReturn'
  BY DEF IInv, Usable, SignerReachable, ClosedOnReturn, AgentHasKey, Step, MayMiss
<1>4. OneConnectionAtATime'
  BY DEF IInv, OneConnectionAtATime, AgentHasKey, Step, MayMiss
<1> QED
  BY <1>1, <1>2, <1>3, <1>4 DEF IInv

LEMMA PassphraseRightStep == ASSUME IInv, PassphraseRight PROVE IInv'
<1>1. TypeOK'
  BY DEF IInv, TypeOK, PassphraseRight, Step, MayMiss, env
<1>2. Owned'
  BY DEF IInv, Owned, PassphraseRight, OwnDefer, Step, MayMiss
<1>3. Usable' /\ SignerReachable' /\ ClosedOnReturn'
  BY DEF Usable, SignerReachable, ClosedOnReturn, PassphraseRight, Step, MayMiss
<1>4. OneConnectionAtATime'
  BY DEF IInv, OneConnectionAtATime, PassphraseRight, Step, MayMiss
<1> QED
  BY <1>1, <1>2, <1>3, <1>4 DEF IInv

LEMMA DialAgentStep == ASSUME IInv, DialAgent PROVE IInv'
<1>1. TypeOK'
  BY HandlesTyped DEF IInv, TypeOK, DialAgent, Step, MayMiss, env, Sockets
<1>2. Owned'
  BY HandlesDiffer DEF IInv, TypeOK, Owned, DialAgent, Step, MayMiss
<1>3. Usable' /\ SignerReachable' /\ ClosedOnReturn'
  BY DEF Usable, SignerReachable, ClosedOnReturn, DialAgent, Step, MayMiss
<1>4. OneConnectionAtATime'
  BY DEF IInv, OneConnectionAtATime, DialAgent, Step, MayMiss
<1> QED
  BY <1>1, <1>2, <1>3, <1>4 DEF IInv

LEMMA ConnectedToServerStep == ASSUME IInv, ConnectedToServer PROVE IInv'
<1>1. TypeOK'
  BY HandlesTyped DEF IInv, TypeOK, ConnectedToServer, Handshake, env, Deferrable
<1>2. Owned'
  BY HandlesDiffer DEF IInv, TypeOK, Owned, ConnectedToServer, Handshake
<1>3. Usable' /\ SignerReachable' /\ ClosedOnReturn'
  BY DEF IInv, TypeOK, Usable, SignerReachable, ClosedOnReturn, ConnectedToServer, Handshake
<1>4. OneConnectionAtATime'
  BY DEF IInv, OneConnectionAtATime, ConnectedToServer, Handshake
<1> QED
  BY <1>1, <1>2, <1>3, <1>4 DEF IInv

LEMMA ConnectedToHostStep == ASSUME IInv, ConnectedToHost PROVE IInv'
<1>1. TypeOK'
  BY HandlesTyped DEF IInv, TypeOK, ConnectedToHost, Handshake, env, Deferrable
<1>2. Owned'
  BY DEF IInv, Owned, ConnectedToHost, Handshake
<1>3. Usable' /\ SignerReachable' /\ ClosedOnReturn'
  BY DEF IInv, TypeOK, Usable, SignerReachable, ClosedOnReturn, ConnectedToHost, Handshake
<1>4. OneConnectionAtATime'
  BY DEF IInv, OneConnectionAtATime, ConnectedToHost, Handshake
<1> QED
  BY <1>1, <1>2, <1>3, <1>4 DEF IInv

LEMMA TakeTokenStep == ASSUME IInv, TakeToken PROVE IInv'
<1>1. TypeOK'
  BY DEF IInv, TypeOK, TakeToken, Flags, Stages, env
<1>2. Owned'
  BY DEF IInv, Owned, TakeToken
<1>3. Usable' /\ SignerReachable' /\ ClosedOnReturn'
  BY DEF Usable, SignerReachable, ClosedOnReturn, TakeToken
<1>4. OneConnectionAtATime'
  BY DEF IInv, Usable, OneConnectionAtATime, TakeToken, Stages
<1> QED
  BY <1>1, <1>2, <1>3, <1>4 DEF IInv

LEMMA FetchTokenStep == ASSUME IInv, FetchToken PROVE IInv'
<1>1. TypeOK'
  BY DEF IInv, TypeOK, FetchToken, UsesConnection, env
<1>2. Owned'
  BY DEF IInv, Owned, FetchToken, Answers
<1>3. Usable' /\ SignerReachable' /\ ClosedOnReturn'
  BY DEF Usable, SignerReachable, ClosedOnReturn, FetchToken
<1>4. OneConnectionAtATime'
  BY DEF IInv, Usable, OneConnectionAtATime, FetchToken, Answers, UsesConnection
<1> QED
  BY <1>1, <1>2, <1>3, <1>4 DEF IInv

LEMMA ToHostStep == ASSUME IInv, ToHost PROVE IInv'
<1>1. TypeOK'
  BY DEF IInv, TypeOK, ToHost, Close, Stages, env
<1>2. Owned'
  BY DEF IInv, Owned, ToHost, Close
<1>3. Usable' /\ SignerReachable' /\ ClosedOnReturn'
  BY DEF Usable, SignerReachable, ClosedOnReturn, ToHost
<1>4. OneConnectionAtATime'
  BY DEF IInv, OneConnectionAtATime, ToHost, Close, ClosedEarly, Stages
<1> QED
  BY <1>1, <1>2, <1>3, <1>4 DEF IInv

LEMMA ConnectionLostStep == ASSUME IInv, ConnectionLost PROVE IInv'
<1>1. TypeOK'
  BY DEF IInv, TypeOK, ConnectionLost, env
<1>2. Owned'
  BY DEF IInv, Owned, ConnectionLost
<1>3. Usable' /\ SignerReachable' /\ ClosedOnReturn'
  BY DEF IInv, Usable, SignerReachable, ClosedOnReturn, ConnectionLost
<1>4. OneConnectionAtATime'
  BY DEF IInv, OneConnectionAtATime, ConnectionLost
<1> QED
  BY <1>1, <1>2, <1>3, <1>4 DEF IInv

LEMMA PeerGoesSilentStep == ASSUME IInv, PeerGoesSilent PROVE IInv'
<1>1. TypeOK'
  BY DEF IInv, TypeOK, PeerGoesSilent, env
<1>2. Owned'
  BY DEF IInv, Owned, PeerGoesSilent
<1>3. Usable' /\ SignerReachable' /\ ClosedOnReturn'
  BY DEF IInv, Usable, SignerReachable, ClosedOnReturn, PeerGoesSilent
<1>4. OneConnectionAtATime'
  BY DEF IInv, OneConnectionAtATime, PeerGoesSilent
<1> QED
  BY <1>1, <1>2, <1>3, <1>4 DEF IInv

\* The steps that return.
LEMMA ReturnsStep ==
  ASSUME IInv, Refuse \/ NoKey \/ KeyRefused \/ PassphraseWrong \/ FetchFails \/ RunCommands \/ Install
  PROVE  IInv'
<1>1. pc = "connected" => conn[stage] # "closed"
  BY DEF IInv, Usable
<1>2. misused = FALSE /\ installed \in BOOLEAN
  BY DEF IInv, TypeOK, OneConnectionAtATime
<1>3. CASE Refuse \/ NoKey \/ KeyRefused
  BY <1>2, <1>3, ReturnStep DEF Refuse, NoKey, KeyRefused, Return
<1>4. CASE FetchFails \/ RunCommands \/ Install
  <2>1. Return("nil") \/ Return("error")
    BY <1>4 DEF FetchFails, RunCommands, Install
  <2>2. pc = "connected" /\ UsesConnection
    BY <1>4 DEF FetchFails, RunCommands, Install, Answers
  <2>3. installed' \in BOOLEAN /\ misused' = FALSE
    BY <1>1, <1>2, <1>4, <2>2 DEF FetchFails, RunCommands, Install, UsesConnection
  <2> QED
    BY <2>1, <2>2, <2>3, ReturnStep DEF Return
<1>5. CASE PassphraseWrong
  <2>1. stage \in unmatched \/ AgentKey(stage) \in deferred \union OwnDefer
    BY DEF OwnDefer
  <2> QED
    BY <1>2, <1>5, <2>1, ReturnStep DEF PassphraseWrong
<1> QED
  BY <1>3, <1>4, <1>5

LEMMA IStep == IInv /\ [Next]_vars => IInv'
<1> SUFFICES ASSUME IInv, [Next]_vars PROVE IInv'
  OBVIOUS
<1>1. CASE Connect
  BY <1>1, QuietSteps, DialAgentStep, AskAgentStep, AgentHasKeyStep, PassphraseRightStep,
     ConnectedToServerStep, ConnectedToHostStep, ReturnsStep
  DEF Connect
<1>2. CASE Command /\ ~Connect
  BY <1>2, TakeTokenStep, FetchTokenStep, ToHostStep, ReturnsStep DEF Command
<1>3. CASE ConnectionLost \/ PeerGoesSilent
  BY <1>3, ConnectionLostStep, PeerGoesSilentStep
<1>4. CASE UNCHANGED vars
  BY <1>4 DEF vars, env, IInv, TypeOK, Owned, Usable, SignerReachable, ClosedOnReturn,
     OneConnectionAtATime
<1> QED
  BY <1>1, <1>2, <1>3, <1>4 DEF Next

\* The inductive invariant holds for every command. (install.go 335-404, join.go 200-254)
THEOREM Invariance == Spec => []IInv
<1> QED
  BY IInit, IStep, PTL DEF Spec

\* Every variable has its type in every state.
THEOREM TypeCorrect == Spec => []TypeOK
<1>1. IInv => TypeOK
  BY DEF IInv
<1> QED
  BY <1>1, Invariance, PTL

\* No handshake signs with an agent whose socket is closed.
\* (install.go 371-391, 519-536, 554-559)
THEOREM SignerAlwaysReachable == Spec => []SignerReachable
<1>1. IInv => SignerReachable
  BY DEF IInv
<1> QED
  BY <1>1, Invariance, PTL

\* However the command ends, it has closed what it opened, but for the sockets that
\* ClosedOnReturn names. (install.go 348-355, 380, 517-538, 560, join.go 347)
THEOREM AlwaysClosedOnReturn == Spec => []ClosedOnReturn
<1>1. IInv => ClosedOnReturn
  BY DEF IInv
<1> QED
  BY <1>1, Invariance, PTL

\* join's early close is never too early, and never too late. (join.go 231-236)
THEOREM AlwaysOneConnection == Spec => []OneConnectionAtATime
<1>1. IInv => OneConnectionAtATime
  BY DEF IInv
<1> QED
  BY <1>1, Invariance, PTL

--------------------------------------------------------------------------------
(***************************************************************************)
(* The command comes to its end.                                           *)
(***************************************************************************)
LEMMA LeftValues ==
  /\ PlaceLeft["start"] = 10 /\ PlaceLeft["agent"] = 9 /\ PlaceLeft["agentDial"] = 8
  /\ PlaceLeft["key"] = 7 /\ PlaceLeft["match"] = 6 /\ PlaceLeft["passphrase"] = 5
  /\ PlaceLeft["keyDial"] = 4 /\ PlaceLeft["connected"] = 2 /\ PlaceLeft["fetched"] = 1
  /\ PlaceLeft["returned"] = 0
  /\ StageLeft["server"] = 9 /\ StageLeft["host"] = 0
  BY DEF PlaceLeft, StageLeft

\* What a return or a close does to the connections: none is opened.
NoneOpened == \A s \in Stages : conn'[s] = "open" => conn[s] = "open"

LEMMA CloseOpensNone == ASSUME TypeOK, NEW D, Close(D) PROVE NoneOpened
  BY DEF TypeOK, Close, NoneOpened

\* Every step goes forward.
Onward ==
  \/ NoneOpened /\ UNCHANGED silent /\
       \/ PlaceLeft[pc'] < PlaceLeft[pc] /\ stage' \in {stage, "host"}
       \/ pc = "fetched" /\ pc' = "agent" /\ stage = "server" /\ stage' = "host"
  \/ /\ pc \in {"agentDial", "keyDial"} /\ pc' = "connected"
     /\ \A s \in Stages \ {stage} : conn'[s] = conn[s]
     /\ UNCHANGED <<stage, silent>>
  \/ /\ UNCHANGED <<pc, stage, silent>> /\ NoneOpened
     /\ conn[stage] = "open" /\ conn'[stage] = "lost"
  \/ UNCHANGED <<pc, stage, conn>> /\ ~silent /\ silent'

\* The server comes first, and join reads the token over the connection to it.
ServerFirst == pc \in {"start", "fetched"} => stage = "server"

LEMMA FetchedStep == TypeOK /\ ServerFirst /\ [Next]_vars => ServerFirst'
  BY DEF TypeOK, ServerFirst, Next, Command, Connect, ConnectionLost, PeerGoesSilent,
     Refuse, TakeToken, DialAgent, NoAgent, AgentRefused, PlainKey, NoKey, AskAgent,
     AskPassphrase, AgentHasKey, AgentUnusable, AgentLacksKey, PassphraseRight,
     PassphraseWrong, KeyRefused, ConnectedToServer, ConnectedToHost, Handshake, RunCommands,
     FetchToken, FetchFails, ToHost, Install, Return, Step, MayMiss, vars

LEMMA CommandGoesOnward == TypeOK /\ ServerFirst /\ Command => Onward
<1> SUFFICES ASSUME TypeOK, ServerFirst, Command PROVE Onward
  OBVIOUS
<1> USE LeftValues DEF Onward
<1>1. CASE \/ TakeToken \/ DialAgent \/ NoAgent \/ AgentRefused \/ PlainKey \/ AskAgent
           \/ AskPassphrase \/ AgentHasKey \/ AgentUnusable \/ AgentLacksKey
           \/ PassphraseRight \/ FetchToken
  <2>1. UNCHANGED <<conn, silent>> /\ stage' \in {stage, "host"}
    BY <1>1 DEF ServerFirst, TakeToken, DialAgent, NoAgent, AgentRefused, PlainKey, AskAgent,
       AskPassphrase, AgentHasKey, AgentUnusable, AgentLacksKey, PassphraseRight, FetchToken,
       Step, MayMiss
  <2>2. PlaceLeft[pc'] < PlaceLeft[pc]
    BY <1>1 DEF TakeToken, DialAgent, NoAgent, AgentRefused, PlainKey, AskAgent,
       AskPassphrase, AgentHasKey, AgentUnusable, AgentLacksKey, PassphraseRight, FetchToken,
       Answers, Step, MayMiss
  <2> QED
    BY <2>1, <2>2 DEF NoneOpened
<1>2. CASE \/ Refuse \/ NoKey \/ PassphraseWrong \/ KeyRefused \/ RunCommands \/ FetchFails
           \/ Install
  <2>1. /\ pc' = "returned" /\ pc # "returned" /\ UNCHANGED <<stage, silent>>
        /\ \E D : Close(D)
    BY <1>2 DEF Refuse, NoKey, PassphraseWrong, KeyRefused, RunCommands, FetchFails, Install,
       Answers, Return
  <2>2. NoneOpened
    BY <2>1, CloseOpensNone
  <2>3. PlaceLeft[pc'] < PlaceLeft[pc]
    BY <2>1 DEF TypeOK
  <2> QED
    BY <2>1, <2>2, <2>3
<1>3. CASE ToHost
  <2>1. NoneOpened
    BY <1>3, CloseOpensNone DEF ToHost
  <2> QED
    BY <1>3, <2>1 DEF ToHost, ServerFirst
<1>4. CASE ConnectedToServer \/ ConnectedToHost
  BY <1>4 DEF TypeOK, ConnectedToServer, ConnectedToHost, Handshake
<1> QED
  BY <1>1, <1>2, <1>3, <1>4 DEF Command, Connect

LEMMA OthersGoOnward ==
  TypeOK /\ (ConnectionLost \/ PeerGoesSilent) => Onward \/ UNCHANGED vars
<1> SUFFICES ASSUME TypeOK, ConnectionLost \/ PeerGoesSilent PROVE Onward \/ UNCHANGED vars
  OBVIOUS
<1>1. CASE ConnectionLost
  BY <1>1 DEF TypeOK, ConnectionLost, Onward, NoneOpened
<1>2. CASE PeerGoesSilent
  BY <1>2 DEF TypeOK, PeerGoesSilent, Onward, vars
<1> QED
  BY <1>1, <1>2

LEMMA OnwardCounts == TypeOK /\ TypeOK' /\ Onward => StepsLeft' < StepsLeft
<1> SUFFICES ASSUME TypeOK, TypeOK', Onward PROVE StepsLeft' < StepsLeft
  OBVIOUS
<1>1. /\ stage \in Stages /\ stage' \in Stages
      /\ PlaceLeft[pc] \in Nat /\ PlaceLeft[pc'] \in Nat
      /\ StageLeft[stage] \in Nat /\ StageLeft[stage'] \in Nat
  BY LeftValues DEF TypeOK, Stages
<1> USE <1>1, LeftValues DEF StepsLeft, Stages
<1>2. CASE NoneOpened /\ UNCHANGED silent /\ PlaceLeft[pc'] < PlaceLeft[pc]
           /\ stage' \in {stage, "host"}
  <2>1. StageLeft[stage'] <= StageLeft[stage]
    BY <1>2
  <2> QED
    BY <1>2, <2>1 DEF NoneOpened
<1>3. CASE /\ NoneOpened /\ UNCHANGED silent
           /\ pc = "fetched" /\ pc' = "agent" /\ stage = "server" /\ stage' = "host"
  BY <1>3 DEF NoneOpened
<1>4. CASE /\ pc \in {"agentDial", "keyDial"} /\ pc' = "connected"
           /\ \A s \in Stages \ {stage} : conn'[s] = conn[s]
           /\ UNCHANGED <<stage, silent>>
  BY <1>4
<1>5. CASE /\ UNCHANGED <<pc, stage, silent>> /\ NoneOpened
           /\ conn[stage] = "open" /\ conn'[stage] = "lost"
  BY <1>5 DEF NoneOpened
<1>6. CASE UNCHANGED <<pc, stage, conn>> /\ ~silent /\ silent'
  BY <1>6
<1> QED
  BY <1>2, <1>3, <1>4, <1>5, <1>6 DEF Onward

\* On the way to a connection nothing is tried a second time: not an agent, not a key,
\* not a passphrase. Each step, each loss and each silence leaves fewer steps.
THEOREM NeverTwice == Spec => NothingTwice
<1>1. Init => ServerFirst
  BY DEF Init, ServerFirst
<1>2. TypeOK /\ TypeOK' /\ ServerFirst /\ [Next]_vars => [StepsLeft' < StepsLeft]_vars
  BY CommandGoesOnward, OthersGoOnward, OnwardCounts DEF Next
<1> QED
  BY <1>1, <1>2, TypeCorrect, FetchedStep, PTL DEF Spec, NothingTwice

================================================================================
