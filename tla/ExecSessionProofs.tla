--------------------------- MODULE ExecSessionProofs ---------------------------
(***************************************************************************)
(* TLAPS proofs about ExecSession, for every PipeCap and MaxOut, streamed  *)
(* or not.                                                                 *)
(***************************************************************************)
EXTENDS ExecSession, TLAPS

(***************************************************************************)
(* The inductive invariant. That a stream captures no more than was to be  *)
(* written, which is its type, follows from the count of its chunks, and   *)
(* the count from the state of the pumps: a chunk may be dropped only when *)
(* the terminal of its stream has failed.                                  *)
(***************************************************************************)
LEMMA IInit == Init => IInv
<1> SUFFICES ASSUME Init PROVE IInv
  OBVIOUS
<1>1. Nothing \in Output /\ Nothing \in [Streams -> 0..PipeCap]
  BY MaxOutAssumption, PipeAssumption DEF Nothing, Output
<1>2. TypeOK
  BY <1>1 DEF Init, TypeOK, Exits
<1>3. Accounted
  BY MaxOutAssumption DEF Init, Accounted, Nothing, Output
<1>4. MainProgress /\ PumpState /\ StatusGenuine /\ Drained
  BY DEF Init, MainProgress, PumpState, StatusGenuine, Drained
<1> QED
  BY <1>2, <1>3, <1>4 DEF IInv

\* A step that moves chunks of one stream from one place to the next, and drops
\* some only when its terminal fails, keeps the count of every stream.
LEMMA CountKept ==
  ASSUME IInv, NEW s \in Streams,
         todo' \in Output, captured' \in [Streams -> Nat], pipe' \in [Streams -> 0..PipeCap],
         out' = out,
         \A t \in Streams \ {s} : /\ todo'[t] = todo[t] /\ pipe'[t] = pipe[t]
                                  /\ captured'[t] = captured[t] /\ failed'[t] = failed[t],
         todo'[s] + pipe'[s] + captured'[s] <= todo[s] + pipe[s] + captured[s],
         ~failed'[s] => /\ ~failed[s]
                        /\ todo'[s] + pipe'[s] + captured'[s] = todo[s] + pipe[s] + captured[s]
  PROVE  captured' \in Output /\ Accounted'
<1>1. \A t \in Streams :
        /\ todo[t] \in Nat /\ pipe[t] \in Nat /\ captured[t] \in Nat
        /\ todo'[t] \in Nat /\ pipe'[t] \in Nat /\ captured'[t] \in Nat
        /\ out[t] \in Nat /\ out[t] <= MaxOut
  BY MaxOutAssumption, PipeAssumption DEF IInv, TypeOK, Output
<1>2. Accounted'
  BY <1>1 DEF IInv, Accounted
<1>3. \A t \in Streams : captured'[t] <= MaxOut
  BY <1>1, <1>2, MaxOutAssumption DEF Accounted
<1> QED
  BY <1>1, <1>2, <1>3, MaxOutAssumption DEF Output

LEMMA MainStep == IInv /\ Main => IInv'
<1> SUFFICES ASSUME IInv, Main PROVE IInv'
  OBVIOUS
<1>1. UNCHANGED <<out, exit, captured, failed, todo, pipe, status>>
  BY DEF Main, StartFails, Start, Return, pumps, command
<1>2. TypeOK'
  BY DEF IInv, TypeOK, Main, StartFails, Start, Return, pumps, command
<1>3. Accounted'
  BY <1>1 DEF IInv, Accounted
<1>4. CASE StartFails
  BY <1>1, <1>2, <1>3, <1>4 DEF IInv, TypeOK, StartFails, pumps, command, MainProgress,
     PumpState, StatusGenuine, Drained
<1>5. CASE Start
  BY <1>1, <1>2, <1>3, <1>5 DEF IInv, TypeOK, Start, pumps, command, MainProgress,
     PumpState, StatusGenuine, Drained
<1>6. CASE Return
  BY <1>1, <1>2, <1>3, <1>6 DEF IInv, TypeOK, Return, Waited, pumps, command, MainProgress,
     PumpState, StatusGenuine, Drained
<1> QED
  BY <1>4, <1>5, <1>6 DEF Main

LEMMA PumpStep == ASSUME NEW s \in Streams PROVE IInv /\ Pump(s) => IInv'
<1> SUFFICES ASSUME IInv, Pump(s) PROVE IInv'
  OBVIOUS
<1>1. pump[s] = "reading" /\ UNCHANGED <<out, exit, pc, res, code, got, holders, status, todo>>
  BY DEF Pump, Copy, CopyFails, PumpEnds, main, command
<1>2. pc # "start" /\ res # "ok"
  BY <1>1 DEF IInv, TypeOK, MainProgress, Waited
<1>3. /\ pipe[s] \in 0..PipeCap /\ captured[s] \in Nat /\ todo[s] \in Nat
  BY MaxOutAssumption DEF IInv, TypeOK, Output
<1>4. CASE Copy(s) \/ CopyFails(s)
  <2>1. /\ pipe' \in [Streams -> 0..PipeCap]
        /\ pipe[s] > 0
        /\ Copy(s) => pipe'[s] = pipe[s] - 1
        /\ CopyFails(s) => pipe'[s] = 0
        /\ \A t \in Streams \ {s} : pipe'[t] = pipe[t]
    BY <1>3, <1>4, PipeAssumption DEF IInv, TypeOK, Copy, CopyFails
  <2>2. /\ captured' \in [Streams -> Nat]
        /\ captured'[s] = captured[s] + 1
        /\ \A t \in Streams \ {s} : captured'[t] = captured[t]
    BY <1>3, <1>4, MaxOutAssumption DEF IInv, TypeOK, Output, Copy, CopyFails, Captured
  <2>3. /\ failed' \in [Streams -> BOOLEAN]
        /\ \A t \in Streams \ {s} : failed'[t] = failed[t]
        /\ CopyFails(s) => failed'[s]
        /\ Copy(s) => failed' = failed /\ ~failed[s]
    BY <1>1, <1>4 DEF IInv, TypeOK, PumpState, Copy, CopyFails
  <2>4. captured' \in Output /\ Accounted'
    <3>1. /\ todo'[s] + pipe'[s] + captured'[s] <= todo[s] + pipe[s] + captured[s]
          /\ ~failed'[s] => /\ ~failed[s]
                            /\ todo'[s] + pipe'[s] + captured'[s] = todo[s] + pipe[s] + captured[s]
      BY <1>1, <1>3, <1>4, <2>1, <2>2, <2>3, PipeAssumption
    <3>2. todo' \in Output
      BY <1>1 DEF IInv, TypeOK
    <3> QED
      BY <3>1, <3>2, <1>1, <2>1, <2>2, <2>3, CountKept
  <2>5. TypeOK'
    BY <1>1, <1>4, <2>1, <2>3, <2>4 DEF IInv, TypeOK, Copy, CopyFails
  <2>6. \A t \in Streams : pump'[t] = pump[t] \/ (t = s /\ pump'[t] = "ended")
    BY <1>4 DEF IInv, TypeOK, Copy, CopyFails
  <2>7. PumpState'
    BY <1>1, <1>4, <2>1, <2>3 DEF IInv, TypeOK, PumpState, Copy, CopyFails
  <2>8. MainProgress'
    BY <1>1, <1>2, <2>6 DEF IInv, MainProgress
  <2>9. StatusGenuine' /\ Drained'
    BY <1>1, <2>3, <1>4 DEF IInv, TypeOK, StatusGenuine, Drained
  <2> QED
    BY <2>4, <2>5, <2>7, <2>8, <2>9 DEF IInv
<1>5. CASE PumpEnds(s)
  BY <1>1, <1>2, <1>5 DEF IInv, TypeOK, PumpEnds, MainProgress, Accounted, PumpState,
     StatusGenuine, Drained
<1> QED
  BY <1>4, <1>5 DEF Pump

LEMMA WriterStep == ASSUME NEW s \in Streams PROVE IInv /\ Writer(s) => IInv'
<1> SUFFICES ASSUME IInv, Writer(s) PROVE IInv'
  OBVIOUS
<1>1. UNCHANGED <<out, exit, pc, res, code, got, pump, captured, failed>> /\ holders # {}
  BY DEF Writer, Write, WriterKilled, WriteRefused, Leave, main, pumps
<1>2. pc # "start"
  BY <1>1 DEF IInv, MainProgress
<1>3. /\ pipe[s] \in 0..PipeCap /\ captured[s] \in Nat /\ todo[s] \in 0..MaxOut
      /\ todo[s] > 0
  BY MaxOutAssumption DEF IInv, TypeOK, Output, Writer, Write, WriterKilled, WriteRefused
\* A pump that has ended while somebody has its pipe open met a failing terminal.
<1>4. pump[s] = "ended" => failed[s]
  BY <1>1 DEF IInv, PumpState
<1>5. CASE Write(s) \/ WriteRefused(s)
  <2>1. /\ todo' \in Output
        /\ \A t \in Streams \ {s} : todo'[t] = todo[t]
        /\ Write(s) => todo'[s] = todo[s] - 1
        /\ WriteRefused(s) => todo'[s] = 0
    BY <1>3, <1>5, MaxOutAssumption DEF IInv, TypeOK, Output, Write, WriteRefused
  <2>2. /\ pipe' \in [Streams -> 0..PipeCap]
        /\ \A t \in Streams \ {s} : pipe'[t] = pipe[t]
        /\ Write(s) => pipe'[s] = pipe[s] + 1
        /\ WriteRefused(s) => pipe'[s] = pipe[s] /\ failed[s]
    BY <1>3, <1>4, <1>5, PipeAssumption DEF IInv, TypeOK, Write, WriteRefused
  <2>3. Accounted'
    <3>1. /\ todo'[s] + pipe'[s] + captured'[s] <= todo[s] + pipe[s] + captured[s]
          /\ ~failed'[s] => /\ ~failed[s]
                            /\ todo'[s] + pipe'[s] + captured'[s] = todo[s] + pipe[s] + captured[s]
      BY <1>1, <1>3, <1>5, <2>1, <2>2, PipeAssumption, MaxOutAssumption
    <3>2. captured' \in [Streams -> Nat]
      BY <1>1, MaxOutAssumption DEF IInv, TypeOK, Output
    <3> QED
      BY <3>1, <3>2, <1>1, <2>1, <2>2, CountKept
  <2>4. UNCHANGED <<holders, status>>
    BY <1>5 DEF Write, WriteRefused
  <2>5. TypeOK'
    BY <1>1, <2>1, <2>2, <2>4 DEF IInv, TypeOK
  <2>6. PumpState'
    BY <1>1, <2>4 DEF IInv, PumpState
  <2>7. MainProgress' /\ StatusGenuine' /\ Drained'
    BY <1>1, <2>4 DEF IInv, MainProgress, Waited, StatusGenuine, Drained
  <2> QED
    BY <2>3, <2>5, <2>6, <2>7 DEF IInv
<1>6. CASE WriterKilled(s)
  <2>1. PICK w \in holders : Leave(w, "signal")
    BY <1>6 DEF WriterKilled
  <2>2. UNCHANGED <<todo, pipe>> /\ failed[s]
    BY <1>4, <1>6 DEF WriterKilled
  <2>3. TypeOK'
    BY <1>1, <2>1, <2>2 DEF IInv, TypeOK, Leave
  <2>4. Accounted' /\ PumpState' /\ MainProgress' /\ StatusGenuine' /\ Drained'
    BY <1>1, <1>2, <2>1, <2>2 DEF IInv, TypeOK, Accounted, PumpState, MainProgress, Waited,
       StatusGenuine, Drained, Leave
  <2> QED
    BY <2>3, <2>4 DEF IInv
<1> QED
  BY <1>5, <1>6 DEF Writer

\* The last one to leave has nothing left to write.
LEMMA ExitStep == ASSUME NEW w \in {"command", "child"} PROVE IInv /\ Exit(w) => IInv'
<1> SUFFICES ASSUME IInv, Exit(w) PROVE IInv'
  OBVIOUS
<1>1. UNCHANGED <<out, exit, pc, res, code, got, pump, captured, failed, todo, pipe>>
  BY DEF Exit, main, pumps
<1>2. /\ w \in holders /\ holders' = holders \ {w}
      /\ status' = status \/ (w = "command" /\ status' = exit)
      /\ todo = Nothing \/ holders' # {}
  BY DEF Exit, Leave
<1>3. pc # "start"
  BY <1>2 DEF IInv, MainProgress
<1>4. TypeOK'
  BY <1>1, <1>2 DEF IInv, TypeOK, Exits
<1>5. Accounted' /\ PumpState' /\ MainProgress'
  BY <1>1, <1>2, <1>3 DEF IInv, Accounted, PumpState, MainProgress, Waited
<1>6. StatusGenuine'
  BY <1>1, <1>2 DEF IInv, TypeOK, Exits, MainProgress, Waited, StatusGenuine
<1>7. Drained'
  BY <1>1, <1>2 DEF IInv, Drained, Nothing
<1> QED
  BY <1>4, <1>5, <1>6, <1>7 DEF IInv

LEMMA IStep == IInv /\ [Next]_vars => IInv'
<1>1. IInv /\ UNCHANGED vars => IInv'
  BY DEF vars, IInv, TypeOK, Accounted, PumpState, MainProgress, Waited, StatusGenuine, Drained
<1> QED
  BY <1>1, MainStep, PumpStep, WriterStep, ExitStep DEF Next

\* The inductive invariant holds in every state of every command.
THEOREM Invariance == Spec => []IInv
  BY IInit, IStep, PTL DEF Spec

\* Every variable keeps its type; no pipe holds more than its capacity.
THEOREM TypeCorrect == Spec => []TypeOK
  BY Invariance, PTL DEF IInv

--------------------------------------------------------------------------------
LEMMA CutFromIInv == IInv => CutExplained
<1> SUFFICES ASSUME IInv, res = "ok", NEW s \in Streams, got[s] < out[s], ~failed[s]
             PROVE  todo[s] > 0 /\ \E t \in Streams \ {s} : failed[t]
  BY DEF CutExplained
<1>1. got = captured /\ pump[s] = "ended"
  BY DEF IInv, MainProgress, Waited
<1>2. holders = {} /\ pipe[s] = 0
  BY <1>1 DEF IInv, PumpState
<1>3. todo[s] \in Nat /\ captured[s] \in Nat /\ todo[s] + captured[s] = out[s]
  BY <1>2, MaxOutAssumption DEF IInv, TypeOK, Output, Accounted
<1>4. todo[s] > 0
  BY <1>1, <1>3
<1>5. \E t \in Streams : failed[t]
  BY <1>2, <1>3, <1>4 DEF IInv, Drained
<1> QED
  BY <1>4, <1>5

\* What a caller misses of a stream was lost by the terminal, its own or, through
\* the death of the writer, the other stream's.
THEOREM CutAlwaysExplained == Spec => []CutExplained
  BY Invariance, CutFromIInv, PTL

\* The exit code is the command's, but where a failing terminal killed it.
THEOREM CodeAlwaysGenuine == Spec => []CodeIsGenuine
<1>1. IInv => CodeIsGenuine
  BY DEF IInv, TypeOK, StatusGenuine, CodeIsGenuine, Exits
<1> QED
  BY <1>1, Invariance, PTL

--------------------------------------------------------------------------------
(***************************************************************************)
(* ExecuteStdio on this machine implements CommandOperator without         *)
(* ErrorOnExit: StartFails and Return map to a return, a write to the      *)
(* terminal that fails to Break, and all the rest to a stutter.            *)
(***************************************************************************)
THEOREM Refinement == Spec => KeepsPromise
<1> USE DEF Promise!vars, Promise!Streams, Streams, Promise!Output, Output
<1>1. Init => Promise!Init
  BY DEF Init, Promise!Init, Promise!Exits, Promise!Nothing, Exits, Nothing
<1>2. IInv /\ IInv' /\ [Next]_vars => [Promise!Next]_(Promise!vars)
  <2> SUFFICES ASSUME IInv, IInv', [Next]_vars
               PROVE  Promise!Next \/ UNCHANGED Promise!vars
    OBVIOUS
  <2>1. CASE StartFails
    BY <2>1 DEF StartFails, pumps, Promise!ReturnError, Promise!Next
  <2>2. CASE Start
    BY <2>2 DEF Start
  <2>3. CASE Return
    <3>1. /\ pc # "returned" /\ pc' = "returned" /\ res' = "ok" /\ got' = captured
          /\ UNCHANGED <<out, exit, failed, captured>>
      BY <2>3 DEF Return, pumps
    <3>2. \A s \in Streams : captured[s] \in Nat /\ captured[s] <= out[s]
      BY MaxOutAssumption DEF IInv, TypeOK, Accounted
    <3>3. (\A s \in Streams : ~failed[s]) => captured = out
      <4> SUFFICES ASSUME \A s \in Streams : ~failed[s] PROVE captured = out
        OBVIOUS
      <4>1. CutExplained'
        BY CutFromIInv, PTL
      <4>2. \A s \in Streams : ~(captured[s] < out[s])
        BY <3>1, <4>1 DEF CutExplained
      <4>3. \A s \in Streams : captured[s] = out[s]
        BY <3>2, <4>2, MaxOutAssumption DEF IInv, TypeOK
      <4> QED
        BY <4>3 DEF IInv, TypeOK
    <3> QED
      BY <3>1, <3>2, <3>3 DEF IInv, TypeOK, Promise!ReturnOk, Promise!Next
  <2>4. ASSUME NEW s \in Streams, Pump(s) PROVE Promise!Next \/ UNCHANGED Promise!vars
    <3>1. UNCHANGED <<out, exit, pc, res, got>>
      BY <2>4 DEF Pump, Copy, CopyFails, PumpEnds, main
    <3>2. UNCHANGED failed \/ failed'[s]
      BY <2>4 DEF Pump, Copy, CopyFails, PumpEnds, IInv, TypeOK
    <3> QED
      BY <3>1, <3>2 DEF Promise!Break, Promise!Next
  <2>5. ASSUME NEW s \in Streams, Writer(s) PROVE UNCHANGED Promise!vars
    BY <2>5 DEF Writer, Write, WriterKilled, WriteRefused, main, pumps
  <2>6. ASSUME NEW w \in {"command", "child"}, Exit(w) PROVE UNCHANGED Promise!vars
    BY <2>6 DEF Exit, main, pumps
  <2>7. CASE UNCHANGED vars
    BY <2>7 DEF vars
  <2> QED
    BY <2>1, <2>2, <2>3, <2>4, <2>5, <2>6, <2>7 DEF Next, Main
<1> QED
  BY <1>1, <1>2, Invariance, PTL DEF Spec, KeepsPromise, Promise!Spec

--------------------------------------------------------------------------------
(***************************************************************************)
(* The call comes to its end, or waits for a child in the background.      *)
(***************************************************************************)
LEMMA EmptyStep == TypeOK /\ EndedEmpty /\ [Next]_vars => EndedEmpty'
<1> SUFFICES ASSUME TypeOK, EndedEmpty, [Next]_vars PROVE EndedEmpty'
  OBVIOUS
<1> USE PipeAssumption DEF TypeOK, EndedEmpty
<1>1. ASSUME NEW s \in Streams, Pump(s) PROVE EndedEmpty'
  BY <1>1 DEF Pump, Copy, CopyFails, PumpEnds
<1>2. ASSUME NEW s \in Streams, Writer(s) PROVE EndedEmpty'
  BY <1>2 DEF Writer, Write, WriterKilled, WriteRefused, pumps
<1>3. ASSUME NEW w \in {"command", "child"}, Exit(w) PROVE EndedEmpty'
  BY <1>3 DEF Exit, pumps
<1>4. CASE Main \/ UNCHANGED vars
  BY <1>4 DEF Main, StartFails, Start, Return, pumps, vars
<1> QED
  BY <1>1, <1>2, <1>3, <1>4 DEF Next

\* For every pipe and every amount of output, whatever becomes of the terminal: a
\* call that has not returned can go on, or all it waits for is a child in the
\* background that has nothing more to say.
THEOREM AlwaysGoesOn == Spec => []NeverStuck
<1>1. Init => EndedEmpty
  BY DEF Init, EndedEmpty
<1>2. IInv /\ EndedEmpty => NeverStuck
  <2> SUFFICES ASSUME IInv, EndedEmpty, pc = "waiting" PROVE WaitsForChild \/ CanGoOn
    BY DEF IInv, TypeOK, NeverStuck, CanGoOn
  <2>1. \A s \in Streams : pump[s] \in {"reading", "ended"}
    BY DEF IInv, TypeOK, MainProgress
  <2>2. \A s \in Streams : pipe[s] \in Nat /\ todo[s] \in Nat
    BY PipeAssumption, MaxOutAssumption DEF IInv, TypeOK, Output
  <2>3. CASE holders = {}
    BY <2>1, <2>3 DEF CanGoOn, Waited
  <2>4. ASSUME NEW s \in Streams, pipe[s] # 0 PROVE CanGoOn
    BY <2>1, <2>2, <2>4 DEF CanGoOn, EndedEmpty
  <2>5. ASSUME NEW s \in Streams, holders # {}, todo[s] # 0 PROVE CanGoOn
    <3>1. CASE pump[s] = "ended" \/ pipe[s] < PipeCap
      BY <2>2, <2>5, <3>1 DEF CanGoOn
    <3>2. CASE pipe[s] >= PipeCap
      BY <2>4, <3>2, PipeAssumption
    <3> QED
      BY <2>2, <3>1, <3>2, PipeAssumption
  <2>6. CASE todo = Nothing /\ "command" \in holders
    BY <2>6 DEF CanGoOn
  <2>7. CASE holders = {"child"} /\ todo = Nothing
    <3>1. CASE pipe = Nothing
      BY <2>7, <3>1 DEF WaitsForChild
    <3>2. CASE pipe # Nothing
      <4>1. \E s \in Streams : pipe[s] # 0
        BY <3>2 DEF IInv, TypeOK, Nothing
      <4> QED
        BY <2>4, <4>1
    <3> QED
      BY <3>1, <3>2
  <2>8. CASE todo # Nothing /\ holders # {}
    <3>1. \E s \in Streams : todo[s] # 0
      BY <2>8 DEF IInv, TypeOK, Output, Nothing
    <3> QED
      BY <2>5, <2>8, <3>1
  <2>9. holders \in {{}, {"child"}} \/ "command" \in holders
    BY DEF IInv, TypeOK
  <2> QED
    BY <2>3, <2>6, <2>7, <2>8, <2>9
<1> QED
  BY <1>1, <1>2, Invariance, TypeCorrect, EmptyStep, PTL DEF Spec

LEMMA LeftValues ==
  /\ MainLeft["start"] = 6 /\ MainLeft["waiting"] = 1 /\ MainLeft["returned"] = 0
  /\ PumpLeft["idle"] = 0 /\ PumpLeft["reading"] = 1 /\ PumpLeft["ended"] = 0
  BY DEF MainLeft, PumpLeft

StepsAreNat ==
  /\ \A s \in Streams : StepsFor(s) \in Nat
  /\ MainLeft[pc] \in Nat /\ StepsLeft \in Nat

LEMMA StepsType == TypeOK => StepsAreNat
<1> SUFFICES ASSUME TypeOK PROVE StepsAreNat
  OBVIOUS
<1>1. \A s \in Streams : PumpLeft[pump[s]] \in Nat /\ todo[s] \in Nat /\ pipe[s] \in Nat
  BY LeftValues, PipeAssumption, MaxOutAssumption DEF TypeOK, Output
<1>2. \A s \in Streams : StepsFor(s) \in Nat
  BY <1>1 DEF StepsFor
<1>3. MainLeft[pc] \in Nat
  BY LeftValues DEF TypeOK
<1> QED
  BY <1>2, <1>3 DEF StepsAreNat, StepsLeft, Streams

LEMMA StepsTypeNext == TypeOK' => StepsAreNat'
  BY StepsType, PTL

\* A chunk that is written or read leaves less of its stream, and nothing else.
LEMMA StreamStep ==
  ASSUME TypeOK, TypeOK', NEW s \in Streams, Pump(s) \/ Write(s) \/ WriteRefused(s)
  PROVE  /\ StepsFor(s)' < StepsFor(s)
         /\ \A r \in Streams \ {s} : StepsFor(r)' = StepsFor(r)
         /\ UNCHANGED <<pc, holders>>
<1> USE LeftValues, PipeAssumption, MaxOutAssumption
    DEF TypeOK, Output, StepsFor, main, pumps, command
<1>1. CASE Copy(s)
  BY <1>1 DEF Copy
<1>2. CASE CopyFails(s)
  BY <1>2 DEF CopyFails
<1>3. CASE PumpEnds(s)
  BY <1>3 DEF PumpEnds
<1>4. CASE Write(s)
  BY <1>4 DEF Write
<1>5. CASE WriteRefused(s)
  BY <1>5 DEF WriteRefused
<1> QED
  BY <1>1, <1>2, <1>3, <1>4, <1>5 DEF Pump

LEMMA StepsStep ==
  ASSUME TypeOK, TypeOK', IInv, Next
  PROVE  StepsLeft' < StepsLeft
<1> USE LeftValues
<1>0. /\ \A s \in Streams : StepsFor(s) \in Nat /\ StepsFor(s)' \in Nat
      /\ MainLeft[pc] \in Nat /\ MainLeft[pc]' \in Nat
  BY StepsType, StepsTypeNext DEF StepsAreNat
<1>1. ASSUME NEW s \in Streams, Pump(s) \/ Write(s) \/ WriteRefused(s)
      PROVE  StepsLeft' < StepsLeft
  BY <1>0, <1>1, StreamStep DEF StepsLeft, Streams
<1>2. CASE Start
  <2>1. /\ UNCHANGED <<todo, pipe>> /\ pc = "start" /\ pc' = "waiting" /\ holders = {}
        /\ \A s \in Streams : pump[s] = "idle" /\ pump'[s] = "reading"
    BY <1>2 DEF Start, IInv, MainProgress
  <2>2. \A s \in Streams : StepsFor(s)' = StepsFor(s) + 1
    BY <2>1, PipeAssumption, MaxOutAssumption DEF StepsFor, TypeOK, Output
  <2> QED
    BY <1>0, <2>1, <2>2 DEF StepsLeft, Streams
<1>3. ASSUME \/ StartFails \/ Return
             \/ \E s \in Streams : WriterKilled(s)
             \/ \E w \in {"command", "child"} : Exit(w)
      PROVE  StepsLeft' < StepsLeft
  <2>1. UNCHANGED <<todo, pipe, pump>>
    BY <1>3 DEF StartFails, Return, WriterKilled, Exit, pumps, command
  <2>2. \A s \in Streams : StepsFor(s)' = StepsFor(s)
    BY <2>1 DEF StepsFor
  <2>3. \/ UNCHANGED holders /\ pc # "returned" /\ pc' = "returned"
        \/ UNCHANGED pc /\ \E w \in {"command", "child"} : w \in holders /\ holders' = holders \ {w}
    BY <1>3 DEF StartFails, Return, WriterKilled, Exit, Leave, main, command, TypeOK
  <2> QED
    BY <1>0, <2>2, <2>3 DEF StepsLeft, Streams, TypeOK
<1> QED
  BY <1>1, <1>2, <1>3 DEF Next, Main, Writer

\* Every step uses up one of those that were left, the child's too.
THEOREM EveryStepCounts == Spec => NoStepInVain
<1>1. TypeOK /\ TypeOK' /\ IInv /\ [Next]_vars => [StepsLeft' < StepsLeft]_vars
  BY StepsStep
<1> QED
  BY <1>1, TypeCorrect, Invariance, PTL DEF Spec, NoStepInVain

\* There are never more than 6, and 3 for every chunk of output.
THEOREM AlwaysBounded == Spec => []StepsBounded
<1>1. Init => StepsBounded
  <2> SUFFICES ASSUME Init PROVE StepsBounded
    OBVIOUS
  <2>1. \A s \in Streams : todo[s] \in 0..MaxOut
    BY DEF Init, Output
  <2>2. \A s \in Streams : StepsFor(s) = 3 * todo[s]
    BY <2>1, LeftValues, MaxOutAssumption DEF Init, Nothing, StepsFor
  <2>3. MainLeft[pc] = 6
    BY LeftValues DEF Init
  <2> QED
    BY <2>1, <2>2, <2>3, MaxOutAssumption DEF Init, StepsLeft, StepsBounded, Streams
<1>2. TypeOK /\ TypeOK' /\ IInv /\ StepsBounded /\ [Next]_vars => StepsBounded'
  <2> SUFFICES ASSUME TypeOK, TypeOK', IInv, StepsBounded, [Next]_vars PROVE StepsBounded'
    OBVIOUS
  <2>1. StepsLeft \in Nat /\ StepsLeft' \in Nat
    BY StepsType, StepsTypeNext DEF StepsAreNat
  <2>2. StepsLeft' <= StepsLeft
    <3>1. CASE UNCHANGED vars
      BY <2>1, <3>1 DEF vars, StepsLeft, StepsFor
    <3> QED
      BY <2>1, <3>1, StepsStep
  <2> QED
    BY <2>1, <2>2, MaxOutAssumption DEF StepsBounded
<1> QED
  BY <1>1, <1>2, TypeCorrect, Invariance, PTL DEF Spec

================================================================================
