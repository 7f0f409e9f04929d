---------------------------- MODULE SSHSessionProofs ----------------------------
(***************************************************************************)
(* TLAPS proofs about SSHSession, for every Window, PipeCap and MaxOut.    *)
(***************************************************************************)
EXTENDS SSHSession, TLAPS

(***************************************************************************)
(* Every variable keeps its type: no counter of chunks goes below zero, in *)
(* particular the uint32 window of the channel.                            *)
(***************************************************************************)
LEMMA TypeInit == Init => TypeOK
<1> SUFFICES ASSUME Init PROVE TypeOK
  OBVIOUS
<1>1. out \in [Streams -> Nat]
  BY MaxOutAssumption DEF Init, Output
<1>2. /\ held \in [Streams -> Nat] /\ captured \in [Streams -> Nat]
      /\ pending \in [Streams -> Nat] /\ pipe \in [Streams -> Nat]
      /\ todo \in [Streams -> Nat]
  BY <1>1 DEF Init, Nothing
<1> QED
  BY <1>2, WindowAssumption DEF Init, TypeOK, Exits

LEMMA TypeStep == TypeOK /\ [Next]_vars => TypeOK'
<1> SUFFICES ASSUME TypeOK, [Next]_vars PROVE TypeOK'
  OBVIOUS
<1> USE WindowAssumption DEF TypeOK
<1>1. ASSUME OpenSession PROVE TypeOK'
  BY <1>1 DEF OpenSession, PumpsStarted, command, remote, channel, pumps, Output, Exits
<1>2. ASSUME OpenFails PROVE TypeOK'
  BY <1>2 DEF OpenFails, Return, command, remote, channel, pumps, Output, Exits
<1>3. ASSUME StartCommand PROVE TypeOK'
  BY <1>3 DEF StartCommand, command, remote, channel, pumps, Output, Exits
<1>4. ASSUME StartFails PROVE TypeOK'
  BY <1>4 DEF StartFails, Return, command, remote, channel, pumps, Output, Exits
<1>5. ASSUME WaitReturns PROVE TypeOK'
  BY <1>5 DEF WaitReturns, RunSucceeded, Return, command, remote, channel, pumps, Output, Exits
<1>6. ASSUME Join PROVE TypeOK'
  BY <1>6 DEF Join, PumpsDone, Return, command, remote, channel, pumps, Output, Exits
<1>7. ASSUME NEW s \in Streams, PumpRead(s) PROVE TypeOK'
  BY <1>7 DEF PumpRead, AdjustWindow, command, remote, channel, pumps, Output, Exits
<1>8. ASSUME NEW s \in Streams, PumpWrite(s) PROVE TypeOK'
  BY <1>8 DEF PumpWrite, command, remote, channel, pumps, Output, Exits
<1>9. ASSUME NEW s \in Streams, PumpSinkFails(s) PROVE TypeOK'
  BY <1>9 DEF PumpSinkFails, command, remote, channel, pumps, Output, Exits
<1>10. ASSUME NEW s \in Streams, PumpEOF(s) PROVE TypeOK'
  BY <1>10 DEF PumpEOF, AtEOF, Ended, command, remote, channel, pumps, Output, Exits
<1>11. ASSUME NEW s \in Streams, ProcWrite(s) PROVE TypeOK'
  BY <1>11 DEF ProcWrite, command, remote, channel, pumps, Output, Exits
<1>12. ASSUME ProcExit PROVE TypeOK'
  BY <1>12 DEF ProcExit, command, remote, channel, pumps, Output, Exits
<1>13. ASSUME NEW s \in Streams, Receive(s) PROVE TypeOK'
  BY <1>13 DEF Receive, CanSend, command, remote, channel, pumps, Output, Exits
<1>14. ASSUME ReceiveClose PROVE TypeOK'
  BY <1>14 DEF ReceiveClose, command, remote, channel, pumps, Output, Exits
<1>15. ASSUME ConnectionLost PROVE TypeOK'
  BY <1>15 DEF ConnectionLost, command, remote, channel, pumps, Output, Exits
<1>16. ASSUME UNCHANGED vars PROVE TypeOK'
  BY <1>16 DEF vars, command, remote, channel, pumps, Output, Exits
<1> QED
  BY <1>1, <1>2, <1>3, <1>4, <1>5, <1>6, <1>7, <1>8, <1>9, <1>10, <1>11, <1>12, <1>13, <1>14, <1>15, <1>16 DEF Next, Main, Pump, Remote

THEOREM TypeCorrect == Spec => []TypeOK
  BY TypeInit, TypeStep, PTL DEF Spec

--------------------------------------------------------------------------------
(***************************************************************************)
(* Flow control. Each chunk of the window is still grantable, consumed or  *)
(* unread, and at most half of it is consumed without having been given    *)
(* back: adjustWindow gives everything back on the first read after the    *)
(* window fell below one half.                                             *)
(***************************************************************************)
HalfConsumed == 2 * consumed <= Window

WindowInv == TypeOK /\ WindowConserved /\ HalfConsumed

LEMMA WindowInit == Init => WindowInv
<1> SUFFICES ASSUME Init PROVE WindowConserved /\ HalfConsumed
  BY TypeInit DEF WindowInv
<1> QED
  BY WindowAssumption DEF Init, Nothing, Streams, WindowConserved, HalfConsumed, Unread

LEMMA WindowStep == WindowInv /\ [Next]_vars => WindowInv'
<1> SUFFICES ASSUME WindowInv, [Next]_vars PROVE WindowConserved' /\ HalfConsumed'
  BY TypeStep DEF WindowInv
<1> USE WindowAssumption DEF WindowInv, TypeOK, WindowConserved, HalfConsumed, Unread, Streams
<1>1. ASSUME NEW s \in Streams, PumpRead(s) PROVE WindowConserved' /\ HalfConsumed'
  <2>1. PICK n \in 1..pending[s] : /\ pending' = [pending EXCEPT ![s] = @ - n]
                                   /\ AdjustWindow(n)
    BY <1>1 DEF PumpRead
  <2>2. consumed + n <= Window - window
    BY <2>1
  <2>3. CASE GivesBack
    BY <2>1, <2>3 DEF AdjustWindow
  <2>4. CASE ~GivesBack
    BY <2>1, <2>2, <2>4 DEF GivesBack, AdjustWindow
  <2> QED
    BY <2>3, <2>4
<1>2. ASSUME NEW s \in Streams, Receive(s) PROVE WindowConserved' /\ HalfConsumed'
  BY <1>2 DEF Receive, CanSend
<1>3. ASSUME UNCHANGED channel PROVE WindowConserved' /\ HalfConsumed'
  BY <1>3 DEF channel
<1>4. \/ \E s \in Streams : PumpRead(s) \/ Receive(s)
      \/ UNCHANGED channel
  BY DEF Next, Main, Pump, Remote, vars, channel, OpenSession, OpenFails,
         StartCommand, StartFails, WaitReturns, Join, PumpWrite, PumpSinkFails,
         PumpEOF, ProcWrite, ProcExit, ReceiveClose, ConnectionLost
<1> QED
  BY <1>1, <1>2, <1>3, <1>4

\* The window is never leaked, whichever pump returns it, and never exhausted
\* while every received chunk has been read (adjustWindow in channel.go).
THEOREM WindowSafe == Spec => [](WindowConserved /\ WindowRecoverable)
<1>1. WindowInv => WindowConserved /\ WindowRecoverable
  BY WindowAssumption DEF WindowInv, TypeOK, WindowConserved, HalfConsumed,
                          WindowRecoverable, Unread, Streams
<1> QED
  BY <1>1, WindowInit, WindowStep, PTL DEF Spec

\* A window that is too small to be refilled has something unread behind it: reading
\* it gives the peer new credit, so that flow control never stops a stream for good.
THEOREM WindowAlwaysRecoverable == Spec => []WindowRecoverable
<1>1. (WindowConserved /\ WindowRecoverable) => WindowRecoverable
  OBVIOUS
<1> QED
  BY <1>1, WindowSafe, PTL

--------------------------------------------------------------------------------
(***************************************************************************)
(* The output of a call that succeeded.                                    *)
(***************************************************************************)
LEMMA IInit == Init => IInv
<1> SUFFICES ASSUME Init PROVE IInv
  OBVIOUS
<1>1. out \in [Streams -> Nat]
  BY MaxOutAssumption DEF Init, Output
<1> QED
  BY <1>1, TypeInit DEF Init, IInv, Accounted, PumpsDrain, StatusGenuine,
     ClosedBehindOutput, MainProgress, Nothing

LEMMA IStep == IInv /\ [Next]_vars => IInv'
<1> SUFFICES ASSUME IInv, [Next]_vars, TypeOK' PROVE IInv'
  BY TypeStep DEF IInv
<1> DEFINE Parts == Accounted /\ PumpsDrain /\ StatusGenuine /\ ClosedBehindOutput
                      /\ MainProgress
<1> USE MaxOutAssumption DEF IInv, TypeOK, Accounted, PumpsDrain, StatusGenuine,
        ClosedBehindOutput, MainProgress, Ended, Nothing, Exits, Output
<1>1. ASSUME OpenSession PROVE Parts'
  BY <1>1 DEF OpenSession, PumpsStarted, command, remote, channel, pumps
<1>2. ASSUME OpenFails PROVE Parts'
  BY <1>2 DEF OpenFails, Return, command, remote, channel, pumps
<1>3. ASSUME StartCommand PROVE Parts'
  BY <1>3 DEF StartCommand, command, remote, channel, pumps
<1>4. ASSUME StartFails PROVE Parts'
  BY <1>4 DEF StartFails, Return, command, remote, channel, pumps
<1>5. ASSUME WaitReturns PROVE Parts'
  BY <1>5 DEF WaitReturns, RunSucceeded, Return, command, remote, channel, pumps
<1>6. ASSUME Join PROVE Parts'
  BY <1>6 DEF Join, PumpsDone, Return, command, remote, channel, pumps
<1>7. ASSUME NEW s \in Streams, PumpRead(s) PROVE Parts'
  BY <1>7 DEF PumpRead, command, remote, channel, pumps
<1>8. ASSUME NEW s \in Streams, PumpWrite(s) PROVE Parts'
  BY <1>8 DEF PumpWrite, command, remote, channel, pumps
<1>9. ASSUME NEW s \in Streams, PumpSinkFails(s) PROVE Parts'
  BY <1>9 DEF PumpSinkFails, command, remote, channel, pumps
<1>10. ASSUME NEW s \in Streams, PumpEOF(s) PROVE Parts'
  BY <1>10 DEF PumpEOF, AtEOF, Ended, command, remote, channel, pumps
<1>11. ASSUME NEW s \in Streams, ProcWrite(s) PROVE Parts'
  <2>1. /\ todo'[s] + pipe'[s] = todo[s] + pipe[s]
        /\ \A r \in Streams \ {s} : todo'[r] = todo[r] /\ pipe'[r] = pipe[r]
    BY <1>11 DEF ProcWrite
  <2>2. Accounted'
    BY <1>11, <2>1 DEF ProcWrite, command, channel, pumps
  <2> QED
    BY <1>11, <2>2 DEF ProcWrite, command, channel, pumps
<1>12. ASSUME ProcExit PROVE Parts'
  BY <1>12 DEF ProcExit, command, remote, channel, pumps
<1>13. ASSUME NEW s \in Streams, Receive(s) PROVE Parts'
  BY <1>13 DEF Receive, CanSend, command, remote, channel, pumps
<1>14. ASSUME ReceiveClose PROVE Parts'
  BY <1>14 DEF ReceiveClose, command, remote, channel, pumps
<1>15. ASSUME ConnectionLost PROVE Parts'
  BY <1>15 DEF ConnectionLost, command, remote, channel, pumps
<1>16. ASSUME UNCHANGED vars PROVE Parts'
  BY <1>16 DEF vars
<1> QED
  BY <1>1, <1>2, <1>3, <1>4, <1>5, <1>6, <1>7, <1>8, <1>9, <1>10, <1>11, <1>12, <1>13, <1>14, <1>15, <1>16
  DEF Next, Main, Pump, Remote

THEOREM Invariance == Spec => []IInv
  BY IInit, IStep, PTL DEF Spec

LEMMA CompleteFromIInv == IInv => CompleteOnSuccess
<1> SUFFICES ASSUME IInv, res = "ok", ~lost, \A s \in Streams : ~failed[s]
             PROVE captured = out
  BY DEF CompleteOnSuccess
<1>1. \A s \in Streams : todo[s] = 0 /\ pipe[s] = 0
  BY DEF IInv, MainProgress, ClosedBehindOutput, StatusGenuine, Nothing
<1>2. \A s \in Streams : pending[s] = 0 /\ held[s] = 0
  BY DEF IInv, MainProgress, PumpsDrain
<1>3. \A s \in Streams : captured[s] = out[s]
  BY <1>1, <1>2 DEF IInv, TypeOK, Accounted, Output
<1> QED
  BY <1>3 DEF IInv, TypeOK, Output

\* A nil error from a connection and writers that held comes with all the
\* output, although the exit status overtakes it (wg.Wait before the return).
THEOREM Complete == Spec => []CompleteOnSuccess
  BY Invariance, CompleteFromIInv, PTL

\* The captured output never changes once a nil error was returned: both
\* goroutines have called wg.Done.
THEOREM NoLate == Spec => NoLateOutput
<1>1. IInv /\ [Next]_vars => [res = "ok" => UNCHANGED captured]_vars
  <2> SUFFICES ASSUME IInv, [Next]_vars, res = "ok" PROVE captured' = captured
    OBVIOUS
  <2>1. \A s \in Streams : ~PumpWrite(s)
    BY DEF IInv, MainProgress, PumpWrite
  <2> QED
    BY <2>1 DEF Next, Main, Pump, Remote, vars, pumps, OpenSession, OpenFails,
       StartCommand, StartFails, WaitReturns, Join, PumpRead, PumpSinkFails,
       PumpEOF, ProcWrite, ProcExit, Receive, ReceiveClose, ConnectionLost
<1> QED
  BY <1>1, Invariance, PTL DEF Spec, NoLateOutput

--------------------------------------------------------------------------------
(***************************************************************************)
(* ExecuteStdio over SSH implements CommandOperator: a return maps to a    *)
(* return, a loss or a failed writer to Break, the rest to a stutter.      *)
(***************************************************************************)
THEOREM Refinement == Spec => KeepsPromise
<1> USE DEF Promise!vars, Promise!Streams, Streams, Promise!Output, Output
<1>1. Init => Promise!Init
  BY DEF Init, Promise!Init, Promise!Exits, Promise!Nothing, Exits, Nothing
<1>2. IInv /\ IInv' /\ [Next]_vars => [Promise!Next]_(Promise!vars)
  <2> SUFFICES ASSUME IInv, IInv', [Next]_vars
               PROVE  Promise!Next \/ UNCHANGED Promise!vars
    OBVIOUS
  <2>1. ASSUME OpenFails \/ StartFails PROVE Promise!ReturnError
    BY <2>1 DEF OpenFails, StartFails, Return, Promise!ReturnError, pumps,
                command, IInv, MainProgress
  <2>2. ASSUME WaitReturns PROVE Promise!ReturnError \/ UNCHANGED Promise!vars
    BY <2>2 DEF WaitReturns, RunSucceeded, Return, Promise!ReturnError, pumps, command, IInv,
                MainProgress
  <2>3. ASSUME Join PROVE Promise!ReturnOk
    <3>1. pc = "joining" /\ pc' = "returned" /\ res' = "ok" /\ exit = "zero"
      BY <2>3 DEF Join, PumpsDone, Return, IInv, MainProgress, StatusGenuine
    <3>2. UNCHANGED <<out, exit, captured, failed, lost>>
      BY <2>3 DEF Join, command, pumps
    <3>3. ~(lost \/ \E s \in Streams : failed[s]) => captured' = out
      <4>1. CompleteOnSuccess'
        BY CompleteFromIInv, PTL
      <4> QED
        BY <3>1, <3>2, <4>1 DEF CompleteOnSuccess
    <3>4. \A s \in Streams : captured[s] \in Nat /\ captured[s] <= out[s]
      <4> SUFFICES ASSUME NEW s \in Streams
                   PROVE  captured[s] \in Nat /\ captured[s] <= out[s]
        OBVIOUS
      <4>1. /\ todo[s] \in Nat /\ pipe[s] \in Nat /\ pending[s] \in Nat
            /\ held[s] \in Nat /\ captured[s] \in Nat /\ out[s] \in Int
        BY MaxOutAssumption DEF IInv, TypeOK
      <4>2. todo[s] + pipe[s] + pending[s] + held[s] + captured[s] <= out[s]
        BY <4>1 DEF IInv, Accounted
      <4> QED
        BY <4>1, <4>2
    <3>5. captured' \in {g \in Promise!Output : \A s \in Promise!Streams : g[s] <= out[s]}
      BY <3>2, <3>4, MaxOutAssumption DEF IInv, TypeOK
    <3> QED
      BY <3>1, <3>2, <3>3, <3>5 DEF Promise!ReturnOk
  <2>4. ASSUME UNCHANGED <<command, pc, res>>, res = "ok" => captured' = captured,
               \/ lost' \/ \E s \in Streams : failed'[s]
               \/ UNCHANGED <<failed, lost>>
        PROVE  Promise!Break \/ UNCHANGED Promise!vars
    BY <2>4 DEF Promise!Break, command
  <2>5. ASSUME NEW s \in Streams, Pump(s) PROVE Promise!Next \/ UNCHANGED Promise!vars
    <3>1. PumpWrite(s) => res # "ok"
      BY DEF PumpWrite, IInv, MainProgress
    <3>2. UNCHANGED <<command, pc, res>> /\ (res = "ok" => captured' = captured)
      BY <2>5, <3>1 DEF Pump, PumpRead, PumpWrite, PumpSinkFails, PumpEOF
    <3>3. PumpSinkFails(s) => failed'[s]
      BY DEF PumpSinkFails, IInv, TypeOK
    <3>4. ~PumpSinkFails(s) => UNCHANGED <<failed, lost>>
      BY <2>5 DEF Pump, PumpRead, PumpWrite, PumpEOF, pumps
    <3> QED
      BY <2>4, <3>2, <3>3, <3>4 DEF Promise!Next
  <2>6. ASSUME Remote \/ ConnectionLost PROVE Promise!Next \/ UNCHANGED Promise!vars
    <3>1. UNCHANGED <<command, pc, res, captured, failed>> /\ (lost' \/ UNCHANGED lost)
      BY <2>6 DEF Remote, ProcWrite, ProcExit, Receive, ReceiveClose,
                  ConnectionLost, pumps
    <3> QED
      BY <2>4, <3>1 DEF Promise!Next
  <2>7. ASSUME OpenSession \/ StartCommand PROVE Promise!Next \/ UNCHANGED Promise!vars
    <3>1. UNCHANGED <<command, res, captured, failed, lost>>
      BY <2>7 DEF OpenSession, StartCommand, pumps
    <3>2. pc # "returned" /\ pc' # "returned" /\ res # "ok"
      BY <2>7 DEF OpenSession, StartCommand, IInv, MainProgress
    <3> QED
      BY <3>1, <3>2 DEF command
  <2>8. CASE UNCHANGED vars
    BY <2>8 DEF vars
  <2> QED
    BY <2>1, <2>2, <2>3, <2>5, <2>6, <2>7, <2>8 DEF Next, Main, Promise!Next
<1> QED
  BY <1>1, <1>2, Invariance, PTL DEF Spec, KeepsPromise, Promise!Spec

--------------------------------------------------------------------------------
(***************************************************************************)
(* The call comes to its end: somebody can always take the next step, and  *)
(* every step leaves fewer to take.                                        *)
(***************************************************************************)
LEMMA ProgressInit == Init => ProgressInv
  BY PipeAssumption DEF Init, ProgressInv, Nothing

LEMMA ProgressStep == TypeOK /\ IInv /\ ProgressInv /\ [Next]_vars => ProgressInv'
<1> SUFFICES ASSUME TypeOK, IInv, ProgressInv, [Next]_vars PROVE ProgressInv'
  OBVIOUS
<1> USE PipeAssumption DEF TypeOK, ProgressInv
<1>1. (lost => closed)'
  BY DEF Next, Main, Pump, Remote, vars, OpenSession, OpenFails, StartCommand, StartFails,
         WaitReturns, Join, PumpRead, PumpWrite, PumpSinkFails, PumpEOF, ProcWrite,
         ProcExit, Receive, ReceiveClose, ConnectionLost
<1>2. (\A s \in Streams : pipe[s] <= PipeCap)'
  <2>1. ASSUME NEW s \in Streams, ProcWrite(s) \/ Receive(s)
        PROVE  (\A r \in Streams : pipe[r] <= PipeCap)'
    BY <2>1 DEF ProcWrite, Receive, CanSend
  <2>2. (\E s \in Streams : ProcWrite(s) \/ Receive(s)) \/ UNCHANGED pipe
    BY DEF Next, Main, Pump, Remote, vars, remote, OpenSession, OpenFails, StartCommand,
           StartFails, WaitReturns, Join, PumpRead, PumpWrite, PumpSinkFails, PumpEOF,
           ProcExit, ReceiveClose, ConnectionLost
  <2> QED
    BY <2>1, <2>2
<1>3. proc # "absent" => proc' # "absent"
  BY DEF Next, Main, Pump, Remote, vars, remote, OpenSession, OpenFails, StartCommand,
         StartFails, WaitReturns, Join, PumpRead, PumpWrite, PumpSinkFails, PumpEOF,
         ProcWrite, ProcExit, Receive, ReceiveClose, ConnectionLost
<1>4. ASSUME pc # "start", NEW s \in Streams, pump[s] # "idle" PROVE pump'[s] # "idle"
  BY <1>4 DEF Next, Main, Pump, Remote, vars, pumps, OpenSession, OpenFails, StartCommand,
         StartFails, WaitReturns, Join, PumpRead, PumpWrite, PumpSinkFails, PumpEOF,
         ProcWrite, ProcExit, Receive, ReceiveClose, ConnectionLost
<1>5. pc' \in {"running", "joining"} => pc \in {"running", "joining"} \/ StartCommand
  BY DEF Next, Main, Pump, Remote, vars, Return, OpenSession, OpenFails,
         StartFails, WaitReturns, Join, PumpRead, PumpWrite, PumpSinkFails, PumpEOF,
         ProcWrite, ProcExit, Receive, ReceiveClose, ConnectionLost
<1>6. pc' = "opened" => pc = "opened" \/ OpenSession
  BY DEF Next, Main, Pump, Remote, vars, Return, StartCommand, OpenFails,
         StartFails, WaitReturns, Join, PumpRead, PumpWrite, PumpSinkFails, PumpEOF,
         ProcWrite, ProcExit, Receive, ReceiveClose, ConnectionLost
<1>7. OpenSession => \A s \in Streams : pump'[s] # "idle"
  BY DEF OpenSession, PumpsStarted
<1>8. StartCommand => pc = "opened" /\ proc' # "absent"
  BY DEF StartCommand
<1> QED
  BY <1>1, <1>2, <1>3, <1>4, <1>5, <1>6, <1>7, <1>8

\* For every window, every pipe and every amount of output: as long as no pump has
\* given up on its writer, a call that has not returned can go on. In particular the
\* window both streams share does not starve one of them while the other is drained.
THEOREM AlwaysGoesOn == Spec => []NeverStuck
<1>1. TypeOK /\ IInv /\ ProgressInv /\ WindowConserved /\ WindowRecoverable => NeverStuck
  <2> SUFFICES ASSUME TypeOK, IInv, ProgressInv, WindowConserved, WindowRecoverable,
                      pc \in {"running", "joining"}, ~closed \/ pc = "joining",
                      \A s \in Streams : ~failed[s]
               PROVE  CanGoOn
    BY DEF NeverStuck, CanGoOn, TypeOK
  <2>1. ASSUME NEW s \in Streams, pending[s] > 0, ~Ended PROVE CanGoOn
    <3>1. pump[s] \in {"reading", "writing"}
      BY <2>1 DEF TypeOK, IInv, PumpsDrain, ProgressInv, Ended
    <3> QED
      BY <2>1, <3>1 DEF CanGoOn
  <2>2. ASSUME NEW s \in Streams, pipe[s] > 0, ~closed PROVE CanGoOn
    <3>1. CASE window > 0
      BY <2>2, <3>1 DEF CanGoOn, CanSend
    <3>2. CASE window = 0
      <4>1. \E r \in Streams : pending[r] > 0
        BY <3>2, WindowAssumption DEF WindowRecoverable, Unread, Streams, TypeOK
      <4>2. ~Ended
        BY <2>2 DEF Ended, Nothing
      <4> QED
        BY <2>1, <4>1, <4>2
    <3> QED
      BY <3>1, <3>2 DEF TypeOK
  <2>3. CASE pc = "joining"
    <3>1. closed /\ Ended
      BY <2>3 DEF IInv, MainProgress, Ended
    <3>2. CASE PumpsDone
      BY <2>3, <3>2 DEF CanGoOn
    <3>3. CASE ~PumpsDone
      <4>1. PICK s \in Streams : pump[s] \in {"reading", "writing"}
        BY <2>3, <3>3 DEF PumpsDone, ProgressInv, TypeOK
      <4> QED
        BY <3>1, <4>1 DEF CanGoOn, AtEOF, TypeOK
    <3> QED
      BY <3>2, <3>3
  <2>4. CASE ~closed /\ proc = "running"
    <3>1. CASE todo = Nothing
      BY <2>4, <3>1 DEF CanGoOn
    <3>2. CASE todo # Nothing
      <4>1. PICK s \in Streams : todo[s] # 0
        BY <3>2 DEF TypeOK, Nothing
      <4>2. todo[s] > 0 /\ (pipe[s] < PipeCap \/ pipe[s] > 0)
        BY <4>1, PipeAssumption DEF TypeOK
      <4> QED
        BY <2>2, <2>4, <4>2 DEF CanGoOn
    <3> QED
      BY <3>1, <3>2
  <2>5. CASE ~closed /\ proc = "exited"
    <3>1. CASE pipe = Nothing
      BY <2>5, <3>1 DEF CanGoOn
    <3>2. CASE pipe # Nothing
      <4>1. PICK s \in Streams : pipe[s] > 0
        BY <3>2 DEF TypeOK, Nothing
      <4> QED
        BY <2>2, <2>5, <4>1
    <3> QED
      BY <3>1, <3>2
  <2> QED
    BY <2>3, <2>4, <2>5 DEF TypeOK, ProgressInv
<1> QED
  BY <1>1, TypeCorrect, Invariance, WindowSafe, ProgressInit, ProgressStep, PTL DEF Spec

LEMMA LeftValues ==
  /\ MainLeft["start"] = 7 /\ MainLeft["opened"] = 4 /\ MainLeft["running"] = 2
  /\ MainLeft["joining"] = 1 /\ MainLeft["returned"] = 0
  /\ PumpLeft["idle"] = 0 /\ PumpLeft["reading"] = 1 /\ PumpLeft["writing"] = 2
  /\ PumpLeft["done"] = 0
  BY DEF MainLeft, PumpLeft

StepsAreNat ==
  /\ \A s \in Streams : StepsFor(s) \in Nat
  /\ MainLeft[pc] \in Nat /\ StepsLeft \in Nat

LEMMA StepsType == TypeOK => StepsAreNat
<1> SUFFICES ASSUME TypeOK PROVE StepsAreNat
  OBVIOUS
<1>1. \A s \in Streams : PumpLeft[pump[s]] \in Nat
  BY LeftValues DEF TypeOK
<1>2. \A s \in Streams : StepsFor(s) \in Nat
  BY <1>1 DEF TypeOK, StepsFor
<1>3. MainLeft[pc] \in Nat
  BY LeftValues DEF TypeOK
<1> QED
  BY <1>2, <1>3 DEF StepsAreNat, StepsLeft, Streams

LEMMA StepsTypeNext == TypeOK' => StepsAreNat'
  BY StepsType, PTL

\* A step of a pump or of a pipe works on one stream and leaves less of it.
LEMMA StreamStep ==
  ASSUME TypeOK, TypeOK', NEW s \in Streams,
         \/ PumpRead(s) \/ PumpWrite(s) \/ PumpSinkFails(s) \/ PumpEOF(s)
         \/ ProcWrite(s) \/ Receive(s)
  PROVE  /\ StepsFor(s)' < StepsFor(s)
         /\ \A r \in Streams \ {s} : StepsFor(r)' = StepsFor(r)
         /\ UNCHANGED <<pc, proc, closed>>
<1> USE LeftValues DEF TypeOK, StepsFor, pumps, channel, remote
<1>1. CASE PumpRead(s)
  BY <1>1 DEF PumpRead
<1>2. CASE PumpWrite(s)
  BY <1>2 DEF PumpWrite
<1>3. CASE PumpSinkFails(s)
  BY <1>3 DEF PumpSinkFails
<1>4. CASE PumpEOF(s)
  BY <1>4 DEF PumpEOF
<1>5. CASE ProcWrite(s)
  BY <1>5 DEF ProcWrite
<1>6. CASE Receive(s)
  BY <1>6 DEF Receive, CanSend
<1> QED
  BY <1>1, <1>2, <1>3, <1>4, <1>5, <1>6

LEMMA StepsStep ==
  ASSUME TypeOK, TypeOK', IInv, Next
  PROVE  StepsLeft' < StepsLeft
<1> USE LeftValues
<1>0. \A s \in Streams : StepsFor(s) \in Nat /\ StepsFor(s)' \in Nat
  BY StepsType, StepsTypeNext DEF StepsAreNat
<1>1. ASSUME NEW s \in Streams, Pump(s) \/ ProcWrite(s) \/ Receive(s)
      PROVE  StepsLeft' < StepsLeft
  <2>1. /\ StepsFor(s)' < StepsFor(s)
        /\ \A r \in Streams \ {s} : StepsFor(r)' = StepsFor(r)
        /\ UNCHANGED <<pc, proc, closed>>
    BY <1>1, StreamStep DEF Pump
  <2>2. MainLeft[pc] \in Nat
    BY StepsType, StepsTypeNext DEF StepsAreNat
  <2> QED
    BY <1>0, <2>1, <2>2 DEF StepsLeft, Streams
<1>2. CASE OpenSession
  <2>1. /\ UNCHANGED <<todo, pipe, pending, held, proc, closed>>
        /\ pc = "start" /\ pc' = "opened"
        /\ \A s \in Streams : pump[s] = "idle" /\ pump'[s] = "reading"
    BY <1>2 DEF OpenSession, PumpsStarted, IInv, MainProgress, remote, channel
  <2>2. \A s \in Streams : StepsFor(s)' = StepsFor(s) + 1
    BY <2>1 DEF StepsFor, TypeOK
  <2> QED
    BY <1>0, <2>1, <2>2 DEF StepsLeft, Streams
<1>3. CASE \/ OpenFails \/ StartCommand \/ StartFails \/ WaitReturns \/ Join
           \/ ProcExit \/ ReceiveClose \/ ConnectionLost
  <2>1. UNCHANGED <<todo, pipe, pending, held, pump>>
    BY <1>3 DEF OpenFails, StartCommand, StartFails, WaitReturns, Join, ProcExit, ReceiveClose,
                ConnectionLost, remote, channel, pumps
  <2>2. \A s \in Streams : StepsFor(s)' = StepsFor(s)
    BY <2>1 DEF StepsFor
  <2>3. \/ UNCHANGED <<proc, closed>> /\ MainLeft[pc]' < MainLeft[pc]
        \/ UNCHANGED closed /\ pc = "opened" /\ pc' = "running"
        \/ UNCHANGED <<pc, closed>> /\ proc = "running" /\ proc' = "exited"
        \/ UNCHANGED <<pc, proc>> /\ ~closed /\ closed'
    BY <1>3 DEF OpenFails, StartCommand, StartFails, WaitReturns, Join, ProcExit, ReceiveClose,
                ConnectionLost, Return, remote
  <2>4. MainLeft[pc] \in Nat /\ MainLeft[pc]' \in Nat
    BY StepsType, StepsTypeNext DEF StepsAreNat
  <2> QED
    BY <1>0, <2>2, <2>3, <2>4 DEF StepsLeft, Streams
<1> QED
  BY <1>1, <1>2, <1>3 DEF Next, Main, Remote

\* Nobody polls, and no two actors keep each other busy: every step of the call, of
\* its goroutines or of the host uses up one of the steps that were left.
THEOREM EveryStepCounts == Spec => NoStepInVain
<1>1. TypeOK /\ TypeOK' /\ IInv /\ [Next]_vars => [StepsLeft' < StepsLeft]_vars
  BY StepsStep
<1> QED
  BY <1>1, TypeCorrect, Invariance, PTL DEF Spec, NoStepInVain

\* And there are never more than 8, and 6 for every chunk of output.
THEOREM AlwaysBounded == Spec => []StepsBounded
<1>1. Init => StepsBounded
  <2> SUFFICES ASSUME Init PROVE StepsBounded
    OBVIOUS
  <2>1. \A s \in Streams : todo[s] \in 0..MaxOut
    BY DEF Init, Output
  <2>2. \A s \in Streams : StepsFor(s) = 6 * todo[s]
    BY <2>1, LeftValues, MaxOutAssumption DEF Init, Nothing, StepsFor
  <2>3. MainLeft[pc] = 7
    BY LeftValues DEF Init
  <2> QED
    BY <2>1, <2>2, <2>3, MaxOutAssumption DEF Init, StepsLeft, StepsBounded, Streams
<1>2. TypeOK /\ TypeOK' /\ IInv /\ StepsBounded /\ [Next]_vars => StepsBounded'
  <2> SUFFICES ASSUME TypeOK, TypeOK', IInv, StepsBounded, [Next]_vars PROVE StepsBounded'
    OBVIOUS
  <2>1. StepsLeft \in Nat /\ StepsLeft' \in Nat
    BY StepsType, StepsTypeNext DEF StepsAreNat
  <2>2. StepsLeft' <= StepsLeft
    <3>1. CASE UNCHANGED vars
      BY <2>1, <3>1 DEF vars, StepsLeft, StepsFor
    <3> QED
      BY <2>1, <3>1, StepsStep
  <2> QED
    BY <2>1, <2>2, MaxOutAssumption DEF StepsBounded
<1> QED
  BY <1>1, <1>2, TypeCorrect, Invariance, PTL DEF Spec

================================================================================
