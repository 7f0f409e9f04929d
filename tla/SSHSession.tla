------------------------------- MODULE SSHSession -------------------------------
(***************************************************************************)
(* SSHOperator.ExecuteStdio (pkg/operator/ssh_operator.go): one command    *)
(* run over an SSH session while two goroutines drain its output.          *)
(*                                                                         *)
(* Concurrent actors:                                                      *)
(*   main      NewSession, sess.Run, wg.Wait and the return                *)
(*   pumps     the two io.Copy goroutines, one per stream                  *)
(*   client    x/crypto/ssh: the mux that fills the channel's buffers and  *)
(*             the flow-control window both streams share                  *)
(*   remote    the command, its two pipes, and sshd (external)             *)
(*                                                                         *)
(* Data is counted in chunks. What is on the wire is not a state of its    *)
(* own: sshd's send and the mux's handlePacket are one step, and so are a  *)
(* read and the window adjustment it sends. The model keeps the order in   *)
(* which sshd may report things: the exit status as soon as the command    *)
(* exits, output still in the pipes afterwards, the close at the end.      *)
(***************************************************************************)
EXTENDS Integers

CONSTANTS
  Window,       \* channelWindowSize, in chunks
  AdjustSlack,  \* 3*maxIncomingPayload, in chunks
  PipeCap,      \* capacity of each of the command's pipes on the remote host
  MaxOut,       \* the most chunks the command writes to one stream
  Streamed      \* the stream argument: output is also copied to the terminal

ASSUME WindowAssumption == Window \in Nat /\ Window >= 2
ASSUME SlackAssumption == AdjustSlack \in Nat
ASSUME PipeAssumption == PipeCap \in Nat \ {0}
ASSUME MaxOutAssumption == MaxOut \in Nat
ASSUME StreamedAssumption == Streamed \in BOOLEAN

VARIABLES
  out,       \* what the command writes in all, per stream
  exit,      \* the exit status it ends with
  pc,        \* the main goroutine
  res,       \* the error part of what ExecuteStdio returned
  pump,      \* the two io.Copy goroutines
  held,      \* chunks a pump has read and not yet written
  captured,  \* the bytes.Buffer of each stream
  failed,    \* the pump's writer returned an error
  pending,   \* the channel's buffers: received, not yet read
  window,    \* myWindow: how much the peer may still send
  consumed,  \* myConsumed: read, not yet given back to the window
  closed,    \* channel.close() ran: the buffers are at eof
  status,    \* the exit status received, if any
  lost,      \* the connection broke
  proc,      \* the remote command
  todo,      \* what the command still has to write
  pipe       \* what it wrote and sshd has not sent

vars == <<out, exit, pc, res, pump, held, captured, failed, pending, window,
          consumed, closed, status, lost, proc, todo, pipe>>

command == <<out, exit>>
remote  == <<proc, todo, pipe>>
channel == <<pending, window, consumed>>
pumps   == <<pump, held, captured, failed>>

Streams == {"stdout", "stderr"}
Exits   == {"zero", "nonzero"}
Output  == [Streams -> 0..MaxOut]
Nothing == [s \in Streams |-> 0]

Init ==
  /\ out \in Output
  /\ exit \in Exits
  /\ pc = "start"
  /\ res = "none"
  /\ pump = [s \in Streams |-> "idle"]
  /\ held = Nothing
  /\ captured = Nothing
  /\ failed = [s \in Streams |-> FALSE]
  /\ pending = Nothing
  /\ window = Window
  /\ consumed = 0
  /\ closed = FALSE
  /\ status = "none"
  /\ lost = FALSE
  /\ proc = "absent"
  /\ todo = out
  /\ pipe = Nothing

--------------------------------------------------------------------------------
(***************************************************************************)
(* main                                                                    *)
(***************************************************************************)
Return(r) ==
  /\ pc' = "returned"
  /\ res' = r

\* The goroutines that run once both pipes are open.
StderrUnread ==  \* mutant: the second goroutine is not started
  [s \in Streams |-> IF s = "stdout" THEN "reading" ELSE "done"]
PumpsStarted == [s \in Streams |-> "reading"]

\* NewSession, StdoutPipe and StderrPipe succeed and both goroutines start.
\* The pipe calls only fail on a session that was started or configured
\* before, which this one was not.
OpenSession ==
  /\ pc = "start"
  /\ ~closed
  /\ pc' = "opened"
  /\ pump' = PumpsStarted
  /\ UNCHANGED <<command, res, held, captured, failed, channel, closed, status,
                 lost, remote>>

\* if err != nil { return CommandRes{}, err } after NewSession
OpenFails ==
  /\ pc = "start"
  /\ Return("error")
  /\ UNCHANGED <<command, pumps, channel, closed, status, lost, remote>>

\* sess.Run: the exec request is accepted and the command starts.
StartCommand ==
  /\ pc = "opened"
  /\ ~closed
  /\ pc' = "running"
  /\ proc' = "running"
  /\ UNCHANGED <<command, res, pumps, channel, closed, status, lost, todo, pipe>>

\* sess.Run: the exec request is rejected, or the connection is gone.
StartFails ==
  /\ pc = "opened"
  /\ Return("error")
  /\ UNCHANGED <<command, pumps, channel, closed, status, lost, remote>>

\* The exit status for which Session.wait returns nil.
AnyStatus    == status \in Exits  \* mutant: *ssh.ExitError is not an error
RunSucceeded == status = "zero"

\* sess.Run returns once the channel's requests have ended. The session's own
\* copy of the (empty) stdin may fail on a connection that broke, which makes
\* an error of an exit status that was zero.
WaitReturns ==
  /\ pc = "running"
  /\ closed
  /\ \/ /\ RunSucceeded
        /\ pc' = "joining"
        /\ UNCHANGED res
     \/ /\ ~RunSucceeded \/ lost
        /\ Return("error")
  /\ UNCHANGED <<command, pumps, channel, closed, status, lost, remote>>

\* wg.Wait
OnePumpDone == \E s \in Streams : pump[s] = "done"  \* mutant: one wg.Add
NoneWaited  == TRUE  \* mutant: no wg.Wait
PumpsDone   == \A s \in Streams : pump[s] = "done"

\* wg.Wait, then return CommandRes{StdErr: ..., StdOut: ...}, nil
Join ==
  /\ pc = "joining"
  /\ PumpsDone
  /\ Return("ok")
  /\ UNCHANGED <<command, pumps, channel, closed, status, lost, remote>>

--------------------------------------------------------------------------------
(***************************************************************************)
(* The pumps: io.Copy(writer, pipe); wg.Done()                             *)
(***************************************************************************)

\* The test in adjustWindow under which what was consumed is given back.
GivesBackAtZero == window = 0  \* mutant: too late

GivesBack ==
  \/ Window - window > AdjustSlack
  \/ 2 * window < Window

\* adjustWindow(n), after n chunks were read.
ForgetsConsumed(n) ==  \* mutant: gives back the last read only
  IF GivesBack
  THEN window' = window + n /\ consumed' = 0
  ELSE consumed' = consumed + n /\ UNCHANGED window

AdjustWindow(n) ==
  IF GivesBack
  THEN window' = window + consumed + n /\ consumed' = 0
  ELSE consumed' = consumed + n /\ UNCHANGED window

\* Read n chunks out of the channel's buffer, and account for them.
PumpRead(s) ==
  /\ pump[s] = "reading"
  /\ \E n \in 1..pending[s] :
       /\ pending' = [pending EXCEPT ![s] = @ - n]
       /\ held' = [held EXCEPT ![s] = n]
       /\ AdjustWindow(n)
  /\ pump' = [pump EXCEPT ![s] = "writing"]
  /\ UNCHANGED <<command, pc, res, captured, failed, closed, status, lost, remote>>

\* Write them to the terminal, when streaming, and to the buffer. On a connection
\* that broke, the read came with the error of its window adjustment, with which
\* io.Copy ends once the chunks are written.
PumpWrite(s) ==
  /\ pump[s] = "writing"
  /\ pump' \in {[pump EXCEPT ![s] = "reading"]} \union
               (IF lost THEN {[pump EXCEPT ![s] = "done"]} ELSE {})
  /\ captured' = [captured EXCEPT ![s] = @ + held[s]]
  /\ held' = [held EXCEPT ![s] = 0]
  /\ UNCHANGED <<command, pc, res, failed, channel, closed, status, lost, remote>>

\* The terminal comes first in the MultiWriter: when it returns an error the
\* buffer does not get the chunks, io.Copy ends and its error is dropped.
PumpSinkFails(s) ==
  /\ Streamed
  /\ pump[s] = "writing"
  /\ held' = [held EXCEPT ![s] = 0]
  /\ failed' = [failed EXCEPT ![s] = TRUE]
  /\ pump' = [pump EXCEPT ![s] = "done"]
  /\ UNCHANGED <<command, pc, res, captured, channel, closed, status, lost, remote>>

\* sshd has sent the end of both streams, or the channel is closed.
Ended == closed \/ (proc = "exited" /\ pipe = Nothing)

\* The buffer is at its end and drained: Read returns io.EOF.
AtEOF(s) == Ended /\ pending[s] = 0

PumpEOF(s) ==
  /\ pump[s] = "reading"
  /\ AtEOF(s)
  /\ pump' = [pump EXCEPT ![s] = "done"]
  /\ UNCHANGED <<command, pc, res, held, captured, failed, channel, closed,
                 status, lost, remote>>

--------------------------------------------------------------------------------
(***************************************************************************)
(* The remote host                                                         *)
(***************************************************************************)
ProcWrite(s) ==
  /\ proc = "running" /\ ~closed
  /\ todo[s] > 0
  /\ pipe[s] < PipeCap
  /\ todo' = [todo EXCEPT ![s] = @ - 1]
  /\ pipe' = [pipe EXCEPT ![s] = @ + 1]
  /\ UNCHANGED <<command, pc, res, pumps, channel, closed, status, lost, proc>>

\* The command exits; sshd reports the status at once, ahead of what is still
\* in the pipes.
ProcExit ==
  /\ proc = "running" /\ ~closed
  /\ todo = Nothing
  /\ proc' = "exited"
  /\ status' = exit
  /\ UNCHANGED <<command, pc, res, pumps, channel, closed, lost, todo, pipe>>

\* sshd may send while the window is open; handleData drops the connection on
\* a peer that does not keep to it.
WindowIgnored(s) == ~closed /\ pipe[s] > 0  \* mutant: length is not checked
CanSend(s)       == ~closed /\ pipe[s] > 0 /\ window > 0

\* sshd sends a chunk, as far as the window allows, and the mux stores it.
Receive(s) ==
  /\ CanSend(s)
  /\ pipe' = [pipe EXCEPT ![s] = @ - 1]
  /\ pending' = [pending EXCEPT ![s] = @ + 1]
  /\ window' = window - 1
  /\ UNCHANGED <<command, pc, res, pumps, consumed, closed, status, lost, proc,
                 todo>>

\* sshd closes the channel after the last output, or answers the close that
\* the deferred sess.Close sent.
ReceiveClose ==
  /\ ~closed
  /\ \/ proc = "exited" /\ pipe = Nothing
     \/ pc = "returned" /\ pump # [s \in Streams |-> "idle"]
  /\ closed' = TRUE
  /\ UNCHANGED <<command, pc, res, pumps, channel, status, lost, remote>>

\* The connection breaks: the mux closes every channel it has.
ConnectionLost ==
  /\ ~closed
  /\ closed' = TRUE
  /\ lost' = TRUE
  /\ UNCHANGED <<command, pc, res, pumps, channel, status, remote>>

--------------------------------------------------------------------------------
Main == OpenSession \/ OpenFails \/ StartCommand \/ StartFails \/ WaitReturns \/ Join

Pump(s) == PumpRead(s) \/ PumpWrite(s) \/ PumpSinkFails(s) \/ PumpEOF(s)

Remote == ProcExit \/ ReceiveClose \/ \E s \in Streams : ProcWrite(s) \/ Receive(s)

Next ==
  \/ Main
  \/ \E s \in Streams : Pump(s)
  \/ Remote
  \/ ConnectionLost

Spec == Init /\ [][Next]_vars

\* Every goroutine and the remote host keep running, and the command ends by
\* itself; there is no timeout in the code that would end it. Faults have no
\* fairness.
Fairness ==
  /\ WF_vars(Main)
  /\ \A s \in Streams : WF_vars(Pump(s))
  /\ WF_vars(Remote)

FairSpec == Spec /\ Fairness

--------------------------------------------------------------------------------
(***************************************************************************)
(* Properties                                                              *)
(***************************************************************************)

\* Every variable keeps its type.
TypeOK ==
  /\ out \in Output
  /\ exit \in Exits
  /\ pc \in {"start", "opened", "running", "joining", "returned"}
  /\ res \in {"none", "error", "ok"}
  /\ pump \in [Streams -> {"idle", "reading", "writing", "done"}]
  /\ held \in [Streams -> Nat]
  /\ captured \in [Streams -> Nat]
  /\ failed \in [Streams -> BOOLEAN]
  /\ pending \in [Streams -> Nat]
  /\ window \in Nat
  /\ consumed \in Nat
  /\ closed \in BOOLEAN
  /\ status \in {"none"} \union Exits
  /\ lost \in BOOLEAN
  /\ proc \in {"absent", "running", "exited"}
  /\ todo \in [Streams -> Nat]
  /\ pipe \in [Streams -> Nat]

Unread == pending["stdout"] + pending["stderr"]

\* The window is neither leaked nor inflated: what the peer may send, what was
\* read but not given back and what waits to be read add up to the window the
\* channel was opened with, whichever pump moved last (adjustWindow, handleData).
WindowConserved == window + consumed + Unread = Window

\* Flow control never waits for itself: when less than half the window is left,
\* some chunk is still unread in this process, so a pump that keeps reading is
\* all it takes for the remote command to go on.
WindowRecoverable == 2 * window < Window => Unread > 0

\* A nil error over a connection that held, with writers that took the data,
\* comes with everything the command wrote to both streams, although the exit
\* status may arrive long before the last chunk does.
CompleteOnSuccess ==
  (res = "ok" /\ ~lost /\ \A s \in Streams : ~failed[s]) => captured = out

\* The buffers a caller got with a nil error do not change under it: no pump
\* is still writing when ExecuteStdio returns them.
NoLateOutput == [][res = "ok" => UNCHANGED captured]_vars

\* The call returns, unless a pump gave up on its writer: the remote command
\* then blocks on a window nobody empties, and there is no timeout.
Returns == <>(pc = "returned" \/ \E s \in Streams : failed[s])

\* ExecuteStdio over SSH keeps the promise of the interface with ErrorOnExit.
Promise == INSTANCE CommandOperator WITH
  ErrorOnExit <- TRUE,
  call        <- IF pc = "returned" THEN "returned" ELSE "active",
  broken      <- lost \/ \E s \in Streams : failed[s],
  got         <- IF res = "ok" THEN captured ELSE Nothing

KeepsPromise == Promise!Spec

--------------------------------------------------------------------------------
(***************************************************************************)
(* The inductive invariant behind CompleteOnSuccess and KeepsPromise       *)
(***************************************************************************)

\* Each chunk the command wrote is in exactly one place.
Accounted ==
  \A s \in Streams :
    LET seen == todo[s] + pipe[s] + pending[s] + held[s] + captured[s]
    IN  IF failed[s] THEN seen <= out[s] ELSE seen = out[s]

\* A pump holds data only between its read and its write, and one that ended
\* over a connection that held has drained its stream.
PumpsDrain ==
  \A s \in Streams :
    /\ pump[s] # "writing" => held[s] = 0
    /\ pump[s] = "done" => failed[s] \/ lost \/ (Ended /\ pending[s] = 0)

\* The exit status is the command's, and is sent when nothing is left to write.
StatusGenuine ==
  /\ status # "none" => status = exit /\ proc = "exited"
  /\ proc = "exited" => todo = Nothing

\* The channel of a call that did not fail is closed behind the last output,
\* or by the loss of the connection.
ClosedBehindOutput ==
  (closed /\ ~lost /\ res # "error") => proc = "exited" /\ pipe = Nothing

\* How far the main goroutine got, and what had to happen first.
MainProgress ==
  /\ pc = "start" => \A s \in Streams : pump[s] = "idle"
  /\ pc \in {"start", "opened"} => proc = "absent"
  /\ res = "none" <=> pc # "returned"
  /\ pc = "joining" => closed /\ status = "zero"
  /\ res = "ok" =>
       /\ closed /\ status = "zero"
       /\ \A s \in Streams : pump[s] = "done"

IInv ==
  /\ TypeOK
  /\ Accounted
  /\ PumpsDrain
  /\ StatusGenuine
  /\ ClosedBehindOutput
  /\ MainProgress

--------------------------------------------------------------------------------
(***************************************************************************)
(* What is safety in Returns: somebody can always take the next step, and  *)
(* there are only so many steps to take.                                   *)
(***************************************************************************)

\* The guards of Main, Pump and Remote.
CanGoOn ==
  \/ pc \in {"start", "opened"}
  \/ pc = "running" /\ closed
  \/ pc = "joining" /\ PumpsDone
  \/ \E s \in Streams :
       \/ pump[s] = "writing"
       \/ pump[s] = "reading" /\ (pending[s] > 0 \/ AtEOF(s))
       \/ proc = "running" /\ ~closed /\ todo[s] > 0 /\ pipe[s] < PipeCap
       \/ CanSend(s)
  \/ proc = "running" /\ ~closed /\ todo = Nothing
  \/ proc = "exited" /\ ~closed /\ pipe = Nothing

\* The command's pipes, the window, the buffers and wg.Wait never all wait for
\* each other.
NeverStuck == pc = "returned" \/ (\E s \in Streams : failed[s]) \/ CanGoOn

\* The most steps that can still be taken: what each chunk, each pump and the main
\* goroutine have before them.
PumpLeft == [idle |-> 0, reading |-> 1, writing |-> 2, done |-> 0]
MainLeft == [start |-> 7, opened |-> 4, running |-> 2, joining |-> 1, returned |-> 0]

StepsFor(s) ==
  6 * todo[s] + 5 * pipe[s] + 4 * pending[s] + 2 * held[s] + PumpLeft[pump[s]]

StepsLeft ==
  StepsFor("stdout") + StepsFor("stderr") + MainLeft[pc]
  + (IF proc = "running" THEN 1 ELSE 0) + (IF closed THEN 0 ELSE 1)

\* The steps of a call are bounded by the output of its command.
StepsBounded == StepsLeft \in 0..(8 + 12 * MaxOut)

\* Nobody polls, and no two actors keep each other busy.
NoStepInVain == [][StepsLeft' < StepsLeft]_vars

\* What NeverStuck rests on beside IInv and the window.
ProgressInv ==
  /\ \A s \in Streams : pipe[s] <= PipeCap
  /\ lost => closed
  /\ pc \in {"running", "joining"} => proc # "absent"
  /\ pc \in {"opened", "running", "joining"} => \A s \in Streams : pump[s] # "idle"

================================================================================
