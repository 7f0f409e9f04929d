------------------------------ MODULE ExecSession ------------------------------
(***************************************************************************)
(* ExecOperator.ExecuteStdio (pkg/operator/exec_operator.go): one command  *)
(* run on this machine by bash, through ExecTask.Execute of go-execute.    *)
(*                                                                         *)
(* Concurrent actors:                                                      *)
(*   main      cmd.Start, cmd.Wait and the return                          *)
(*   pumps     the goroutines os/exec starts, one per stream, each copying *)
(*             a pipe into a MultiWriter: the buffer, then the terminal    *)
(*   command   the command, and a child it may leave in the background,    *)
(*             which inherits both pipes (external)                        *)
(*                                                                         *)
(* Data is counted in chunks; a read and the writes that follow it are one *)
(* step, since nobody else sees the pump between them.                     *)
(***************************************************************************)
EXTENDS Integers

CONSTANTS
  PipeCap,   \* capacity of a pipe
  MaxOut,    \* the most chunks the command writes to one stream
  Streamed   \* the stream argument: output is also copied to the terminal

ASSUME PipeAssumption == PipeCap \in Nat \ {0}
ASSUME MaxOutAssumption == MaxOut \in Nat
ASSUME StreamedAssumption == Streamed \in BOOLEAN

VARIABLES
  out,       \* what the command and its child have to write, per stream
  exit,      \* the exit status the command ends with unless it is killed
  pc,        \* the main goroutine
  res,       \* the error part of what ExecuteStdio returned
  code,      \* CommandRes.ExitCode
  got,       \* CommandRes.StdOut and CommandRes.StdErr
  pump,      \* the two goroutines
  captured,  \* stdoutBuff and stderrBuff
  failed,    \* a write to the terminal failed
  holders,   \* the processes that have the pipes open for writing
  status,    \* what the command exited with
  todo,      \* what is still to be written
  pipe       \* what was written and no pump has read

vars == <<out, exit, pc, res, code, got, pump, captured, failed, holders, status, todo, pipe>>

main    == <<pc, res, code, got>>
pumps   == <<pump, captured, failed>>
command == <<holders, status, todo>>

Streams == {"stdout", "stderr"}
Exits   == {"zero", "nonzero"}
Output  == [Streams -> 0..MaxOut]
Nothing == [s \in Streams |-> 0]

Init ==
  /\ out \in Output
  /\ exit \in Exits
  /\ pc = "start"
  /\ res = "none"
  /\ code = "none"
  /\ got = Nothing
  /\ pump = [s \in Streams |-> "idle"]
  /\ captured = Nothing
  /\ failed = [s \in Streams |-> FALSE]
  /\ holders = {}
  /\ status = "none"
  /\ todo = out
  /\ pipe = Nothing

--------------------------------------------------------------------------------
(***************************************************************************)
(* main                                                                    *)
(***************************************************************************)
\* cmd.Start fails: no bash, no more processes.
StartFails ==
  /\ pc = "start"
  /\ pc' = "returned"
  /\ res' = "error"
  /\ UNCHANGED <<out, exit, code, got, pumps, command, pipe>>

Start ==
  /\ pc = "start"
  /\ pc' = "waiting"
  /\ pump' = [s \in Streams |-> "reading"]
  /\ holders' \in {{"command"}, {"command", "child"}}
  /\ UNCHANGED <<out, exit, res, code, got, captured, failed, status, todo, pipe>>

\* cmd.Wait without a wait for the goroutines.
ExitSeen ==  \* mutant
  "command" \notin holders

\* cmd.Wait returns when the command has exited and both goroutines have ended.
Waited ==
  /\ "command" \notin holders
  /\ \A s \in Streams : pump[s] = "ended"

ReturnZero ==  \* mutant: the ExitError of Wait is not looked for
  /\ pc = "waiting"
  /\ Waited
  /\ pc' = "returned"
  /\ res' = "ok"
  /\ code' = "zero"
  /\ got' = captured
  /\ UNCHANGED <<out, exit, pumps, command, pipe>>

\* An ExitError becomes the exit code. Any other error of Wait, such as that of a
\* goroutine, leaves it at zero, and the context is never cancelled: a nil error.
Return ==
  /\ pc = "waiting"
  /\ Waited
  /\ pc' = "returned"
  /\ res' = "ok"
  /\ code' = status
  /\ got' = captured
  /\ UNCHANGED <<out, exit, pumps, command, pipe>>

--------------------------------------------------------------------------------
(***************************************************************************)
(* pumps: io.Copy(MultiWriter, pipe), then the pipe is closed              *)
(***************************************************************************)
\* mutant: DisableStdioBuffer
Uncaptured(s) == captured

Captured(s) == [captured EXCEPT ![s] = @ + 1]

Copy(s) ==
  /\ pump[s] = "reading"
  /\ pipe[s] > 0
  /\ pipe' = [pipe EXCEPT ![s] = @ - 1]
  /\ captured' = Captured(s)
  /\ UNCHANGED <<out, exit, main, pump, failed, command>>

\* mutant: the goroutine stops reading and leaves the pipe open
CopyStalls(s) ==
  /\ Streamed
  /\ pump[s] = "reading"
  /\ pipe[s] > 0
  /\ pipe' = [pipe EXCEPT ![s] = @ - 1]
  /\ captured' = Captured(s)
  /\ pump' = [pump EXCEPT ![s] = "stalled"]
  /\ failed' = [failed EXCEPT ![s] = TRUE]
  /\ UNCHANGED <<out, exit, main, command>>

\* The buffer, which is first, has the chunk; what is left in the pipe is lost.
CopyFails(s) ==
  /\ Streamed
  /\ pump[s] = "reading"
  /\ pipe[s] > 0
  /\ pipe' = [pipe EXCEPT ![s] = 0]
  /\ captured' = Captured(s)
  /\ pump' = [pump EXCEPT ![s] = "ended"]
  /\ failed' = [failed EXCEPT ![s] = TRUE]
  /\ UNCHANGED <<out, exit, main, command>>

\* EOF: nobody has the pipe open and it is empty.
PumpEnds(s) ==
  /\ pump[s] = "reading"
  /\ holders = {}
  /\ pipe[s] = 0
  /\ pump' = [pump EXCEPT ![s] = "ended"]
  /\ UNCHANGED <<out, exit, main, captured, failed, command, pipe>>

--------------------------------------------------------------------------------
(***************************************************************************)
(* The command and its child                                               *)
(***************************************************************************)
Write(s) ==
  /\ holders # {}
  /\ todo[s] > 0
  /\ pump[s] # "ended"
  /\ pipe[s] < PipeCap
  /\ todo' = [todo EXCEPT ![s] = @ - 1]
  /\ pipe' = [pipe EXCEPT ![s] = @ + 1]
  /\ UNCHANGED <<out, exit, main, pumps, holders, status>>

Leave(w, how) ==
  /\ w \in holders
  /\ holders' = holders \ {w}
  /\ status' = IF w = "command" THEN how ELSE status

\* SIGPIPE: the pipe has no reader any more.
WriterKilled(s) ==
  /\ pump[s] = "ended"
  /\ todo[s] > 0
  /\ \E w \in holders : Leave(w, "signal")
  /\ UNCHANGED <<out, exit, main, pumps, todo, pipe>>

\* The writer ignores the signal, and goes on without what it could not write.
WriteRefused(s) ==
  /\ holders # {}
  /\ pump[s] = "ended"
  /\ todo[s] > 0
  /\ todo' = [todo EXCEPT ![s] = 0]
  /\ UNCHANGED <<out, exit, main, pumps, holders, status, pipe>>

\* One of the two exits, and leaves what is still to be written to the other.
Exit(w) ==
  /\ Leave(w, exit)
  /\ todo = Nothing \/ holders # {w}
  /\ UNCHANGED <<out, exit, main, pumps, todo, pipe>>

--------------------------------------------------------------------------------
Main == StartFails \/ Start \/ Return

Pump(s) == Copy(s) \/ CopyFails(s) \/ PumpEnds(s)

Writer(s) == Write(s) \/ WriterKilled(s) \/ WriteRefused(s)

Next ==
  \/ Main
  \/ \E s \in Streams : Pump(s) \/ Writer(s)
  \/ \E w \in {"command", "child"} : Exit(w)

\* The goroutines are scheduled and the command runs to its end; nothing makes a
\* child in the background exit.
Fairness ==
  /\ WF_vars(Main)
  /\ \A s \in Streams : WF_vars(Pump(s)) /\ WF_vars(Writer(s))
  /\ WF_vars(Exit("command"))

Spec == Init /\ [][Next]_vars /\ Fairness

--------------------------------------------------------------------------------
TypeOK ==
  /\ out \in Output
  /\ exit \in Exits
  /\ pc \in {"start", "waiting", "returned"}
  /\ res \in {"none", "ok", "error"}
  /\ code \in {"none", "zero", "nonzero", "signal"}
  /\ got \in Output
  /\ pump \in [Streams -> {"idle", "reading", "ended"}]
  /\ captured \in Output
  /\ failed \in [Streams -> BOOLEAN]
  /\ holders \in SUBSET {"command", "child"}
  /\ status \in {"none", "zero", "nonzero", "signal"}
  /\ todo \in Output
  /\ pipe \in [Streams -> 0..PipeCap]

(***************************************************************************)
(* A terminal that fails costs its own stream, not the other: what is      *)
(* missing from a stream whose terminal did not fail was never written,    *)
(* because the failure of the other one's killed the writer.               *)
(* (go-execute exec.go 148-185)                                            *)
(***************************************************************************)
CutExplained ==
  res = "ok" =>
    \A s \in Streams :
      got[s] < out[s] =>
        \/ failed[s]
        \/ todo[s] > 0 /\ \E t \in Streams \ {s} : failed[t]

(***************************************************************************)
(* The exit code a caller sees is that of the command: it is zero only if  *)
(* the command exited with zero, whatever became of the output, and it is  *)
(* -1 only if the terminal failed. (exec.go 179-185)                       *)
(***************************************************************************)
CodeIsGenuine ==
  /\ code = "zero" => exit = "zero"
  /\ code = "signal" => \E s \in Streams : failed[s]

(***************************************************************************)
(* The call returns, also when the command fills both pipes or loses a     *)
(* terminal, unless a child in the background keeps the pipes open for     *)
(* ever: there is no WaitDelay. (exec.go 174-192)                          *)
(***************************************************************************)
Returns == <>(pc = "returned") \/ <>[]("child" \in holders)

(***************************************************************************)
(* The inductive invariant: chunk by chunk, what a stream whose terminal   *)
(* has not failed was to carry is captured, in the pipe, or unwritten; and *)
(* pipes that nobody holds open are empty, or a terminal has failed.       *)
(* (exec.go 148-180)                                                       *)
(***************************************************************************)
MainProgress ==
  /\ pc = "start" => holders = {} /\ \A s \in Streams : pump[s] = "idle"
  /\ pc = "waiting" => \A s \in Streams : pump[s] # "idle"
  /\ pc # "returned" => res = "none" /\ code = "none" /\ got = Nothing
  /\ res # "ok" => code = "none" /\ got = Nothing
  /\ res = "ok" => got = captured /\ Waited

Accounted ==
  \A s \in Streams :
    /\ todo[s] + pipe[s] + captured[s] <= out[s]
    /\ ~failed[s] => todo[s] + pipe[s] + captured[s] = out[s]

PumpState ==
  \A s \in Streams :
    /\ failed[s] => pump[s] = "ended"
    /\ pump[s] = "ended" /\ ~failed[s] => holders = {} /\ pipe[s] = 0

StatusGenuine ==
  /\ status \in {"none", exit, "signal"}
  /\ code \in {"none", status}
  /\ status = "signal" => \E s \in Streams : failed[s]

Drained ==
  (pc = "waiting" \/ res = "ok") /\ holders = {} /\ (\E s \in Streams : todo[s] # 0)
    => \E s \in Streams : failed[s]

IInv == TypeOK /\ MainProgress /\ Accounted /\ PumpState /\ StatusGenuine /\ Drained

--------------------------------------------------------------------------------
(***************************************************************************)
(* What the callers in cmd/ rely on: see CommandOperator. A non-zero exit  *)
(* status is not an error of this implementation.                          *)
(***************************************************************************)
Promise == INSTANCE CommandOperator WITH
  ErrorOnExit <- FALSE,
  call        <- IF pc = "returned" THEN "returned" ELSE "active",
  broken      <- \E s \in Streams : failed[s]

KeepsPromise == Promise!Spec

--------------------------------------------------------------------------------
(***************************************************************************)
(* What is safety in Returns: there are only so many steps to take, and    *)
(* the call waits for nothing but a child in the background that has no    *)
(* more to say and does not exit. (exec.go 174-192)                        *)
(***************************************************************************)

\* The guards of Main, Pump, Writer and Exit("command").
CanGoOn ==
  \/ pc = "start"
  \/ pc = "waiting" /\ Waited
  \/ \E s \in Streams :
       \/ pump[s] = "reading" /\ (pipe[s] > 0 \/ holders = {})
       \/ holders # {} /\ todo[s] > 0 /\ (pump[s] = "ended" \/ pipe[s] < PipeCap)
  \/ "command" \in holders /\ (todo = Nothing \/ holders # {"command"})

\* Nothing is left in a pipe whose reader has gone.
EndedEmpty == \A s \in Streams : pump[s] = "ended" => pipe[s] = 0

WaitsForChild == holders = {"child"} /\ todo = Nothing /\ pipe = Nothing

\* Otherwise the pipes, the goroutines and cmd.Wait never all wait for each other.
NeverStuck == pc = "returned" \/ WaitsForChild \/ CanGoOn

\* The most steps that can still be taken.
PumpLeft == [idle |-> 0, reading |-> 1, ended |-> 0]
MainLeft == [start |-> 6, waiting |-> 1, returned |-> 0]

StepsFor(s) == 3 * todo[s] + 2 * pipe[s] + PumpLeft[pump[s]]

StepsLeft ==
  StepsFor("stdout") + StepsFor("stderr") + MainLeft[pc]
  + (IF "command" \in holders THEN 1 ELSE 0) + (IF "child" \in holders THEN 1 ELSE 0)

\* The steps of a call are bounded by the output of its command.
StepsBounded == StepsLeft \in 0..(6 + 6 * MaxOut)

\* Nobody polls, and no two actors keep each other busy.
NoStepInVain == [][StepsLeft' < StepsLeft]_vars

================================================================================
