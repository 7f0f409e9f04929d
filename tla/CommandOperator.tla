---------------------------- MODULE CommandOperator ----------------------------
(***************************************************************************)
(* What a caller in cmd/ may rely on when it calls Execute or ExecuteStdio *)
(* of the interface CommandOperator (pkg/operator/operator.go): one call   *)
(* runs one command and either fails, with an empty CommandRes, or returns *)
(* the command's output.                                                   *)
(*                                                                         *)
(* The two implementations promise different things about the command's    *)
(* exit status, hence the constant ErrorOnExit:                            *)
(*   - SSHOperator turns a non-zero exit status into an error;             *)
(*   - ExecOperator reports it in CommandRes.ExitCode, with a nil error.   *)
(*                                                                         *)
(* An output is a number of chunks per stream: one stream is a FIFO, so    *)
(* the chunks a caller holds are the first ones the command wrote.         *)
(***************************************************************************)
EXTENDS Integers

CONSTANTS
  MaxOut,       \* the most chunks a command writes to one stream
  ErrorOnExit   \* TRUE when a non-zero exit status is an error

VARIABLES
  out,      \* what the command writes, per stream
  exit,     \* the command's exit status
  call,     \* "active" until the call returns
  broken,   \* the transport or a local sink failed
  res,      \* the error part of the return value
  got       \* CommandRes.StdOut and CommandRes.StdErr

vars == <<out, exit, call, broken, res, got>>

Streams == {"stdout", "stderr"}
Output  == [Streams -> 0..MaxOut]
Exits   == {"zero", "nonzero"}
Nothing == [s \in Streams |-> 0]

Init ==
  /\ out \in Output
  /\ exit \in Exits
  /\ call = "active"
  /\ broken = FALSE
  /\ res = "none"
  /\ got = Nothing

\* The connection is lost, or a write to the terminal fails.
Break ==
  /\ broken' = TRUE
  /\ UNCHANGED <<out, exit, call, res, got>>

\* return CommandRes{}, err
ReturnError ==
  /\ call = "active"
  /\ call' = "returned"
  /\ res' = "error"
  /\ UNCHANGED <<out, exit, broken, got>>

\* return CommandRes{...}, nil
ReturnOk ==
  /\ call = "active"
  /\ ErrorOnExit => exit = "zero"
  /\ call' = "returned"
  /\ res' = "ok"
  /\ got' \in {g \in Output : \A s \in Streams : g[s] <= out[s]}
  /\ ~broken => got' = out
  /\ UNCHANGED <<out, exit, broken>>

Next == Break \/ ReturnError \/ ReturnOk

Spec == Init /\ [][Next]_vars

TypeOK ==
  /\ out \in Output
  /\ exit \in Exits
  /\ call \in {"active", "returned"}
  /\ broken \in BOOLEAN
  /\ res \in {"none", "error", "ok"}
  /\ got \in Output

\* A call that succeeded over a transport that did not break returns all the
\* command wrote, and only a command that exited zero when ErrorOnExit.
Faithful ==
  res = "ok" =>
    /\ ~broken => got = out
    /\ ErrorOnExit => exit = "zero"

================================================================================
