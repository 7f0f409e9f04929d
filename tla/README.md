# k3sup: specifications, model checking and proofs

k3sup is a command-line program that installs k3s on hosts it reaches over SSH,
joins further hosts to a cluster, and saves the cluster's kubeconfig locally. It
keeps no daemon and no database; what can go wrong lies between its goroutines
and the remote host, between several k3sup processes and the files they share,
and in errors that some layer swallows. The modules here are written from the
sources in `cmd/` and `pkg/operator/`, and from the vendored libraries where
they decide the behaviour (x/crypto/ssh, go-execute).

## 1. Inventory

| Part | Sources | State | Operations | What is hard | What makes it correct |
|---|---|---|---|---|---|
| Command operators | `pkg/operator/*.go` | an SSH connection; per call a session, two buffers, a WaitGroup | `Execute`, `ExecuteStdio`, `Close` | two goroutines and one flow-control window; the exit status overtakes output; losses; no timeouts | a nil error comes with all of the output; the call returns |
| SSH connection and authentication | `connectOperator`, `sshAgent`, `sshAgentOnly`, `loadPublickey` in `cmd/install.go`; the same again in `cmd/join.go` | agent socket, connection, close functions | try the agent, then the key file | which path closes what; an agent that must live through the handshake; join's second close | nothing used after its close, what stays open is known |
| Kubeconfig retrieval | `cmd/install.go`, `cmd/get-config.go` | the local file, a temporary file | `obtainKubeconfig`, `rewriteKubeconfig`, `mergeConfigs`, `writeConfig` | truncate-then-write, crashes, concurrent merges, ignored exit codes | success means the context is there; others' contexts survive |
| Join and node-token | `cmd/join.go`, `cmd/node-token.go` | the token, the hosts' k3s | fetch the token, run the installer | an empty or polluted token; a failed download that looks like success | a host joins with the cluster's token |
| plan | `cmd/plan.go` | loop state, the generated script | one loop iteration per host | counters, the limit, what runs in the background, failures ignored by the script | roles as asked, each host once |
| ready | `cmd/ready.go` | attempt counters | two polling loops | attempts run out; a stale first answer; a cluster that changes between attempts | a nil with attempts left means ready; a cluster ready in time is confirmed |
| get pro | `cmd/get_pro.go` | downloaded image, temporary directories, target binary | download, verify, copy, check | a copy that is cut short over a working binary; two processes, one target; the order of deferred calls | what the target holds has an explanation; nothing temporary stays |
| Installer arguments | `makeInstallExec`, `makeJoinExec`, `createVersionStr` | none | the checks of the flags, pure functions | combinations of flags; quoting; a role decided in three places | the node that is started is the one asked for |
| get.sh | `get.sh` | files | download, move, `get pro` | no `set -e`: the script goes on after a failure | the installed k3sup survives and what is said is so, each with the exceptions of section 6.2 |
| Others | `version.go`, `update.go`, `main.go` | none | printing, wiring | - | - |

Interaction: every command in `cmd/` obtains a `CommandOperator` (SSH or local)
and calls `Execute` (install scripts, output streamed to the terminal) or
`ExecuteStdio(..., false)` (files read with `cat`). `install` and `get-config`
end in `obtainKubeconfig`; `join` and `node-token` read the server's token;
`plan` prints a shell script that runs `install`, `node-token` and `join` one
after the other or in the background.

`PROJECT.json` lists each part with what is modelled of it, and the hazards at
their lines with the properties that cover them, or with a note why none does: a
property that has to except the very behaviour a hazard is about does not cover it.

## 2. Modules

| Module | Role |
|---|---|
| `CommandOperator` | what one call of the interface promises; abstract |
| `SSHSession` | `SSHOperator.ExecuteStdio` in detail; implements `CommandOperator` |
| `ExecSession` | `ExecOperator.ExecuteStdio` in detail; implements `CommandOperator` without an error for exit codes |
| `KubeconfigStore` | what the flags promise of the local file; abstract |
| `Kubeconfig` | `install` and `get-config` up to the saved file; implements `KubeconfigStore` where nothing overlaps or breaks |
| `Plan` | the loop of `k3sup plan` and the script it prints |
| `ClusterFormation` | how the hosts of a plan may enter the cluster, whatever fails; abstract |
| `ClusterSetup` | extends `Plan`: a shell runs the printed script, with `install`, `node-token` and `join`; implements `ClusterFormation` |
| `Connection` | how a command gets its SSH connections, with which keys, and what closes them |
| `Ready` | both polling loops of `ready`, against a cluster that changes |
| `ProInstall` | processes that run `get pro` into one directory |
| `InstallerArgs` | from the flags of `install` and `join` to the node that is started |
| `GetScript` | `get.sh` |
| `MCKubeconfig`, `MCPlan`, `MCClusterSetup`, `MCReady`, `MCProInstall`, `MCInstallerArgs` | instances for TLC |
| `SSHSessionProofs`, `ExecSessionProofs`, `KubeconfigProofs`, `ClusterSetupProofs` (of `Plan` too), `ConnectionProofs`, `ReadyProofs`, `ProInstallProofs`, `HostScriptProofs` (of `GetScript` and `InstallerArgs`) | theorems |

How they fit together: `Kubeconfig`, `ClusterSetup` and `Connection` take from
`CommandOperator` what a call may return, and `SSHSession` and `ExecSession`
show that the two implementations return nothing else. `ClusterSetup` extends
`Plan`, so that the script it runs is the one the loop has printed. `Connection`
models what happens before and after the calls that `ClusterSetup` treats as one
step of `join`; `InstallerArgs` is the line such a call carries; `GetScript` ends
in the `get pro` that `ProInstall` models.

### SSHSession

Actors: the main goroutine (`pc`: `start`, `opened` after the pipes are open and
the goroutines run, `running` inside `sess.Run`, `joining` in `wg.Wait`,
`returned`), one pump per stream (`reading`, `writing`, `done`), and the remote
side (the command with its two pipes, and sshd). `pending` is the pair of
buffers of the vendored `channel`, `window` its `myWindow`, `consumed` its
`myConsumed`; `AdjustWindow` is `adjustWindow` with its threshold `GivesBack`.
Output is counted in chunks: one stream is a FIFO, so the chunks captured so far
are the first ones. The exit status may arrive while output is still in the
pipes; the loss of the connection closes the channel at any moment. With
`Streamed`, a write to the terminal may fail, which ends that pump. The remote
command ends by itself once it has written its output.

### Kubeconfig

Each process has a `pc` (one value per call it is in), the kubeconfig it holds
(`data`), its temporary file and its result. The file is absent, blank, torn or
whole; a whole one maps contexts to hosts. `os.WriteFile` is two steps, `Open`
(which truncates) and `Write`; a `Write` over what another process has written
since may leave a mixture. `Fetch` uses what `CommandOperator` promises: over
SSH a status other than zero is an error but a connection lost behind the status
gives part of the file with a nil error; locally a failed `cat` is a nil error
with no output. `seen`, `writer` and `clash` record history for the properties.
`Crash` kills a process at any step. kubectl is external: it takes the first
entry of a name, ignores a file that does not exist and refuses one that does
not parse.

`KubeconfigStore` is the refinement target: the truncation (`Open`) maps to the
update, since from there on the entries the file is about to hold are those in
memory; every return with an error maps to giving up.

### Plan

One action per branch of the loop body (`SetUpPrimary`, `SetUpServer`,
`SetUpWorker`), each ending in `Advance`, the check of `--limit`. `script` is the
sequence of the commands that are printed, a record each. `--merge` is emitted
as its own line because that is what the text does: the newline in `mergeStr`
has no backslash before it. `PlanAsAsked` compares the result with the direct
definition `CoversFirst` of what a plan for those flags is.

### ClusterSetup

`jobs` is the sequence of processes the shell has started, job k running line k;
`ShellWaits` keeps the shell at a command without an ampersand, and nothing
keeps it after a failure. Each command is one step but for `join`, which may
fetch the token first (`fetch`, then `join`), so that joins in the background
interleave between the two. `k3s` is what each host runs, `up` whether the first
server serves; `ServerComesUp` is systemd starting a k3s that the installer gave
up on. Failures that a process notices make it return an error; those it does
not notice are kept in its `lapse`: a download that fails under `curl | sh`, and
output lost behind the exit status, which `CommandOperator` allows. `prompts`
says that the SSH key asks for a passphrase: the prompt then is part of
NODE_TOKEN, and a process in the background has no standard input to answer it
from. Hosts are fresh and named once.

### ExecSession

Main is in `cmd.Start` (`start`), `cmd.Wait` (`waiting`) or back (`returned`).
One pump per stream is the goroutine of os/exec that copies a pipe into a
`MultiWriter` of the buffer and the terminal; when the terminal fails, it ends
with its half of the pipe closed, and the next write of the command there is
SIGPIPE. `holders` are the processes that have the pipes open, the command and a
child it may leave in the background: a pump ends when there are none left. The
exit code comes from the `ExitError` only; another error of `Wait` is dropped,
as in the code, and with it the notice that the output is incomplete.

### Connection

One command, `install`/`get-config`/`node-token` (one connection, to the server)
or `join` (one to the host, and before it one to the server if it has no token).
`stage` is the connection that is being made or used, `auth` what the handshake
signs with, `sockets` the open connections to the agent, `deferred` what the
return closes. `connectOperator` and its copies in `setupAdditionalServer` and
`setupAgent` differ in when the deferred closes run: behind the handshake in the
first, at the end of the command in the others; `ConnectedToServer` and
`ConnectedToHost` are that difference. `sshAgent` has four returns with two kinds
of close function, `AgentHasKey`, `AgentUnusable` and `AgentLacksKey`. For an
agent that lacks the key, the function does nothing: the socket is in
`unmatched`, never in `deferred`, and `ConnectedToServer` closes what is deferred
only.
`PeerGoesSilent` lets any peer, the agent or the user at the prompt stop
answering, since nothing has a timeout.

### Ready

An attempt of one of the loops is one step and the pause between two attempts is
where the cluster moves: nodes register, fail, recover and go, the API server
comes and goes, the kubeconfig file is rewritten, the service account appears.
`kubectl` is external: it may be missing, and its words for a missing context may
be others than those the code looks for. `ranOut` records the loops that ended
without an answer, `changed` and `inTime` what the cluster did meanwhile, `calls`
how often kubectl was run. Every kubectl is taken to end; the code gives it no
timeout, and a kubectl that hangs keeps `ready` for ever.

### ProInstall

`pc` follows one process from `MkdirTemp` to the return; the copy over the
target is two steps, `OpenTarget` (which truncates) and `CopyEnds`. `defers`
gives each deferred call its place, from which `Return` knows whether a directory
is removed before a file in it is closed, which fails on Windows. `last` and
`crossed` record which copies overlapped: processes that write the same build
write the same bytes, so what is in the file after one of them ends depends on
who truncated it last (`Written`). A process may be killed at any step, any call
may fail, and the close of the target may lose data unseen.

### InstallerArgs

`Refuse` and `Build` are the checks and the line of shell; an option is a pair of
name and value, the layout of the line is left out, its quotes are not: `Quoted`
are the options whose quotes end the quoted word of `install` (a balanced pair
around a value without a space does not), `Unpaired` those that have a quote
without a second, which breaks the line of `join`, too. `Installed`
is what the script of get.k3s.io makes of the line (external): the role from the
first word or, if that is an option, from whether there is a K3S_URL.

### GetScript

One action per function of the script, in the order in which the script calls
them; a command whose status nobody looks at has its failure as a second action
that goes on at the same place; the move and the message behind it are two steps.
`files` are the k3sup in BINLOCATION and the one downloaded beside it. A host says
where the download goes (`/tmp` for root, another directory, or BINLOCATION
itself, where `Target` is the installed file), what is writable, whether the
directories are on one file system, and how the script was started:
plain, as the README has it (`PRO=1 curl ... | sudo -E sh`), or with `PRO`
exported. `Stopped` ends the script anywhere.

Definitions marked `mutant` in the modules are variants with a plausible bug.
They are used by no specification: each shows, put in place of the definition
next to it, that a property of the runs notices such a bug.

## 3. Runs

| Run | Shows | Instance and bounds |
|---|---|---|
| `ssh_session` | completeness, no late output, window conservation, termination, refinement of `CommandOperator` | window of 4 chunks, threshold scaled from 3:64, 1-chunk pipes, up to 4 chunks per stream: either stream alone can use up the window, both together twice over |
| `exec_session` | exit code and output are the command's, termination, refinement of `CommandOperator` | 1-chunk pipes and up to 2 chunks per stream, so that the command blocks on a full pipe; a terminal that fails, a child in the background |
| `kubeconfig` | meaning of success, causes of damage, merge losses, temporary file | 2 processes with any flags, 2 contexts, 2 hosts, any initial file, faults on, a system that does not remove open files; the properties relate a process to at most one other |
| `kubeconfig_serial` | atomic update: refinement of `KubeconfigStore` | as above over SSH, one command after the other, without faults |
| `plan` | the loop against the direct definition of a plan | files of 0 to 4 hosts, with repeated hosts; `--servers` and `--limit` from -1 to 5, which is below, at and above every length |
| `cluster_setup` | roles, tokens, the order of joins, meaning of a nil join; the script ends, the cluster comes about when nothing fails, refinement of `ClusterFormation` | 4 hosts, so up to 3 joins at once; one server, some servers, servers only; all or 3 of the devices; faults on |
| `connection` | agents stay reachable while they sign, use and order of connections, what is closed at the return, termination | no constants: every combination of flags, keys, agents and losses; at most two connections, which is all a command makes |
| `ready` | meaning of a nil, a cluster ready in time is confirmed, termination | 2 nodes, so that one can be ready while the other is not; `--attempts` of -1, 0, 1 and 3, so that an attempt can come before, at and after a change |
| `pro_install` | causes of damage, meaning of a nil, temporary directories, termination | 2 processes, 2 builds that run and one that does not, both systems, faults on; the proofs hold for any number |
| `installer_args` | the node is the one the flags ask for, but for two options that install drops | every combination of the flags that go into the line, with no, some and repeated extra arguments, such with each kind of quotes (paired around a word, paired around a space, unpaired), and one that names another server |
| `get_script` | how far the installed k3sup survives, and how far the user is told the truth | every kind of host and of start, three places for the download, every failure, a stop at any point, between the move and its message and in the middle of a download or a copy, too |
| `cluster_merge` | the disagreement of section 6.1 | the instance of `cluster_setup` without faults |

Deadlock is not checked: a command that has returned stops, and the model with
it. `CHECK_DEADLOCK FALSE` hides nothing where a liveness property says that the
command ends: `Returns` in `SSHSession`, `ExecSession`, `Connection` and `Ready`,
`AllEnd` in `ProInstall`, `ScriptEnds` in `ClusterSetup`.

### Fairness

- `SSHSession`: weak fairness of the main goroutine and of each pump, which the
  Go scheduler gives to runnable goroutines, and of the remote side, which stands
  for a host and a command that make progress. Losses and failing writes have
  none. `Returns` has one exception, a pump that gave up on its writer: the code
  then really may hang, because nothing reads that stream.
- `ExecSession`: the main goroutine, the pumps and the command; a child in the
  background never has to end, and `Returns` excepts it.
- `ClusterSetup`: the planner, the shell, and the steps in which a command does
  what the state of the hosts lets it do (`Works`); processes are scheduled, and
  remote commands are assumed to end, since the code has no timeout. Failures
  (`Breaks`) and `ServerComesUp` have none, so `ScriptEnds` does not rest on
  anything failing or recovering. `SetsUpCluster` promises a complete cluster
  unless something failed, and only for keys without a passphrase.
- `Connection`: the command's own steps. No peer has to answer: `Returns` excepts
  the peer that falls silent.
- `Ready`: the command, whose kubectl calls end; the cluster has none.
- `ProInstall`: each process; being killed has none.

`GetScript` and `InstallerArgs` state safety only and assume none.

## 4. Proofs

The proof modules hold no assumptions but the named ones on the constants.

`SSHSessionProofs`, for every window, threshold, pipe capacity and amount of
output:
- `TypeCorrect`; in particular `window` and all counters stay natural numbers.
- `WindowSafe`: `WindowConserved` and `WindowRecoverable`. The first is inductive
  with the types; the second needs `HalfConsumed`: at most half of the window is
  consumed without having been given back, because a read below that gives all
  of it back.
- `WindowAlwaysRecoverable` names the second by itself.
- `Invariance` of `IInv` (each chunk is in exactly one place, a pump that ended has
  drained its stream, the status is genuine, the channel closes behind the last
  output, how far main got), and from it `Complete` and `NoLate`.
- `Refinement`: `Spec => CommandOperator!Spec` under the mapping at the end of
  `SSHSession`, step by step with `IInv` on both sides.
- What is safety in `Returns`: `AlwaysGoesOn`, somebody's guard holds as long as the
  call has not returned and no pump gave up (`NeverStuck`; a full pipe has either an
  open window in front of it or, by `WindowRecoverable`, an unread chunk whose pump
  is there to read it); `EveryStepCounts`, every step makes `StepsLeft` smaller; and
  `AlwaysBounded`, there are at most 8 and 6 per chunk. Together: no deadlock and no
  livelock, for every window and every output. `CanGoOn` lists the guards of the
  actions under fairness, since ENABLED is out of the prover's reach.

`KubeconfigProofs`, for any number of processes, contexts and hosts:
- `TypeCorrect`, `TempAlwaysRemoved`.
- `Invariance` of `IInv`: what each process holds between fetch and write
  (`HoldsData`) and how the file stands to the last process that opened it
  (`WriterOfFile`). `DamageExplained`, `SavedContext` and `MergeLosesOnlyUnseen`
  follow, and need it: none of them is inductive, since none says what is in the
  memory of a process that has not written yet.
- `UpdatesAtOnceHolds`: the refinement of `KubeconfigStore` for serial runs over
  SSH without faults, from `SerialInv` (no two processes are active, and the file
  is what kubectl read until it is opened).

`ClusterSetupProofs`, of the planner, for every devices file and every value of
the flags:
- `LoopInvariance` of `LoopInv`: the counter is the number of servers so far, and
  the script covers the devices so far. `PlanAsAsked` alone says nothing before
  the loop ends. From it `PlanTypeCorrect` and `PlansAsAsked`.

and of the script under a shell, for every devices file that names each host
once, and any number of joins at once:
- `Invariance` of `IInv`: which line each job comes from and how far it can be,
  what is in the foreground has returned (`ForegroundReturned`), a prompt in
  NODE_TOKEN stays there, and a join about to install has the cluster's token or
  one of two excuses (`TokenInHand`). The step lemma `JobStepSummary` reduces all
  commands to one summary of their effect; that no line undoes another's host is
  `TargetsDistinct`, which rests on `LoopInv` of the planner.
- From it `TypeCorrect`, `RolesHold`, `TokenFirst`, `StrangeTokens`, `NilJoins`.
- `Refinement`: `Spec => FormsCluster`, every step of the planner, the shell and
  the commands maps to a step of `ClusterFormation` or to a stutter. The mapping
  reads the order off the devices and the members off the hosts (`Order`,
  `Member`). It needs `FormInv` beside `IInv`, since a step of the abstraction lets
  a host in once and only behind the founder: a host that is not fresh was set up
  by the line of its own, which has returned (`SetUpByItsLine`), so the host of a
  line that is about to run is fresh (`FreshTarget`); and whoever holds the token
  got it from the founder (`TokenFromFounder`). `FormInvariance` proves it.
- `CompleteAtTheEnd`: what is safety in `SetsUpCluster`. Where nothing failed and
  no command asked for a passphrase, a script whose commands have all returned has
  set up the whole cluster (`EndsComplete`). This needs `SmoothInv`: until then no
  failure went unnoticed, every join that returned did so with nil, and behind
  `install` the server is up and the kubeconfig has the cluster's context. That
  the script does come to its end is the half that is left to TLC.

`ExecSessionProofs`, for every pipe capacity and amount of output:
- `Invariance` of `IInv`: every chunk of a stream is unwritten, in the pipe or
  captured (`Accounted`), where each pump stands to its pipe (`PumpState`), whose
  status the exit code is (`StatusGenuine`), and that pipes which nobody holds
  open have been written in full unless a terminal failed (`Drained`).
  `CutExplained` is not inductive: it says nothing until the call has returned.
- From it `TypeCorrect`, `CutAlwaysExplained`, `CodeAlwaysGenuine`, and
  `Refinement` of `CommandOperator`.
- `AlwaysGoesOn`, `EveryStepCounts` and `AlwaysBounded`, as for `SSHSession`. No
  failure of a terminal is excepted here: the pipe is closed, and its writer killed
  or refused. The one exception is a child in the background that holds the pipes
  and has nothing more to write (`WaitsForChild`).

`ConnectionProofs`:
- `Invariance` of `IInv`: `Owned`, whatever is open has a deferred call that will
  close it, but for the socket of an agent that lacked the key and stays open; and
  `Usable`, what is about to be used is open. With them the three
  properties hold from one step to the next, and `TypeCorrect`,
  `SignerAlwaysReachable`, `AlwaysClosedOnReturn` and `AlwaysOneConnection`
  follow. The lemma `ReturnStep` treats every return at once.
- `NeverTwice`: on the way to a connection no agent, key or passphrase is tried a
  second time; every step leaves fewer. The lemma `CommandGoesOnward` says where each goes.

`ReadyProofs`, for every set of nodes and every `--attempts`:
- `Invariance` of `IInv`: what a loop has established when it is left with
  attempts to spare (`Established`), and that a cluster which is ready in time
  never costs an attempt (`InTime`); from it `TypeCorrect`, `NilAlwaysMeansReady`
  and `AlwaysConfirmed`.
- `AttemptsAlwaysCount`: a step of the command leaves fewer to take, and a cluster
  that comes and goes gives none back.
- `AlwaysBounded`: kubectl is called at most twice `--attempts` times, from
  `CallsCounted`, which relates the calls so far to the loop's counter.

`ProInstallProofs`, for any number of processes and builds:
- `Invariance` of `IInv`: no process that goes on to the target has a broken
  build (`Verified`); whoever is still copying has overlapped the copy that
  opened the target last (`LastOverlaps`); and once that copy is through, the
  target is complete unless it or one it overlapped was spoilt or of another
  build (`Completed`). The last is the strengthening: a later end of an
  overlapped copy writes the same bytes again.
- From it `TypeCorrect`, `DamageAlwaysExplained`, `AlwaysInstalledAsAsked`, and
  `TempAlwaysRemoved`, which rests on the place of the first deferred call.

`HostScriptProofs`, of `GetScript`, for every host and every way to start it:
- `ScriptInvariance` of `ScriptInv`: the installed file is the one from before
  until the move, unless the download is written over it (`UntouchedUntilMove`); only
  a download that ended reaches the move, and is what the move has put there when it
  is announced (`DownloadedToInstall`); and what is said is said where the script says it
  (`SaidInPlace`). From it `AlwaysSurvives` and `AlwaysToldTheTruth`; neither is
  inductive, since neither knows what the temporary file holds before the move.

and of `InstallerArgs`, for any extra arguments of any length:
- `NodeAlwaysAsAsked`, from `IInv`: a line that was built is the one for flags that
  passed the checks (`LineFromFlags`). The lemmas say what `OptionsOf` makes of a
  concatenation and which role `Installed` takes from a line. `Asked` is what the help of
  the flags promises, and `Dropped` the two options that install loses of it. Three
  assumptions, all about data: extra arguments name no role, since `server` and `agent` are words
  of the installer and no options of k3s (`ExtrasAssumption`); the values with a
  quote are none of the few plain ones that stand for the other flags
  (`QuotedAssumption`); and two unpaired quotes would be a pair
  (`UnpairedAssumption`). The extra arguments may name a `--server`; `RoleAsAsked`
  then says that the options have both.

Only model-checked: the seven liveness properties (`Returns` of `SSHSession`,
`ExecSession`, `Connection` and `Ready`, `AllEnd`, `ScriptEnds`, `SetsUpCluster`),
which are out of the prover's reach under fairness. Every other property of a
passing run is a theorem. Of the seven, `Returns` of `SSHSession` and `ExecSession`
have their safety content proved (the steps run out, and before the return there is
always one left), `Returns` of `Connection` and `Ready` that the steps run out, and
`SetsUpCluster` that the end of the script finds the cluster complete.

## 5. Not modelled

- `version`, `update`, the root command and `main`: they print and wire, and keep
  no state.
- Formatting and logging; the values of flags beyond what a property tells apart;
  host keys (the code ignores them); the names of architectures and systems in
  `get_pro.go` and `get.sh`; `ALIAS_NAME` (nothing sets it) and `checkHash`
  (`VERIFY_CHECKSUM=0`) in `get.sh`.
- The flags of `plan` that every line of the script carries alike (user, SSH key,
  channel, extra arguments).
- The vendored libraries but for what the operators rest on.
- The tail of a log that has not reached the terminal when a failed `Run` is
  reported (`ssh_operator.go:80`): it would be a property of the terminal after
  the process has ended.

## 6. Disagreements found

### 6.1 With a run that shows it

- The script of `plan --merge` has `--merge` on a line of its own, since
  `mergeStr` has no backslash before its newline (`plan.go:103`): `install`
  overwrites the kubeconfig, where the flag's help promises to merge
  (`cluster_merge`).

### 6.2 As exceptions of the properties that hold

Each of these is behaviour of the code that a document, a comment or the wording
of a message does not lead one to expect. The property named states the promise
with precisely this exception.

| Code | What it does | Property |
|---|---|---|
| `install.go:406` | `install --local` and `get-config --local` save an empty file and return nil when `cat k3s.yaml` fails | `SavedContext`, `DamageExplained` |
| `install.go:487` | `--merge` keeps a stale entry of the same context and returns nil | `SavedContext` |
| `install.go:492` | of two `--merge` that overlap, the later write loses the other's entry | `MergeLosesOnlyUnseen` (what this process has seen), `UpdatesAtOnce` (runs that do not overlap) |
| `install.go:467` | on Windows an early return of `mergeConfigs` leaves the temporary kubeconfig, which it removes before it is closed | `TempRemoved` of `Kubeconfig` |
| `plan.go:49`, `plan.go:109` | `--background` starts the joins although the first server's install failed | `NilJoinExplained`, `FormsCluster` |
| `join.go:473` | a download that fails under `curl \| sh` installs nothing, and join returns nil | `NilJoinExplained` |
| `install.go:562` | the passphrase prompt goes to standard output, in front of `node-token`'s token | `StrangeTokenExplained` |
| `ready.go:60` | when the attempts run out, `ready` returns nil | `NilMeansReady` (`ranOut = {}`) |
| `ready.go:124` | the nodes are not looked at again while the second loop waits: one that fails meanwhile goes unseen | `changed` in `NilMeansReady` |
| `ready.go:95` | a cluster without nodes counts as ready | `AllNodesReady` in `NilMeansReady` |
| `get_pro.go:191` | a final check that starts and fails is a nil all the same | `InstalledAsAsked` (`p \notin spoilt`) |
| `install.go:538` | an agent without the key keeps its socket open; the one of `sshAgentOnly` always does | `ClosedOnReturn` |
| `install.go:615` | single quotes inside the value of `--k3s-extra-args`, with a space between them, end `INSTALL_K3S_EXEC`, and the installer is not run | `LostToQuotes` in `NodeAsAsked` |
| `join.go:532` | a quote without a second one in `--k3s-extra-args` breaks the line of join; paired ones do no harm there | `LostToQuotes` in `NodeAsAsked` |
| `install.go:628` | `--tls-san` replaces the host in the certificate instead of adding a name | `Dropped` in `NodeAsAsked` |
| `install.go:602` | `--token` without `--datastore` is dropped | `Dropped` in `NodeAsAsked` |
| `get.sh:136`, `get.sh:186` | curl runs without `-f`: an error page is installed and reported as the new version | `WholeDownload` in `Survives` and `ToldTheTruth` |
| `get.sh:183` | across file systems `mv` copies, and a full disk or a stop leaves a part of k3sup or none | `Survives` (`~host.sameFs`) |
| `get.sh:125`, `get.sh:183` | run in BINLOCATION, the script removes the installed k3sup before the download; `mv` refuses to move a file onto itself, and the new one is removed as well | `Survives` (`host.at = "BINLOCATION"`) |
| `get.sh:157` | the `cp` that root is told to run names k3sup in the working directory, but root's download is in `/tmp` | `CopySource` in `ToldTheTruth` |
| README.md:202 | `PRO=1 curl ... \| sudo -E sh` gives `PRO` to curl and not to the script, which ends with zero | `"documented"` in `ToldTheTruth` |

Without `PRO`, a status of zero from `get.sh` says nothing: a download or a move
that failed ends in it, too, and `ToldTheTruth` promises nothing of it. That
kubectl has no timeout (`ready.go:77`) is an assumption on fairness in `Ready`, and
no exception of a property.

Met while modelling, and not behind a property: `join --skip-install` is declared
(`join.go:64`) and never read; so is `node-token --print-command`, whose
variable is a constant false (`node-token.go:109`); README.md:205 has `get pro` replace k3sup itself, which
installs `k3sup-pro` beside it; `SUCCESS_CMD` (`get.sh:13`) is set before
`BINLOCATION` is changed on MINGW.

## 7. Plan

1. Done: `SSHSession`, `Kubeconfig`, their abstractions and proofs.
2. Done: `Plan`, `ClusterSetup`, the abstraction `ClusterFormation`.
3. Done: `Connection`, `Ready`, `ProInstall`, `ExecSession`, `InstallerArgs`,
   `GetScript`.
4. Done: every safety property of a passing run as a theorem, and the refinements
   of `CommandOperator`, `KubeconfigStore` and `ClusterFormation`.
5. Done: the safety content of the liveness properties of `SSHSession`,
   `ExecSession`, `Connection`, `Ready`, and `EndsComplete` for `SetsUpCluster`.
6. Left: the same for `ScriptEnds` and `AllEnd`, whose measure is a sum over the
   commands or the processes.
