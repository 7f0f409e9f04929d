------------------------------- MODULE Kubeconfig -------------------------------
(***************************************************************************)
(* k3sup install and k3sup get-config up to the saved kubeconfig:          *)
(* the RunE functions of cmd/install.go and cmd/get-config.go,             *)
(* obtainKubeconfig, mergeConfigs and writeConfig. Several commands run at *)
(* the same time against one local file, and any of them may be killed.    *)
(*                                                                         *)
(* A file is absent, blank (no bytes), torn (it does not parse) or whole;  *)
(* what a whole one holds is the cluster each context leads to. The        *)
(* context, cluster and user of an entry share one name, so they are one   *)
(* entry here. Commands run through CommandOperator: over SSH an exit      *)
(* status other than zero is an error, locally it is not.                  *)
(***************************************************************************)
EXTENDS Naturals

CONSTANTS
  Procs,            \* the k3sup processes
  NoProc,           \* none of them
  Options,          \* the combinations of flags they are run with
  Contexts,         \* values of --context
  Hosts,            \* values of --host and --ip
  NoHost,           \* the entry of a context a file does not have
  Serial,           \* one process at a time
  Faults,           \* processes are killed, connections are lost, writes fail
  RemoveNeedsClose  \* a file that is open cannot be removed (Windows)

Flags == [install : BOOLEAN, local : BOOLEAN, merge : BOOLEAN,
          context : Contexts, host : Hosts]

ASSUME OptionsAssumption == Options \subseteq Flags
ASSUME NoProcAssumption == NoProc \notin Procs
ASSUME NoHostAssumption == NoHost \notin Hosts
ASSUME SwitchAssumption == {Serial, Faults, RemoveNeedsClose} \subseteq BOOLEAN

VARIABLES
  opt,     \* the flags of each process
  k3s,     \* the hosts that have /etc/rancher/k3s/k3s.yaml
  pc,      \* where each process is
  res,     \* the error it returned, or none
  broken,  \* its SSH connection was lost while output was due
  data,    \* the kubeconfig it holds in memory
  seen,    \* the local file as its kubectl read it
  temp,    \* its temporary file
  file,    \* the local file
  writer,  \* history: the process that opened it for writing last
  clash    \* history: two processes had it open for writing at once

vars == <<opt, k3s, pc, res, broken, data, seen, temp, file, writer, clash>>

NoEntries == [c \in Contexts |-> NoHost]
Absent    == [shape |-> "absent", of |-> NoEntries]
Blank     == [shape |-> "blank", of |-> NoEntries]
Torn      == [shape |-> "torn", of |-> NoEntries]
Whole(e)  == [shape |-> "whole", of |-> e]

\* What the file holds, or is about to hold while it is being written.
Saved ==
  IF writer # NoProc /\ pc[writer] = "write" THEN data[writer].of ELSE file.of

Store == INSTANCE KubeconfigStore WITH
  entries <- Saved,
  ended   <- {p \in Procs : pc[p] \in {"write", "done", "crashed"}}

Files == {Absent, Blank, Torn} \union {Whole(e) : e \in Store!Entries}

Init ==
  /\ opt \in [Procs -> Options]
  /\ k3s \in SUBSET Hosts
  /\ pc = [p \in Procs |-> "idle"]
  /\ res = [p \in Procs |-> "none"]
  /\ broken = [p \in Procs |-> FALSE]
  /\ data = [p \in Procs |-> Blank]
  /\ seen = [p \in Procs |-> Blank]
  /\ temp = [p \in Procs |-> "none"]
  /\ file \in {Absent} \union {Whole(e) : e \in Store!Entries}
  /\ writer = NoProc
  /\ clash = FALSE

--------------------------------------------------------------------------------
At(p, where) == pc[p] = where

GoTo(p, where) == pc' = [pc EXCEPT ![p] = where] /\ UNCHANGED res

Return(p, r) ==
  /\ pc' = [pc EXCEPT ![p] = "done"]
  /\ res' = [res EXCEPT ![p] = r]

Active(p) == pc[p] \notin {"idle", "done", "crashed"}

untouched == <<file, writer, clash>>

\* The flags are valid and the SSH connection, if any, is established.
Invoke(p) ==
  /\ At(p, "idle")
  /\ Serial => \A q \in Procs : ~Active(q)
  /\ GoTo(p, IF opt[p].install THEN "install" ELSE "fetch")
  /\ UNCHANGED <<opt, k3s, broken, data, seen, temp, untouched>>

\* connectOperator returns an error, or a flag is refused.
Refuse(p) ==
  /\ At(p, "idle")
  /\ Return(p, "error")
  /\ UNCHANGED <<opt, k3s, broken, data, seen, temp, untouched>>

\* The install script, piped from curl into sh, ends with a nil error. That
\* does not say that K3s is there: the status is that of sh, which succeeds on
\* no input when curl fails, and a local run does not look at ExitCode.
Install(p) ==
  /\ At(p, "install")
  /\ k3s' \in {k3s, k3s \union {opt[p].host}}
  /\ GoTo(p, "fetch")
  /\ UNCHANGED <<opt, broken, data, seen, temp, untouched>>

\* The operator returns an error: locally, the shell did not start; over SSH the
\* script may have done its work by then.
InstallFails(p) ==
  /\ At(p, "install")
  /\ \/ UNCHANGED k3s
     \/ ~opt[p].local /\ k3s' = k3s \union {opt[p].host}
  /\ Return(p, "error")
  /\ UNCHANGED <<opt, broken, data, seen, temp, untouched>>

\* mutant: text that does not parse is given an entry
RewriteAll(f, context, host) == [f EXCEPT !.of = Store!Only(context, host)]

\* rewriteKubeconfig puts the host and the context's name in what was read.
Rewrite(f, context, host) ==
  IF f.shape = "whole" THEN Whole(Store!Only(context, host)) ELSE f

\* cat printed nothing, failed, and the operator reports that in ExitCode only.
AlwaysSilently(p) == TRUE  \* mutant: SSHOperator drops the status as well
FailsSilently(p)  == opt[p].local

\* obtainKubeconfig: ExecuteStdio(cat k3s.yaml) returns a nil error. What its
\* output is depends on the operator: all of the file; nothing, when cat failed
\* locally; a part of the file, when the connection was lost behind the exit
\* status.
Fetch(p) ==
  LET o == opt[p]
      have(f) == data' = [data EXCEPT ![p] = Rewrite(f, o.context, o.host)]
  IN  /\ At(p, "fetch")
      /\ \/ /\ o.host \in k3s
            /\ have(Whole(NoEntries))
            /\ UNCHANGED broken
         \/ /\ FailsSilently(p)
            /\ have(Blank)
            /\ UNCHANGED broken
         \/ /\ Faults /\ ~o.local /\ o.host \in k3s
            /\ have(Blank) \/ have(Torn)
            /\ broken' = [broken EXCEPT ![p] = TRUE]
      /\ GoTo(p, IF o.merge THEN "temp" ELSE "open")
      /\ UNCHANGED <<opt, k3s, seen, temp, untouched>>

\* ExecuteStdio returns an error.
FetchFails(p) ==
  /\ At(p, "fetch")
  /\ Return(p, "error")
  /\ UNCHANGED <<opt, k3s, broken, data, seen, temp, untouched>>

--------------------------------------------------------------------------------
(***************************************************************************)
(* mergeConfigs                                                            *)
(***************************************************************************)

\* What os.Remove, deferred, leaves of the temporary file.
AfterRemove(state) == IF RemoveNeedsClose /\ state = "open" THEN state ELSE "none"

\* os.CreateTemp, and writeConfig to the temporary file.
WriteTemp(p) ==
  /\ At(p, "temp")
  /\ temp' = [temp EXCEPT ![p] = "open"]
  /\ GoTo(p, "merge")
  /\ UNCHANGED <<opt, k3s, broken, data, seen, untouched>>

\* CreateTemp fails, and there is nothing to remove; or writeConfig does.
WriteTempFails(p) ==
  /\ At(p, "temp")
  /\ temp' \in {temp, [temp EXCEPT ![p] = AfterRemove("open")]}
  /\ Return(p, "error")
  /\ UNCHANGED <<opt, k3s, broken, data, seen, untouched>>

\* mutant: a := in the if block shadows the kubeconfig that is saved
MergeShadowed(p) ==
  /\ At(p, "merge")
  /\ file.shape # "torn" /\ data[p].shape # "torn"
  /\ seen' = [seen EXCEPT ![p] = file]
  /\ GoTo(p, "close")
  /\ UNCHANGED <<opt, k3s, broken, data, temp, untouched>>

\* kubectl config view --merge --flatten reads the local file, which need not
\* exist, and the temporary one, and prints the union.
Merge(p) ==
  /\ At(p, "merge")
  /\ file.shape # "torn" /\ data[p].shape # "torn"
  /\ seen' = [seen EXCEPT ![p] = file]
  /\ data' = [data EXCEPT ![p] = Whole(Store!Merged(file.of, data[p].of))]
  /\ GoTo(p, "close")
  /\ UNCHANGED <<opt, k3s, broken, temp, untouched>>

\* mutant: the error of cmd.Output is logged, its empty output is saved
MergeErrorLogged(p) ==
  /\ At(p, "merge")
  /\ data' = [data EXCEPT ![p] = Blank]
  /\ GoTo(p, "close")
  /\ UNCHANGED <<opt, k3s, broken, seen, temp, untouched>>

\* kubectl is missing, or cannot parse one of the files.
MergeFails(p) ==
  /\ At(p, "merge")
  /\ temp' = [temp EXCEPT ![p] = AfterRemove(@)]
  /\ Return(p, "error")
  /\ UNCHANGED <<opt, k3s, broken, data, seen, untouched>>

\* mutant: file.Close is deferred too, before os.Remove is, and so runs after it
CloseTempLate(p) ==
  /\ At(p, "close")
  /\ temp' = [temp EXCEPT ![p] = AfterRemove(@)]
  /\ GoTo(p, "open")
  /\ UNCHANGED <<opt, k3s, broken, data, seen, untouched>>

\* file.Close, the deferred os.Remove, and the return of the merged data.
CloseTemp(p) ==
  /\ At(p, "close")
  /\ temp' = [temp EXCEPT ![p] = AfterRemove("closed")]
  /\ GoTo(p, "open")
  /\ UNCHANGED <<opt, k3s, broken, data, seen, untouched>>

CloseTempFails(p) ==
  /\ At(p, "close")
  /\ temp' = [temp EXCEPT ![p] = AfterRemove("closed")]
  /\ Return(p, "error")
  /\ UNCHANGED <<opt, k3s, broken, data, seen, untouched>>

--------------------------------------------------------------------------------
(***************************************************************************)
(* writeConfig: os.WriteFile opens the file, which truncates it, then      *)
(* writes from its first byte on.                                          *)
(***************************************************************************)
Open(p) ==
  /\ At(p, "open")
  /\ file' = Blank
  /\ writer' = p
  /\ clash' = (clash \/ \E q \in Procs : At(q, "write"))
  /\ GoTo(p, "write")
  /\ UNCHANGED <<opt, k3s, broken, data, seen, temp>>

\* The directory does not exist or the file may not be written.
OpenFails(p) ==
  /\ At(p, "open")
  /\ Return(p, "error")
  /\ UNCHANGED <<opt, k3s, broken, data, seen, temp, untouched>>

\* Over what another process has written since, the shorter text leaves a tail
\* of the longer one.
Write(p) ==
  /\ At(p, "write")
  /\ \/ file' = data[p]
     \/ file \notin {Blank, data[p]} /\ file' = Torn
  /\ Return(p, "ok")
  /\ UNCHANGED <<opt, k3s, broken, data, seen, temp, writer, clash>>

\* No space is left.
WriteFails(p) ==
  /\ Faults
  /\ At(p, "write")
  /\ file' \in {file, Torn}
  /\ Return(p, "error")
  /\ UNCHANGED <<opt, k3s, broken, data, seen, temp, writer, clash>>

--------------------------------------------------------------------------------
\* The process is killed.
Crash(p) ==
  /\ Faults
  /\ Active(p)
  /\ pc' = [pc EXCEPT ![p] = "crashed"]
  /\ file' \in {file} \union (IF At(p, "write") THEN {Torn} ELSE {})
  /\ UNCHANGED <<opt, k3s, res, broken, data, seen, temp, writer, clash>>

Step(p) ==
  \/ Invoke(p) \/ Refuse(p) \/ Install(p) \/ InstallFails(p)
  \/ Fetch(p) \/ FetchFails(p)
  \/ WriteTemp(p) \/ WriteTempFails(p) \/ Merge(p) \/ MergeFails(p)
  \/ CloseTemp(p) \/ CloseTempFails(p)
  \/ Open(p) \/ OpenFails(p) \/ Write(p) \/ WriteFails(p)

Next == \E p \in Procs : Step(p) \/ Crash(p)

Spec == Init /\ [][Next]_vars

--------------------------------------------------------------------------------
(***************************************************************************)
(* Properties                                                              *)
(***************************************************************************)

\* Every variable keeps its type.
TypeOK ==
  /\ opt \in [Procs -> Options]
  /\ k3s \subseteq Hosts
  /\ pc \in [Procs -> {"idle", "install", "fetch", "temp", "merge", "close",
                       "open", "write", "done", "crashed"}]
  /\ res \in [Procs -> {"none", "error", "ok"}]
  /\ broken \in [Procs -> BOOLEAN]
  /\ data \in [Procs -> Files]
  /\ seen \in [Procs -> Files]
  /\ temp \in [Procs -> {"none", "open"}]
  /\ file \in Files
  /\ writer \in Procs \union {NoProc}
  /\ clash \in BOOLEAN

Wrote(p) == writer = p /\ ~clash

\* A blank or torn file is the doing of the last process that opened it: it is
\* still writing, was killed or failed at it, or was handed the damage by an
\* operator that reported success. Nothing that goes wrong before os.WriteFile
\* harms the file (obtainKubeconfig returns on every error before it).
DamageExplained ==
  file.shape \in {"blank", "torn"} =>
    \/ clash
    \/ \E p \in Procs :
         /\ Wrote(p)
         /\ \/ pc[p] \in {"write", "crashed"}
            \/ res[p] = "error"
            \/ broken[p] \/ (opt[p].local /\ ~opt[p].merge)

\* A command that returned nil over a connection that held found K3s on its host,
\* and until another one opens the file, it has the context that was asked for:
\* alone without --merge, next to all that kubectl read with it.
SavedContext ==
  \A p \in Procs :
    (res[p] = "ok" /\ Wrote(p) /\ ~broken[p] /\ ~opt[p].local) =>
      /\ opt[p].host \in k3s
      /\ file.shape = "whole"
      /\ file.of =
           IF opt[p].merge
           THEN Store!Merged(seen[p].of, Store!Only(opt[p].context, opt[p].host))
           ELSE Store!Only(opt[p].context, opt[p].host)

\* A process with --merge that replaces the file loses an entry only when another
\* process has changed the file after its kubectl read it: the read, the merge
\* and the write are not one step, and nothing locks the file.
MergeLosesOnlyUnseen ==
  [][\A p \in Procs : (Open(p) /\ opt[p].merge /\ seen[p] = file) =>
       \A c \in Contexts : file.of[c] # NoHost => data[p].of[c] = file.of[c]]_vars

\* mergeConfigs leaves no copy of the cluster's credentials in the temporary
\* directory, whichever of its returns it takes; but where a file that is open
\* cannot be removed, one that comes before file.Close does.
TempRemoved ==
  \A p \in Procs :
    pc[p] \in {"open", "write", "done"} =>
      temp[p] = "none" \/ (RemoveNeedsClose /\ res[p] = "error")

\* One command at a time, over SSH and without faults, the local file is updated
\* once and at once, as the flags promise, although kubectl reads it and it is
\* truncated before it is written.
UpdatesAtOnce == Store!Spec

--------------------------------------------------------------------------------
(***************************************************************************)
(* The inductive invariant behind them                                     *)
(***************************************************************************)
Own(p) == Store!Only(opt[p].context, opt[p].host)

\* What obtainKubeconfig holds after the fetch, and what explains that it is not
\* all of the server's file.
HoldsFetched(p) ==
  \/ opt[p].host \in k3s /\ data[p] = Whole(Own(p))
  \/ data[p] = Blank /\ (opt[p].local \/ broken[p])
  \/ data[p] = Torn /\ broken[p]

\* What it holds after mergeConfigs.
HoldsMerged(p) ==
  \E e \in {Own(p), NoEntries} :
    /\ data[p] = Whole(Store!Merged(seen[p].of, e))
    /\ IF e = Own(p) THEN opt[p].host \in k3s ELSE opt[p].local \/ broken[p]

HoldsData ==
  \A p \in Procs :
    /\ pc[p] \in {"temp", "merge"} => HoldsFetched(p)
    /\ pc[p] \in {"temp", "merge", "close"} => opt[p].merge
    /\ pc[p] \in {"close", "open", "write"} \/ res[p] = "ok" =>
         IF opt[p].merge THEN HoldsMerged(p) ELSE HoldsFetched(p)

\* How the file stands to the last process that opened it.
WriterOfFile ==
  /\ \A p \in Procs :
       /\ pc[p] = "write" => writer # NoProc /\ (writer = p \/ clash)
       /\ res[p] # "none" <=> pc[p] = "done"
  /\ writer = NoProc => ~clash /\ file.shape \in {"absent", "whole"}
  /\ \A p \in Procs : Wrote(p) =>
       /\ pc[p] \in {"write", "done", "crashed"}
       /\ pc[p] = "write" => file = Blank
       /\ res[p] = "ok" => file = data[p]

IInv == TypeOK /\ HoldsData /\ WriterOfFile

================================================================================
