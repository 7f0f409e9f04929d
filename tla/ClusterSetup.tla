------------------------------- MODULE ClusterSetup -------------------------------
(***************************************************************************)
(* A cluster set up with k3sup plan: the script that Plan prints is run by *)
(* a shell (without set -e, and without wait for what runs in the          *)
(* background), and its commands are k3sup install, node-token and join,   *)
(* each over SSH. The hosts are fresh when the script starts.              *)
(*                                                                         *)
(* A token is "token" (the cluster's), "empty", or "prompt": node-token    *)
(* prints to its standard output, which is all that NODE_TOKEN gets, and   *)
(* loadPublickey asks for a passphrase there.                              *)
(***************************************************************************)
EXTENDS Plan, FiniteSets

CONSTANT Faults  \* connections, downloads, installers and writes may fail

ASSUME FaultsAssumption == Faults \in BOOLEAN
ASSUME DistinctAssumption ==
  \A list \in DeviceLists : \A d, e \in DOMAIN list : list[d] = list[e] => d = e

VARIABLES
  kubeconfig, \* the contexts in the file at --local-path
  prompts,    \* the SSH key asks for a passphrase, and no agent has it
  jobs,       \* one process per line started, in order
  nodeToken,  \* the shell's NODE_TOKEN
  k3s,        \* what each host runs: a role, and the token it was given
  up,         \* the first server serves, and has a node-token file
  faulted     \* history: something failed

clusterVars == <<kubeconfig, prompts, jobs, nodeToken, k3s, up, faulted>>
vars == <<planVars, clusterVars>>

Tokens == {"empty", "token", "prompt"}
Fresh == [role |-> "none", token |-> "empty"]
Runs(role, token) == [role |-> role, token |-> token]

Init ==
  /\ PlanInit
  /\ kubeconfig = IF found THEN {"others"} ELSE {}
  /\ prompts \in BOOLEAN
  /\ jobs = <<>>
  /\ nodeToken = "empty"
  /\ k3s = [h \in Hosts |-> Fresh]
  /\ up = FALSE
  /\ faulted = FALSE

--------------------------------------------------------------------------------
Background(line) == line.run = "join" /\ line.background

\* mutant: the shell waits for nothing
ShellNeverWaits == FALSE

\* The shell waits for a command without an ampersand.
ShellWaits ==
  /\ jobs # <<>>
  /\ ~Background(script[Len(jobs)])
  /\ jobs[Len(jobs)].at # "returned"

\* mutant: a --node-token that is given but empty is taken as it is
JoinWithAnyToken == "join"

\* join takes the token from --node-token, and fetches it if that is empty.
JoinStart == IF nodeToken = "empty" THEN "fetch" ELSE "join"

Start(line) == IF line.run = "join" THEN JoinStart ELSE line.run

\* The shell starts the next line, whatever became of the lines before.
StartLine ==
  /\ at = "printed"
  /\ Len(jobs) < Len(script)
  /\ ~ShellWaits
  /\ jobs' = Append(jobs, [at |-> Start(script[Len(jobs) + 1]), token |-> nodeToken,
                           lapse |-> "none", result |-> "none"])
  /\ UNCHANGED <<planVars, kubeconfig, prompts, nodeToken, k3s, up, faulted>>

--------------------------------------------------------------------------------
(***************************************************************************)
(* The commands. Job k runs line k. A lapse is a failure that the process  *)
(* does not notice.                                                        *)
(***************************************************************************)
Return(k, r) == jobs' = [jobs EXCEPT ![k].at = "returned", ![k].result = r]

LapseAnd(k, what, where, r) ==
  jobs' = [jobs EXCEPT ![k].lapse = what, ![k].at = where, ![k].result = r]

Fails == Faults /\ faulted' = TRUE

Target(k) == script[k].host

\* A shell gives a background process no standard input to read a passphrase from.
CanAuthenticate(k) == ~(prompts /\ Background(script[k]))

\* The connection of install or of join: connectOperator, or the copies of it in
\* setupAdditionalServer and setupAgent, return an error.
NoConnection(k) ==
  /\ jobs[k].at \in {"install", "fetch", "join"}
  /\ Fails
  /\ Return(k, "error")
  /\ UNCHANGED <<planVars, kubeconfig, prompts, nodeToken, k3s, up>>

\* loadPublickey reads no passphrase, and the key cannot be parsed.
NoPassphrase(k) ==
  /\ jobs[k].at \in {"fetch", "join"}
  /\ ~CanAuthenticate(k)
  /\ Return(k, "error")
  /\ UNCHANGED <<planVars, kubeconfig, prompts, nodeToken, k3s, up, faulted>>

\* install runs the script on the first host and saves its kubeconfig.
InstallServer(k) ==
  /\ jobs[k].at = "install"
  /\ k3s' = [k3s EXCEPT ![Target(k)] = Runs("server", "token")]
  /\ up' = TRUE
  /\ kubeconfig' = IF script[k].merge THEN kubeconfig \union {"cluster"} ELSE {"cluster"}
  /\ Return(k, "nil")
  /\ UNCHANGED <<planVars, prompts, nodeToken, faulted>>

\* The download or the installer fails, the connection is lost, or the kubeconfig
\* is not saved; after a download that failed there is no k3s.yaml to read.
InstallFails(k) ==
  /\ jobs[k].at = "install"
  /\ Fails
  /\ \/ UNCHANGED <<k3s, up, kubeconfig>>
     \/ /\ k3s' = [k3s EXCEPT ![Target(k)] = Runs("server", "token")]
        /\ up' \in BOOLEAN
        /\ kubeconfig' \in IF up' THEN {kubeconfig, {}} ELSE {kubeconfig}
  /\ Return(k, "error")
  /\ UNCHANGED <<planVars, prompts, nodeToken>>

\* The output of cat k3s.yaml is lost behind its exit status.
InstallLosesConfig(k) ==
  /\ jobs[k].at = "install"
  /\ Fails
  /\ k3s' = [k3s EXCEPT ![Target(k)] = Runs("server", "token")]
  /\ up' = TRUE
  /\ kubeconfig' = {}
  /\ LapseAnd(k, "lost", "returned", "nil")
  /\ UNCHANGED <<planVars, prompts, nodeToken>>

\* systemd starts a k3s that did not start at first.
ServerComesUp ==
  /\ ~up
  /\ at = "printed"
  /\ \E h \in Hosts : h = primaryServer /\ k3s[h].role = "server"
  /\ up' = TRUE
  /\ UNCHANGED <<planVars, kubeconfig, prompts, jobs, nodeToken, k3s, faulted>>

\* The shell has no command --merge.
StrayMerge(k) ==
  /\ jobs[k].at = "--merge"
  /\ Return(k, "error")
  /\ UNCHANGED <<planVars, kubeconfig, prompts, nodeToken, k3s, up, faulted>>

\* What the shell gets is what node-token printed, be it an error or not.
NodeToken(k) ==
  /\ jobs[k].at = "node-token"
  /\ up
  /\ nodeToken' = IF prompts THEN "prompt" ELSE "token"
  /\ Return(k, "nil")
  /\ UNCHANGED <<planVars, kubeconfig, prompts, k3s, up, faulted>>

PrintsNoToken(k) ==
  /\ jobs[k].at = "node-token"
  /\ nodeToken' = IF prompts THEN "prompt" ELSE "empty"
  /\ Return(k, "error")
  /\ UNCHANGED <<planVars, kubeconfig, prompts, k3s, up>>

\* There is no node-token file.
NodeTokenMissing(k) == PrintsNoToken(k) /\ ~up /\ UNCHANGED faulted

\* No connection, or the output of cat is lost ("no node token found").
NodeTokenFails(k) == PrintsNoToken(k) /\ Fails

\* join reads the token from the server itself.
FetchToken(k) ==
  /\ jobs[k].at = "fetch"
  /\ up
  /\ jobs' = [jobs EXCEPT ![k].at = "join", ![k].token = "token"]
  /\ UNCHANGED <<planVars, kubeconfig, prompts, nodeToken, k3s, up, faulted>>

\* mutant: join tries again for as long as there is no token
FetchTokenRetries(k) ==
  /\ jobs[k].at = "fetch"
  /\ ~up
  /\ UNCHANGED vars

\* There is no node-token file, so cat exits with 1.
FetchTokenFails(k) ==
  /\ jobs[k].at = "fetch"
  /\ ~up
  /\ Return(k, "error")
  /\ UNCHANGED <<planVars, kubeconfig, prompts, nodeToken, k3s, up, faulted>>

\* The output of cat is lost behind its exit status. join does not look whether
\* the token it has is empty.
FetchTokenLoses(k) ==
  /\ jobs[k].at = "fetch"
  /\ up
  /\ Fails
  /\ LapseAnd(k, "lost", "join", "none")
  /\ UNCHANGED <<planVars, kubeconfig, prompts, nodeToken, k3s, up>>

\* mutant: every host is set up as an agent
RoleForgotten(line) == "agent"

Role(line) == IF line.server THEN "server" ELSE "agent"

\* mutant: the fetched token is assigned to a variable that shadows nodeToken
JoinInstallsShadowed(k) ==
  k3s' = [k3s EXCEPT ![Target(k)] = Runs(Role(script[k]), nodeToken)]

JoinInstalls(k) ==
  k3s' = [k3s EXCEPT ![Target(k)] = Runs(Role(script[k]), jobs[k].token)]

\* setupAdditionalServer or setupAgent: the installer ran and k3s started. k3s may
\* start with a token that is not the cluster's, without being able to join it.
Join(k) ==
  /\ jobs[k].at = "join"
  /\ CanAuthenticate(k)
  /\ JoinInstalls(k)
  /\ Return(k, "nil")
  /\ UNCHANGED <<planVars, kubeconfig, prompts, nodeToken, up, faulted>>

\* curl fails on the host: sh reads nothing, does nothing, and exits with 0.
JoinDownloadsNothing(k) ==
  /\ jobs[k].at = "join"
  /\ CanAuthenticate(k)
  /\ Fails
  /\ LapseAnd(k, "download", "returned", "nil")
  /\ UNCHANGED <<planVars, kubeconfig, prompts, nodeToken, k3s, up>>

\* The installer or k3s fails, or the connection is lost behind its back.
JoinFails(k) ==
  /\ jobs[k].at = "join"
  /\ CanAuthenticate(k)
  /\ Fails \/ (jobs[k].token # "token" /\ UNCHANGED faulted)
  /\ JoinInstalls(k) \/ UNCHANGED k3s
  /\ Return(k, "error")
  /\ UNCHANGED <<planVars, kubeconfig, prompts, nodeToken, up>>

\* A command that does what the state of the hosts lets it do.
Works(k) ==
  \/ InstallServer(k) \/ StrayMerge(k)
  \/ NodeToken(k) \/ NodeTokenMissing(k)
  \/ FetchToken(k) \/ FetchTokenFails(k)
  \/ Join(k) \/ NoPassphrase(k)

\* Something fails, or a strange token has its effect.
Breaks(k) ==
  \/ NoConnection(k)
  \/ InstallFails(k) \/ InstallLosesConfig(k)
  \/ NodeTokenFails(k)
  \/ FetchTokenLoses(k)
  \/ JoinDownloadsNothing(k) \/ JoinFails(k)

JobStep(k) == Works(k) \/ Breaks(k)

Planning == PlanNext /\ UNCHANGED clusterVars

Next ==
  \/ Planning
  \/ StartLine
  \/ ServerComesUp
  \/ \E k \in DOMAIN jobs : JobStep(k)

\* The lines a script can have: install, --merge, node-token and the joins.
LineNumbers == 1 .. Cardinality(Hosts) + 2

\* Every process, the shell included, is scheduled, and every remote command ends.
\* Nothing has to fail.
Fairness ==
  /\ WF_vars(Planning)
  /\ WF_vars(StartLine)
  /\ \A k \in LineNumbers : WF_vars(k \in DOMAIN jobs /\ Works(k))

Spec == Init /\ [][Next]_vars /\ Fairness

--------------------------------------------------------------------------------
Jobs ==
  [at : {"install", "--merge", "node-token", "fetch", "join", "returned"},
   token : Tokens, lapse : {"none", "download", "lost"},
   result : {"none", "nil", "error"}]

TypeOK ==
  /\ PlanTypeOK
  /\ kubeconfig \in SUBSET {"others", "cluster"}
  /\ prompts \in BOOLEAN
  /\ jobs \in Seq(Jobs)
  /\ nodeToken \in Tokens
  /\ k3s \in [Hosts -> [role : {"none", "server", "agent"}, token : Tokens]]
  /\ up \in BOOLEAN
  /\ faulted \in BOOLEAN

Joins == {k \in DOMAIN jobs : script[k].run = "join"}
Returned(k, r) == jobs[k].at = "returned" /\ jobs[k].result = r

PlannedRole(d) == IF d = 1 \/ d <= flags.servers THEN "server" ELSE "agent"

(***************************************************************************)
(* However the joins overlap, no host is set up in another role than the   *)
(* plan gives it, and none that the plan does not name. (plan.go 127-182,  *)
(* join.go 239-247)                                                        *)
(***************************************************************************)
RolesAsPlanned ==
  \A h \in Hosts :
    k3s[h].role # "none" =>
      \E d \in 1..Selected : h = devices[d] /\ k3s[h].role = PlannedRole(d)

(***************************************************************************)
(* No join starts, in the background or not, before install and node-token *)
(* have returned: all of them get the final NODE_TOKEN. (plan.go 128-155)  *)
(***************************************************************************)
NoJoinBeforeToken ==
  \A k \in Joins : \A j \in 1..(k - 1) :
    script[j].run # "join" => jobs[j].at = "returned"

(***************************************************************************)
(* A host that was given anything but the cluster's token got it in one of *)
(* two ways: the passphrase prompt is in NODE_TOKEN, or a fetch lost its   *)
(* output unnoticed. In particular a node-token line that failed does no   *)
(* harm: join fetches the token. (join.go 91-103, 200-237)                 *)
(***************************************************************************)
StrangeTokenExplained ==
  \A h \in Hosts :
    k3s[h].role # "none" /\ k3s[h].token # "token" =>
      nodeToken = "prompt" \/ \E k \in Joins : jobs[k].lapse = "lost"

(***************************************************************************)
(* A join that returns nil has set its host up in its role and with the    *)
(* cluster's token, unless something failed behind its back: the download, *)
(* the fetch of the token, or the prompt in NODE_TOKEN. (join.go 239-254)  *)
(***************************************************************************)
NilJoinExplained ==
  \A k \in Joins :
    Returned(k, "nil") /\ jobs[k].lapse = "none" /\ nodeToken # "prompt" =>
      k3s[Target(k)] = Runs(Role(script[k]), "token")

(***************************************************************************)
(* The shell gets to the end of the script and every command returns, the  *)
(* ones in the background included, whatever fails on the way.             *)
(***************************************************************************)
AllReturned ==
  Len(jobs) = Len(script) /\ \A k \in DOMAIN jobs : jobs[k].at = "returned"

ScriptEnds == at = "printed" ~> AllReturned

(***************************************************************************)
(* If nothing fails and no passphrase is asked for, the whole cluster      *)
(* comes about, every device with its role and token, and the kubeconfig   *)
(* has its context.                                                        *)
(***************************************************************************)
ClusterComplete ==
  /\ \A d \in 1..Selected : k3s[devices[d]] = Runs(PlannedRole(d), "token")
  /\ Selected > 0 => "cluster" \in kubeconfig

SetsUpCluster == (at = "printed" /\ ~prompts) ~> (faulted \/ ClusterComplete)

(***************************************************************************)
(* The cluster forms as ClusterFormation says: a host is a member from     *)
(* when k3s runs on it with the cluster's token. In particular no host     *)
(* joins before the first one is a server, in whatever order the lines run *)
(* and end, and no host is set up twice. (plan.go 127-182, join.go 200-247)*)
(***************************************************************************)
Order ==
  IF at = "printed"
  THEN [d \in 1..Selected |-> [host |-> devices[d], role |-> PlannedRole(d)]]
  ELSE <<>>

Member == [h \in Hosts |-> IF k3s[h].token = "token" THEN k3s[h].role ELSE "none"]

Formation == INSTANCE ClusterFormation WITH order <- Order, member <- Member

FormsCluster == Formation!Spec

(***************************************************************************)
(* The inductive invariant: what the properties above rest on.             *)
(***************************************************************************)
ScriptFollowsPlan ==
  /\ LoopInv
  /\ devices \in DeviceLists
  /\ at # "printed" => jobs = <<>>

JobsFollowScript ==
  /\ Len(jobs) <= Len(script)
  /\ \A k \in DOMAIN jobs :
       \/ jobs[k].at = "returned"
       \/ jobs[k].at = script[k].run
       \/ jobs[k].at = "fetch" /\ script[k].run = "join"

ForegroundReturned ==
  \A k \in DOMAIN jobs :
    k < Len(jobs) /\ ~Background(script[k]) => jobs[k].at = "returned"

PromptStays == nodeToken \in {"empty", IF prompts THEN "prompt" ELSE "token"}

\* A join about to install has the cluster's token, or an excuse.
TokenInHand ==
  \A k \in Joins :
    jobs[k].at = "join" =>
      jobs[k].token = "token" \/ nodeToken = "prompt" \/ jobs[k].lapse = "lost"

\* The excuse of a host with a strange token is a join that has returned.
StrangeTokenFromReturned ==
  \A h \in Hosts :
    k3s[h].role # "none" /\ k3s[h].token # "token" =>
      \/ nodeToken = "prompt"
      \/ \E k \in Joins : jobs[k].at = "returned" /\ jobs[k].lapse = "lost"

IInv ==
  /\ ScriptFollowsPlan
  /\ JobsFollowScript
  /\ ForegroundReturned
  /\ PromptStays
  /\ TokenInHand
  /\ StrangeTokenFromReturned
  /\ NilJoinExplained
  /\ RolesAsPlanned

(***************************************************************************)
(* What FormsCluster rests on beside that.                                 *)
(***************************************************************************)
\* What line k makes of its host.
SetUpBy(k) ==
  IF script[k].run = "install" THEN Runs("server", "token")
  ELSE Runs(Role(script[k]), jobs[k].token)

\* A host that is not fresh was set up by the line of its own, which has returned.
SetUpByItsLine ==
  \A h \in Hosts :
    k3s[h] = Fresh \/
      \E k \in DOMAIN jobs :
        /\ script[k].run \in {"install", "join"}
        /\ jobs[k].at = "returned"
        /\ h = Target(k)
        /\ k3s[h] = SetUpBy(k)

\* Whoever has the token has it from the first host.
TokenFromFounder ==
  up \/ nodeToken = "token" \/ (\E k \in DOMAIN jobs : jobs[k].token = "token") =>
    k3s[devices[1]] = Runs("server", "token")

FormInv == SetUpByItsLine /\ TokenFromFounder

(***************************************************************************)
(* SetsUpCluster without its liveness: the script does not end with a part *)
(* of the cluster missing, unless something failed or a passphrase was     *)
(* asked for.                                                              *)
(***************************************************************************)
Smooth == ~faulted /\ ~prompts

EndsComplete == at = "printed" /\ AllReturned /\ Smooth => ClusterComplete

InstallDone == jobs # <<>> /\ jobs[1].at = "returned"

SmoothInv ==
  Smooth =>
    /\ \A k \in DOMAIN jobs : jobs[k].lapse = "none"
    /\ \A k \in Joins : jobs[k].at = "returned" => jobs[k].result = "nil"
    /\ InstallDone => up /\ "cluster" \in kubeconfig

--------------------------------------------------------------------------------
(***************************************************************************)
(* plan.go:53 says of --merge: "Merge the config with existing kubeconfig  *)
(* if it already exists". Without a fault the contexts of the file stay.   *)
(***************************************************************************)
MergeKeepsContexts ==
  [][flags.merge /\ "others" \in kubeconfig /\ ~faulted' => "others" \in kubeconfig']_vars

================================================================================
