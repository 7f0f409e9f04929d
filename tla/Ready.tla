----------------------------------- MODULE Ready -----------------------------------
(***************************************************************************)
(* k3sup ready (cmd/ready.go): one loop that asks kubectl for the nodes,   *)
(* and a second one that asks for the default service account, against a   *)
(* cluster that changes while they run. One attempt is one step; the pause *)
(* between two attempts is where the cluster's steps come in.              *)
(***************************************************************************)
EXTENDS Integers

CONSTANTS
  Nodes,          \* the nodes that may register with the API server
  AttemptCounts   \* values of --attempts

ASSUME AttemptsAssumption == AttemptCounts \subseteq Int

VARIABLES
  attempts,  \* --attempts
  kubectl,   \* "absent", or whether its words for a missing context are those looked for
  nodes,     \* what the API server lists: the status of each node's last condition
  account,   \* the default service account exists
  api,       \* the API server answers
  context,   \* the kubeconfig file has the context
  pc,        \* "nodes", "account" or "returned"
  i,         \* the loop's counter
  result,
  calls,     \* history: how often kubectl was called
  ranOut,    \* history: the loops that used up their attempts
  inTime,    \* history: ready without a break since the first loop had attempts left
  changed    \* history: the nodes changed after the first loop

cluster == <<nodes, account, api, context>>
vars == <<attempts, kubectl, cluster, pc, i, result, calls, ranOut, inTime, changed>>

\* No part of the output is anything but True or empty; a list without nodes is
\* one empty part.
AllNodesReady == \A n \in Nodes : nodes[n] # "NotReady"

\* kubectl exits with zero.
Answered == api /\ context

ClusterReady == Answered /\ AllNodesReady /\ account

Init ==
  /\ attempts \in AttemptCounts
  /\ kubectl \in {"absent", "matches", "differs"}
  /\ nodes \in [Nodes -> {"absent", "NotReady", "Ready"}]
  /\ account \in BOOLEAN
  /\ api \in BOOLEAN
  /\ context \in BOOLEAN
  /\ pc = "nodes"
  /\ i = 0
  /\ result = "none"
  /\ calls = 0
  /\ ranOut = {}
  /\ inTime = (attempts > 0 /\ ClusterReady)
  /\ changed = FALSE

--------------------------------------------------------------------------------
(***************************************************************************)
(* The command                                                             *)
(***************************************************************************)
Return(r) ==
  /\ pc' = "returned"
  /\ result' = r
  /\ UNCHANGED <<attempts, kubectl, cluster, i, inTime, changed>>

\* An attempt of the present loop, with a kubectl that runs.
Attempt(loop) == pc = loop /\ i < attempts /\ kubectl # "absent"

CallsKubectl == calls' = calls + 1

\* mutant: the counter stays where it is
TryAgainForever == UNCHANGED vars

TryAgain ==
  /\ i' = i + 1
  /\ CallsKubectl
  /\ UNCHANGED <<attempts, kubectl, cluster, pc, result, ranOut, inTime, changed>>

\* Execute fails when kubectl cannot be started.
KubectlMissing ==
  /\ pc \in {"nodes", "account"}
  /\ i < attempts
  /\ kubectl = "absent"
  /\ CallsKubectl
  /\ Return("error")
  /\ UNCHANGED ranOut

\* kubectl says "context was not found".
ContextNotFound ==
  /\ Attempt("nodes")
  /\ ~context
  /\ kubectl = "matches"
  /\ CallsKubectl
  /\ Return("error")
  /\ UNCHANGED ranOut

ToAccountLoop ==
  /\ pc' = "account"
  /\ i' = 0
  /\ changed' = FALSE
  /\ UNCHANGED <<attempts, kubectl, cluster, result, inTime>>

\* mutant: the exit status is not looked at, and no output is an empty part
NodesReadyUnchecked ==
  /\ Attempt("nodes")
  /\ Answered => AllNodesReady
  /\ CallsKubectl
  /\ ToAccountLoop
  /\ UNCHANGED ranOut

\* mutant: no break, the loop goes on to its last attempt
NodesReadyNoBreak ==
  /\ Attempt("nodes")
  /\ Answered
  /\ AllNodesReady
  /\ TryAgain

NodesReady ==
  /\ Attempt("nodes")
  /\ Answered
  /\ AllNodesReady
  /\ CallsKubectl
  /\ ToAccountLoop
  /\ UNCHANGED ranOut

NodesNotReady ==
  /\ Attempt("nodes")
  /\ ~(Answered /\ AllNodesReady)
  /\ ~context => kubectl = "differs"
  /\ TryAgain

NodesRunOut ==
  /\ pc = "nodes"
  /\ i >= attempts
  /\ ranOut' = ranOut \union {"nodes"}
  /\ ToAccountLoop
  /\ UNCHANGED calls

AccountFound ==
  /\ Attempt("account")
  /\ Answered
  /\ account
  /\ CallsKubectl
  /\ Return("nil")
  /\ UNCHANGED ranOut

\* A context that is missing by now is one more reason to wait.
AccountNotFound ==
  /\ Attempt("account")
  /\ ~(Answered /\ account)
  /\ TryAgain

AccountRunOut ==
  /\ pc = "account"
  /\ i >= attempts
  /\ ranOut' = ranOut \union {"account"}
  /\ Return("nil")
  /\ UNCHANGED calls

Command ==
  \/ KubectlMissing
  \/ ContextNotFound
  \/ NodesReady \/ NodesNotReady \/ NodesRunOut
  \/ AccountFound \/ AccountNotFound \/ AccountRunOut

--------------------------------------------------------------------------------
(***************************************************************************)
(* The cluster, and other k3sup processes that write the kubeconfig        *)
(***************************************************************************)
NodeChanges ==
  /\ \E n \in Nodes, status \in {"absent", "NotReady", "Ready"} :
       nodes' = [nodes EXCEPT ![n] = status]
  /\ nodes' # nodes
  /\ changed' = TRUE
  /\ UNCHANGED <<account, api, context>>

AccountCreated ==
  /\ ~account
  /\ account' = TRUE
  /\ UNCHANGED <<nodes, api, context, changed>>

ServerComesOrGoes == api' = ~api /\ UNCHANGED <<nodes, account, context, changed>>

KubeconfigRewritten == context' = ~context /\ UNCHANGED <<nodes, account, api, changed>>

ClusterStep ==
  /\ NodeChanges \/ AccountCreated \/ ServerComesOrGoes \/ KubeconfigRewritten
  /\ inTime' = (ClusterReady' /\ (inTime \/ (pc = "nodes" /\ i < attempts)))
  /\ UNCHANGED <<attempts, kubectl, pc, i, result, calls, ranOut>>

Next == Command \/ ClusterStep

\* The command is scheduled, and every kubectl ends. The cluster owes nothing.
Spec == Init /\ [][Next]_vars /\ WF_vars(Command)

--------------------------------------------------------------------------------
TypeOK ==
  /\ attempts \in AttemptCounts
  /\ kubectl \in {"absent", "matches", "differs"}
  /\ nodes \in [Nodes -> {"absent", "NotReady", "Ready"}]
  /\ account \in BOOLEAN
  /\ api \in BOOLEAN
  /\ context \in BOOLEAN
  /\ pc \in {"nodes", "account", "returned"}
  /\ i \in Nat
  /\ result \in {"none", "nil", "error"}
  /\ calls \in Nat
  /\ ranOut \in SUBSET {"nodes", "account"}
  /\ inTime \in BOOLEAN
  /\ changed \in BOOLEAN

(***************************************************************************)
(* A nil with attempts to spare in both loops means ready, as far as the   *)
(* first loop's answer goes: if no node of the cluster changed since, none *)
(* is unready, and the service account is there. (ready.go 60-141)         *)
(***************************************************************************)
NilMeansReady ==
  result = "nil" /\ ranOut = {} => account /\ (changed \/ AllNodesReady)

(***************************************************************************)
(* A cluster that becomes ready while the first loop has attempts left,    *)
(* and stays so, is confirmed: neither loop uses up its attempts, whatever *)
(* the cluster did before. (ready.go 95-104, 129-137)                      *)
(***************************************************************************)
ReadyInTimeConfirmed ==
  pc = "returned" /\ inTime /\ kubectl # "absent" => result = "nil" /\ ranOut = {}

(***************************************************************************)
(* The command returns whatever the cluster does. (ready.go 60, 112)       *)
(***************************************************************************)
Returns == <>(pc = "returned")

(***************************************************************************)
(* The inductive invariant: what each loop has established when it is left *)
(* with attempts to spare, and that a cluster which is ready in time never *)
(* costs an attempt.                                                       *)
(***************************************************************************)
Progress ==
  /\ pc = "returned" <=> result # "none"
  /\ pc = "nodes" => ranOut = {}
  /\ pc = "account" => "account" \notin ranOut

Established ==
  /\ (pc = "account" \/ result = "nil") /\ "nodes" \notin ranOut => changed \/ AllNodesReady
  /\ result = "nil" /\ "account" \notin ranOut => account

InTime ==
  inTime =>
    /\ ClusterReady
    /\ pc # "returned" => i < attempts /\ ranOut = {}

IInv == TypeOK /\ Progress /\ Established /\ InTime /\ ReadyInTimeConfirmed

(***************************************************************************)
(* What is safety in Returns: a step of the command, whatever the cluster  *)
(* did before it, leaves one less to take, and the cluster gives none      *)
(* back. The second loop starts with all of its attempts. (ready.go 60,    *)
(* 112)                                                                    *)
(***************************************************************************)
AttemptsFrom(n) == IF n < attempts THEN attempts - n ELSE 0

StepsLeft ==
  CASE pc = "nodes"    -> AttemptsFrom(i) + AttemptsFrom(0) + 2
    [] pc = "account"  -> AttemptsFrom(i) + 1
    [] pc = "returned" -> 0

EveryAttemptCounts ==
  [][IF Command THEN StepsLeft' < StepsLeft ELSE StepsLeft' = StepsLeft]_vars

(***************************************************************************)
(* However the cluster changes, kubectl is called at most twice --attempts *)
(* times, and not at all if that is zero or less. (ready.go 60-80,         *)
(* 112-127)                                                                *)
(***************************************************************************)
CallsBounded == calls <= 2 * AttemptsFrom(0)

\* Its inductive invariant: one call for each turn of a loop.
CallsCounted ==
  /\ pc = "nodes"   => i <= AttemptsFrom(0) /\ calls = i
  /\ pc = "account" => i <= AttemptsFrom(0) /\ calls <= AttemptsFrom(0) + i
  /\ CallsBounded

================================================================================
