------------------------------- MODULE ReadyProofs -------------------------------
(***************************************************************************)
(* TLAPS proofs about Ready, for any set of nodes and any --attempts.      *)
(***************************************************************************)
EXTENDS Ready, TLAPS

LEMMA IInit == Init => IInv
<1> SUFFICES ASSUME Init PROVE IInv
  OBVIOUS
<1>1. TypeOK
  <2>1. inTime \in BOOLEAN
    BY DEF Init
  <2> QED
    BY <2>1 DEF Init, TypeOK
<1>2. attempts \in Int
  BY AttemptsAssumption DEF Init
<1>3. InTime
  BY <1>2 DEF Init, InTime
<1> QED
  BY <1>1, <1>3 DEF Init, IInv, Progress, Established, ReadyInTimeConfirmed

\* A step of the command: the cluster stays as it is.
LEMMA CommandStep == IInv /\ Command => IInv'
<1> SUFFICES ASSUME IInv, Command PROVE IInv'
  OBVIOUS
<1>1. /\ UNCHANGED <<attempts, kubectl, nodes, account, api, context, inTime>>
      /\ attempts \in Int /\ i \in Nat
  BY AttemptsAssumption DEF IInv, TypeOK, Command, KubectlMissing, ContextNotFound, NodesReady,
     NodesNotReady, NodesRunOut, AccountFound, AccountNotFound, AccountRunOut, Return,
     TryAgain, ToAccountLoop, cluster
<1>2. (AllNodesReady' <=> AllNodesReady) /\ (ClusterReady' <=> ClusterReady)
  BY <1>1 DEF AllNodesReady, ClusterReady, Answered
<1>c. calls' \in Nat
  <2>1. calls \in Nat
    BY DEF IInv, TypeOK
  <2>2. calls' = calls \/ calls' = calls + 1
    BY DEF Command, KubectlMissing, ContextNotFound, NodesReady, NodesNotReady, NodesRunOut,
       AccountFound, AccountNotFound, AccountRunOut, TryAgain, CallsKubectl
  <2> QED
    BY <2>1, <2>2
<1> USE <1>1, <1>2, <1>c DEF IInv, TypeOK, Progress, Established, InTime, ReadyInTimeConfirmed
<1>3. CASE KubectlMissing \/ ContextNotFound
  BY <1>3 DEF KubectlMissing, ContextNotFound, Attempt, Return, ClusterReady, Answered
<1>4. CASE NodesReady
  <2>1. TypeOK'
    BY <1>4 DEF NodesReady, Attempt, ToAccountLoop
  <2>2. Progress'
    BY <1>4 DEF NodesReady, Attempt, ToAccountLoop
  <2>3. Established'
    BY <1>4 DEF NodesReady, Attempt, ToAccountLoop
  <2>4. InTime'
    BY <1>4 DEF NodesReady, Attempt, ToAccountLoop
  <2>5. ReadyInTimeConfirmed'
    BY <1>4 DEF NodesReady, Attempt, ToAccountLoop
  <2> QED
    BY <2>1, <2>2, <2>3, <2>4, <2>5
<1>5. CASE NodesNotReady \/ AccountNotFound
  <2>1. ~inTime
    BY <1>5 DEF NodesNotReady, AccountNotFound, Attempt, ClusterReady
  <2>2. i' = i + 1 /\ UNCHANGED <<pc, result, ranOut, changed>>
    BY <1>5 DEF NodesNotReady, AccountNotFound, TryAgain
  <2>3. ~inTime'
    BY <2>1
  <2> QED
    BY <2>2, <2>3
<1>6. CASE NodesRunOut
  <2>1. TypeOK'
    BY <1>6 DEF NodesRunOut, ToAccountLoop
  <2>2. Progress'
    BY <1>6 DEF NodesRunOut, ToAccountLoop
  <2>3. Established'
    BY <1>6 DEF NodesRunOut, ToAccountLoop
  <2>4. InTime'
    BY <1>6 DEF NodesRunOut, ToAccountLoop
  <2>5. ReadyInTimeConfirmed'
    BY <1>6 DEF NodesRunOut, ToAccountLoop
  <2> QED
    BY <2>1, <2>2, <2>3, <2>4, <2>5
<1>7. CASE AccountFound
  BY <1>7 DEF AccountFound, Attempt, Return
<1>8. CASE AccountRunOut
  BY <1>8 DEF AccountRunOut, Return
<1> QED
  BY <1>3, <1>4, <1>5, <1>6, <1>7, <1>8 DEF Command

\* A step of the cluster: only a node that changes after the first loop takes back
\* what that loop has seen.
LEMMA ClusterStepKeeps == IInv /\ ClusterStep => IInv'
<1> SUFFICES ASSUME IInv, ClusterStep PROVE IInv'
  OBVIOUS
<1>1. UNCHANGED <<attempts, kubectl, pc, i, result, ranOut>>
  BY DEF ClusterStep
<1>2. TypeOK'
  BY DEF IInv, TypeOK, ClusterStep, NodeChanges, AccountCreated, ServerComesOrGoes,
     KubeconfigRewritten, ClusterReady
<1>3. (account => account') /\ (changed' \/ (changed' = changed /\ nodes' = nodes))
  BY DEF ClusterStep, NodeChanges, AccountCreated, ServerComesOrGoes, KubeconfigRewritten
<1>4. inTime' => ClusterReady' /\ (inTime \/ (pc = "nodes" /\ i < attempts))
  BY DEF ClusterStep
<1>5. Established'
  BY <1>1, <1>3 DEF IInv, Established, AllNodesReady
<1>6. Progress' /\ InTime' /\ ReadyInTimeConfirmed'
  BY <1>1, <1>4 DEF IInv, Progress, InTime, ReadyInTimeConfirmed
<1> QED
  BY <1>2, <1>5, <1>6 DEF IInv

LEMMA IStep == IInv /\ [Next]_vars => IInv'
<1>1. IInv /\ UNCHANGED vars => IInv'
  BY DEF vars, cluster, IInv, TypeOK, Progress, Established, InTime, ReadyInTimeConfirmed,
     AllNodesReady, ClusterReady, Answered
<1> QED
  BY <1>1, CommandStep, ClusterStepKeeps DEF Next

\* The inductive invariant holds for any number of attempts and nodes.
THEOREM Invariance == Spec => []IInv
  BY IInit, IStep, PTL DEF Spec

\* Every variable keeps its type; no loop counts below zero, whatever --attempts.
THEOREM TypeCorrect == Spec => []TypeOK
  BY Invariance, PTL DEF IInv

\* A nil with attempts to spare stands for a service account that is there and for
\* nodes that are ready unless they changed since.
THEOREM NilAlwaysMeansReady == Spec => []NilMeansReady
<1>1. IInv => NilMeansReady
  BY DEF IInv, Established, NilMeansReady
<1> QED
  BY <1>1, Invariance, PTL

\* A cluster that is ready in time, and stays so, is confirmed.
THEOREM AlwaysConfirmed == Spec => []ReadyInTimeConfirmed
  BY Invariance, PTL DEF IInv

--------------------------------------------------------------------------------
(***************************************************************************)
(* The command comes to its end.                                           *)
(***************************************************************************)
LEMMA AttemptsType == TypeOK => attempts \in Int /\ i \in Nat /\ StepsLeft \in Nat
  BY AttemptsAssumption DEF TypeOK, StepsLeft, AttemptsFrom

LEMMA CommandCounts == TypeOK /\ Command => StepsLeft' < StepsLeft
<1> SUFFICES ASSUME TypeOK, Command PROVE StepsLeft' < StepsLeft
  OBVIOUS
<1>1. attempts \in Int /\ i \in Nat /\ attempts' = attempts
  BY AttemptsType DEF Command, KubectlMissing, ContextNotFound, NodesReady, NodesNotReady,
     NodesRunOut, AccountFound, AccountNotFound, AccountRunOut, Return, TryAgain, ToAccountLoop
<1> USE <1>1 DEF StepsLeft, AttemptsFrom
<1>2. CASE KubectlMissing \/ ContextNotFound \/ AccountFound \/ AccountRunOut
  BY <1>2 DEF KubectlMissing, ContextNotFound, AccountFound, AccountRunOut, Attempt, Return
<1>3. CASE NodesNotReady \/ AccountNotFound
  BY <1>3 DEF NodesNotReady, AccountNotFound, Attempt, TryAgain
<1>4. CASE NodesReady
  BY <1>4 DEF NodesReady, Attempt, ToAccountLoop
<1>5. CASE NodesRunOut
  BY <1>5 DEF NodesRunOut, ToAccountLoop
<1> QED
  BY <1>2, <1>3, <1>4, <1>5 DEF Command

\* For any --attempts, and a cluster that comes and goes as it likes: every attempt
\* uses up one of those that are left, and nothing the cluster does gives one back.
THEOREM AttemptsAlwaysCount == Spec => EveryAttemptCounts
<1>1. TypeOK /\ [Next]_vars =>
        [IF Command THEN StepsLeft' < StepsLeft ELSE StepsLeft' = StepsLeft]_vars
  <2>1. ClusterStep => StepsLeft' = StepsLeft
    BY DEF ClusterStep, StepsLeft, AttemptsFrom
  <2> QED
    BY <2>1, CommandCounts DEF Next
<1> QED
  BY <1>1, TypeCorrect, PTL DEF Spec, EveryAttemptCounts

--------------------------------------------------------------------------------
(***************************************************************************)
(* How often kubectl is called.                                            *)
(***************************************************************************)
LEMMA CommandCalls == TypeOK /\ CallsCounted /\ Command => CallsCounted'
<1> SUFFICES ASSUME TypeOK, CallsCounted, Command PROVE CallsCounted'
  OBVIOUS
<1>1. /\ attempts \in Int /\ i \in Nat /\ calls \in Nat /\ attempts' = attempts
      /\ AttemptsFrom(0)' = AttemptsFrom(0) /\ AttemptsFrom(0) \in Nat
      /\ i < attempts => i < AttemptsFrom(0)
  <2>1. attempts \in Int /\ i \in Nat /\ calls \in Nat
    BY AttemptsType DEF TypeOK
  <2>2. attempts' = attempts
    BY DEF Command, KubectlMissing, ContextNotFound, NodesReady, NodesNotReady, NodesRunOut,
       AccountFound, AccountNotFound, AccountRunOut, Return, TryAgain, ToAccountLoop
  <2> QED
    BY <2>1, <2>2 DEF AttemptsFrom
<1> DEFINE N == AttemptsFrom(0)
<1>2. N \in Nat /\ N' = N
  BY <1>1
<1> HIDE DEF N
<1> USE <1>1, <1>2
<1>3. CallsCounted <=> /\ pc = "nodes" => i <= N /\ calls = i
                       /\ pc = "account" => i <= N /\ calls <= N + i
                       /\ calls <= 2 * N
  BY DEF CallsCounted, CallsBounded, N
<1>4. (/\ pc' = "nodes" => i' <= N /\ calls' = i'
       /\ pc' = "account" => i' <= N /\ calls' <= N + i'
       /\ calls' <= 2 * N) => CallsCounted'
  BY DEF CallsCounted, CallsBounded, N
<1>5. i < attempts => i + 1 <= N
  BY DEF N
<1>6. CASE KubectlMissing \/ ContextNotFound \/ AccountFound
  BY <1>3, <1>4, <1>5, <1>6 DEF KubectlMissing, ContextNotFound, AccountFound, Attempt, Return,
     CallsKubectl
<1>7. CASE NodesNotReady \/ AccountNotFound
  BY <1>3, <1>4, <1>5, <1>7 DEF NodesNotReady, AccountNotFound, Attempt, TryAgain, CallsKubectl
<1>8. CASE NodesReady
  BY <1>3, <1>4, <1>5, <1>8 DEF NodesReady, Attempt, ToAccountLoop, CallsKubectl
<1>9. CASE NodesRunOut
  BY <1>3, <1>4, <1>9 DEF NodesRunOut, ToAccountLoop
<1>10. CASE AccountRunOut
  BY <1>3, <1>4, <1>10 DEF AccountRunOut, Return
<1> QED
  BY <1>6, <1>7, <1>8, <1>9, <1>10 DEF Command

\* For any --attempts and any cluster: kubectl is called at most twice --attempts times,
\* and never if that is zero or less. (ready.go 60-80, 112-127)
THEOREM AlwaysBounded == Spec => []CallsBounded
<1>1. Init => CallsCounted
  BY AttemptsAssumption DEF Init, CallsCounted, CallsBounded, AttemptsFrom
<1>2. TypeOK /\ CallsCounted /\ [Next]_vars => CallsCounted'
  <2>1. ClusterStep \/ UNCHANGED vars => UNCHANGED <<attempts, pc, i, calls>>
    BY DEF ClusterStep, vars
  <2>2. CallsCounted /\ UNCHANGED <<attempts, pc, i, calls>> => CallsCounted'
    BY DEF CallsCounted, CallsBounded, AttemptsFrom
  <2> QED
    BY <2>1, <2>2, CommandCalls DEF Next
<1>3. CallsCounted => CallsBounded
  BY DEF CallsCounted
<1> QED
  BY <1>1, <1>2, <1>3, TypeCorrect, PTL DEF Spec

================================================================================
