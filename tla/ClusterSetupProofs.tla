---------------------------- MODULE ClusterSetupProofs ----------------------------
(***************************************************************************)
(* TLAPS proofs about Plan and ClusterSetup, for any flags, any number of  *)
(* joins at once, and every devices file, which for the cluster has no     *)
(* host twice.                                                             *)
(***************************************************************************)
EXTENDS ClusterSetup, TLAPS

(***************************************************************************)
(*                       k3sup plan: the module Plan                       *)
(***************************************************************************)

(***************************************************************************)
(* The lines.                                                              *)
(***************************************************************************)
LEMMA OpeningType ==
  ASSUME NEW h \in Hosts, flags \in Flags, found \in BOOLEAN
  PROVE  /\ Opening(h) \in Seq(Lines)
         /\ Len(Opening(h)) \in {2, 3}
<1>1. /\ InstallLine(h, FALSE) \in Lines
      /\ StrayLine \in Lines
      /\ TokenLine(h) \in Lines
  BY DEF InstallLine, StrayLine, TokenLine, Lines
<1>2. \A a, b, c \in Lines :
        /\ <<a, b>> \in Seq(Lines) /\ Len(<<a, b>>) = 2
        /\ <<a, b, c>> \in Seq(Lines) /\ Len(<<a, b, c>>) = 3
  OBVIOUS
<1> HIDE DEF InstallLine, StrayLine, TokenLine, Lines
<1>3. CASE flags.merge /\ found
  BY <1>1, <1>2, <1>3 DEF Opening
<1>4. CASE ~(flags.merge /\ found)
  BY <1>1, <1>2, <1>4 DEF Opening
<1> QED
  BY <1>3, <1>4

\* The lines of the devices follow one another behind the opening.
LEMMA LineOfFacts ==
  ASSUME Len(Opening(devices[1])) \in {2, 3}, NEW m \in Nat, m > 0
  PROVE  /\ LineOf(1) \in 1..LineOf(m)
         /\ LineOf(m) \in Nat
         /\ LineOf(m + 1) = LineOf(m) + 1
         /\ \A d \in 1..m : LineOf(d) \in 1..LineOf(m)
         /\ \A d, e \in Nat : LineOf(d) = LineOf(e) => d = e
         /\ \A k \in (LineOf(1) + 1)..LineOf(m) : \E d \in 2..m : k = LineOf(d)
<1> DEFINE n == Len(Opening(devices[1]))
<1>1. n \in Nat /\ n > 0
  <2>1. CASE n = 2
    BY <2>1
  <2>2. CASE n = 3
    BY <2>2
  <2> QED
    BY <2>1, <2>2
<1>2. \A d : LineOf(d) = n + d - 1
  BY DEF LineOf
<1> HIDE DEF n
<1>3. \A k \in (LineOf(1) + 1)..LineOf(m) : \E d \in 2..m : k = LineOf(d)
  <2> TAKE k \in (LineOf(1) + 1)..LineOf(m)
  <2>1. k - n + 1 \in 2..m /\ k = LineOf(k - n + 1)
    BY <1>1, <1>2
  <2> QED
    BY <2>1
<1> QED
  BY <1>1, <1>2, <1>3

LEMMA JoinLineType ==
  ASSUME NEW h \in Hosts, NEW via \in Hosts, NEW server \in BOOLEAN, NEW bg \in BOOLEAN
  PROVE  JoinLine(h, via, server, bg) \in Lines
  BY DEF JoinLine, Lines

(***************************************************************************)
(* The loop's invariant, with the types it needs.                          *)
(***************************************************************************)
PlanInv == PlanTypeOK /\ LoopInv

LEMMA FlagTypes ==
  ASSUME flags \in Flags
  PROVE  /\ flags.servers \in Int /\ flags.limit \in Int
         /\ flags.merge \in BOOLEAN /\ flags.background \in BOOLEAN
  BY CountsAssumption DEF Flags

\* Inside the loop there is a next device.
LEMMA HostInFile ==
  ASSUME PlanInv, at = "loop"
  PROVE  /\ devices \in Seq(Hosts) /\ i \in Nat
         /\ i + 1 \in 1..Len(devices)
         /\ Host \in Hosts
         /\ devices[1] \in Hosts
         /\ Selected \in Nat /\ Selected <= Len(devices)
         /\ i < Selected
  BY FlagTypes DEF PlanInv, PlanTypeOK, LoopInv, Selected, Host

LEMMA PlanInitInv == PlanInit => PlanInv
<1> SUFFICES ASSUME PlanInit PROVE PlanInv
  OBVIOUS
<1>1. PlanTypeOK
  BY DevicesAssumption DEF PlanInit, PlanTypeOK
<1>2. LoopInv
  BY DEF PlanInit, LoopInv, CoversFirst
<1> QED
  BY <1>1, <1>2 DEF PlanInv

LEMMA PlanStepType ==
  ASSUME PlanInv, PlanNext
  PROVE  PlanTypeOK'
<1> USE DEF PlanTypeOK
<1>1. PlanTypeOK
  BY DEF PlanInv
<1>2. CASE Refuse \/ Begin
  BY <1>1, <1>2 DEF Refuse, Begin
<1>3. CASE SetUpPrimary
  <2>1. Opening(Host) \in Seq(Lines) /\ Host \in Hosts
    BY <1>1, <1>3, HostInFile, OpeningType DEF SetUpPrimary
  <2> QED
    BY <1>1, <1>3, <2>1 DEF SetUpPrimary, Advance
<1>4. CASE SetUpServer \/ SetUpWorker
  <2>0. at = "loop" /\ serversAdded # 0 /\ i \in Nat
    BY <1>1, <1>4 DEF SetUpServer, SetUpWorker
  <2>1. /\ Host \in Hosts
        /\ devices[1] \in Hosts
        /\ flags.background \in BOOLEAN
        /\ flags.servers \in Int
    BY <1>1, <2>0, HostInFile, FlagTypes
  <2>3. primaryServer \in Hosts
    BY <2>0, <2>1 DEF PlanInv, LoopInv
  <2>2. \A s \in BOOLEAN : JoinLine(Host, primaryServer, s, flags.background) \in Lines
    BY <2>1, <2>3, JoinLineType
  <2> QED
    <3>1. \E s \in BOOLEAN :
            script' = Append(script, JoinLine(Host, primaryServer, s, flags.background))
      BY <1>4 DEF SetUpServer, SetUpWorker
    <3>2. script' \in Seq(Lines)
      BY <1>1, <2>2, <3>1
    <3>3. /\ serversAdded' \in {serversAdded, serversAdded + 1}
          /\ primaryServer' = primaryServer
          /\ Advance
      BY <1>4 DEF SetUpServer, SetUpWorker
    <3>4. /\ i' = i + 1 /\ at' \in {"loop", "printed"}
          /\ UNCHANGED <<devices, flags, found>>
      BY <3>3 DEF Advance
    <3> QED
      BY <1>1, <3>2, <3>3, <3>4
<1> QED
  BY <1>2, <1>3, <1>4 DEF PlanNext

\* The first device adds its opening.
LEMMA PrimaryCovers ==
  ASSUME PlanInv, SetUpPrimary
  PROVE  CoversFirst(i)' /\ i = 0
<1> USE DEF PlanInv, PlanTypeOK
<1>1. /\ at = "loop" /\ i = 0 /\ script = <<>>
      /\ flags.servers \in Int
  BY FlagTypes DEF SetUpPrimary, LoopInv, CoversFirst
<1>2. /\ Opening(devices[1]) \in Seq(Lines)
      /\ Len(Opening(devices[1])) \in {2, 3}
      /\ Host = devices[1]
  BY <1>1, HostInFile, OpeningType DEF Host
<1>3. script' = Opening(devices[1]) /\ i' = 1
  BY <1>1, <1>2 DEF SetUpPrimary, Advance
<1>4. /\ UNCHANGED <<devices, flags, found>>
      /\ LineOf(1) = Len(script')
  BY <1>2, <1>3 DEF SetUpPrimary, Advance, LineOf
<1>5. Opening(devices[1])' = Opening(devices[1])
  BY <1>4 DEF Opening
<1> QED
  BY <1>1, <1>2, <1>3, <1>4, <1>5 DEF CoversFirst, LineOf

\* Each device after it adds one line, in its role.
LEMMA JoinCovers ==
  ASSUME PlanInv, at = "loop", serversAdded # 0, Advance,
         script' = Append(script, JoinLine(Host, primaryServer,
                                           serversAdded < flags.servers, flags.background))
  PROVE  CoversFirst(i)' /\ i > 0
<1> USE DEF PlanInv, PlanTypeOK
<1>1. /\ i \in Nat /\ i > 0 /\ i < Selected
      /\ flags.servers \in Int
      /\ primaryServer = devices[1]
      /\ CoversFirst(i)
      /\ (serversAdded < flags.servers) = (i + 1 <= flags.servers)
  BY FlagTypes DEF LoopInv
<1>2. /\ Len(Opening(devices[1])) \in {2, 3}
      /\ Opening(devices[1]) \in Seq(Lines)
      /\ devices \in Seq(Hosts)
      /\ Host = devices[i + 1]
  BY HostInFile, OpeningType DEF Host
<1>3. UNCHANGED <<devices, flags, found>> /\ i' = i + 1
  BY DEF Advance
<1>4. /\ Opening(devices[1])' = Opening(devices[1])
      /\ \A d : LineOf(d)' = LineOf(d)
  BY <1>3 DEF Opening, LineOf
<1>5. /\ Len(script) = LineOf(i) /\ script \in Seq(Lines)
      /\ \A k \in 1..LineOf(1) : script[k] = Opening(devices[1])[k]
      /\ \A d \in 2..i :
           script[LineOf(d)] =
             JoinLine(devices[d], devices[1], d <= flags.servers, flags.background)
  BY <1>1 DEF CoversFirst
<1>6. /\ Len(script') = LineOf(i + 1)
      /\ \A k \in 1..LineOf(i) : script'[k] = script[k]
      /\ script'[LineOf(i + 1)] =
           JoinLine(devices[i + 1], devices[1], i + 1 <= flags.servers, flags.background)
  BY <1>1, <1>2, <1>5 DEF LineOf
<1>7. /\ LineOf(1) \in 1..LineOf(i)
      /\ \A d \in 2..i : LineOf(d) \in 1..LineOf(i)
  <2>1. i \in Nat /\ i > 0 /\ Len(Opening(devices[1])) \in {2, 3}
    BY <1>1, <1>2
  <2>2. /\ LineOf(1) \in 1..LineOf(i)
        /\ \A d \in 1..i : LineOf(d) \in 1..LineOf(i)
    BY <2>1, LineOfFacts
  <2> QED
    BY <2>1, <2>2
<1>8. \A k \in 1..LineOf(1) : script'[k] = Opening(devices[1])[k]
  BY <1>1, <1>2, <1>5, <1>6, <1>7 DEF LineOf
<1>9. \A d \in 2..(i + 1) :
        script'[LineOf(d)] =
          JoinLine(devices[d], devices[1], d <= flags.servers, flags.background)
  <2> TAKE d \in 2..(i + 1)
  <2>1. CASE d = i + 1
    BY <2>1, <1>6
  <2>2. CASE d \in 2..i
    BY <2>2, <1>5, <1>6, <1>7
  <2>3. d = i + 1 \/ d \in 2..i
    BY <1>1
  <2> QED
    BY <2>1, <2>2, <2>3
<1>10. /\ i' = i + 1 /\ i' \in Nat /\ i' > 0 /\ i' # 0
       /\ Len(script') = LineOf(i)'
       /\ LineOf(1)' = LineOf(1)
       /\ devices' = devices /\ flags' = flags
  <2>1. LineOf(i)' = LineOf(i')
    BY <1>4 DEF LineOf
  <2> QED
    BY <1>1, <1>3, <1>4, <1>6, <2>1
<1>11. CoversFirst(i)'
  BY <1>3, <1>4, <1>8, <1>9, <1>10 DEF CoversFirst
<1> QED
  BY <1>1, <1>11

\* The loop ends at the last device the flags select.
LEMMA AdvanceCounts ==
  ASSUME PlanInv, at = "loop", Advance
  PROVE  /\ at' = "loop" => i' < Selected'
         /\ at' = "printed" => i' = Selected'
         /\ at' \in {"loop", "printed"}
         /\ i' = i + 1 /\ i' \in Nat
         /\ UNCHANGED <<devices, flags, found>>
<1>1. /\ flags.limit \in Int /\ i \in Nat
      /\ Len(devices) \in Nat /\ i < Selected
  BY FlagTypes DEF PlanInv, PlanTypeOK, LoopInv
<1> QED
  BY <1>1 DEF Advance, LastDevice, Selected

LEMMA PlanStepLoop ==
  ASSUME PlanInv, PlanNext
  PROVE  LoopInv'
<1> USE DEF PlanInv, PlanTypeOK
<1>0. /\ flags.limit \in Int /\ flags.servers \in Int
      /\ Len(devices) \in Nat /\ i \in Nat
  BY FlagTypes
<1>1. CASE Refuse \/ Begin
  <2>1. /\ i = 0 /\ script = <<>> /\ i' = 0 /\ script' = <<>>
        /\ serversAdded' = 0 /\ UNCHANGED <<devices, flags, found>>
    BY <1>1 DEF Refuse, Begin, LoopInv
  <2>2. CoversFirst(i)'
    BY <2>1 DEF CoversFirst
  <2>3. at' = "printed" => Selected' = 0
    BY <1>0, <1>1, <2>1 DEF Refuse, Begin, Selected
  <2>4. at' = "loop" => Selected' > 0
    BY <1>0, <1>1, <2>1 DEF Refuse, Begin, Selected
  <2>5. at' \in {"refused", "loop", "printed"}
    BY <1>1 DEF Refuse, Begin
  <2> QED
    BY <2>1, <2>2, <2>3, <2>4, <2>5 DEF LoopInv
<1>2. CASE SetUpPrimary
  <2>1. CoversFirst(i)' /\ i = 0
    BY <1>2, PrimaryCovers DEF SetUpPrimary
  <2>2. at = "loop" /\ Advance /\ serversAdded' = 1 /\ primaryServer' = devices[1]
    BY <1>2, <2>1 DEF SetUpPrimary, Host
  <2> QED
    BY <1>0, <2>1, <2>2, AdvanceCounts DEF LoopInv
<1>3. CASE SetUpServer \/ SetUpWorker
  <2>1. /\ at = "loop" /\ serversAdded # 0 /\ Advance
        /\ UNCHANGED primaryServer
        /\ serversAdded' =
             IF serversAdded < flags.servers THEN serversAdded + 1 ELSE serversAdded
        /\ script' = Append(script, JoinLine(Host, primaryServer,
                                             serversAdded < flags.servers, flags.background))
    <3>1. CASE SetUpServer
      <4>1. (serversAdded < flags.servers) = TRUE
        BY <3>1 DEF SetUpServer
      <4> QED
        BY <3>1, <4>1 DEF SetUpServer
    <3>2. CASE SetUpWorker
      <4>1. (serversAdded < flags.servers) = FALSE
        BY <1>0, <3>2 DEF SetUpWorker
      <4> QED
        BY <3>2, <4>1 DEF SetUpWorker
    <3> QED
      BY <1>3, <3>1, <3>2
  <2>2. CoversFirst(i)' /\ i > 0
    BY <2>1, JoinCovers
  <2> QED
    BY <1>0, <2>1, <2>2, AdvanceCounts DEF LoopInv
<1> QED
  BY <1>1, <1>2, <1>3 DEF PlanNext

LEMMA PlanStutter ==
  ASSUME PlanInv, UNCHANGED planVars
  PROVE  PlanInv'
<1>1. PlanTypeOK'
  BY DEF PlanInv, PlanTypeOK, planVars
<1>2. LoopInv'
  <2>1. UNCHANGED <<Selected, CoversFirst(i)>>
    BY DEF planVars, Selected, CoversFirst, LineOf, Opening
  <2> QED
    BY <2>1 DEF PlanInv, LoopInv, planVars
<1> QED
  BY <1>1, <1>2 DEF PlanInv

(***************************************************************************)
(* The loop keeps its types and its invariant. (plan.go 127-182)           *)
(***************************************************************************)
THEOREM LoopInvariance == PlanSpec => []PlanInv
<1>1. PlanInv /\ [PlanNext]_planVars => PlanInv'
  BY PlanStepType, PlanStepLoop, PlanStutter DEF PlanInv
<1> QED
  BY PlanInitInv, <1>1, PTL DEF PlanSpec

(***************************************************************************)
(* Every variable keeps its type; in particular every line names hosts of  *)
(* the devices file, and no join names the zero Host.                      *)
(***************************************************************************)
THEOREM PlanTypeCorrect == PlanSpec => []PlanTypeOK
<1>1. PlanInv => PlanTypeOK
  BY DEF PlanInv
<1> QED
  BY LoopInvariance, <1>1, PTL

(***************************************************************************)
(* The printed script sets up each selected device once, in order and in   *)
(* its role. (plan.go 127-182)                                             *)
(***************************************************************************)
THEOREM PlansAsAsked == PlanSpec => []PlanAsAsked
<1>1. PlanInv => PlanAsAsked
  BY DEF PlanInv, LoopInv, PlanAsAsked
<1> QED
  BY LoopInvariance, <1>1, PTL

--------------------------------------------------------------------------------
(***************************************************************************)
(*                  The cluster: the module ClusterSetup                   *)
(***************************************************************************)
Inv == TypeOK /\ IInv

LEMMA InvPlan == Inv => PlanInv
  BY DEF Inv, TypeOK, IInv, ScriptFollowsPlan, PlanInv

(***************************************************************************)
(* The script: which line sets up which device.                            *)
(***************************************************************************)
\* The number of the device that a line sets up.
SetsUp(k, d) ==
  \/ k = 1 /\ d = 1 /\ script[k].run = "install" /\ script[k].host = devices[1]
  \/ /\ d \in 2..Selected
     /\ k = LineOf(d)
     /\ script[k] = JoinLine(devices[d], devices[1], d <= flags.servers, flags.background)

LEMMA ScriptTargets ==
  ASSUME PlanInv, at = "printed", NEW k \in 1..Len(script),
         script[k].run \in {"install", "join"}
  PROVE  \E d \in 1..Selected : SetsUp(k, d)
<1>1. /\ CoversFirst(Selected) /\ Selected \in Nat /\ Len(devices) \in Nat
      /\ devices \in Seq(Hosts) /\ flags \in Flags /\ found \in BOOLEAN
      /\ Selected <= Len(devices)
      /\ script \in Seq(Lines)
  BY FlagTypes DEF PlanInv, PlanTypeOK, LoopInv, Selected
<1>2. /\ Selected > 0
      /\ Len(script) = LineOf(Selected)
      /\ \A l \in 1..LineOf(1) : script[l] = Opening(devices[1])[l]
      /\ \A d \in 2..Selected :
           script[LineOf(d)] =
             JoinLine(devices[d], devices[1], d <= flags.servers, flags.background)
  <2>1. Selected # 0
    <3>1. Selected = 0 => Len(script) = 0
      BY <1>1 DEF CoversFirst
    <3> QED
      BY <3>1
  <2> QED
    BY <1>1, <2>1 DEF CoversFirst
<1>3. devices[1] \in Hosts
  BY <1>1, <1>2
<1>4. Len(Opening(devices[1])) \in {2, 3}
  BY <1>1, <1>3, OpeningType
<1>5. /\ \A l \in (LineOf(1) + 1)..LineOf(Selected) : \E d \in 2..Selected : l = LineOf(d)
      /\ LineOf(1) \in Nat
      /\ LineOf(Selected) \in Nat
  <2>1. Selected \in Nat /\ Selected > 0
    BY <1>1, <1>2
  <2>2. /\ LineOf(1) \in 1..LineOf(Selected)
        /\ LineOf(Selected) \in Nat
        /\ \A l \in (LineOf(1) + 1)..LineOf(Selected) : \E d \in 2..Selected : l = LineOf(d)
    BY <2>1, <1>4, LineOfFacts
  <2> QED
    BY <2>2
<1>6. CASE k \in 1..LineOf(1)
  <2>1. script[k] = Opening(devices[1])[k]
    BY <1>2, <1>6
  <2>2. k \in 1..Len(Opening(devices[1]))
    BY <1>4, <1>6 DEF LineOf
  <2>3. k = 1 /\ script[k] = InstallLine(devices[1], FALSE)
    <3>1. CASE flags.merge /\ found
      <4>1. Opening(devices[1]) =
              <<InstallLine(devices[1], FALSE), StrayLine, TokenLine(devices[1])>>
        BY <3>1 DEF Opening
      <4>2. k \in {1, 2, 3}
        BY <4>1, <2>2
      <4> QED
        <5>1. /\ Opening(devices[1])[2].run = "--merge"
              /\ Opening(devices[1])[3].run = "node-token"
              /\ Opening(devices[1])[1] = InstallLine(devices[1], FALSE)
          BY <4>1 DEF StrayLine, TokenLine
        <5>2. k # 2 /\ k # 3
          BY <5>1, <2>1
        <5> QED
          BY <4>2, <2>1, <5>1, <5>2
    <3>2. CASE ~(flags.merge /\ found)
      <4>1. Opening(devices[1]) =
              <<InstallLine(devices[1], FALSE), TokenLine(devices[1])>>
        BY <3>2 DEF Opening
      <4>2. k \in {1, 2}
        BY <4>1, <2>2
      <4> QED
        <5>1. /\ Opening(devices[1])[2].run = "node-token"
              /\ Opening(devices[1])[1] = InstallLine(devices[1], FALSE)
          BY <4>1 DEF TokenLine
        <5>2. k # 2
          BY <5>1, <2>1
        <5> QED
          BY <4>2, <2>1, <5>1, <5>2
    <3> QED
      BY <3>1, <3>2
  <2> QED
    BY <1>1, <1>2, <2>3 DEF SetsUp, InstallLine
<1>7. CASE k \in (LineOf(1) + 1)..LineOf(Selected)
  <2>1. PICK d \in 2..Selected : k = LineOf(d)
    BY <1>5, <1>7
  <2> QED
    BY <1>1, <1>2, <2>1 DEF SetsUp
<1>8. k \in 1..LineOf(1) \/ k \in (LineOf(1) + 1)..LineOf(Selected)
  BY <1>2, <1>5
<1> QED
  BY <1>6, <1>7, <1>8

\* What a line that sets up device d says.
LEMMA SetsUpFacts ==
  ASSUME PlanInv, NEW k \in 1..Len(script), NEW d \in 1..Selected, SetsUp(k, d)
  PROVE  /\ script[k].host = devices[d]
         /\ d \in DOMAIN devices
         /\ script[k].host \in Hosts
         /\ script[k].run = "install" => d = 1
         /\ script[k].run = "join" =>
              /\ script[k].server \in BOOLEAN
              /\ Role(script[k]) = PlannedRole(d)
<1>1. /\ Selected \in Nat /\ Selected <= Len(devices) /\ devices \in Seq(Hosts)
      /\ flags.servers \in Int
  BY FlagTypes DEF PlanInv, PlanTypeOK, Selected
<1>2. d \in 1..Len(devices)
  BY <1>1
<1>3. CASE k = 1 /\ d = 1 /\ script[k].run = "install" /\ script[k].host = devices[1]
  BY <1>1, <1>2, <1>3
<1>4. CASE /\ d \in 2..Selected
           /\ script[k] = JoinLine(devices[d], devices[1], d <= flags.servers, flags.background)
  <2>1. /\ script[k].host = devices[d] /\ script[k].run = "join"
        /\ script[k].server = (d <= flags.servers)
    BY <1>4 DEF JoinLine
  <2>2. script[k].server \in BOOLEAN /\ Role(script[k]) = PlannedRole(d)
    <3>1. d # 1 /\ (d <= flags.servers) \in BOOLEAN
      BY <1>1, <1>4
    <3>2. CASE d <= flags.servers
      BY <2>1, <3>1, <3>2 DEF Role, PlannedRole
    <3>3. CASE ~(d <= flags.servers)
      BY <2>1, <3>1, <3>3 DEF Role, PlannedRole
    <3> QED
      BY <2>1, <3>1, <3>2, <3>3
  <2> QED
    BY <1>1, <1>2, <2>1, <2>2
<1> QED
  BY <1>3, <1>4 DEF SetsUp

\* No host is set up by two lines.
LEMMA TargetsDistinct ==
  ASSUME PlanInv, devices \in DeviceLists, at = "printed",
         NEW j \in 1..Len(script), script[j].run \in {"install", "join"},
         NEW k \in 1..Len(script), script[k].run \in {"install", "join"},
         script[j].host = script[k].host
  PROVE  j = k
<1>1. PICK d \in 1..Selected : SetsUp(j, d)
  BY ScriptTargets
<1>2. PICK e \in 1..Selected : SetsUp(k, e)
  BY ScriptTargets
<1>3. /\ d \in DOMAIN devices /\ e \in DOMAIN devices /\ devices[d] = devices[e]
  BY <1>1, <1>2, SetsUpFacts
<1>4. d = e
  BY <1>3, DistinctAssumption
<1> QED
  BY <1>1, <1>2, <1>4 DEF SetsUp

(***************************************************************************)
(* What one step of job k does, whichever it is.                           *)
(***************************************************************************)
JobChanges(k) ==
  /\ jobs' \in Seq(Jobs) /\ DOMAIN jobs' = DOMAIN jobs /\ Len(jobs') = Len(jobs)
  /\ \A j \in DOMAIN jobs : j # k => jobs'[j] = jobs[j]
  /\ jobs[k].at # "returned"
  /\ \/ jobs'[k].at = "returned"
     \/ /\ jobs[k].at = "fetch" /\ jobs'[k].at = "join"
        /\ jobs'[k].token = "token" \/ jobs'[k].lapse = "lost"

\* Either the host stays as it is, or it is set up by this job.
HostChanges(k) ==
  \/ k3s' = k3s
  \/ /\ jobs[k].at = "install"
     /\ k3s' = [k3s EXCEPT ![Target(k)] = Runs("server", "token")]
  \/ /\ jobs[k].at = "join" /\ jobs'[k].at = "returned"
     /\ jobs'[k].lapse = jobs[k].lapse /\ jobs'[k].token = jobs[k].token
     /\ k3s' = [k3s EXCEPT ![Target(k)] = Runs(Role(script[k]), jobs[k].token)]

NodeTokenChanges ==
  \/ nodeToken' = nodeToken
  \/ nodeToken' \in {"empty", IF prompts THEN "prompt" ELSE "token"}
       /\ (prompts => nodeToken' = "prompt")

NilChanges(k) ==
  jobs'[k].at = "returned" /\ jobs'[k].result = "nil" /\ jobs'[k].lapse = "none" =>
    \/ jobs[k].at \in {"install", "node-token"}
    \/ /\ jobs[k].at = "join" /\ jobs[k].lapse = "none"
       /\ k3s' = [k3s EXCEPT ![Target(k)] = Runs(Role(script[k]), jobs[k].token)]

\* The token comes from a server that is up.
TokenChanges(k) ==
  /\ up' => \/ up
            \/ /\ jobs[k].at = "install"
               /\ k3s' = [k3s EXCEPT ![Target(k)] = Runs("server", "token")]
  /\ nodeToken' = "token" => up \/ nodeToken = "token"
  /\ jobs'[k].token = "token" => up \/ jobs[k].token = "token"

Summary(k) ==
  /\ UNCHANGED <<planVars, prompts>>
  /\ JobChanges(k)
  /\ HostChanges(k)
  /\ NodeTokenChanges
  /\ NilChanges(k)
  /\ TokenChanges(k)

\* Changing one job.
LEMMA JobUpdate ==
  ASSUME jobs \in Seq(Jobs), NEW k \in DOMAIN jobs, NEW r \in Jobs,
         jobs' = [jobs EXCEPT ![k] = r]
  PROVE  /\ jobs' \in Seq(Jobs) /\ DOMAIN jobs' = DOMAIN jobs /\ Len(jobs') = Len(jobs)
         /\ \A j \in DOMAIN jobs : j # k => jobs'[j] = jobs[j]
         /\ jobs'[k] = r
  OBVIOUS

LEMMA ReturnUpdate ==
  ASSUME jobs \in Seq(Jobs), NEW k \in DOMAIN jobs, NEW r \in {"nil", "error"},
         Return(k, r)
  PROVE  /\ jobs' \in Seq(Jobs) /\ DOMAIN jobs' = DOMAIN jobs /\ Len(jobs') = Len(jobs)
         /\ \A j \in DOMAIN jobs : j # k => jobs'[j] = jobs[j]
         /\ jobs'[k].at = "returned" /\ jobs'[k].result = r
         /\ jobs'[k].lapse = jobs[k].lapse /\ jobs'[k].token = jobs[k].token
<1> DEFINE new == [jobs[k] EXCEPT !.at = "returned", !.result = r]
<1>0. jobs[k] \in Jobs
  OBVIOUS
<1>1. jobs' = [jobs EXCEPT ![k] = new]
  BY DEF Return
<1>2. /\ new \in Jobs /\ new.at = "returned" /\ new.result = r
      /\ new.lapse = jobs[k].lapse /\ new.token = jobs[k].token
  BY <1>0 DEF Jobs
<1> HIDE DEF new
<1> QED
  BY <1>1, <1>2, JobUpdate

LEMMA LapseUpdate ==
  ASSUME jobs \in Seq(Jobs), NEW k \in DOMAIN jobs,
         NEW what \in {"download", "lost"}, NEW where \in {"join", "returned"},
         NEW r \in {"none", "nil"}, LapseAnd(k, what, where, r)
  PROVE  /\ jobs' \in Seq(Jobs) /\ DOMAIN jobs' = DOMAIN jobs /\ Len(jobs') = Len(jobs)
         /\ \A j \in DOMAIN jobs : j # k => jobs'[j] = jobs[j]
         /\ jobs'[k].at = where /\ jobs'[k].result = r
         /\ jobs'[k].lapse = what /\ jobs'[k].token = jobs[k].token
<1> DEFINE new == [jobs[k] EXCEPT !.lapse = what, !.at = where, !.result = r]
<1>0. jobs[k] \in Jobs
  OBVIOUS
<1>1. jobs' = [jobs EXCEPT ![k] = new]
  BY DEF LapseAnd
<1>2. /\ new \in Jobs /\ new.at = where /\ new.result = r
      /\ new.lapse = what /\ new.token = jobs[k].token
  BY <1>0 DEF Jobs
<1> HIDE DEF new
<1> QED
  BY <1>1, <1>2, JobUpdate

LEMMA FetchUpdate ==
  ASSUME jobs \in Seq(Jobs), NEW k \in DOMAIN jobs, FetchToken(k)
  PROVE  /\ jobs' \in Seq(Jobs) /\ DOMAIN jobs' = DOMAIN jobs /\ Len(jobs') = Len(jobs)
         /\ \A j \in DOMAIN jobs : j # k => jobs'[j] = jobs[j]
         /\ jobs'[k].at = "join" /\ jobs'[k].token = "token"
         /\ jobs'[k].lapse = jobs[k].lapse
<1> DEFINE new == [jobs[k] EXCEPT !.at = "join", !.token = "token"]
<1>0. jobs[k] \in Jobs
  OBVIOUS
<1>1. jobs' = [jobs EXCEPT ![k] = new]
  BY DEF FetchToken
<1>2. new \in Jobs /\ new.at = "join" /\ new.token = "token" /\ new.lapse = jobs[k].lapse
  BY <1>0 DEF Jobs, Tokens
<1> HIDE DEF new
<1> QED
  BY <1>1, <1>2, JobUpdate

LEMMA JobStepSummary ==
  ASSUME TypeOK, NEW k \in DOMAIN jobs, JobStep(k)
  PROVE  Summary(k)
<1> USE DEF Summary, JobChanges, HostChanges, NodeTokenChanges, NilChanges,
            TokenChanges
<1>0. jobs \in Seq(Jobs)
  BY DEF TypeOK
<1>1. CASE NoConnection(k)
  BY <1>0, <1>1, ReturnUpdate DEF NoConnection
<1>2. CASE InstallServer(k)
  BY <1>0, <1>2, ReturnUpdate DEF InstallServer
<1>3. CASE InstallFails(k)
  BY <1>0, <1>3, ReturnUpdate DEF InstallFails
<1>4. CASE InstallLosesConfig(k)
  BY <1>0, <1>4, LapseUpdate DEF InstallLosesConfig
<1>5. CASE StrayMerge(k)
  BY <1>0, <1>5, ReturnUpdate DEF StrayMerge
<1>6. CASE NodeToken(k)
  BY <1>0, <1>6, ReturnUpdate DEF NodeToken
<1>7. CASE PrintsNoToken(k)
  BY <1>0, <1>7, ReturnUpdate DEF PrintsNoToken
<1>8. CASE FetchToken(k)
  BY <1>0, <1>8, FetchUpdate DEF FetchToken
<1>9. CASE FetchTokenFails(k)
  BY <1>0, <1>9, ReturnUpdate DEF FetchTokenFails
<1>10. CASE FetchTokenLoses(k)
  BY <1>0, <1>10, LapseUpdate DEF FetchTokenLoses
<1>11. CASE Join(k)
  BY <1>0, <1>11, ReturnUpdate DEF Join, JoinInstalls
<1>12. CASE JoinDownloadsNothing(k)
  BY <1>0, <1>12, LapseUpdate DEF JoinDownloadsNothing
<1>13. CASE JoinFails(k)
  BY <1>0, <1>13, ReturnUpdate DEF JoinFails, JoinInstalls
<1>14. CASE NoPassphrase(k)
  BY <1>0, <1>14, ReturnUpdate DEF NoPassphrase
<1> QED
  BY <1>1, <1>2, <1>3, <1>4, <1>5, <1>6, <1>7, <1>8, <1>9, <1>10, <1>11,
     <1>12, <1>13, <1>14
  DEF JobStep, Works, Breaks, NodeTokenMissing, NodeTokenFails

(***************************************************************************)
(* Every variable keeps its type.                                          *)
(***************************************************************************)
LEMMA LineType ==
  ASSUME TypeOK, IInv, NEW k \in DOMAIN jobs
  PROVE  /\ at = "printed"
         /\ k \in 1..Len(script) /\ k \in Nat /\ Len(jobs) \in Nat
         /\ jobs[k] \in Jobs
         /\ script[k] \in Lines
         /\ jobs[k].at \in {"install", "join"} => script[k].run = jobs[k].at
<1>1. jobs \in Seq(Jobs) /\ script \in Seq(Lines) /\ Len(jobs) <= Len(script)
  BY DEF TypeOK, PlanTypeOK, IInv, JobsFollowScript
<1>2. k \in 1..Len(script) /\ k \in Nat /\ Len(jobs) \in Nat /\ jobs # <<>>
  BY <1>1
<1> QED
  BY <1>1, <1>2 DEF IInv, ScriptFollowsPlan, JobsFollowScript

\* An install or join line names a host.
LEMMA TargetType ==
  ASSUME NEW line \in Lines
  PROVE  /\ line.run \in {"install", "join"} => line.host \in Hosts
         /\ line.run = "install" => line.merge \in BOOLEAN
         /\ line.run = "join" => line.server \in BOOLEAN /\ line.background \in BOOLEAN
         /\ line.run \in {"install", "--merge", "node-token", "join"}
         /\ Role(line) \in {"server", "agent"}
  BY DEF Lines, StrayLine, Role

LEMMA InitInv == Init => Inv
<1> SUFFICES ASSUME Init PROVE Inv
  OBVIOUS
<1>1. PlanInv
  BY PlanInitInv DEF Init
<1>2. jobs = <<>> /\ DOMAIN jobs = {} /\ Len(jobs) = 0
  BY DEF Init
<1>3. TypeOK
  <2>1. k3s \in [Hosts -> [role : {"none", "server", "agent"}, token : Tokens]]
    BY DEF Init, Fresh, Tokens
  <2>2. PlanTypeOK /\ jobs \in Seq(Jobs) /\ nodeToken \in Tokens
    BY <1>1, <1>2 DEF Init, PlanInv, Tokens
  <2>3. kubeconfig \in SUBSET {"others", "cluster"} /\ prompts \in BOOLEAN
        /\ up \in BOOLEAN /\ faulted \in BOOLEAN
    BY DEF Init
  <2> QED
    BY <2>1, <2>2, <2>3 DEF TypeOK
<1>4. IInv
  <2>1. \A h \in Hosts : k3s[h].role = "none"
    BY DEF Init, Fresh
  <2>2. Len(script) \in Nat /\ devices \in DeviceLists
    BY DEF Init, PlanInit
  <2> QED
    BY <1>1, <1>2, <2>1, <2>2
    DEF Init, PlanInv, IInv, ScriptFollowsPlan, JobsFollowScript, ForegroundReturned,
        PromptStays, TokenInHand, StrangeTokenFromReturned, NilJoinExplained,
        RolesAsPlanned, Joins
<1> QED
  BY <1>3, <1>4 DEF Inv

LEMMA JobStepType ==
  ASSUME Inv, NEW k \in DOMAIN jobs, JobStep(k)
  PROVE  TypeOK'
<1>1. TypeOK /\ IInv
  BY DEF Inv
<1>2. Summary(k)
  BY <1>1, JobStepSummary
<1>3. PlanTypeOK' /\ prompts' \in BOOLEAN /\ jobs' \in Seq(Jobs)
  BY <1>1, <1>2 DEF Summary, JobChanges, TypeOK, PlanTypeOK, planVars
<1>4. nodeToken' \in Tokens
  BY <1>1, <1>2 DEF Summary, NodeTokenChanges, TypeOK, Tokens
<1>5. k3s' \in [Hosts -> [role : {"none", "server", "agent"}, token : Tokens]]
  <2>1. \A role \in {"server", "agent"} : \A token \in Tokens :
          Runs(role, token) \in [role : {"none", "server", "agent"}, token : Tokens]
    BY DEF Runs
  <2>2. Role(script[k]) \in {"server", "agent"} /\ jobs[k].token \in Tokens
    BY <1>1, LineType, TargetType DEF Jobs
  <2>3. "token" \in Tokens
    BY DEF Tokens
  <2> QED
    BY <1>1, <1>2, <2>1, <2>2, <2>3 DEF Summary, HostChanges, TypeOK
<1>6. /\ kubeconfig' \in SUBSET {"others", "cluster"}
      /\ up' \in BOOLEAN /\ faulted' \in BOOLEAN
  <2>1. kubeconfig \in SUBSET {"others", "cluster"} /\ up \in BOOLEAN /\ faulted \in BOOLEAN
    BY <1>1 DEF TypeOK
  <2>2. CASE InstallServer(k)
    BY <2>1, <2>2 DEF InstallServer
  <2>3. CASE InstallFails(k) \/ InstallLosesConfig(k)
    BY <2>1, <2>3 DEF InstallFails, InstallLosesConfig, Fails
  <2>4. CASE \/ NoConnection(k) \/ StrayMerge(k) \/ NodeToken(k) \/ NodeTokenMissing(k)
             \/ NodeTokenFails(k) \/ FetchToken(k) \/ FetchTokenFails(k)
             \/ FetchTokenLoses(k)
    BY <2>1, <2>4 DEF NoConnection, StrayMerge, NodeToken, NodeTokenMissing,
      NodeTokenFails, PrintsNoToken, FetchToken, FetchTokenFails, FetchTokenLoses, Fails
  <2>5. CASE Join(k) \/ JoinDownloadsNothing(k) \/ JoinFails(k) \/ NoPassphrase(k)
    BY <2>1, <2>5 DEF Join, JoinDownloadsNothing, JoinFails, NoPassphrase, Fails
  <2> QED
    BY <2>2, <2>3, <2>4, <2>5 DEF JobStep, Works, Breaks
<1> QED
  BY <1>3, <1>4, <1>5, <1>6 DEF TypeOK

LEMMA StartLineType ==
  ASSUME Inv, StartLine
  PROVE  /\ TypeOK'
         /\ Len(jobs) \in Nat /\ Len(jobs) + 1 \in 1..Len(script)
         /\ DOMAIN jobs' = 1..(Len(jobs) + 1) /\ Len(jobs') = Len(jobs) + 1
         /\ \A j \in DOMAIN jobs : jobs'[j] = jobs[j]
         /\ DOMAIN jobs = 1..Len(jobs)
         /\ jobs'[Len(jobs) + 1].at = Start(script[Len(jobs) + 1])
         /\ jobs'[Len(jobs) + 1].token = nodeToken
         /\ jobs'[Len(jobs) + 1].result = "none"
         /\ jobs'[Len(jobs) + 1].lapse = "none"
<1> DEFINE new == [at |-> Start(script[Len(jobs) + 1]), token |-> nodeToken,
                   lapse |-> "none", result |-> "none"]
<1>1. /\ jobs \in Seq(Jobs) /\ script \in Seq(Lines) /\ nodeToken \in Tokens
      /\ Len(jobs) < Len(script)
  BY DEF Inv, TypeOK, PlanTypeOK, StartLine
<1>2. Len(jobs) \in Nat /\ Len(jobs) + 1 \in 1..Len(script)
      /\ script[Len(jobs) + 1] \in Lines
  BY <1>1
<1>3. new \in Jobs
  BY <1>1, <1>2, TargetType DEF Jobs, Start, JoinStart
<1>4. jobs' = Append(jobs, new)
  BY DEF StartLine
<1>5. /\ new.at = Start(script[Len(jobs) + 1]) /\ new.token = nodeToken
      /\ new.result = "none" /\ new.lapse = "none"
  OBVIOUS
<1> HIDE DEF new
<1>6. /\ jobs' \in Seq(Jobs)
      /\ DOMAIN jobs' = 1..(Len(jobs) + 1) /\ Len(jobs') = Len(jobs) + 1
      /\ \A j \in DOMAIN jobs : jobs'[j] = jobs[j]
      /\ DOMAIN jobs = 1..Len(jobs)
      /\ jobs'[Len(jobs) + 1] = new
  BY <1>1, <1>3, <1>4
<1>7. TypeOK'
  BY <1>6 DEF Inv, TypeOK, PlanTypeOK, StartLine, planVars
<1> QED
  BY <1>2, <1>5, <1>6, <1>7

(***************************************************************************)
(* A step of a job keeps each part of the invariant.                       *)
(***************************************************************************)
LEMMA JobStepScript ==
  ASSUME Inv, NEW k \in DOMAIN jobs, JobStep(k)
  PROVE  /\ ScriptFollowsPlan' /\ JobsFollowScript' /\ ForegroundReturned'
         /\ PromptStays'
<1>1. TypeOK /\ IInv
  BY DEF Inv
<1>2. Summary(k)
  BY <1>1, JobStepSummary
<1>3. PlanInv' /\ at = "printed" /\ at' = "printed" /\ script' = script
      /\ devices' = devices
  BY <1>1, <1>2, InvPlan, PlanStutter, LineType DEF Inv, Summary, planVars
<1>4. ScriptFollowsPlan'
  BY <1>1, <1>3 DEF IInv, ScriptFollowsPlan, PlanInv
<1>5. /\ DOMAIN jobs' = DOMAIN jobs /\ Len(jobs') = Len(jobs)
      /\ \A j \in DOMAIN jobs : j # k => jobs'[j] = jobs[j]
      /\ jobs[k].at # "returned"
      /\ \/ jobs'[k].at = "returned"
         \/ jobs[k].at = "fetch" /\ jobs'[k].at = "join"
  BY <1>2 DEF Summary, JobChanges
<1>6. JobsFollowScript'
  <2>1. jobs[k].at = "fetch" => script[k].run = "join"
    BY <1>1, LineType, TargetType DEF IInv, JobsFollowScript
  <2> QED
    BY <1>1, <1>3, <1>5, <2>1 DEF IInv, JobsFollowScript
<1>7. ForegroundReturned'
  BY <1>1, <1>3, <1>5 DEF IInv, ForegroundReturned, Background
<1>8. PromptStays'
  BY <1>1, <1>2 DEF IInv, PromptStays, Summary, NodeTokenChanges
<1> QED
  BY <1>4, <1>6, <1>7, <1>8

\* NODE_TOKEN keeps a prompt that is in it.
LEMMA PromptKept ==
  ASSUME IInv, NEW k, Summary(k), nodeToken = "prompt"
  PROVE  nodeToken' = "prompt"
  BY DEF IInv, PromptStays, Summary, NodeTokenChanges

LEMMA JobStepTokens ==
  ASSUME Inv, NEW k \in DOMAIN jobs, JobStep(k)
  PROVE  TokenInHand' /\ StrangeTokenFromReturned'
<1>1. TypeOK /\ IInv
  BY DEF Inv
<1>2. Summary(k)
  BY <1>1, JobStepSummary
<1>3. /\ DOMAIN jobs' = DOMAIN jobs /\ script' = script
      /\ \A j \in DOMAIN jobs : j # k => jobs'[j] = jobs[j]
      /\ jobs[k].at # "returned"
      /\ \/ jobs'[k].at = "returned"
         \/ /\ jobs[k].at = "fetch" /\ jobs'[k].at = "join"
            /\ jobs'[k].token = "token" \/ jobs'[k].lapse = "lost"
  BY <1>2 DEF Summary, JobChanges, planVars
<1>4. nodeToken = "prompt" => nodeToken' = "prompt"
  BY <1>1, <1>2, PromptKept
<1>5. Joins' = Joins
  BY <1>3 DEF Joins
<1>6. TokenInHand'
  <2> SUFFICES ASSUME NEW j \in Joins, jobs'[j].at = "join"
               PROVE  \/ jobs'[j].token = "token" \/ nodeToken' = "prompt"
                      \/ jobs'[j].lapse = "lost"
    BY <1>5 DEF TokenInHand
  <2>1. CASE j = k
    BY <2>1, <1>3
  <2>2. CASE j # k
    BY <2>2, <1>1, <1>3, <1>4 DEF IInv, TokenInHand, Joins
  <2> QED
    BY <2>1, <2>2
<1>7. StrangeTokenFromReturned'
  <2> SUFFICES ASSUME NEW h \in Hosts, k3s'[h].role # "none", k3s'[h].token # "token",
                      nodeToken' # "prompt"
               PROVE  \E j \in Joins : jobs'[j].at = "returned" /\ jobs'[j].lapse = "lost"
    BY <1>5 DEF StrangeTokenFromReturned
  <2>1. CASE k3s'[h] = k3s[h]
    <3>1. PICK j \in Joins : jobs[j].at = "returned" /\ jobs[j].lapse = "lost"
      BY <1>1, <1>4, <2>1 DEF IInv, StrangeTokenFromReturned
    <3>2. jobs'[j] = jobs[j]
      BY <1>3, <3>1 DEF Joins
    <3> QED
      BY <3>1, <3>2
  <2>2. CASE k3s'[h] # k3s[h]
    <3>1. /\ jobs[k].at = "join" /\ jobs'[k].at = "returned"
          /\ jobs'[k].lapse = jobs[k].lapse
          /\ jobs[k].token # "token"
      BY <1>1, <1>2, <2>2 DEF Summary, HostChanges, TypeOK, Runs
    <3>2. k \in Joins
      BY <1>1, <3>1, LineType DEF Joins
    <3>3. jobs[k].lapse = "lost"
      BY <1>1, <1>4, <3>1, <3>2 DEF IInv, TokenInHand
    <3> QED
      BY <3>1, <3>2, <3>3
  <2> QED
    BY <2>1, <2>2
<1> QED
  BY <1>6, <1>7

\* No other job sets up the host of an install or of a join.
LEMMA OtherTargets ==
  ASSUME Inv, NEW k \in DOMAIN jobs, NEW j \in DOMAIN jobs, j # k,
         script[k].run \in {"install", "join"}, script[j].run \in {"install", "join"}
  PROVE  Target(j) # Target(k)
<1>1. TypeOK /\ IInv
  BY DEF Inv
<1>2. /\ at = "printed" /\ devices \in DeviceLists /\ PlanInv
      /\ k \in 1..Len(script) /\ j \in 1..Len(script)
  BY <1>1, InvPlan, LineType DEF Inv, IInv, ScriptFollowsPlan
<1> QED
  BY <1>2, TargetsDistinct DEF Target

LEMMA JobStepNil ==
  ASSUME Inv, NEW k \in DOMAIN jobs, JobStep(k)
  PROVE  NilJoinExplained'
<1>1. TypeOK /\ IInv
  BY DEF Inv
<1>2. Summary(k)
  BY <1>1, JobStepSummary
<1>3. /\ DOMAIN jobs' = DOMAIN jobs /\ script' = script
      /\ \A j \in DOMAIN jobs : j # k => jobs'[j] = jobs[j]
  BY <1>2 DEF Summary, JobChanges, planVars
<1>4. nodeToken = "prompt" => nodeToken' = "prompt"
  BY <1>1, <1>2, PromptKept
<1>5. \A j \in DOMAIN jobs : script[j] \in Lines /\ Target(j)' = Target(j)
  BY <1>1, <1>3, LineType DEF Target
<1> SUFFICES ASSUME NEW j \in DOMAIN jobs, script[j].run = "join",
                    jobs'[j].at = "returned", jobs'[j].result = "nil",
                    jobs'[j].lapse = "none", nodeToken' # "prompt"
             PROVE  k3s'[Target(j)] = Runs(Role(script[j]), "token")
  BY <1>3, <1>5 DEF NilJoinExplained, Joins, Returned
<1>6. Target(j) \in Hosts
  BY <1>5, TargetType DEF Target
<1>7. CASE j = k
  <2>1. /\ jobs[k].at = "join" /\ jobs[k].lapse = "none"
        /\ k3s' = [k3s EXCEPT ![Target(k)] = Runs(Role(script[k]), jobs[k].token)]
    BY <1>1, <1>2, <1>7, LineType DEF Summary, NilChanges, IInv, JobsFollowScript
  <2>2. jobs[k].token = "token"
    BY <1>1, <1>4, <1>7, <2>1 DEF IInv, TokenInHand, Joins
  <2> QED
    BY <1>1, <1>6, <1>7, <2>1, <2>2 DEF TypeOK
<1>8. CASE j # k
  <2>1. k3s[Target(j)] = Runs(Role(script[j]), "token")
    BY <1>1, <1>3, <1>4, <1>8 DEF IInv, NilJoinExplained, Joins, Returned
  <2>2. CASE k3s' = k3s
    BY <2>1, <2>2
  <2>3. CASE k3s' # k3s
    <3>1. script[k].run \in {"install", "join"}
      BY <1>1, <1>2, <2>3, LineType DEF Summary, HostChanges
    <3>2. Target(j) # Target(k)
      BY <1>8, <3>1, OtherTargets
    <3> QED
      BY <1>1, <1>2, <1>6, <2>1, <3>2 DEF Summary, HostChanges, TypeOK
  <2> QED
    BY <2>2, <2>3
<1> QED
  BY <1>7, <1>8

LEMMA JobStepRoles ==
  ASSUME Inv, NEW k \in DOMAIN jobs, JobStep(k)
  PROVE  RolesAsPlanned'
<1>1. TypeOK /\ IInv
  BY DEF Inv
<1>2. Summary(k)
  BY <1>1, JobStepSummary
<1>3. Selected' = Selected /\ devices' = devices /\ \A d : PlannedRole(d)' = PlannedRole(d)
  BY <1>2 DEF Summary, planVars, Selected, PlannedRole
<1> SUFFICES ASSUME NEW h \in Hosts, k3s'[h].role # "none"
             PROVE  \E d \in 1..Selected : h = devices[d] /\ k3s'[h].role = PlannedRole(d)
  BY <1>3 DEF RolesAsPlanned
<1>4. CASE k3s'[h] = k3s[h]
  BY <1>1, <1>4 DEF IInv, RolesAsPlanned
<1>5. CASE k3s'[h] # k3s[h]
  <2>1. /\ h = Target(k)
        /\ \/ jobs[k].at = "install" /\ k3s'[h].role = "server"
           \/ jobs[k].at = "join" /\ k3s'[h].role = Role(script[k])
    BY <1>1, <1>2, <1>5 DEF Summary, HostChanges, TypeOK, Runs
  <2>2. /\ at = "printed" /\ PlanInv /\ k \in 1..Len(script)
        /\ script[k].run = jobs[k].at
    BY <1>1, <2>1, InvPlan, LineType DEF Inv
  <2>3. PICK d \in 1..Selected : SetsUp(k, d)
    BY <2>1, <2>2, ScriptTargets
  <2>4. /\ h = devices[d]
        /\ script[k].run = "install" => d = 1
        /\ script[k].run = "join" => Role(script[k]) = PlannedRole(d)
    BY <2>1, <2>2, <2>3, SetsUpFacts DEF Target
  <2> QED
    BY <2>1, <2>2, <2>4 DEF PlannedRole
<1> QED
  BY <1>4, <1>5

(***************************************************************************)
(* The shell starts a line.                                                *)
(***************************************************************************)
LEMMA StartLineInv ==
  ASSUME Inv, StartLine
  PROVE  IInv'
<1>1. TypeOK /\ IInv
  BY DEF Inv
<1> DEFINE n == Len(jobs) + 1
<1>2. /\ Len(jobs) \in Nat /\ n \in 1..Len(script)
      /\ DOMAIN jobs' = 1..n /\ Len(jobs') = n
      /\ \A j \in DOMAIN jobs : jobs'[j] = jobs[j]
      /\ DOMAIN jobs = 1..Len(jobs)
      /\ jobs'[n].at = Start(script[n]) /\ jobs'[n].token = nodeToken
      /\ jobs'[n].result = "none"
  BY StartLineType
<1>3. /\ UNCHANGED <<planVars, nodeToken, k3s, prompts>>
      /\ script' = script /\ at = "printed" /\ at' = "printed"
      /\ devices' = devices /\ flags' = flags
      /\ ~ShellWaits
  BY DEF StartLine, planVars
<1>4. ScriptFollowsPlan'
  BY <1>1, <1>3, InvPlan, PlanStutter DEF Inv, PlanInv, IInv, ScriptFollowsPlan
<1> HIDE DEF n
<1>5. \A j \in DOMAIN jobs' : j \in DOMAIN jobs \/ j = n
  BY <1>2 DEF n
<1>6. script[n] \in Lines
  BY <1>1, <1>2 DEF TypeOK, PlanTypeOK
<1>7. JobsFollowScript'
  <2>1. Len(jobs') <= Len(script')
    BY <1>1, <1>2, <1>3 DEF TypeOK, PlanTypeOK
  <2>2. \/ jobs'[n].at = script[n].run
        \/ jobs'[n].at = "fetch" /\ script[n].run = "join"
    BY <1>2 DEF Start, JoinStart
  <2> QED
    BY <1>1, <1>2, <1>3, <1>5, <2>1, <2>2 DEF IInv, JobsFollowScript
<1>8. ForegroundReturned'
  <2> SUFFICES ASSUME NEW j \in DOMAIN jobs', j < n, ~Background(script[j])
               PROVE  jobs'[j].at = "returned"
    BY <1>2, <1>3 DEF ForegroundReturned, Background
  <2>1. j \in DOMAIN jobs /\ jobs'[j] = jobs[j] /\ j \in Nat
    BY <1>2, <1>5 DEF n
  <2>2. CASE j < Len(jobs)
    BY <1>1, <2>1, <2>2 DEF IInv, ForegroundReturned
  <2>3. CASE j = Len(jobs)
    <3>1. jobs # <<>>
      BY <2>1
    <3> QED
      BY <1>3, <2>1, <2>3, <3>1 DEF ShellWaits
  <2> QED
    BY <1>2, <2>1, <2>2, <2>3 DEF n
<1>9. PromptStays'
  BY <1>1, <1>3 DEF IInv, PromptStays
<1>10. TokenInHand'
  <2> SUFFICES ASSUME NEW j \in DOMAIN jobs', script[j].run = "join", jobs'[j].at = "join"
               PROVE  \/ jobs'[j].token = "token" \/ nodeToken = "prompt"
                      \/ jobs'[j].lapse = "lost"
    BY <1>3 DEF TokenInHand, Joins
  <2>1. CASE j \in DOMAIN jobs
    BY <1>1, <1>2, <2>1 DEF IInv, TokenInHand, Joins
  <2>2. CASE j = n
    <3>1. nodeToken # "empty"
      BY <1>2, <2>2 DEF Start, JoinStart
    <3> QED
      BY <1>1, <1>2, <2>2, <3>1 DEF TypeOK, Tokens
  <2> QED
    BY <1>5, <2>1, <2>2
<1>11. \A j \in Joins : j \in Joins' /\ jobs'[j] = jobs[j]
  BY <1>2, <1>3 DEF Joins, n
<1>12. StrangeTokenFromReturned'
  BY <1>1, <1>3, <1>11 DEF IInv, StrangeTokenFromReturned
<1>13. NilJoinExplained'
  <2> SUFFICES ASSUME NEW j \in DOMAIN jobs', script[j].run = "join",
                      jobs'[j].at = "returned", jobs'[j].result = "nil",
                      jobs'[j].lapse = "none", nodeToken # "prompt"
               PROVE  k3s[Target(j)] = Runs(Role(script[j]), "token")
    BY <1>3 DEF NilJoinExplained, Joins, Returned, Target, Role
  <2>1. j \in DOMAIN jobs
    BY <1>2, <1>5
  <2> QED
    BY <1>1, <1>2, <2>1 DEF IInv, NilJoinExplained, Joins, Returned
<1>14. RolesAsPlanned'
  BY <1>1, <1>3 DEF IInv, RolesAsPlanned, Selected, PlannedRole
<1> QED
  BY <1>4, <1>7, <1>8, <1>9, <1>10, <1>12, <1>13, <1>14 DEF IInv

(***************************************************************************)
(* k3sup plan, and the steps that leave all of it alone.                   *)
(***************************************************************************)
LEMMA PlanningInv ==
  ASSUME Inv, Planning
  PROVE  Inv'
<1>1. TypeOK /\ IInv /\ PlanInv
  BY InvPlan DEF Inv
<1>2. /\ UNCHANGED <<kubeconfig, prompts, jobs, nodeToken, k3s, up, faulted>>
      /\ at \in {"start", "loop"}
      /\ UNCHANGED <<devices, flags>>
  BY DEF Planning, clusterVars, PlanNext, Refuse, Begin, SetUpPrimary, SetUpServer,
         SetUpWorker, Advance
<1>3. PlanInv'
  BY <1>1, PlanStepType, PlanStepLoop DEF Planning, PlanInv
<1>4. jobs = <<>> /\ jobs' = <<>> /\ DOMAIN jobs' = {}
  BY <1>1, <1>2 DEF IInv, ScriptFollowsPlan
<1>5. TypeOK'
  BY <1>1, <1>2, <1>3 DEF TypeOK, PlanInv
<1>6. ScriptFollowsPlan'
  BY <1>1, <1>2, <1>3, <1>4 DEF IInv, ScriptFollowsPlan, PlanInv
<1>7. JobsFollowScript' /\ ForegroundReturned' /\ TokenInHand' /\ NilJoinExplained'
  <2>1. Len(jobs') = 0 /\ Len(script') \in Nat
    BY <1>3, <1>4 DEF PlanInv, PlanTypeOK
  <2> QED
    BY <1>4, <2>1
    DEF JobsFollowScript, ForegroundReturned, TokenInHand, NilJoinExplained, Joins
<1>8. PromptStays'
  BY <1>1, <1>2 DEF IInv, PromptStays
<1>9. StrangeTokenFromReturned'
  <2>1. Joins = {}
    BY <1>4 DEF Joins
  <2> QED
    BY <1>1, <1>2, <2>1 DEF IInv, StrangeTokenFromReturned
<1>10. RolesAsPlanned'
  BY <1>1, <1>2 DEF IInv, RolesAsPlanned, Selected, PlannedRole
<1> QED
  BY <1>5, <1>6, <1>7, <1>8, <1>9, <1>10 DEF Inv, IInv

LEMMA QuietInv ==
  ASSUME Inv, UNCHANGED <<planVars, kubeconfig, prompts, jobs, nodeToken, k3s>>,
         up' \in BOOLEAN, faulted' \in BOOLEAN
  PROVE  Inv'
<1>1. TypeOK /\ IInv /\ PlanInv
  BY InvPlan DEF Inv
<1>2. PlanInv' /\ UNCHANGED <<devices, flags, at, script>>
  BY <1>1, PlanStutter DEF planVars
<1>3. TypeOK'
  BY <1>1, <1>2 DEF TypeOK, PlanInv
<1>4. ScriptFollowsPlan'
  BY <1>1, <1>2 DEF IInv, ScriptFollowsPlan, PlanInv
<1>5. Joins' = Joins
  BY <1>2 DEF Joins
<1>6. JobsFollowScript' /\ ForegroundReturned' /\ PromptStays' /\ TokenInHand'
  BY <1>1, <1>2, <1>5
  DEF IInv, JobsFollowScript, ForegroundReturned, Background, PromptStays, TokenInHand
<1>7. StrangeTokenFromReturned' /\ NilJoinExplained'
  BY <1>1, <1>2, <1>5
  DEF IInv, StrangeTokenFromReturned, NilJoinExplained, Returned, Target, Role
<1>8. RolesAsPlanned'
  BY <1>1, <1>2 DEF IInv, RolesAsPlanned, Selected, PlannedRole
<1> QED
  BY <1>3, <1>4, <1>6, <1>7, <1>8 DEF Inv, IInv

(***************************************************************************)
(* The invariant holds throughout. It is needed because none of the        *)
(* properties says what a join that has not yet installed holds, nor which *)
(* lines the jobs come from.                                               *)
(***************************************************************************)
THEOREM Invariance == Spec => []Inv
<1>1. Inv /\ [Next]_vars => Inv'
  <2> SUFFICES ASSUME Inv, [Next]_vars PROVE Inv'
    OBVIOUS
  <2>1. CASE Planning
    BY <2>1, PlanningInv
  <2>2. CASE StartLine
    BY <2>2, StartLineType, StartLineInv DEF Inv
  <2>3. CASE ServerComesUp
    BY <2>3, QuietInv DEF ServerComesUp, Inv, TypeOK
  <2>4. ASSUME NEW k \in DOMAIN jobs, JobStep(k) PROVE Inv'
    BY <2>4, JobStepType, JobStepScript, JobStepTokens, JobStepNil, JobStepRoles
    DEF Inv, IInv
  <2>5. CASE UNCHANGED vars
    BY <2>5, QuietInv DEF vars, clusterVars, Inv, TypeOK
  <2> QED
    BY <2>1, <2>2, <2>3, <2>4, <2>5 DEF Next
<1> QED
  BY InitInv, <1>1, PTL DEF Spec

(***************************************************************************)
(* Every variable keeps its type, in the planner, the shell and the        *)
(* commands.                                                               *)
(***************************************************************************)
THEOREM TypeCorrect == Spec => []TypeOK
<1>1. Inv => TypeOK
  BY DEF Inv
<1> QED
  BY Invariance, <1>1, PTL

(***************************************************************************)
(* No host is set up in a role that the plan does not give it. (plan.go    *)
(* 127-182, join.go 239-247)                                               *)
(***************************************************************************)
THEOREM RolesHold == Spec => []RolesAsPlanned
<1>1. Inv => RolesAsPlanned
  BY DEF Inv, IInv
<1> QED
  BY Invariance, <1>1, PTL

(***************************************************************************)
(* No join starts before install and node-token have returned. (plan.go    *)
(* 128-155)                                                                *)
(***************************************************************************)
THEOREM TokenFirst == Spec => []NoJoinBeforeToken
<1>1. Inv => NoJoinBeforeToken
  <2> SUFFICES ASSUME Inv, NEW k \in Joins, NEW j \in 1..(k - 1), script[j].run # "join"
               PROVE  jobs[j].at = "returned"
    BY DEF NoJoinBeforeToken
  <2>1. k \in 1..Len(jobs) /\ Len(jobs) \in Nat /\ DOMAIN jobs = 1..Len(jobs)
    BY DEF Joins, Inv, TypeOK
  <2>2. j \in DOMAIN jobs /\ j < Len(jobs)
    BY <2>1
  <2> QED
    BY <2>2 DEF Inv, IInv, ForegroundReturned, Background
<1> QED
  BY Invariance, <1>1, PTL

(***************************************************************************)
(* A host with a token that is not the cluster's got it from the prompt or *)
(* from a fetch whose output was lost. (join.go 91-103, 200-237)                 *)
(***************************************************************************)
THEOREM StrangeTokens == Spec => []StrangeTokenExplained
<1>1. Inv => StrangeTokenExplained
  BY DEF Inv, IInv, StrangeTokenFromReturned, StrangeTokenExplained
<1> QED
  BY Invariance, <1>1, PTL

(***************************************************************************)
(* What a join that returned nil has done, and until the end: no other     *)
(* line of the script undoes it. (join.go 239-254)                         *)
(***************************************************************************)
THEOREM NilJoins == Spec => []NilJoinExplained
<1>1. Inv => NilJoinExplained
  BY DEF Inv, IInv
<1> QED
  BY Invariance, <1>1, PTL

--------------------------------------------------------------------------------
(***************************************************************************)
(*               The cluster forms as ClusterFormation says                *)
(***************************************************************************)
LEMMA FormInit ==
  ASSUME Init
  PROVE  FormInv
<1>1. \A h \in Hosts : k3s[h] = Fresh
  BY DEF Init
<1>2. ~up /\ nodeToken = "empty" /\ DOMAIN jobs = {}
  BY DEF Init
<1> QED
  BY <1>1, <1>2 DEF FormInv, SetUpByItsLine, TokenFromFounder

\* A script that is not empty has a first host.
LEMMA FirstHost ==
  ASSUME PlanInv, at = "printed", script # <<>>
  PROVE  /\ Selected \in Nat /\ Selected > 0 /\ Selected <= Len(devices)
         /\ devices \in Seq(Hosts) /\ devices[1] \in Hosts
         /\ primaryServer = devices[1]
<1>1. /\ CoversFirst(Selected) /\ i = Selected
      /\ Selected \in Nat /\ Selected <= Len(devices) /\ devices \in Seq(Hosts)
      /\ i > 0 => primaryServer = devices[1]
  BY FlagTypes DEF PlanInv, PlanTypeOK, LoopInv, Selected
<1>2. Selected > 0
  BY <1>1 DEF CoversFirst
<1> QED
  BY <1>1, <1>2

\* install sets up the first host.
LEMMA InstallTarget ==
  ASSUME Inv, NEW k \in DOMAIN jobs, script[k].run = "install"
  PROVE  Target(k) = devices[1] /\ Target(k) \in Hosts
<1>1. at = "printed" /\ PlanInv /\ k \in 1..Len(script)
  BY InvPlan, LineType DEF Inv
<1>2. PICK d \in 1..Selected : SetsUp(k, d)
  BY <1>1, ScriptTargets
<1> QED
  BY <1>1, <1>2, SetsUpFacts DEF Target

\* The host of a line that has not returned is fresh.
LEMMA FreshTarget ==
  ASSUME Inv, FormInv, NEW k \in DOMAIN jobs, script[k].run \in {"install", "join"},
         jobs[k].at # "returned"
  PROVE  Target(k) \in Hosts /\ k3s[Target(k)] = Fresh
<1>1. Target(k) \in Hosts
  BY LineType, TargetType DEF Inv, Target
<1>2. ASSUME NEW j \in DOMAIN jobs, script[j].run \in {"install", "join"},
             jobs[j].at = "returned"
      PROVE  Target(k) # Target(j)
  BY <1>2, OtherTargets
<1> QED
  BY <1>1, <1>2 DEF FormInv, SetUpByItsLine

\* A job changes no host but the fresh one of its line.
LEMMA OthersKept ==
  ASSUME Inv, FormInv, NEW k \in DOMAIN jobs, Summary(k), NEW h \in Hosts
  PROVE  \/ k3s'[h] = k3s[h]
         \/ /\ h = Target(k) /\ k3s[h] = Fresh
            /\ script[k].run \in {"install", "join"} /\ jobs[k].at # "returned"
            /\ jobs'[k].at = "returned"
            /\ k3s'[h] = SetUpBy(k)'
<1>1. TypeOK /\ IInv
  BY DEF Inv
<1>2. CASE k3s' = k3s
  BY <1>2
<1>3. CASE k3s' # k3s /\ h # Target(k)
  BY <1>1, <1>3 DEF Summary, HostChanges, TypeOK
<1>4. CASE k3s' # k3s /\ h = Target(k)
  <2>1. /\ jobs[k].at \in {"install", "join"} /\ script[k].run = jobs[k].at
        /\ script' = script
    BY <1>1, <1>4, LineType DEF Summary, HostChanges, planVars
  <2>2. jobs'[k].at = "returned"
    BY <2>1, <1>4 DEF Summary, JobChanges, HostChanges
  <2>3. k3s[h] = Fresh
    BY <1>4, <2>1, FreshTarget
  <2>4. k3s'[h] = SetUpBy(k)'
    <3>1. CASE jobs[k].at = "install"
      BY <1>1, <1>4, <2>1, <3>1 DEF Summary, HostChanges, TypeOK, SetUpBy
    <3>2. CASE jobs[k].at = "join"
      BY <1>1, <1>4, <2>1, <3>2 DEF Summary, HostChanges, TypeOK, SetUpBy
    <3> QED
      BY <2>1, <3>1, <3>2
  <2> QED
    BY <1>4, <2>1, <2>2, <2>3, <2>4
<1> QED
  BY <1>2, <1>3, <1>4

LEMMA JobStepForm ==
  ASSUME Inv, FormInv, NEW k \in DOMAIN jobs, JobStep(k)
  PROVE  FormInv'
<1>1. TypeOK /\ IInv
  BY DEF Inv
<1>2. Summary(k)
  BY <1>1, JobStepSummary
<1>3. /\ DOMAIN jobs' = DOMAIN jobs /\ script' = script /\ devices' = devices
      /\ \A j \in DOMAIN jobs : j # k => jobs'[j] = jobs[j]
      /\ jobs[k].at # "returned"
  BY <1>2 DEF Summary, JobChanges, planVars
<1>4. SetUpByItsLine'
  <2> SUFFICES ASSUME NEW h \in Hosts, k3s'[h] # Fresh
               PROVE  \E j \in DOMAIN jobs :
                        /\ script[j].run \in {"install", "join"}
                        /\ jobs'[j].at = "returned"
                        /\ h = Target(j)'
                        /\ k3s'[h] = SetUpBy(j)'
    BY <1>3 DEF SetUpByItsLine, Fresh
  <2>1. CASE k3s'[h] = k3s[h]
    <3>1. PICK j \in DOMAIN jobs :
            /\ script[j].run \in {"install", "join"} /\ jobs[j].at = "returned"
            /\ h = Target(j) /\ k3s[h] = SetUpBy(j)
      BY <2>1 DEF FormInv, SetUpByItsLine
    <3>2. jobs'[j] = jobs[j]
      BY <1>3, <3>1
    <3> QED
      BY <1>3, <2>1, <3>1, <3>2 DEF Target, SetUpBy, Role, Runs
  <2>2. CASE k3s'[h] # k3s[h]
    BY <1>2, <1>3, <2>2, OthersKept DEF Target
  <2> QED
    BY <2>1, <2>2
<1>5. TokenFromFounder'
  <2>1. k3s[devices[1]] = Runs("server", "token") => k3s'[devices[1]] = k3s[devices[1]]
    <3> SUFFICES ASSUME k3s[devices[1]] = Runs("server", "token")
                 PROVE  k3s'[devices[1]] = k3s[devices[1]]
      OBVIOUS
    <3>1. Runs("server", "token") # Fresh
      BY DEF Runs, Fresh
    <3>2. devices[1] \in Hosts
      BY <1>1, InvPlan, LineType, FirstHost
    <3> QED
      BY <1>2, <3>1, <3>2, OthersKept
  <2>2. ASSUME up' \/ nodeToken' = "token" \/ \E j \in DOMAIN jobs : jobs'[j].token = "token"
        PROVE  k3s'[devices[1]] = Runs("server", "token")
    <3>1. \/ up \/ nodeToken = "token" \/ \E j \in DOMAIN jobs : jobs[j].token = "token"
          \/ /\ jobs[k].at = "install"
             /\ k3s' = [k3s EXCEPT ![Target(k)] = Runs("server", "token")]
      BY <1>2, <1>3, <2>2 DEF Summary, TokenChanges
    <3>2. CASE up \/ nodeToken = "token" \/ \E j \in DOMAIN jobs : jobs[j].token = "token"
      BY <2>1, <3>2 DEF FormInv, TokenFromFounder
    <3>3. CASE /\ jobs[k].at = "install"
               /\ k3s' = [k3s EXCEPT ![Target(k)] = Runs("server", "token")]
      <4>1. Target(k) = devices[1] /\ Target(k) \in Hosts
        BY <1>1, <3>3, LineType, InstallTarget
      <4> QED
        BY <1>1, <3>3, <4>1 DEF TypeOK
    <3> QED
      BY <3>1, <3>2, <3>3
  <2> QED
    BY <1>3, <2>2 DEF TokenFromFounder, Runs
<1> QED
  BY <1>4, <1>5 DEF FormInv

LEMMA StartLineForm ==
  ASSUME Inv, FormInv, StartLine
  PROVE  FormInv'
<1> DEFINE n == Len(jobs) + 1
<1>1. /\ DOMAIN jobs' = 1..n /\ DOMAIN jobs = 1..Len(jobs) /\ Len(jobs) \in Nat
      /\ \A j \in DOMAIN jobs : jobs'[j] = jobs[j]
      /\ jobs'[n].token = nodeToken
  BY StartLineType
<1>2. UNCHANGED <<devices, script, nodeToken, k3s, up>>
  BY DEF StartLine, planVars
<1> HIDE DEF n
<1>3. \A j \in DOMAIN jobs' : j \in DOMAIN jobs \/ j = n
  BY <1>1 DEF n
<1>4. SetUpByItsLine'
  <2>1. \A j \in DOMAIN jobs : /\ j \in DOMAIN jobs'
                               /\ Target(j)' = Target(j) /\ SetUpBy(j)' = SetUpBy(j)
    BY <1>1, <1>2 DEF n, Target, SetUpBy, Role, Runs
  <2> QED
    BY <1>1, <1>2, <2>1 DEF FormInv, SetUpByItsLine, Fresh
<1>5. TokenFromFounder'
  BY <1>1, <1>2, <1>3 DEF FormInv, TokenFromFounder, Runs
<1> QED
  BY <1>4, <1>5 DEF FormInv

\* Only the first host can come up, and only after install.
LEMMA ComesUpForm ==
  ASSUME Inv, FormInv, ServerComesUp
  PROVE  FormInv'
<1>1. /\ UNCHANGED <<devices, script, jobs, nodeToken, k3s>>
      /\ at = "printed"
  BY DEF ServerComesUp, planVars
<1>2. PICK h \in Hosts : h = primaryServer /\ k3s[h].role = "server"
  BY DEF ServerComesUp
<1>3. PICK k \in DOMAIN jobs :
        /\ script[k].run \in {"install", "join"} /\ h = Target(k) /\ k3s[h] = SetUpBy(k)
  BY <1>2 DEF FormInv, SetUpByItsLine, Fresh
<1>4. k \in 1..Len(script) /\ PlanInv /\ script # <<>>
  BY InvPlan, LineType DEF Inv, TypeOK, PlanTypeOK
<1>5. h = devices[1]
  BY <1>1, <1>2, <1>4, FirstHost
<1>6. script[k].run = "install"
  <2>1. PICK d \in 1..Selected : SetsUp(k, d)
    BY <1>1, <1>3, <1>4, ScriptTargets
  <2>2. devices[d] = devices[1] /\ d \in DOMAIN devices /\ 1 \in DOMAIN devices
    <3>1. devices[d] = script[k].host /\ d \in DOMAIN devices
      BY <1>4, <2>1, SetsUpFacts
    <3>2. 1 \in DOMAIN devices
      BY <1>1, <1>4, FirstHost
    <3> QED
      BY <1>3, <1>5, <3>1, <3>2 DEF Target
  <2>3. d = 1
    BY <2>2, DistinctAssumption DEF Inv, IInv, ScriptFollowsPlan
  <2> QED
    BY <2>1, <2>3 DEF SetsUp
<1>7. k3s[devices[1]] = Runs("server", "token")
  BY <1>3, <1>5, <1>6 DEF SetUpBy
<1> QED
  BY <1>1, <1>7
  DEF FormInv, SetUpByItsLine, TokenFromFounder, SetUpBy, Target, Role, Runs, Fresh

\* As long as there are no jobs, all hosts are fresh.
LEMMA PlanningForm ==
  ASSUME Inv, FormInv, Planning
  PROVE  FormInv' /\ jobs = <<>>
<1>1. UNCHANGED <<jobs, nodeToken, k3s, up>> /\ at # "printed" /\ devices' = devices
  BY DEF Planning, clusterVars, PlanNext, Refuse, Begin, SetUpPrimary, SetUpServer,
         SetUpWorker, Advance
<1>2. jobs = <<>> /\ DOMAIN jobs = {}
  BY <1>1 DEF Inv, IInv, ScriptFollowsPlan
<1>3. \A h \in Hosts : k3s[h] = Fresh
  BY <1>2 DEF FormInv, SetUpByItsLine
<1> QED
  BY <1>1, <1>2, <1>3 DEF FormInv, SetUpByItsLine, TokenFromFounder, Fresh, Runs

LEMMA StutterForm ==
  ASSUME FormInv, UNCHANGED vars
  PROVE  FormInv'
  BY DEF FormInv, SetUpByItsLine, TokenFromFounder, SetUpBy, Target, Role, Runs, Fresh,
         vars, planVars, clusterVars

(***************************************************************************)
(* A host is set up by its own line alone, and whoever has the token has   *)
(* it from the first host, which is a server by then. (join.go 91-103,     *)
(* 200-247, plan.go 127-182)                                               *)
(***************************************************************************)
THEOREM FormInvariance == Spec => []FormInv
<1>1. Inv /\ FormInv /\ [Next]_vars => FormInv'
  BY PlanningForm, StartLineForm, ComesUpForm, JobStepForm, StutterForm DEF Next
<1>2. Init => FormInv
  BY FormInit
<1> QED
  BY Invariance, <1>1, <1>2, PTL DEF Spec

(***************************************************************************)
(* The steps of ClusterFormation.                                          *)
(***************************************************************************)
\* Setting up a fresh host makes it a member, if it was given the cluster's token.
LEMMA MemberUpdate ==
  ASSUME NEW h \in Hosts, NEW role \in {"server", "agent"}, NEW token \in Tokens,
         k3s \in [Hosts -> [role : {"none", "server", "agent"}, token : Tokens]],
         k3s[h] = Fresh, k3s' = [k3s EXCEPT ![h] = Runs(role, token)]
  PROVE  /\ Member[h] = "none"
         /\ token = "token" => Member' = [Member EXCEPT ![h] = role]
         /\ token # "token" => Member' = Member
<1>1. /\ Member[h] = "none"
      /\ \A g \in Hosts : g # h => k3s'[g] = k3s[g]
      /\ k3s'[h] = Runs(role, token)
  BY DEF Member, Fresh
<1>2. CASE token = "token"
  BY <1>1, <1>2 DEF Member, Runs
<1>3. CASE token # "token"
  BY <1>1, <1>3 DEF Member, Runs, Fresh
<1> QED
  BY <1>1, <1>2, <1>3

LEMMA OrderFacts ==
  ASSUME at = "printed", NEW d \in 1..Selected
  PROVE  /\ d \in DOMAIN Order
         /\ Order[d].host = devices[d] /\ Order[d].role = PlannedRole(d)
  BY DEF Order

\* A step of a job is Enter for the device of its line, or changes no membership.
LEMMA JobStepRefines ==
  ASSUME Inv, FormInv, NEW k \in DOMAIN jobs, JobStep(k)
  PROVE  Formation!Next \/ UNCHANGED Formation!vars
<1>1. TypeOK /\ IInv
  BY DEF Inv
<1>2. Summary(k)
  BY <1>1, JobStepSummary
<1>3. Order' = Order
  BY <1>2 DEF Summary, planVars, Order, Selected, PlannedRole
<1>4. CASE k3s' = k3s
  BY <1>3, <1>4 DEF Member, Formation!vars
<1>5. CASE k3s' # k3s
  <2>1. /\ jobs[k].at \in {"install", "join"} /\ script[k].run = jobs[k].at
        /\ jobs[k].at # "returned"
    BY <1>1, <1>2, <1>5, LineType DEF Summary, HostChanges
  <2>2. /\ at = "printed" /\ PlanInv /\ k \in 1..Len(script) /\ script # <<>>
        /\ jobs[k].token \in Tokens
    BY <1>1, InvPlan, LineType DEF Inv, TypeOK, PlanTypeOK, Jobs
  <2>3. PICK d \in 1..Selected : SetsUp(k, d)
    BY <2>1, <2>2, ScriptTargets
  <2>4. Target(k) = devices[d] /\ Target(k) \in Hosts /\ k3s[Target(k)] = Fresh
    BY <2>1, <2>2, <2>3, SetsUpFacts, FreshTarget DEF Target
  <2>5. /\ d \in DOMAIN Order
        /\ Order[d].host = Target(k) /\ Order[d].role = PlannedRole(d)
    BY <2>2, <2>4, OrderFacts
  <2>6. CASE jobs[k].at = "install"
    <3>1. d = 1 /\ PlannedRole(d) = "server"
      BY <2>1, <2>2, <2>3, <2>6, SetsUpFacts DEF PlannedRole
    <3>2. k3s' = [k3s EXCEPT ![Target(k)] = Runs("server", "token")]
      BY <1>2, <1>5, <2>6 DEF Summary, HostChanges
    <3>3. Member[Target(k)] = "none" /\ Member' = [Member EXCEPT ![Target(k)] = "server"]
      BY <1>1, <2>4, <3>2, MemberUpdate DEF TypeOK, Tokens
    <3>4. ~(d > 1) /\ Order[d].role = "server"
      BY <2>5, <3>1
    <3>5. Formation!Enter(d)
      BY <1>3, <2>5, <3>3, <3>4 DEF Formation!Enter
    <3> QED
      BY <2>5, <3>5 DEF Formation!Next
  <2>7. CASE jobs[k].at = "join"
    <3>1. /\ Role(script[k]) = PlannedRole(d)
          /\ Role(script[k]) \in {"server", "agent"}
      BY <2>1, <2>2, <2>3, <2>7, SetsUpFacts DEF Role
    <3>2. k3s' = [k3s EXCEPT ![Target(k)] = Runs(Role(script[k]), jobs[k].token)]
      BY <1>2, <1>5, <2>7 DEF Summary, HostChanges
    <3>3. /\ Member[Target(k)] = "none"
          /\ jobs[k].token = "token" =>
               Member' = [Member EXCEPT ![Target(k)] = PlannedRole(d)]
          /\ jobs[k].token # "token" => Member' = Member
      BY <1>1, <2>2, <2>4, <3>1, <3>2, MemberUpdate DEF TypeOK
    <3>4. CASE jobs[k].token # "token"
      BY <1>3, <3>3, <3>4 DEF Formation!vars
    <3>5. CASE jobs[k].token = "token"
      <4>1. Order[1].host = devices[1] /\ devices[1] \in Hosts
        BY <2>2, FirstHost, OrderFacts
      <4>2. Member[devices[1]] = "server"
        BY <3>5, <4>1 DEF FormInv, TokenFromFounder, Member, Runs
      <4>3. Formation!Enter(d)
        BY <1>3, <2>5, <3>3, <3>5, <4>1, <4>2 DEF Formation!Enter, Formation!Founder
      <4> QED
        BY <2>5, <4>3 DEF Formation!Next
    <3> QED
      BY <3>4, <3>5
  <2> QED
    BY <2>1, <2>6, <2>7
<1> QED
  BY <1>4, <1>5

\* The step of plan that ends the loop is MakePlan, if there is a device.
LEMMA PlanningRefines ==
  ASSUME Inv, Planning
  PROVE  Formation!Next \/ UNCHANGED Formation!vars
<1>1. k3s' = k3s /\ at # "printed" /\ devices' = devices /\ flags' = flags
  BY DEF Planning, clusterVars, PlanNext, Refuse, Begin, SetUpPrimary, SetUpServer,
         SetUpWorker, Advance
<1>2. Order = <<>> /\ Member' = Member
  BY <1>1 DEF Order, Member
<1>3. CASE at' # "printed"
  BY <1>2, <1>3 DEF Order, Formation!vars
<1>4. CASE at' = "printed"
  <2>1. /\ Selected \in Nat /\ Selected <= Len(devices)
        /\ devices \in Seq(Hosts) /\ devices \in DeviceLists
    BY FlagTypes DEF Inv, TypeOK, PlanTypeOK, IInv, ScriptFollowsPlan, Selected
  <2>2. Order' = [d \in 1..Selected |-> [host |-> devices[d], role |-> PlannedRole(d)]]
    BY <1>1, <1>4 DEF Order, Selected, PlannedRole
  <2>3. \A d \in 1..Selected :
          /\ d \in DOMAIN devices
          /\ [host |-> devices[d], role |-> PlannedRole(d)] \in Formation!Entry
    BY <2>1 DEF Formation!Entry, PlannedRole
  <2>4. /\ Order' \in Seq(Formation!Entry) /\ Len(Order') = Selected
        /\ DOMAIN Order' = 1..Selected
    BY <2>1, <2>2, <2>3
  <2>5. CASE Selected = 0
    BY <1>2, <2>4, <2>5 DEF Formation!vars
  <2>6. CASE Selected # 0
    <3>1. Order' # <<>>
      BY <2>1, <2>4, <2>6
    <3>2. Order'[1].role = "server"
      BY <2>1, <2>2, <2>6 DEF PlannedRole
    <3>3. \A d, e \in DOMAIN Order' : Order'[d].host = Order'[e].host => d = e
      BY <2>1, <2>2, <2>3, <2>4, DistinctAssumption
    <3> QED
      BY <1>2, <2>4, <3>1, <3>2, <3>3 DEF Formation!MakePlan, Formation!Next
  <2> QED
    BY <2>5, <2>6
<1> QED
  BY <1>3, <1>4

(***************************************************************************)
(* ClusterSetup implements ClusterFormation: whatever fails, and in        *)
(* whatever order the joins end, the first host founds the cluster, and    *)
(* the others enter it afterwards, once each and in their roles. (plan.go  *)
(* 127-182, join.go 200-247)                                               *)
(***************************************************************************)
THEOREM Refinement == Spec => FormsCluster
<1>1. Init => Formation!Init
  <2> SUFFICES ASSUME Init PROVE Order = <<>> /\ Member = [h \in Hosts |-> "none"]
    BY DEF Formation!Init
  <2> QED
    BY DEF Init, PlanInit, Order, Member, Fresh
<1>2. Inv /\ FormInv /\ [Next]_vars => [Formation!Next]_(Formation!vars)
  <2> SUFFICES ASSUME Inv, FormInv, [Next]_vars
               PROVE  Formation!Next \/ UNCHANGED Formation!vars
    OBVIOUS
  <2>1. CASE Planning
    BY <2>1, PlanningRefines
  <2>2. CASE StartLine \/ ServerComesUp \/ UNCHANGED vars
    <3>1. UNCHANGED <<planVars, k3s>>
      BY <2>2 DEF StartLine, ServerComesUp, vars, clusterVars
    <3> QED
      BY <3>1 DEF planVars, Order, Member, Selected, PlannedRole, Formation!vars
  <2>3. ASSUME NEW k \in DOMAIN jobs, JobStep(k)
        PROVE  Formation!Next \/ UNCHANGED Formation!vars
    BY <2>3, JobStepRefines
  <2> QED
    BY <2>1, <2>2, <2>3 DEF Next
<1> QED
  BY <1>1, <1>2, Invariance, FormInvariance, PTL DEF Spec, FormsCluster, Formation!Spec

--------------------------------------------------------------------------------
(***************************************************************************)
(*              Without a fault the whole cluster comes about              *)
(***************************************************************************)
\* The first line is install, and no other is.
LEMMA FirstLine ==
  ASSUME PlanInv, at = "printed", script # <<>>
  PROVE  /\ script[1].run = "install" /\ 1 \in 1..Len(script)
         /\ \A k \in 1..Len(script) : script[k].run = "install" => k = 1
<1>1. /\ CoversFirst(Selected) /\ Selected \in Nat /\ Selected > 0
      /\ devices[1] \in Hosts /\ flags \in Flags /\ found \in BOOLEAN
      /\ script \in Seq(Lines)
  BY FirstHost DEF PlanInv, PlanTypeOK, LoopInv
<1>2. Len(Opening(devices[1])) \in {2, 3}
  BY <1>1, OpeningType
<1>3. script[1] = Opening(devices[1])[1]
  BY <1>1, <1>2 DEF CoversFirst, LineOf
<1>4. Opening(devices[1])[1] = InstallLine(devices[1], FALSE)
  BY DEF Opening
<1>5. 1 \in 1..Len(script)
  BY <1>1
<1>6. ASSUME NEW k \in 1..Len(script), script[k].run = "install" PROVE k = 1
  <2>1. PICK d \in 1..Selected : SetsUp(k, d)
    BY <1>6, ScriptTargets
  <2> QED
    BY <1>6, <2>1 DEF SetsUp, JoinLine
<1> QED
  BY <1>3, <1>4, <1>5, <1>6 DEF InstallLine

\* The joins start behind install.
LEMMA JoinBehindInstall ==
  ASSUME Inv, NEW k \in Joins
  PROVE  InstallDone
<1>1. /\ k \in DOMAIN jobs /\ script[k].run = "join"
      /\ DOMAIN jobs = 1..Len(jobs) /\ Len(jobs) \in Nat
  BY DEF Joins, Inv, TypeOK
<1>2. /\ at = "printed" /\ PlanInv /\ script # <<>>
  BY <1>1, InvPlan, LineType DEF Inv, TypeOK, PlanTypeOK
<1>3. script[1].run = "install"
  BY <1>2, FirstLine
<1>4. 1 \in DOMAIN jobs /\ 1 < Len(jobs) /\ jobs # <<>>
  BY <1>1, <1>3
<1> QED
  BY <1>3, <1>4 DEF Inv, IInv, ForegroundReturned, Background, InstallDone

\* What a join that is about to install has in hand, as long as nothing has failed.
LEMMA SmoothToken ==
  ASSUME Inv, SmoothInv, Smooth, NEW k \in Joins
  PROVE  /\ up /\ nodeToken # "prompt" /\ jobs[k].lapse = "none"
         /\ jobs[k].at = "join" => jobs[k].token = "token"
<1>1. up /\ jobs[k].lapse = "none"
  BY JoinBehindInstall DEF SmoothInv, Joins
<1>2. nodeToken # "prompt"
  BY DEF Inv, IInv, PromptStays, Smooth
<1> QED
  BY <1>1, <1>2 DEF Inv, IInv, TokenInHand

\* What a step of job k does, if nothing fails and nothing has.
SmoothStep(k) ==
  /\ jobs'[k].lapse = jobs[k].lapse
  /\ script[k].run = "join" /\ jobs'[k].at = "returned" => jobs'[k].result = "nil"
  /\ IF jobs[k].at = "install" THEN up' /\ "cluster" \in kubeconfig'
     ELSE UNCHANGED <<up, kubeconfig>>

LEMMA JobStepIsSmooth ==
  ASSUME Inv, SmoothInv, NEW k \in DOMAIN jobs, JobStep(k), Smooth'
  PROVE  Smooth /\ SmoothStep(k)
<1>0. /\ TypeOK /\ jobs \in Seq(Jobs)
      /\ jobs[k].at \in {"install", "fetch", "join"} =>
           script[k].run = IF jobs[k].at = "install" THEN "install" ELSE "join"
      /\ jobs[k].at \in {"--merge", "node-token"} => script[k].run = jobs[k].at
  BY LineType, TargetType DEF Inv, TypeOK, IInv, JobsFollowScript
<1>1. Smooth /\ UNCHANGED prompts /\ faulted' = faulted
  BY DEF Smooth, JobStep, Works, Breaks, NoConnection, InstallServer, InstallFails,
         InstallLosesConfig, StrayMerge, NodeToken, PrintsNoToken, NodeTokenMissing,
         NodeTokenFails, FetchToken, FetchTokenFails, FetchTokenLoses, Join,
         JoinDownloadsNothing, JoinFails, NoPassphrase, Fails
<1> USE DEF SmoothStep
<1>2. CASE InstallServer(k)
  <2>1. jobs[k].at = "install" /\ Return(k, "nil")
    BY <1>2 DEF InstallServer
  <2>2. up' /\ "cluster" \in kubeconfig'
    BY <1>2 DEF InstallServer
  <2>3. jobs'[k].lapse = jobs[k].lapse /\ jobs'[k].result = "nil"
    BY <1>0, <2>1, ReturnUpdate
  <2> QED
    BY <1>1, <2>1, <2>2, <2>3
<1>3. CASE StrayMerge(k) \/ NodeToken(k) \/ NodeTokenMissing(k)
  <2>1. jobs[k].at \in {"--merge", "node-token"} /\ UNCHANGED <<up, kubeconfig>>
    BY <1>3 DEF StrayMerge, NodeToken, NodeTokenMissing, PrintsNoToken
  <2>2. Return(k, "nil") \/ Return(k, "error")
    BY <1>3 DEF StrayMerge, NodeToken, NodeTokenMissing, PrintsNoToken
  <2>3. jobs'[k].lapse = jobs[k].lapse
    BY <1>0, <2>2, ReturnUpdate
  <2>4. script[k].run # "join" /\ jobs[k].at # "install"
    BY <1>0, <2>1
  <2> QED
    BY <1>1, <2>1, <2>3, <2>4
<1>4. CASE FetchToken(k)
  <2>1. jobs[k].at = "fetch" /\ UNCHANGED <<up, kubeconfig>>
    BY <1>4 DEF FetchToken
  <2>2. jobs'[k].lapse = jobs[k].lapse /\ jobs'[k].at = "join"
    BY <1>0, <1>4, FetchUpdate
  <2> QED
    BY <1>1, <2>1, <2>2
<1>5. CASE Join(k)
  <2>1. jobs[k].at = "join" /\ Return(k, "nil") /\ UNCHANGED <<up, kubeconfig>>
    BY <1>5 DEF Join
  <2>2. jobs'[k].lapse = jobs[k].lapse /\ jobs'[k].result = "nil"
    BY <1>0, <2>1, ReturnUpdate
  <2> QED
    BY <1>1, <2>1, <2>2
<1>6. CASE FetchTokenFails(k) \/ JoinFails(k)
  <2>1. jobs[k].at \in {"fetch", "join"} /\ k \in Joins
    BY <1>0, <1>6 DEF FetchTokenFails, JoinFails, Joins
  <2>2. up /\ (jobs[k].at = "join" => jobs[k].token = "token")
    BY <1>1, <2>1, SmoothToken
  <2> QED
    BY <1>6, <2>2 DEF FetchTokenFails, JoinFails, Fails, Smooth
<1>7. CASE NoPassphrase(k)
  BY <1>1, <1>7 DEF NoPassphrase, CanAuthenticate, Smooth
<1>8. CASE \/ NoConnection(k) \/ InstallFails(k) \/ InstallLosesConfig(k)
           \/ NodeTokenFails(k) \/ FetchTokenLoses(k) \/ JoinDownloadsNothing(k)
  BY <1>8 DEF NoConnection, InstallFails, InstallLosesConfig, NodeTokenFails,
              FetchTokenLoses, JoinDownloadsNothing, Fails, Smooth
<1> QED
  BY <1>1, <1>2, <1>3, <1>4, <1>5, <1>6, <1>7, <1>8 DEF JobStep, Works, Breaks

LEMMA JobStepSmooth ==
  ASSUME Inv, SmoothInv, NEW k \in DOMAIN jobs, JobStep(k)
  PROVE  SmoothInv'
<1> SUFFICES ASSUME Smooth'
             PROVE  /\ \A j \in DOMAIN jobs' : jobs'[j].lapse = "none"
                    /\ \A j \in Joins' : jobs'[j].at = "returned" => jobs'[j].result = "nil"
                    /\ InstallDone' => up' /\ "cluster" \in kubeconfig'
  BY DEF SmoothInv
<1>1. Smooth /\ SmoothStep(k)
  BY JobStepIsSmooth
<1>2. /\ DOMAIN jobs' = DOMAIN jobs /\ script' = script
      /\ \A j \in DOMAIN jobs : j # k => jobs'[j] = jobs[j]
      /\ jobs[k].at # "returned"
  BY JobStepSummary DEF Inv, Summary, JobChanges, planVars
<1>3. \A j \in DOMAIN jobs : jobs'[j].lapse = "none"
  BY <1>1, <1>2 DEF SmoothInv, SmoothStep
<1>4. \A j \in Joins' : jobs'[j].at = "returned" => jobs'[j].result = "nil"
  BY <1>1, <1>2 DEF SmoothInv, SmoothStep, Joins
<1>5. ASSUME InstallDone' PROVE up' /\ "cluster" \in kubeconfig'
  <2>1. /\ at = "printed" /\ PlanInv /\ script # <<>> /\ k \in 1..Len(script)
        /\ jobs \in Seq(Jobs) /\ jobs # <<>> /\ 1 \in DOMAIN jobs
    BY InvPlan, LineType DEF Inv, TypeOK, PlanTypeOK
  <2>2. CASE k = 1
    <3>1. jobs[k].at = "install"
      BY <1>2, <2>1, <2>2, FirstLine DEF Inv, IInv, JobsFollowScript
    <3> QED
      BY <1>1, <3>1 DEF SmoothStep
  <2>3. CASE k # 1
    <3>1. InstallDone
      BY <1>2, <1>5, <2>1, <2>3 DEF InstallDone
    <3>2. jobs[k].at # "install"
      BY <2>1, <2>3, FirstLine, LineType DEF Inv
    <3> QED
      BY <1>1, <3>1, <3>2 DEF SmoothInv, SmoothStep
  <2> QED
    BY <2>2, <2>3
<1> QED
  BY <1>2, <1>3, <1>4, <1>5

LEMMA StartLineSmooth ==
  ASSUME Inv, SmoothInv, StartLine
  PROVE  SmoothInv'
<1> DEFINE n == Len(jobs) + 1
<1>1. /\ DOMAIN jobs' = 1..n /\ DOMAIN jobs = 1..Len(jobs) /\ Len(jobs) \in Nat
      /\ \A j \in DOMAIN jobs : jobs'[j] = jobs[j]
      /\ jobs'[n].at = Start(script[n]) /\ jobs'[n].lapse = "none"
      /\ n \in 1..Len(script)
  BY StartLineType
<1>2. /\ UNCHANGED <<script, kubeconfig, prompts, up, faulted>>
      /\ script[n] \in Lines
  BY <1>1 DEF StartLine, planVars, Inv, TypeOK, PlanTypeOK
<1>3. jobs'[n].at # "returned"
  BY <1>1, <1>2, TargetType DEF Start, JoinStart
<1> HIDE DEF n
<1>4. \A j \in DOMAIN jobs' : j \in DOMAIN jobs \/ j = n
  BY <1>1 DEF n
<1>5. InstallDone' => InstallDone
  <2> SUFFICES ASSUME InstallDone' PROVE InstallDone
    OBVIOUS
  <2>1. 1 \in DOMAIN jobs'
    BY <1>1 DEF n
  <2>2. 1 \in DOMAIN jobs
    BY <1>3, <1>4, <2>1 DEF InstallDone
  <2>3. jobs # <<>>
    BY <2>2
  <2> QED
    BY <1>1, <2>2, <2>3 DEF InstallDone
<1> QED
  BY <1>1, <1>2, <1>3, <1>4, <1>5 DEF SmoothInv, Smooth, Joins

LEMMA QuietSmooth ==
  ASSUME SmoothInv, UNCHANGED <<script, kubeconfig, prompts, jobs, faulted>>, up => up'
  PROVE  SmoothInv'
  BY DEF SmoothInv, Smooth, Joins, InstallDone

LEMMA PlanningSmooth ==
  ASSUME Inv, FormInv, SmoothInv, Planning
  PROVE  SmoothInv'
<1>1. jobs' = <<>> /\ DOMAIN jobs' = {}
  BY PlanningForm DEF Planning, clusterVars
<1> QED
  BY <1>1 DEF SmoothInv, Joins, InstallDone

(***************************************************************************)
(* As long as nothing fails, no command returns an error, and after        *)
(* install the server serves. (install.go 299-331, join.go 200-254)        *)
(***************************************************************************)
THEOREM SmoothInvariance == Spec => []SmoothInv
<1>1. Init => SmoothInv
  <2> SUFFICES ASSUME Init PROVE jobs = <<>> /\ DOMAIN jobs = {}
    BY DEF SmoothInv, Joins, InstallDone
  <2> QED
    BY DEF Init
<1>2. Inv /\ FormInv /\ SmoothInv /\ [Next]_vars => SmoothInv'
  <2> SUFFICES ASSUME Inv, FormInv, SmoothInv, [Next]_vars PROVE SmoothInv'
    OBVIOUS
  <2>1. CASE Planning
    BY <2>1, PlanningSmooth
  <2>2. CASE StartLine
    BY <2>2, StartLineSmooth
  <2>3. CASE ServerComesUp
    BY <2>3, QuietSmooth DEF ServerComesUp, planVars
  <2>4. ASSUME NEW k \in DOMAIN jobs, JobStep(k) PROVE SmoothInv'
    BY <2>4, JobStepSmooth
  <2>5. CASE UNCHANGED vars
    BY <2>5, QuietSmooth DEF vars, planVars, clusterVars
  <2> QED
    BY <2>1, <2>2, <2>3, <2>4, <2>5 DEF Next
<1> QED
  BY Invariance, FormInvariance, <1>1, <1>2, PTL DEF Spec

(***************************************************************************)
(* When every command has returned, nothing failed and no passphrase was   *)
(* asked for, every device is in the cluster in its role and with its      *)
(* token, and the kubeconfig has its context. (plan.go 127-182, install.go *)
(* 299-331, join.go 200-254)                                               *)
(***************************************************************************)
THEOREM CompleteAtTheEnd == Spec => []EndsComplete
<1>1. Inv /\ FormInv /\ SmoothInv => EndsComplete
  <2> SUFFICES ASSUME Inv, FormInv, SmoothInv, at = "printed", AllReturned, Smooth
               PROVE  ClusterComplete
    BY DEF EndsComplete
  <2>1. /\ PlanInv /\ TypeOK /\ CoversFirst(Selected) /\ Selected \in Nat
        /\ jobs \in Seq(Jobs) /\ script \in Seq(Lines)
        /\ Len(jobs) = Len(script) /\ DOMAIN jobs = 1..Len(script)
        /\ \A k \in DOMAIN jobs : jobs[k].at = "returned"
    BY InvPlan, FlagTypes
    DEF Inv, TypeOK, AllReturned, PlanInv, PlanTypeOK, LoopInv, Selected
  <2> SUFFICES ASSUME Selected > 0 PROVE ClusterComplete
    BY <2>1 DEF ClusterComplete
  <2>2. /\ Len(Opening(devices[1])) \in {2, 3}
        /\ Len(script) = LineOf(Selected)
        /\ \A d \in 2..Selected :
             script[LineOf(d)] =
               JoinLine(devices[d], devices[1], d <= flags.servers, flags.background)
    <3>1. devices[1] \in Hosts /\ flags \in Flags /\ found \in BOOLEAN
      BY <2>1, FlagTypes DEF PlanInv, PlanTypeOK, Selected
    <3> QED
      BY <2>1, <3>1, OpeningType DEF CoversFirst
  <2>3. script # <<>> /\ \A d \in 1..Selected : LineOf(d) \in 1..Len(script)
    <3>1. LineOf(1) \in 1..Len(script) /\ \A d \in 1..Selected : LineOf(d) \in 1..Len(script)
      BY <2>1, <2>2, LineOfFacts
    <3> QED
      BY <3>1
  <2>4. up /\ "cluster" \in kubeconfig
    <3>1. InstallDone
      BY <2>1, <2>3, FirstLine DEF InstallDone
    <3> QED
      BY <3>1 DEF SmoothInv
  <2>5. ASSUME NEW d \in 1..Selected PROVE k3s[devices[d]] = Runs(PlannedRole(d), "token")
    <3>1. CASE d = 1
      BY <2>4, <3>1 DEF FormInv, TokenFromFounder, PlannedRole
    <3>2. CASE d \in 2..Selected
      <4> DEFINE k == LineOf(d)
      <4>1. k \in 1..Len(script) /\ script[k].run = "join" /\ SetsUp(k, d)
        BY <2>2, <2>3, <3>2 DEF SetsUp, JoinLine
      <4> HIDE DEF k
      <4>2. k \in Joins /\ jobs[k].at = "returned"
        BY <2>1, <4>1 DEF Joins
      <4>3. jobs[k].lapse = "none" /\ jobs[k].result = "nil" /\ nodeToken # "prompt"
        BY <4>2, SmoothToken DEF SmoothInv
      <4>4. k3s[Target(k)] = Runs(Role(script[k]), "token")
        BY <4>2, <4>3 DEF Inv, IInv, NilJoinExplained, Returned
      <4> QED
        BY <2>1, <4>1, <4>4, SetsUpFacts DEF Target
    <3> QED
      BY <2>1, <3>1, <3>2
  <2> QED
    BY <2>4, <2>5 DEF ClusterComplete
<1> QED
  BY Invariance, FormInvariance, SmoothInvariance, <1>1, PTL

================================================================================
