----------------------------------- MODULE Plan -----------------------------------
(***************************************************************************)
(* k3sup plan: the loop of cmd/plan.go over the devices file, and the      *)
(* shell script it prints. The script is the sequence of its commands;     *)
(* comments, echo lines and flags that every line carries alike (--user,   *)
(* --ssh-key, --tls-san, --k3s-extra-args) are left out.                   *)
(***************************************************************************)
EXTENDS Integers, Sequences

CONSTANTS
  Hosts,         \* the hosts, by IP
  NoHost,        \* the zero Host
  DeviceLists,   \* the devices files, each a list of hosts
  ServerCounts,  \* values of --servers
  Limits         \* values of --limit

ASSUME DevicesAssumption == DeviceLists \subseteq Seq(Hosts)
ASSUME CountsAssumption == ServerCounts \subseteq Int /\ Limits \subseteq Int
ASSUME NoHostAssumption == NoHost \notin Hosts

VARIABLES
  devices,       \* the devices file
  flags,         \* --servers, --limit, --merge, --background
  found,         \* there is a file at --local-path
  at,            \* "start", "loop", "printed" or "refused"
  i,             \* the index of the next device, from 0
  serversAdded,
  primaryServer,
  script

planVars == <<devices, flags, found, at, i, serversAdded, primaryServer, script>>

Flags == [servers : ServerCounts, limit : Limits, merge : BOOLEAN,
          background : BOOLEAN]

InstallLine(h, merge) == [run |-> "install", host |-> h, merge |-> merge]
StrayLine == [run |-> "--merge"]
TokenLine(h) == [run |-> "node-token", host |-> h]
JoinLine(h, via, server, bg) ==
  [run |-> "join", host |-> h, serverHost |-> via, server |-> server, background |-> bg]

Lines ==
  [run : {"install"}, host : Hosts, merge : BOOLEAN]
    \union {StrayLine}
    \union [run : {"node-token"}, host : Hosts]
    \union [run : {"join"}, host : Hosts, serverHost : Hosts,
            server : BOOLEAN, background : BOOLEAN]

PlanInit ==
  /\ devices \in DeviceLists
  /\ flags \in Flags
  /\ found \in BOOLEAN
  /\ at = "start"
  /\ i = 0
  /\ serversAdded = 0
  /\ primaryServer = NoHost
  /\ script = <<>>

\* No argument, or a devices file that cannot be read or parsed.
Refuse ==
  /\ at = "start"
  /\ at' = "refused"
  /\ UNCHANGED <<devices, flags, found, i, serversAdded, primaryServer, script>>

Begin ==
  /\ at = "start"
  /\ at' = IF devices = <<>> THEN "printed" ELSE "loop"
  /\ UNCHANGED <<devices, flags, found, i, serversAdded, primaryServer, script>>

\* mergeStr is " \n--merge" when the file exists. Nothing continues the line
\* before the newline, so --merge is a command of its own and the install runs
\* without it.
Opening(h) ==
  IF flags.merge /\ found
  THEN <<InstallLine(h, FALSE), StrayLine, TokenLine(h)>>
  ELSE <<InstallLine(h, FALSE), TokenLine(h)>>

Host == devices[i + 1]

\* mutant: one device too many
LastDeviceLate ==
  \/ flags.limit > 0 /\ i >= flags.limit
  \/ i + 1 = Len(devices)

\* The end of an iteration: break at the limit, or the next device.
LastDevice ==
  \/ flags.limit > 0 /\ i + 1 >= flags.limit
  \/ i + 1 = Len(devices)

Advance ==
  /\ i' = i + 1
  /\ at' = IF LastDevice THEN "printed" ELSE "loop"
  /\ UNCHANGED <<devices, flags, found>>

\* mutant: primaryServer stays the zero Host
SetUpPrimaryForgets ==
  /\ at = "loop"
  /\ serversAdded = 0
  /\ script' = script \o Opening(Host)
  /\ serversAdded' = 1
  /\ UNCHANGED primaryServer
  /\ Advance

SetUpPrimary ==
  /\ at = "loop"
  /\ serversAdded = 0
  /\ script' = script \o Opening(Host)
  /\ serversAdded' = 1
  /\ primaryServer' = Host
  /\ Advance

\* mutant: serversAdded is not incremented
SetUpServerUncounted ==
  /\ at = "loop"
  /\ serversAdded # 0
  /\ serversAdded < flags.servers
  /\ script' = Append(script, JoinLine(Host, primaryServer, TRUE, flags.background))
  /\ UNCHANGED <<primaryServer, serversAdded>>
  /\ Advance

SetUpServer ==
  /\ at = "loop"
  /\ serversAdded # 0
  /\ serversAdded < flags.servers
  /\ script' = Append(script, JoinLine(Host, primaryServer, TRUE, flags.background))
  /\ serversAdded' = serversAdded + 1
  /\ UNCHANGED primaryServer
  /\ Advance

SetUpWorker ==
  /\ at = "loop"
  /\ serversAdded # 0
  /\ serversAdded >= flags.servers
  /\ script' = Append(script, JoinLine(Host, primaryServer, FALSE, flags.background))
  /\ UNCHANGED <<serversAdded, primaryServer>>
  /\ Advance

PlanNext == Refuse \/ Begin \/ SetUpPrimary \/ SetUpServer \/ SetUpWorker

PlanSpec == PlanInit /\ [][PlanNext]_planVars

--------------------------------------------------------------------------------
PlanTypeOK ==
  /\ devices \in Seq(Hosts)
  /\ flags \in Flags
  /\ found \in BOOLEAN
  /\ at \in {"start", "loop", "printed", "refused"}
  /\ i \in Nat
  /\ serversAdded \in Nat
  /\ primaryServer \in Hosts \union {NoHost}
  /\ script \in Seq(Lines)

\* The devices the flags select.
Selected ==
  IF flags.limit > 0 /\ flags.limit < Len(devices) THEN flags.limit ELSE Len(devices)

\* The line that sets up device d, the first of them apart.
LineOf(d) == Len(Opening(devices[1])) + d - 1

\* What the script holds after n devices.
CoversFirst(n) ==
  /\ n = 0 => script = <<>>
  /\ n > 0 =>
       /\ Len(script) = LineOf(n)
       /\ \A k \in 1..LineOf(1) : script[k] = Opening(devices[1])[k]
       /\ \A d \in 2..n :
            script[LineOf(d)] =
              JoinLine(devices[d], devices[1], d <= flags.servers, flags.background)

(***************************************************************************)
(* The printed script sets up each of the first --limit devices (all of    *)
(* them with no limit) exactly once and in order: the first one by install *)
(* and node-token, devices 2 to --servers as servers that join it, the     *)
(* others as agents, whatever the counters went through. (plan.go 127-182) *)
(***************************************************************************)
PlanAsAsked == at = "printed" => CoversFirst(Selected)

(***************************************************************************)
(* The loop's invariant: serversAdded and primaryServer are what the       *)
(* devices so far make them, and the script covers those devices.          *)
(***************************************************************************)
LoopInv ==
  /\ at \in {"start", "refused"} => i = 0
  /\ at = "start" => script = <<>>
  /\ at = "loop" => i < Selected
  /\ at = "printed" => i = Selected
  /\ i = 0 => serversAdded = 0
  /\ i > 0 =>
       /\ serversAdded =
            IF flags.servers < 1 THEN 1 ELSE IF i < flags.servers THEN i ELSE flags.servers
       /\ primaryServer = devices[1]
  /\ CoversFirst(i)

================================================================================
