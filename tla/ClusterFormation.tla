---------------------------- MODULE ClusterFormation ----------------------------
(***************************************************************************)
(* What a reader of the plan may rely on, whatever fails while its script  *)
(* is run: the first host founds the cluster, as a server; every other     *)
(* host of the plan enters a cluster that was founded, once, and in the    *)
(* role it was planned in; no member leaves or changes its role, and       *)
(* nobody else enters.                                                     *)
(***************************************************************************)
EXTENDS Integers, Sequences

CONSTANT Hosts

VARIABLES
  order,   \* the plan: the hosts and their roles, empty before there is one
  member   \* the role of each host in the cluster, "none" outside

vars == <<order, member>>

Entry == [host : Hosts, role : {"server", "agent"}]

Founder == order[1].host

Init ==
  /\ order = <<>>
  /\ member = [h \in Hosts |-> "none"]

MakePlan ==
  /\ order = <<>>
  /\ order' \in Seq(Entry)
  /\ order' # <<>>
  /\ order'[1].role = "server"
  /\ \A i, j \in DOMAIN order' : order'[i].host = order'[j].host => i = j
  /\ UNCHANGED member

Enter(i) ==
  /\ i > 1 => member[Founder] = "server"
  /\ member[order[i].host] = "none"
  /\ member' = [member EXCEPT ![order[i].host] = order[i].role]
  /\ UNCHANGED order

Next == MakePlan \/ \E i \in DOMAIN order : Enter(i)

Spec == Init /\ [][Next]_vars

================================================================================
