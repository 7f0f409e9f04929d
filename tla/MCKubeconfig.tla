------------------------------ MODULE MCKubeconfig ------------------------------
(***************************************************************************)
(* The flag combinations of the runs, and the symmetry of a small instance *)
(* of Kubeconfig: processes, contexts and hosts are interchangeable in all *)
(* of them.                                                                *)
(***************************************************************************)
EXTENDS Kubeconfig, TLC

\* Every kind of command.
AllOptions == Flags

\* install and get-config over SSH.
RemoteOptions == {o \in Flags : ~o.local}

\* get-config, on the server itself and over SSH.
GetConfigOptions == {o \in Flags : ~o.install}

Symmetry == Permutations(Procs) \union Permutations(Contexts) \union Permutations(Hosts)

================================================================================
