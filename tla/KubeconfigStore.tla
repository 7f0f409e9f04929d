---------------------------- MODULE KubeconfigStore ----------------------------
(***************************************************************************)
(* What the flags --local-path, --merge and --context of install and       *)
(* get-config promise of the local kubeconfig file: each command changes   *)
(* it once, at once, or not at all. Without --merge the file then has the  *)
(* one context the command was given; with it that context is added.       *)
(***************************************************************************)
CONSTANTS
  Procs,     \* the commands
  Options,   \* the flags they may have, with fields merge, context and host
  Contexts,  \* names given with --context
  Hosts,     \* servers given with --host or --ip
  NoHost     \* the entry of a context the file does not have

VARIABLES
  opt,      \* the flags of each command
  entries,  \* the server each context of the file leads to
  ended     \* the commands that have taken effect, or never will

vars == <<opt, entries, ended>>

Entries == [Contexts -> Hosts \union {NoHost}]

Only(c, h) == [d \in Contexts |-> IF d = c THEN h ELSE NoHost]

\* kubectl config view --merge: the first file that has an entry wins.
Merged(first, second) ==
  [c \in Contexts |-> IF first[c] = NoHost THEN second[c] ELSE first[c]]

Init ==
  /\ opt \in [Procs -> Options]
  /\ entries \in Entries
  /\ ended = {}

\* The file as a command with the flags o leaves it.
Updated(o) ==
  IF o.merge THEN Merged(entries, Only(o.context, o.host))
             ELSE Only(o.context, o.host)

Update(p) ==
  /\ p \notin ended
  /\ entries' = Updated(opt[p])
  /\ ended' = ended \union {p}
  /\ UNCHANGED opt

\* The command returns an error.
GiveUp(p) ==
  /\ p \notin ended
  /\ ended' = ended \union {p}
  /\ UNCHANGED <<opt, entries>>

Next == \E p \in Procs : Update(p) \/ GiveUp(p)

Spec == Init /\ [][Next]_vars

================================================================================
