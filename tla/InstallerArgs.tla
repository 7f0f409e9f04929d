----------------------------- MODULE InstallerArgs -----------------------------
(***************************************************************************)
(* From the flags of k3sup install and k3sup join to a node: the checks of *)
(* the flags, the line of shell that is run on the host (makeInstallExec,  *)
(* makeJoinExec), what the script of get.k3s.io makes of that line         *)
(* (external), and the k3s that it starts.                                 *)
(*                                                                         *)
(* An option of k3s is a pair <<name, value>>; an option without value has *)
(* the value "". "" is also a flag that was not given, as in the code. The *)
(* layout of the line (which spaces, which order of the variables) is left *)
(* out; single quotes are not, where they change what a shell makes of it. *)
(***************************************************************************)
EXTENDS Integers, Sequences

CONSTANTS
  Extras,   \* the values of --k3s-extra-args, as sequences of options
  Quoted,   \* the options among them whose quotes end a quoted word they stand in:
            \* a space is between two of them, or one has no second
  Unpaired  \* those that have a quote without a second one

Word(name) == <<name, "">>
Roles == {Word("server"), Word("agent")}
OptionsOf(words) == {words[i] : i \in DOMAIN words}

ASSUME ExtrasAssumption ==
  \A e \in Extras : e \in Seq(STRING \X STRING) /\ OptionsOf(e) \intersect Roles = {}

\* The values of the other flags, which have no quote.
PlainValues ==
  {"", "lb", "host", "mysql", "token", "ipsec", "servicelb", "traefik",
   "https://lb:6443", "https://server:6443"}

ASSUME QuotedAssumption ==
  /\ Unpaired \subseteq Quoted
  /\ \A o \in Quoted : o[2] \notin PlainValues

\* A second such quote would be the pair of the first, and what stands between them
\* part of one option.
ASSUME UnpairedAssumption ==
  \A e \in Extras : \A i, j \in DOMAIN e : e[i] \in Unpaired /\ e[j] \in Unpaired => i = j

\* The flags. A datastore is well formed, lacks the tcp(...) of mysql, or has
\* ssl-mode=REQUIRED; a token may have come with a newline.
InstallFlags ==
  [kind : {"install"}, cluster : BOOLEAN, san : {"", "lb"},
   datastore : {"", "mysql", "mysql without tcp", "mysql with ssl-mode"},
   token : {"", "token"}, ipsec : BOOLEAN, noExtras : BOOLEAN, extra : Extras,
   version : {"", "v1"}, channel : {"", "stable"}]

JoinFlags ==
  [kind : {"join"}, server : BOOLEAN, san : {"", "lb"}, noExtras : BOOLEAN,
   url : {"", "https://lb:6443"}, token : {"token", "token\n"}, extra : Extras,
   version : {"", "v1"}, channel : {"", "stable"}]

VARIABLES
  flags,
  stage,
  error,  \* what the command refuses
  line,   \* the line of shell
  node    \* the k3s that runs in the end, empty if none does

vars == <<flags, stage, error, line, node>>

Init ==
  /\ flags \in InstallFlags \union JoinFlags
  /\ stage = "flags"
  /\ error = ""
  /\ line = <<>>
  /\ node = <<>>

--------------------------------------------------------------------------------
(***************************************************************************)
(* The checks, in their order                                              *)
(***************************************************************************)
NoRelease == flags.version = "" /\ flags.channel = ""

InstallError ==
  IF flags.datastore = "mysql with ssl-mode" THEN "ssl-mode"
  ELSE IF flags.datastore = "mysql without tcp" THEN "tcp"
  ELSE IF flags.datastore # "" /\ flags.token = "" THEN "token"
  ELSE IF NoRelease THEN "release"
  ELSE ""

JoinError ==
  IF flags.noExtras /\ ~flags.server THEN "no-extras"
  ELSE IF flags.san # "" /\ ~flags.server THEN "tls-san"
  ELSE IF NoRelease THEN "release"
  ELSE ""

FlagError == IF flags.kind = "install" THEN InstallError ELSE JoinError

--------------------------------------------------------------------------------
(***************************************************************************)
(* The line                                                                *)
(***************************************************************************)
Given(condition, words) == IF condition THEN words ELSE <<>>

DisableExtras == <<<<"--disable", "servicelb">>, <<"--disable", "traefik">>>>

\* createVersionStr
Release ==
  IF flags.version # "" THEN <<"version", flags.version>> ELSE <<"channel", flags.channel>>

\* strings.TrimSpace
Trimmed(token) == IF token = "token\n" THEN "token" ELSE token

\* makeInstallExec: every option is inside the quotes of INSTALL_K3S_EXEC.
San == IF flags.san # "" THEN flags.san ELSE "host"

InstallLine ==
  [url |-> "", token |-> "", release |-> Release,
   exec |-> <<Word("server")>>
            \o Given(flags.cluster, <<Word("--cluster-init")>>)
            \o <<<<"--tls-san", San>>>>
            \o Given(flags.datastore # "",
                     <<<<"--datastore-endpoint", flags.datastore>>, <<"--token", flags.token>>>>)
            \o Given(flags.ipsec, <<<<"--flannel-backend", "ipsec">>>>)
            \o Given(flags.noExtras, DisableExtras)
            \o flags.extra,
   args |-> <<>>]

\* setupAdditionalServer, setupAgent and makeJoinExec: the extra arguments are
\* outside the quotes, behind sh -s -.
Url == IF flags.url # "" THEN flags.url ELSE "https://server:6443"

JoinExecAlways ==  \* mutant: makeJoinExec does not look at serverAgent
  <<Word("server"), <<"--server", Url>>>>
  \o Given(flags.san # "", <<<<"--tls-san", flags.san>>>>)

JoinExec ==
  Given(flags.server,
        <<Word("server"), <<"--server", Url>>>>
        \o Given(flags.san # "", <<<<"--tls-san", flags.san>>>>))

JoinLine ==
  [url |-> Url, token |-> Trimmed(flags.token), release |-> Release,
   exec |-> JoinExec,
   args |-> flags.extra \o Given(flags.server /\ flags.noExtras, DisableExtras)]

Refuse ==
  /\ stage = "flags"
  /\ FlagError # ""
  /\ stage' = "refused"
  /\ error' = FlagError
  /\ UNCHANGED <<flags, line, node>>

Build ==
  /\ stage = "flags"
  /\ FlagError = ""
  /\ stage' = "built"
  /\ line' = IF flags.kind = "install" THEN InstallLine ELSE JoinLine
  /\ UNCHANGED <<flags, error, node>>

--------------------------------------------------------------------------------
(***************************************************************************)
(* The host (external): the shell, and the script of get.k3s.io, which     *)
(* takes the role from the first word and, if that is an option, from      *)
(* whether there is a K3S_URL.                                             *)
(***************************************************************************)
\* A quote in the quoted word ends it, and the rest of the line is another command
\* than sh if that is where a word ends. A quote without a second one is an error
\* wherever it stands.
QuotesHold(l) ==
  /\ OptionsOf(l.exec) \intersect Quoted = {}
  /\ OptionsOf(l.args) \intersect Unpaired = {}

Installed(l) ==
  LET words == l.exec \o l.args
      named == words # <<>> /\ words[1] \in Roles
  IN  [role    |-> IF named THEN words[1] ELSE Word(IF l.url = "" THEN "server" ELSE "agent"),
       url     |-> l.url,
       token   |-> l.token,
       release |-> l.release,
       options |-> OptionsOf(IF named THEN Tail(words) ELSE words)]

RunScript ==
  /\ stage = "built"
  /\ QuotesHold(line)
  /\ stage' = "started"
  /\ node' = Installed(line)
  /\ UNCHANGED <<flags, error, line>>

ScriptNotRun ==
  /\ stage = "built"
  /\ ~QuotesHold(line)
  /\ stage' = "not started"
  /\ UNCHANGED <<flags, error, line, node>>

Next == Refuse \/ Build \/ RunScript \/ ScriptNotRun

Spec == Init /\ [][Next]_vars

--------------------------------------------------------------------------------
(***************************************************************************)
(* Three places decide a role together: the words of INSTALL_K3S_EXEC, the *)
(* arguments behind sh, and whether there is a K3S_URL. An install and a   *)
(* join --server start a server, a join an agent, whatever the extra       *)
(* arguments; and who joins, joins one cluster: a server's --server is its *)
(* K3S_URL, if the extra arguments name no other. (install.go 621-638,     *)
(* join.go 508-533)                                                        *)
(***************************************************************************)
When(condition, options) == IF condition THEN options ELSE {}

ServersIn(options) == {o[2] : o \in {p \in options : p[1] = "--server"}}

RoleAsAsked ==
  stage = "started" =>
    IF flags.kind = "install"
    THEN node.role = Word("server") /\ node.url = ""
    ELSE /\ node.url # ""
         /\ node.role = Word(IF flags.server THEN "server" ELSE "agent")
         /\ ServersIn(node.options)
              = When(flags.server, {node.url}) \union ServersIn(OptionsOf(flags.extra))

(***************************************************************************)
(* The options of the node are those that the help of the flags promises   *)
(* (install.go 88-116, join.go 51-79): no other reaches it, and none that  *)
(* was let through is lost between the check and the line, but for the two *)
(* that install drops. --token without --datastore goes nowhere, and       *)
(* --tls-san, "an additional IP or hostname", replaces the host it should  *)
(* be added to. (install.go 600-639, join.go 293-305, 369-382, 505-536)    *)
(***************************************************************************)
Asked(f) ==
  OptionsOf(f.extra)
  \union When(f.noExtras, {<<"--disable", "servicelb">>, <<"--disable", "traefik">>})
  \union When(f.san # "", {<<"--tls-san", f.san>>})
  \union IF f.kind = "install"
         THEN {<<"--tls-san", "host">>}
              \union When(f.cluster, {Word("--cluster-init")})
              \union When(f.ipsec, {<<"--flannel-backend", "ipsec">>})
              \union When(f.datastore # "", {<<"--datastore-endpoint", f.datastore>>})
              \union When(f.token # "", {<<"--token", f.token>>})
         ELSE When(f.server,
                   {<<"--server", IF f.url # "" THEN f.url ELSE "https://server:6443">>})

Dropped(f) ==
  IF f.kind = "install"
  THEN When(f.datastore = "", {<<"--token", f.token>>})
       \union When(f.san # "", {<<"--tls-san", "host">>})
  ELSE {}

OptionsAsAsked ==
  stage = "started" =>
    /\ node.options \subseteq Asked(flags)
    /\ Asked(flags) \subseteq node.options \union Dropped(flags)

(***************************************************************************)
(* A version overrides a channel, and a node that joins has the token the  *)
(* other nodes have, however it came. (install.go 166, 495-503, join.go    *)
(* 236, 376, 465)                                                          *)
(***************************************************************************)
ReleaseAndToken ==
  stage = "started" =>
    /\ node.release[2] # ""
    /\ flags.version # "" => node.release = <<"version", flags.version>>
    /\ flags.kind = "join" => node.token = "token"

(***************************************************************************)
(* A line is not run only for a quote in the extra arguments: in install   *)
(* one that ends the word, in join, which puts the extra arguments behind  *)
(* sh, none but a quote without a second one. (install.go 615-636, join.go *)
(* 530-533)                                                                *)
(***************************************************************************)
LostToQuotes ==
  stage = "not started" =>
    OptionsOf(flags.extra)
      \intersect (IF flags.kind = "install" THEN Quoted ELSE Unpaired) # {}

(***************************************************************************)
(* The node that the installer starts is the one the flags ask for, in its *)
(* role, its options but for the two named above, its release and its      *)
(* token; and it is started, but for quotes in the extra arguments.        *)
(* (install.go 217-251, 600-639, join.go 293-305, 369-382, 495-536)        *)
(***************************************************************************)
NodeAsAsked == RoleAsAsked /\ OptionsAsAsked /\ ReleaseAndToken /\ LostToQuotes

\* The inductive invariant: the line is the one for flags that passed the checks.
LineFromFlags ==
  stage = "built" =>
    /\ FlagError = ""
    /\ line = IF flags.kind = "install" THEN InstallLine ELSE JoinLine

IInv ==
  /\ flags \in InstallFlags \union JoinFlags
  /\ LineFromFlags
  /\ NodeAsAsked

================================================================================
