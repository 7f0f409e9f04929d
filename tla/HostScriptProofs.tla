---------------------------- MODULE HostScriptProofs ----------------------------
(***************************************************************************)
(* TLAPS proofs about the two components that end in a shell script:       *)
(* GetScript (get.sh), and InstallerArgs (the script of get.k3s.io), for   *)
(* any extra arguments, with and without quotes.                           *)
(***************************************************************************)
EXTENDS GetScript, InstallerArgs, TLAPS

(***************************************************************************)
(*                                 get.sh                                  *)
(***************************************************************************)
LEMMA ScriptInitInv == ScriptInit => ScriptInv
<1> SUFFICES ASSUME ScriptInit PROVE ScriptInv
  OBVIOUS
<1>1. /\ files \in [{"bin", "download"} -> Contents] /\ files["bin"] = before
      /\ pc = "version" /\ said = "nothing" /\ pro = "none" /\ exit = "none"
  BY DEF ScriptInit, Contents
<1>2. TypeOK
  BY <1>1 DEF ScriptInit, TypeOK
<1> QED
  BY <1>1, <1>2 DEF ScriptInv, UntouchedUntilMove, DownloadedToInstall, SaidInPlace,
     EndsOnce, Survives, ToldTheTruth

LEMMA ScriptStutter ==
  ASSUME ScriptInv, UNCHANGED scriptVars
  PROVE  ScriptInv'
<1> USE DEF ScriptInv, scriptVars
<1>1. TypeOK'
  BY DEF TypeOK
<1>2. UntouchedUntilMove' /\ DownloadedToInstall' /\ SaidInPlace' /\ EndsOnce'
  BY DEF UntouchedUntilMove, DownloadedToInstall, SaidInPlace, EndsOnce, Target
<1>3. Survives' /\ ToldTheTruth'
  BY DEF Survives, ToldTheTruth, CopySource, Target
<1> QED
  BY <1>1, <1>2, <1>3

\* What the steps that write a file do to both files.
LEMMA FilesAfter ==
  ASSUME TypeOK
  PROVE  /\ Target \in {"bin", "download"}
         /\ Target = "bin" <=> host.at = "BINLOCATION"
         /\ Target = "bin" => host.sameFs
         /\ Remove =>
              /\ files' \in [{"bin", "download"} -> Contents]
              /\ files'["bin"] # files["bin"] => Target = "bin"
         /\ CutOff =>
              /\ files' \in [{"bin", "download"} -> Contents]
              /\ files'["bin"] # files["bin"] => Target = "bin"
         /\ CutMove =>
              /\ files' \in [{"bin", "download"} -> Contents]
              /\ files'["download"] = files["download"]
              /\ files'["bin"] # files["bin"] =>
                   ~host.sameFs /\ files'["bin"] \in {"absent", "part", files["download"]}
<1>1. host \in Hosts /\ files \in [{"bin", "download"} -> Contents]
  BY DEF TypeOK
<1>2. /\ Target \in {"bin", "download"} /\ (Target = "bin" <=> host.at = "BINLOCATION")
      /\ Target = "bin" => host.sameFs
  BY <1>1 DEF Target, Hosts
<1>3. ASSUME NEW c \in Contents, NEW f \in {"bin", "download"}
      PROVE  /\ [files EXCEPT ![f] = c] \in [{"bin", "download"} -> Contents]
             /\ \A g \in {"bin", "download"} :
                  [files EXCEPT ![f] = c][g] = IF g = f THEN c ELSE files[g]
  BY <1>1
<1>4. Remove => /\ files' \in [{"bin", "download"} -> Contents]
                /\ files'["bin"] # files["bin"] => Target = "bin"
  BY <1>1, <1>2, <1>3 DEF Remove, Contents
<1>5. CutOff => /\ files' \in [{"bin", "download"} -> Contents]
                /\ files'["bin"] # files["bin"] => Target = "bin"
  BY <1>1, <1>2, <1>3 DEF CutOff, Contents
<1>6. CutMove => /\ files' \in [{"bin", "download"} -> Contents]
                 /\ files'["download"] = files["download"]
                 /\ files'["bin"] # files["bin"] =>
                      ~host.sameFs /\ files'["bin"] \in {"absent", "part", files["download"]}
  BY <1>1, <1>3 DEF CutMove, Contents
<1> QED
  BY <1>2, <1>4, <1>5, <1>6

LEMMA ScriptStepInv ==
  ASSUME ScriptInv, [ScriptNext]_scriptVars
  PROVE  ScriptInv'
<1>0. /\ TypeOK /\ UntouchedUntilMove /\ DownloadedToInstall /\ SaidInPlace /\ EndsOnce
      /\ Survives /\ ToldTheTruth
  BY DEF ScriptInv
<1>t. /\ Target \in {"bin", "download"} /\ (Target = "bin" <=> host.at = "BINLOCATION")
      /\ Target = "bin" => host.sameFs
  BY <1>0, FilesAfter
<1>a. ASSUME UNCHANGED host PROVE Target' = Target
  BY <1>a DEF Target
<1> USE DEF ScriptInv, UntouchedUntilMove, DownloadedToInstall, SaidInPlace, EndsOnce,
            Survives, ToldTheTruth, CopySource, WholeDownload, Goto, Exit
<1>1. CASE GetVersion
  BY <1>0, <1>1, <1>a DEF GetVersion, TypeOK
<1>2. CASE NoVersion
  BY <1>0, <1>2, <1>a DEF NoVersion, TypeOK
<1>3. CASE RemoveOld
  <2>1. /\ files' \in [{"bin", "download"} -> Contents]
        /\ files'["bin"] # files["bin"] => Target = "bin"
    BY <1>0, <1>3, FilesAfter DEF RemoveOld
  <2> QED
    BY <1>0, <1>3, <1>a, <1>t, <2>1 DEF RemoveOld, TypeOK
<1>4. CASE Download
  <2>1. /\ files' \in [{"bin", "download"} -> Contents]
        /\ files'[Target] \in WholeDownload
        /\ files'["bin"] # files["bin"] => Target = "bin"
    BY <1>0, <1>4, <1>t DEF Download, TypeOK, Contents
  <2>2. runnable' \in BOOLEAN /\ (host.here => runnable')
    BY <1>4 DEF Download
  <2> QED
    BY <1>0, <1>4, <1>a, <1>t, <2>1, <2>2 DEF Download, TypeOK
<1>5. CASE DownloadFails
  <2>1. /\ files' \in [{"bin", "download"} -> Contents]
        /\ files'["bin"] # files["bin"] => Target = "bin"
    BY <1>0, <1>5, FilesAfter DEF DownloadFails
  <2> QED
    BY <1>0, <1>5, <1>a, <1>t, <2>1 DEF DownloadFails, TypeOK
<1>6. CASE NotWritable
  BY <1>0, <1>6, <1>a, <1>t DEF NotWritable, TypeOK
<1>7. CASE OldNotWritable
  <2>1. Target = "download"
    BY <1>7, <1>t DEF OldNotWritable, OldWritable
  <2> QED
    BY <1>0, <1>7, <1>a, <2>1 DEF OldNotWritable, TypeOK
<1>8. CASE Move
  <2>1. /\ files' \in [{"bin", "download"} -> Contents]
        /\ files'["bin"] = files["download"] /\ Target = "download"
    BY <1>0, <1>8, <1>t DEF Move, TypeOK, Contents
  <2> QED
    BY <1>0, <1>8, <1>a, <2>1 DEF Move, TypeOK
<1>9. CASE Announce
  BY <1>0, <1>9, <1>a, <1>t DEF Announce, TypeOK
<1>10. CASE MoveFails
  <2>1. /\ files' \in [{"bin", "download"} -> Contents]
        /\ files'["bin"] # files["bin"] =>
             ~host.sameFs /\ files'["bin"] \in {"absent", "part", files["download"]}
    BY <1>0, <1>10, FilesAfter DEF MoveFails
  <2>2. files'["bin"] # files["bin"] => Target = "download"
    BY <1>t, <2>1
  <2> QED
    BY <1>0, <1>10, <1>a, <1>t, <2>1, <2>2 DEF MoveFails, TypeOK
<1>11. CASE CleanUp
  <2>1. /\ files' \in [{"bin", "download"} -> Contents]
        /\ files'["bin"] # files["bin"] => Target = "bin"
    BY <1>0, <1>11, FilesAfter DEF CleanUp
  <2> QED
    BY <1>0, <1>11, <1>a, <1>t, <2>1 DEF CleanUp, TypeOK
<1>12. CASE Thanks
  <2>1. host.invoked \in {"plain", "documented", "exported"}
    BY <1>0 DEF TypeOK, Hosts, Invocations
  <2>2. host.invoked # "plain" => host.invoked = "documented"
    BY <1>12, <2>1 DEF Thanks, ProSeen
  <2>3. TypeOK'
    BY <1>0, <1>12 DEF Thanks, TypeOK
  <2>4. /\ UNCHANGED <<host, before, files, runnable, said>>
        /\ pc = "after" /\ pc' = "exited" /\ exit' = "zero"
    BY <1>12 DEF Thanks
  <2> QED
    BY <1>0, <1>a, <1>t, <2>2, <2>3, <2>4
<1>13. CASE GetPro
  BY <1>0, <1>13, <1>a, <1>t DEF GetPro, ProSeen, TypeOK, Contents
<1>14. CASE Stopped
  <2>1. /\ UNCHANGED <<host, before, runnable, found, said, pro>>
        /\ pc # "exited" /\ pc' = "exited" /\ exit' = "killed"
    BY <1>14 DEF Stopped
  <2>2. /\ files' \in [{"bin", "download"} -> Contents]
        /\ files' # files => pc \in {"download", "install"}
        /\ files'["bin"] # files["bin"] =>
             \/ Target = "bin"
             \/ pc = "install" /\ ~host.sameFs
                  /\ files'["bin"] \in {"absent", "part", files["download"]}
    BY <1>0, <1>14, FilesAfter DEF Stopped, TypeOK
  <2>3. files' # files => said = "nothing"
    BY <1>0, <2>2
  <2> QED
    BY <1>0, <1>a, <1>t, <2>1, <2>2, <2>3 DEF TypeOK
<1>15. CASE UNCHANGED scriptVars
  BY <1>15, ScriptStutter
<1> QED
  BY <1>1, <1>2, <1>3, <1>4, <1>5, <1>6, <1>7, <1>8, <1>9, <1>10, <1>11, <1>12, <1>13,
     <1>14, <1>15 DEF ScriptNext, Script

(***************************************************************************)
(* The invariant holds throughout. It is needed because neither property   *)
(* says where in the script the download is whole, nor that nothing was    *)
(* said before. (get.sh 129-225)                                           *)
(***************************************************************************)
THEOREM ScriptInvariance == ScriptSpec => []ScriptInv
<1>1. ScriptInv /\ [ScriptNext]_scriptVars => ScriptInv'
  BY ScriptStepInv
<1> QED
  BY ScriptInitInv, <1>1, PTL DEF ScriptSpec

(***************************************************************************)
(* What is in BINLOCATION is the k3sup of before or a whole download,      *)
(* wherever the script fails or is stopped, but for a move between two     *)
(* file systems and a script that is run in BINLOCATION itself. (get.sh    *)
(* 123-138, 170-191)                                                       *)
(***************************************************************************)
THEOREM AlwaysSurvives == ScriptSpec => []Survives
<1>1. ScriptInv => Survives
  BY DEF ScriptInv
<1> QED
  BY ScriptInvariance, <1>1, PTL

(***************************************************************************)
(* What the messages promise is so, with the exceptions that ToldTheTruth  *)
(* names (an error page, the cp for root, PRO in front of curl), and stays *)
(* so until the script has ended. (get.sh 15-48, 148-191, 219-225)         *)
(***************************************************************************)
THEOREM AlwaysToldTheTruth == ScriptSpec => []ToldTheTruth
<1>1. ScriptInv => ToldTheTruth
  BY DEF ScriptInv
<1> QED
  BY ScriptInvariance, <1>1, PTL

--------------------------------------------------------------------------------
(***************************************************************************)
(*             From the flags of install and join to a node                *)
(***************************************************************************)
\* The options that a line may have: those of the extra arguments and its own.
Option ==
  (STRING \X STRING)
  \union {Word("server"), Word("--cluster-init"), <<"--tls-san", San>>,
          <<"--datastore-endpoint", flags.datastore>>, <<"--token", flags.token>>,
          <<"--flannel-backend", "ipsec">>, <<"--disable", "servicelb">>,
          <<"--disable", "traefik">>, <<"--server", Url>>, <<"--tls-san", flags.san>>}

(***************************************************************************)
(* The options in a sequence of words.                                     *)
(***************************************************************************)
LEMMA OptionsOfNone == <<>> \in Seq(Option) /\ OptionsOf(<<>>) = {}
  BY DEF OptionsOf

LEMMA OptionsOfSingle ==
  ASSUME NEW s \in Seq(Option), Len(s) = 1
  PROVE  OptionsOf(s) = {s[1]}
<1>1. DOMAIN s = {1}
  OBVIOUS
<1> QED
  BY <1>1 DEF OptionsOf

LEMMA OptionsOfOne ==
  ASSUME NEW o \in Option
  PROVE  /\ <<o>> \in Seq(Option) /\ <<o>> # <<>>
         /\ OptionsOf(<<o>>) = {o} /\ <<o>>[1] = o /\ OptionsOf(Tail(<<o>>)) = {}
<1> DEFINE s == <<o>>
<1>1. s \in Seq(Option) /\ DOMAIN s = {1} /\ s[1] = o /\ Len(s) = 1
  OBVIOUS
<1>2. Tail(s) \in Seq(Option) /\ Len(Tail(s)) = 0 /\ DOMAIN Tail(s) = {}
  BY <1>1
<1> HIDE DEF s
<1>3. OptionsOf(s) = {o} /\ OptionsOf(Tail(s)) = {}
  BY <1>1, <1>2 DEF OptionsOf
<1> QED
  BY <1>1, <1>3 DEF s

LEMMA OptionsOfBoth ==
  ASSUME NEW s \in Seq(Option), NEW t \in Seq(Option)
  PROVE  /\ s \o t \in Seq(Option)
         /\ OptionsOf(s \o t) = OptionsOf(s) \union OptionsOf(t)
<1>1. /\ s \o t \in Seq(Option) /\ Len(s) \in Nat /\ Len(t) \in Nat
      /\ DOMAIN (s \o t) = 1..(Len(s) + Len(t))
      /\ DOMAIN s = 1..Len(s) /\ DOMAIN t = 1..Len(t)
      /\ \A k \in 1..Len(s) : (s \o t)[k] = s[k]
      /\ \A k \in 1..Len(t) : (s \o t)[Len(s) + k] = t[k]
  OBVIOUS
<1>2. OptionsOf(s \o t) \subseteq OptionsOf(s) \union OptionsOf(t)
  <2> SUFFICES ASSUME NEW k \in 1..(Len(s) + Len(t))
               PROVE  (s \o t)[k] \in OptionsOf(s) \union OptionsOf(t)
    BY <1>1 DEF OptionsOf
  <2>1. CASE k \in 1..Len(s)
    BY <1>1, <2>1 DEF OptionsOf
  <2>2. CASE k \notin 1..Len(s)
    <3>1. k - Len(s) \in 1..Len(t) /\ k = Len(s) + (k - Len(s))
      BY <1>1, <2>2
    <3>2. (s \o t)[k] = t[k - Len(s)]
      BY <1>1, <3>1
    <3> QED
      BY <1>1, <3>1, <3>2 DEF OptionsOf
  <2> QED
    BY <2>1, <2>2
<1>3. OptionsOf(s) \subseteq OptionsOf(s \o t)
  BY <1>1 DEF OptionsOf
<1>4. OptionsOf(t) \subseteq OptionsOf(s \o t)
  <2> SUFFICES ASSUME NEW k \in 1..Len(t) PROVE t[k] \in OptionsOf(s \o t)
    BY <1>1 DEF OptionsOf
  <2>1. Len(s) + k \in 1..(Len(s) + Len(t))
    BY <1>1
  <2> QED
    BY <1>1, <2>1 DEF OptionsOf
<1> QED
  BY <1>1, <1>2, <1>3, <1>4

\* A sequence that starts with a word, and the options behind it.
Starts(s, word, options) ==
  s \in Seq(Option) /\ s # <<>> /\ s[1] = word /\ OptionsOf(Tail(s)) = options

LEMMA StartsOne ==
  ASSUME NEW o \in Option
  PROVE  Starts(<<o>>, o, {})
  BY OptionsOfOne DEF Starts

LEMMA StartsBoth ==
  ASSUME NEW s, NEW word, NEW options, Starts(s, word, options), NEW t \in Seq(Option)
  PROVE  Starts(s \o t, word, options \union OptionsOf(t))
<1>1. s \in Seq(Option) /\ s # <<>> /\ s[1] = word /\ OptionsOf(Tail(s)) = options
  BY DEF Starts
<1>2. s \o t \in Seq(Option) /\ s \o t # <<>> /\ (s \o t)[1] = s[1]
  BY <1>1
<1>3. Tail(s) \in Seq(Option) /\ Tail(s \o t) = Tail(s) \o t
  BY <1>1
<1> QED
  BY <1>1, <1>2, <1>3, OptionsOfBoth DEF Starts

LEMMA StartsAll ==
  ASSUME NEW s, NEW word, NEW options, Starts(s, word, options)
  PROVE  OptionsOf(s) = {word} \union options
<1>1. s \in Seq(Option) /\ s # <<>> /\ s[1] = word /\ OptionsOf(Tail(s)) = options
  BY DEF Starts
<1>2. /\ Len(s) \in Nat /\ Len(s) > 0 /\ DOMAIN s = 1..Len(s)
      /\ DOMAIN Tail(s) = 1..(Len(s) - 1)
      /\ \A k \in 1..(Len(s) - 1) : Tail(s)[k] = s[k + 1]
  BY <1>1
<1>3. \A k \in 1..Len(s) : k = 1 \/ (k - 1 \in 1..(Len(s) - 1) /\ k = (k - 1) + 1)
  BY <1>2
<1>4. \A k \in 1..(Len(s) - 1) : k + 1 \in 1..Len(s)
  BY <1>2
<1>5. OptionsOf(s) \subseteq {word} \union options
  <2> SUFFICES ASSUME NEW k \in 1..Len(s) PROVE s[k] \in {word} \union options
    BY <1>2 DEF OptionsOf
  <2>1. CASE k = 1
    BY <1>1, <2>1
  <2>2. CASE k - 1 \in 1..(Len(s) - 1) /\ k = (k - 1) + 1
    <3>1. s[k] = Tail(s)[k - 1] /\ k - 1 \in DOMAIN Tail(s)
      BY <1>2, <2>2
    <3> QED
      BY <1>1, <3>1 DEF OptionsOf
  <2> QED
    BY <1>3, <2>1, <2>2
<1>6. {word} \union options \subseteq OptionsOf(s)
  BY <1>1, <1>2, <1>4 DEF OptionsOf
<1> QED
  BY <1>5, <1>6

LEMMA GivenOptions ==
  ASSUME NEW condition \in BOOLEAN, NEW words \in Seq(Option)
  PROVE  /\ Given(condition, words) \in Seq(Option)
         /\ OptionsOf(Given(condition, words)) = When(condition, OptionsOf(words))
  BY OptionsOfNone DEF Given, When

(***************************************************************************)
(* The line of install.                                                    *)
(***************************************************************************)
LEMMA FlagTypes ==
  ASSUME flags \in InstallFlags \union JoinFlags
  PROVE  /\ flags.kind \in {"install", "join"}
         /\ flags.kind = "install" => flags \in InstallFlags
         /\ flags.kind = "join" => flags \in JoinFlags
         /\ flags.extra \in Seq(Option)
         /\ OptionsOf(flags.extra) \intersect Roles = {}
<1>1. /\ flags.kind \in {"install", "join"} /\ flags.extra \in Extras
      /\ flags.kind = "install" => flags \in InstallFlags
      /\ flags.kind = "join" => flags \in JoinFlags
  BY DEF InstallFlags, JoinFlags
<1> QED
  <2>1. STRING \X STRING \subseteq Option
    BY DEF Option
  <2>2. flags.extra \in Seq(STRING \X STRING)
    BY <1>1, ExtrasAssumption
  <2>3. flags.extra \in Seq(Option)
    BY <2>1, <2>2
  <2> QED
    BY <1>1, <2>3, ExtrasAssumption

LEMMA DisableExtrasOptions ==
  /\ DisableExtras \in Seq(Option)
  /\ OptionsOf(DisableExtras) = {<<"--disable", "servicelb">>, <<"--disable", "traefik">>}
<1> DEFINE a == <<"--disable", "servicelb">>
           b == <<"--disable", "traefik">>
<1>1. a \in Option /\ b \in Option
  BY DEF Option
<1> HIDE DEF a, b
<1>2. OptionsOf(<<a, b>>) = {a, b} /\ <<a, b>> \in Seq(Option)
  BY <1>1 DEF OptionsOf
<1> QED
  BY <1>2 DEF a, b, DisableExtras

\* What the flags of install ask for, beside the extra arguments.
OwnOptions ==
  When(flags.cluster, {Word("--cluster-init")})
  \union {<<"--tls-san", San>>}
  \union When(flags.datastore # "",
              {<<"--datastore-endpoint", flags.datastore>>, <<"--token", flags.token>>})
  \union When(flags.ipsec, {<<"--flannel-backend", "ipsec">>})
  \union When(flags.noExtras, OptionsOf(DisableExtras))

LEMMA InstallStarts ==
  ASSUME flags \in InstallFlags
  PROVE  Starts(InstallLine.exec, Word("server"), OwnOptions \union OptionsOf(flags.extra))
<1> DEFINE w  == Word("server")
           ci == Word("--cluster-init")
           ts == <<"--tls-san", San>>
           de == <<"--datastore-endpoint", flags.datastore>>
           to == <<"--token", flags.token>>
           fb == <<"--flannel-backend", "ipsec">>
<1>1. /\ w \in Option /\ ci \in Option /\ ts \in Option /\ de \in Option
      /\ to \in Option /\ fb \in Option
  BY DEF Option
<1>2. /\ flags.cluster \in BOOLEAN /\ flags.ipsec \in BOOLEAN /\ flags.noExtras \in BOOLEAN
      /\ flags.extra \in Seq(Option)
  BY FlagTypes DEF InstallFlags
<1> HIDE DEF w, ci, ts, de, to, fb
<1> DEFINE e1 == <<w>> \o Given(flags.cluster, <<ci>>)
           e2 == e1 \o <<ts>>
           e3 == e2 \o Given(flags.datastore # "", <<de, to>>)
           e4 == e3 \o Given(flags.ipsec, <<fb>>)
           e5 == e4 \o Given(flags.noExtras, DisableExtras)
           o1 == When(flags.cluster, {ci})
           o2 == o1 \union {ts}
           o3 == o2 \union When(flags.datastore # "", {de, to})
           o4 == o3 \union When(flags.ipsec, {fb})
           o5 == o4 \union When(flags.noExtras, OptionsOf(DisableExtras))
<1>3. Starts(e1, w, o1)
  <2>1. Starts(<<w>>, w, {})
    BY <1>1, StartsOne
  <2> DEFINE g == Given(flags.cluster, <<ci>>)
  <2>2. <<ci>> \in Seq(Option) /\ OptionsOf(<<ci>>) = {ci}
    BY <1>1, OptionsOfOne
  <2>3. g \in Seq(Option) /\ OptionsOf(g) = o1
    BY <1>2, <2>2, GivenOptions
  <2> HIDE DEF g
  <2>4. Starts(<<w>> \o g, w, {} \union OptionsOf(g))
    BY <2>1, <2>3, StartsBoth
  <2> QED
    BY <2>3, <2>4 DEF g
<1>4. Starts(e2, w, o2)
  <2>1. <<ts>> \in Seq(Option) /\ OptionsOf(<<ts>>) = {ts}
    BY <1>1, OptionsOfOne
  <2> HIDE DEF e1, o1
  <2>2. Starts(e2, w, o1 \union OptionsOf(<<ts>>))
    BY <1>3, <2>1, StartsBoth
  <2> QED
    BY <2>1, <2>2
<1>5. Starts(e3, w, o3)
  <2> DEFINE g == Given(flags.datastore # "", <<de, to>>)
  <2>1. <<de, to>> \in Seq(Option) /\ OptionsOf(<<de, to>>) = {de, to}
    BY <1>1 DEF OptionsOf
  <2>2. g \in Seq(Option) /\ OptionsOf(g) = When(flags.datastore # "", {de, to})
    BY <2>1, GivenOptions
  <2> HIDE DEF e2, o2, g
  <2>3. Starts(e2 \o g, w, o2 \union OptionsOf(g))
    BY <1>4, <2>2, StartsBoth
  <2> QED
    BY <2>2, <2>3 DEF g
<1>6. Starts(e4, w, o4)
  <2> DEFINE g == Given(flags.ipsec, <<fb>>)
  <2>1. g \in Seq(Option) /\ OptionsOf(g) = When(flags.ipsec, {fb})
    BY <1>1, <1>2, OptionsOfOne, GivenOptions
  <2> HIDE DEF e3, o3, g
  <2>2. Starts(e3 \o g, w, o3 \union OptionsOf(g))
    BY <1>5, <2>1, StartsBoth
  <2> QED
    BY <2>1, <2>2 DEF g
<1>7. Starts(e5, w, o5)
  <2> DEFINE g == Given(flags.noExtras, DisableExtras)
  <2>1. g \in Seq(Option) /\ OptionsOf(g) = When(flags.noExtras, OptionsOf(DisableExtras))
    BY <1>2, DisableExtrasOptions, GivenOptions
  <2> HIDE DEF e4, o4, g
  <2>2. Starts(e4 \o g, w, o4 \union OptionsOf(g))
    BY <1>6, <2>1, StartsBoth
  <2> QED
    BY <2>1, <2>2 DEF g
<1>8. Starts(e5 \o flags.extra, w, o5 \union OptionsOf(flags.extra))
  <2> HIDE DEF e5, o5
  <2> QED
    BY <1>2, <1>7, StartsBoth
<1> QED
  BY <1>8 DEF w, ci, ts, de, to, fb, InstallLine, OwnOptions

(***************************************************************************)
(* The node that the installer makes of a line.                            *)
(***************************************************************************)
LEMMA InstalledNamed ==
  ASSUME NEW l, NEW w \in Roles, NEW options, Starts(l.exec \o l.args, w, options)
  PROVE  /\ Installed(l).role = w /\ Installed(l).options = options
         /\ Installed(l).url = l.url /\ Installed(l).token = l.token
         /\ Installed(l).release = l.release
<1> DEFINE words == l.exec \o l.args
<1>1. words # <<>> /\ words[1] = w /\ OptionsOf(Tail(words)) = options
  BY DEF Starts
<1> QED
  BY <1>1 DEF Installed

LEMMA InstalledUnnamed ==
  ASSUME NEW l, l.exec \o l.args \in Seq(Option),
         OptionsOf(l.exec \o l.args) \intersect Roles = {}
  PROVE  /\ Installed(l).role = Word(IF l.url = "" THEN "server" ELSE "agent")
         /\ Installed(l).options = OptionsOf(l.exec \o l.args)
         /\ Installed(l).url = l.url /\ Installed(l).token = l.token
         /\ Installed(l).release = l.release
<1> DEFINE words == l.exec \o l.args
<1>1. ~(words # <<>> /\ words[1] \in Roles)
  <2>1. words \in Seq(Option) /\ OptionsOf(words) \intersect Roles = {}
    OBVIOUS
  <2> HIDE DEF words
  <2>2. words # <<>> => 1 \in DOMAIN words
    BY <2>1
  <2> QED
    BY <2>1, <2>2 DEF OptionsOf
<1> QED
  BY <1>1 DEF Installed

LEMMA InstallNode ==
  ASSUME flags \in InstallFlags \union JoinFlags, flags.kind = "install", FlagError = ""
  PROVE  /\ Installed(InstallLine).role = Word("server")
         /\ Installed(InstallLine).url = ""
         /\ Installed(InstallLine).options \subseteq Asked(flags)
         /\ Asked(flags) \subseteq Installed(InstallLine).options \union Dropped(flags)
         /\ Installed(InstallLine).release = Release
<1>1. flags \in InstallFlags
  BY FlagTypes
<1>2. Starts(InstallLine.exec, Word("server"), OwnOptions \union OptionsOf(flags.extra))
  BY <1>1, InstallStarts
<1>3. Starts(InstallLine.exec \o <<>>, Word("server"),
             OwnOptions \union OptionsOf(flags.extra))
  <2> DEFINE s == InstallLine.exec
             options == OwnOptions \union OptionsOf(flags.extra)
  <2>1. Starts(s, Word("server"), options)
    BY <1>2
  <2> HIDE DEF s, options
  <2>2. Starts(s \o <<>>, Word("server"), options \union OptionsOf(<<>>))
    BY <2>1, OptionsOfNone, StartsBoth
  <2>3. Starts(s \o <<>>, Word("server"), options)
    BY <2>2, OptionsOfNone
  <2> QED
    BY <2>3 DEF s, options
<1>4. /\ InstallLine.args = <<>> /\ InstallLine.url = "" /\ InstallLine.release = Release
  BY DEF InstallLine
<1>5. /\ OwnOptions \union OptionsOf(flags.extra) \subseteq Asked(flags)
      /\ Asked(flags) \subseteq (OwnOptions \union OptionsOf(flags.extra)) \union Dropped(flags)
  <2>1. /\ flags.datastore # "" => flags.token # ""
        /\ flags.san # "" => San = flags.san
        /\ flags.san = "" => San = "host"
    BY <1>1 DEF FlagError, InstallError, InstallFlags, San
  <2>2. OwnOptions \union OptionsOf(flags.extra) \subseteq Asked(flags)
    BY <2>1, DisableExtrasOptions DEF OwnOptions, Asked, When
  <2>3. Asked(flags) \subseteq (OwnOptions \union OptionsOf(flags.extra)) \union Dropped(flags)
    BY <2>1, DisableExtrasOptions DEF OwnOptions, Asked, Dropped, When
  <2> QED
    BY <2>2, <2>3
<1>6. InstallLine.exec \o InstallLine.args = InstallLine.exec \o <<>>
  BY <1>4
<1> DEFINE options == OwnOptions \union OptionsOf(flags.extra)
<1> HIDE DEF options
<1>7. Starts(InstallLine.exec \o InstallLine.args, Word("server"), options)
  BY <1>3, <1>6 DEF options
<1>8. /\ Installed(InstallLine).role = Word("server")
      /\ Installed(InstallLine).options = options
      /\ Installed(InstallLine).url = "" /\ Installed(InstallLine).release = Release
  BY <1>4, <1>7, InstalledNamed DEF Roles
<1> QED
  BY <1>5, <1>8 DEF options

LEMMA JoinArgs ==
  ASSUME flags \in JoinFlags
  PROVE  /\ JoinLine.args \in Seq(Option)
         /\ OptionsOf(JoinLine.args) =
              OptionsOf(flags.extra)
                \union When(flags.server /\ flags.noExtras, OptionsOf(DisableExtras))
<1> DEFINE g == Given(flags.server /\ flags.noExtras, DisableExtras)
<1>1. flags.extra \in Seq(Option) /\ (flags.server /\ flags.noExtras) \in BOOLEAN
  BY FlagTypes DEF JoinFlags
<1>2. /\ g \in Seq(Option)
      /\ OptionsOf(g) = When(flags.server /\ flags.noExtras, OptionsOf(DisableExtras))
  BY <1>1, DisableExtrasOptions, GivenOptions
<1>3. JoinLine.args = flags.extra \o g
  BY DEF JoinLine
<1> HIDE DEF g
<1> QED
  BY <1>1, <1>2, <1>3, OptionsOfBoth

LEMMA JoinExecStarts ==
  ASSUME flags \in JoinFlags, flags.server
  PROVE  Starts(JoinExec, Word("server"),
                {<<"--server", Url>>} \union When(flags.san # "", {<<"--tls-san", flags.san>>}))
<1> DEFINE w == Word("server")
           u == <<"--server", Url>>
           t == <<"--tls-san", flags.san>>
           g == Given(flags.san # "", <<t>>)
<1>1. w \in Option /\ u \in Option /\ t \in Option
  BY DEF Option
<1>2. JoinExec = <<w, u>> \o g
  BY DEF JoinExec, Given
<1> HIDE DEF w, u, t
<1>3. Starts(<<w, u>>, w, {u})
  <2> DEFINE s == <<w, u>>
  <2>1. s \in Seq(Option) /\ Len(s) = 2 /\ s # <<>> /\ s[1] = w /\ s[2] = u
    BY <1>1
  <2> HIDE DEF s
  <2>2. Len(Tail(s)) = 1 /\ Tail(s) \in Seq(Option) /\ Tail(s)[1] = u
    BY <2>1
  <2>3. OptionsOf(Tail(s)) = {u}
    BY <2>2, OptionsOfSingle
  <2> QED
    BY <2>1, <2>3 DEF Starts, s
<1>4. g \in Seq(Option) /\ OptionsOf(g) = When(flags.san # "", {t})
  <2>1. <<t>> \in Seq(Option) /\ OptionsOf(<<t>>) = {t}
    BY <1>1, OptionsOfOne
  <2> QED
    BY <2>1, GivenOptions
<1> HIDE DEF g
<1>5. Starts(<<w, u>> \o g, w, {u} \union OptionsOf(g))
  BY <1>3, <1>4, StartsBoth
<1> QED
  BY <1>2, <1>4, <1>5 DEF w, u, t

LEMMA ServersInBoth ==
  ASSUME NEW a, NEW b
  PROVE  ServersIn(a \union b) = ServersIn(a) \union ServersIn(b)
  BY DEF ServersIn

LEMMA JoinNode ==
  ASSUME flags \in InstallFlags \union JoinFlags, flags.kind = "join", FlagError = ""
  PROVE  /\ Installed(JoinLine).role = Word(IF flags.server THEN "server" ELSE "agent")
         /\ Installed(JoinLine).url = Url /\ Url # ""
         /\ Installed(JoinLine).options = Asked(flags)
         /\ ServersIn(Asked(flags)) =
              When(flags.server, {Url}) \union ServersIn(OptionsOf(flags.extra))
         /\ Installed(JoinLine).release = Release
         /\ Installed(JoinLine).token = "token"
<1>1. flags \in JoinFlags /\ flags.extra \in Seq(Option)
      /\ OptionsOf(flags.extra) \intersect Roles = {}
  BY FlagTypes
<1>2. /\ ~flags.server => ~flags.noExtras /\ flags.san = ""
      /\ flags.server \in BOOLEAN
  BY <1>1 DEF FlagError, JoinError, JoinFlags
<1>3. /\ JoinLine.url = Url /\ JoinLine.release = Release /\ JoinLine.token = "token"
      /\ JoinLine.exec = JoinExec /\ Url # ""
  BY <1>1 DEF JoinLine, Trimmed, Url, JoinFlags
<1> DEFINE others == When(flags.san # "", {<<"--tls-san", flags.san>>})
                     \union When(flags.noExtras, OptionsOf(DisableExtras))
<1>4. /\ Asked(flags) = (When(flags.server, {<<"--server", Url>>}) \union others)
                          \union OptionsOf(flags.extra)
      /\ ServersIn(Asked(flags)) =
           When(flags.server, {Url}) \union ServersIn(OptionsOf(flags.extra))
  <2>1. Asked(flags) = (When(flags.server, {<<"--server", Url>>}) \union others)
                          \union OptionsOf(flags.extra)
    BY DisableExtrasOptions DEF Asked, When, Url
  <2>2. ServersIn(others) = {}
    <3>1. /\ <<"--tls-san", flags.san>>[1] # "--server"
          /\ <<"--disable", "servicelb">>[1] # "--server"
          /\ <<"--disable", "traefik">>[1] # "--server"
      OBVIOUS
    <3>2. \A o \in others : \/ o = <<"--tls-san", flags.san>>
                            \/ o = <<"--disable", "servicelb">>
                            \/ o = <<"--disable", "traefik">>
      BY DisableExtrasOptions DEF When
    <3>3. \A o \in others : o[1] # "--server"
      BY <3>1, <3>2
    <3> HIDE DEF others
    <3> QED
      BY <3>3 DEF ServersIn
  <2>3. ServersIn(When(flags.server, {<<"--server", Url>>})) = When(flags.server, {Url})
    <3> DEFINE u == <<"--server", Url>>
    <3>1. u[1] = "--server" /\ u[2] = Url
      OBVIOUS
    <3> HIDE DEF u
    <3>2. ServersIn({u}) = {Url} /\ ServersIn({}) = {}
      BY <3>1 DEF ServersIn
    <3> QED
      BY <3>2 DEF u, When
  <2> HIDE DEF others
  <2> DEFINE first == When(flags.server, {<<"--server", Url>>})
  <2>4. ServersIn(first) = When(flags.server, {Url})
    BY <2>3
  <2> HIDE DEF first
  <2>5. ServersIn(first \union others) = ServersIn(first) \union ServersIn(others)
    BY ServersInBoth
  <2> DEFINE own == first \union others
  <2> HIDE DEF own
  <2>6. ServersIn(own \union OptionsOf(flags.extra))
          = ServersIn(own) \union ServersIn(OptionsOf(flags.extra))
    BY ServersInBoth
  <2> QED
    BY <2>1, <2>2, <2>4, <2>5, <2>6 DEF first, own
<1>5. CASE flags.server
  <2> DEFINE own == {<<"--server", Url>>}
                      \union When(flags.san # "", {<<"--tls-san", flags.san>>})
  <2>1. Starts(JoinExec, Word("server"), own)
    BY <1>1, <1>5, JoinExecStarts
  <2>2. own \union OptionsOf(JoinLine.args) = Asked(flags)
    BY <1>1, <1>4, <1>5, JoinArgs DEF When
  <2> HIDE DEF own
  <2>3. Starts(JoinLine.exec \o JoinLine.args, Word("server"), Asked(flags))
    <3>1. JoinLine.args \in Seq(Option)
      BY <1>1, JoinArgs
    <3>2. Starts(JoinExec \o JoinLine.args, Word("server"),
                 own \union OptionsOf(JoinLine.args))
      BY <2>1, <3>1, StartsBoth
    <3> QED
      BY <1>3, <2>2, <3>2
  <2> QED
    BY <1>3, <1>4, <1>5, <2>3, InstalledNamed DEF Roles
<1>6. CASE ~flags.server
  <2>1. /\ JoinLine.args \in Seq(Option)
        /\ OptionsOf(JoinLine.args) = OptionsOf(flags.extra)
    BY <1>1, <1>6, JoinArgs DEF When
  <2>2. JoinLine.exec = <<>>
    BY <1>3, <1>6 DEF JoinExec, Given
  <2>3. /\ JoinLine.exec \o JoinLine.args \in Seq(Option)
        /\ OptionsOf(JoinLine.exec \o JoinLine.args) = OptionsOf(flags.extra)
    <3> DEFINE s == JoinLine.exec
               t == JoinLine.args
    <3>1. s \in Seq(Option) /\ t \in Seq(Option) /\ OptionsOf(s) = {}
      BY <2>1, <2>2, OptionsOfNone
    <3> HIDE DEF s, t
    <3>2. s \o t \in Seq(Option) /\ OptionsOf(s \o t) = OptionsOf(s) \union OptionsOf(t)
      BY <3>1, OptionsOfBoth
    <3> QED
      BY <2>1, <3>1, <3>2 DEF s, t
  <2>4. Asked(flags) = OptionsOf(flags.extra)
    BY <1>2, <1>4, <1>6 DEF When
  <2> QED
    BY <1>1, <1>3, <1>4, <1>6, <2>3, <2>4, InstalledUnnamed
<1> QED
  BY <1>2, <1>5, <1>6

(***************************************************************************)
(* Quotes: only those of the extra arguments are in a line.                *)
(***************************************************************************)
LEMMA PlainNotQuoted ==
  ASSUME NEW name, NEW value \in PlainValues
  PROVE  <<name, value>> \notin Quoted
<1>1. <<name, value>>[2] = value
  OBVIOUS
<1> QED
  BY <1>1, QuotedAssumption

LEMMA JoinExecNotQuoted ==
  ASSUME flags \in JoinFlags
  PROVE  OptionsOf(JoinLine.exec) \intersect Quoted = {}
<1>1. JoinLine.exec = JoinExec
  BY DEF JoinLine
<1>2. CASE flags.server
  <2>1. OptionsOf(JoinExec) \subseteq
          {<<"server", "">>, <<"--server", Url>>, <<"--tls-san", flags.san>>}
    <3> DEFINE own == {<<"--server", Url>>}
                        \union When(flags.san # "", {<<"--tls-san", flags.san>>})
    <3>1. Starts(JoinExec, Word("server"), own)
      BY <1>2, JoinExecStarts
    <3> HIDE DEF own
    <3>2. OptionsOf(JoinExec) = {Word("server")} \union own
      BY <3>1, StartsAll
    <3> QED
      BY <3>2 DEF own, Word, When
  <2>2. Url \in PlainValues /\ flags.san \in PlainValues /\ "" \in PlainValues
    BY DEF JoinFlags, Url, PlainValues
  <2> QED
    BY <1>1, <2>1, <2>2, PlainNotQuoted
<1>3. CASE ~flags.server
  BY <1>1, <1>3, OptionsOfNone DEF JoinExec, Given
<1> QED
  BY <1>2, <1>3

LEMMA JoinQuotes ==
  ASSUME flags \in JoinFlags, ~QuotesHold(JoinLine)
  PROVE  OptionsOf(flags.extra) \intersect Unpaired # {}
<1>1. OptionsOf(JoinLine.args) \intersect Unpaired # {}
  BY JoinExecNotQuoted DEF QuotesHold
<1>2. OptionsOf(JoinLine.args) \subseteq OptionsOf(flags.extra) \union OptionsOf(DisableExtras)
  BY JoinArgs DEF When
<1>3. OptionsOf(DisableExtras) \intersect Unpaired = {}
  <2>1. {"servicelb", "traefik"} \subseteq PlainValues
    BY DEF PlainValues
  <2>2. /\ <<"--disable", "servicelb">> \notin Quoted
        /\ <<"--disable", "traefik">> \notin Quoted
    BY <2>1, PlainNotQuoted
  <2> QED
    BY <2>2, DisableExtrasOptions, QuotedAssumption
<1> QED
  BY <1>1, <1>2, <1>3

LEMMA InstallQuotes ==
  ASSUME flags \in InstallFlags, FlagError = "",
         OptionsOf(InstallLine.exec) \intersect Quoted # {}
  PROVE  OptionsOf(flags.extra) \intersect Quoted # {}
<1>1. OptionsOf(InstallLine.exec) =
        {Word("server")} \union (OwnOptions \union OptionsOf(flags.extra))
  <2> DEFINE s == InstallLine.exec
             options == OwnOptions \union OptionsOf(flags.extra)
  <2>1. Starts(s, Word("server"), options)
    BY InstallStarts
  <2> HIDE DEF s, options
  <2>2. OptionsOf(s) = {Word("server")} \union options
    BY <2>1, StartsAll
  <2> QED
    BY <2>2 DEF s, options
<1>2. /\ flags.kind = "install"
      /\ flags.datastore # "" => flags.datastore = "mysql" /\ flags.token = "token"
      /\ San \in PlainValues
  BY DEF FlagError, InstallError, InstallFlags, San, PlainValues
<1>3. /\ {"", "mysql", "token", "ipsec", "servicelb", "traefik"} \subseteq PlainValues
  BY DEF PlainValues
<1>4. OwnOptions \subseteq
        {<<"--cluster-init", "">>, <<"--tls-san", San>>, <<"--datastore-endpoint", "mysql">>,
         <<"--token", "token">>, <<"--flannel-backend", "ipsec">>,
         <<"--disable", "servicelb">>, <<"--disable", "traefik">>}
  <2>1. /\ When(flags.cluster, {Word("--cluster-init")}) \subseteq {<<"--cluster-init", "">>}
        /\ When(flags.datastore # "", {<<"--datastore-endpoint", flags.datastore>>,
                                       <<"--token", flags.token>>})
             \subseteq {<<"--datastore-endpoint", "mysql">>, <<"--token", "token">>}
    BY <1>2 DEF When, Word
  <2>2. /\ When(flags.ipsec, {<<"--flannel-backend", "ipsec">>})
             \subseteq {<<"--flannel-backend", "ipsec">>}
        /\ When(flags.noExtras, OptionsOf(DisableExtras))
             \subseteq {<<"--disable", "servicelb">>, <<"--disable", "traefik">>}
    BY DisableExtrasOptions DEF When
  <2> QED
    BY <2>1, <2>2 DEF OwnOptions
<1>5. Word("server") \notin Quoted /\ OwnOptions \intersect Quoted = {}
  <2>1. /\ <<"server", "">> \notin Quoted /\ <<"--cluster-init", "">> \notin Quoted
        /\ <<"--tls-san", San>> \notin Quoted
        /\ <<"--datastore-endpoint", "mysql">> \notin Quoted
        /\ <<"--token", "token">> \notin Quoted
    BY <1>2, <1>3, PlainNotQuoted
  <2>2. /\ <<"--flannel-backend", "ipsec">> \notin Quoted
        /\ <<"--disable", "servicelb">> \notin Quoted
        /\ <<"--disable", "traefik">> \notin Quoted
    BY <1>3, PlainNotQuoted
  <2> QED
    BY <1>4, <2>1, <2>2 DEF Word
<1> QED
  BY <1>1, <1>5

(***************************************************************************)
(* The invariant.                                                          *)
(***************************************************************************)
LEMMA ArgsInit == Init => IInv
  BY DEF Init, IInv, LineFromFlags, NodeAsAsked, RoleAsAsked, OptionsAsAsked,
         ReleaseAndToken, LostToQuotes

LEMMA ReleaseGiven ==
  ASSUME flags \in InstallFlags \union JoinFlags, FlagError = ""
  PROVE  Release[2] # "" /\ (flags.version # "" => Release = <<"version", flags.version>>)
<1>1. flags.version # "" \/ flags.channel # ""
  BY FlagTypes DEF FlagError, InstallError, JoinError, NoRelease
<1> QED
  BY <1>1 DEF Release

LEMMA ArgsStep ==
  ASSUME IInv, [Next]_vars
  PROVE  IInv'
<1>0. flags \in InstallFlags \union JoinFlags /\ LineFromFlags /\ NodeAsAsked
  BY DEF IInv
<1> USE DEF RoleAsAsked, OptionsAsAsked, ReleaseAndToken, LostToQuotes, NodeAsAsked, IInv
<1>1. CASE Refuse
  BY <1>0, <1>1 DEF Refuse, LineFromFlags
<1>2. CASE Build
  <2>1. /\ UNCHANGED flags /\ stage' = "built" /\ FlagError = ""
        /\ line' = IF flags.kind = "install" THEN InstallLine ELSE JoinLine
    BY <1>2 DEF Build
  <2>2. FlagError' = FlagError /\ InstallLine' = InstallLine /\ JoinLine' = JoinLine
    BY <2>1 DEF FlagError, InstallError, JoinError, NoRelease, InstallLine, JoinLine, San,
                Release, Url, JoinExec
  <2> QED
    BY <1>0, <2>1, <2>2 DEF LineFromFlags
<1>3. CASE RunScript
  <2>1. /\ UNCHANGED flags /\ stage' = "started" /\ node' = Installed(line)
        /\ FlagError = "" /\ flags.kind \in {"install", "join"}
        /\ line = IF flags.kind = "install" THEN InstallLine ELSE JoinLine
    BY <1>0, <1>3, FlagTypes DEF RunScript, LineFromFlags
  <2>2. CASE flags.kind = "install"
    <3>1. /\ node'.role = Word("server") /\ node'.url = ""
          /\ node'.options \subseteq Asked(flags) /\ node'.release = Release
          /\ Asked(flags) \subseteq node'.options \union Dropped(flags)
      BY <1>0, <2>1, <2>2, InstallNode
    <3> QED
      BY <1>0, <2>1, <2>2, <3>1, ReleaseGiven DEF LineFromFlags
  <2>3. CASE flags.kind = "join"
    <3>1. /\ node'.role = Word(IF flags.server THEN "server" ELSE "agent")
          /\ node'.url = Url /\ Url # "" /\ node'.token = "token"
          /\ node'.options = Asked(flags) /\ node'.release = Release
          /\ ServersIn(Asked(flags)) =
               When(flags.server, {Url}) \union ServersIn(OptionsOf(flags.extra))
      BY <1>0, <2>1, <2>3, JoinNode
    <3> QED
      BY <1>0, <2>1, <2>3, <3>1, ReleaseGiven DEF LineFromFlags
  <2> QED
    BY <2>1, <2>2, <2>3
<1>4. CASE ScriptNotRun
  <2>1. /\ UNCHANGED <<flags, line, node>> /\ stage' = "not started" /\ ~QuotesHold(line)
        /\ FlagError = "" /\ flags.kind \in {"install", "join"}
        /\ line = IF flags.kind = "install" THEN InstallLine ELSE JoinLine
    BY <1>0, <1>4, FlagTypes DEF ScriptNotRun, LineFromFlags
  <2>2. CASE flags.kind = "install"
    <3>1. flags \in InstallFlags /\ line = InstallLine /\ InstallLine.args = <<>>
      BY <1>0, <2>1, <2>2, FlagTypes DEF InstallLine
    <3>2. OptionsOf(InstallLine.exec) \intersect Quoted # {}
      BY <2>1, <3>1, OptionsOfNone DEF QuotesHold
    <3>3. OptionsOf(flags.extra) \intersect Quoted # {}
      BY <2>1, <3>1, <3>2, InstallQuotes
    <3> QED
      BY <1>0, <2>1, <2>2, <3>3 DEF LineFromFlags
  <2>3. CASE flags.kind = "join"
    <3>1. OptionsOf(flags.extra) \intersect Unpaired # {}
      BY <1>0, <2>1, <2>3, FlagTypes, JoinQuotes
    <3> QED
      BY <1>0, <2>1, <2>3, <3>1 DEF LineFromFlags
  <2> QED
    BY <2>1, <2>2, <2>3
<1>5. CASE UNCHANGED vars
  <2>1. UNCHANGED <<flags, stage>> /\ UNCHANGED <<line, node>>
    BY <1>5 DEF vars
  <2>2. FlagError' = FlagError /\ InstallLine' = InstallLine /\ JoinLine' = JoinLine
    BY <2>1 DEF FlagError, InstallError, JoinError, NoRelease, InstallLine, JoinLine, San,
                Release, Url, JoinExec
  <2> QED
    BY <1>0, <2>1, <2>2 DEF LineFromFlags
<1> QED
  BY <1>1, <1>2, <1>3, <1>4, <1>5 DEF Next

(***************************************************************************)
(* The node that is started has the role, the release and the token that   *)
(* the flags ask for, and the options but for the two of Dropped (--token  *)
(* without --datastore, the host next to --tls-san); and a line is lost    *)
(* only to a quote in the extra arguments. (install.go 600-639, join.go    *)
(* 293-305, 369-382, 495-536)                                              *)
(***************************************************************************)
THEOREM NodeAlwaysAsAsked == Spec => []NodeAsAsked
<1>1. IInv /\ [Next]_vars => IInv'
  BY ArgsStep
<1>2. IInv => NodeAsAsked
  BY DEF IInv
<1> QED
  BY ArgsInit, <1>1, <1>2, PTL DEF Spec

================================================================================
