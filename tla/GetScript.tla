------------------------------- MODULE GetScript -------------------------------
(***************************************************************************)
(* get.sh: the script that downloads k3sup into BINLOCATION and, with PRO  *)
(* set, has the k3sup it finds there fetch k3sup-pro (ProInstall).         *)
(*                                                                         *)
(* There is no set -e: after a command that fails the script goes on,      *)
(* unless it looks at the status. VERIFY_CHECKSUM is 0, so that checkHash  *)
(* is never called; the names of systems and architectures, ALIAS_NAME     *)
(* (which nothing sets) and what is printed for the eye only are left out. *)
(*                                                                         *)
(* A file is absent or holds the release of before, the release asked for, *)
(* the body of an error page, or a part of something.                      *)
(***************************************************************************)
EXTENDS Integers

Invocations == {"plain", "documented", "exported"}
Contents    == {"absent", "old", "release", "page", "part"}

\* root downloads to /tmp, everybody else to the working directory; which may be
\* BINLOCATION, and then the download has the name of the installed k3sup where the
\* architecture gives it no suffix.
Hosts ==
  {h \in
     [at      : {"tmp", "elsewhere", "BINLOCATION"},
      here    : BOOLEAN,  \* files can be made and removed where the download goes
      dir     : BOOLEAN,  \* BINLOCATION is writable
      file    : BOOLEAN,  \* so is the k3sup in it, if there is one
      sameFs  : BOOLEAN,  \* both directories are on one file system
      invoked : Invocations] :
   h.at = "BINLOCATION" => h.here = h.dir /\ h.sameFs}

VARIABLES
  host,
  before,    \* the k3sup that was installed
  files,     \* the k3sup in BINLOCATION ("bin"), the one downloaded beside it
  runnable,  \* targetFile has its execute permission
  found,     \* the version: "" if none was found
  pc,
  said,      \* what the user was told
  pro,       \* the k3sup that was run for get pro
  exit       \* the status of the script

scriptVars == <<host, before, files, runnable, found, pc, said, pro, exit>>

\* targetFile
Target == IF host.at = "BINLOCATION" THEN "bin" ELSE "download"

ScriptInit ==
  /\ host \in Hosts
  /\ before \in {"absent", "old"}
  /\ files \in [{"bin", "download"} -> {"absent", "old"}]
  /\ files["bin"] = before
  /\ runnable = FALSE
  /\ found = ""
  /\ pc = "version"
  /\ said = "nothing"
  /\ pro = "none"
  /\ exit = "none"

\* An assignment in front of a pipeline is for its first command alone: with
\* PRO=1 curl ... | sudo -E sh, it is curl that gets it.
ProSeen == host.invoked = "exported"

--------------------------------------------------------------------------------
Goto(there) == pc = there[1] /\ pc' = there[2]

Exit(status) == pc' = "exited" /\ exit' = status

\* The redirection of releases/latest ends in the version, or in another word when
\* somebody else answers.
GetVersion ==
  /\ Goto(<<"version", "prepare">>)
  /\ found' \in {"right", "wrong"}
  /\ UNCHANGED <<host, before, files, runnable, said, pro, exit>>

\* No answer, or no curl, which is why hasCli never has to complain.
NoVersion ==
  /\ pc = "version"
  /\ Exit("refused")
  /\ said' = "manual"
  /\ UNCHANGED <<host, before, files, runnable, found, pro>>

\* rm of targetFile, whatever it is.
Remove == files' = IF host.here THEN [files EXCEPT ![Target] = "absent"] ELSE files

RemoveOld ==
  /\ Goto(<<"prepare", "download">>)
  /\ Remove
  /\ UNCHANGED <<host, before, runnable, found, said, pro, exit>>

\* curl makes the file, or writes over one that could not be removed.
CanSave ==
  \/ host.here
  \/ files[Target] # "absent" /\ (Target = "bin" => host.file)

\* A download that does not end.
CutOff ==
  \E c \in {files[Target]} \union (IF CanSave THEN {"part"} ELSE {}) :
    files' = [files EXCEPT ![Target] = c]

\* curl without -f: an error page is a download like any other. chmod may fail on a
\* file that was there before.
Download ==
  /\ Goto(<<"download", "install">>)
  /\ CanSave
  /\ \E c \in (IF found = "right" THEN {"release", "page"} ELSE {"page"}) :
       files' = [files EXCEPT ![Target] = c]
  /\ runnable' \in IF host.here THEN {TRUE} ELSE BOOLEAN
  /\ UNCHANGED <<host, before, found, said, pro, exit>>

DownloadUnchecked ==  \* mutant: the status of curl is not looked at
  /\ Goto(<<"download", "install">>)
  /\ CutOff
  /\ runnable' = TRUE
  /\ UNCHANGED <<host, before, found, said, pro, exit>>

\* The status of curl skips the rest of getPackage, and nothing else.
DownloadFails ==
  /\ Goto(<<"download", "after">>)
  /\ CutOff
  /\ UNCHANGED <<host, before, runnable, found, said, pro, exit>>

NotWritable ==
  /\ Goto(<<"install", "after">>)
  /\ ~host.dir
  /\ said' = "copy it"
  /\ UNCHANGED <<host, before, files, runnable, found, pro, exit>>

\* In BINLOCATION this is the download, which is the user's own.
OldWritable == host.file \/ Target = "bin" \/ files["bin"] = "absent"

OldNotWritable ==
  /\ pc = "install"
  /\ host.dir
  /\ ~OldWritable
  /\ Exit("refused")
  /\ UNCHANGED <<host, before, files, runnable, found, said, pro>>

MayMove == host.dir /\ OldWritable

\* mv, which does not move a file onto itself, nor out of a directory it cannot
\* write. The old k3sup is replaced, and nothing said of it yet.
Move ==
  /\ Goto(<<"install", "moved">>)
  /\ MayMove
  /\ host.here
  /\ Target # "bin"
  /\ files' = [files EXCEPT !["bin"] = files["download"], !["download"] = "absent"]
  /\ UNCHANGED <<host, before, runnable, found, said, pro, exit>>

Announce ==
  /\ Goto(<<"moved", "clean up">>)
  /\ said' = "installed"
  /\ UNCHANGED <<host, before, files, runnable, found, pro, exit>>

\* On one file system nothing has changed. From one to another mv removes, copies and
\* removes the source, and does not get to the end of it.
CutMove ==
  \E c \in {files["bin"]}
           \union (IF host.sameFs THEN {} ELSE {"absent", "part", files["download"]}) :
    files' = [files EXCEPT !["bin"] = c]

MoveFailsSaid ==  \* mutant: the status of mv is not looked at
  /\ Goto(<<"install", "clean up">>)
  /\ MayMove
  /\ CutMove
  /\ said' = "installed"
  /\ UNCHANGED <<host, before, runnable, found, pro, exit>>

MoveFails ==
  /\ Goto(<<"install", "clean up">>)
  /\ MayMove
  /\ CutMove
  /\ UNCHANGED <<host, before, runnable, found, said, pro, exit>>

\* rm of targetFile if mv has left it, and SUCCESS_CMD, whose status is not looked at.
CleanUp ==
  /\ Goto(<<"clean up", "after">>)
  /\ Remove
  /\ UNCHANGED <<host, before, runnable, found, said, pro, exit>>

\* thanks; the status of the script is that of its last command.
Thanks ==
  /\ pc = "after"
  /\ ~ProSeen
  /\ Exit("zero")
  /\ UNCHANGED <<host, before, files, runnable, found, said, pro>>

\* Whatever is in BINLOCATION is run for get pro, which may fail.
GetPro ==
  /\ pc = "after"
  /\ ProSeen
  /\ pro' = files["bin"]
  /\ \E status \in {"zero", "nonzero"} :
       /\ Exit(status)
       /\ status = "zero" => files["bin"] \in {"old", "release"}
  /\ UNCHANGED <<host, before, files, runnable, found, said>>

\* The user, or the end of the session the script runs in, stops it: in the middle
\* of a download or of a copy, too.
Stopped ==
  /\ pc # "exited"
  /\ Exit("killed")
  /\ \/ UNCHANGED files
     \/ pc = "download" /\ CutOff
     \/ pc = "install" /\ MayMove /\ CutMove
  /\ UNCHANGED <<host, before, runnable, found, said, pro>>

Script ==
  \/ GetVersion \/ NoVersion
  \/ RemoveOld \/ Download \/ DownloadFails
  \/ NotWritable \/ OldNotWritable \/ Move \/ Announce \/ MoveFails \/ CleanUp
  \/ Thanks \/ GetPro

ScriptNext == Script \/ Stopped

ScriptSpec == ScriptInit /\ [][ScriptNext]_scriptVars

--------------------------------------------------------------------------------
\* What curl ends with: the release or, since it runs without -f and no checksum is
\* compared, the page of an error.
WholeDownload == {"release", "page"}

(***************************************************************************)
(* Wherever the script fails or is stopped, between the move and its       *)
(* message too, the k3sup in BINLOCATION is the one of before or a whole   *)
(* download: none that was cut off, and not the file an earlier run has    *)
(* left behind. There are two exceptions. From one file system to another, *)
(* the move may leave a part or nothing. And a script that is run in       *)
(* BINLOCATION itself has nothing to go back to: it removes the old k3sup  *)
(* before the download and, since mv refuses to move a file onto itself,   *)
(* the new one behind it. (get.sh 123-138, 170-191)                        *)
(***************************************************************************)
Survives ==
  files["bin"] # before =>
    \/ files["bin"] \in WholeDownload
    \/ ~host.sameFs /\ files["bin"] \in {"absent", "part"}
    \/ host.at = "BINLOCATION"

\* What cp finds when the command that is printed is run: it names k3sup in the
\* working directory, where the download of root is not.
CopySource == IF host.at = "tmp" THEN "absent" ELSE files[Target]

(***************************************************************************)
(* What the messages promise, and how far it is so:                        *)
(* - "New version of k3sup installed" is said of a whole download that has *)
(*   replaced the old k3sup, never of a move that failed; but the download *)
(*   may be an error page.                                                 *)
(* - Who is told to copy the download has a whole one to copy, unless it   *)
(*   is root, and the old k3sup is untouched, unless it is where the       *)
(*   download was written to.                                              *)
(* - The two refusals (exit 1) have changed nothing but the download.      *)
(* - Who asked for PRO and gets a status of zero has had a working k3sup   *)
(*   run get pro, if perhaps the old one; unless it was asked for as in    *)
(*   README.md:202, when the script has not heard of it. Without PRO a     *)
(*   status of zero says nothing.                                          *)
(* (get.sh 15-48, 148-191, 219-225)                                        *)
(***************************************************************************)
ToldTheTruth ==
  /\ said = "installed" => files["bin"] \in WholeDownload /\ host.at # "BINLOCATION"
  /\ said = "copy it" =>
       /\ CopySource \in WholeDownload \/ host.at = "tmp"
       /\ host.here => runnable
       /\ files["bin"] = before \/ host.at = "BINLOCATION"
  /\ exit = "refused" => files["bin"] = before /\ pro = "none"
  /\ exit = "zero" /\ host.invoked # "plain" =>
       pro \in {"old", "release"} \/ host.invoked = "documented"

(***************************************************************************)
(* The inductive invariant: what the script may rely on at each place.     *)
(***************************************************************************)
TypeOK ==
  /\ host \in Hosts
  /\ before \in {"absent", "old"}
  /\ files \in [{"bin", "download"} -> Contents]
  /\ runnable \in BOOLEAN
  /\ found \in {"", "right", "wrong"}
  /\ pc \in {"version", "prepare", "download", "install", "moved", "clean up", "after",
             "exited"}
  /\ said \in {"nothing", "manual", "copy it", "installed"}
  /\ pro \in Contents \union {"none"}
  /\ exit \in {"none", "zero", "nonzero", "refused", "killed"}

UntouchedUntilMove ==
  /\ pc \in {"version", "prepare", "download", "install", "moved"} => said = "nothing"
  /\ pc \in {"version", "prepare"} => files["bin"] = before
  /\ pc \in {"download", "install"} /\ Target = "download" => files["bin"] = before

DownloadedToInstall ==
  /\ pc = "install" => files[Target] \in WholeDownload /\ (host.here => runnable)
  /\ pc = "moved" => files["bin"] \in WholeDownload /\ Target = "download"

SaidInPlace ==
  /\ said = "installed" => pc \in {"clean up", "after", "exited"}
  /\ said = "copy it" => pc \in {"after", "exited"}

EndsOnce == pc # "exited" => exit = "none" /\ pro = "none"

ScriptInv ==
  /\ TypeOK
  /\ UntouchedUntilMove
  /\ DownloadedToInstall
  /\ SaidInPlace
  /\ EndsOnce
  /\ Survives
  /\ ToldTheTruth

================================================================================
