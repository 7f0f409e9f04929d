-------------------------------- MODULE ProInstall --------------------------------
(***************************************************************************)
(* k3sup get pro (cmd/get_pro.go): some processes that install k3sup-pro   *)
(* into the same directory. Each one downloads an image, tries the binary  *)
(* in it, copies it over the installed one in place, and tries that.       *)
(*                                                                         *)
(* A file is absent, torn, or holds one of the builds. Copying is two      *)
(* steps: the open, which truncates, and the end of io.Copy.               *)
(***************************************************************************)
EXTENDS Integers

CONSTANTS
  Procs,    \* the k3sup processes
  Builds,   \* what the registry has
  Broken,   \* the builds that do not run on this machine
  Faults    \* calls may fail, processes may be killed

ASSUME BrokenAssumption == Broken \subseteq Builds
ASSUME FaultsAssumption == Faults \in BOOLEAN
ASSUME BuildsAssumption == Builds \intersect {"absent", "torn"} = {}

VARIABLES
  windows,  \* GOOS: a directory cannot be removed while a file in it is open
  image,    \* the build each process downloads
  target,   \* the installed binary
  pc,
  temps,    \* the temporary directories of each process
  defers,   \* the place of each call among its deferred ones, 0 if it is not deferred
  result,
  last,     \* the process that opened the target last, {} at first
  crossed,  \* history: the processes whose copy overlapped
  spoilt    \* history: the processes that left the target unfinished

vars == <<windows, image, target, pc, temps, defers, result, last, crossed, spoilt>>

Closes == {"close tar", "close read"}
Calls == Closes \union {"remove tar", "remove extract"}

Init ==
  /\ windows \in BOOLEAN
  /\ image \in [Procs -> Builds]
  /\ target \in {"absent"} \union (Builds \ Broken)
  /\ pc = [p \in Procs |-> "start"]
  /\ temps = [p \in Procs |-> {}]
  /\ defers = [p \in Procs |-> [c \in Calls |-> 0]]
  /\ result = [p \in Procs |-> "none"]
  /\ last = {}
  /\ crossed = [p \in Procs |-> {}]
  /\ spoilt = {}

copies == <<last, crossed, spoilt>>

--------------------------------------------------------------------------------
Goto(p, where) == pc' = [pc EXCEPT ![p] = where]

\* The deferred calls run last to first: on Windows the removal of the tar's
\* directory fails if a file in it is closed only after it.
TarStays(p) ==
  /\ windows
  /\ \E c \in Closes : 0 < defers[p][c] /\ defers[p][c] < defers[p]["remove tar"]

Return(p, r) ==
  /\ Goto(p, "returned")
  /\ result' = [result EXCEPT ![p] = r]
  /\ temps' = [temps EXCEPT ![p] = IF TarStays(p) THEN {"tar"} ELSE {}]
  /\ UNCHANGED <<windows, image, defers>>

\* mutant: the file is deferred before its directory
TarDefers == [c \in Calls |-> CASE c = "close tar" -> 1 [] c = "remove tar" -> 2 [] OTHER -> 0]

\* MkdirTemp, then Create.
DirDefers == [c \in Calls |-> CASE c = "remove tar" -> 1 [] c = "close tar" -> 2 [] OTHER -> 0]

MakeTemp(p) ==
  /\ pc[p] = "start"
  /\ Goto(p, "pulling")
  /\ temps' = [temps EXCEPT ![p] = {"tar"}]
  /\ defers' = [defers EXCEPT ![p] = DirDefers]
  /\ UNCHANGED <<windows, image, target, result, copies>>

\* Pull, Export, and the second file and directory.
Pull(p) ==
  /\ pc[p] = "pulling"
  /\ Goto(p, "verifying")
  /\ temps' = [temps EXCEPT ![p] = @ \union {"extract"}]
  /\ defers' = [defers EXCEPT ![p]["close read"] = 3, ![p]["remove extract"] = 4]
  /\ UNCHANGED <<windows, image, target, result, copies>>

\* Untar, Chmod, and k3sup-pro version in the temporary directory.
Verify(p) ==
  /\ pc[p] = "verifying"
  /\ image[p] \notin Broken
  /\ Goto(p, "installing")
  /\ UNCHANGED <<windows, image, target, temps, defers, result, copies>>

\* mutant: the error of Execute is looked at, the exit code is not
BrokenGoesOn(p) ==
  /\ pc[p] = "verifying"
  /\ image[p] \in Broken
  /\ Goto(p, "installing")
  /\ UNCHANGED <<windows, image, target, temps, defers, result, copies>>

VerifyFails(p) ==
  /\ pc[p] = "verifying"
  /\ image[p] \in Broken
  /\ Return(p, "error")
  /\ UNCHANGED <<target, copies>>

\* No temporary directory, no connection, no archive, no permission for the target,
\* a target that is in use, or (behind the copy) no Chmod.
CallFails(p) ==
  /\ Faults
  /\ pc[p] \in {"start", "pulling", "verifying", "installing", "copied"}
  /\ Return(p, "error")
  /\ UNCHANGED <<target, copies>>

Copying == {p \in Procs : pc[p] = "copying"}

\* OpenFile with O_TRUNC.
OpenTarget(p) ==
  /\ pc[p] = "installing"
  /\ Goto(p, "copying")
  /\ target' = "torn"
  /\ last' = {p}
  /\ crossed' = [q \in Procs |-> IF q = p THEN Copying
                                 ELSE IF q \in Copying THEN crossed[q] \union {p}
                                 ELSE crossed[q]]
  /\ UNCHANGED <<windows, image, temps, defers, result, spoilt>>

\* The processes that have written since the file was truncated last.
Writers == last \union UNION {crossed[q] : q \in last}

\* What the file may hold when p has written all of its build. Those that have the
\* same build write the same bytes; what one of them has written before another one
\* truncates the file is missing until that one has written it as well.
Written(p) ==
  IF \A q \in Writers : image[q] = image[p]
  THEN IF last = {p} \/ target = image[p] THEN {image[p]} ELSE {"torn", image[p]}
  ELSE {"torn", image[p], target}

CopyEnds(p) ==
  /\ pc[p] = "copying"
  /\ Goto(p, "copied")
  /\ target' \in Written(p)
  /\ UNCHANGED <<windows, image, temps, defers, result, copies>>

\* mutant: the error of io.Copy is dropped
CopyFailsUnseen(p) ==
  /\ Faults
  /\ pc[p] = "copying"
  /\ target' \in {"torn", target}
  /\ Goto(p, "copied")
  /\ UNCHANGED <<windows, image, temps, defers, result, copies>>

\* io.Copy returns an error, say on a full disk.
CopyFails(p) ==
  /\ Faults
  /\ pc[p] = "copying"
  /\ target' \in {"torn", target}
  /\ spoilt' = spoilt \union {p}
  /\ Return(p, "error")
  /\ UNCHANGED <<last, crossed>>

\* What was written is lost at the close, whose error the deferred call drops.
CloseLoses(p) ==
  /\ Faults
  /\ pc[p] = "copying"
  /\ target' = "torn"
  /\ spoilt' = spoilt \union {p}
  /\ Goto(p, "copied")
  /\ UNCHANGED <<windows, image, temps, defers, result, last, crossed>>

\* k3sup-pro version, the installed one, cannot be started: it is torn, or open
\* for writing.
CheckNotStarted(p) ==
  /\ pc[p] = "copied"
  /\ target = "torn" \/ Copying # {}
  /\ Return(p, "error")
  /\ UNCHANGED <<target, copies>>

\* mutant: a failed final check installs again
CheckRetries(p) ==
  /\ pc[p] = "copied"
  /\ target = "torn"
  /\ Goto(p, "installing")
  /\ UNCHANGED <<windows, image, target, temps, defers, result, copies>>

\* It starts. What it exits with, also when it is torn or the system kills it,
\* decides the message only.
CheckEnds(p) ==
  /\ pc[p] = "copied"
  /\ Return(p, "nil")
  /\ UNCHANGED <<target, copies>>

Killed(p) ==
  /\ Faults
  /\ pc[p] \notin {"returned", "killed"}
  /\ Goto(p, "killed")
  /\ spoilt' = IF pc[p] = "copying" THEN spoilt \union {p} ELSE spoilt
  /\ UNCHANGED <<windows, image, target, temps, defers, result, last, crossed>>

Run(p) ==
  \/ MakeTemp(p) \/ Pull(p)
  \/ Verify(p) \/ VerifyFails(p)
  \/ CallFails(p)
  \/ OpenTarget(p) \/ CopyEnds(p) \/ CopyFails(p) \/ CloseLoses(p)
  \/ CheckNotStarted(p) \/ CheckEnds(p)

Next == \E p \in Procs : Run(p) \/ Killed(p)

\* Each process is scheduled, and its downloads and the binaries it runs end.
Spec == Init /\ [][Next]_vars /\ \A p \in Procs : WF_vars(Run(p))

--------------------------------------------------------------------------------
Ended(p) == pc[p] \in {"returned", "killed"}

TypeOK ==
  /\ windows \in BOOLEAN
  /\ image \in [Procs -> Builds]
  /\ target \in {"absent", "torn"} \union Builds
  /\ pc \in [Procs -> {"start", "pulling", "verifying", "installing", "copying",
                       "copied", "returned", "killed"}]
  /\ temps \in [Procs -> SUBSET {"tar", "extract"}]
  /\ defers \in [Procs -> [Calls -> 0..4]]
  /\ result \in [Procs -> {"none", "nil", "error"}]
  /\ last \in SUBSET Procs
  /\ crossed \in [Procs -> SUBSET Procs]
  /\ spoilt \in SUBSET Procs

(***************************************************************************)
(* A torn binary has a cause: a process is in the middle of its copy, or   *)
(* was killed there, or its copy failed, or two processes copied different *)
(* builds at the same time. Downloads that fail, and processes that are    *)
(* killed elsewhere, do no damage; and a build that does not run here      *)
(* never replaces the installed binary. (get_pro.go 124-165, 230-238)      *)
(***************************************************************************)
DamageExplained ==
  /\ target \notin Broken
  /\ target = "torn" =>
       \/ Copying # {}
       \/ spoilt # {}
       \/ \E p \in Procs : \E q \in crossed[p] : image[q] # image[p]

(***************************************************************************)
(* A nil leaves the version that was asked for, unless this copy or one it *)
(* overlapped was spoilt, or a process opened the target later; processes  *)
(* that copy the same build at once do not harm each other.                *)
(* (get_pro.go 165, 230-238)                                               *)
(***************************************************************************)
InstalledAsAsked ==
  \A p \in Procs :
    /\ result[p] = "nil"
    /\ last = {p}
    /\ p \notin spoilt
    /\ \A q \in crossed[p] : image[q] = image[p] /\ q \notin spoilt
    => target = image[p]

(***************************************************************************)
(* No return leaves a temporary directory behind, on Windows either: the   *)
(* files in it are closed before it is removed. (get_pro.go 88-122)        *)
(***************************************************************************)
TempRemoved == \A p \in Procs : pc[p] = "returned" => temps[p] = {}

(***************************************************************************)
(* Every process that is not killed returns, also when the others fail or  *)
(* are killed while they hold the target open.                             *)
(***************************************************************************)
AllEnd == \A p \in Procs : <>Ended(p)

(***************************************************************************)
(* The inductive invariant. The processes that can still change what the   *)
(* last one to open the target has made of it are those that its copy has  *)
(* overlapped; as long as they have the same build and none is spoilt, the *)
(* end of its copy completes the target for good.                          *)
(***************************************************************************)
Deferred ==
  \A p \in Procs :
    /\ defers[p]["remove tar"] \in {0, 1}
    /\ pc[p] = "returned" => temps[p] = {}
    /\ result[p] # "none" => pc[p] = "returned"

Verified ==
  /\ target \notin Broken
  /\ \A p \in Procs : pc[p] \in {"installing", "copying", "copied"} => image[p] \notin Broken

LastOverlaps ==
  /\ last = {} => Copying = {} /\ target # "torn"
  /\ \A p, q \in last : p = q
  /\ \A q \in last : \A p \in Copying \ {q} : p \in crossed[q]

Completed ==
  \A q \in last :
    /\ q \notin Copying \union spoilt
    /\ \A p \in crossed[q] : image[p] = image[q] /\ p \notin spoilt
    => target = image[q]

IInv == TypeOK /\ Deferred /\ Verified /\ LastOverlaps /\ Completed

================================================================================
