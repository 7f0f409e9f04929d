---------------------------- MODULE ProInstallProofs ----------------------------
(***************************************************************************)
(* TLAPS proofs about ProInstall, for any number of processes and builds,  *)
(* with and without faults.                                                *)
(***************************************************************************)
EXTENDS ProInstall, TLAPS

LEMMA IInit == Init => IInv
<1> SUFFICES ASSUME Init PROVE IInv
  OBVIOUS
<1>1. TypeOK
  <2>1. [c \in Calls |-> 0] \in [Calls -> 0..4]
    OBVIOUS
  <2>2. defers \in [Procs -> [Calls -> 0..4]]
    BY <2>1 DEF Init
  <2> QED
    BY <2>2 DEF Init, TypeOK
<1>2. Deferred
  <2> SUFFICES ASSUME NEW p \in Procs PROVE Deferred!(p)
    BY DEF Deferred
  <2>1. "remove tar" \in Calls
    BY DEF Calls
  <2>2. defers[p] = [c \in Calls |-> 0]
    BY DEF Init
  <2>3. defers[p]["remove tar"] = 0
    BY <2>1, <2>2
  <2>4. pc[p] = "start" /\ result[p] = "none"
    BY DEF Init
  <2>5. defers[p]["remove tar"] \in {0, 1}
    BY <2>3
  <2>6. pc[p] # "returned" /\ result[p] = "none"
    BY <2>4
  <2> QED
    BY <2>5, <2>6
<1>4. LastOverlaps /\ Completed
  BY BuildsAssumption DEF Init, LastOverlaps, Completed, Copying
<1>3. Verified
  BY BrokenAssumption, BuildsAssumption DEF Init, Verified
<1> QED
  BY <1>1, <1>2, <1>3, <1>4 DEF IInv

\* "remove tar" is deferred first, so it runs last: behind every close.
LEMMA NothingStays == IInv => \A p \in Procs : ~TarStays(p)
<1> SUFFICES ASSUME IInv, NEW p \in Procs, TarStays(p) PROVE FALSE
  OBVIOUS
<1>1. PICK c \in Closes : 0 < defers[p][c] /\ defers[p][c] < defers[p]["remove tar"]
  BY DEF TarStays
<1>2. c \in Calls /\ "remove tar" \in Calls
  BY DEF Calls
<1>3. defers[p] \in [Calls -> 0..4]
  BY DEF IInv, TypeOK
<1>4. defers[p][c] \in 0..4 /\ defers[p]["remove tar"] \in 0..4
  BY <1>2, <1>3
<1>5. defers[p]["remove tar"] \in {0, 1}
  BY DEF IInv, Deferred
<1>6. \A x, y \in 0..4 : ~ (0 < x /\ x < y /\ y \in {0, 1})
  OBVIOUS
<1> QED
  BY <1>1, <1>4, <1>5, <1>6

PCs == {"start", "pulling", "verifying", "installing", "copying",
        "copied", "returned", "killed"}

\* A step of a process outside its copy, that leaves the binary alone.
LEMMA QuietStep ==
  ASSUME IInv, NEW p \in Procs, NEW w \in PCs, pc[p] # "copying", w # "copying",
         pc' = [pc EXCEPT ![p] = w], UNCHANGED <<image, target, copies>>,
         w \in {"installing", "copied"} => image[p] \notin Broken
  PROVE  Verified' /\ LastOverlaps' /\ Completed'
<1>1. pc' \in [Procs -> PCs] /\ \A q \in Procs : pc'[q] = IF q = p THEN w ELSE pc[q]
  BY DEF IInv, TypeOK, PCs
<1>2. Copying' = Copying
  BY <1>1 DEF Copying
<1>3. Verified'
  BY <1>1 DEF IInv, Verified
<1>4. LastOverlaps'
  BY <1>2 DEF IInv, LastOverlaps, copies
<1>5. Completed'
  BY <1>2 DEF IInv, Completed, copies
<1> QED
  BY <1>3, <1>4, <1>5

\* What a return does to the process that returns.
LEMMA ReturnStep ==
  ASSUME IInv, NEW p \in Procs, NEW r \in {"nil", "error"}, Return(p, r)
  PROVE  /\ pc' = [pc EXCEPT ![p] = "returned"]
         /\ UNCHANGED <<windows, image>>
         /\ result' \in [Procs -> {"none", "nil", "error"}]
         /\ temps' \in [Procs -> SUBSET {"tar", "extract"}]
         /\ defers' \in [Procs -> [Calls -> 0..4]]
         /\ Deferred'
<1>1. temps' = [temps EXCEPT ![p] = {}]
  BY NothingStays DEF Return
<1>2. /\ pc' = [pc EXCEPT ![p] = "returned"]
      /\ result' = [result EXCEPT ![p] = r]
      /\ UNCHANGED <<windows, image, defers>>
  BY DEF Return, Goto
<1>3. TypeOK /\ Deferred
  BY DEF IInv
<1>4. /\ result' \in [Procs -> {"none", "nil", "error"}]
      /\ temps' \in [Procs -> SUBSET {"tar", "extract"}]
      /\ defers' \in [Procs -> [Calls -> 0..4]]
  BY <1>1, <1>2, <1>3 DEF TypeOK
<1>5. Deferred'
  BY <1>1, <1>2, <1>3 DEF TypeOK, Deferred
<1> QED
  BY <1>2, <1>4, <1>5

\* A return outside the copy.
LEMMA QuietReturn ==
  ASSUME IInv, NEW p \in Procs, NEW r \in {"nil", "error"}, Return(p, r),
         pc[p] # "copying", UNCHANGED <<target, copies>>
  PROVE  IInv'
<1>1. pc' = [pc EXCEPT ![p] = "returned"] /\ UNCHANGED <<windows, image>>
  BY ReturnStep
<1>2. TypeOK'
  BY <1>1, ReturnStep DEF IInv, TypeOK, copies
<1>3. Verified' /\ LastOverlaps' /\ Completed'
  BY <1>1, QuietStep DEF PCs
<1> QED
  BY <1>2, <1>3, ReturnStep DEF IInv

LEMMA MakeTempStep == ASSUME IInv, NEW p \in Procs, MakeTemp(p) PROVE IInv'
<1>1. TypeOK /\ Deferred
  BY DEF IInv
<1>2. DirDefers \in [Calls -> 0..4] /\ DirDefers["remove tar"] \in {0, 1}
  BY DEF DirDefers, Calls, Closes
<1>3. TypeOK'
  BY <1>1, <1>2 DEF TypeOK, MakeTemp, Goto, copies
<1>4. Deferred'
  BY <1>1, <1>2 DEF TypeOK, Deferred, MakeTemp, Goto
<1>5. Verified' /\ LastOverlaps' /\ Completed'
  BY QuietStep DEF MakeTemp, Goto, PCs
<1> QED
  BY <1>3, <1>4, <1>5 DEF IInv

LEMMA PullStep == ASSUME IInv, NEW p \in Procs, Pull(p) PROVE IInv'
<1>1. TypeOK /\ Deferred
  BY DEF IInv
<1>2. defers' \in [Procs -> [Calls -> 0..4]]
  <2>1. 3 \in 0..4 /\ 4 \in 0..4
    OBVIOUS
  <2> QED
    BY <1>1, <2>1 DEF TypeOK, Pull
<1>3. \A q \in Procs : defers'[q]["remove tar"] = defers[q]["remove tar"]
  BY <1>1 DEF TypeOK, Pull, Calls
<1>4. TypeOK'
  BY <1>1, <1>2 DEF TypeOK, Pull, Goto, copies
<1>5. Deferred'
  BY <1>1, <1>3 DEF TypeOK, Deferred, Pull, Goto
<1>6. Verified' /\ LastOverlaps' /\ Completed'
  BY QuietStep DEF Pull, Goto, PCs
<1> QED
  BY <1>4, <1>5, <1>6 DEF IInv

LEMMA VerifyStep == ASSUME IInv, NEW p \in Procs, Verify(p) PROVE IInv'
<1>1. TypeOK /\ Deferred
  BY DEF IInv
<1>2. TypeOK'
  BY <1>1 DEF TypeOK, Verify, Goto, copies
<1>3. Deferred'
  BY <1>1 DEF TypeOK, Deferred, Verify, Goto
<1>4. Verified' /\ LastOverlaps' /\ Completed'
  BY QuietStep DEF Verify, Goto, PCs
<1> QED
  BY <1>2, <1>3, <1>4 DEF IInv

\* Everyone that is copying overlaps the one that opens; nothing is said of the target
\* until it is through.
LEMMA OpenTargetStep == ASSUME IInv, NEW p \in Procs, OpenTarget(p) PROVE IInv'
<1>1. TypeOK /\ Deferred /\ Verified
  BY DEF IInv
<1>2. Copying \subseteq Procs
  BY DEF Copying
<1>3. TypeOK'
  BY <1>1, <1>2 DEF TypeOK, OpenTarget, Goto
<1>4. Deferred'
  BY <1>1 DEF TypeOK, Deferred, OpenTarget, Goto
<1>5. Verified'
  BY <1>1, BrokenAssumption, BuildsAssumption DEF TypeOK, Verified, OpenTarget, Goto
<1>6. Copying' = Copying \union {p}
  BY <1>1 DEF TypeOK, Copying, OpenTarget, Goto
<1>7. last' = {p} /\ crossed'[p] = Copying
  BY DEF OpenTarget
<1>8. LastOverlaps'
  BY <1>6, <1>7 DEF LastOverlaps
<1>9. Completed'
  BY <1>6, <1>7 DEF Completed
<1> QED
  BY <1>3, <1>4, <1>5, <1>8, <1>9 DEF IInv

\* The end of a copy puts its build into the file, or leaves it torn, or as it is.
LEMMA CopyEndsStep == ASSUME IInv, NEW p \in Procs, CopyEnds(p) PROVE IInv'
<1>1. TypeOK /\ Deferred /\ Verified /\ LastOverlaps /\ Completed
  BY DEF IInv
<1>2. target' \in {"torn", image[p], target}
  BY DEF CopyEnds, Written
<1>3. image[p] \in Builds \ Broken
  BY <1>1 DEF TypeOK, Verified, CopyEnds
<1>4. TypeOK'
  BY <1>1, <1>2, <1>3 DEF TypeOK, CopyEnds, Goto, copies
<1>5. Deferred'
  BY <1>1 DEF TypeOK, Deferred, CopyEnds, Goto
<1>6. Verified'
  BY <1>1, <1>2, <1>3, BrokenAssumption, BuildsAssumption DEF TypeOK, Verified, CopyEnds, Goto
<1>7. Copying' = Copying \ {p} /\ p \in Copying
  BY <1>1 DEF TypeOK, Copying, CopyEnds, Goto
<1>8. UNCHANGED <<image, last, crossed, spoilt>> /\ target' \in Written(p)
  BY DEF CopyEnds, copies
<1>9. LastOverlaps'
  BY <1>1, <1>7, <1>8 DEF LastOverlaps
<1>10. Completed'
  <2> SUFFICES ASSUME NEW q \in last,
                      q \notin Copying' \union spoilt,
                      \A r \in crossed[q] : image[r] = image[q] /\ r \notin spoilt
               PROVE  target' = image[q]
    BY <1>8 DEF Completed
  <2>1. last = {q}
    BY <1>1 DEF LastOverlaps
  <2>2. Writers = {q} \union crossed[q]
    BY <2>1 DEF Writers
  <2>3. p = q \/ p \in crossed[q]
    BY <1>1, <1>7 DEF LastOverlaps
  <2>4. image[p] = image[q]
    BY <2>3
  <2>5. \A r \in Writers : image[r] = image[p]
    BY <2>2, <2>4
  <2>6. last = {p} \/ target = image[p]
    <3>1. CASE p = q
      BY <3>1, <2>1
    <3>2. CASE p # q
      <4>1. q \notin Copying
        BY <1>7, <3>2
      <4> QED
        BY <4>1, <1>1, <2>4 DEF Completed
    <3> QED
      BY <3>1, <3>2
  <2> QED
    BY <1>8, <2>4, <2>5, <2>6 DEF Written
<1> QED
  BY <1>4, <1>5, <1>6, <1>9, <1>10 DEF IInv

\* A copy that fails, is killed or is lost at its close: the process is spoilt, and
\* whoever opened the target last is it, or has been overlapped by it.
LEMMA SpoiltStep ==
  ASSUME IInv, NEW p \in Procs, NEW w \in PCs, w \in {"returned", "copied", "killed"},
         pc[p] = "copying", pc' = [pc EXCEPT ![p] = w],
         target' \in {"torn", target}, spoilt' = spoilt \union {p},
         UNCHANGED <<windows, image, last, crossed>>
  PROVE  Verified' /\ LastOverlaps' /\ Completed'
<1>1. TypeOK /\ Verified /\ LastOverlaps
  BY DEF IInv
<1>2. Copying' = Copying \ {p} /\ p \in Copying
  BY <1>1 DEF TypeOK, Copying
<1>3. Verified'
  BY <1>1, BrokenAssumption, BuildsAssumption DEF TypeOK, Verified
<1>4. LastOverlaps'
  BY <1>1, <1>2 DEF LastOverlaps
<1>5. \A q \in last : p = q \/ p \in crossed[q]
  BY <1>1, <1>2 DEF LastOverlaps
<1>6. Completed'
  BY <1>5 DEF Completed
<1> QED
  BY <1>3, <1>4, <1>6

LEMMA CopyFailsStep == ASSUME IInv, NEW p \in Procs, CopyFails(p) PROVE IInv'
<1>1. /\ pc' = [pc EXCEPT ![p] = "returned"] /\ UNCHANGED <<windows, image>>
  BY ReturnStep DEF CopyFails
<1>2. TypeOK'
  BY <1>1, ReturnStep DEF IInv, TypeOK, CopyFails
<1>3. Verified' /\ LastOverlaps' /\ Completed'
  BY <1>1, SpoiltStep DEF CopyFails, PCs
<1> QED
  BY <1>2, <1>3, ReturnStep DEF IInv, CopyFails

LEMMA CloseLosesStep == ASSUME IInv, NEW p \in Procs, CloseLoses(p) PROVE IInv'
<1>1. TypeOK /\ Deferred
  BY DEF IInv
<1>2. TypeOK'
  BY <1>1 DEF TypeOK, CloseLoses, Goto
<1>3. Deferred'
  BY <1>1 DEF TypeOK, Deferred, CloseLoses, Goto
<1>4. Verified' /\ LastOverlaps' /\ Completed'
  BY SpoiltStep DEF CloseLoses, Goto, PCs
<1> QED
  BY <1>2, <1>3, <1>4 DEF IInv

LEMMA KilledStep == ASSUME IInv, NEW p \in Procs, Killed(p) PROVE IInv'
<1>1. TypeOK /\ Deferred
  BY DEF IInv
<1>2. TypeOK'
  BY <1>1 DEF TypeOK, Killed, Goto
<1>3. Deferred'
  BY <1>1 DEF TypeOK, Deferred, Killed, Goto
<1>4. CASE pc[p] = "copying"
  BY <1>2, <1>3, <1>4, SpoiltStep DEF Killed, Goto, PCs, IInv
<1>5. CASE pc[p] # "copying"
  BY <1>2, <1>3, <1>5, QuietStep DEF Killed, Goto, PCs, IInv, copies
<1> QED
  BY <1>4, <1>5

LEMMA IStep == IInv /\ [Next]_vars => IInv'
<1> SUFFICES ASSUME IInv, [Next]_vars PROVE IInv'
  OBVIOUS
<1>1. ASSUME NEW p \in Procs, MakeTemp(p) PROVE IInv'
  BY <1>1, MakeTempStep
<1>2. ASSUME NEW p \in Procs, Pull(p) PROVE IInv'
  BY <1>2, PullStep
<1>3. ASSUME NEW p \in Procs, Verify(p) PROVE IInv'
  BY <1>3, VerifyStep
<1>4. ASSUME NEW p \in Procs, VerifyFails(p) PROVE IInv'
  BY <1>4, QuietReturn DEF VerifyFails
<1>5. ASSUME NEW p \in Procs, CallFails(p) PROVE IInv'
  BY <1>5, QuietReturn DEF CallFails
<1>6. ASSUME NEW p \in Procs, OpenTarget(p) PROVE IInv'
  BY <1>6, OpenTargetStep
<1>7. ASSUME NEW p \in Procs, CopyEnds(p) PROVE IInv'
  BY <1>7, CopyEndsStep
<1>8. ASSUME NEW p \in Procs, CopyFails(p) PROVE IInv'
  BY <1>8, CopyFailsStep
<1>9. ASSUME NEW p \in Procs, CloseLoses(p) PROVE IInv'
  BY <1>9, CloseLosesStep
<1>10. ASSUME NEW p \in Procs, CheckNotStarted(p) PROVE IInv'
  BY <1>10, QuietReturn DEF CheckNotStarted
<1>11. ASSUME NEW p \in Procs, CheckEnds(p) PROVE IInv'
  BY <1>11, QuietReturn DEF CheckEnds
<1>12. ASSUME NEW p \in Procs, Killed(p) PROVE IInv'
  BY <1>12, KilledStep
<1>13. CASE UNCHANGED vars
  BY <1>13 DEF vars, IInv, TypeOK, Deferred, Verified, LastOverlaps, Completed, Copying
<1> QED
  BY <1>1, <1>2, <1>3, <1>4, <1>5, <1>6, <1>7, <1>8, <1>9, <1>10, <1>11, <1>12, <1>13
  DEF Next, Run

\* The inductive invariant holds for any number of processes. (get_pro.go 61-238)
THEOREM Invariance == Spec => []IInv
<1> QED
  BY IInit, IStep, PTL DEF Spec

\* Every variable has its type in every state. (get_pro.go 61-238)
THEOREM TypeCorrect == Spec => []TypeOK
<1>1. IInv => TypeOK
  BY DEF IInv
<1> QED
  BY <1>1, Invariance, PTL

\* If no process is copying, none was ever spoilt and no copies of different builds
\* have overlapped, then the target is what the last one wrote, or what was there.
THEOREM DamageAlwaysExplained == Spec => []DamageExplained
<1>1. IInv => DamageExplained
  <2> SUFFICES ASSUME IInv, target = "torn", Copying = {}, spoilt = {},
                      \A p \in Procs : \A q \in crossed[p] : image[q] = image[p]
               PROVE  FALSE
    BY DEF IInv, Verified, DamageExplained
  <2>1. PICK q \in last : TRUE
    BY DEF IInv, LastOverlaps
  <2>2. q \in Procs /\ image[q] \in Builds
    BY DEF IInv, TypeOK
  <2>3. target = image[q]
    BY <2>2 DEF IInv, Completed
  <2> QED
    BY <2>2, <2>3, BuildsAssumption
<1> QED
  BY <1>1, Invariance, PTL

\* The end of the last copy is final: a nil of the process that opened the target last
\* has its build behind it. (get_pro.go 165, 230-238)
THEOREM AlwaysInstalledAsAsked == Spec => []InstalledAsAsked
<1>1. IInv => InstalledAsAsked
  <2> SUFFICES ASSUME IInv, NEW p \in Procs, result[p] = "nil", last = {p}, p \notin spoilt,
                      \A q \in crossed[p] : image[q] = image[p] /\ q \notin spoilt
               PROVE  target = image[p]
    BY DEF InstalledAsAsked
  <2>1. p \notin Copying
    BY DEF IInv, Deferred, Copying
  <2> QED
    BY <2>1 DEF IInv, Completed
<1> QED
  BY <1>1, Invariance, PTL

\* The removal of each temporary directory is deferred before any file in it is opened,
\* so that it runs when they are closed. (get_pro.go 88-122)
THEOREM TempAlwaysRemoved == Spec => []TempRemoved
<1>1. IInv => TempRemoved
  BY DEF IInv, Deferred, TempRemoved
<1> QED
  BY <1>1, Invariance, PTL

================================================================================
