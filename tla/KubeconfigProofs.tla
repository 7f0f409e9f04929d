---------------------------- MODULE KubeconfigProofs ----------------------------
(***************************************************************************)
(* TLAPS proofs about Kubeconfig, for any number of processes, contexts    *)
(* and hosts.                                                              *)
(***************************************************************************)
EXTENDS Kubeconfig, TLAPS

(***************************************************************************)
(* The operators on entries.                                               *)
(***************************************************************************)
LEMMA OnlyType ==
  ASSUME NEW c \in Contexts, NEW h \in Hosts
  PROVE  Store!Only(c, h) \in Store!Entries
  BY DEF Store!Only, Store!Entries

LEMMA OnlyNotEmpty ==
  ASSUME NEW c \in Contexts, NEW h \in Hosts
  PROVE  Store!Only(c, h) # NoEntries
  BY NoHostAssumption DEF Store!Only, NoEntries

LEMMA MergedType ==
  ASSUME NEW e \in Store!Entries, NEW f \in Store!Entries
  PROVE  Store!Merged(e, f) \in Store!Entries
  BY DEF Store!Merged, Store!Entries

LEMMA NoEntriesType == NoEntries \in Store!Entries
  BY DEF NoEntries, Store!Entries

\* A file is what its shape and its entries say.
LEMMA FilesFacts ==
  /\ Absent \in Files /\ Blank \in Files /\ Torn \in Files
  /\ \A e \in Store!Entries : Whole(e) \in Files
  /\ \A f \in Files : f.of \in Store!Entries
  /\ \A f \in Files : f.shape \in {"absent", "blank", "torn", "whole"}
  /\ \A f \in Files : f.shape = "whole" => f = Whole(f.of)
  /\ \A e : Whole(e).shape = "whole" /\ Whole(e).of = e
  /\ \A f \in Files : f.shape = "torn" <=> f = Torn
  /\ \A f \in Files : f.shape = "blank" <=> f = Blank
<1> USE NoEntriesType DEF Files, Whole, Absent, Blank, Torn
<1>1. /\ Absent \in Files /\ Blank \in Files /\ Torn \in Files
      /\ \A e \in Store!Entries : Whole(e) \in Files
  OBVIOUS
<1>2. \A e : Whole(e).shape = "whole" /\ Whole(e).of = e
  OBVIOUS
<1>3. ASSUME NEW f \in Files
      PROVE  /\ f.of \in Store!Entries
             /\ f.shape \in {"absent", "blank", "torn", "whole"}
             /\ f.shape = "whole" => f = Whole(f.of)
             /\ f.shape = "torn" <=> f = Torn
             /\ f.shape = "blank" <=> f = Blank
  <2>1. CASE f \in {Absent, Blank, Torn}
    BY <2>1
  <2>2. CASE \E e \in Store!Entries : f = Whole(e)
    BY <2>2
  <2> QED
    BY <2>1, <2>2
<1> HIDE DEF Files, Whole, Absent, Blank, Torn
<1> QED
  BY <1>1, <1>2, <1>3

LEMMA RewriteType ==
  ASSUME NEW f \in Files, NEW c \in Contexts, NEW h \in Hosts
  PROVE  Rewrite(f, c, h) \in Files
  BY FilesFacts, OnlyType DEF Rewrite

(***************************************************************************)
(* Every variable keeps its type.                                          *)
(***************************************************************************)
LEMMA TypeInit == Init => TypeOK
<1> SUFFICES ASSUME Init PROVE TypeOK
  OBVIOUS
<1> QED
  BY FilesFacts DEF Init, TypeOK

LEMMA TypeStep == TypeOK /\ [Next]_vars => TypeOK'
<1> SUFFICES ASSUME TypeOK, [Next]_vars PROVE TypeOK'
  OBVIOUS
<1> USE FilesFacts DEF TypeOK
<1>0. ASSUME NEW p \in Procs
      PROVE  /\ opt[p] \in Flags
             /\ opt[p].host \in Hosts /\ opt[p].context \in Contexts
             /\ Store!Merged(file.of, data[p].of) \in Store!Entries
  BY OptionsAssumption, MergedType DEF Flags
<1>1. ASSUME NEW p \in Procs, Invoke(p) PROVE TypeOK'
  BY <1>0, <1>1 DEF Invoke, GoTo, Active, At, untouched
<1>2. ASSUME NEW p \in Procs, Refuse(p) PROVE TypeOK'
  BY <1>0, <1>2 DEF Refuse, Return, At, untouched
<1>3. ASSUME NEW p \in Procs, Install(p) PROVE TypeOK'
  BY <1>0, <1>3 DEF Install, GoTo, At, untouched
<1>4. ASSUME NEW p \in Procs, InstallFails(p) PROVE TypeOK'
  BY <1>0, <1>4 DEF InstallFails, Return, At, untouched
<1>5. ASSUME NEW p \in Procs, Fetch(p) PROVE TypeOK'
  <2>1. PICK f \in Files : data' = [data EXCEPT ![p] = Rewrite(f, opt[p].context, opt[p].host)]
    BY <1>5, NoEntriesType DEF Fetch
  <2>2. data' \in [Procs -> Files]
    BY <1>0, <2>1, RewriteType
  <2>3. broken' \in [Procs -> BOOLEAN]
    BY <1>5 DEF Fetch
  <2> QED
    BY <1>5, <2>2, <2>3 DEF Fetch, GoTo, untouched
<1>6. ASSUME NEW p \in Procs, FetchFails(p) PROVE TypeOK'
  BY <1>0, <1>6 DEF FetchFails, Return, At, untouched
<1>7. ASSUME NEW p \in Procs, WriteTemp(p) PROVE TypeOK'
  BY <1>0, <1>7 DEF WriteTemp, GoTo, At, untouched
<1>8. ASSUME NEW p \in Procs, WriteTempFails(p) PROVE TypeOK'
  BY <1>0, <1>8 DEF WriteTempFails, Return, AfterRemove, At, untouched
<1>9. ASSUME NEW p \in Procs, Merge(p) PROVE TypeOK'
  BY <1>0, <1>9 DEF Merge, GoTo, At, untouched
<1>10. ASSUME NEW p \in Procs, MergeFails(p) PROVE TypeOK'
  BY <1>0, <1>10 DEF MergeFails, Return, AfterRemove, At, untouched
<1>11. ASSUME NEW p \in Procs, CloseTemp(p) PROVE TypeOK'
  BY <1>0, <1>11 DEF CloseTemp, GoTo, AfterRemove, At, untouched
<1>12. ASSUME NEW p \in Procs, CloseTempFails(p) PROVE TypeOK'
  BY <1>0, <1>12 DEF CloseTempFails, Return, AfterRemove, At, untouched
<1>13. ASSUME NEW p \in Procs, Open(p) PROVE TypeOK'
  BY <1>0, <1>13 DEF Open, GoTo, At, untouched
<1>14. ASSUME NEW p \in Procs, OpenFails(p) PROVE TypeOK'
  BY <1>0, <1>14 DEF OpenFails, Return, At, untouched
<1>15. ASSUME NEW p \in Procs, Write(p) PROVE TypeOK'
  BY <1>0, <1>15 DEF Write, Return, At, untouched
<1>16. ASSUME NEW p \in Procs, WriteFails(p) PROVE TypeOK'
  BY <1>0, <1>16 DEF WriteFails, Return, At, untouched
<1>17. ASSUME NEW p \in Procs, Crash(p) PROVE TypeOK'
  BY <1>0, <1>17 DEF Crash, Active, At, untouched
<1>18. CASE UNCHANGED vars
  BY <1>0, <1>18 DEF vars
<1> QED
  BY <1>0, <1>1, <1>2, <1>3, <1>4, <1>5, <1>6, <1>7, <1>8, <1>9, <1>10, <1>11, <1>12, <1>13, <1>14, <1>15, <1>16, <1>17, <1>18 DEF Next, Step

THEOREM TypeCorrect == Spec => []TypeOK
  BY TypeInit, TypeStep, PTL DEF Spec

(***************************************************************************)
(* mergeConfigs and its temporary file.                                    *)
(***************************************************************************)
TempInv ==
  /\ TypeOK
  /\ \A p \in Procs :
       temp[p] = "open" =>
         \/ pc[p] \in {"merge", "close", "crashed"}
         \/ RemoveNeedsClose /\ res[p] = "error" /\ pc[p] = "done"

LEMMA TempStep == TempInv /\ [Next]_vars => TempInv'
<1> SUFFICES ASSUME TempInv, [Next]_vars PROVE TempInv'
  OBVIOUS
<1> USE DEF TempInv, TypeOK
<1>0. TypeOK'
  BY TypeStep
<1>1. ASSUME NEW p \in Procs, Invoke(p) PROVE TempInv'
  BY <1>0, <1>1 DEF Invoke, GoTo, Active, At, untouched
<1>2. ASSUME NEW p \in Procs, Refuse(p) PROVE TempInv'
  BY <1>0, <1>2 DEF Refuse, Return, At, untouched
<1>3. ASSUME NEW p \in Procs, Install(p) PROVE TempInv'
  BY <1>0, <1>3 DEF Install, GoTo, At, untouched
<1>4. ASSUME NEW p \in Procs, InstallFails(p) PROVE TempInv'
  BY <1>0, <1>4 DEF InstallFails, Return, At, untouched
<1>5. ASSUME NEW p \in Procs, Fetch(p) PROVE TempInv'
  BY <1>0, <1>5 DEF Fetch, GoTo, FailsSilently, Rewrite, At, untouched
<1>6. ASSUME NEW p \in Procs, FetchFails(p) PROVE TempInv'
  BY <1>0, <1>6 DEF FetchFails, Return, At, untouched
<1>7. ASSUME NEW p \in Procs, WriteTemp(p) PROVE TempInv'
  BY <1>0, <1>7 DEF WriteTemp, GoTo, At, untouched
<1>8. ASSUME NEW p \in Procs, WriteTempFails(p) PROVE TempInv'
  BY <1>0, <1>8 DEF WriteTempFails, Return, AfterRemove, At, untouched
<1>9. ASSUME NEW p \in Procs, Merge(p) PROVE TempInv'
  BY <1>0, <1>9 DEF Merge, GoTo, At, untouched
<1>10. ASSUME NEW p \in Procs, MergeFails(p) PROVE TempInv'
  BY <1>0, <1>10 DEF MergeFails, Return, AfterRemove, At, untouched
<1>11. ASSUME NEW p \in Procs, CloseTemp(p) PROVE TempInv'
  BY <1>0, <1>11 DEF CloseTemp, GoTo, AfterRemove, At, untouched
<1>12. ASSUME NEW p \in Procs, CloseTempFails(p) PROVE TempInv'
  BY <1>0, <1>12 DEF CloseTempFails, Return, AfterRemove, At, untouched
<1>13. ASSUME NEW p \in Procs, Open(p) PROVE TempInv'
  BY <1>0, <1>13 DEF Open, GoTo, At, untouched
<1>14. ASSUME NEW p \in Procs, OpenFails(p) PROVE TempInv'
  BY <1>0, <1>14 DEF OpenFails, Return, At, untouched
<1>15. ASSUME NEW p \in Procs, Write(p) PROVE TempInv'
  BY <1>0, <1>15 DEF Write, Return, At, untouched
<1>16. ASSUME NEW p \in Procs, WriteFails(p) PROVE TempInv'
  BY <1>0, <1>16 DEF WriteFails, Return, At, untouched
<1>17. ASSUME NEW p \in Procs, Crash(p) PROVE TempInv'
  BY <1>0, <1>17 DEF Crash, Active, At, untouched
<1>18. CASE UNCHANGED vars
  BY <1>0, <1>18 DEF vars
<1> QED
  BY <1>0, <1>1, <1>2, <1>3, <1>4, <1>5, <1>6, <1>7, <1>8, <1>9, <1>10, <1>11, <1>12, <1>13, <1>14, <1>15, <1>16, <1>17, <1>18 DEF Next, Step

\* No return of mergeConfigs leaves the temporary file behind (its deferred
\* os.Remove), but an error on a system that does not remove open files.
THEOREM TempAlwaysRemoved == Spec => []TempRemoved
<1>1. Init => TempInv
  BY TypeInit DEF Init, TempInv
<1>2. TempInv => TempRemoved
  BY DEF TempInv, TypeOK, TempRemoved
<1> QED
  BY <1>1, <1>2, TempStep, PTL DEF Spec

(***************************************************************************)
(* The invariant of the file and of what each process holds.               *)
(***************************************************************************)
LEMMA WriterStep == IInv /\ [Next]_vars => WriterOfFile'
<1> SUFFICES ASSUME IInv, [Next]_vars PROVE WriterOfFile'
  OBVIOUS
<1> USE FilesFacts, NoProcAssumption DEF IInv, TypeOK, WriterOfFile, Wrote
<1>1. ASSUME NEW p \in Procs, Invoke(p) PROVE WriterOfFile'
  BY <1>1 DEF Invoke, GoTo, Active, At, untouched
<1>2. ASSUME NEW p \in Procs, Refuse(p) PROVE WriterOfFile'
  BY <1>2 DEF Refuse, Return, At, untouched
<1>3. ASSUME NEW p \in Procs, Install(p) PROVE WriterOfFile'
  BY <1>3 DEF Install, GoTo, At, untouched
<1>4. ASSUME NEW p \in Procs, InstallFails(p) PROVE WriterOfFile'
  BY <1>4 DEF InstallFails, Return, At, untouched
<1>5. ASSUME NEW p \in Procs, Fetch(p) PROVE WriterOfFile'
  BY <1>5 DEF Fetch, GoTo, FailsSilently, Rewrite, At, untouched
<1>6. ASSUME NEW p \in Procs, FetchFails(p) PROVE WriterOfFile'
  BY <1>6 DEF FetchFails, Return, At, untouched
<1>7. ASSUME NEW p \in Procs, WriteTemp(p) PROVE WriterOfFile'
  BY <1>7 DEF WriteTemp, GoTo, At, untouched
<1>8. ASSUME NEW p \in Procs, WriteTempFails(p) PROVE WriterOfFile'
  BY <1>8 DEF WriteTempFails, Return, AfterRemove, At, untouched
<1>9. ASSUME NEW p \in Procs, Merge(p) PROVE WriterOfFile'
  BY <1>9 DEF Merge, GoTo, At, untouched
<1>10. ASSUME NEW p \in Procs, MergeFails(p) PROVE WriterOfFile'
  BY <1>10 DEF MergeFails, Return, AfterRemove, At, untouched
<1>11. ASSUME NEW p \in Procs, CloseTemp(p) PROVE WriterOfFile'
  BY <1>11 DEF CloseTemp, GoTo, AfterRemove, At, untouched
<1>12. ASSUME NEW p \in Procs, CloseTempFails(p) PROVE WriterOfFile'
  BY <1>12 DEF CloseTempFails, Return, AfterRemove, At, untouched
<1>13. ASSUME NEW p \in Procs, Open(p) PROVE WriterOfFile'
  BY <1>13 DEF Open, GoTo, At, untouched
<1>14. ASSUME NEW p \in Procs, OpenFails(p) PROVE WriterOfFile'
  BY <1>14 DEF OpenFails, Return, At, untouched
<1>15. ASSUME NEW p \in Procs, Write(p) PROVE WriterOfFile'
  BY <1>15 DEF Write, Return, At, untouched
<1>16. ASSUME NEW p \in Procs, WriteFails(p) PROVE WriterOfFile'
  BY <1>16 DEF WriteFails, Return, At, untouched
<1>17. ASSUME NEW p \in Procs, Crash(p) PROVE WriterOfFile'
  BY <1>17 DEF Crash, Active, At, untouched
<1>18. CASE UNCHANGED vars
  BY <1>18 DEF vars
<1> QED
  BY <1>1, <1>2, <1>3, <1>4, <1>5, <1>6, <1>7, <1>8, <1>9, <1>10, <1>11, <1>12, <1>13, <1>14, <1>15, <1>16, <1>17, <1>18 DEF Next, Step

LEMMA HoldsStep == IInv /\ [Next]_vars => HoldsData'
<1> SUFFICES ASSUME IInv, [Next]_vars PROVE HoldsData'
  OBVIOUS
<1> USE FilesFacts DEF IInv, TypeOK, WriterOfFile, HoldsData, HoldsFetched, HoldsMerged, Own
<1>1. ASSUME NEW p \in Procs, Invoke(p) PROVE HoldsData'
  BY <1>1 DEF Invoke, GoTo, Active, At, untouched
<1>2. ASSUME NEW p \in Procs, Refuse(p) PROVE HoldsData'
  BY <1>2 DEF Refuse, Return, At, untouched
<1>3. ASSUME NEW p \in Procs, Install(p) PROVE HoldsData'
  BY <1>3 DEF Install, GoTo, At, untouched
<1>4. ASSUME NEW p \in Procs, InstallFails(p) PROVE HoldsData'
  BY <1>4 DEF InstallFails, Return, At, untouched
<1>5. ASSUME NEW p \in Procs, Fetch(p) PROVE HoldsData'
  BY <1>5 DEF Fetch, GoTo, FailsSilently, Rewrite, At, untouched
<1>6. ASSUME NEW p \in Procs, FetchFails(p) PROVE HoldsData'
  BY <1>6 DEF FetchFails, Return, At, untouched
<1>7. ASSUME NEW p \in Procs, WriteTemp(p) PROVE HoldsData'
  BY <1>7 DEF WriteTemp, GoTo, At, untouched
<1>8. ASSUME NEW p \in Procs, WriteTempFails(p) PROVE HoldsData'
  BY <1>8 DEF WriteTempFails, Return, AfterRemove, At, untouched
<1>9. ASSUME NEW p \in Procs, Merge(p) PROVE HoldsData'
  <2>1. PICK e \in {Own(p), NoEntries} :
          /\ data[p].of = e
          /\ IF e = Own(p) THEN opt[p].host \in k3s ELSE opt[p].local \/ broken[p]
    <3>1. CASE data[p] = Whole(Own(p)) /\ opt[p].host \in k3s
      BY <3>1
    <3>2. CASE data[p] = Blank /\ (opt[p].local \/ broken[p])
      <4>1. Own(p) # NoEntries
        BY OnlyNotEmpty, OptionsAssumption DEF Flags
      <4> QED
        BY <3>2, <4>1 DEF Blank
    <3>3. data[p] # Torn
      BY <1>9 DEF Merge, Torn
    <3> QED
      BY <1>9, <3>1, <3>2, <3>3 DEF Merge, At
  <2>2. /\ data'[p] = Whole(Store!Merged(seen'[p].of, e))
        /\ opt[p].merge
    BY <1>9, <2>1 DEF Merge, At
  <2>3. ASSUME NEW q \in Procs, q # p
        PROVE  data'[q] = data[q] /\ seen'[q] = seen[q] /\ pc'[q] = pc[q]
    BY <1>9, <2>3 DEF Merge, GoTo
  <2>4. UNCHANGED <<opt, k3s, res, broken>> /\ pc'[p] = "close" /\ res[p] # "ok"
    BY <1>9 DEF Merge, GoTo, At
  <2>5. (HoldsMerged(p))'
    BY <2>1, <2>2, <2>4
  <2> QED
    BY <2>2, <2>3, <2>4, <2>5
<1>10. ASSUME NEW p \in Procs, MergeFails(p) PROVE HoldsData'
  BY <1>10 DEF MergeFails, Return, AfterRemove, At, untouched
<1>11. ASSUME NEW p \in Procs, CloseTemp(p) PROVE HoldsData'
  BY <1>11 DEF CloseTemp, GoTo, AfterRemove, At, untouched
<1>12. ASSUME NEW p \in Procs, CloseTempFails(p) PROVE HoldsData'
  BY <1>12 DEF CloseTempFails, Return, AfterRemove, At, untouched
<1>13. ASSUME NEW p \in Procs, Open(p) PROVE HoldsData'
  BY <1>13 DEF Open, GoTo, At, untouched
<1>14. ASSUME NEW p \in Procs, OpenFails(p) PROVE HoldsData'
  BY <1>14 DEF OpenFails, Return, At, untouched
<1>15. ASSUME NEW p \in Procs, Write(p) PROVE HoldsData'
  BY <1>15 DEF Write, Return, At, untouched
<1>16. ASSUME NEW p \in Procs, WriteFails(p) PROVE HoldsData'
  BY <1>16 DEF WriteFails, Return, At, untouched
<1>17. ASSUME NEW p \in Procs, Crash(p) PROVE HoldsData'
  BY <1>17 DEF Crash, Active, At, untouched
<1>18. CASE UNCHANGED vars
  BY <1>18 DEF vars
<1> QED
  BY <1>1, <1>2, <1>3, <1>4, <1>5, <1>6, <1>7, <1>8, <1>9, <1>10, <1>11, <1>12, <1>13, <1>14, <1>15, <1>16, <1>17, <1>18 DEF Next, Step

LEMMA IInit == Init => IInv
  BY TypeInit, NoProcAssumption
  DEF Init, IInv, HoldsData, WriterOfFile, Wrote, Absent, Whole

THEOREM Invariance == Spec => []IInv
<1>1. IInv /\ [Next]_vars => IInv'
  BY TypeStep, HoldsStep, WriterStep DEF IInv
<1> QED
  BY IInit, <1>1, PTL DEF Spec

\* A damaged file is explained by the write of its last writer, or by what the
\* operator gave that one (obtainKubeconfig).
THEOREM DamageAlwaysExplained == Spec => []DamageExplained
<1>1. IInv => DamageExplained
  <2> SUFFICES ASSUME IInv, file.shape \in {"blank", "torn"}, ~clash,
                      writer \in Procs, pc[writer] = "done", res[writer] # "error"
               PROVE  broken[writer] \/ (opt[writer].local /\ ~opt[writer].merge)
    BY DEF DamageExplained, IInv, TypeOK, WriterOfFile, Wrote
  <2>1. res[writer] = "ok" /\ file = data[writer]
    BY DEF IInv, TypeOK, WriterOfFile, Wrote
  <2>2. CASE opt[writer].merge
    BY <2>1, <2>2, FilesFacts DEF IInv, HoldsData, HoldsMerged
  <2>3. CASE ~opt[writer].merge
    BY <2>1, <2>3, FilesFacts DEF IInv, HoldsData, HoldsFetched
  <2> QED
    BY <2>2, <2>3
<1> QED
  BY <1>1, Invariance, PTL

\* A nil error over SSH means K3s on the host and its context in the file.
THEOREM SavedContextHolds == Spec => []SavedContext
<1>1. IInv => SavedContext
  <2> SUFFICES ASSUME IInv, NEW p \in Procs, res[p] = "ok", Wrote(p),
                      ~broken[p], ~opt[p].local
               PROVE  /\ opt[p].host \in k3s
                      /\ file.shape = "whole"
                      /\ file.of = IF opt[p].merge
                                   THEN Store!Merged(seen[p].of, Own(p))
                                   ELSE Own(p)
    BY DEF SavedContext, Own
  <2>1. file = data[p]
    BY DEF IInv, WriterOfFile
  <2>2. CASE opt[p].merge
    <3>1. HoldsMerged(p)
      BY <2>2 DEF IInv, HoldsData
    <3> QED
      BY <2>1, <2>2, <3>1, FilesFacts DEF HoldsMerged
  <2>3. CASE ~opt[p].merge
    <3>1. HoldsFetched(p)
      BY <2>3 DEF IInv, HoldsData
    <3> QED
      BY <2>1, <2>3, <3>1, FilesFacts DEF HoldsFetched
  <2> QED
    BY <2>2, <2>3
<1> QED
  BY <1>1, Invariance, PTL

\* The only entries --merge loses are those saved behind kubectl's back.
THEOREM MergeLoses == Spec => MergeLosesOnlyUnseen
<1>1. IInv => \A p \in Procs :
        (Open(p) /\ opt[p].merge /\ seen[p] = file) =>
          \A c \in Contexts : file.of[c] # NoHost => data[p].of[c] = file.of[c]
  <2> SUFFICES ASSUME IInv, NEW p \in Procs, Open(p), opt[p].merge, seen[p] = file,
                      NEW c \in Contexts, file.of[c] # NoHost
               PROVE  data[p].of[c] = file.of[c]
    OBVIOUS
  <2>1. HoldsMerged(p)
    BY DEF Open, At, IInv, HoldsData
  <2>2. PICK e : data[p].of = Store!Merged(seen[p].of, e)
    BY <2>1, FilesFacts DEF HoldsMerged
  <2> QED
    BY <2>2 DEF Store!Merged
<1> QED
  BY <1>1, Invariance, PTL DEF Spec, MergeLosesOnlyUnseen

--------------------------------------------------------------------------------
(***************************************************************************)
(* One command at a time over SSH, without faults, implements the atomic   *)
(* update of KubeconfigStore: the step that truncates the file maps to the *)
(* update, a return with an error to giving up, the rest to a stutter.     *)
(***************************************************************************)
SerialInv ==
  /\ IInv
  /\ ~clash
  /\ \A p, q \in Procs : Active(p) /\ Active(q) => p = q
  /\ \A p \in Procs :
       /\ ~broken[p] /\ pc[p] # "crashed"
       /\ pc[p] = "close" \/ (pc[p] = "open" /\ opt[p].merge) => seen[p] = file

LEMMA SerialStep ==
  ASSUME Serial = TRUE, Faults = FALSE
  PROVE  SerialInv /\ IInv' /\ [Next]_vars => SerialInv'
<1> SUFFICES ASSUME SerialInv, IInv', [Next]_vars PROVE SerialInv'
  OBVIOUS
<1> DEFINE Rest ==
      /\ ~clash
      /\ \A p, q \in Procs : Active(p) /\ Active(q) => p = q
      /\ \A p \in Procs :
           /\ ~broken[p] /\ pc[p] # "crashed"
           /\ pc[p] = "close" \/ (pc[p] = "open" /\ opt[p].merge) => seen[p] = file
<1> SUFFICES Rest'
  BY DEF SerialInv
<1> USE DEF SerialInv, IInv, TypeOK, Active
<1>1. ASSUME NEW p \in Procs, Invoke(p) PROVE Rest'
  BY <1>1 DEF Invoke, GoTo, Active, At, untouched
<1>2. ASSUME NEW p \in Procs, Refuse(p) PROVE Rest'
  BY <1>2 DEF Refuse, Return, At, untouched
<1>3. ASSUME NEW p \in Procs, Install(p) PROVE Rest'
  BY <1>3 DEF Install, GoTo, At, untouched
<1>4. ASSUME NEW p \in Procs, InstallFails(p) PROVE Rest'
  BY <1>4 DEF InstallFails, Return, At, untouched
<1>5. ASSUME NEW p \in Procs, Fetch(p) PROVE Rest'
  BY <1>5 DEF Fetch, GoTo, FailsSilently, Rewrite, At, untouched
<1>6. ASSUME NEW p \in Procs, FetchFails(p) PROVE Rest'
  BY <1>6 DEF FetchFails, Return, At, untouched
<1>7. ASSUME NEW p \in Procs, WriteTemp(p) PROVE Rest'
  BY <1>7 DEF WriteTemp, GoTo, At, untouched
<1>8. ASSUME NEW p \in Procs, WriteTempFails(p) PROVE Rest'
  BY <1>8 DEF WriteTempFails, Return, AfterRemove, At, untouched
<1>9. ASSUME NEW p \in Procs, Merge(p) PROVE Rest'
  BY <1>9 DEF Merge, GoTo, At, untouched
<1>10. ASSUME NEW p \in Procs, MergeFails(p) PROVE Rest'
  BY <1>10 DEF MergeFails, Return, AfterRemove, At, untouched
<1>11. ASSUME NEW p \in Procs, CloseTemp(p) PROVE Rest'
  BY <1>11 DEF CloseTemp, GoTo, AfterRemove, At, untouched
<1>12. ASSUME NEW p \in Procs, CloseTempFails(p) PROVE Rest'
  BY <1>12 DEF CloseTempFails, Return, AfterRemove, At, untouched
<1>13. ASSUME NEW p \in Procs, Open(p) PROVE Rest'
  BY <1>13 DEF Open, GoTo, At, untouched
<1>14. ASSUME NEW p \in Procs, OpenFails(p) PROVE Rest'
  BY <1>14 DEF OpenFails, Return, At, untouched
<1>15. ASSUME NEW p \in Procs, Write(p) PROVE Rest'
  BY <1>15 DEF Write, Return, At, untouched
<1>16. ASSUME NEW p \in Procs, WriteFails(p) PROVE Rest'
  BY <1>16 DEF WriteFails, Return, At, untouched
<1>17. ASSUME NEW p \in Procs, Crash(p) PROVE Rest'
  BY <1>17 DEF Crash, Active, At, untouched
<1>18. CASE UNCHANGED vars
  BY <1>18 DEF vars
<1> QED
  BY <1>1, <1>2, <1>3, <1>4, <1>5, <1>6, <1>7, <1>8, <1>9, <1>10, <1>11, <1>12, <1>13, <1>14, <1>15, <1>16, <1>17, <1>18 DEF Next, Step

\* A step that leaves the file alone, up to its open, changes neither what the
\* file holds nor, unless the process ends, which commands have ended.
LEMMA QuietStep ==
  ASSUME SerialInv, UNCHANGED <<opt, file, writer>>,
         NEW p \in Procs, pc[p] \notin {"write", "done", "crashed"},
         NEW w \in {"install", "fetch", "temp", "merge", "close", "open", "done"},
         pc' = [pc EXCEPT ![p] = w],
         \A q \in Procs \ {p} : data'[q] = data[q]
  PROVE  IF w = "done" THEN Store!GiveUp(p) ELSE UNCHANGED Store!vars
<1> DEFINE Ended == {q \in Procs : pc[q] \in {"write", "done", "crashed"}}
<1> USE DEF SerialInv, IInv, TypeOK
<1>1. \A q \in Procs : pc'[q] = IF q = p THEN w ELSE pc[q]
  OBVIOUS
<1>2. UNCHANGED Saved
  <2>1. writer # NoProc => (pc'[writer] = "write" <=> pc[writer] = "write")
    BY <1>1
  <2>2. writer # NoProc /\ pc[writer] = "write" => data'[writer] = data[writer]
    OBVIOUS
  <2> QED
    BY <2>1, <2>2 DEF Saved
<1>3. Ended' = IF w = "done" THEN Ended \union {p} ELSE Ended
  BY <1>1
<1>4. p \notin Ended
  OBVIOUS
<1> QED
  BY <1>2, <1>3, <1>4 DEF Store!GiveUp, Store!vars

\* The truncation of the file is the abstract update.
LEMMA OpenStep ==
  ASSUME SerialInv, NEW p \in Procs, Open(p), ~opt[p].local
  PROVE  Store!Update(p)
<1> DEFINE Ended == {q \in Procs : pc[q] \in {"write", "done", "crashed"}}
<1> USE DEF SerialInv, IInv, TypeOK, Open, GoTo, At
<1>1. p \notin Ended /\ Ended' = Ended \union {p}
  OBVIOUS
<1>2. Saved = file.of
  BY DEF Saved, Active
<1>3. Saved' = data[p].of
  BY NoProcAssumption DEF Saved
<1>4. data[p].of = Store!Updated(opt[p])
  <2>1. CASE opt[p].merge
    <3>1. HoldsMerged(p) /\ seen[p] = file
      BY <2>1 DEF HoldsData
    <3>2. data[p].of = Store!Merged(file.of, Own(p))
      BY <3>1, FilesFacts DEF HoldsMerged
    <3> QED
      BY <1>2, <2>1, <3>2 DEF Store!Updated, Own
  <2>2. CASE ~opt[p].merge
    <3>1. HoldsFetched(p)
      BY <2>2 DEF HoldsData
    <3>2. data[p].of = Own(p)
      BY <3>1, FilesFacts DEF HoldsFetched
    <3> QED
      BY <2>2, <3>2 DEF Store!Updated, Own
  <2> QED
    BY <2>1, <2>2
<1> QED
  BY <1>1, <1>3, <1>4 DEF Store!Update

\* The write that follows completes it without being seen.
LEMMA WriteStep ==
  ASSUME SerialInv, NEW p \in Procs, Write(p)
  PROVE  UNCHANGED Store!vars
<1> DEFINE Ended == {q \in Procs : pc[q] \in {"write", "done", "crashed"}}
<1> USE DEF SerialInv, IInv, TypeOK, Write, Return, At
<1>1. Ended' = Ended
  OBVIOUS
<1>2. writer = p /\ file = Blank
  BY DEF WriterOfFile, Wrote
<1>3. Saved = data[p].of
  BY <1>2, NoProcAssumption DEF Saved
<1>4. Saved' = data[p].of
  BY <1>2 DEF Saved
<1> QED
  BY <1>1, <1>3, <1>4 DEF Store!vars

\* One command at a time over SSH, each updates the file once and at once.
THEOREM UpdatesAtOnceHolds ==
  ASSUME Serial = TRUE, Faults = FALSE, \A o \in Options : ~o.local
  PROVE  Spec => UpdatesAtOnce
<1>1. Init => Store!Init
  BY FilesFacts DEF Init, Store!Init, Saved, Absent, Whole
<1>2. Init => SerialInv
  BY IInit DEF Init, SerialInv, Active
<1>3. SerialInv /\ [Next]_vars => [Store!Next]_(Store!vars)
  <2> SUFFICES ASSUME SerialInv, [Next]_vars
               PROVE  Store!Next \/ UNCHANGED Store!vars
    OBVIOUS
  <2>1. ASSUME NEW p \in Procs, Step(p), ~Open(p), ~Write(p)
        PROVE  Store!GiveUp(p) \/ UNCHANGED Store!vars
    <3>1. /\ UNCHANGED <<opt, file, writer>>
          /\ \A q \in Procs \ {p} : data'[q] = data[q]
      BY <2>1 DEF Step, Invoke, Refuse, Install, InstallFails, Fetch, FetchFails,
         WriteTemp, WriteTempFails, Merge, MergeFails, CloseTemp, CloseTempFails,
         OpenFails, WriteFails, GoTo, Return, At, untouched, SerialInv, IInv, TypeOK
    <3>2. PICK w \in {"install", "fetch", "temp", "merge", "close", "open", "done"} :
            pc' = [pc EXCEPT ![p] = w]
      BY <2>1 DEF Step, Invoke, Refuse, Install, InstallFails, Fetch, FetchFails,
         WriteTemp, WriteTempFails, Merge, MergeFails, CloseTemp, CloseTempFails,
         OpenFails, WriteFails, GoTo, Return, At, untouched
    <3>3. pc[p] \notin {"write", "done", "crashed"}
      BY <2>1 DEF Step, Invoke, Refuse, Install, InstallFails, Fetch, FetchFails,
         WriteTemp, WriteTempFails, Merge, MergeFails, CloseTemp, CloseTempFails,
         OpenFails, WriteFails, GoTo, Return, At, untouched
    <3> QED
      BY <3>1, <3>2, <3>3, QuietStep
  <2>2. CASE UNCHANGED vars
    BY <2>2 DEF vars, Store!vars, Saved
  <2>3. ASSUME NEW p \in Procs PROVE ~opt[p].local
    BY DEF SerialInv, IInv, TypeOK
  <2> QED
    BY <2>1, <2>2, <2>3, OpenStep, WriteStep DEF Next, Crash, Store!Next
<1> QED
  BY <1>1, <1>2, <1>3, SerialStep, Invariance, PTL DEF Spec, UpdatesAtOnce, Store!Spec

================================================================================
