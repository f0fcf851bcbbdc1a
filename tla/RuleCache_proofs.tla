-------------------------- MODULE RuleCache_proofs --------------------------
(* Proofs about RuleCache. *)
EXTENDS RuleCache, TLAPS

(* A missing and a partly written file are not snapshots.                  *)
LEMMA MarksNoSnapshots ==
  /\ NoFile \notin Snapshots /\ Part \notin Snapshots
  /\ NoFile # Part
<1>1. ASSUME NEW s \in Snapshots PROVE "part" \notin DOMAIN s
  BY DEF Snapshots
<1>2. "part" \in DOMAIN NoFile /\ "part" \in DOMAIN Part
  BY DEF NoFile, Part
<1>3. NoFile.part # Part.part
  BY DEF NoFile, Part
<1> QED
  BY <1>1, <1>2, <1>3

(* What makes the file whole: Save renames only what it has written to the *)
(* end, and the file is never the temporary one under way.                 *)
RenamesWhole ==
  /\ writer = "rename" => tmp \in Snapshots
  /\ file \in Snapshots \cup {NoFile}

Inv == TypeOK /\ RenamesWhole

(* The empty rules are a snapshot.                                         *)
LEMMA NothingIsSnapshot == Nothing \in Snapshots
<1>1. 0 \in 0..MaxRules /\ 0 \in 0..MaxEndpoints
  BY CacheAssumption
<1> QED
  BY <1>1 DEF Nothing, Snapshots

(* The agent starts with nothing on the disk, or a whole file.             *)
LEMMA InitInv == Init => Inv
<1> SUFFICES ASSUME Init PROVE Inv
  OBVIOUS
<1>1. published \in [rules : 1..MaxRules, endpoints : 1..MaxEndpoints]
  BY CacheAssumption DEF Init
<1> QED
  BY <1>1, NothingIsSnapshot DEF Init, Inv, TypeOK, RenamesWhole

(* A process that ends leaves the disk as it is.                           *)
LEMMA ForgetInv == Inv /\ Forget => Inv'
  BY NothingIsSnapshot DEF Forget, Inv, TypeOK, RenamesWhole, disk

(* Every step renames only a whole file over the cache.                    *)
LEMMA StepInv == Inv /\ [Next]_vars => Inv'
<1> SUFFICES ASSUME Inv, [Next]_vars PROVE Inv'
  OBVIOUS
<1> USE CacheAssumption DEF Inv, TypeOK, RenamesWhole, disk
<1>1. CASE Publish
  BY <1>1 DEF Publish, process
<1>2. CASE StartSynced
  <2>1. mem' \in Snapshots
    BY <1>2 DEF StartSynced, Snapshots
  <2> QED
    BY <1>2, <2>1 DEF StartSynced
<1>3. CASE StartFromCache
  BY <1>3 DEF StartFromCache, Loadable
<1>4. CASE SyncRules
  <2>1. mem' \in Snapshots
    BY <1>4 DEF SyncRules, Snapshots
  <2> QED
    BY <1>4, <2>1 DEF SyncRules
<1>5. CASE GetExitEndpoint
  <2>1. mem' \in Snapshots
    BY <1>5 DEF GetExitEndpoint, Snapshots
  <2> QED
    BY <1>5, <2>1 DEF GetExitEndpoint
<1>6. CASE UpdateRuleCache
  <2>1. mem' \in Snapshots
    BY <1>6 DEF UpdateRuleCache, Snapshots
  <2> QED
    BY <1>6, <2>1 DEF UpdateRuleCache
<1>7. CASE PersistRuleCache \/ StopCancel \/ WriterEnds
  BY <1>7 DEF PersistRuleCache, StopCancel, WriterEnds
<1>8. CASE Wake \/ Drain
  BY <1>8 DEF Wake, Drain
<1>9. CASE CopyRules \/ CopyEndpoints
  <2>1. snap' \in Snapshots
    BY <1>9 DEF CopyRules, CopyEndpoints, Snapshots
  <2> QED
    BY <1>9, <2>1 DEF CopyRules, CopyEndpoints
<1>10. CASE SaveOpen
  BY <1>10 DEF SaveOpen
<1>11. CASE SaveWrite
  BY <1>11 DEF SaveWrite
<1>12. CASE SaveRename
  BY <1>12, NothingIsSnapshot DEF SaveRename
<1>13. CASE SaveFails
  BY <1>13, NothingIsSnapshot DEF SaveFails
<1>14. CASE Stopped \/ Crash
  BY <1>14, ForgetInv DEF Stopped, Crash
<1>15. CASE UNCHANGED vars
  BY <1>15 DEF vars, process
<1> QED
  BY <1>1, <1>2, <1>3, <1>4, <1>5, <1>6, <1>7, <1>8, <1>9, <1>10, <1>11, <1>12, <1>13, <1>14, <1>15
     DEF Next, Write

(* Every variable keeps its type: above all, an agent that starts from its *)
(* cache starts from rules and endpoints, never from part of a file, for   *)
(* any number of versions, crashes and restarts.                           *)
THEOREM TypeCorrect == Spec => []TypeOK
<1>1. Inv => TypeOK
  BY DEF Inv
<1> QED
  BY <1>1, InitInv, StepInv, PTL DEF Spec

(* The cache file is only ever replaced by a whole one.                    *)
THEOREM FileAlwaysWhole == Spec => FileStaysWhole
<1>1. Inv /\ [Next]_vars => [file' \in Snapshots /\ (file # NoFile => file' # NoFile)]_file
  <2> SUFFICES ASSUME Inv, [Next]_vars, file' # file
               PROVE  file' \in Snapshots /\ (file # NoFile => file' # NoFile)
    OBVIOUS
  <2>1. SaveRename
    BY DEF Next, vars, disk, Publish, StartSynced, StartFromCache, SyncRules, GetExitEndpoint, UpdateRuleCache,
           PersistRuleCache, Write, Wake, Drain, CopyRules, CopyEndpoints, SaveOpen, SaveWrite, WriterEnds,
           SaveFails, StopCancel, Stopped, Crash, Forget
  <2>2. file' \in Snapshots
    BY <2>1 DEF SaveRename, Inv, RenamesWhole
  <2> QED
    BY <2>2, MarksNoSnapshots
<1> QED
  BY <1>1, InitInv, StepInv, PTL DEF Spec, FileStaysWhole
=============================================================================
