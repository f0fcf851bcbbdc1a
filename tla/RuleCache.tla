------------------------------- MODULE RuleCache -------------------------------
(***************************************************************************)
(* The rule cache of internal/agent/cache.go and internal/rulecache, kept  *)
(* on disk by a debounced loop, through crashes, stops and restarts of the *)
(* agent.  The rules and the exit endpoints are versions; the file is a    *)
(* snapshot of them, nothing, or part of one.  How rules are synchronised  *)
(* and started is in RuleSync.                                             *)
(***************************************************************************)
EXTENDS Naturals

CONSTANTS
  MaxRules,      \* bound: versions of the rules
  MaxEndpoints,  \* bound: versions of the exit endpoints
  EmptyVersions  \* the versions without any rule

ASSUME CacheAssumption ==
  /\ MaxRules \in Nat \ {0} /\ MaxEndpoints \in Nat \ {0} /\ EmptyVersions \subseteq 1..MaxRules

VARIABLES
  published, \* the server's rules and endpoints
  phase,     \* of the process: down, up, stopping
  mem,       \* rules and endpointCache, 0 for none
  owed,      \* is a call of persistRuleCache due?
  signal,    \* is there a signal in cachePersistCh?
  writer,    \* the next step of cachePersistLoop
  snap,      \* its snapshot
  tmp,       \* the temporary file, and
  file,      \* the cache file: a snapshot, or none, or part of one
  missed     \* history: a change of mem that nothing asked to save, or a failed Save

process == <<phase, mem, owed, signal, writer, snap>>
disk    == <<tmp, file>>
vars    == <<published, process, disk, missed>>

Snapshots == [rules : 0..MaxRules, endpoints : 0..MaxEndpoints]
Nothing == [rules |-> 0, endpoints |-> 0]
NoFile == [rules |-> 0, endpoints |-> 0, part |-> FALSE]
Part   == [rules |-> 0, endpoints |-> 0, part |-> TRUE]

TypeOK ==
  /\ published \in [rules : 1..MaxRules, endpoints : 1..MaxEndpoints]
  /\ phase \in {"down", "up", "stopping"} /\ mem \in Snapshots
  /\ owed \in BOOLEAN /\ missed \in BOOLEAN /\ signal \in BOOLEAN
  /\ writer \in {"none", "idle", "sleep", "rules", "endpoints", "open", "write", "rename"}
  /\ snap \in Snapshots
  /\ tmp \in Snapshots \cup {NoFile, Part} /\ file \in Snapshots \cup {NoFile, Part}

Init ==
  /\ published = [rules |-> 1, endpoints |-> 1]
  /\ phase = "down" /\ mem = Nothing /\ owed = FALSE
  /\ signal = FALSE /\ writer = "none" /\ snap = Nothing
  /\ tmp = NoFile /\ file = NoFile
  /\ missed = FALSE

-------------------------------------------------------------------------------
(* The rules and the endpoints                                             *)

(* The server's rules change, or an exit agent moves.                      *)
Publish ==
  /\ \/ published.rules < MaxRules /\ published' = [published EXCEPT !.rules = @ + 1]
     \/ published.endpoints < MaxEndpoints /\ published' = [published EXCEPT !.endpoints = @ + 1]
  /\ UNCHANGED <<process, disk, missed>>

(* The first sync; the exits of its rules may or may not be resolved.  A   *)
(* signal it sends waits in the channel for the loop Start runs after it.  *)
StartSynced ==
  /\ phase = "down"
  /\ \E e \in {0, published.endpoints} : mem' = [rules |-> published.rules, endpoints |-> e]
  /\ owed' = TRUE /\ missed' = FALSE
  /\ phase' = "up" /\ writer' = "idle"
  /\ UNCHANGED <<published, signal, snap, disk>>

(* What Load accepts: a whole file, with rules.                            *)
Loadable == file \notin {NoFile, Part} /\ file.rules \notin EmptyVersions

(* Mutant: whatever the read returned is taken. *)
StartFromAnything ==
  /\ phase = "down"
  /\ mem' = file /\ missed' = FALSE
  /\ phase' = "up" /\ writer' = "idle"
  /\ UNCHANGED <<published, owed, signal, snap, disk>>

(* The server cannot be reached.                                           *)
StartFromCache ==
  /\ phase = "down" /\ Loadable
  /\ mem' = file /\ missed' = FALSE
  /\ phase' = "up" /\ writer' = "idle"
  /\ UNCHANGED <<published, owed, signal, snap, disk>>

(* Mutant: a sync without news asks for nothing. *)
SyncNews ==
  /\ phase = "up" /\ mem.rules # published.rules
  /\ mem' = [mem EXCEPT !.rules = published.rules]
  /\ owed' = TRUE /\ missed' = FALSE
  /\ UNCHANGED <<published, phase, signal, writer, snap, disk>>

(* A sync, whether or not it changes the rules.  The persistRuleCache at   *)
(* its end may have to wait for forwarders to start.                       *)
SyncRules ==
  /\ phase = "up"
  /\ mem' = [mem EXCEPT !.rules = published.rules]
  /\ owed' = TRUE /\ missed' = FALSE
  /\ UNCHANGED <<published, phase, signal, writer, snap, disk>>

(* An exit's endpoint is resolved, as ever or anew; when the server does   *)
(* not answer the cached one is used, and nothing changes.                 *)
GetExitEndpoint ==
  /\ phase = "up"
  /\ mem' = [mem EXCEPT !.endpoints = published.endpoints]
  /\ owed' = TRUE /\ missed' = FALSE
  /\ UNCHANGED <<published, phase, signal, writer, snap, disk>>

(* A reconnecting tunnel refreshes its rule: nothing asks for a save.      *)
UpdateRuleCache ==
  /\ phase = "up" /\ mem.rules # published.rules
  /\ mem' = [mem EXCEPT !.rules = published.rules]
  /\ missed' = TRUE
  /\ UNCHANGED <<published, phase, owed, signal, writer, snap, disk>>

(* Mutant: the channel has no buffer. *)
PersistUnbuffered ==
  /\ owed
  /\ owed' = FALSE /\ signal' = (writer = "idle")
  /\ UNCHANGED <<published, phase, mem, writer, snap, disk, missed>>

(* The channel has room for one signal; more are one.                      *)
PersistRuleCache ==
  /\ owed
  /\ owed' = FALSE /\ signal' = TRUE
  /\ UNCHANGED <<published, phase, mem, writer, snap, disk, missed>>

-------------------------------------------------------------------------------
(* cachePersistLoop                                                        *)

Wake ==
  /\ writer = "idle" /\ signal
  /\ signal' = FALSE /\ writer' = "sleep"
  /\ UNCHANGED <<published, phase, mem, owed, snap, disk, missed>>

(* Of a signal and the end of the context select takes either.             *)
WriterEnds ==
  /\ writer = "idle" /\ phase = "stopping"
  /\ writer' = "none"
  /\ UNCHANGED <<published, phase, mem, owed, signal, snap, disk, missed>>

(* After the debounce interval what came in the meantime is drained.       *)
Drain ==
  /\ writer = "sleep"
  /\ signal' = FALSE /\ writer' = "rules"
  /\ UNCHANGED <<published, phase, mem, owed, snap, disk, missed>>

(* writeRuleCache: each part under its own lock.                           *)
CopyRules ==
  /\ writer = "rules"
  /\ snap' = [snap EXCEPT !.rules = mem.rules] /\ writer' = "endpoints"
  /\ UNCHANGED <<published, phase, mem, owed, signal, disk, missed>>

CopyEndpoints ==
  /\ writer = "endpoints"
  /\ snap' = [snap EXCEPT !.endpoints = mem.endpoints] /\ writer' = "open"
  /\ UNCHANGED <<published, phase, mem, owed, signal, disk, missed>>

(* Mutant: the cache file itself is truncated and written. *)
SaveInPlace ==
  /\ writer = "open"
  /\ tmp' = Part /\ file' = Part /\ writer' = "write"
  /\ UNCHANGED <<published, phase, mem, owed, signal, snap, missed>>

(* Save: what an earlier life left at this path is removed first.          *)
SaveOpen ==
  /\ writer = "open"
  /\ tmp' = Part /\ writer' = "write"
  /\ UNCHANGED <<published, phase, mem, owed, signal, snap, file, missed>>

SaveWrite ==
  /\ writer = "write"
  /\ tmp' = snap /\ writer' = "rename"
  /\ UNCHANGED <<published, phase, mem, owed, signal, snap, file, missed>>

SaveRename ==
  /\ writer = "rename"
  /\ file' = tmp /\ tmp' = NoFile
  /\ writer' = "idle" /\ snap' = Nothing
  /\ UNCHANGED <<published, phase, mem, owed, signal, missed>>

(* An error at any of the three is logged, and nothing tries again before  *)
(* the next sync or endpoint asks for a save.                              *)
SaveFails ==
  /\ writer \in {"open", "write", "rename"}
  /\ tmp' = (IF writer = "open" THEN tmp ELSE NoFile)
  /\ writer' = "idle" /\ snap' = Nothing /\ missed' = TRUE
  /\ UNCHANGED <<published, phase, mem, owed, signal, file>>

-------------------------------------------------------------------------------
(* Stop and crash                                                          *)

StopCancel ==
  /\ phase = "up"
  /\ phase' = "stopping"
  /\ UNCHANGED <<published, mem, owed, signal, writer, snap, disk, missed>>

Forget ==
  /\ phase' = "down" /\ mem' = Nothing /\ owed' = FALSE
  /\ signal' = FALSE /\ writer' = "none" /\ snap' = Nothing
  /\ UNCHANGED <<published, disk, missed>>

(* Stop waits for the loops.                                               *)
Stopped == phase = "stopping" /\ writer = "none" /\ Forget

(* The process is killed; what the operating system has it keeps.          *)
Crash == phase # "down" /\ Forget

Write == Wake \/ Drain \/ CopyRules \/ CopyEndpoints \/ SaveOpen \/ SaveWrite \/ SaveRename

Next ==
  \/ Publish \/ StartSynced \/ StartFromCache \/ SyncRules \/ GetExitEndpoint \/ UpdateRuleCache
  \/ PersistRuleCache \/ Write \/ WriterEnds \/ SaveFails \/ StopCancel \/ Stopped \/ Crash

(* A sync ends, and the loop runs; the disk may fail it as often as not.   *)
Fairness == WF_vars(PersistRuleCache) /\ WF_vars(Write \/ WriterEnds \/ SaveFails)

Spec == Init /\ [][Next]_vars /\ Fairness

-------------------------------------------------------------------------------
(* Properties                                                              *)

(* Once there is a cache file there is always a whole one: a crash while   *)
(* Save writes, or what a crash left behind, never costs the last good     *)
(* snapshot.                                                               *)
FileStaysWhole == [][file' \in Snapshots /\ (file # NoFile => file' # NoFile)]_file

(* In an agent that stays up every change it was told of is on disk in the *)
(* end, whenever in the round of the loop it came, unless saves go on      *)
(* failing or the last one came from a tunnel's refresh.                   *)
Saved == <>[](phase = "up" /\ ~missed) => <>[](file = mem)

(* Neither matters while the fallback poll goes on and reaches the server: *)
(* each sync asks for a save, news or not, so that one day all the agent   *)
(* was told is on disk, unless every Save fails.                           *)
DiskWorks == []<>(writer = "open") => []<><<SaveRename>>_vars

SavedBySync ==
  <>[](phase = "up") /\ WF_vars(SyncRules) /\ DiskWorks => <>[](file = mem)
=============================================================================
