--------------------------- MODULE RunStoreProofs ---------------------------
(***************************************************************************)
(* Proofs about RunStore, for any number of runs and tasks, any setting,   *)
(* with cleanup and scan at work at the same time.  Two facts about the    *)
(* operator's --ttl are hypotheses of the theorems that need them, since   *)
(* the command line accepts any number: that it is not zero, and that it   *)
(* is longer than a run takes (the defaults are a day and a quarter of an  *)
(* hour).                                                                  *)
(***************************************************************************)
EXTENDS RunStore, TLAPS

CleanerType ==
  [at : {"idle", "tasks", "judge", "prune"}, now : Nat, tasks : SUBSET TaskIds,
   task : TaskIds \cup {"none"}, left : SUBSET Runs, expired : SUBSET Runs,
   removed : BOOLEAN, kept : BOOLEAN]

ScanType ==
  [at : {"idle", "walk", "read"}, now : Nat, tasks : SUBSET TaskIds,
   left : SUBSET Runs, run : Runs \cup {"none"}, age : Nat, runJson : BOOLEAN]

ReportType ==
  [entries : [Runs -> [status : {"none", "malformed", "stale", "ok"},
                       terminal : BOOLEAN]],
   orphans : SUBSET TaskIds]

Times == Nat \cup {Never}

(* Every variable has its type. *)
StoreTypeOK ==
  /\ setting \in Settings /\ clock \in Nat
  /\ root \subseteq TaskIds /\ dir \subseteq Runs
  /\ born \in [Runs -> Times] /\ created \in [Runs -> Times]
  /\ manifest \in [Runs -> ManifestStates] /\ run \in [Runs -> RunStages]
  /\ cleaner \in CleanerType /\ scan \in ScanType /\ report \in ReportType

(***************************************************************************)
(* A run and its directory: run.json is written into a directory that is   *)
(* there, and the manifest once the container has ended.                   *)
(***************************************************************************)
DirInv(r) ==
  /\ run[r] # "new" => r \in setting.runs
  /\ run[r] \in {"new", "rooted"} => r \notin dir /\ born[r] = Never
  /\ run[r] \notin {"new", "rooted"} /\ born[r] = Never => run[r] \in RunOver
  /\ r \in dir => born[r] # Never /\ TaskOf(r) \in root
  /\ born[r] <= clock
  /\ created[r] # Never => r \in dir /\ born[r] <= created[r] /\ created[r] <= clock
  /\ manifest[r] # "none" => Ended(r)

(* No run is left unfinished beyond its limit. *)
LimitInv(r) == Started(r) => born[r] # Never /\ clock <= born[r] + RunLimit

(***************************************************************************)
(* The cleanup command works on one task directory at a time; what appears *)
(* in it after the check that found it empty is younger than the command.  *)
(***************************************************************************)
WalkInv ==
  /\ cleaner.now <= clock
  /\ cleaner.at # "judge" => cleaner.expired = {}
  /\ \A r \in cleaner.left \cup cleaner.expired : TaskOf(r) = cleaner.task
  /\ cleaner.at = "prune" =>
       /\ cleaner.removed
       /\ \A r \in dir : TaskOf(r) = cleaner.task => born[r] >= cleaner.now

ScanInv == scan.at = "read" => scan.run \in Runs

StoreInv ==
  /\ StoreTypeOK /\ WalkInv /\ ScanInv
  /\ \A r \in Runs : DirInv(r) /\ LimitInv(r)

(***************************************************************************)
(* What is about to be removed is as old as the ttl, and so is what was    *)
(* removed; with a ttl longer than a run, both runs are over for good.     *)
(***************************************************************************)
OldAndOver(r) == born[r] # Never /\ born[r] + Ttl <= cleaner.now /\ run[r] \in RunOver

RemovalInv ==
  /\ \A r \in cleaner.expired :
       r \in dir /\ Age(r, cleaner.now) >= Ttl /\ OldAndOver(r)
  /\ cleaner.removed =>
       \E q \in setting.runs : q \in Runs /\ TaskOf(q) = cleaner.task /\ OldAndOver(q)

(***************************************************************************)
(* What is as old as the ttl is still on one of the lists of the command.  *)
(***************************************************************************)
Listed(r) ==
  \/ TaskOf(r) \in cleaner.tasks
  \/ cleaner.at = "judge" /\ r \in cleaner.left \cup cleaner.expired

ListedInv ==
  cleaner.at # "idle" =>
    \A r \in dir : Age(r, cleaner.now) >= Ttl => Listed(r)

-----------------------------------------------------------------------------
(***************************************************************************)
(* What a step leaves of a run that it is not about.                       *)
(***************************************************************************)
SameStored(q) ==
  /\ setting' = setting /\ clock' = clock /\ root \subseteq root'
  /\ run'[q] = run[q] /\ born'[q] = born[q] /\ created'[q] = created[q]
  /\ manifest'[q] = manifest[q] /\ (q \in dir' <=> q \in dir)

LEMMA FramedStored ==
  ASSUME NEW q \in Runs, SameStored(q), DirInv(q), LimitInv(q)
  PROVE  DirInv(q)' /\ LimitInv(q)'
BY DEF SameStored, DirInv, LimitInv, Ended, Started, TaskOf

LEMMA AgeTyped ==
  ASSUME StoreTypeOK, NEW r \in Runs, NEW now \in Nat
  PROVE  Age(r, now) \in Int
BY DEF StoreTypeOK, Age, Times, Never

(***************************************************************************)
(* A run works in its own directory: what its step does to the files.      *)
(***************************************************************************)
LEMMA RunStepFacts ==
  ASSUME StoreTypeOK, NEW r \in Runs, RunStep(r)
  PROVE  /\ UNCHANGED <<setting, clock, cleaner, scan, report>>
         /\ root' \in {root, root \cup {TaskOf(r)}}
         /\ dir' \in {dir, dir \cup {r}}
         /\ run' \in [Runs -> RunStages] /\ manifest' \in [Runs -> ManifestStates]
         /\ born' \in [Runs -> Times] /\ created' \in [Runs -> Times]
         /\ \A q \in Runs : q # r => SameStored(q)
<1>a. /\ clock \in Times /\ dir \subseteq Runs
      /\ born \in [Runs -> Times] /\ created \in [Runs -> Times]
      /\ manifest \in [Runs -> ManifestStates] /\ run \in [Runs -> RunStages]
  BY DEF StoreTypeOK, Times
<1>1. CASE MakeTaskRoot(r) \/ MakeRunDir(r) \/ WriteRunJson(r)
  BY <1>1, <1>a DEF MakeTaskRoot, MakeRunDir, WriteRunJson, Stage, RunFrame,
     RunStages, SameStored
<1>2. CASE TruncateManifest(r)
  BY <1>2, <1>a DEF TruncateManifest, Stage, RunFrame, RunStages, ManifestStates,
     SameStored
<1>3. CASE FillManifest(r)
  BY <1>3, <1>a DEF FillManifest, Stage, RunFrame, RunStages, ManifestStates,
     SameStored
<1>4. CASE Return(r) \/ Crash(r)
  BY <1>4, <1>a DEF Return, Crash, Stage, RunFrame, files, RunStages, SameStored
<1>5. QED
  BY <1>1, <1>2, <1>3, <1>4 DEF RunStep

LEMMA RunKeepsDir ==
  ASSUME StoreInv, NEW r \in Runs, RunStep(r)
  PROVE  DirInv(r)' /\ LimitInv(r)'
<1>a. /\ clock \in Nat /\ dir \subseteq Runs
      /\ born \in [Runs -> Times] /\ created \in [Runs -> Times]
      /\ manifest \in [Runs -> ManifestStates] /\ run \in [Runs -> RunStages]
      /\ RunLimit \in Nat
  BY StoreAssumption DEF StoreInv, StoreTypeOK
<1>b. DirInv(r) /\ LimitInv(r)
  BY DEF StoreInv
<1>c. UNCHANGED <<setting, clock>>
  BY RunStepFacts DEF StoreInv
<1>1. CASE MakeTaskRoot(r)
  BY <1>1, <1>a, <1>b, <1>c
  DEF MakeTaskRoot, Stage, DirInv, LimitInv, Ended, Started, TaskOf
<1>2. CASE MakeRunDir(r)
  BY <1>2, <1>a, <1>b, <1>c
  DEF MakeRunDir, Stage, DirInv, LimitInv, Ended, Started, RunOver, TaskOf, Never,
      Times
<1>3. CASE WriteRunJson(r)
  BY <1>3, <1>a, <1>b, <1>c
  DEF WriteRunJson, Stage, DirInv, LimitInv, Ended, Started, RunOver, TaskOf, Never,
      Times
<1>4. CASE TruncateManifest(r)
  BY <1>4, <1>a, <1>b, <1>c
  DEF TruncateManifest, Stage, DirInv, LimitInv, Ended, Started, RunOver, TaskOf,
      Never, Times
<1>5. CASE FillManifest(r)
  BY <1>5, <1>a, <1>b, <1>c
  DEF FillManifest, Stage, DirInv, LimitInv, Ended, Started, RunOver, TaskOf
<1>6. CASE Return(r) \/ Crash(r)
  BY <1>6, <1>a, <1>b, <1>c
  DEF Return, Crash, Stage, files, DirInv, LimitInv, Ended, Started, RunOver, TaskOf
<1>7. QED
  BY <1>1, <1>2, <1>3, <1>4, <1>5, <1>6 DEF RunStep

LEMMA RunKeepsStore ==
  ASSUME StoreInv, NEW r \in Runs, RunStep(r)
  PROVE  StoreInv'
<1>a. StoreTypeOK /\ WalkInv /\ ScanInv /\ (\A q \in Runs : DirInv(q) /\ LimitInv(q))
  BY DEF StoreInv
<1>b. /\ UNCHANGED <<setting, clock, cleaner, scan, report>>
      /\ root' \in {root, root \cup {TaskOf(r)}}
      /\ dir' \in {dir, dir \cup {r}}
      /\ run' \in [Runs -> RunStages] /\ manifest' \in [Runs -> ManifestStates]
      /\ born' \in [Runs -> Times] /\ created' \in [Runs -> Times]
      /\ \A q \in Runs : q # r => SameStored(q)
  BY <1>a, RunStepFacts
<1>c. TaskIds' = TaskIds /\ TaskOf(r) \in TaskIds /\ (\A q : TaskOf(q)' = TaskOf(q))
  BY <1>b DEF TaskIds, TaskOf
<1>1. StoreTypeOK'
  BY <1>a, <1>b, <1>c DEF StoreTypeOK, CleanerType, ScanType, ReportType
<1>2. \A q \in Runs : DirInv(q)' /\ LimitInv(q)'
  BY <1>a, <1>b, FramedStored, RunKeepsDir
<1>3. WalkInv'
  <2>1. ASSUME cleaner.at = "prune", NEW q \in dir', TaskOf(q) = cleaner.task
        PROVE  born'[q] >= cleaner.now
    <3>1. CASE q \in dir /\ q # r
      BY <1>a, <1>b, <2>1, <3>1 DEF WalkInv, SameStored, StoreTypeOK
    <3>2. CASE q = r /\ r \in dir
      <4>1. born'[r] = born[r]
        <5>1. run[r] # "rooted"
          BY <1>a, <3>2 DEF DirInv
        <5>2. QED
          BY <3>2, <5>1 DEF RunStep, MakeTaskRoot, MakeRunDir, WriteRunJson,
             TruncateManifest, FillManifest, Return, Crash, Stage, files
      <4>2. QED
        BY <1>a, <2>1, <3>2, <4>1 DEF WalkInv
    <3>3. CASE q = r /\ r \notin dir
      <4>1. born'[r] = clock
        BY <1>a, <2>1, <3>3 DEF RunStep, MakeTaskRoot, MakeRunDir, WriteRunJson,
           TruncateManifest, FillManifest, Return, Crash, Stage, files, StoreTypeOK
      <4>2. QED
        BY <1>a, <3>3, <4>1 DEF WalkInv, StoreTypeOK, CleanerType
    <3>4. QED
      BY <1>b, <2>1, <3>1, <3>2, <3>3
  <2>2. QED
    BY <1>a, <1>b, <1>c, <2>1 DEF WalkInv
<1>4. ScanInv'
  BY <1>a, <1>b DEF ScanInv
<1>5. QED
  BY <1>1, <1>2, <1>3, <1>4 DEF StoreInv

(***************************************************************************)
(* Removing a directory takes what it holds with it; the runs keep their   *)
(* stages and the times at which their directories were made.              *)
(***************************************************************************)
LEMMA RemoveFacts ==
  ASSUME StoreTypeOK, NEW gone \in SUBSET Runs, Remove(gone)
  PROVE  /\ dir' = dir \ gone /\ UNCHANGED born
         /\ created' \in [Runs -> Times] /\ manifest' \in [Runs -> ManifestStates]
         /\ \A q \in gone : created'[q] = Never /\ manifest'[q] = "none"
         /\ \A q \in Runs \ gone : created'[q] = created[q] /\ manifest'[q] = manifest[q]
BY DEF Remove, StoreTypeOK, Times, ManifestStates

LEMMA CleanTypes ==
  ASSUME StoreInv, Clean
  PROVE  /\ UNCHANGED <<setting, clock, run, scan, report, born>>
         /\ root' \subseteq root /\ dir' \subseteq dir
         /\ created' \in [Runs -> Times] /\ manifest' \in [Runs -> ManifestStates]
         /\ cleaner' \in CleanerType
<1>a. StoreTypeOK /\ cleaner \in CleanerType /\ clock \in Nat /\ dir \subseteq Runs
      /\ created \in [Runs -> Times] /\ manifest \in [Runs -> ManifestStates]
      /\ root \subseteq TaskIds
  BY DEF StoreInv, StoreTypeOK
<1>1. CASE StartCleanup
  BY <1>1, <1>a DEF StartCleanup, CleanFrame, files, CleanerType, Idle
<1>2. CASE \E t \in TaskIds : ListTaskRoot(t)
  <2>1. PICK t \in TaskIds : ListTaskRoot(t)
    BY <1>2
  <2>2. {r \in dir : TaskOf(r) = t /\ t \in root} \subseteq Runs
    BY <1>a
  <2>3. cleaner' \in CleanerType
    BY <2>1, <2>2, <1>a DEF ListTaskRoot, CleanerType
  <2>4. QED
    BY <2>1, <2>3, <1>a DEF ListTaskRoot, CleanFrame, files
<1>3. CASE \E r \in Runs : JudgeRun(r)
  <2>1. PICK r \in Runs : JudgeRun(r)
    BY <1>3
  <2>2. cleaner' \in CleanerType
    BY <2>1, <1>a DEF JudgeRun, CleanerType
  <2>3. QED
    BY <2>1, <2>2, <1>a DEF JudgeRun, CleanFrame, files
<1>4. CASE \E r \in Runs : RemoveRun(r)
  <2>1. PICK r \in Runs : RemoveRun(r)
    BY <1>4
  <2>2. cleaner' \in CleanerType
    BY <2>1, <1>a DEF RemoveRun, CleanerType
  <2>3. QED
    BY <2>1, <2>2, <1>a, RemoveFacts DEF RemoveRun, CleanFrame
<1>5. CASE CheckTaskRoot
  BY <1>5, <1>a DEF CheckTaskRoot, CleanFrame, files, CleanerType
<1>6. CASE PruneTaskRoot
  BY <1>6, <1>a, RemoveFacts DEF PruneTaskRoot, CleanFrame, CleanerType
<1>7. CASE EndCleanup
  BY <1>7, <1>a DEF EndCleanup, CleanFrame, files, CleanerType, Idle
<1>8. QED
  BY <1>1, <1>2, <1>3, <1>4, <1>5, <1>6, <1>7 DEF Clean

LEMMA CleanKeepsDir ==
  ASSUME StoreInv, Clean, NEW q \in Runs
  PROVE  DirInv(q)' /\ LimitInv(q)'
<1>a. StoreTypeOK /\ DirInv(q) /\ LimitInv(q)
  BY DEF StoreInv
<1>b. UNCHANGED <<setting, clock, run, scan, report, born>> /\ dir' \subseteq dir
  BY CleanTypes
<1>1. \/ q \in dir' /\ created'[q] = created[q] /\ manifest'[q] = manifest[q]
      \/ q \notin dir /\ created'[q] = created[q] /\ manifest'[q] = manifest[q]
      \/ q \notin dir' /\ created'[q] = Never /\ manifest'[q] = "none"
  <2>1. ASSUME NEW gone \in SUBSET Runs, Remove(gone)
        PROVE  \/ /\ q \notin gone /\ (q \in dir' <=> q \in dir)
                  /\ created'[q] = created[q] /\ manifest'[q] = manifest[q]
               \/ q \notin dir' /\ created'[q] = Never /\ manifest'[q] = "none"
    BY <1>a, <2>1, RemoveFacts
  <2>2. ASSUME UNCHANGED files
        PROVE  dir' = dir /\ created' = created /\ manifest' = manifest
    BY <2>2 DEF files
  <2>3. (\E gone \in SUBSET Runs : Remove(gone)) \/ UNCHANGED files
    <3>1. CASE StartCleanup \/ CheckTaskRoot \/ EndCleanup
               \/ (\E t \in TaskIds : ListTaskRoot(t)) \/ (\E r \in Runs : JudgeRun(r))
      BY <3>1 DEF StartCleanup, CheckTaskRoot, EndCleanup, ListTaskRoot, JudgeRun
    <3>2. CASE \E r \in Runs : RemoveRun(r)
      BY <3>2 DEF RemoveRun
    <3>3. CASE PruneTaskRoot
      BY <3>3 DEF PruneTaskRoot
    <3>4. QED
      BY <3>1, <3>2, <3>3 DEF Clean
  <2>4. QED
    BY <2>1, <2>2, <2>3
<1>2. q \in dir' => TaskOf(q) \in root'
  <2>1. CASE PruneTaskRoot
    <3>1. root' = root \ {cleaner.task} /\ dir' = dir \ {r \in Runs : TaskOf(r) = cleaner.task}
      BY <2>1 DEF PruneTaskRoot, Remove
    <3>2. QED
      BY <1>a, <3>1 DEF DirInv
  <2>2. CASE ~PruneTaskRoot
    <3>1. UNCHANGED root
      BY <2>2 DEF Clean, StartCleanup, CheckTaskRoot, EndCleanup, ListTaskRoot,
         JudgeRun, RemoveRun, files
    <3>2. QED
      BY <1>a, <1>b, <3>1 DEF DirInv
  <2>3. QED
    BY <2>1, <2>2
<1>3. TaskOf(q)' = TaskOf(q)
  BY <1>b DEF TaskOf
<1>4. QED
  BY <1>a, <1>b, <1>1, <1>2, <1>3 DEF DirInv, LimitInv, Ended, Started

LEMMA CleanKeepsWalk ==
  ASSUME StoreInv, Clean
  PROVE  WalkInv'
<1>a. StoreTypeOK /\ WalkInv /\ cleaner \in CleanerType /\ clock \in Nat
  BY DEF StoreInv, StoreTypeOK
<1>b. UNCHANGED <<setting, clock, born>> /\ dir' \subseteq dir
      /\ (\A q : TaskOf(q)' = TaskOf(q))
  BY CleanTypes DEF TaskOf
<1>1. CASE StartCleanup
  BY <1>1, <1>a, <1>b DEF StartCleanup, Idle, WalkInv
<1>2. CASE \E t \in TaskIds : ListTaskRoot(t)
  <2>1. PICK t \in TaskIds : ListTaskRoot(t)
    BY <1>2
  <2>2. /\ cleaner'.now = cleaner.now /\ cleaner'.at \in {"judge", "tasks"}
        /\ cleaner'.expired = {} /\ cleaner'.task = t
        /\ \A r \in cleaner'.left : TaskOf(r) = t
    BY <2>1, <1>a DEF ListTaskRoot, CleanerType
  <2>3. QED
    BY <1>a, <1>b, <2>2 DEF WalkInv
<1>3. CASE \E r \in Runs : JudgeRun(r)
  <2>1. PICK r \in Runs : JudgeRun(r)
    BY <1>3
  <2>2. /\ cleaner'.now = cleaner.now /\ cleaner'.at = "judge"
        /\ cleaner'.task = cleaner.task /\ r \in cleaner.left
        /\ cleaner'.left \subseteq cleaner.left
        /\ cleaner'.expired \subseteq cleaner.expired \cup {r}
    BY <2>1, <1>a DEF JudgeRun, CleanerType
  <2>3. QED
    BY <1>a, <1>b, <2>2 DEF WalkInv
<1>4. CASE \E r \in Runs : RemoveRun(r)
  <2>1. PICK r \in Runs : RemoveRun(r)
    BY <1>4
  <2>2. /\ cleaner'.now = cleaner.now /\ cleaner'.at = "judge"
        /\ cleaner'.task = cleaner.task /\ cleaner'.left = cleaner.left
        /\ cleaner'.expired \subseteq cleaner.expired
    BY <2>1, <1>a DEF RemoveRun, CleanerType
  <2>3. QED
    BY <1>a, <1>b, <2>2 DEF WalkInv
<1>5. CASE CheckTaskRoot
  <2>1. /\ cleaner'.now = cleaner.now /\ cleaner'.task = cleaner.task
        /\ cleaner'.left = {} /\ cleaner'.expired = {}
        /\ cleaner'.removed = cleaner.removed
        /\ cleaner'.at = IF MayPrune THEN "prune" ELSE "tasks"
    BY <1>5, <1>a DEF CheckTaskRoot, CleanerType
  <2>2. QED
    BY <1>a, <1>b, <2>1 DEF WalkInv, MayPrune
<1>6. CASE PruneTaskRoot
  <2>1. /\ cleaner'.now = cleaner.now /\ cleaner'.task = cleaner.task
        /\ cleaner'.left = cleaner.left /\ cleaner'.expired = cleaner.expired
        /\ cleaner.at = "prune" /\ cleaner'.at = "tasks"
    BY <1>6, <1>a DEF PruneTaskRoot, CleanerType
  <2>2. QED
    BY <1>a, <1>b, <2>1 DEF WalkInv
<1>7. CASE EndCleanup
  BY <1>7, <1>a, <1>b DEF EndCleanup, Idle, WalkInv
<1>8. QED
  BY <1>1, <1>2, <1>3, <1>4, <1>5, <1>6, <1>7 DEF Clean

LEMMA CleanKeepsStore ==
  ASSUME StoreInv, Clean
  PROVE  StoreInv'
<1>a. StoreTypeOK /\ ScanInv
  BY DEF StoreInv
<1>b. TaskIds' = TaskIds
  BY CleanTypes DEF TaskIds, TaskOf
<1>1. StoreTypeOK'
  BY <1>a, <1>b, CleanTypes DEF StoreTypeOK, CleanerType, ScanType, ReportType
<1>2. ScanInv'
  BY <1>a, CleanTypes DEF ScanInv
<1>3. QED
  BY <1>1, <1>2, CleanKeepsDir, CleanKeepsWalk DEF StoreInv

(***************************************************************************)
(* The scan only reads.                                                    *)
(***************************************************************************)
LEMMA ScanTypes ==
  ASSUME StoreInv, Scan
  PROVE  scan' \in ScanType /\ report' \in ReportType /\ ScanInv'
<1>a. /\ scan \in ScanType /\ report \in ReportType /\ clock \in Nat
      /\ root \subseteq TaskIds /\ dir \subseteq Runs /\ StoreTypeOK /\ ScanInv
  BY DEF StoreInv, StoreTypeOK
<1>b. TaskIds' = TaskIds
  <2>1. UNCHANGED setting
    BY DEF Scan, StartScan, ReadManifest, EndScan, ScanTaskRoot, ReadRunJson, ScanFrame
  <2>2. QED
    BY <2>1 DEF TaskIds, TaskOf
<1>1. CASE StartScan
  <2>1. NoReport \in ReportType
    BY DEF NoReport, NoEntry, ReportType
  <2>2. QED
    BY <1>1, <1>a, <1>b, <2>1 DEF StartScan, ScanIdle, ScanType, ReportType, ScanInv
<1>2. CASE \E t \in TaskIds : ScanTaskRoot(t)
  <2>1. PICK t \in TaskIds : ScanTaskRoot(t)
    BY <1>2
  <2>2. scan' \in ScanType /\ scan'.at = "walk"
    BY <2>1, <1>a, <1>b DEF ScanTaskRoot, ScanType
  <2>3. report' \in ReportType
    BY <2>1, <1>a, <1>b DEF ScanTaskRoot, ReportType
  <2>4. QED
    BY <2>2, <2>3 DEF ScanInv
<1>3. CASE \E r \in Runs : ReadRunJson(r)
  <2>1. PICK r \in Runs : ReadRunJson(r)
    BY <1>3
  <2>2. Age(r, scan.now) \in Int
    BY <1>a, AgeTyped DEF ScanType
  <2>3. (IF Age(r, scan.now) < 0 THEN 0 ELSE Age(r, scan.now)) \in Nat
    BY <2>2
  <2>4. scan' \in ScanType /\ scan'.run = r
    BY <2>1, <2>3, <1>a, <1>b DEF ReadRunJson, ScanType
  <2>5. UNCHANGED report
    BY <2>1 DEF ReadRunJson
  <2>6. QED
    BY <1>a, <1>b, <2>4, <2>5 DEF ScanInv, ReportType
<1>4. CASE ReadManifest
  <2> DEFINE m == manifest[scan.run]
             entry == [status |-> ReadinessStatus(scan.runJson, m, scan.age),
                       terminal |-> TerminalStatus(m)]
  <2>1. entry \in [status : {"none", "malformed", "stale", "ok"}, terminal : BOOLEAN]
    BY DEF ReadinessStatus, TerminalStatus
  <2>2. scan.run \in Runs
    BY <1>4, <1>a DEF ReadManifest, ScanInv
  <2>3. report' = [report EXCEPT !.entries[scan.run] = entry]
    BY <1>4 DEF ReadManifest
  <2> HIDE DEF entry
  <2>4. report' \in ReportType
    BY <1>a, <1>b, <2>1, <2>2, <2>3 DEF ReportType
  <2>5. scan' \in ScanType /\ scan'.at = "walk"
    BY <1>4, <1>a, <1>b DEF ReadManifest, ScanType
  <2>6. QED
    BY <2>4, <2>5 DEF ScanInv
<1>5. CASE EndScan
  BY <1>5, <1>a, <1>b DEF EndScan, ScanIdle, ScanType, ReportType, ScanInv
<1>6. QED
  BY <1>1, <1>2, <1>3, <1>4, <1>5 DEF Scan

LEMMA ScanKeepsStore ==
  ASSUME StoreInv, Scan
  PROVE  StoreInv'
<1>a. StoreTypeOK /\ WalkInv /\ \A q \in Runs : DirInv(q) /\ LimitInv(q)
  BY DEF StoreInv
<1>b. UNCHANGED <<setting, clock, root, dir, born, created, manifest, run, cleaner>>
  BY DEF Scan, StartScan, ReadManifest, EndScan, ScanTaskRoot, ReadRunJson, ScanFrame
<1>c. TaskIds' = TaskIds /\ (\A q : TaskOf(q)' = TaskOf(q))
  BY <1>b DEF TaskIds, TaskOf
<1>1. StoreTypeOK'
  BY <1>a, <1>b, <1>c, ScanTypes DEF StoreTypeOK, CleanerType, ScanType, ReportType
<1>2. WalkInv'
  BY <1>a, <1>b, <1>c DEF WalkInv
<1>3. \A q \in Runs : DirInv(q)' /\ LimitInv(q)'
  BY <1>a, <1>b, <1>c DEF DirInv, LimitInv, Ended, Started
<1>4. QED
  BY <1>1, <1>2, <1>3, ScanTypes DEF StoreInv

LEMMA TickKeepsStore ==
  ASSUME StoreInv, Tick
  PROVE  StoreInv'
<1>a. /\ StoreTypeOK /\ WalkInv /\ ScanInv /\ clock \in Nat
      /\ born \in [Runs -> Times] /\ created \in [Runs -> Times]
      /\ cleaner \in CleanerType /\ RunLimit \in Nat
      /\ \A q \in Runs : DirInv(q) /\ LimitInv(q)
  BY StoreAssumption DEF StoreInv, StoreTypeOK
<1>b. /\ UNCHANGED <<setting, root, dir, born, created, manifest, run, cleaner,
                     scan, report>>
      /\ clock' = clock + 1
  BY DEF Tick, files
<1>c. TaskIds' = TaskIds /\ (\A q : TaskOf(q)' = TaskOf(q))
  BY <1>b DEF TaskIds, TaskOf
<1>1. StoreTypeOK'
  BY <1>a, <1>b, <1>c DEF StoreTypeOK, CleanerType, ScanType, ReportType
<1>2. WalkInv' /\ ScanInv'
  BY <1>a, <1>b, <1>c DEF WalkInv, ScanInv, CleanerType
<1>3. ASSUME NEW q \in Runs PROVE DirInv(q)' /\ LimitInv(q)'
  <2>1. DirInv(q)'
    BY <1>a, <1>b, <1>c DEF DirInv, Ended, Times, Never
  <2>2. Started(q) => clock < born[q] + RunLimit
    BY DEF Tick
  <2>3. LimitInv(q)'
    BY <1>a, <1>b, <2>2 DEF LimitInv, Started, Times, Never
  <2>4. QED
    BY <2>1, <2>3
<1>4. QED
  BY <1>1, <1>2, <1>3 DEF StoreInv

(***************************************************************************)
(* The directory of runs stays in order under runs, cleanup and scans that *)
(* know nothing of each other.                                             *)
(***************************************************************************)
THEOREM StoreInvariance == Spec => []StoreInv
<1>1. Init => StoreInv
  <2> SUFFICES ASSUME Init PROVE StoreInv
    OBVIOUS
  <2>1. StoreTypeOK
    BY DEF Init, StoreTypeOK, Times, Never, ManifestStates, RunStages, Idle,
           CleanerType, ScanIdle, ScanType, NoReport, NoEntry, ReportType
  <2>2. WalkInv /\ ScanInv
    BY DEF Init, WalkInv, ScanInv, Idle, ScanIdle
  <2>3. \A r \in Runs : DirInv(r) /\ LimitInv(r)
    BY DEF Init, DirInv, LimitInv, Started, Never
  <2>4. QED
    BY <2>1, <2>2, <2>3 DEF StoreInv
<1>2. StoreInv /\ [Next]_storeVars => StoreInv'
  <2>1. CASE UNCHANGED storeVars
    BY <2>1 DEF storeVars, StoreInv, StoreTypeOK, WalkInv, ScanInv, DirInv, LimitInv,
       CleanerType, ScanType, ReportType, TaskIds, TaskOf, Ended, Started
  <2>2. QED
    BY <2>1, RunKeepsStore, CleanKeepsStore, ScanKeepsStore, TickKeepsStore DEF Next
<1>3. QED
  BY <1>1, <1>2, PTL DEF Spec

-----------------------------------------------------------------------------
(***************************************************************************)
(* The scan calls a run ended, stale or healthy only when its container    *)
(* has ended, though it reads the files one by one while runs write them   *)
(* and cleanup removes them.                                               *)
(***************************************************************************)
THEOREM VerdictSafety == Spec => []VerdictNeedsEnd
<1>1. Init => VerdictNeedsEnd
  BY DEF Init, VerdictNeedsEnd, NoReport, NoEntry
<1>2. StoreInv /\ VerdictNeedsEnd /\ [Next]_storeVars => VerdictNeedsEnd'
  <2> SUFFICES ASSUME StoreInv, VerdictNeedsEnd, [Next]_storeVars, NEW q \in Runs,
                      \/ report.entries[q].terminal'
                      \/ report.entries[q].status' \in {"ok", "stale"}
               PROVE  Ended(q)'
    BY DEF VerdictNeedsEnd
  <2>a. run \in [Runs -> RunStages] /\ report \in ReportType
    BY DEF StoreInv, StoreTypeOK
  <2>1. Ended(q) => Ended(q)'
    <3>1. ASSUME NEW r \in Runs, RunStep(r) PROVE Ended(q) => Ended(q)'
      BY <2>a, <3>1 DEF RunStep, MakeTaskRoot, MakeRunDir, WriteRunJson,
         TruncateManifest, FillManifest, Return, Crash, Stage, Ended
    <3>2. UNCHANGED run \/ \E r \in Runs : RunStep(r)
      BY DEF Next, storeVars, Tick, Clean, StartCleanup, CheckTaskRoot, PruneTaskRoot,
         EndCleanup, ListTaskRoot, JudgeRun, RemoveRun, CleanFrame, Scan, StartScan,
         ReadManifest, EndScan, ScanTaskRoot, ReadRunJson, ScanFrame
    <3>3. QED
      BY <3>1, <3>2 DEF Ended
  <2>2. CASE ReadManifest /\ q = scan.run
    <3> DEFINE m == manifest[q]
    <3>1. /\ report'.entries[q].status = ReadinessStatus(scan.runJson, m, scan.age)
          /\ report'.entries[q].terminal = TerminalStatus(m)
      BY <2>2, <2>a DEF ReadManifest, ReportType
    <3>2. m # "none"
      BY <3>1 DEF ReadinessStatus, TerminalStatus, Readable
    <3>3. Ended(q)
      BY <3>2 DEF StoreInv, DirInv
    <3>4. QED
      BY <2>1, <3>3
  <2>3. CASE StartScan
    BY <2>3 DEF StartScan, NoReport, NoEntry
  <2>4. CASE ~StartScan /\ ~(ReadManifest /\ q = scan.run)
    <3>1. report'.entries[q] = report.entries[q]
      <4>1. CASE ReadManifest
        BY <2>a, <2>4, <4>1 DEF ReadManifest, ReportType
      <4>2. CASE \E t \in TaskIds : ScanTaskRoot(t)
        BY <2>a, <4>2 DEF ScanTaskRoot, ReportType
      <4>3. CASE UNCHANGED report
        BY <4>3
      <4>4. QED
        BY <2>4, <4>1, <4>2, <4>3 DEF Next, storeVars, Tick, Clean, StartCleanup,
           CheckTaskRoot, PruneTaskRoot, EndCleanup, ListTaskRoot, JudgeRun,
           RemoveRun, CleanFrame, Scan, EndScan, ReadRunJson, RunStep, MakeTaskRoot,
           MakeRunDir, WriteRunJson, TruncateManifest, FillManifest, Return, Crash,
           RunFrame
    <3>2. QED
      BY <2>1, <3>1 DEF VerdictNeedsEnd
  <2>5. QED
    BY <2>2, <2>3, <2>4
<1>3. QED
  BY <1>1, <1>2, StoreInvariance, PTL DEF Spec

(***************************************************************************)
(* What one step of cleanup does to its lists.                             *)
(***************************************************************************)
LEMMA CleanerSteps ==
  ASSUME StoreInv, Clean
  PROVE  \/ StartCleanup \/ CheckTaskRoot \/ PruneTaskRoot \/ EndCleanup
         \/ \E t \in TaskIds :
              /\ ListTaskRoot(t) /\ cleaner.at = "tasks" /\ t \in cleaner.tasks
              /\ cleaner'.at = (IF t \in root THEN "judge" ELSE "tasks")
              /\ cleaner'.now = cleaner.now /\ cleaner'.tasks = cleaner.tasks \ {t}
              /\ cleaner'.task = t /\ cleaner'.expired = {} /\ ~cleaner'.removed
              /\ cleaner'.left = {r \in dir : TaskOf(r) = t /\ t \in root}
         \/ \E r \in Runs :
              /\ JudgeRun(r) /\ cleaner.at = "judge" /\ r \in cleaner.left
              /\ cleaner'.at = "judge" /\ cleaner'.now = cleaner.now
              /\ cleaner'.tasks = cleaner.tasks /\ cleaner'.task = cleaner.task
              /\ cleaner'.left = cleaner.left \ {r}
              /\ cleaner'.removed = cleaner.removed
              /\ cleaner'.expired = IF r \in dir /\ Expired(r)
                                    THEN cleaner.expired \cup {r} ELSE cleaner.expired
         \/ \E r \in Runs :
              /\ RemoveRun(r) /\ cleaner.at = "judge" /\ r \in cleaner.expired
              /\ cleaner'.at = "judge" /\ cleaner'.now = cleaner.now
              /\ cleaner'.tasks = cleaner.tasks /\ cleaner'.task = cleaner.task
              /\ cleaner'.left = cleaner.left /\ cleaner'.removed
              /\ cleaner'.expired = cleaner.expired \ {r}
<1>a. cleaner \in CleanerType
  BY DEF StoreInv, StoreTypeOK
<1>1. ASSUME NEW t \in TaskIds, ListTaskRoot(t)
      PROVE  /\ cleaner.at = "tasks" /\ t \in cleaner.tasks
             /\ cleaner'.at = (IF t \in root THEN "judge" ELSE "tasks")
             /\ cleaner'.now = cleaner.now /\ cleaner'.tasks = cleaner.tasks \ {t}
             /\ cleaner'.task = t /\ cleaner'.expired = {} /\ ~cleaner'.removed
             /\ cleaner'.left = {r \in dir : TaskOf(r) = t /\ t \in root}
  BY <1>a, <1>1 DEF ListTaskRoot, CleanerType
<1>2. ASSUME NEW r \in Runs, JudgeRun(r)
      PROVE  /\ cleaner.at = "judge" /\ r \in cleaner.left
             /\ cleaner'.at = "judge" /\ cleaner'.now = cleaner.now
             /\ cleaner'.tasks = cleaner.tasks /\ cleaner'.task = cleaner.task
             /\ cleaner'.left = cleaner.left \ {r}
             /\ cleaner'.removed = cleaner.removed
             /\ cleaner'.expired = IF r \in dir /\ Expired(r)
                                   THEN cleaner.expired \cup {r} ELSE cleaner.expired
  BY <1>a, <1>2 DEF JudgeRun, CleanerType
<1>3. ASSUME NEW r \in Runs, RemoveRun(r)
      PROVE  /\ cleaner.at = "judge" /\ r \in cleaner.expired
             /\ cleaner'.at = "judge" /\ cleaner'.now = cleaner.now
             /\ cleaner'.tasks = cleaner.tasks /\ cleaner'.task = cleaner.task
             /\ cleaner'.left = cleaner.left /\ cleaner'.removed
             /\ cleaner'.expired = cleaner.expired \ {r}
  BY <1>a, <1>3 DEF RemoveRun, CleanerType
<1>4. QED
  BY <1>1, <1>2, <1>3 DEF Clean

(***************************************************************************)
(* A run that is over and old stays so, and nothing is made younger.       *)
(***************************************************************************)
LEMMA OldStaysOver ==
  ASSUME StoreInv, [Next]_storeVars, NEW q \in Runs, OldAndOver(q),
         cleaner'.now = cleaner.now
  PROVE  OldAndOver(q)'
<1>a. run \in [Runs -> RunStages] /\ born \in [Runs -> Times]
  BY DEF StoreInv, StoreTypeOK
<1>1. ASSUME NEW r \in Runs, RunStep(r) PROVE run'[q] = run[q] /\ born'[q] = born[q]
  <2>1. CASE q # r
    BY <1>1, <2>1, RunStepFacts DEF StoreInv, SameStored
  <2>2. CASE q = r
    BY <1>1, <2>2 DEF OldAndOver, RunOver, RunStep, MakeTaskRoot, MakeRunDir,
       WriteRunJson, TruncateManifest, FillManifest, Return, Crash, Stage
  <2>3. QED
    BY <2>1, <2>2
<1>2. CASE ~(\E r \in Runs : RunStep(r))
  BY <1>2, CleanTypes DEF Next, storeVars, Tick, files, Scan, StartScan,
     ReadManifest, EndScan, ScanTaskRoot, ReadRunJson, ScanFrame, OldAndOver
<1>3. QED
  BY <1>1, <1>2 DEF OldAndOver

LEMMA RemovalInductive ==
  ASSUME RunLimit < Ttl, StoreInv, RemovalInv, [Next]_storeVars
  PROVE  RemovalInv'
<1>a. /\ StoreTypeOK /\ WalkInv /\ cleaner \in CleanerType /\ clock \in Nat
      /\ born \in [Runs -> Times] /\ created \in [Runs -> Times]
      /\ run \in [Runs -> RunStages] /\ Ttl \in Nat /\ RunLimit \in Nat
      /\ \A q \in Runs : DirInv(q) /\ LimitInv(q)
  BY StoreAssumption DEF StoreInv, StoreTypeOK
<1> DEFINE Doomed(q) == q \in dir /\ Age(q, cleaner.now) >= Ttl /\ OldAndOver(q)
           Taken(t)  == \E q \in setting.runs :
                          q \in Runs /\ TaskOf(q) = t /\ OldAndOver(q)
<1>b. \A q : TaskOf(q)' = TaskOf(q)
  BY CleanTypes DEF TaskOf, Next, storeVars, Tick, Scan, StartScan, ReadManifest,
     EndScan, ScanTaskRoot, ReadRunJson, ScanFrame, RunStep, MakeTaskRoot,
     MakeRunDir, WriteRunJson, TruncateManifest, FillManifest, Return, Crash, RunFrame
<1>c. UNCHANGED setting
  BY CleanTypes DEF Next, storeVars, Tick, Scan, StartScan, ReadManifest,
     EndScan, ScanTaskRoot, ReadRunJson, ScanFrame, RunStep, MakeTaskRoot,
     MakeRunDir, WriteRunJson, TruncateManifest, FillManifest, Return, Crash, RunFrame
<1>d. ASSUME cleaner'.now = cleaner.now, NEW t, Taken(t) PROVE Taken(t)'
  BY <1>b, <1>c, <1>d, OldStaysOver
<1>1. CASE ~Clean
  <2>1. UNCHANGED cleaner
    BY <1>1 DEF Next, storeVars, Tick, Scan, StartScan, ReadManifest, EndScan,
       ScanTaskRoot, ReadRunJson, ScanFrame, RunStep, MakeTaskRoot, MakeRunDir,
       WriteRunJson, TruncateManifest, FillManifest, Return, Crash, RunFrame
  <2>2. ASSUME NEW q \in cleaner.expired PROVE Doomed(q)'
    <3>1. q \in Runs /\ Doomed(q)
      BY <1>a, <2>2 DEF RemovalInv, CleanerType
    <3>2. OldAndOver(q)'
      BY <2>1, <3>1, OldStaysOver
    <3>3. q \in dir' /\ born'[q] = born[q] /\ created'[q] = created[q]
      <4>1. ASSUME NEW r \in Runs, RunStep(r)
            PROVE  q \in dir' /\ born'[q] = born[q] /\ created'[q] = created[q]
        <5>1. CASE q # r
          BY <1>a, <3>1, <4>1, <5>1, RunStepFacts DEF SameStored
        <5>2. CASE q = r
          BY <3>1, <4>1, <5>2 DEF OldAndOver, RunOver, RunStep, MakeTaskRoot,
             MakeRunDir, WriteRunJson, TruncateManifest, FillManifest, Return,
             Crash, Stage
        <5>3. QED
          BY <5>1, <5>2
      <4>2. CASE ~(\E r \in Runs : RunStep(r))
        BY <1>1, <3>1, <4>2 DEF Next, storeVars, Tick, files, Scan, StartScan,
           ReadManifest, EndScan, ScanTaskRoot, ReadRunJson, ScanFrame
      <4>3. QED
        BY <4>1, <4>2
    <3>4. Age(q, cleaner.now)' = Age(q, cleaner.now)
      BY <2>1, <3>3 DEF Age
    <3>5. QED
      BY <3>1, <3>2, <3>3, <3>4
  <2>3. cleaner.removed => Taken(cleaner.task)'
    BY <1>d, <2>1 DEF RemovalInv
  <2>4. QED
    BY <2>1, <2>2, <2>3, <1>b DEF RemovalInv
<1>2. CASE StartCleanup \/ EndCleanup
  <2>1. cleaner'.expired = {} /\ cleaner'.removed = FALSE
    <3>1. CASE StartCleanup
      <4>1. cleaner'.expired = Idle.expired /\ cleaner'.removed = Idle.removed
        BY <3>1 DEF StartCleanup, Idle
      <4>2. QED
        BY <4>1 DEF Idle
    <3>2. CASE EndCleanup
      BY <3>2 DEF EndCleanup, Idle
    <3>3. QED
      BY <1>2, <3>1, <3>2
  <2>2. QED
    BY <2>1 DEF RemovalInv
<1>3. CASE CheckTaskRoot \/ PruneTaskRoot
  <2>1. /\ cleaner'.expired = {} /\ cleaner'.removed = cleaner.removed
        /\ cleaner'.now = cleaner.now /\ cleaner'.task = cleaner.task
    BY <1>3, <1>a DEF CheckTaskRoot, PruneTaskRoot, CleanerType, WalkInv
  <2>2. QED
    BY <1>b, <1>c, <1>d, <2>1 DEF RemovalInv
<1>4. ASSUME NEW t \in TaskIds, ListTaskRoot(t), cleaner'.expired = {}, ~cleaner'.removed
      PROVE  RemovalInv'
  BY <1>4 DEF RemovalInv
<1>5. ASSUME NEW r \in Runs, JudgeRun(r), cleaner'.now = cleaner.now,
             cleaner'.task = cleaner.task, cleaner'.removed = cleaner.removed,
             cleaner'.expired = IF r \in dir /\ Expired(r)
                                THEN cleaner.expired \cup {r} ELSE cleaner.expired
      PROVE  RemovalInv'
  <2>1. UNCHANGED <<dir, born, created, run, clock>>
    BY <1>5 DEF JudgeRun, CleanFrame, files
  <2>2. ASSUME r \in dir, Expired(r) PROVE Doomed(r)
    <3>1. born[r] # Never /\ born[r] + Ttl <= cleaner.now /\ cleaner.now <= clock
      <4>1. born[r] \in Nat /\ created[r] \in Times /\ cleaner.now \in Nat
        BY <1>a, <2>2 DEF DirInv, Times, CleanerType
      <4>2. created[r] # Never => born[r] <= created[r] /\ created[r] \in Nat
        BY <1>a DEF DirInv, Times
      <4>3. QED
        BY <1>a, <2>2, <4>1, <4>2 DEF Expired, Age, WalkInv, DirInv
    <3>2. born[r] \in Nat /\ cleaner.now \in Nat
      BY <1>a, <3>1 DEF Times, CleanerType
    <3>3. ~Started(r)
      BY <1>a, <3>1, <3>2 DEF LimitInv
    <3>4. run[r] \in RunOver
      BY <1>a, <2>2, <3>3 DEF DirInv, Started
    <3>5. QED
      BY <2>2, <3>1, <3>4 DEF OldAndOver, Expired
  <2>3. \A q \in cleaner'.expired : Doomed(q)
    BY <1>5, <2>2 DEF RemovalInv
  <2>4. \A q : Age(q, cleaner.now)' = Age(q, cleaner.now)
    BY <1>5, <2>1 DEF Age
  <2>5. \A q \in cleaner'.expired : Doomed(q)'
    BY <1>5, <2>1, <2>3, <2>4 DEF OldAndOver
  <2>6. cleaner.removed => Taken(cleaner.task)'
    BY <1>d, <1>5 DEF RemovalInv
  <2>7. QED
    BY <1>b, <1>5, <2>5, <2>6 DEF RemovalInv
<1>6. ASSUME NEW r \in Runs, RemoveRun(r), r \in cleaner.expired,
             cleaner'.now = cleaner.now, cleaner'.task = cleaner.task,
             cleaner'.expired = cleaner.expired \ {r}
      PROVE  RemovalInv'
  <2>1. /\ UNCHANGED <<born, run>> /\ dir' = dir \ {r}
        /\ \A q \in Runs \ {r} : created'[q] = created[q]
    BY <1>a, <1>6, RemoveFacts DEF RemoveRun, CleanFrame
  <2>2. \A q \in cleaner'.expired : q \in Runs /\ q # r /\ Doomed(q)
    BY <1>a, <1>6 DEF RemovalInv, CleanerType
  <2>3. \A q \in Runs \ {r} : Age(q, cleaner.now)' = Age(q, cleaner.now)
    BY <1>6, <2>1 DEF Age
  <2>4. \A q \in cleaner'.expired : Doomed(q)'
    BY <1>6, <2>1, <2>2, <2>3 DEF OldAndOver
  <2>5. Taken(cleaner.task)
    <3>1. OldAndOver(r) /\ TaskOf(r) = cleaner.task
      BY <1>a, <1>6 DEF RemovalInv, WalkInv
    <3>2. r \in setting.runs
      BY <1>a, <3>1 DEF DirInv, OldAndOver, RunOver
    <3>3. QED
      BY <3>1, <3>2
  <2>6. Taken(cleaner.task)'
    BY <1>d, <1>6, <2>5
  <2>7. QED
    BY <1>b, <1>6, <2>4, <2>6 DEF RemovalInv
<1>7. QED
  BY <1>1, <1>2, <1>3, <1>4, <1>5, <1>6, CleanerSteps

LEMMA RemovalInvariance ==
  ASSUME RunLimit < Ttl
  PROVE  Spec => [](StoreInv /\ RemovalInv)
<1>1. Init => RemovalInv
  BY DEF Init, RemovalInv, Idle
<1>2. StoreInv /\ RemovalInv /\ [Next]_storeVars => RemovalInv'
  BY RemovalInductive
<1>3. QED
  BY <1>1, <1>2, StoreInvariance, PTL DEF Spec

(***************************************************************************)
(* Whatever a step of cleanup removes was old, or appeared in the task     *)
(* directory after cleanup began: with a ttl longer than a run, no other   *)
(* directory is lost, though nothing is locked.                            *)
(***************************************************************************)
THEOREM LossesAreOld ==
  ASSUME RunLimit < Ttl
  PROVE  Spec => LossIsConfined
<1> DEFINE Confined == \A r \in dir \ dir' :
                         Age(r, cleaner.now) >= Ttl \/ born[r] >= cleaner.now
<1>1. ASSUME StoreInv, RemovalInv, [Next]_storeVars PROVE Confined
  <2>1. CASE ~Clean
    <3>1. dir \subseteq dir'
      BY <1>1, <2>1 DEF Next, storeVars, Tick, files, Scan, StartScan,
         ReadManifest, EndScan, ScanTaskRoot, ReadRunJson, ScanFrame, RunStep,
         MakeTaskRoot, MakeRunDir, WriteRunJson, TruncateManifest, FillManifest,
         Return, Crash
    <3>2. QED
      BY <3>1
  <2>2. CASE Clean
    <3>1. CASE \E r \in Runs : RemoveRun(r)
      <4>1. PICK r \in Runs : RemoveRun(r)
        BY <3>1
      <4>2. dir' = dir \ {r} /\ r \in cleaner.expired
        BY <4>1 DEF RemoveRun, Remove
      <4>3. QED
        BY <1>1, <4>2 DEF RemovalInv
    <3>2. CASE PruneTaskRoot
      <4>1. /\ cleaner.at = "prune"
            /\ dir' = dir \ {r \in Runs : TaskOf(r) = cleaner.task}
        BY <3>2 DEF PruneTaskRoot, Remove
      <4>2. QED
        BY <1>1, <4>1 DEF StoreInv, WalkInv
    <3>3. CASE UNCHANGED files
      BY <3>3 DEF files
    <3>4. QED
      BY <2>2, <3>1, <3>2, <3>3 DEF Clean, StartCleanup, CheckTaskRoot, EndCleanup,
         ListTaskRoot, JudgeRun
  <2>3. QED
    BY <2>1, <2>2
<1>2. StoreInv /\ RemovalInv /\ [Next]_storeVars => [Confined]_storeVars
  BY <1>1
<1>3. QED
  BY <1>2, RemovalInvariance, PTL DEF Spec, LossIsConfined

(***************************************************************************)
(* While a task has one run, the directory of a run that is younger than   *)
(* the ttl is there: cleanup does not take it, in whatever order the two   *)
(* work, if a run takes less than the ttl.                                 *)
(***************************************************************************)
THEOREM RecentSurvives ==
  ASSUME RunLimit < Ttl
  PROVE  Spec => []RecentIsKept
<1>1. Init => RecentIsKept
  BY DEF Init, RecentIsKept
<1>2. ASSUME StoreInv, RemovalInv, RecentIsKept, [Next]_storeVars PROVE RecentIsKept'
  <2> SUFFICES ASSUME NEW r \in Runs, born'[r] # Never, clock' < born'[r] + Ttl,
                      \A q \in setting.runs' : TaskOf(q)' = TaskOf(r)' => q = r
               PROVE  r \in dir'
    BY DEF RecentIsKept
  <2>a. /\ StoreTypeOK /\ WalkInv /\ clock \in Nat /\ born \in [Runs -> Times]
        /\ cleaner \in CleanerType /\ Ttl \in Nat /\ DirInv(r)
    BY <1>2, StoreAssumption DEF StoreInv, StoreTypeOK
  <2>1. UNCHANGED setting
    BY <1>2, CleanTypes DEF Next, storeVars, Tick, Scan, StartScan, ReadManifest,
       EndScan, ScanTaskRoot, ReadRunJson, ScanFrame, RunStep, MakeTaskRoot,
       MakeRunDir, WriteRunJson, TruncateManifest, FillManifest, Return, Crash, RunFrame
  <2>2. \A q \in setting.runs : TaskOf(q) = TaskOf(r) => q = r
    BY <2>1 DEF TaskOf
  <2>3. ASSUME born'[r] = born[r], clock' \in {clock, clock + 1} PROVE r \in dir
    <3>1. born[r] \in Int
      BY <2>a DEF Times, Never
    <3>2. clock < born[r] + Ttl
      BY <2>a, <2>3, <3>1
    <3>3. QED
      BY <1>2, <2>2, <2>3, <3>2 DEF RecentIsKept
  <2>4. CASE Clean
    <3>1. born' = born /\ clock' = clock
      BY <1>2, <2>4, CleanTypes
    <3>2. r \in dir /\ clock < born[r] + Ttl
      BY <2>a, <2>3, <3>1
    <3>3. ~OldAndOver(r)
      BY <2>a, <3>2, <3>1 DEF OldAndOver, WalkInv, CleanerType, Times
    <3>4. CASE \E q \in Runs : RemoveRun(q)
      <4>1. PICK q \in Runs : RemoveRun(q)
        BY <3>4
      <4>2. dir' = dir \ {q} /\ OldAndOver(q)
        BY <1>2, <4>1 DEF RemoveRun, Remove, RemovalInv
      <4>3. QED
        BY <3>2, <3>3, <4>2
    <3>5. CASE PruneTaskRoot
      <4>1. cleaner.removed /\ dir' = dir \ {q \in Runs : TaskOf(q) = cleaner.task}
        BY <2>a, <3>5 DEF PruneTaskRoot, Remove, WalkInv
      <4>2. PICK q \in setting.runs : TaskOf(q) = cleaner.task /\ OldAndOver(q)
        BY <1>2, <4>1 DEF RemovalInv
      <4>3. TaskOf(r) # cleaner.task
        BY <2>2, <3>3, <4>2
      <4>4. QED
        BY <3>2, <4>1, <4>3
    <3>6. CASE UNCHANGED files
      BY <3>2, <3>6 DEF files
    <3>7. QED
      BY <2>4, <3>4, <3>5, <3>6 DEF Clean, StartCleanup, CheckTaskRoot, EndCleanup,
         ListTaskRoot, JudgeRun
  <2>5. CASE \E q \in Runs : RunStep(q)
    <3>1. PICK q \in Runs : RunStep(q)
      BY <2>5
    <3>2. clock' = clock /\ dir \subseteq dir'
      BY <2>a, <3>1, RunStepFacts
    <3>3. born'[r] = born[r] \/ r \in dir'
      <4>1. CASE q # r
        BY <2>a, <3>1, <4>1, RunStepFacts DEF SameStored
      <4>2. CASE q = r
        BY <3>1, <4>2 DEF RunStep, MakeTaskRoot, MakeRunDir, WriteRunJson,
           TruncateManifest, FillManifest, Return, Crash, Stage, files
      <4>3. QED
        BY <4>1, <4>2
    <3>4. QED
      BY <2>a, <2>3, <3>2, <3>3
  <2>6. CASE ~Clean /\ ~(\E q \in Runs : RunStep(q))
    <3>1. UNCHANGED <<dir, born>> /\ clock' \in {clock, clock + 1}
      BY <1>2, <2>6 DEF Next, storeVars, Tick, files, Scan, StartScan,
         ReadManifest, EndScan, ScanTaskRoot, ReadRunJson, ScanFrame
    <3>2. QED
      BY <2>3, <3>1
  <2>7. QED
    BY <2>4, <2>5, <2>6
<1>3. StoreInv /\ RemovalInv /\ RecentIsKept /\ [Next]_storeVars => RecentIsKept'
  BY <1>2
<1>4. QED
  BY <1>1, <1>3, RemovalInvariance, PTL DEF Spec


(***************************************************************************)
(* A directory that is on no list of the command, and a run's own step:    *)
(* what it makes or dates is dated now, which is not before the command.   *)
(***************************************************************************)
LEMMA RunKeepsListed ==
  ASSUME Ttl > 0, StoreInv, ListedInv, NEW r \in Runs, RunStep(r)
  PROVE  ListedInv'
<1>a. /\ StoreTypeOK /\ WalkInv /\ clock \in Nat /\ cleaner \in CleanerType
      /\ born \in [Runs -> Times] /\ created \in [Runs -> Times]
      /\ dir \subseteq Runs /\ Ttl \in Nat
      /\ \A q \in Runs : DirInv(q)
  BY StoreAssumption DEF StoreInv, StoreTypeOK
<1>b. /\ UNCHANGED <<setting, clock, cleaner, scan, report>>
      /\ dir' \in {dir, dir \cup {r}}
      /\ \A q \in Runs : q # r => SameStored(q)
  BY <1>a, RunStepFacts
<1>c. cleaner.now \in Nat /\ cleaner.now <= clock
  BY <1>a DEF CleanerType, WalkInv
<1>1. ASSUME NEW q \in dir', Age(q, cleaner.now)' >= Ttl
      PROVE  q \in dir /\ Age(q, cleaner.now) >= Ttl
  <2>1. CASE q # r
    BY <1>a, <1>b, <1>1, <2>1 DEF SameStored, Age
  <2>2. CASE q = r
    <3>1. \/ r \in dir /\ born'[r] = born[r] /\ created'[r] = created[r]
          \/ created'[r] = clock
          \/ born'[r] = clock /\ r \notin dir /\ created'[r] = created[r]
      BY <1>a, <1>1, <2>2 DEF RunStep, MakeTaskRoot, MakeRunDir, WriteRunJson,
         TruncateManifest, FillManifest, Return, Crash, Stage, files, DirInv
    <3>2. CASE r \in dir /\ born'[r] = born[r] /\ created'[r] = created[r]
      BY <1>b, <1>1, <2>2, <3>2 DEF Age
    <3>3. CASE created'[r] = clock
      <4>1. Age(r, cleaner.now)' = cleaner.now - clock
        BY <1>a, <1>b, <3>3 DEF Age, Never
      <4>2. QED
        BY <1>a, <1>c, <1>1, <2>2, <4>1
    <3>4. CASE born'[r] = clock /\ r \notin dir /\ created'[r] = created[r]
      <4>1. created[r] = Never
        BY <1>a, <3>4 DEF DirInv
      <4>2. Age(r, cleaner.now)' = cleaner.now - clock
        BY <1>b, <3>4, <4>1 DEF Age
      <4>3. QED
        BY <1>a, <1>c, <1>1, <2>2, <4>2
    <3>5. QED
      BY <3>1, <3>2, <3>3, <3>4
  <2>3. QED
    BY <2>1, <2>2
<1>2. \A q : Listed(q)' <=> Listed(q)
  BY <1>b DEF Listed, TaskOf
<1>3. QED
  BY <1>b, <1>1, <1>2 DEF ListedInv

LEMMA CleanKeepsListed ==
  ASSUME Ttl > 0, StoreInv, ListedInv, Clean
  PROVE  ListedInv'
<1>a. /\ StoreTypeOK /\ WalkInv /\ cleaner \in CleanerType
      /\ dir \subseteq Runs /\ (\A q \in Runs : DirInv(q))
  BY DEF StoreInv, StoreTypeOK
<1>b. /\ UNCHANGED <<setting, clock, run, scan, report, born>>
      /\ dir' \subseteq dir
  BY CleanTypes
<1>c. \A q : TaskOf(q)' = TaskOf(q)
  BY <1>b DEF TaskOf
<1>d. ASSUME cleaner.at # "idle", cleaner'.now = cleaner.now, NEW q \in dir',
             created'[q] = created[q], Age(q, cleaner.now)' >= Ttl
      PROVE  Listed(q) /\ Expired(q) /\ TaskOf(q) \in root /\ q \in Runs
  <2>1. Age(q, cleaner.now)' = Age(q, cleaner.now)
    BY <1>b, <1>d DEF Age
  <2>2. q \in dir
    BY <1>b
  <2>3. QED
    BY <1>a, <1>d, <2>1, <2>2 DEF ListedInv, Expired, DirInv
<1>1. CASE StartCleanup
  <2>1. cleaner'.tasks = root /\ UNCHANGED files
    BY <1>1 DEF StartCleanup, Idle
  <2>2. QED
    BY <1>a, <1>c, <2>1 DEF ListedInv, Listed, files, DirInv
<1>2. CASE EndCleanup
  BY <1>2 DEF EndCleanup, Idle, ListedInv
<1>3. CASE CheckTaskRoot
  <2>1. /\ cleaner.at = "judge" /\ cleaner.left = {} /\ cleaner.expired = {}
        /\ cleaner'.now = cleaner.now /\ cleaner'.tasks = cleaner.tasks
        /\ UNCHANGED files
    BY <1>a, <1>3 DEF CheckTaskRoot, CleanerType
  <2>2. ASSUME NEW q \in dir', Age(q, cleaner.now)' >= Ttl PROVE Listed(q)'
    BY <1>c, <1>d, <2>1, <2>2 DEF files, Listed
  <2>3. QED
    BY <2>2, <2>1 DEF ListedInv
<1>4. CASE PruneTaskRoot
  <2> DEFINE gone == {q \in Runs : TaskOf(q) = cleaner.task}
  <2>1. /\ cleaner.at = "prune" /\ Remove(gone)
        /\ cleaner'.now = cleaner.now /\ cleaner'.tasks = cleaner.tasks
    BY <1>a, <1>4 DEF PruneTaskRoot, CleanerType
  <2>2. dir' = dir \ gone /\ \A q \in Runs \ gone : created'[q] = created[q]
    BY <1>a, <2>1, RemoveFacts
  <2>3. ASSUME NEW q \in dir', Age(q, cleaner.now)' >= Ttl PROVE Listed(q)'
    <3>1. created'[q] = created[q]
      BY <1>a, <2>2
    <3>2. TaskOf(q) \in cleaner.tasks
      BY <1>d, <2>1, <2>3, <3>1 DEF Listed
    <3>3. QED
      BY <1>c, <2>1, <3>2 DEF Listed
  <2>4. QED
    BY <2>1, <2>3 DEF ListedInv
<1>5. ASSUME NEW t \in TaskIds, ListTaskRoot(t), cleaner.at = "tasks",
             cleaner'.at = (IF t \in root THEN "judge" ELSE "tasks"),
             cleaner'.now = cleaner.now, cleaner'.tasks = cleaner.tasks \ {t},
             cleaner'.left = {r \in dir : TaskOf(r) = t /\ t \in root}
      PROVE  ListedInv'
  <2>1. UNCHANGED files
    BY <1>5 DEF ListTaskRoot
  <2>2. ASSUME NEW q \in dir', Age(q, cleaner.now)' >= Ttl PROVE Listed(q)'
    <3>1. TaskOf(q) \in cleaner.tasks /\ TaskOf(q) \in root /\ q \in dir
      BY <1>d, <1>5, <2>1, <2>2 DEF files, Listed
    <3>2. QED
      BY <1>c, <1>5, <3>1 DEF Listed
  <2>3. QED
    BY <2>2 DEF ListedInv
<1>6. ASSUME NEW r \in Runs, JudgeRun(r), cleaner.at = "judge",
             cleaner'.at = "judge", cleaner'.now = cleaner.now,
             cleaner'.tasks = cleaner.tasks, cleaner'.left = cleaner.left \ {r},
             cleaner'.expired = IF r \in dir /\ Expired(r)
                                THEN cleaner.expired \cup {r} ELSE cleaner.expired
      PROVE  ListedInv'
  <2>1. UNCHANGED files
    BY <1>6 DEF JudgeRun
  <2>2. ASSUME NEW q \in dir', Age(q, cleaner.now)' >= Ttl PROVE Listed(q)'
    <3>1. Listed(q) /\ Expired(q) /\ q \in dir
      BY <1>d, <1>6, <2>1, <2>2 DEF files
    <3>2. QED
      BY <1>c, <1>6, <3>1 DEF Listed
  <2>3. QED
    BY <2>2 DEF ListedInv
<1>7. ASSUME NEW r \in Runs, RemoveRun(r), cleaner.at = "judge",
             cleaner'.at = "judge", cleaner'.now = cleaner.now,
             cleaner'.tasks = cleaner.tasks, cleaner'.left = cleaner.left,
             cleaner'.expired = cleaner.expired \ {r}
      PROVE  ListedInv'
  <2>1. dir' = dir \ {r} /\ \A q \in Runs \ {r} : created'[q] = created[q]
    BY <1>a, <1>7, RemoveFacts DEF RemoveRun
  <2>2. ASSUME NEW q \in dir', Age(q, cleaner.now)' >= Ttl PROVE Listed(q)'
    <3>1. q # r /\ Listed(q)
      BY <1>a, <1>d, <1>7, <2>1, <2>2
    <3>2. QED
      BY <1>c, <1>7, <3>1 DEF Listed
  <2>3. QED
    BY <2>2 DEF ListedInv
<1>8. QED
  BY <1>1, <1>2, <1>3, <1>4, <1>5, <1>6, <1>7, CleanerSteps

(***************************************************************************)
(* When cleanup has walked its list, every directory that was as old as    *)
(* the ttl when it began is gone, whatever the runs did meanwhile.         *)
(***************************************************************************)
THEOREM CleanupCompletes ==
  ASSUME Ttl > 0
  PROVE  Spec => []CleanupIsComplete
<1>1. Init => ListedInv
  BY DEF Init, ListedInv
<1>2. ASSUME StoreInv, ListedInv, [Next]_storeVars PROVE ListedInv'
  <2>1. CASE Clean
    BY <1>2, <2>1, CleanKeepsListed
  <2>2. CASE \E r \in Runs : RunStep(r)
    BY <1>2, <2>2, RunKeepsListed
  <2>3. CASE ~Clean /\ ~(\E r \in Runs : RunStep(r))
    <3>1. UNCHANGED <<setting, dir, born, created, cleaner>>
      BY <1>2, <2>3 DEF Next, storeVars, Tick, files, Scan, StartScan,
         ReadManifest, EndScan, ScanTaskRoot, ReadRunJson, ScanFrame
    <3>2. QED
      BY <1>2, <3>1 DEF ListedInv, Listed, Age, TaskOf
  <2>4. QED
    BY <2>1, <2>2, <2>3
<1>3. StoreInv /\ ListedInv => CleanupIsComplete
  <2> SUFFICES ASSUME StoreInv, ListedInv, cleaner.at = "tasks", cleaner.tasks = {},
                      NEW r \in dir
               PROVE  Age(r, cleaner.now) < Ttl
    BY DEF CleanupIsComplete
  <2>1. r \in Runs /\ cleaner.now \in Nat /\ Ttl \in Nat
    BY StoreAssumption DEF StoreInv, StoreTypeOK, CleanerType
  <2>2. Age(r, cleaner.now) \in Int
    BY <2>1, AgeTyped DEF StoreInv
  <2>3. ~(Age(r, cleaner.now) >= Ttl)
    BY DEF ListedInv, Listed
  <2>4. QED
    BY <2>1, <2>2, <2>3
<1>4. StoreInv /\ ListedInv /\ [Next]_storeVars => ListedInv'
  BY <1>2
<1>5. QED
  BY <1>1, <1>3, <1>4, StoreInvariance, PTL DEF Spec
=============================================================================
