------------------------------ MODULE RunStore ------------------------------
(***************************************************************************)
(* The directory of runs, <root>/<safeTaskId>/<runToken>, and the three    *)
(* processes that work on it without a lock: runs, which make their        *)
(* directory, write run.json and later the manifest (runner.ts); the       *)
(* cleanup command, which decides by age and removes afterwards (ops.ts);  *)
(* and the scans, which read each run's files one after the other          *)
(* (scanner.ts).  Every file operation is a step of its own.               *)
(***************************************************************************)
EXTENDS Integers, FiniteSets

CONSTANTS
  Runs,
  Ttl,          \* cleanup --ttl
  StaleAge,     \* staleThresholdMs of the readiness scan
  RunLimit,     \* by when a run has ended: its timeout and what follows it
  Settings,     \* which runs the broker starts of which tasks, and what
                \* the operator calls
  MaxTime       \* bound: the last moment considered

Calls == {"cleanup", "scan"}

ASSUME StoreAssumption ==
  /\ {Ttl, StaleAge, RunLimit, MaxTime} \subseteq Nat
  /\ \A s \in Settings :
       /\ DOMAIN s.task = Runs /\ s.runs \subseteq Runs /\ s.calls \subseteq Calls

VARIABLES
  setting,      \* one of Settings; the broker may run a task again
  clock,
  root,       \* which task directories exist
  dir,        \* which run directories exist
  born,       \* when each run directory was made (its mtime)
  created,    \* createdAt in run.json; Never when there is no run.json
  manifest,   \* what artifacts/manifest.json holds
  run,        \* where each run is
  cleaner,    \* the cleanup command
  scan,       \* the readiness scan and the history scan, one walk
  report      \* what the last scan said of each run

storeVars == <<setting, clock, root, dir, born, created, manifest, run, cleaner, scan, report>>
files == <<root, dir, born, created, manifest>>

TaskOf(r) == setting.task[r]
TaskIds == {TaskOf(r) : r \in Runs}

Never == -1

(***************************************************************************)
(* The manifest is rewritten in place: a reader may find it cut short.     *)
(***************************************************************************)
ManifestStates == {"none", "partial", "done", "failed", "budget_limited"}

RunStages == {"new", "rooted", "made", "working", "writing", "settling",
              "returned", "rejected", "crashed"}
RunOver == {"returned", "rejected", "crashed"}

Idle == [at |-> "idle", now |-> 0, tasks |-> {}, task |-> "none", left |-> {},
         expired |-> {}, removed |-> FALSE, kept |-> FALSE]

ScanIdle == [at |-> "idle", now |-> 0, tasks |-> {}, left |-> {},
             run |-> "none", age |-> 0, runJson |-> FALSE]

NoEntry == [status |-> "none", terminal |-> FALSE]
NoReport == [entries |-> [r \in Runs |-> NoEntry], orphans |-> {}]

Init ==
  /\ setting \in Settings
  /\ clock = 0
  /\ root = {} /\ dir = {}
  /\ born = [r \in Runs |-> Never] /\ created = [r \in Runs |-> Never]
  /\ manifest = [r \in Runs |-> "none"]
  /\ run = [r \in Runs |-> "new"]
  /\ cleaner = Idle /\ scan = ScanIdle
  /\ report = NoReport

(***************************************************************************)
(* A run.  The task directory is made if it is missing, the run directory  *)
(* must be new and its parent there, run.json needs the directory.  The    *)
(* manifest and what precedes it recreate any directory that is missing.   *)
(***************************************************************************)
Stage(r, from, to) == run[r] = from /\ run' = [run EXCEPT ![r] = to]
RunFrame == UNCHANGED <<setting, clock, cleaner, scan, report>>

MakeTaskRoot(r) ==
  /\ r \in setting.runs /\ Stage(r, "new", "rooted")
  /\ root' = root \cup {TaskOf(r)}
  /\ RunFrame /\ UNCHANGED <<dir, born, created, manifest>>

MakeRunDir(r) ==
  /\ \/ /\ TaskOf(r) \in root /\ Stage(r, "rooted", "made")
        /\ dir' = dir \cup {r} /\ born' = [born EXCEPT ![r] = clock]
     \/ /\ TaskOf(r) \notin root /\ Stage(r, "rooted", "rejected")
        /\ UNCHANGED <<dir, born>>
  /\ RunFrame /\ UNCHANGED <<root, created, manifest>>

WriteRunJson(r) ==
  /\ \/ /\ r \in dir /\ Stage(r, "made", "working")
        /\ created' = [created EXCEPT ![r] = clock]
     \/ r \notin dir /\ Stage(r, "made", "rejected") /\ UNCHANGED created
  /\ RunFrame /\ UNCHANGED <<root, dir, born, manifest>>

TruncateManifest(r) ==
  /\ \/ Stage(r, "working", "writing")
     \/ manifest[r] # "none" /\ Stage(r, "settling", "writing")
  /\ root' = root \cup {TaskOf(r)} /\ dir' = dir \cup {r}
  /\ born' = IF r \in dir THEN born ELSE [born EXCEPT ![r] = clock]
  /\ manifest' = [manifest EXCEPT ![r] = "partial"]
  /\ RunFrame /\ UNCHANGED created

FillManifest(r) ==
  /\ Stage(r, "writing", "settling")
  /\ \E status \in {"done", "failed", "budget_limited"} :
       manifest' = [manifest EXCEPT ![r] = IF r \in dir THEN status ELSE "none"]
  /\ RunFrame /\ UNCHANGED <<root, dir, born, created>>

Return(r) == Stage(r, "settling", "returned") /\ RunFrame /\ UNCHANGED files

Crash(r) ==
  /\ run[r] \notin RunOver \cup {"new"}
  /\ run' = [run EXCEPT ![r] = "crashed"]
  /\ RunFrame /\ UNCHANGED files

RunStep(r) ==
  \/ MakeTaskRoot(r) \/ MakeRunDir(r) \/ WriteRunJson(r)
  \/ TruncateManifest(r) \/ FillManifest(r) \/ Return(r) \/ Crash(r)

(***************************************************************************)
(* runAgeMs: createdAt when run.json has one, else the directory's mtime.  *)
(***************************************************************************)
Age(r, now) == now - (IF created[r] # Never THEN created[r] ELSE born[r])

(***************************************************************************)
(* cleanup.  The time is read once.  Each task directory is listed, each   *)
(* entry judged, the expired ones removed one by one; then, if nothing was *)
(* kept and the directory looks empty, it is removed with all it holds.    *)
(***************************************************************************)
CleanFrame == UNCHANGED <<setting, clock, run, scan, report>>
Remove(runs) ==
  /\ dir' = dir \ runs
  /\ created' = [r \in Runs |-> IF r \in runs THEN Never ELSE created[r]]
  /\ manifest' = [r \in Runs |-> IF r \in runs THEN "none" ELSE manifest[r]]
  /\ UNCHANGED born

StartCleanup ==
  /\ "cleanup" \in setting.calls /\ cleaner.at = "idle"
  /\ cleaner' = [Idle EXCEPT !.at = "tasks", !.now = clock, !.tasks = root]
  /\ CleanFrame /\ UNCHANGED files

ListTaskRoot(t) ==
  /\ cleaner.at = "tasks" /\ t \in cleaner.tasks
  /\ cleaner' = [cleaner EXCEPT
       !.at = IF t \in root THEN "judge" ELSE "tasks",
       !.tasks = @ \ {t}, !.task = t, !.expired = {},
       !.removed = FALSE, !.kept = FALSE,
       !.left = {r \in dir : TaskOf(r) = t /\ t \in root}]
  /\ CleanFrame /\ UNCHANGED files

\* Mutants: a run without run.json is taken for an old one; an age of just
\* the ttl is not old enough.
Bug_NoMetadataIsOld(r) == created[r] = Never \/ Age(r, cleaner.now) >= Ttl
Bug_MoreThanTtl(r) == Age(r, cleaner.now) > Ttl

Expired(r) == Age(r, cleaner.now) >= Ttl

JudgeRun(r) ==
  /\ cleaner.at = "judge" /\ r \in cleaner.left
  /\ cleaner' = [cleaner EXCEPT
       !.left = @ \ {r},
       !.expired = IF r \in dir /\ Expired(r) THEN @ \cup {r} ELSE @,
       !.kept = @ \/ r \notin dir \/ ~Expired(r)]
  /\ CleanFrame /\ UNCHANGED files

RemoveRun(r) ==
  /\ cleaner.at = "judge" /\ cleaner.left = {} /\ r \in cleaner.expired
  /\ cleaner' = [cleaner EXCEPT !.expired = @ \ {r}, !.removed = TRUE]
  /\ Remove({r}) /\ UNCHANGED root
  /\ CleanFrame

\* Mutant: what was kept is forgotten once something was removed.
Bug_PruneAlways == cleaner.removed

MayPrune ==
  /\ cleaner.removed /\ ~cleaner.kept
  /\ \A r \in dir : TaskOf(r) # cleaner.task

CheckTaskRoot ==
  /\ cleaner.at = "judge" /\ cleaner.left = {} /\ cleaner.expired = {}
  /\ cleaner' = [cleaner EXCEPT !.at = IF MayPrune THEN "prune" ELSE "tasks"]
  /\ CleanFrame /\ UNCHANGED files

PruneTaskRoot ==
  /\ cleaner.at = "prune"
  /\ cleaner' = [cleaner EXCEPT !.at = "tasks"]
  /\ root' = root \ {cleaner.task}
  /\ Remove({r \in Runs : TaskOf(r) = cleaner.task})
  /\ CleanFrame

EndCleanup ==
  /\ cleaner.at = "tasks" /\ cleaner.tasks = {}
  /\ cleaner' = Idle
  /\ CleanFrame /\ UNCHANGED files

Clean ==
  \/ StartCleanup \/ CheckTaskRoot \/ PruneTaskRoot \/ EndCleanup
  \/ \E t \in TaskIds : ListTaskRoot(t)
  \/ \E r \in Runs : JudgeRun(r) \/ RemoveRun(r)

(***************************************************************************)
(* The readiness scan: list the root, list each task directory (one with   *)
(* no runs in it is an orphan), and for each run read run.json and then    *)
(* the manifest.                                                           *)
(***************************************************************************)
ScanFrame == UNCHANGED <<setting, clock, root, dir, born, created, manifest, run, cleaner>>

StartScan ==
  /\ "scan" \in setting.calls /\ scan.at = "idle" /\ root # {}
  /\ scan' = [ScanIdle EXCEPT !.at = "walk", !.now = clock, !.tasks = root]
  /\ report' = NoReport
  /\ ScanFrame

ScanTaskRoot(t) ==
  LET found == {r \in dir : TaskOf(r) = t} IN
  /\ scan.at = "walk" /\ scan.left = {} /\ t \in scan.tasks
  /\ scan' = [scan EXCEPT !.tasks = @ \ {t}, !.left = found]
  /\ report' = IF t \in root /\ found = {}
               THEN [report EXCEPT !.orphans = @ \cup {t}] ELSE report
  /\ ScanFrame

ReadRunJson(r) ==
  /\ scan.at = "walk" /\ r \in scan.left
  /\ scan' = [scan EXCEPT
       !.left = @ \ {r}, !.run = r,
       !.at = IF r \in dir THEN "read" ELSE "walk",
       !.age = IF Age(r, scan.now) < 0 THEN 0 ELSE Age(r, scan.now),
       !.runJson = created[r] # Never]
  /\ UNCHANGED report /\ ScanFrame

(***************************************************************************)
(* TERMINAL_STATUSES, and the classification.  run.json never has an exit  *)
(* code or a timeout, so only the manifest makes a run terminal.           *)
(***************************************************************************)
TerminalStatus(m) == m \in {"done", "failed"}

Readable(m) == m \notin {"none", "partial"}

\* Mutant: age is looked at before the files are.
Bug_AgeFirst(runJson, m, age) ==
  IF ~TerminalStatus(m) /\ age > StaleAge THEN "stale"
  ELSE IF ~runJson \/ ~Readable(m) THEN "malformed"
  ELSE "ok"

ReadinessStatus(runJson, m, age) ==
  IF ~runJson \/ ~Readable(m) THEN "malformed"
  ELSE IF ~TerminalStatus(m) /\ age > StaleAge THEN "stale"
  ELSE "ok"

ReadManifest ==
  LET m == manifest[scan.run] IN
  /\ scan.at = "read"
  /\ scan' = [scan EXCEPT !.at = "walk"]
  /\ report' = [report EXCEPT !.entries[scan.run] =
       [status |-> ReadinessStatus(scan.runJson, m, scan.age),
        terminal |-> TerminalStatus(m)]]
  /\ ScanFrame

EndScan ==
  /\ scan.at = "walk" /\ scan.left = {} /\ scan.tasks = {}
  /\ scan' = ScanIdle
  /\ UNCHANGED report /\ ScanFrame

Scan ==
  \/ StartScan \/ ReadManifest \/ EndScan
  \/ \E t \in TaskIds : ScanTaskRoot(t)
  \/ \E r \in Runs : ReadRunJson(r)

(***************************************************************************)
(* Time passes, but no run is left unfinished beyond its limit.            *)
(***************************************************************************)
Started(r) == run[r] \notin RunOver \cup {"new", "rooted"}

Tick ==
  /\ clock < MaxTime
  /\ \A r \in Runs : Started(r) => clock < born[r] + RunLimit
  /\ clock' = clock + 1
  /\ UNCHANGED <<setting, run, cleaner, scan, report>> /\ UNCHANGED files

Next == Tick \/ Clean \/ Scan \/ \E r \in Runs : RunStep(r)

Spec == Init /\ [][Next]_storeVars

-----------------------------------------------------------------------------
(***************************************************************************)
(* Properties.                                                             *)
(***************************************************************************)
\* Cleanup never takes the directory of a run that was made less than the
\* ttl ago, whatever the order in which the two work, while its task has no
\* other run; a run takes less than the ttl (ops.ts cleanup and
\* evaluateTaskRoot, runner.ts runTask).
RecentIsKept ==
  \A r \in Runs :
    /\ born[r] # Never /\ clock < born[r] + Ttl
    /\ \A q \in setting.runs : TaskOf(q) = TaskOf(r) => q = r
    => r \in dir

\* Also when a task has several runs, cleanup takes a directory that is not
\* as old as the ttl only if it was made after cleanup began: the task
\* directory that looked empty is removed with all it holds, and no other
\* run is lost (ops.ts cleanup).
LossIsConfined ==
  [][\A r \in dir \ dir' :
       Age(r, cleaner.now) >= Ttl \/ born[r] >= cleaner.now]_storeVars

\* When cleanup has walked its list, no directory is left that was as old
\* as the ttl when it began (ops.ts cleanup).
CleanupIsComplete ==
  cleaner.at = "tasks" /\ cleaner.tasks = {}
    => \A r \in dir : Age(r, cleaner.now) < Ttl

Ended(r) == run[r] \in {"writing", "settling", "returned", "crashed"}

\* The scan calls a run ended or stale, or finds nothing wrong with it,
\* only when its container has ended, though it reads the run's files one
\* after the other while the run goes on (scanner.ts readinessScan).
VerdictNeedsEnd ==
  \A r \in Runs :
    LET e == report.entries[r] IN
    e.terminal \/ e.status \in {"ok", "stale"} => Ended(r)

(***************************************************************************)
(* What comments say and the code does not do.                             *)
(***************************************************************************)
\* "Malformed runs are already corrupted -- safe to clean" (scanner.ts
\* classifyRisk): no run that is still at work is called malformed.
MalformedIsNotActive ==
  \A r \in Runs : report.entries[r].status = "malformed" /\ r \in dir
    => run[r] \in RunOver
=============================================================================
