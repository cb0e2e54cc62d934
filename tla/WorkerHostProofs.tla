-------------------------- MODULE WorkerHostProofs --------------------------
(***************************************************************************)
(* Proofs about what stands on the host of a worker: the configuration,    *)
(* the doctor and the start of a run, for any host and any set of          *)
(* environments; the openclaw patch command, for any agents and any paths; *)
(* the revision doctor, for any number of commits; and the capacity probe, *)
(* for any worker.                                                         *)
(***************************************************************************)
EXTENDS WorkerOps, OpenClawPatchCommand, DeployedRevision, WorkerCapacity, TLAPS

(***************************************************************************)
(* What is fetched is of upstream, which only grows: so is what an ok      *)
(* verdict compared with.                                                  *)
(***************************************************************************)
Tracked ==
  /\ main \in 1..MaxCommits
  /\ deployed = [head |-> deployed.head, branch |-> deployed.branch,
                 files |-> deployed.files, tracking |-> deployed.tracking]
  /\ deployed.tracking \in 0..main

RevisionInv == Tracked /\ OkWasUpstream

LEMMA RevisionInductive == RevisionInv /\ [RevisionNext]_revisionVars => RevisionInv'
<1> SUFFICES ASSUME RevisionInv, [RevisionNext]_revisionVars PROVE RevisionInv'
  OBVIOUS
<1> USE RevisionAssumption DEF RevisionInv
<1>1. CASE Push
  BY <1>1 DEF Push, Tracked, OkWasUpstream
<1>2. CASE Fetch
  <2>1. /\ deployed' = [deployed EXCEPT !.tracking = main] /\ UNCHANGED <<main, verdict>>
    BY <1>2 DEF Fetch
  <2> QED
    BY <2>1 DEF Tracked, OkWasUpstream
<1>3. CASE Deploy
  <2>1. /\ deployed' = [deployed EXCEPT !.head = deployed.tracking, !.branch = "main",
                                        !.files = {"marker"}]
        /\ UNCHANGED <<main, verdict>>
    BY <1>3 DEF Deploy
  <2> QED
    BY <2>1 DEF Tracked, OkWasUpstream
<1>4. CASE CommitLocally
  <2>1. PICK branch \in Branches :
          deployed' = [deployed EXCEPT !.head = Local, !.branch = branch, !.files = @ \ {"source"}]
    BY <1>4 DEF CommitLocally
  <2>2. UNCHANGED <<main, verdict>>
    BY <1>4 DEF CommitLocally
  <2> QED
    BY <2>1, <2>2 DEF Tracked, OkWasUpstream
<1>5. CASE Edit
  <2>1. /\ deployed' = [deployed EXCEPT !.files = @ \cup {"source"}]
        /\ UNCHANGED <<main, verdict>>
    BY <1>5 DEF Edit
  <2> QED
    BY <2>1 DEF Tracked, OkWasUpstream
<1>6. CASE Weather \/ ReadHead \/ ReadBranch \/ ReadStatus \/ UNCHANGED revisionVars
  BY <1>6 DEF Weather, ReadHead, ReadBranch, ReadStatus, revisionVars, Tracked, OkWasUpstream
<1>7. CASE Judge
  <2>1. UNCHANGED <<deployed, main>>
    BY <1>7 DEF Judge
  <2>2. UpstreamMain \in 0..main
    BY DEF UpstreamMain, Tracked
  <2>3. verdict'.status = "ok" =>
          /\ ~NeedsReview(doctor.head, doctor.branch, doctor.dirty, UpstreamMain)
          /\ verdict'.head = doctor.head /\ verdict'.branch = doctor.branch
    BY <1>7 DEF Judge
  <2>4. verdict'.status = "ok" => verdict'.head \in 1..main /\ verdict'.branch = "main"
    BY <2>2, <2>3 DEF NeedsReview, NoCommit, Tracked
  <2> QED
    BY <2>1, <2>4 DEF Tracked, OkWasUpstream
<1> QED
  BY <1>1, <1>2, <1>3, <1>4, <1>5, <1>6, <1>7 DEF RevisionNext

(***************************************************************************)
(* An ok verdict on the deployed revision was upstream's, whatever is      *)
(* pushed, fetched, deployed or committed between the doctor's git calls   *)
(* (ops.ts checkDeployedRevision).                                         *)
(***************************************************************************)
THEOREM RevisionSafety == RevisionSpec => []OkWasUpstream
<1>1. RevisionInit => RevisionInv
  BY RevisionAssumption DEF RevisionInit, RevisionInv, Tracked, OkWasUpstream, NoVerdict, NoCommit
<1>2. RevisionInv => OkWasUpstream
  BY DEF RevisionInv
<1> QED
  BY <1>1, <1>2, RevisionInductive, PTL DEF RevisionSpec

-----------------------------------------------------------------------------
(***************************************************************************)
(* What a probe has read, and what a packet says, is of one reading: the   *)
(* pressures are those of the amounts beside them.                         *)
(***************************************************************************)
DiskRead(r) ==
  r.disk # "unknown" => r.diskUsed \in 0..20 /\ r.disk = DiskPressure(r.diskUsed)

Readings == [cores: Nat, mem: 0..20, memory: Pressures, disk: Pressures, diskUsed: 0..20,
             docker: BOOLEAN, dockerDisk: Pressures, openclaw: Healths, worker: Healths]

GoodPacket(p) ==
  /\ p.cores \in Nat /\ p.mem \in 0..20 /\ DiskRead(p)
  /\ p.lane = ComputePreferredLaneSize(p.cores, MemoryPressure(p.mem), p.disk)

CapacityInv ==
  /\ machine \in Machines
  /\ reading \in Readings
  /\ DiskRead(reading)
  /\ probing # "cpu" => reading.memory = MemoryPressure(reading.mem)
  /\ \A p \in packets : GoodPacket(p)

LEMMA PressureTyped ==
  ASSUME NEW used \in 0..20
  PROVE  MemoryPressure(used) \in Pressures /\ DiskPressure(used) \in Pressures \ {"unknown"}
BY DEF MemoryPressure, DiskPressure, ClassifyPressure, Pressures

LEMMA CapacityInductive == CapacityInv /\ [CapacityNext]_capacityVars => CapacityInv'
<1> SUFFICES ASSUME CapacityInv, [CapacityNext]_capacityVars PROVE CapacityInv'
  OBVIOUS
<1> USE CapacityAssumption DEF CapacityInv
<1>1. CASE MachineChanges
  <2>1. machine' \in Machines
    BY <1>1 DEF MachineChanges, Machines
  <2> QED
    BY <1>1, <2>1 DEF MachineChanges, DiskRead, GoodPacket
<1>2. CASE ProbeCpuAndMemory
  <2>1. /\ reading' = [NoReading EXCEPT !.cores = machine.cores, !.mem = machine.mem,
                                        !.memory = MemoryPressure(machine.mem)]
        /\ UNCHANGED <<machine, packets>>
    BY <1>2 DEF ProbeCpuAndMemory
  <2>2. machine.cores \in Nat /\ machine.mem \in 0..20
    BY DEF Machines
  <2>3. NoReading \in Readings /\ NoReading.disk = "unknown"
    BY DEF NoReading, Readings, Pressures, Healths
  <2>4. /\ reading' \in Readings /\ reading'.disk = "unknown"
        /\ reading'.memory = MemoryPressure(reading'.mem)
    BY <2>1, <2>2, <2>3, PressureTyped DEF Readings
  <2> QED
    BY <2>1, <2>4 DEF DiskRead, GoodPacket
<1>3. CASE ProbeDisk
  <2>1. /\ probing = "disk" /\ UNCHANGED <<machine, packets>>
        /\ reading' = IF machine.statfs
                      THEN [reading EXCEPT !.disk = DiskPressure(machine.disk),
                                           !.diskUsed = machine.disk]
                      ELSE reading
    BY <1>3 DEF ProbeDisk
  <2>2. machine.disk \in 0..20
    BY DEF Machines
  <2>3. /\ reading' \in Readings /\ reading'.memory = reading.memory
        /\ reading'.mem = reading.mem /\ DiskRead(reading')
    BY <2>1, <2>2, PressureTyped DEF Readings, DiskRead
  <2> QED
    BY <2>1, <2>3 DEF GoodPacket, DiskRead
<1>4. CASE ProbeDocker
  <2>1. /\ probing = "docker" /\ UNCHANGED <<machine, packets>>
        /\ reading' = [reading EXCEPT
             !.docker = machine.docker \notin {"none", "socket"},
             !.dockerDisk = CASE machine.docker = "images" -> "moderate"
                              [] machine.docker = "empty" -> "low"
                              [] OTHER -> "unknown"]
    BY <1>4 DEF ProbeDocker
  <2>2. (CASE machine.docker = "images" -> "moderate"
           [] machine.docker = "empty" -> "low"
           [] OTHER -> "unknown") \in Pressures
    BY DEF Pressures
  <2>3. (machine.docker \notin {"none", "socket"}) \in BOOLEAN
    OBVIOUS
  <2>4. /\ reading' \in Readings /\ reading'.memory = reading.memory
        /\ reading'.mem = reading.mem /\ reading'.disk = reading.disk
        /\ reading'.diskUsed = reading.diskUsed
    BY <2>1, <2>2, <2>3 DEF Readings
  <2> QED
    BY <2>1, <2>4 DEF GoodPacket, DiskRead
<1>5. CASE ProbeProcesses
  <2>1. /\ probing = "processes" /\ UNCHANGED <<machine, packets>>
        /\ reading' =
             IF machine.ps = "fails" THEN reading
             ELSE [reading EXCEPT
                     !.openclaw = IF machine.ps \in {"gateway", "worker"} THEN "healthy"
                                  ELSE "unavailable",
                     !.worker = IF machine.ps = "worker" THEN "healthy" ELSE "unavailable"]
    BY <1>5 DEF ProbeProcesses
  <2>2. /\ reading' \in Readings /\ reading'.memory = reading.memory
        /\ reading'.mem = reading.mem /\ reading'.disk = reading.disk
        /\ reading'.diskUsed = reading.diskUsed
    BY <2>1 DEF Readings, Healths
  <2> QED
    BY <2>1, <2>2 DEF GoodPacket, DiskRead
<1>6. CASE MakePacket
  <2>1. /\ probing = "packet" /\ packets' = packets \cup {Packet(reading)}
        /\ reading' = NoReading /\ probing' = "cpu" /\ UNCHANGED machine
    BY <1>6 DEF MakePacket
  <2>2. NoReading \in Readings /\ DiskRead(NoReading)
    BY DEF NoReading, Readings, Pressures, Healths, DiskRead
  <2>3. GoodPacket(Packet(reading))
    BY <2>1 DEF GoodPacket, Packet, Readings, DiskRead
  <2> QED
    BY <2>1, <2>2, <2>3 DEF GoodPacket, DiskRead
<1>7. CASE UNCHANGED capacityVars
  BY <1>7 DEF capacityVars, GoodPacket, DiskRead
<1> QED
  BY <1>1, <1>2, <1>3, <1>4, <1>5, <1>6, <1>7 DEF CapacityNext

LEMMA GoodPacketsAreMonotone ==
  ASSUME NEW p, NEW q, GoodPacket(p), GoodPacket(q),
         p.disk # "unknown", q.disk # "unknown",
         q.cores <= p.cores, q.mem >= p.mem, q.diskUsed >= p.diskUsed
  PROVE  Rank(q.lane) <= Rank(p.lane)
<1>1. /\ p.disk = DiskPressure(p.diskUsed) /\ q.disk = DiskPressure(q.diskUsed)
      /\ p.diskUsed \in 0..20 /\ q.diskUsed \in 0..20
      /\ p.cores \in Nat /\ q.cores \in Nat /\ p.mem \in 0..20 /\ q.mem \in 0..20
  BY DEF GoodPacket, DiskRead
<1>2. /\ MemoryPressure(p.mem) = "high" => MemoryPressure(q.mem) = "high"
      /\ MemoryPressure(p.mem) = "moderate" => MemoryPressure(q.mem) \in {"moderate", "high"}
  BY <1>1 DEF MemoryPressure, ClassifyPressure
<1>3. /\ p.disk = "high" => q.disk = "high"
      /\ p.disk = "moderate" => q.disk \in {"moderate", "high"}
  BY <1>1 DEF DiskPressure, ClassifyPressure
<1>4. /\ p.lane = "small" => q.lane = "small"
      /\ p.lane = "medium" => q.lane \in {"small", "medium"}
      /\ p.lane \in Lanes /\ q.lane \in Lanes
  BY <1>1, <1>2, <1>3 DEF GoodPacket, ComputePreferredLaneSize, Lanes
<1> QED
  BY <1>4 DEF Rank, Lanes

(***************************************************************************)
(* More load never earns a larger lane, for any worker and any load that   *)
(* comes and goes between the probe's reads                                *)
(* (worker-capacity-probe.ts computePreferredLaneSize).                    *)
(***************************************************************************)
THEOREM LaneSafety == CapacitySpec => []LaneIsMonotone
<1>1. CapacityInit => CapacityInv
  BY DEF CapacityInit, CapacityInv, NoReading, Readings, Pressures, Healths, DiskRead
<1>2. CapacityInv => LaneIsMonotone
  BY GoodPacketsAreMonotone DEF CapacityInv, LaneIsMonotone
<1> QED
  BY <1>1, <1>2, CapacityInductive, PTL DEF CapacitySpec


-----------------------------------------------------------------------------
(***************************************************************************)
(* The openclaw patch command.                                             *)
(***************************************************************************)
Homes ==
  [config : {"none", "bad", "good"}, workspace : [Agents -> Workspaces],
   default : {"host", "temp"}]

BeforeGuard == {"mount", "cli", "copy", "guard"}
BeforeAgent == BeforeGuard \cup {"workspace", "agent"}

CommandTypeOK ==
  /\ agent \in Agents /\ hostDir \in OpenClawDirs /\ image \in Images
  /\ home \in Homes /\ checkout \in Checkouts
  /\ pc \in BeforeAgent \cup {"scrub", "changes", "ended"}

(* How far the script has come, and what it has done by then. *)
StepInv ==
  /\ pc # "ended" => code = NotEnded
  /\ pc \in BeforeAgent => ended = NotEnded
  /\ pc \in {"scrub", "changes"} => ended = 0
  /\ pc = "mount" => marks = {}
  /\ pc # "mount" /\ pc # "ended" => hostDir.mount
  /\ pc # "ended" => "store_guard" \notin marks
  /\ pc = "changes" => checkout.leaks = {}

(* How the script starts to fail: the mount, or the CLI, is missing. *)
MissInv ==
  /\ pc = "cli" => marks = {}
  /\ code = 2 /\ ended = NotEnded =>
       \/ ~hostDir.mount /\ marks = {"config_mount_missing"}
       \/ hostDir.mount /\ ~image.cli /\ marks = {"install_failed"}
  /\ code = 1 /\ ended = NotEnded => hostDir.config = "bad"
  /\ code = 3 /\ ended = NotEnded => "store_guard" \in marks
  /\ code # NotEnded /\ ended = NotEnded => code \in {1, 2, 3}

(* A CLI that the script did not install is that of the image; an agent    *)
(* that ends well has one that tells its version.                          *)
CliInv ==
  /\ image.version => image.cli
  /\ ended = 0 => image.version
  /\ ended # NotEnded => hostDir.mount

(* Where an agent works, once CopyConfig has copied its entry and          *)
(* SetWorkspace has written over that of the active one.                   *)
WorkspaceInv ==
  LET set == pc \in {"agent", "scrub", "changes"} \/ ended # NotEnded IN
  /\ pc \in {"guard", "workspace"} \/ set =>
       \A a \in Agents \ {Main} :
         home.workspace[a] = IF a \in hostDir.named THEN "host" ELSE "default"
  /\ set /\ home.config = "good" => home.default = "temp" /\ home.workspace[Main] = "temp"

CommandInv ==
  /\ CommandTypeOK /\ StepInv /\ MissInv /\ CliInv /\ WorkspaceInv
  /\ GitRules(checkout) /\ SuccessIsEarned

(***************************************************************************)
(* The scrub takes nothing that is tracked: a path in a directory that it  *)
(* may remove is not tracked either.                                       *)
(***************************************************************************)
LEMMA ScrubbedUntracked ==
  ASSUME checkout \in Checkouts, GitRules(checkout)
  PROVE  Scrubbed \cap checkout.tracked = {}
<1>1. ASSUME NEW p \in checkout.leaks, p \in checkout.tracked,
             SafeToScrub(p) \/ \E q \in Above[p] : SafeToScrub(q)
      PROVE  FALSE
  <2>1. p \in Paths /\ Above[p] \subseteq checkout.tracked
    BY <1>1 DEF Checkouts, GitRules
  <2>2. QED
    BY <1>1, <2>1 DEF SafeToScrub
<1>2. QED
  BY <1>1 DEF Scrubbed

(***************************************************************************)
(* When no path is unsafe, the scrub leaves none.                          *)
(***************************************************************************)
LEMMA ScrubLeavesNone ==
  ASSUME Unsafe = {}
  PROVE  checkout.leaks \ Scrubbed = {}
BY DEF Unsafe, Scrubbed

LEMMA CommandInitially == CommandInit => CommandInv
<1> SUFFICES ASSUME CommandInit PROVE CommandInv
  OBVIOUS
<1>a. Main \in Agents /\ ConfiguredAgents \subseteq Agents
  BY CommandAssumption
<1>1. checkout \in Checkouts /\ GitRules(checkout) /\ checkout.leaks = {}
  BY DEF CommandInit, Checkouts
<1>2. NoHome \in Homes /\ NoHome.config = "none"
  BY DEF NoHome, Homes, Workspaces
<1>3. CommandTypeOK
  BY <1>a, <1>1, <1>2 DEF CommandInit, CommandTypeOK, BeforeAgent, BeforeGuard
<1>4. QED
  BY <1>1, <1>2, <1>3 DEF CommandInit, CommandInv, StepInv, MissInv, CliInv, WorkspaceInv,
     SuccessIsEarned, NotEnded, BeforeAgent, BeforeGuard

LEMMA CommandInductive == CommandInv /\ [CommandNext]_commandVars => CommandInv'
<1> SUFFICES ASSUME CommandInv, [CommandNext]_commandVars PROVE CommandInv'
  OBVIOUS
<1>a. /\ CommandTypeOK /\ StepInv /\ MissInv /\ CliInv /\ WorkspaceInv
      /\ GitRules(checkout) /\ SuccessIsEarned /\ Main \in Agents
  BY CommandAssumption DEF CommandInv
<1>1. CASE GatewayWrites
  <2>1. PICK a \in Agents, r \in Registries \ {"none"} :
          /\ pc # "ended" /\ hostDir.mount
          /\ hostDir' = [hostDir EXCEPT !.registry[a] = r]
          /\ UNCHANGED <<agent, image, home, checkout, marks, ended, pc, code>>
    BY <1>1 DEF GatewayWrites
  <2>2. /\ hostDir' \in OpenClawDirs /\ hostDir'.mount = hostDir.mount
        /\ hostDir'.config = hostDir.config /\ hostDir'.named = hostDir.named
    BY <1>a, <2>1 DEF CommandTypeOK, OpenClawDirs
  <2>3. CommandTypeOK'
    BY <1>a, <2>1, <2>2 DEF CommandTypeOK, OpenClawDirs, Images, Homes, Checkouts
  <2>4. QED
    BY <1>a, <2>1, <2>2, <2>3 DEF CommandInv, StepInv, MissInv, CliInv, WorkspaceInv,
       SuccessIsEarned, GitRules
<1>2. CASE CheckMount
  BY <1>a, <1>2 DEF CheckMount, Exit, Goto, Mark, CommandInv, CommandTypeOK, StepInv,
     MissInv, CliInv, WorkspaceInv, SuccessIsEarned, GitRules, NotEnded, BeforeAgent,
     BeforeGuard
<1>3. CASE CheckCli
  <2>1. /\ image' \in Images /\ (image'.version => image'.cli)
        /\ image'.cli = FALSE => image' = image
    BY <1>a, <1>3 DEF CheckCli, CommandTypeOK, Images, CliInv
  <2>2. /\ pc = "cli" /\ ended = NotEnded /\ code = NotEnded
        /\ UNCHANGED <<agent, hostDir, home, checkout, ended>>
    BY <1>a, <1>3 DEF CheckCli, StepInv, BeforeAgent, BeforeGuard
  <2>3. CliInv' /\ WorkspaceInv'
    BY <1>a, <1>3, <2>1, <2>2 DEF CheckCli, Exit, Goto, CliInv, WorkspaceInv, NotEnded
  <2>4. CommandTypeOK' /\ StepInv' /\ MissInv'
    BY <1>a, <1>3, <2>1, <2>2 DEF CheckCli, Exit, Goto, Mark, CommandTypeOK, StepInv, MissInv,
       NotEnded, BeforeAgent, BeforeGuard
  <2>5. QED
    BY <1>a, <1>3, <2>2, <2>3, <2>4 DEF CheckCli, Exit, Goto, CommandInv, SuccessIsEarned,
       GitRules, NotEnded
<1>4. CASE CopyConfig
  <2>1. home' \in Homes
    BY <1>a, <1>4 DEF CopyConfig, CommandTypeOK, OpenClawDirs, Homes, Workspaces
  <2>2. QED
    BY <1>a, <1>4, <2>1 DEF CopyConfig, Exit, Goto, CommandInv, CommandTypeOK,
       StepInv, MissInv, CliInv, WorkspaceInv, SuccessIsEarned, GitRules, NotEnded,
       BeforeAgent, BeforeGuard
<1>5. CASE GuardSessionStore
  BY <1>a, <1>5 DEF GuardSessionStore, Exit, Goto, Mark, CommandInv, CommandTypeOK,
     StepInv, MissInv, CliInv, WorkspaceInv, SuccessIsEarned, GitRules, NotEnded,
     BeforeAgent, BeforeGuard
<1>6. CASE SetWorkspace
  <2>1. /\ home' \in Homes
        /\ home'.config = "good" => home'.default = "temp" /\ home'.workspace[Main] = "temp"
        /\ \A a \in Agents \ {Main} : home'.workspace[a] = home.workspace[a]
    BY <1>a, <1>6 DEF SetWorkspace, CommandTypeOK, Homes, Workspaces, ActiveAgent
  <2>2. QED
    BY <1>a, <1>6, <2>1 DEF SetWorkspace, Goto, CommandInv, CommandTypeOK,
       StepInv, MissInv, CliInv, WorkspaceInv, SuccessIsEarned, GitRules, NotEnded,
       BeforeAgent, BeforeGuard
<1>7. CASE RunAgent
  <2>1. PICK exit \in {0, 1}, leaks \in SUBSET Paths, changed \in BOOLEAN :
          /\ ended' = exit
          /\ checkout' = [checkout EXCEPT !.leaks = leaks, !.changed = changed]
          /\ AgentReturns(exit)
    BY <1>7 DEF RunAgent
  <2>2. /\ checkout' \in Checkouts /\ checkout'.tracked = checkout.tracked
        /\ checkout'.ignored = checkout.ignored
    BY <1>a, <2>1 DEF CommandTypeOK, Checkouts
  <2>3. GitRules(checkout)'
    BY <1>a, <2>2 DEF GitRules
  <2>4. QED
    BY <1>a, <1>7, <2>1, <2>2, <2>3 DEF RunAgent, AgentReturns, Exit, Goto, CommandInv,
       CommandTypeOK, StepInv, MissInv, CliInv, WorkspaceInv, SuccessIsEarned, NotEnded,
       BeforeAgent, BeforeGuard
<1>8. CASE ScrubLeaks
  <2>1. /\ checkout' \in Checkouts /\ checkout'.tracked = checkout.tracked
        /\ checkout'.ignored = checkout.ignored
        /\ checkout'.leaks = checkout.leaks \ Scrubbed
    BY <1>a, <1>8, ScrubbedUntracked DEF ScrubLeaks, CommandTypeOK, Checkouts
  <2>2. GitRules(checkout)'
    BY <1>a, <2>1 DEF GitRules
  <2>3. pc' = "changes" => checkout'.leaks = {}
    BY <1>8, <2>1, ScrubLeavesNone DEF ScrubLeaks, Exit
  <2>4. QED
    BY <1>a, <1>8, <2>1, <2>2, <2>3 DEF ScrubLeaks, Exit, Goto, Mark, CommandInv,
       CommandTypeOK, StepInv, MissInv, CliInv, WorkspaceInv, SuccessIsEarned, NotEnded,
       BeforeAgent, BeforeGuard
<1>9. CASE RequireChanges
  BY <1>a, <1>9 DEF RequireChanges, Exit, Mark, CommandInv, CommandTypeOK, StepInv,
     MissInv, CliInv, WorkspaceInv, SuccessIsEarned, GitRules, NotEnded, BeforeAgent,
     BeforeGuard
<1>10. CASE UNCHANGED commandVars
  BY <1>a, <1>10 DEF commandVars, CommandInv, CommandTypeOK, StepInv, MissInv, CliInv,
     WorkspaceInv, SuccessIsEarned, GitRules, OpenClawDirs, Images, Homes, Checkouts
<1>11. QED
  BY <1>1, <1>2, <1>3, <1>4, <1>5, <1>6, <1>7, <1>8, <1>9, <1>10 DEF CommandNext

LEMMA CommandInvariance == CommandSpec => []CommandInv
BY CommandInitially, CommandInductive, PTL DEF CommandSpec

(***************************************************************************)
(* Whatever the host gateway writes meanwhile and whatever the agent does, *)
(* a patch command that exits with 0 had an agent that ended well, found   *)
(* no empty registry, and leaves changes and no bootstrap path.            *)
(***************************************************************************)
THEOREM EarnedSuccess == CommandSpec => []SuccessIsEarned
<1>1. CommandInv => SuccessIsEarned
  BY DEF CommandInv
<1>2. QED
  BY <1>1, CommandInvariance, PTL

(***************************************************************************)
(* No step of the patch command takes a tracked path out of the checkout,  *)
(* for any paths, any directories that hold them and any .gitignore.       *)
(***************************************************************************)
THEOREM TrackedSpared == CommandSpec => ScrubSparesTracked
<1>1. ASSUME CommandInv, CommandNext PROVE checkout'.tracked = checkout.tracked
  <2>1. checkout \in Checkouts /\ GitRules(checkout)
    BY <1>1 DEF CommandInv, CommandTypeOK
  <2>2. CASE ScrubLeaks
    BY <2>1, <2>2, ScrubbedUntracked DEF ScrubLeaks, Checkouts
  <2>3. CASE RunAgent
    BY <2>1, <2>3 DEF RunAgent, Checkouts
  <2>4. QED
    BY <1>1, <2>2, <2>3 DEF CommandNext, GatewayWrites, CheckMount, CheckCli,
       CopyConfig, GuardSessionStore, SetWorkspace, RequireChanges
<1>2. CommandInv /\ [CommandNext]_commandVars
        => [checkout'.tracked = checkout.tracked]_commandVars
  BY <1>1
<1>3. QED
  BY <1>2, CommandInvariance, PTL DEF CommandSpec, ScrubSparesTracked

(***************************************************************************)
(* The main agent never works in a workspace of the host when              *)
(* openclaw.json was there; any other agent does if its entry names one.   *)
(***************************************************************************)
THEOREM MainApart == CommandSpec => []MainWorksApart
<1>1. CommandInv => MainWorksApart
  BY DEF CommandInv, CommandTypeOK, WorkspaceInv, MainWorksApart, AgentWorkspace
<1>2. QED
  BY <1>1, CommandInvariance, PTL

(***************************************************************************)
(* The readiness validation and the script find the same of an image and a *)
(* mount, whatever the gateway writes and the agent does.                  *)
(***************************************************************************)
THEOREM ReadinessNames == CommandSpec => []ReadinessForetells
<1> DEFINE probe == Probe(FALSE)
<1>1. ReadinessOk(probe) <=> image.cli /\ image.version /\ hostDir.mount
  <2>1. /\ DOMAIN Checks(probe) = {"openclaw_cli_resolved", "openclaw_cli_version_ok",
                                   "openclaw_profile_mount_present"}
        /\ Checks(probe)["openclaw_cli_resolved"] = (probe.onPath /\ probe.path)
        /\ Checks(probe)["openclaw_cli_version_ok"] = (probe.versionOk /\ probe.version)
        /\ Checks(probe)["openclaw_profile_mount_present"] = probe.mount
    BY DEF Checks
  <2>2. /\ probe.onPath = image.cli /\ probe.path = (image.cli \/ FALSE)
        /\ probe.versionOk = image.version /\ probe.version = image.version
        /\ probe.mount = hostDir.mount
    BY DEF Probe
  <2> HIDE DEF probe
  <2>3. QED
    BY <2>1, <2>2 DEF ReadinessOk
<1>2. ASSUME CommandInv, code = 0 PROVE ReadinessOk(probe)
  <2>1. ended = 0 /\ ended # NotEnded
    BY <1>2 DEF CommandInv, SuccessIsEarned, NotEnded
  <2>2. QED
    BY <1>1, <1>2, <2>1 DEF CommandInv, CliInv
<1>3. ASSUME CommandInv, code # NotEnded, ended = NotEnded, ReadinessOk(probe)
      PROVE  \/ code = 1 /\ hostDir.config = "bad"
             \/ code = 3 /\ "store_guard" \in marks
  BY <1>1, <1>3 DEF CommandInv, MissInv
<1>4. ASSUME CommandInv, code = 2, ended = NotEnded, hostDir.mount \/ image.cli
      PROVE  ClassifyReadinessFailure(probe) = PrintedCategory
  <2>1. CASE ~hostDir.mount /\ marks = {"config_mount_missing"}
    <3>1. PrintedCategory = "openclaw_profile_unavailable"
      BY <2>1 DEF PrintedCategory
    <3>2. QED
      BY <1>1, <1>4, <2>1, <3>1 DEF ClassifyReadinessFailure, Probe
  <2>2. CASE hostDir.mount /\ ~image.cli /\ marks = {"install_failed"}
    <3>1. PrintedCategory = "openclaw_cli_unavailable"
      BY <2>2 DEF PrintedCategory
    <3>2. QED
      BY <1>1, <2>2, <3>1 DEF ClassifyReadinessFailure, Probe
  <2>3. QED
    BY <1>4, <2>1, <2>2 DEF CommandInv, MissInv
<1>5. CommandInv => ReadinessForetells
  BY <1>2, <1>3, <1>4 DEF ReadinessForetells
<1>6. QED
  BY <1>5, CommandInvariance, PTL

-----------------------------------------------------------------------------
(***************************************************************************)
(* Configuration, doctor and runs.  The doctor, install and runs make the  *)
(* task root and pull images: what the doctor's verdict and a run's        *)
(* outcome depend on stays as it was.                                      *)
(***************************************************************************)
SameHost(h, g) ==
  /\ g.engines = h.engines /\ g.token = h.token /\ g.readable = h.readable
  /\ g.deployed = h.deployed
  /\ g.root = "refused" <=> h.root = "refused"
  /\ \A e \in Engines : (g.image[e] = "missing") <=> (h.image[e] = "missing")

ReportOf(h, c) ==
  LET failed == {k \in DOMAIN Statuses(h, c) : Statuses(h, c)[k] = "fail"} IN
  [ok |-> failed = {} /\ \E e \in Engines : Available(h, e),
   engine |-> DoctorEngine(h, c), failed |-> failed, made |-> TRUE]

OpsTypeOK == env \in Envs /\ host \in Hosts

(* A report is of the host and environment as they are, while it is fresh. *)
FreshInv ==
  fresh => /\ ~LoadFails(host, env, TRUE)
           /\ report = ReportOf(host, Config(host, env, TRUE))

(* The last run came as far as one on this host would come now. *)
RanInv ==
  run # NoRun =>
    run = IF LoadFails(host, env, FALSE) THEN "config_refused"
          ELSE Outcome(host, Config(host, env, FALSE))

OpsInv == OpsTypeOK /\ FreshInv /\ RanInv

LEMMA DoctorEngineTyped ==
  ASSUME NEW h \in Hosts, NEW e \in Envs, NEW skip \in BOOLEAN, ~LoadFails(h, e, skip)
  PROVE  /\ Config(h, e, skip).engine = Engine(h, e, skip)
         /\ Engine(h, e, skip) \in Engines
         /\ DoctorEngine(h, Config(h, e, skip)) \in Engines
<1>1. e.engine \in Engines \cup {"", "bad"}
  BY EnvsAssumption DEF EnvType
<1>2. Engine(h, e, skip) \in Engines
  BY <1>1 DEF LoadFails, Engine, Engines
<1>3. QED
  BY <1>2 DEF Config, DoctorEngine, Engines

LEMMA SameHostSameVerdict ==
  ASSUME NEW h, NEW g, SameHost(h, g), NEW e, NEW skip \in BOOLEAN
  PROVE  /\ LoadFails(g, e, skip) <=> LoadFails(h, e, skip)
         /\ Config(g, e, skip) = Config(h, e, skip)
         /\ Engine(g, e, skip) = Engine(h, e, skip)
<1>1. Engine(g, e, skip) = Engine(h, e, skip)
  BY DEF SameHost, Engine, Available
<1>2. QED
  BY <1>1 DEF SameHost, LoadFails, Config

LEMMA SameHostSameOutcome ==
  ASSUME NEW h, NEW g, SameHost(h, g), NEW c, c.engine \in Engines
  PROVE  Outcome(g, c) = Outcome(h, c)
<1>1. ImageUsable(g, c.engine) <=> ImageUsable(h, c.engine)
  BY DEF SameHost, ImageUsable
<1>2. QED
  BY <1>1 DEF SameHost, Outcome, Available

LEMMA SameHostSameReport ==
  ASSUME NEW h, NEW g, SameHost(h, g), NEW c, DoctorEngine(h, c) \in Engines
  PROVE  ReportOf(g, c) = ReportOf(h, c)
<1>1. DoctorEngine(g, c) = DoctorEngine(h, c)
  BY DEF SameHost, DoctorEngine, Available
<1>2. ImageStatus(g, c) = ImageStatus(h, c)
  BY <1>1 DEF SameHost, ImageStatus, ImageUsable
<1>3. RootStatus(g, c) = RootStatus(h, c) /\ SecretStatus(g, c) = SecretStatus(h, c)
  BY DEF SameHost, RootStatus, SecretStatus
<1>4. /\ MountStatus(g, c) = MountStatus(h, c)
      /\ RevisionStatus(g) = RevisionStatus(h) /\ MarkerStatus(g, c) = MarkerStatus(h, c)
  BY DEF SameHost, MountStatus, RevisionStatus, MarkerStatus
<1>5. Statuses(g, c) = Statuses(h, c)
  BY <1>2, <1>3, <1>4 DEF Statuses
<1>6. QED
  BY <1>1, <1>5 DEF ReportOf, SameHost, Available

(***************************************************************************)
(* What each command does to the host.                                     *)
(***************************************************************************)
LEMMA HostKept ==
  ASSUME OpsTypeOK, Doctor \/ Install \/ Run
  PROVE  host' \in Hosts /\ SameHost(host, host')
<1>a. host \in Hosts /\ env \in Envs
  BY DEF OpsTypeOK
<1>1. CASE Install
  BY <1>a, <1>1 DEF Install, Hosts, SameHost
<1>2. CASE Doctor
  <2> DEFINE c == Config(host, env, TRUE)
             d == DoctorEngine(host, c)
  <2>1. d \in Engines
    BY <1>a, <1>2, DoctorEngineTyped DEF Doctor
  <2>2. host' = [host EXCEPT !.root = IF @ = "absent" THEN "usable" ELSE @,
                             !.image[d] = IF ImageUsable(host, d) THEN "present" ELSE @]
    BY <1>2 DEF Doctor, Touched
  <2> HIDE DEF d
  <2>3. QED
    BY <1>a, <2>1, <2>2 DEF Hosts, SameHost, ImageUsable
<1>3. CASE Run
  <2> DEFINE c == Config(host, env, FALSE)
             d == c.engine
  <2>1. d \in Engines
    BY <1>a, <1>3, DoctorEngineTyped DEF Run
  <2>2. host' = [host EXCEPT !.root = IF @ = "absent" THEN "usable" ELSE @,
                             !.image[d] = IF ImageUsable(host, d) /\ host.root # "refused"
                                          THEN "present" ELSE @]
    BY <1>3 DEF Run
  <2> HIDE DEF d
  <2>3. QED
    BY <1>a, <2>1, <2>2 DEF Hosts, SameHost, ImageUsable
<1>4. QED
  BY <1>1, <1>2, <1>3

(***************************************************************************)
(* A step that keeps the environment and the host keeps the report fresh   *)
(* and the last run true.                                                  *)
(***************************************************************************)
LEMMA VerdictsKept ==
  ASSUME OpsInv, SameHost(host, host'), UNCHANGED env
  PROVE  /\ UNCHANGED <<report, fresh>> => FreshInv'
         /\ UNCHANGED run => RanInv'
<1>a. host \in Hosts /\ env \in Envs /\ FreshInv /\ RanInv
  BY DEF OpsInv, OpsTypeOK
<1>1. ASSUME UNCHANGED <<report, fresh>>, fresh
      PROVE  ~LoadFails(host', env, TRUE) /\ report = ReportOf(host', Config(host', env, TRUE))
  <2>1. ~LoadFails(host, env, TRUE) /\ report = ReportOf(host, Config(host, env, TRUE))
    BY <1>a, <1>1 DEF FreshInv
  <2>2. /\ ~LoadFails(host', env, TRUE)
        /\ Config(host', env, TRUE) = Config(host, env, TRUE)
    BY <2>1, SameHostSameVerdict
  <2>3. DoctorEngine(host, Config(host, env, TRUE)) \in Engines
    BY <1>a, <2>1, DoctorEngineTyped
  <2>4. QED
    BY <2>1, <2>2, <2>3, SameHostSameReport
<1>2. ASSUME UNCHANGED run, run # NoRun
      PROVE  run = IF LoadFails(host', env, FALSE) THEN "config_refused"
                   ELSE Outcome(host', Config(host', env, FALSE))
  <2>1. /\ LoadFails(host', env, FALSE) <=> LoadFails(host, env, FALSE)
        /\ Config(host', env, FALSE) = Config(host, env, FALSE)
    BY SameHostSameVerdict
  <2>2. CASE ~LoadFails(host, env, FALSE)
    <3>1. Config(host, env, FALSE).engine \in Engines
      BY <1>a, <2>2, DoctorEngineTyped
    <3>2. QED
      BY <1>a, <1>2, <2>1, <2>2, <3>1, SameHostSameOutcome DEF RanInv
  <2>3. QED
    BY <1>a, <1>2, <2>1, <2>2 DEF RanInv
<1>3. QED
  BY <1>1, <1>2 DEF FreshInv, RanInv

LEMMA OpsInductive == OpsInv /\ [OpsNext]_opsVars => OpsInv'
<1> SUFFICES ASSUME OpsInv, [OpsNext]_opsVars PROVE OpsInv'
  OBVIOUS
<1>a. OpsTypeOK /\ host \in Hosts /\ env \in Envs /\ FreshInv /\ RanInv
  BY DEF OpsInv, OpsTypeOK
<1>1. CASE Doctor
  <2>1. host' \in Hosts /\ SameHost(host, host') /\ UNCHANGED env
    BY <1>a, <1>1, HostKept DEF Doctor
  <2> DEFINE c == Config(host, env, TRUE)
  <2>2. ~LoadFails(host, env, TRUE) /\ report' = ReportOf(host, c) /\ run' = NoRun
    BY <1>1 DEF Doctor, ReportOf
  <2>3. ~LoadFails(host', env, TRUE) /\ Config(host', env, TRUE) = c
    BY <2>1, <2>2, SameHostSameVerdict
  <2>4. DoctorEngine(host, c) \in Engines
    BY <1>a, <2>2, DoctorEngineTyped
  <2>5. ReportOf(host', c) = ReportOf(host, c)
    BY <2>1, <2>4, SameHostSameReport
  <2>6. QED
    BY <1>a, <2>1, <2>2, <2>3, <2>5 DEF OpsInv, OpsTypeOK, FreshInv, RanInv
<1>2. CASE Install
  <2>1. /\ host' \in Hosts /\ SameHost(host, host') /\ UNCHANGED <<env, report, fresh, run>>
    BY <1>a, <1>2, HostKept DEF Install
  <2>2. QED
    BY <1>a, <2>1, VerdictsKept DEF OpsInv, OpsTypeOK
<1>3. CASE Run
  <2>1. /\ host' \in Hosts /\ SameHost(host, host') /\ UNCHANGED <<env, report, fresh>>
    BY <1>a, <1>3, HostKept DEF Run
  <2> DEFINE c == Config(host, env, FALSE)
  <2>2. ~LoadFails(host, env, FALSE) /\ run' = Outcome(host, c)
    BY <1>3 DEF Run
  <2>3. c.engine \in Engines
    BY <1>a, <2>2, DoctorEngineTyped
  <2>4. ~LoadFails(host', env, FALSE) /\ Config(host', env, FALSE) = c
    BY <2>1, <2>2, SameHostSameVerdict
  <2>5. Outcome(host', c) = Outcome(host, c)
    BY <2>1, <2>3, SameHostSameOutcome
  <2>6. RanInv'
    BY <2>1, <2>2, <2>4, <2>5 DEF RanInv
  <2>7. QED
    BY <1>a, <2>1, <2>6, VerdictsKept DEF OpsInv, OpsTypeOK
<1>4. CASE RefusedRun
  BY <1>a, <1>4 DEF RefusedRun, OpsInv, OpsTypeOK, FreshInv, RanInv
<1>5. CASE Reconfigure
  BY <1>a, <1>5 DEF Reconfigure, OpsInv, OpsTypeOK, FreshInv, RanInv
<1>6. CASE UNCHANGED opsVars
  BY <1>a, <1>6 DEF opsVars, OpsInv, OpsTypeOK, FreshInv, RanInv
<1>7. QED
  BY <1>1, <1>2, <1>3, <1>4, <1>5, <1>6 DEF OpsNext

LEMMA OpsInvariance == OpsSpec => []OpsInv
<1>1. OpsInit => OpsInv
  BY DEF OpsInit, OpsInv, OpsTypeOK, FreshInv, RanInv
<1>2. QED
  BY <1>1, OpsInductive, PTL DEF OpsSpec

LEMMA StatusFields ==
  ASSUME NEW h, NEW c
  PROVE  /\ DOMAIN Statuses(h, c) =
              {"taskRoot", "secretMount", "extraMounts", "baseImage", "githubPatch",
               "runnerRevision", "deployMarker"}
         /\ Statuses(h, c)["taskRoot"] = RootStatus(h, c)
         /\ Statuses(h, c)["secretMount"] = SecretStatus(h, c)
         /\ Statuses(h, c)["extraMounts"] = MountStatus(h, c)
         /\ Statuses(h, c)["baseImage"] = ImageStatus(h, c)
         /\ Statuses(h, c)["githubPatch"] = PatchStatus(c)
BY DEF Statuses

(***************************************************************************)
(* The engine that the doctor looks at is the one that a run takes, if the *)
(* environment names none or names that one.                               *)
(***************************************************************************)
LEMMA EngineForetold ==
  ASSUME NEW h \in Hosts, NEW e \in Envs, ~LoadFails(h, e, TRUE),
         \E x \in Engines : Available(h, x),
         e.engine \in {"", DoctorEngine(h, Config(h, e, TRUE))}
  PROVE  /\ Engine(h, e, FALSE) = DoctorEngine(h, Config(h, e, TRUE))
         /\ ~LoadFails(h, e, FALSE)
<1>1. Engine(h, e, FALSE) = DoctorEngine(h, Config(h, e, TRUE))
  <2>1. CASE e.engine = ""
    BY <2>1 DEF Engine, DoctorEngine, Config, Engines
  <2>2. CASE e.engine # ""
    BY <2>2 DEF Engine
  <2>3. QED
    BY <2>1, <2>2
<1>2. Engine(h, e, FALSE) # "bad"
  BY <1>1, DoctorEngineTyped DEF Engines
<1>3. QED
  BY <1>1, <1>2 DEF LoadFails

LEMMA OkForetells ==
  ASSUME NEW h \in Hosts, NEW e \in Envs, ~LoadFails(h, e, TRUE),
         ReportOf(h, Config(h, e, TRUE)).ok,
         e.engine \in {"", ReportOf(h, Config(h, e, TRUE)).engine}
  PROVE  /\ ~LoadFails(h, e, FALSE)
         /\ Outcome(h, Config(h, e, FALSE)) =
              IF MountDisplaced(e) THEN "openclaw_config_mount_missing" ELSE "patching"
<1> DEFINE c == Config(h, e, TRUE)
           d == Config(h, e, FALSE)
           failed == {k \in DOMAIN Statuses(h, c) : Statuses(h, c)[k] = "fail"}
<1>1. failed = {} /\ (\E x \in Engines : Available(h, x)) /\ e.engine \in {"", DoctorEngine(h, c)}
  BY DEF ReportOf
<1>2. ~LoadFails(h, e, FALSE) /\ Engine(h, e, FALSE) = DoctorEngine(h, c)
  BY <1>1, EngineForetold
<1>3. /\ d.engine = DoctorEngine(h, c) /\ d.by = Command(e).by /\ d.command = Command(e).text
      /\ d.mounts = ExtraMounts(e) /\ d.tokenFile = e.tokenFile
      /\ c.by = d.by /\ c.command = d.command /\ c.mounts = d.mounts
      /\ c.tokenFile = d.tokenFile
  BY <1>2 DEF Config
<1>4. /\ RootStatus(h, c) # "fail" /\ SecretStatus(h, c) # "fail" /\ MountStatus(h, c) # "fail"
      /\ ImageStatus(h, c) # "fail" /\ PatchStatus(c) # "fail"
  BY <1>1, StatusFields
<1>5. h.root # "refused"
  BY <1>4 DEF RootStatus
<1>6. ImageUsable(h, d.engine) /\ Available(h, d.engine)
  BY <1>3, <1>4 DEF ImageStatus, ImageUsable, Available
<1>7. ~(d.tokenFile /\ h.token \notin {"private", "broad"})
  BY <1>3, <1>4 DEF SecretStatus
<1>8. d.by # "none" /\ d.command # "codex, no argv"
  <2>1. e \in EnvType
    BY EnvsAssumption
  <2>2. d.by \in {"script", "profile"} => d.command # "codex, no argv"
    BY <1>3, <2>1 DEF Command, EnvType, Texts
  <2>3. QED
    BY <1>3, <1>4, <2>2 DEF PatchStatus
<1>9. (d.by = "profile" /\ ~\E m \in d.mounts : m.target = "openclaw" /\ m.source \in h.readable)
         <=> MountDisplaced(e)
  <2>1. \A m \in d.mounts : m.source \in h.readable
    BY <1>3, <1>4 DEF MountStatus
  <2>2. CASE e.mounts.given = "none" /\ d.by = "profile"
    <3>1. e.profile = "openclaw"
      BY <1>3, <2>2 DEF Command
    <3>2. d.mounts = {Mount(e.configDir, "openclaw", FALSE)}
      BY <1>3, <2>2, <3>1 DEF ExtraMounts
    <3>3. Mount(e.configDir, "openclaw", FALSE) \in d.mounts
      BY <3>2
    <3>4. \E m \in d.mounts : m.target = "openclaw" /\ m.source \in h.readable
      BY <2>1, <3>3 DEF Mount
    <3>5. QED
      BY <2>2, <3>4 DEF MountDisplaced
  <2>3. CASE e.mounts.given = "list"
    BY <1>3, <2>1, <2>3 DEF ExtraMounts, MountDisplaced
  <2>4. e.mounts.given # "bad" /\ e \in EnvType
    BY <1>2, EnvsAssumption DEF LoadFails
  <2>5. QED
    BY <1>3, <2>2, <2>3, <2>4 DEF EnvType, MountDisplaced
<1>10. QED
  BY <1>2, <1>5, <1>6, <1>7, <1>8, <1>9 DEF Outcome

LEMMA FailureNames ==
  ASSUME NEW h \in Hosts, NEW e \in Envs, ~LoadFails(h, e, TRUE), ~LoadFails(h, e, FALSE),
         Outcome(h, Config(h, e, FALSE)) = "patching"
  PROVE  ReportOf(h, Config(h, e, TRUE)).failed \subseteq
           {"extraMounts", "runnerRevision", "deployMarker"}
<1> DEFINE c == Config(h, e, TRUE)
           d == Config(h, e, FALSE)
<1>1. /\ h.root # "refused" /\ Available(h, d.engine) /\ ImageUsable(h, d.engine)
      /\ ~(d.tokenFile /\ h.token \notin {"private", "broad"})
      /\ d.by # "none" /\ d.command # "codex, no argv"
  BY DEF Outcome
<1>2. /\ d.by = Command(e).by /\ c.by = d.by /\ c.command = d.command
      /\ c.tokenFile = d.tokenFile /\ d.engine = Engine(h, e, FALSE)
  BY DEF Config
<1>3. DoctorEngine(h, c) = d.engine
  <2>1. e.engine \in Engines \cup {"", "bad"} /\ d.engine # "bad"
    BY <1>2, EnvsAssumption DEF EnvType, LoadFails
  <2>2. QED
    BY <1>1, <1>2, <2>1 DEF DoctorEngine, Engine, Config, Engines
<1>4. RootStatus(h, c) = "ok" /\ ImageStatus(h, c) = "ok"
  BY <1>1, <1>3 DEF RootStatus, ImageStatus
<1>5. SecretStatus(h, c) # "fail"
  BY <1>1, <1>2 DEF SecretStatus
<1>6. PatchStatus(c) = "ok"
  <2>1. d.by \in {"script", "json", "profile"}
    BY <1>1, <1>2 DEF Command, LoadFails, PolicyHolds
  <2>2. QED
    BY <1>1, <1>2, <2>1 DEF PatchStatus
<1>7. ASSUME NEW k \in DOMAIN Statuses(h, c), Statuses(h, c)[k] = "fail"
      PROVE  k \in {"extraMounts", "runnerRevision", "deployMarker"}
  <2>1. k \in {"taskRoot", "secretMount", "extraMounts", "baseImage", "githubPatch",
               "runnerRevision", "deployMarker"}
    BY <1>7, StatusFields
  <2>2. /\ Statuses(h, c)["taskRoot"] = "ok" /\ Statuses(h, c)["secretMount"] # "fail"
        /\ Statuses(h, c)["baseImage"] = "ok" /\ Statuses(h, c)["githubPatch"] = "ok"
    BY <1>4, <1>5, <1>6, StatusFields
  <2>3. QED
    BY <1>7, <2>1, <2>2
<1>8. QED
  BY <1>7 DEF ReportOf

(***************************************************************************)
(* The doctor is right, on any host and in any environment: an ok means    *)
(* that a run reaches the patch command, unless a list displaced the       *)
(* profile's mount; if a run reaches it in spite of a failed check, that   *)
(* check was of what no run needs, the extra mounts or the revision.       *)
(***************************************************************************)
THEOREM DoctorRight == OpsSpec => []DoctorForetells
<1>1. ASSUME OpsInv, fresh, run # NoRun
      PROVE  /\ report.ok /\ env.engine \in {"", report.engine} =>
                  run = IF MountDisplaced(env) THEN "openclaw_config_mount_missing" ELSE "patching"
             /\ report.made /\ ~report.ok /\ run = "patching" =>
                  report.failed \subseteq {"extraMounts", "runnerRevision", "deployMarker"}
  <2>1. /\ host \in Hosts /\ env \in Envs /\ ~LoadFails(host, env, TRUE)
        /\ report = ReportOf(host, Config(host, env, TRUE))
        /\ run = IF LoadFails(host, env, FALSE) THEN "config_refused"
                 ELSE Outcome(host, Config(host, env, FALSE))
    BY <1>1 DEF OpsInv, OpsTypeOK, FreshInv, RanInv
  <2>2. ASSUME report.ok, env.engine \in {"", report.engine}
        PROVE  run = IF MountDisplaced(env) THEN "openclaw_config_mount_missing" ELSE "patching"
    BY <2>1, <2>2, OkForetells
  <2>3. ASSUME run = "patching"
        PROVE  report.failed \subseteq {"extraMounts", "runnerRevision", "deployMarker"}
    BY <2>1, <2>3, FailureNames
  <2>4. QED
    BY <2>2, <2>3
<1>2. OpsInv => DoctorForetells
  BY <1>1 DEF DoctorForetells
<1>3. QED
  BY <1>2, OpsInvariance, PTL
=============================================================================
