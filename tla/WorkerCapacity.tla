--------------------------- MODULE WorkerCapacity ---------------------------
(***************************************************************************)
(* The capacity probe of a worker (worker-capacity-probe.ts).  It reads    *)
(* the machine one subsystem after the other, with tasks starting and      *)
(* ending meanwhile, and folds what it read into one evidence packet with  *)
(* a preferred lane size.  Amounts are in twentieths of the whole.         *)
(***************************************************************************)
EXTENDS Naturals, FiniteSets

CONSTANTS
  Cores,      \* numbers of cores a worker may have
  MemUsed,    \* twentieths of the memory in use
  DiskUsed,   \* twentieths of the disk in use
  DockerStates,  \* "none", "socket" (no daemon), "no df", "empty", "images", or some of these
  PsOutputs,     \* "fails", or the processes listed: "gateway", "worker", "neither"
  MaxPackets     \* bound: packets made

ASSUME CapacityAssumption ==
  /\ Cores \subseteq Nat /\ MemUsed \subseteq 0..20 /\ DiskUsed \subseteq 0..20
  /\ MaxPackets \in Nat

VARIABLES
  machine,  \* cores, memory and disk in use, does statfs answer, docker, the processes of ps
  reading,  \* what the probe in progress has read
  probing,  \* the subsystem it reads next
  packets   \* the packets made, each with what it was made from

capacityVars == <<machine, reading, probing, packets>>

Pressures == {"low", "moderate", "high", "unknown"}
Lanes == {"small", "medium", "large"}
Healths == {"healthy", "unavailable", "unknown"}

Machines == [cores: Cores, mem: MemUsed, disk: DiskUsed, statfs: BOOLEAN,
             docker: DockerStates, ps: PsOutputs]

\* classifyPressure
ClassifyPressure(used, low, moderate) ==
  IF used <= low THEN "low" ELSE IF used <= moderate THEN "moderate" ELSE "high"

MemoryPressure(used) == ClassifyPressure(used, 6, 14)
DiskPressure(used) == ClassifyPressure(used, 10, 17)

NoReading == [cores |-> 0, mem |-> 0, memory |-> "unknown", disk |-> "unknown", diskUsed |-> 0, docker |-> FALSE, dockerDisk |-> "unknown",
              openclaw |-> "unknown", worker |-> "unknown"]

\* Tasks start and end, the engine comes and goes; the cores stay.
MachineChanges ==
  /\ \/ \E used \in MemUsed : machine' = [machine EXCEPT !.mem = used]
     \/ \E used \in DiskUsed : machine' = [machine EXCEPT !.disk = used]
     \/ \E answers \in BOOLEAN : machine' = [machine EXCEPT !.statfs = answers]
     \/ \E state \in DockerStates : machine' = [machine EXCEPT !.docker = state]
     \/ \E output \in PsOutputs : machine' = [machine EXCEPT !.ps = output]
  /\ UNCHANGED <<reading, probing, packets>>

ProbeCpuAndMemory ==
  /\ probing = "cpu" /\ Cardinality(packets) < MaxPackets
  /\ reading' = [NoReading EXCEPT !.cores = machine.cores, !.mem = machine.mem,
                                  !.memory = MemoryPressure(machine.mem)]
  /\ probing' = "disk"
  /\ UNCHANGED <<machine, packets>>

\* A statfs that throws leaves zero bytes and an unknown pressure.
ProbeDisk ==
  /\ probing = "disk"
  /\ reading' = IF machine.statfs
                  THEN [reading EXCEPT !.disk = DiskPressure(machine.disk),
                                       !.diskUsed = machine.disk]
                  ELSE reading
  /\ probing' = "docker"
  /\ UNCHANGED <<machine, packets>>

ProbeDocker ==
  /\ probing = "docker"
  /\ reading' = [reading EXCEPT
       !.docker = machine.docker \notin {"none", "socket"},
       !.dockerDisk = CASE machine.docker = "images" -> "moderate"
                        [] machine.docker = "empty" -> "low"
                        [] OTHER -> "unknown"]
  /\ probing' = "processes"
  /\ UNCHANGED <<machine, packets>>

ProbeProcesses ==
  /\ probing = "processes"
  /\ reading' =
       IF machine.ps = "fails" THEN reading
       ELSE [reading EXCEPT
               !.openclaw = IF machine.ps \in {"gateway", "worker"} THEN "healthy" ELSE "unavailable",
               !.worker = IF machine.ps = "worker" THEN "healthy" ELSE "unavailable"]
  /\ probing' = "packet"
  /\ UNCHANGED <<machine, packets>>

Bug_BothHigh(cores, memory, disk) ==
  IF cores <= 1 \/ (memory = "high" /\ disk = "high") THEN "small"
  ELSE IF cores <= 4 \/ memory = "moderate" \/ disk = "moderate" THEN "medium" ELSE "large"

ComputePreferredLaneSize(cores, memory, disk) ==
  IF cores <= 1 \/ memory = "high" \/ disk = "high" THEN "small"
  ELSE IF cores <= 4 \/ memory = "moderate" \/ disk = "moderate" THEN "medium" ELSE "large"

\* known is always true and errors always empty.  The scheduling hint, a line
\* of text with the readings, is left out, and so is what only it holds.
Packet(r) ==
  [cores |-> r.cores, mem |-> r.mem, disk |-> r.disk, diskUsed |-> r.diskUsed,
   lane |-> ComputePreferredLaneSize(r.cores, r.memory, r.disk)]

MakePacket ==
  /\ probing = "packet"
  /\ packets' = packets \cup {Packet(reading)}
  /\ reading' = NoReading /\ probing' = "cpu"
  /\ UNCHANGED machine

CapacityInit ==
  /\ machine \in Machines
  /\ reading = NoReading /\ probing = "cpu" /\ packets = {}

CapacityNext ==
  \/ MachineChanges
  \/ ProbeCpuAndMemory \/ ProbeDisk \/ ProbeDocker \/ ProbeProcesses \/ MakePacket

CapacitySpec == CapacityInit /\ [][CapacityNext]_capacityVars
-----------------------------------------------------------------------------
(***************************************************************************)
(* Properties.                                                             *)
(***************************************************************************)
Rank(lane) == CASE lane = "small" -> 1 [] lane = "medium" -> 2 [] lane = "large" -> 3

(* More load never earns a larger lane: of two packets whose disk was      *)
(* read, the one made with no more cores and no less memory and disk in    *)
(* use does not ask for the larger lane, whatever came between its reads.  *)
LaneIsMonotone ==
  \A p, q \in packets :
    /\ p.disk # "unknown" /\ q.disk # "unknown"
    /\ q.cores <= p.cores
    /\ q.mem >= p.mem /\ q.diskUsed >= p.diskUsed
    => Rank(q.lane) <= Rank(p.lane)
=============================================================================
