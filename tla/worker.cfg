CONSTANTS
  mainAgent = mainAgent
  otherAgent = otherAgent
  soul = soul
  agentsDir = agentsDir
  agentFile = agentFile
  Agents = {mainAgent, otherAgent}
  Main = mainAgent
  ConfiguredAgents = {mainAgent, otherAgent}
  Paths = {soul, agentsDir, agentFile}
  Above <- AboveOf
  Envs <- FewEnvs
  MaxCommits = 2
  Cores = {1, 4, 5}
  MemUsed = {6, 7, 15}
  DiskUsed = {10, 11, 18}
  DockerStates = {"socket", "images"}
  PsOutputs = {"fails", "gateway"}
  MaxPackets = 2
SPECIFICATION MCSpec
INVARIANTS DoctorForetells SuccessIsEarned ReadinessForetells MainWorksApart OkWasUpstream LaneIsMonotone
PROPERTY ScrubSparesTracked
CHECK_DEADLOCK FALSE
