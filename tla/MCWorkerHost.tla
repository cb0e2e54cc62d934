---------------------------- MODULE MCWorkerHost ----------------------------
(* For TLC: what is checked on the host of a worker.  Configuration and    *)
(* doctor (WorkerOps), the openclaw patch command, the deployed revision   *)
(* and the capacity probe share no state, and each property speaks of one  *)
(* of them, so that it is enough to let one of them move in a behaviour.   *)
EXTENDS WorkerOps, OpenClawPatchCommand, DeployedRevision, WorkerCapacity

VARIABLE part  \* the module whose steps this behaviour takes

mcVars == <<part, opsVars, commandVars, revisionVars, capacityVars>>

\* Bounds: one directory at most cannot be read; a host with such a directory,
\* or whose revision is not the expected one, has a usable root and a private
\* token.
FewHosts ==
  LET engines == [Engines -> {"absent", "installed", "up"}]
      images == [Engines -> {"present", "pullable", "missing"}]
  IN  [engines : engines, image : images, root : {"absent", "usable", "refused"},
       token : {"private", "broad", "unreadable", "absent"}, readable : {Places},
       deployed : {"expected"}]
      \cup [engines : engines, image : images, root : {"usable"}, token : {"private"},
            readable : {Places \ {p} : p \in {"openclaw", "scratch", "custom"}},
            deployed : {"expected"}]
      \cup [engines : engines, image : images, root : {"usable"}, token : {"private"},
            readable : {Places}, deployed : {"bare", "version", "no_head", "other"}]

\* One state for each part that does not move.
OpsStill ==
  /\ env = CHOOSE e \in Envs : TRUE
  /\ host = [engines |-> [e \in Engines |-> "up"], image |-> [e \in Engines |-> "present"],
             root |-> "usable", token |-> "private", readable |-> {}, deployed |-> "other"]
\* Bound: the scripts of another agent, and those that may have to install the
\* CLI, have a checkout with no path of its own.
PlainCheckout == checkout = [leaks |-> {}, tracked |-> {}, ignored |-> {}, changed |-> FALSE]
CommandStill ==
  /\ agent = Main
  /\ hostDir = [mount |-> FALSE, registry |-> [a \in Agents |-> "none"],
                buildup |-> FALSE, config |-> "none", named |-> {}]
  /\ image = [cli |-> FALSE, version |-> FALSE, npm |-> FALSE]
  /\ PlainCheckout
CapacityStill == machine = CHOOSE m \in Machines : TRUE

MCInit ==
  /\ part \in {"ops", "command", "revision", "capacity"}
  /\ IF part = "ops" THEN host \in FewHosts ELSE OpsStill
  /\ part = "command" \/ CommandStill
  /\ part = "revision" \/ online = TRUE
  /\ part = "capacity" \/ CapacityStill
  /\ OpsInit /\ CommandInit /\ RevisionInit /\ CapacityInit
  /\ (agent = Main /\ image.version) \/ PlainCheckout

OpsMove ==
  part = "ops" /\ OpsNext /\ UNCHANGED <<part, commandVars, revisionVars, capacityVars>>
CommandMoves ==
  part = "command" /\ CommandNext /\ UNCHANGED <<part, opsVars, revisionVars, capacityVars>>
RevisionMoves ==
  part = "revision" /\ RevisionNext /\ UNCHANGED <<part, opsVars, commandVars, capacityVars>>
CapacityMoves ==
  part = "capacity" /\ CapacityNext /\ UNCHANGED <<part, opsVars, commandVars, revisionVars>>

MCNext == OpsMove \/ CommandMoves \/ RevisionMoves \/ CapacityMoves

MCSpec == MCInit /\ [][MCNext]_mcVars

----------------------------------------------------------------------------
\* Environments that an operator may set.
Plain(engine, script, json, profile, template, mounts) ==
  Env(engine, script, json, profile, template, mounts, TRUE, TRUE, "openclaw", FALSE)

Directory == Mounts({Mount("openclaw", "openclaw", FALSE)})
Scratch == Mounts({Mount("scratch", "scratch", TRUE)})
\* What the validations do not know for what it is.
Loose == Mounts({Mount("above", "scratch", TRUE), Mount("renamed", "scratch", FALSE),
                 Mount("custom", "openclaw", FALSE)})

GoodEnvs == {
  Plain("", "codex", "none", "", "none", NoMounts),
  Plain("docker", "none", "codex", "", "neither", Scratch),
  Plain("", "none", "codex, no argv", "", "none", NoMounts),
  Plain("podman", "none", "none", "openclaw", "none", NoMounts),
  Plain("", "none", "none", "openclaw", "none", Directory),
  Plain("", "none", "none", "openclaw", "none", Scratch),
  Plain("", "none", "none", "", "none", NoMounts),
  Plain("", "none", "none", "openclaw", "none", Loose),
  Env("", "none", "none", "openclaw", "none", NoMounts, TRUE, TRUE, "custom", TRUE),
  Env("", "openclaw", "claude", "openclaw", "none", NoMounts, FALSE, TRUE, "openclaw", FALSE)}

RefusedEnvs == {
  Plain("bad", "codex", "none", "", "none", NoMounts),
  Plain("", "claude", "codex", "", "none", NoMounts),
  Plain("", "neither", "none", "", "none", NoMounts),
  Plain("", "codex", "none", "bad", "none", Scratch),
  Plain("", "codex", "none", "", "none", BadMounts),
  Plain("", "codex", "none", "", "none", Mounts({Mount("openclaw", "scratch", TRUE)})),
  Plain("", "codex", "none", "", "none", Mounts({Mount("claude", "scratch", FALSE)})),
  Env("", "none", "none", "openclaw", "none", NoMounts, FALSE, TRUE, "claude", FALSE),
  Env("", "codex", "none", "", "none", NoMounts, FALSE, FALSE, "openclaw", FALSE)}

FewEnvs == GoodEnvs \cup RefusedEnvs

----------------------------------------------------------------------------
\* A persona file, and an entry of .openclaw that is a directory with a file.
CONSTANTS mainAgent, otherAgent, soul, agentsDir, agentFile

AboveOf == [p \in {soul, agentsDir, agentFile} |-> IF p = agentFile THEN {agentsDir} ELSE {}]
============================================================================
