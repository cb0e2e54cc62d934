----------------------- MODULE OpenClawPatchCommand -----------------------
(***************************************************************************)
(* The patch command of the openclaw profile (config.ts,                   *)
(* buildOpenClawPatchCommandScript), which the worker writes to            *)
(* /work/patch-command.sh and the container script runs in the checkout,   *)
(* with set -euo pipefail.  A variable part is what stands around it: the  *)
(* host directory mounted under /run/secrets/openclaw-dir, which the host  *)
(* gateway goes on writing, the image, the agent (external) and the        *)
(* checkout.  The readiness validation (openclaw-profile-readiness.ts)     *)
(* probes the same world, and the script's first lines have a meaning that *)
(* runner.ts gives them.                                                   *)
(***************************************************************************)
EXTENDS Naturals, FiniteSets

CONSTANTS
  Agents,           \* agent ids
  Main,             \* "main", the id meant when none is given
  ConfiguredAgents, \* A2A_OPENCLAW_AGENT_ID || "main" in the worker's environment
  Paths,            \* what find_bootstrap_leaks can print
  Above             \* the paths that hold a path

ASSUME CommandAssumption ==
  /\ Main \in Agents /\ ConfiguredAgents \subseteq Agents
  /\ Above \in [Paths -> SUBSET Paths]
  /\ \A p \in Paths : p \notin Above[p] /\ \A q \in Above[p] : Above[q] \subseteq Above[p]

VARIABLES
  agent,     \* the agent id written into the script
  hostDir,   \* the mounted directory: is it there, the session registries, the backups, openclaw.json
  image,     \* is the CLI in the image, can it tell its version, is npm install possible
  home,      \* /root/.openclaw in the container: openclaw.json and the workspace of each agent
  checkout,  \* bootstrap paths in the checkout, which of them are tracked or ignored, other changes
  marks,     \* lines in summary.txt and on standard output that a reader looks for
  ended,     \* the exit code of the agent; NotEnded before
  pc, code   \* the next step of the script; its exit code; NotEnded before

commandVars == <<agent, hostDir, image, home, checkout, marks, ended, pc, code>>

NotEnded == 256

\* A session registry: no sessions.json, {}, one with sessions, one that does
\* not parse.
Registries == {"none", "empty", "sessions", "damaged"}

\* The workspace of an agent: its entry in agents.list names one on the host,
\* it has no entry of its own and takes the default, or the temp directory.
Workspaces == {"host", "default", "temp"}

\* openclaw.json on the host: none, one that does not parse, or the agents
\* whose entry has a workspace.
OpenClawDirs == [mount: BOOLEAN, registry: [Agents -> Registries], buildup: BOOLEAN,
          config: {"none", "bad", "good"}, named: SUBSET Agents]

Images == [cli: BOOLEAN, version: BOOLEAN, npm: BOOLEAN]

Checkouts == [leaks: SUBSET Paths, tracked: SUBSET Paths, ignored: SUBSET Paths, changed: BOOLEAN]

Marks == {"config_mount_missing", "install_failed", "installed", "store_guard", "store_warning",
          "scrubbed", "bootstrap_leak", "without_changes"}

NoHome == [config |-> "none", workspace |-> [a \in Agents |-> "default"], default |-> "host"]

\* Git tracks files: a directory is tracked if a path in it is; a path in an
\* ignored directory is ignored.
GitRules(c) ==
  \A p \in Paths : /\ p \in c.tracked => Above[p] \subseteq c.tracked
                   /\ Above[p] \cap c.ignored # {} => p \in c.ignored

CommandInit ==
  /\ agent \in ConfiguredAgents
  /\ hostDir \in OpenClawDirs /\ image \in Images
  /\ ~hostDir.mount => hostDir = [mount |-> FALSE, registry |-> [a \in Agents |-> "none"],
                            buildup |-> FALSE, config |-> "none", named |-> {}]
  /\ hostDir.config # "good" => hostDir.named = {}
  /\ image.version => image.cli
  /\ checkout \in {c \in [leaks: {{}}, tracked: SUBSET Paths, ignored: SUBSET Paths,
                          changed: {FALSE}] : GitRules(c)}
  /\ home = NoHome /\ marks = {} /\ ended = NotEnded
  /\ pc = "mount" /\ code = NotEnded

Exit(c) == pc' = "ended" /\ code' = c
Goto(step) == pc' = step /\ code' = code
Mark(m) == marks' = marks \cup m

\* The gateway on the host writes a registry while the script runs; a reader
\* may find it empty or half written.
GatewayWrites ==
  \E a \in Agents, r \in Registries \ {"none"} :
    /\ pc # "ended" /\ hostDir.mount
    /\ hostDir' = [hostDir EXCEPT !.registry[a] = r]
    /\ UNCHANGED <<agent, image, home, checkout, marks, ended, pc, code>>

CheckMount ==
  /\ pc = "mount"
  /\ IF hostDir.mount THEN Goto("cli") /\ Mark({}) ELSE Exit(2) /\ Mark({"config_mount_missing"})
  /\ UNCHANGED <<agent, hostDir, image, home, checkout, ended>>

\* npm installs a CLI that works.  The version is printed from a command
\* substitution: that it cannot be told stops nothing.
Bug_SilentInstall ==
  /\ pc = "cli"
  /\ \/ image.cli /\ Goto("copy") /\ Mark({}) /\ image' = image
     \/ ~image.cli /\ image.npm /\ Goto("copy") /\ Mark({"installed"})
        /\ image' = [image EXCEPT !.cli = TRUE, !.version = TRUE]
     \/ ~image.cli /\ ~image.npm /\ Exit(2) /\ Mark({}) /\ image' = image
  /\ UNCHANGED <<agent, hostDir, home, checkout, ended>>

CheckCli ==
  /\ pc = "cli"
  /\ \/ image.cli /\ Goto("copy") /\ Mark({}) /\ image' = image
     \/ ~image.cli /\ image.npm /\ Goto("copy") /\ Mark({"installed"})
        /\ image' = [image EXCEPT !.cli = TRUE, !.version = TRUE]
     \/ ~image.cli /\ ~image.npm /\ Exit(2) /\ Mark({"install_failed"}) /\ image' = image
  /\ UNCHANGED <<agent, hostDir, home, checkout, ended>>

\* The copy is sanitised and given the token at once: JSON.parse throws on a
\* file that does not parse.  Model and plugin settings are left out.
CopyConfig ==
  /\ pc = "copy"
  /\ IF hostDir.config = "bad" THEN Exit(1) /\ home' = home
     ELSE /\ Goto("guard")
          /\ home' = [config |-> hostDir.config,
                      workspace |-> [a \in Agents |-> IF a \in hostDir.named THEN "host" ELSE "default"],
                      default |-> "host"]
  /\ UNCHANGED <<agent, hostDir, image, checkout, marks, ended>>

\* process.env.A2A_OPENCLAW_AGENT_ID || "main" inside the container: buildRunArgs
\* passes the task's env only, which does not name it, whatever agent the script is for.
ActiveAgent == Main

\* readJson gives undefined for a file that does not parse, so only {} counts.
EmptyRegistries == {a \in Agents : hostDir.registry[a] = "empty"}

GuardSessionStore ==
  /\ pc = "guard"
  /\ Mark((IF EmptyRegistries \ {ActiveAgent} # {} \/ hostDir.buildup THEN {"store_warning"} ELSE {})
          \cup (IF ActiveAgent \in EmptyRegistries THEN {"store_guard"} ELSE {}))
  /\ IF ActiveAgent \in EmptyRegistries THEN Exit(3) ELSE Goto("workspace")
  /\ UNCHANGED <<agent, hostDir, image, home, checkout, ended>>

Bug_EntriesOnly ==
  /\ pc = "workspace"
  /\ home' = IF home.workspace[ActiveAgent] = "host"
               THEN [home EXCEPT !.workspace[ActiveAgent] = "temp"] ELSE home
  /\ Goto("agent")
  /\ UNCHANGED <<agent, hostDir, image, checkout, marks, ended>>

\* An entry of the active agent gets the temp directory, and so does the
\* default; without openclaw.json nothing is set.
SetWorkspace ==
  /\ pc = "workspace"
  /\ home' = IF home.config = "good"
               THEN [home EXCEPT !.default = "temp", !.workspace[ActiveAgent] = "temp"]
               ELSE home
  /\ Goto("agent")
  /\ UNCHANGED <<agent, hostDir, image, checkout, marks, ended>>

\* Where the agent that runs puts its runtime files.
AgentWorkspace ==
  IF home.workspace[agent] = "default" THEN home.default ELSE home.workspace[agent]

\* openclaw agent | tee: with pipefail the script ends as the agent does.
Bug_TeeHidesAgent(exit) == Goto("scrub")
AgentReturns(exit) == IF exit = 0 THEN Goto("scrub") ELSE Exit(exit)

\* The agent edits the checkout, may leave bootstrap paths, may commit what it
\* changed, may delete what it finds.  A CLI that cannot run ends non-zero.
RunAgent ==
  /\ pc = "agent"
  /\ \E exit \in {0, 1}, leaks \in SUBSET Paths, changed \in BOOLEAN :
       /\ ~image.version => exit # 0 /\ leaks = {} /\ ~changed
       /\ \A p \in leaks : Above[p] \subseteq leaks
       /\ ended' = exit
       /\ checkout' = [checkout EXCEPT !.leaks = leaks, !.changed = changed]
       /\ AgentReturns(exit)
  /\ UNCHANGED <<agent, hostDir, image, home, marks>>

\* git ls-files prints nothing and git check-ignore -q succeeds.
Bug_IgnoredIsSafe(p) == p \in checkout.ignored
SafeToScrub(p) == p \notin checkout.tracked /\ p \in checkout.ignored

\* The paths come in the order of find | sort, a directory before what is in
\* it, and rm -rf takes both.
Scrubbed ==
  {p \in checkout.leaks : SafeToScrub(p) \/ \E q \in Above[p] : SafeToScrub(q)}

\* A path that is gone when its turn comes counts as unsafe ([ -e ] fails).
Unsafe ==
  {p \in checkout.leaks : ~SafeToScrub(p) \/ \E q \in Above[p] : SafeToScrub(q)}

ScrubLeaks ==
  /\ pc = "scrub"
  /\ checkout' = [checkout EXCEPT !.leaks = @ \ Scrubbed, !.tracked = @ \ Scrubbed]
  /\ Mark((IF \E p \in checkout.leaks : SafeToScrub(p) THEN {"scrubbed"} ELSE {})
          \cup (IF Unsafe # {} THEN {"bootstrap_leak"} ELSE {}))
  /\ IF Unsafe # {} THEN Exit(4) ELSE Goto("changes")
  /\ UNCHANGED <<agent, hostDir, image, home, ended>>

\* git status --porcelain: what the agent committed does not show.
RequireChanges ==
  /\ pc = "changes"
  /\ IF checkout.changed THEN Exit(0) /\ Mark({}) ELSE Exit(2) /\ Mark({"without_changes"})
  /\ UNCHANGED <<agent, hostDir, image, home, checkout, ended>>

CommandNext ==
  \/ GatewayWrites
  \/ CheckMount \/ CheckCli \/ CopyConfig \/ GuardSessionStore \/ SetWorkspace
  \/ RunAgent \/ ScrubLeaks \/ RequireChanges

CommandSpec == CommandInit /\ [][CommandNext]_commandVars

----------------------------------------------------------------------------
(* openclaw-profile-readiness.ts: a probe of the container before a task.  *)

Probes == [onPath: BOOLEAN, path: BOOLEAN, versionOk: BOOLEAN, version: BOOLEAN, mount: BOOLEAN]

\* What a probe finds: the binary that is on PATH has a path; one may also be
\* found elsewhere; a version is printed or is not.
Probe(found) ==
  [onPath |-> image.cli, path |-> image.cli \/ found, versionOk |-> image.version,
   version |-> image.version, mount |-> hostDir.mount]

Checks(p) ==
  [openclaw_cli_resolved |-> p.onPath /\ p.path,
   openclaw_cli_version_ok |-> p.versionOk /\ p.version,
   openclaw_profile_mount_present |-> p.mount]

ReadinessOk(p) == \A kind \in DOMAIN Checks(p) : Checks(p)[kind]

ClassifyReadinessFailure(p) ==
  IF ReadinessOk(p) THEN "ok"
  ELSE IF ~p.onPath /\ ~p.path THEN "openclaw_cli_unavailable"
  ELSE IF ~p.mount THEN "openclaw_profile_unavailable"
  ELSE IF p.onPath /\ ~p.versionOk THEN "openclaw_version_failed"
  ELSE "openclaw_cli_unavailable"

(* runner.ts, isOpenClaw...Failure: the category a line of the script      *)
(* stands for; nothing prints failure_category=openclaw_version_failed.    *)
(* It is not the category of the run: in a GitHub run the outcome of its   *)
(* evidence comes first (ExecutionProof, HintCategory).                    *)
PrintedCategory ==
  IF "install_failed" \in marks THEN "openclaw_cli_unavailable"
  ELSE IF "config_mount_missing" \in marks THEN "openclaw_profile_unavailable"
  ELSE "none"
-----------------------------------------------------------------------------
(***************************************************************************)
(* Properties.                                                             *)
(***************************************************************************)
(* A script that succeeds was earned: the agent itself ended well (the     *)
(* pipe into tee does not hide its exit), the registry the guard looked at *)
(* was not empty, there are changes to publish and no bootstrap path is    *)
(* left in the checkout for git add to sweep up.                           *)
SuccessIsEarned ==
  code = 0 => /\ ended = 0
              /\ checkout.changed /\ checkout.leaks = {}
              /\ "store_guard" \notin marks

(* Only the agent takes a tracked path out of the checkout: what the scrub *)
(* removes is never content of the repository, not even inside a directory *)
(* that .gitignore names.                                                  *)
ScrubSparesTracked == [][checkout'.tracked = checkout.tracked]_commandVars

(* What the readiness validation says of an image and a mount is what the  *)
(* script finds: a script that succeeds without installing a CLI ran where *)
(* it is ok; where it is ok, only an openclaw.json that does not parse or  *)
(* an empty registry stops the script before its agent; and if the mount   *)
(* or the CLI, only one of them, stops it, the line it prints stands for   *)
(* the category that the validation gives.                                 *)
ReadinessForetells ==
  LET probe == Probe(FALSE)
      stopped == code # NotEnded /\ ended = NotEnded
  IN  /\ code = 0 /\ "installed" \notin marks => ReadinessOk(probe)
      /\ stopped /\ ReadinessOk(probe) =>
           \/ code = 1 /\ hostDir.config = "bad"
           \/ code = 3 /\ "store_guard" \in marks
      /\ stopped /\ code = 2 /\ (hostDir.mount \/ image.cli) =>
           ClassifyReadinessFailure(probe) = PrintedCategory

(* With an openclaw.json, whose agent works where: the main one in the     *)
(* temp directory, whatever its entry says; any other one too, unless its  *)
(* entry has a workspace, since the script looks for the entry of the      *)
(* agent that the container's environment names, and that names none.      *)
MainWorksApart ==
  ended # NotEnded /\ home.config = "good" =>
    (AgentWorkspace = "temp" <=> agent = Main \/ agent \notin hostDir.named)
=============================================================================
