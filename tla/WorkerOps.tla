----------------------------- MODULE WorkerOps -----------------------------
(***************************************************************************)
(* What an operator runs on a worker: loadConfig and its validations       *)
(* (config.ts), doctor and install (ops.ts), and the start of a task       *)
(* (runner.ts), up to the patch command.  The doctor's verdict is set      *)
(* beside what a run on the same host comes to.  How the deployed revision *)
(* is compared with upstream is DeployedRevision; here it matters when the *)
(* doctor's answer fails.                                                  *)
(***************************************************************************)
EXTENDS FiniteSets

CONSTANT Envs  \* the environments an operator sets

VARIABLES
  env,     \* the environment of the worker
  host,    \* engines, their images, the task root, what can be read
  report,  \* the doctor's last report; NoReport
  fresh,   \* is the report about this environment, and the host since untouched
  run      \* how far the last run came; NoRun

opsVars == <<env, host, report, fresh, run>>

Engines == {"docker", "podman"}

\* A place a mount names: an OpenClaw directory where one is expected (under
\* /root or a home; as a target, where the container looks for it), a parent
\* of it, an OpenClaw directory elsewhere, a path that names Claude's
\* directory, Claude's under another name, scratch.
Places == {"openclaw", "above", "custom", "claude", "renamed", "scratch"}
Mount(source, target, writable) == [source |-> source, target |-> target, writable |-> writable]

\* What a command's text names: an allowed executor, Claude (perhaps among
\* others), or neither; a JSON text may also name one and not be an argv.
Texts == {"none", "openclaw", "codex", "claude", "neither"}
JsonTexts == Texts \cup {"codex, no argv"}

\* A set of mounts, or "none" or "bad": no EXTRA_MOUNTS_JSON, one that is no
\* list of mounts.  engine and profile may be unset ("") or unknown ("bad").
\* configDir: the OpenClaw directory of the profile; expects: is a revision
\* given that the deployed one must be.
Env(engine, script, json, profile, template, mounts, tokenFile, limitsOk, configDir, expects) ==
  [engine |-> engine, script |-> script, json |-> json, profile |-> profile,
   template |-> template, mounts |-> mounts, tokenFile |-> tokenFile, limitsOk |-> limitsOk,
   configDir |-> configDir, expects |-> expects]

NoMounts == [given |-> "none", list |-> {}]
BadMounts == [given |-> "bad", list |-> {}]
Mounts(list) == [given |-> "list", list |-> list]

EnvType ==
  [engine: Engines \cup {"", "bad"}, script: Texts, json: JsonTexts,
   profile: {"", "openclaw", "bad"}, template: Texts,
   mounts: [given: {"none", "bad", "list"},
            list: SUBSET [source: Places, target: Places, writable: BOOLEAN]],
   tokenFile: BOOLEAN, limitsOk: BOOLEAN, configDir: Places, expects: BOOLEAN]

ASSUME EnvsAssumption ==
  /\ Envs \subseteq EnvType
  /\ \A e \in Envs : e.mounts.given # "list" => e.mounts.list = {}

\* engines: absent, installed with no daemon that answers, up.  An image is
\* there, can be pulled or cannot.  token: the hosts file.  deployed: no git
\* checkout and no package version ("bare") or with one ("version"), a
\* checkout without a HEAD, at the revision the operator expects, at another.
Hosts == [engines: [Engines -> {"absent", "installed", "up"}],
          image: [Engines -> {"present", "pullable", "missing"}],
          root: {"absent", "usable", "refused"},
          token: {"private", "broad", "unreadable", "absent"},
          readable: SUBSET Places,
          deployed: {"bare", "version", "no_head", "expected", "other"}]

NoReport == [ok |-> FALSE, engine |-> "none", failed |-> {}, made |-> FALSE]
NoRun == "none"

----------------------------------------------------------------------------
(* loadConfig: what it makes of an environment, or that it throws.         *)

Available(h, e) == h.engines[e] # "absent"

\* normalizeEngine ?? (SKIP_ENGINE_DETECT ? docker : detectEngine()).
Engine(h, e, skipDetect) ==
  IF e.engine # "" THEN e.engine
  ELSE IF skipDetect \/ Available(h, "docker") THEN "docker"
  ELSE IF Available(h, "podman") THEN "podman" ELSE "bad"

\* loadPatchCommandConfig: script, then JSON, then profile, then template.
Command(e) ==
  CASE e.script # "none" -> [by |-> "script", text |-> e.script]
    [] e.script = "none" /\ e.json # "none" -> [by |-> "json", text |-> e.json]
    [] e.script = "none" /\ e.json = "none" /\ e.profile = "openclaw" ->
         [by |-> "profile", text |-> "openclaw"]
    [] e.script = "none" /\ e.json = "none" /\ e.profile # "openclaw" /\ e.template # "none" ->
         [by |-> "template", text |-> e.template]
    [] OTHER -> [by |-> "none", text |-> "none"]

\* loadExtraMounts: the profile's own mount only when no list is given.
ExtraMounts(e) ==
  IF e.mounts.given = "none"
    THEN IF e.profile = "openclaw" THEN {Mount(e.configDir, "openclaw", FALSE)} ELSE {}
    ELSE e.mounts.list

\* validateOpenClawRuntimeMount: of fixed paths and what is in them, neither
\* their parents nor an OpenClaw directory elsewhere.
ProtectedWritable(m) == m.writable /\ "openclaw" \in {m.source, m.target}

\* validatePatchExecutorPolicy: a mount is judged by the path as it is written.
PolicyHolds(e) ==
  /\ Command(e).by # "template"
  /\ Command(e).text \notin {"claude", "neither"}
  /\ \A m \in ExtraMounts(e) : "claude" \notin {m.source, m.target}

\* An unreadable token file that exists is refused (access), an absent one not.
LoadFails(h, e, skipDetect) ==
  \/ Engine(h, e, skipDetect) = "bad"
  \/ e.tokenFile /\ h.token = "unreadable"
  \/ e.mounts.given = "bad" \/ \E m \in e.mounts.list : ProtectedWritable(m)
  \/ ~PolicyHolds(e)
  \/ e.profile = "bad"
  \/ ~e.limitsOk

Config(h, e, skipDetect) ==
  [engine |-> Engine(h, e, skipDetect), command |-> Command(e).text, by |-> Command(e).by,
   mounts |-> ExtraMounts(e), tokenFile |-> e.tokenFile, expects |-> e.expects]

----------------------------------------------------------------------------
(* doctor                                                                  *)

\* The configured engine if it answers, else the one that does.
DoctorEngine(h, c) ==
  IF Available(h, c.engine) THEN c.engine
  ELSE IF Available(h, "docker") THEN "docker" ELSE "podman"

\* checkDeployedRevision; "ok" also stands for a warning that the revision is
\* not upstream's.
RevisionStatus(h) ==
  CASE h.deployed \in {"bare", "no_head"} -> "fail"
    [] h.deployed = "version" -> "warn"
    [] h.deployed \in {"expected", "other"} -> "ok"

\* checkDeployMarker, which is only run if a revision is expected.
MarkerStatus(h, c) ==
  IF ~c.expects THEN "skip" ELSE IF h.deployed = "expected" THEN "ok" ELSE "fail"

RootStatus(h, c) == IF h.root = "refused" THEN "fail" ELSE "ok"

SecretStatus(h, c) ==
  IF ~c.tokenFile THEN "skip"
  ELSE CASE h.token = "private" -> "ok" [] h.token = "broad" -> "warn" [] OTHER -> "fail"

MountStatus(h, c) ==
  IF c.mounts = {} THEN "skip"
  ELSE IF \A m \in c.mounts : m.source \in h.readable THEN "ok" ELSE "fail"

\* docker image inspect, then docker pull.
ImageUsable(h, e) == h.engines[e] = "up" /\ h.image[e] # "missing"
Bug_ImagePresumed(h, c) == "ok"
ImageStatus(h, c) == IF ImageUsable(h, DoctorEngine(h, c)) THEN "ok" ELSE "fail"

\* checkGitHubPatchReadiness
PatchStatus(c) ==
  IF c.by \in {"script", "profile"} \/ (c.by = "json" /\ c.command # "codex, no argv")
    THEN "ok" ELSE "fail"

Statuses(h, c) ==
  [taskRoot |-> RootStatus(h, c), secretMount |-> SecretStatus(h, c),
   extraMounts |-> MountStatus(h, c), baseImage |-> ImageStatus(h, c), githubPatch |-> PatchStatus(c),
   runnerRevision |-> RevisionStatus(h), deployMarker |-> MarkerStatus(h, c)]

\* The task root is made, the image is pulled.
Touched(h, c) ==
  [h EXCEPT !.root = IF @ = "absent" THEN "usable" ELSE @,
            !.image[DoctorEngine(h, c)] =
              IF ImageUsable(h, DoctorEngine(h, c)) THEN "present" ELSE @]

Doctor ==
  /\ ~LoadFails(host, env, TRUE)
  /\ LET c == Config(host, env, TRUE)
         failed == {k \in DOMAIN Statuses(host, c) : Statuses(host, c)[k] = "fail"}
     IN  /\ report' = [ok |-> failed = {} /\ \E e \in Engines : Available(host, e),
                       engine |-> DoctorEngine(host, c), failed |-> failed, made |-> TRUE]
         /\ host' = Touched(host, c)
  /\ fresh' = TRUE /\ run' = NoRun
  /\ UNCHANGED env

Install ==
  /\ ~LoadFails(host, env, TRUE)
  /\ host' = [host EXCEPT !.root = IF @ = "absent" THEN "usable" ELSE @]
  /\ UNCHANGED <<env, report, fresh, run>>

----------------------------------------------------------------------------
(* a run                                                                   *)

\* The engine makes a missing mount source a directory (external), so a
\* container starts without a token it can use.
Outcome(h, c) ==
  IF h.root = "refused" THEN "no_root"
  ELSE IF ~Available(h, c.engine) THEN "no_engine"
  ELSE IF ~ImageUsable(h, c.engine) THEN "no_image"
  ELSE IF c.tokenFile /\ h.token \notin {"private", "broad"} THEN "no_token"
  ELSE IF c.by = "none" THEN "no_patch_command"
  ELSE IF c.command = "codex, no argv" THEN "invalid_json_argv"
  ELSE IF c.by = "profile"
            /\ ~\E m \in c.mounts : m.target = "openclaw" /\ m.source \in h.readable
    THEN "openclaw_config_mount_missing"
  ELSE "patching"

Run ==
  /\ ~LoadFails(host, env, FALSE)
  /\ LET c == Config(host, env, FALSE)
     IN  /\ run' = Outcome(host, c)
         /\ host' = [host EXCEPT !.root = IF @ = "absent" THEN "usable" ELSE @,
                                 !.image[c.engine] = IF ImageUsable(host, c.engine) /\ host.root # "refused"
                                                       THEN "present" ELSE @]
  /\ UNCHANGED <<env, report, fresh>>

RefusedRun ==
  /\ LoadFails(host, env, FALSE)
  /\ run' = "config_refused"
  /\ UNCHANGED <<env, host, report, fresh>>

Reconfigure ==
  /\ env' \in Envs /\ env' # env
  /\ fresh' = FALSE /\ run' = NoRun
  /\ UNCHANGED <<host, report>>

OpsInit ==
  /\ env \in Envs /\ host \in Hosts
  /\ report = NoReport /\ fresh = FALSE /\ run = NoRun

OpsNext == Doctor \/ Install \/ Run \/ RefusedRun \/ Reconfigure

OpsSpec == OpsInit /\ [][OpsNext]_opsVars
-----------------------------------------------------------------------------
(***************************************************************************)
(* Properties.                                                             *)
(***************************************************************************)
(* A list of extra mounts takes the place of the profile's own mount; it   *)
(* may have nothing where the patch command looks for it.                  *)
MountDisplaced(e) ==
  /\ Command(e).by = "profile" /\ e.mounts.given = "list"
  /\ \A m \in e.mounts.list : m.target # "openclaw"

(* The doctor is right.  An ok foretells the run: on the same environment  *)
(* and host, and when it looked at the engine the run takes, a run comes   *)
(* as far as the patch command, or lacks the mount that a list displaced,  *)
(* which no check looks for.  A failure names a cause: if such a run comes *)
(* there all the same, all that failed is what no run needs, the source of *)
(* an extra mount or the revision that is deployed.                        *)
DoctorForetells ==
  fresh /\ run # NoRun =>
    /\ report.ok /\ env.engine \in {"", report.engine} =>
         run = IF MountDisplaced(env) THEN "openclaw_config_mount_missing" ELSE "patching"
    /\ report.made /\ ~report.ok /\ run = "patching" =>
         report.failed \subseteq {"extraMounts", "runnerRevision", "deployMarker"}
=============================================================================
