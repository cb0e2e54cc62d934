--------------------------- MODULE MCExecutionProof ---------------------------
(* ExecutionProof for TLC.                                                 *)
EXTENDS ExecutionProof

Task(template, inline, vars, commands, prompt, repos, env) ==
  [template |-> template, inline |-> inline, vars |-> vars, mode |-> NoName,
   commands |-> commands, prompt |-> prompt, repo |-> "o/a", repos |-> repos, env |-> env]

\* An inline template with a command, a repository and an environment.
Bump ==
  Template("bump", "patch", <<Text("npm i", {"PKG"})>>, Text("bump", {"PKG"}),
           <<Repo("o/a", "short")>>, [CI |-> Text("1", {}), PKG |-> Text("", {"PKG"})],
           {"PKG"}, NoVars)

Npm == <<Text("npm test", {})>>
Ask == Text("ask", {})

PlainTasks == {
  Task(NoName, NoTemplate, NoVars, << >>, Ask, << >>, NoVars),
  Task(NoName, NoTemplate, NoVars, Npm, Ask, <<Repo("o/b", "url")>>, [CI |-> Text("0", {})])}

TemplateTasks == {
  Task("node-health", NoTemplate, [TARGET_NODE |-> "n"], << >>, NoText, << >>, NoVars),
  Task("node-health", Bump, NoVars, << >>, NoText, << >>, NoVars),
  Task("bump", Bump, [PKG |-> "x"], Npm, Ask, <<Repo("o/a", "url")>>, [CI |-> Text("0", {})]),
  Task(NoName, Bump, [PKG |-> "x"], << >>, NoText, << >>, NoVars),
  Task(NoName, Bump, [PKG |-> "x"], << >>, NoText, << >>, [CI |-> Text("0", {})])}

LostTasks == {
  Task("gone", NoTemplate, NoVars, Npm, Ask, << >>, NoVars),
  Task("gone", Bump, NoVars, Npm, Ask, << >>, NoVars)}

AllTasks == PlainTasks \cup TemplateTasks \cup LostTasks

FewOutputs == {{}, {"conflict"}}
\* Up to two phrases at a time, and one that is cut off.
ManyOutputs == {{a, b} : a, b \in Phrases} \cup {{}}
ManyPasts == {{a} : a \in Phrases} \cup {{}}
NothingPast == {{}}
BothSignals == {"SIGTERM", "SIGKILL"}
SomeCodes == {0, 1, 137}
=============================================================================
