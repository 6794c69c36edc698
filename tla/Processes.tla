----------------------------- MODULE Processes -----------------------------
(* The child processes of the tools and of the hooks: the launch through a    *)
(* sandbox adapter, the wait with a timeout (tools/sandbox/runner.py), what   *)
(* bash and the git tools make of an exit code (nullain_tools) and the hooks  *)
(* of a lifecycle point, run one after the other (hooks/manager.py).          *)
EXTENDS Naturals, Sequences, SequencesExt

CONSTANTS
  Platforms,  \* the platforms with an adapter, and "other"
  MaxHooks    \* the hooks of a lifecycle point

ASSUME ProcessesAssumption == MaxHooks \in Nat

VARIABLES
  sandbox,   \* the settings, the platform and whether its adapter can work
  use,       \* what runs: a tool, or "hooks"
  doing,     \* the steps that were begun: commands of the tool, or hooks
  child,     \* the child of the step: "none", "running", "exited", "killed"
  confined,  \* for every child launched, whether it is confined
  code,      \* the exit code of the last child that was waited for
  outcomes,  \* of the hooks: "pass", "block", "failed"
  reply      \* what the caller got, or "none"

xvars == <<sandbox, use, doing, child, confined, code, outcomes, reply>>

Uses == {"bash", "git_status", "git_commit", "hooks"}
Codes == {"zero", "two", "other"}

\* The commands a tool runs; hooks are as many as are configured.
Commands == IF use = "git_commit" THEN 2 ELSE 1

ProcessesStart ==
  /\ doing = 0 /\ child = "none" /\ confined = <<>> /\ code = "zero"
  /\ outcomes = <<>> /\ reply = "none"

ProcessesInit ==
  /\ sandbox \in [enabled : BOOLEAN, required : BOOLEAN, works : BOOLEAN,
                  platform : Platforms, hooks : 0..MaxHooks]
  /\ use \in Uses
  /\ ProcessesStart

Steps == IF use = "hooks" THEN sandbox.hooks ELSE Commands
-----------------------------------------------------------------------------
(* Launching                                                                 *)

NoSandbox == [required |-> FALSE, available |-> TRUE, real |-> FALSE]

\* The adapter is returned although it is not available.
SelectSandbox ==
  IF ~sandbox.enabled \/ sandbox.platform = "other" THEN NoSandbox
  ELSE [required |-> sandbox.required, available |-> sandbox.works, real |-> TRUE]

\* Mutant of FailClosed: a sandbox that cannot work is passed over.
FailOpen(adapter) == FALSE

FailClosed(adapter) == adapter.required /\ ~adapter.available

\* An adapter that is not available adds nothing to the launch.
Prepare(adapter) == adapter.real /\ adapter.available

Ready == reply = "none" /\ child \in {"none", "killed"} /\ doing < Steps

Answer(r) == reply' = r /\ UNCHANGED <<sandbox, use, outcomes>>

Refuse ==
  /\ Ready /\ use # "hooks" /\ FailClosed(SelectSandbox)
  /\ doing' = doing + 1 /\ Answer("unavailable") /\ UNCHANGED <<child, confined, code>>

\* No executable, or the launch fails; in a hook only the first is handled.
LaunchFails ==
  /\ Ready /\ (use # "hooks" => ~FailClosed(SelectSandbox))
  /\ doing' = doing + 1 /\ UNCHANGED <<sandbox, use, child, confined, code>>
  /\ \/ use # "hooks" /\ reply' = "failed" /\ UNCHANGED outcomes
     \/ use = "hooks" /\ outcomes' = Append(outcomes, "failed") /\ UNCHANGED reply
     \/ use = "hooks" /\ reply' = "raised" /\ UNCHANGED outcomes

Launch ==
  /\ Ready /\ (use # "hooks" => ~FailClosed(SelectSandbox))
  /\ doing' = doing + 1 /\ child' = "running"
  /\ confined' = Append(confined, use # "hooks" /\ Prepare(SelectSandbox))
  /\ UNCHANGED <<sandbox, use, code, outcomes, reply>>

\* A hook without a command passes.
EmptyHook ==
  /\ Ready /\ use = "hooks" /\ doing' = doing + 1 /\ outcomes' = Append(outcomes, "pass")
  /\ UNCHANGED <<sandbox, use, child, confined, code, reply>>
-----------------------------------------------------------------------------
(* Waiting                                                                   *)

Exit ==
  /\ child = "running" /\ child' = "exited" /\ code' \in Codes
  /\ UNCHANGED <<sandbox, use, doing, confined, outcomes, reply>>

HookOutcome(c) == CASE c = "zero" -> "pass" [] c = "two" -> "block" [] c = "other" -> "failed"

Waits == reply = "none" /\ child \in {"running", "exited"}

\* Mutant of Blocked: hooks go on after one that blocked.
BlockedNever(o) == FALSE

Blocked(o) == o = "block"

\* Mutant of Judged: git_commit looks at the exit code of no command.
JudgedNone == IF use = "bash" /\ code # "zero" THEN "error" ELSE "ok"

\* git_status has no use for an exit code; git_commit for that of the commit.
Judged == IF use \in {"bash", "git_commit"} /\ code # "zero" THEN "error" ELSE "ok"

Communicated ==
  /\ Waits /\ child = "exited" /\ child' = "none" /\ UNCHANGED <<sandbox, use, doing, confined, code>>
  /\ IF use = "hooks"
       THEN /\ outcomes' = Append(outcomes, HookOutcome(code))
            /\ reply' = IF Blocked(HookOutcome(code)) THEN "blocked" ELSE "none"
       ELSE /\ UNCHANGED outcomes
            /\ reply' = IF doing < Steps THEN "none" ELSE Judged

HooksDone ==
  /\ use = "hooks" /\ reply = "none" /\ Len(outcomes) = Steps
  /\ reply' = "done" /\ UNCHANGED <<sandbox, use, doing, child, confined, code, outcomes>>

\* Mutant of Stopped: nobody kills the child of a call that took too long.
StoppedNot == IF child = "exited" THEN "none" ELSE child

Stopped == IF child = "exited" THEN "none" ELSE "killed"

\* The time is over first: a tool raises, a hook has failed.
Timeout ==
  /\ Waits
  /\ child' = Stopped /\ UNCHANGED <<sandbox, use, doing, confined, code>>
  /\ IF use = "hooks" THEN outcomes' = Append(outcomes, "failed") /\ UNCHANGED reply
                      ELSE reply' = "failed" /\ UNCHANGED outcomes

\* A cancelled caller leaves its child alone.
CancelCaller ==
  /\ Waits
  /\ Answer("cancelled") /\ UNCHANGED <<doing, child, confined, code>>

ProcessesNext ==
  \/ Refuse \/ LaunchFails \/ Launch \/ EmptyHook
  \/ Exit \/ Communicated \/ HooksDone \/ Timeout \/ CancelCaller
-----------------------------------------------------------------------------
ProcessesTypeOK ==
  /\ doing \in 0..Steps /\ child \in {"none", "running", "exited", "killed"}
  /\ confined \in Seq(BOOLEAN) /\ code \in Codes
  /\ outcomes \in Seq({"pass", "block", "failed"})
  /\ reply \in {"none", "ok", "error", "failed", "unavailable", "raised", "blocked",
                "done", "cancelled"}

\* Where the settings ask for a sandbox and the platform has one, a command of
\* a tool runs inside it, or, when it is required and cannot work, not at all.
Confinement ==
  LET asked == sandbox.enabled /\ sandbox.platform # "other"
  IN  use # "hooks" /\ asked /\ (sandbox.required \/ sandbox.works) =>
        \A i \in DOMAIN confined : confined[i]

\* A caller that is answered leaves no child running behind it, unless it was
\* cancelled.
NoChildLeft == reply \notin {"none", "cancelled"} => child # "running"

\* A tool is successful when the command that does its work was.
ExitsTold ==
  use \in {"bash", "git_commit"} =>
    /\ reply = "ok" => code = "zero" /\ Len(confined) = Commands
    /\ reply = "error" => code # "zero"

\* A hook that blocks is the last one to run, and the caller is told; otherwise
\* all of them run.
HooksInOrder ==
  use = "hooks" =>
    /\ \A i \in DOMAIN outcomes :
         outcomes[i] = "block" => i = Len(outcomes) /\ reply = "blocked"
    /\ reply = "blocked" => Last(outcomes) = "block"
    /\ reply = "done" => Len(outcomes) = sandbox.hooks

\* Commands are confined, waited for or killed, and their exit codes reported
\* for what they are (tools/sandbox/runner.py, hooks/manager.py).
ProcessLaw == Confinement /\ NoChildLeft /\ ExitsTold /\ HooksInOrder
=============================================================================
