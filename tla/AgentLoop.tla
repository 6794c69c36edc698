------------------------------ MODULE AgentLoop ------------------------------
(***************************************************************************)
(* One run of AgentLoop (nullain/agent/loop.py): route, plan, then act     *)
(* phases (the ReAct loop) alternating with verification until the answer  *)
(* is accepted, a limit is hit or the run is cancelled.                    *)
(*                                                                         *)
(* The model keeps every counter, limit, early exit and exception handler  *)
(* of _run_pipeline, _run_pipeline_body, _run_act_phase,                   *)
(* _check_budget_and_compact and the counting part of _execute_tools.      *)
(* What a model or a tool says is abstracted to what the control flow      *)
(* tells apart: a response is a final answer or a batch of calls with a    *)
(* signature, a batch is the number of its calls that failed, whether it   *)
(* asked to write one of the specification's target files, and whether one *)
(* of those calls succeeded.                                               *)
(***************************************************************************)
EXTENDS Integers

CONSTANTS
  MaxSteps,           \* max_steps
  StepExtension,      \* int(max_steps * max_steps_extension_ratio)
  ProgressWindow,     \* progress_window
  SelfCorrectionMax,  \* self_correction_max
  VerifyRetryMax,     \* verify_retry_max
  LoopThreshold,      \* loop_detection_threshold
  MaxCompactions,     \* max_compaction_attempts
  MaxTokens,          \* max_tokens
  Usages,             \* total tokens one response may report; 0: no usage
  Signatures,         \* step signatures: tool names and arguments of a batch
  FailedCalls         \* how many calls of one batch may fail

ASSUME LoopAssumption ==
  /\ MaxSteps \in Nat /\ StepExtension \in Nat /\ ProgressWindow \in Nat
  /\ SelfCorrectionMax \in Nat /\ VerifyRetryMax \in Nat
  /\ LoopThreshold \in Nat \ {0} /\ MaxCompactions \in Nat
  /\ MaxTokens \in Nat
  /\ Usages \subseteq Nat /\ FailedCalls \subseteq Nat

\* No status and no previous signature (None in the code).
None == "none"
ASSUME SignatureAssumption == None \notin Signatures

\* Statuses that an exception caught around the act phase maps to.
ActFailures == {"budget", "quota_exceeded", "context_exhausted", "error", "timeout"}
Statuses == ActFailures \cup
  {"success", "verification_failed", "max_steps", "loop_detected", "cancelled"}

VARIABLES
  phase,          \* where the run's single task stands
  \* Locals of _run_pipeline_body
  hasSpec,        \* active_spec is not None
  step, tokens,   \* step, total_tokens
  correction,     \* correction_budget
  verifyAttempt,  \* verify_attempt
  verifyFailed,   \* verify_failed
  status,         \* the status of the RunResult, None while it is not settled
  \* Instance fields reset by _run_pipeline_body
  compactions,    \* _compaction_attempts
  extended,       \* _step_extension_granted
  \* Locals of one call of _run_act_phase
  effectiveMax, sinceProgress, lastSignature, repeatCount,
  completed, loopDetected, terminal,
  \* History: what the run has done, read by the properties only
  verdict,        \* what verification said of the latest response
  reflections,    \* self-correction messages injected in this run
  lastBatch,      \* signature of the latest executed batch, None after an answer
  sameBatch,      \* how many times in a row that batch was executed
  lastTouch,      \* step of the latest batch that asked to write a target file, 0 if none
  wrote           \* a call of this run has written a target file

bodyVars == <<hasSpec, step, tokens, correction, verifyAttempt, verifyFailed>>
fieldVars == <<compactions, extended>>
actVars == <<effectiveMax, sinceProgress, lastSignature, repeatCount,
             completed, loopDetected, terminal>>
history == <<verdict, reflections, lastBatch, sameBatch, lastTouch, wrote>>
vars == <<phase, bodyVars, status, fieldVars, actVars, history>>

Phases == {"route", "plan", "act", "generate", "tools", "judge", "resolve",
           "record", "done", "raised", "escaped"}

\* Mutant of NoProgress: the counter starts as if a file had just been written.
FreshProgress == 0

\* steps_since_progress at the start of an act phase: out of the window.
NoProgress == ProgressWindow + 1

Init ==
  /\ phase = "route"
  /\ hasSpec = FALSE /\ step = 0 /\ tokens = 0
  /\ correction = SelfCorrectionMax
  /\ verifyAttempt = 0 /\ verifyFailed = FALSE
  /\ status = None
  /\ compactions = 0 /\ extended = FALSE
  /\ effectiveMax = MaxSteps /\ sinceProgress = NoProgress
  /\ lastSignature = None /\ repeatCount = 0
  /\ completed = FALSE /\ loopDetected = FALSE /\ terminal = None
  /\ verdict = "none" /\ reflections = 0
  /\ lastBatch = None /\ sameBatch = 0 /\ lastTouch = 0 /\ wrote = FALSE

-----------------------------------------------------------------------------
(* Before the act phase *)

\* Intent, model routing and the user message.  NoModelAvailableError leaves
\* the run as a raw exception (see Escape).
Route ==
  /\ phase = "route"
  /\ phase' = "plan"
  /\ UNCHANGED <<bodyVars, status, fieldVars, actVars, history>>

\* The task's complexity is below the planning threshold.
SkipPlan ==
  /\ phase = "plan"
  /\ phase' = "act"
  /\ UNCHANGED <<bodyVars, status, fieldVars, actVars, history>>

\* The model produced a specification that passes validate_spec.
Plan ==
  /\ phase = "plan"
  /\ hasSpec' = TRUE
  /\ phase' = "act"
  /\ UNCHANGED <<step, tokens, correction, verifyAttempt, verifyFailed, status,
                 fieldVars, actVars, history>>

\* A ProviderError while planning returns at once: nothing is recorded and no
\* stop hook runs.
PlanFails ==
  /\ phase = "plan"
  /\ status' = "error"
  /\ phase' = "done"
  /\ UNCHANGED <<bodyVars, fieldVars, actVars, history>>

-----------------------------------------------------------------------------
(* The act phase *)

\* Mutant of ActFails: the failure is swallowed inside the loop.
ActFailsInside(reason) ==
  /\ terminal' = reason
  /\ phase' = "act"

\* An exception of the act phase is caught at its end and becomes the
\* terminal status.
ActFails(reason) ==
  /\ terminal' = reason
  /\ phase' = "judge"

\* The wall-clock check at the top of a step.  The handler that turns it into
\* a status also catches every other NullainError of the phase, so this stands
\* for those too (an event store that cannot be reached, for one); such a
\* failure may come between two results, after some reflections went out.
Timeout ==
  /\ \/ phase = "act" /\ step < effectiveMax /\ UNCHANGED reflections
     \/ phase = "generate" /\ UNCHANGED reflections
     \/ phase = "tools" /\ reflections' \in reflections..(reflections + correction)
  /\ ActFails("timeout")
  /\ UNCHANGED <<bodyVars, status, fieldVars, effectiveMax, sinceProgress,
                 lastSignature, repeatCount, completed, loopDetected,
                 verdict, lastBatch, sameBatch, lastTouch, wrote>>

\* Mutant of BudgetSpent: the budget is spent only once it is exceeded.
BudgetExceeded == tokens > MaxTokens

BudgetSpent == tokens >= MaxTokens

\* The token budget is spent.
OverBudget ==
  /\ phase = "act" /\ step < effectiveMax
  /\ BudgetSpent
  /\ ActFails("budget")
  /\ UNCHANGED <<bodyVars, status, fieldVars, effectiveMax, sinceProgress,
                 lastSignature, repeatCount, completed, loopDetected, history>>

\* The quota checker, asked after the token budget, denies the step.
OverQuota ==
  /\ phase = "act" /\ step < effectiveMax
  /\ ~BudgetSpent
  /\ ActFails("quota_exceeded")
  /\ UNCHANGED <<bodyVars, status, fieldVars, effectiveMax, sinceProgress,
                 lastSignature, repeatCount, completed, loopDetected, history>>

\* The context is over the threshold once more than compacting may be tried.
Thrashing ==
  /\ phase = "act" /\ step < effectiveMax
  /\ ~BudgetSpent
  /\ compactions + 1 > MaxCompactions
  /\ compactions' = compactions + 1
  /\ ActFails("context_exhausted")
  /\ UNCHANGED <<bodyVars, status, extended, effectiveMax, sinceProgress,
                 lastSignature, repeatCount, completed, loopDetected, history>>

\* The step begins: the context is under the threshold and the thrash counter
\* restarts, or it is over and it is compacted (or a hook vetoes that, which
\* counts the same).
BeginStep ==
  /\ phase = "act" /\ step < effectiveMax
  /\ ~BudgetSpent
  /\ \/ compactions' = 0
     \/ /\ compactions + 1 <= MaxCompactions
        /\ compactions' = compactions + 1
  /\ step' = step + 1
  /\ phase' = "generate"
  /\ UNCHANGED <<hasSpec, tokens, correction, verifyAttempt, verifyFailed, status,
                 extended, actVars, history>>

\* The while condition fails: the step budget is used up.
StepsExhausted ==
  /\ phase = "act" /\ step >= effectiveMax
  /\ phase' = "judge"
  /\ UNCHANGED <<bodyVars, status, fieldVars, actVars, history>>

\* The provider fails after its own retries.
ProviderFails ==
  /\ phase = "generate"
  /\ ActFails("error")
  /\ UNCHANGED <<bodyVars, status, fieldVars, effectiveMax, sinceProgress,
                 lastSignature, repeatCount, completed, loopDetected, history>>

\* A response without tool calls is the final answer.
FinalAnswer(usage) ==
  /\ phase = "generate"
  /\ tokens' = tokens + usage
  /\ completed' = TRUE
  /\ verdict' = "none"
  /\ lastBatch' = None
  /\ sameBatch' = 0
  /\ phase' = "judge"
  /\ UNCHANGED <<hasSpec, step, correction, verifyAttempt, verifyFailed, status,
                 fieldVars, effectiveMax, sinceProgress, lastSignature,
                 repeatCount, loopDetected, terminal, reflections, lastTouch, wrote>>

\* Mutant of Repeats: the first occurrence of a batch is not counted.
RepeatsFromZero(signature) == IF signature = lastSignature THEN repeatCount + 1 ELSE 0

Repeats(signature) == IF signature = lastSignature THEN repeatCount + 1 ELSE 1

\* A response with tool calls: they are executed, unless the same batch has
\* now been asked for LoopThreshold times in a row, which ends the phase.
ToolCalls(usage, signature) ==
  /\ phase = "generate"
  /\ tokens' = tokens + usage
  /\ repeatCount' = Repeats(signature)
  /\ lastSignature' = signature
  /\ verdict' = "none"
  /\ \/ /\ repeatCount' >= LoopThreshold
        /\ loopDetected' = TRUE
        /\ phase' = "judge"
        /\ UNCHANGED <<lastBatch, sameBatch>>
     \/ /\ repeatCount' < LoopThreshold
        /\ phase' = "tools"
        /\ lastBatch' = signature
        /\ sameBatch' = IF signature = lastBatch THEN sameBatch + 1 ELSE 1
        /\ UNCHANGED loopDetected
  /\ UNCHANGED <<hasSpec, step, correction, verifyAttempt, verifyFailed, status,
                 fieldVars, effectiveMax, sinceProgress, completed, terminal,
                 reflections, lastTouch, wrote>>

\* Mutant of Reflections: the budget is looked at once per batch.
ReflectionsPerBatch(failed) == IF correction > 0 THEN failed ELSE 0

\* One reflection is injected per failed call while correction budget is left.
Reflections(failed) == IF failed <= correction THEN failed ELSE correction

\* Mutant of CorrectionLeft: the remaining budget is not handed back.
CorrectionKept(failed) == correction

CorrectionLeft(failed) == correction - Reflections(failed)

\* Mutant of Extends: the extension may be granted again.
ExtendsAgain(since) ==
  /\ step >= effectiveMax
  /\ since <= ProgressWindow
  /\ StepExtension > 0

\* The one-time extension: the cap is reached, and a batch of the last
\* ProgressWindow steps was taken for progress.
Extends(since) ==
  /\ step >= effectiveMax
  /\ ~extended
  /\ since <= ProgressWindow
  /\ StepExtension > 0

\* The batch ran: reflections for its failures, incremental verification when
\* it asked to write a target file (which cannot fail the step), then the
\* extension.  The code looks at the calls that were asked for and not at their
\* results: a write that failed, was denied or vetoed counts as progress too.
ExecuteTools(failed, touchedTarget, written) ==
  /\ phase = "tools"
  /\ touchedTarget => hasSpec
  /\ written => touchedTarget
  /\ touchedTarget /\ ~written => failed > 0
  /\ correction' = CorrectionLeft(failed)
  /\ reflections' = reflections + Reflections(failed)
  /\ sinceProgress' = IF touchedTarget THEN 0 ELSE sinceProgress + 1
  /\ lastTouch' = IF touchedTarget THEN step ELSE lastTouch
  /\ wrote' = (wrote \/ written)
  /\ \/ /\ Extends(sinceProgress')
        /\ effectiveMax' = effectiveMax + StepExtension
        /\ extended' = TRUE
     \/ /\ ~Extends(sinceProgress')
        /\ UNCHANGED <<effectiveMax, extended>>
  /\ phase' = "act"
  /\ UNCHANGED <<hasSpec, step, tokens, verifyAttempt, verifyFailed, status,
                 compactions, lastSignature, repeatCount, completed,
                 loopDetected, terminal, verdict, lastBatch, sameBatch>>

-----------------------------------------------------------------------------
(* Verification and the end of the run *)

\* Mutant of NeedsVerify: only the first answer is verified.
NeedsFirstVerify == completed /\ hasSpec /\ terminal = None /\ verifyAttempt = 0

NeedsVerify == completed /\ hasSpec /\ terminal = None

\* Nothing to verify: verify_failed is cleared and the cycle is over.
SkipVerify ==
  /\ phase = "judge"
  /\ ~NeedsVerify
  /\ verifyFailed' = FALSE
  /\ phase' = "resolve"
  /\ UNCHANGED <<hasSpec, step, tokens, correction, verifyAttempt, status,
                 fieldVars, actVars, history>>

VerifyPasses ==
  /\ phase = "judge"
  /\ NeedsVerify
  /\ verifyFailed' = FALSE
  /\ verdict' = "passed"
  /\ phase' = "resolve"
  /\ UNCHANGED <<hasSpec, step, tokens, correction, verifyAttempt, status,
                 fieldVars, actVars, reflections, lastBatch, sameBatch, lastTouch, wrote>>

\* Mutant of CanRetry: retries are limited by the steps only.
CanRetryForSteps == step < MaxSteps /\ ~loopDetected

CanRetry == verifyAttempt < VerifyRetryMax /\ step < MaxSteps /\ ~loopDetected

\* A refused answer re-enters the act phase with its feedback: a fresh
\* correction budget and fresh act-phase locals.
VerifyFailsAndRetries ==
  /\ phase = "judge"
  /\ NeedsVerify
  /\ CanRetry
  /\ verifyFailed' = TRUE
  /\ verdict' = "failed"
  /\ verifyAttempt' = verifyAttempt + 1
  /\ correction' = SelfCorrectionMax
  /\ effectiveMax' = MaxSteps
  /\ sinceProgress' = NoProgress
  /\ lastSignature' = None
  /\ repeatCount' = 0
  /\ completed' = FALSE
  /\ phase' = "act"
  /\ UNCHANGED <<hasSpec, step, tokens, status, fieldVars, loopDetected, terminal,
                 reflections, lastBatch, sameBatch, lastTouch, wrote>>

VerifyFailsForGood ==
  /\ phase = "judge"
  /\ NeedsVerify
  /\ ~CanRetry
  /\ verifyFailed' = TRUE
  /\ verdict' = "failed"
  /\ phase' = "resolve"
  /\ UNCHANGED <<hasSpec, step, tokens, correction, verifyAttempt, status,
                 fieldVars, actVars, reflections, lastBatch, sameBatch, lastTouch, wrote>>

\* The final status, in the order the code tests for it.
FinalStatus ==
  CASE terminal # None -> terminal
    [] terminal = None /\ loopDetected -> "loop_detected"
    [] terminal = None /\ ~loopDetected /\ ~completed /\ step >= MaxSteps -> "max_steps"
    [] terminal = None /\ ~loopDetected /\ ~(~completed /\ step >= MaxSteps)
         /\ verifyFailed -> "verification_failed"
    [] OTHER -> "success"

Resolve ==
  /\ phase = "resolve"
  /\ status' = FinalStatus
  /\ phase' = "record"
  /\ UNCHANGED <<bodyVars, fieldVars, actVars, history>>

\* The trajectory is recorded (a failure to do so is only logged), stop hooks
\* are notified, and the RunResult is returned.
Return ==
  /\ phase = "record"
  /\ phase' = "done"
  /\ UNCHANGED <<bodyVars, status, fieldVars, actVars, history>>

Running == phase \notin {"done", "raised", "escaped"}

\* The task is cancelled at one of its awaits: a structured result replaces
\* whatever the run had settled on.
Cancel ==
  /\ Running
  /\ status' = "cancelled"
  /\ phase' = "done"
  /\ UNCHANGED <<bodyVars, fieldVars, actVars, history>>

\* An exception that is not a NullainError: no handler of the run catches it.
Raise ==
  /\ Running
  /\ phase' = "raised"
  /\ status' = None
  /\ UNCHANGED <<bodyVars, fieldVars, actVars, history>>

\* A NullainError outside the act phase, which only the act phase turns into a
\* status: no model to route to, a specification that validate_spec refuses, an
\* event the store refuses.
Escape ==
  /\ Running
  /\ phase \notin {"act", "generate", "tools"}
  /\ phase' = "escaped"
  /\ status' = None
  /\ UNCHANGED <<bodyVars, fieldVars, actVars, history>>

Advance ==
  \/ Route \/ SkipPlan \/ Plan \/ PlanFails
  \/ Timeout \/ OverBudget \/ OverQuota \/ Thrashing
  \/ BeginStep \/ StepsExhausted \/ ProviderFails
  \/ \E u \in Usages : FinalAnswer(u)
  \/ \E u \in Usages, s \in Signatures : ToolCalls(u, s)
  \/ \E n \in FailedCalls, t, w \in BOOLEAN : ExecuteTools(n, t, w)
  \/ SkipVerify \/ VerifyPasses \/ VerifyFailsAndRetries \/ VerifyFailsForGood
  \/ Resolve \/ Return

Next == Advance \/ Cancel \/ Raise \/ Escape

Spec == Init /\ [][Next]_vars

\* A run is one coroutine on the event loop: it is resumed as long as it can
\* go on.  Nothing obliges a caller to cancel it.
FairSpec == Spec /\ WF_vars(Advance)

-----------------------------------------------------------------------------
(* Properties *)

CountersOK ==
  /\ phase \in Phases /\ step \in Nat /\ tokens \in Nat
  /\ correction \in 0..SelfCorrectionMax
  /\ verifyAttempt \in 0..VerifyRetryMax
  /\ status \in Statuses \cup {None}
  /\ compactions \in Nat /\ effectiveMax \in Nat /\ sinceProgress \in Nat
  /\ lastSignature \in Signatures \cup {None} /\ repeatCount \in Nat
  /\ terminal \in ActFailures \cup {None}
  /\ verdict \in {"none", "passed", "failed"} /\ reflections \in Nat
  /\ lastBatch \in Signatures \cup {None} /\ sameBatch \in Nat
  /\ lastTouch \in Nat

FlagsOK ==
  /\ hasSpec \in BOOLEAN /\ verifyFailed \in BOOLEAN /\ extended \in BOOLEAN
  /\ completed \in BOOLEAN /\ loopDetected \in BOOLEAN /\ wrote \in BOOLEAN

\* Every variable has its type; the counters' upper bounds are invariants of
\* their own.
TypeOK == CountersOK /\ FlagsOK

\* However many verify-fix cycles a run goes through, the steps it takes stay
\* within max_steps, plus one extension if one was granted (the effective cap
\* is recomputed by every act phase, the extension flag is not).
StepBound == step <= MaxSteps + (IF extended THEN StepExtension ELSE 0)

\* The token budget is checked before a response, never after: the run
\* overshoots it by less than one response.
TokenOvershoot == tokens = 0 \/ \E u \in Usages : tokens < MaxTokens + u

\* The status tells the truth about the run: "success" is an answer that
\* verification accepted whenever there is a specification, and
\* "verification_failed" an answer refused with no retry left to it;
\* "max_steps" has no answer and has used the extension it was granted.
OutcomeMatchesRun ==
  /\ status = "success" => completed /\ (hasSpec => verdict = "passed")
  /\ status = "verification_failed" =>
       /\ completed /\ hasSpec /\ verdict = "failed"
       /\ verifyAttempt = VerifyRetryMax \/ step >= MaxSteps
  /\ status = "max_steps" =>
       /\ ~completed
       /\ step = MaxSteps + (IF extended THEN StepExtension ELSE 0)

\* Each cycle gets its own self-correction budget and no more than that.
ReflectionBound == reflections <= SelfCorrectionMax * (verifyAttempt + 1)

\* Loop detection: the same batch of calls is never executed LoopThreshold
\* times in a row, whatever cycles and compactions come in between.
NoThrash == sameBatch < LoopThreshold

\* The limits of a run hold across all of its cycles.
Limits == StepBound /\ TokenOvershoot /\ ReflectionBound /\ NoThrash

\* The extension is granted, once in a run, only within ProgressWindow steps of
\* a batch that asked to write a target file: refused answers restart the count
\* of the steps without progress, never in favour of the run (loop.py, the
\* adaptive step budget; a batch counts whatever became of its calls).
ExtensionEarned ==
  [][/\ extended => extended'
     /\ extended' /\ ~extended => lastTouch' > 0 /\ step - lastTouch' <= ProgressWindow]_vars

\* What the comment over the extension promises: only real progress earns it, a
\* target file that was written.  Violated: a call that failed counts.
ExtensionIsProgress == [][extended' /\ ~extended => wrote']_vars

\* Every run comes to an end.
Terminates == <>~Running

\* The run as its caller sees it.
Stage ==
  CASE ~Running -> "ended"
    [] phase = "judge" /\ completed -> "answered"
    [] phase \in {"resolve", "record"} /\ completed /\ verifyFailed -> "rejected"
    [] phase \in {"resolve", "record"} /\ completed /\ ~verifyFailed -> "accepted"
    [] OTHER -> "working"

Outcome == IF phase = "done" THEN status
           ELSE IF Running THEN "none" ELSE "raised"

Contract == INSTANCE RunContract WITH
  Retries <- VerifyRetryMax,
  Failures <- ActFailures \cup {"max_steps", "loop_detected", "cancelled", "raised"},
  stage <- Stage, sentBack <- verifyAttempt, outcome <- Outcome

\* A run keeps the promise of RunContract: one outcome, reached through the
\* judgement of at most VerifyRetryMax + 1 answers.
KeepsContract == Contract!Spec

-----------------------------------------------------------------------------
(* What makes the invariants inductive *)

Acting == phase \in {"act", "generate", "tools"}
Cap == MaxSteps + (IF extended THEN StepExtension ELSE 0)

\* While the run works nothing is settled, and an answer excludes both ways of
\* giving up.
SettledInv ==
  /\ phase \in {"route", "plan"} \/ Acting =>
       ~completed /\ ~loopDetected /\ terminal = None
  /\ phase \notin {"record", "done"} => status = None
  /\ completed => terminal = None /\ ~loopDetected

\* An act phase works under the cap that the extension flag calls for, since
\* an extended run is never retried; a run that gives up with neither an
\* answer nor a failure has used the whole cap.
StepInv ==
  /\ step <= Cap
  /\ extended => step >= MaxSteps
  /\ phase \in {"route", "plan"} => step = 0 /\ ~extended /\ effectiveMax = MaxSteps
  /\ Acting => effectiveMax = Cap /\ step <= effectiveMax
  /\ phase \in {"judge", "resolve", "record"} /\ ~completed /\ ~loopDetected
       /\ terminal = None => step = Cap

\* After the judgement verify_failed says what verification said.
VerdictInv ==
  /\ phase \in {"resolve", "record"} /\ verifyFailed =>
       /\ completed /\ hasSpec /\ verdict = "failed"
       /\ verifyAttempt = VerifyRetryMax \/ step >= MaxSteps
  /\ phase \in {"resolve", "record"} /\ completed /\ hasSpec /\ ~verifyFailed =>
       verdict = "passed"
  /\ phase = "record" => status = FinalStatus

\* The loop detector's counter is the number of executed repetitions.
RepeatInv ==
  /\ phase \in {"route", "plan"} \/ Acting =>
       lastBatch = lastSignature /\ sameBatch = repeatCount
  /\ completed => lastBatch = None /\ sameBatch = 0

\* The correction budget is what this cycle may still inject.
CorrectionInv ==
  phase \in {"route", "plan"} \/ Acting =>
    reflections + correction <= SelfCorrectionMax * (verifyAttempt + 1)

BudgetInv == phase = "generate" => tokens < MaxTokens

\* steps_since_progress is never less than the steps since the latest batch that
\* asked for a write.
ProgressInv ==
  /\ phase \in {"route", "plan"} => sinceProgress = ProgressWindow + 1
  /\ phase = "act" /\ sinceProgress <= ProgressWindow =>
       lastTouch > 0 /\ step - lastTouch <= sinceProgress
  /\ phase \in {"generate", "tools"} =>
       /\ step > 0
       /\ sinceProgress <= ProgressWindow =>
            lastTouch > 0 /\ step - lastTouch <= sinceProgress + 1

IInv == /\ TypeOK /\ SettledInv /\ StepInv /\ VerdictInv /\ RepeatInv
        /\ CorrectionInv /\ ReflectionBound /\ BudgetInv /\ TokenOvershoot
        /\ NoThrash /\ ProgressInv /\ OutcomeMatchesRun

=============================================================================
