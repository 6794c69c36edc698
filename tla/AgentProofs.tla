---------------------------- MODULE AgentProofs -----------------------------
(***************************************************************************)
(* What a run of the loop and the agents it delegates to keep, for every    *)
(* value of the constants.  A run stays within its limits and ends as its   *)
(* outcome says.  The meet of authorities is the greatest lower bound of    *)
(* the order Within, and a tree of spawns stays within it for every set of  *)
(* tools, patterns, delegations and policies and for trees of any size;     *)
(* items are isolated and fail alone for any number of them, of files and   *)
(* of stages, and whatever is cancelled when.                               *)
(***************************************************************************)
EXTENDS AgentLoop, MCSubagents, TLAPS

-----------------------------------------------------------------------------
(* The loop *)

\* The flags stay Boolean: every action assigns them a truth value or keeps
\* them.
LEMMA FlagsStep == FlagsOK /\ [Next]_vars => FlagsOK'
<1> SUFFICES ASSUME FlagsOK, [Next]_vars PROVE FlagsOK'
  OBVIOUS
<1> USE DEF FlagsOK, bodyVars, fieldVars, actVars, history
<1>1. CASE Route \/ SkipPlan \/ Plan \/ PlanFails
  BY <1>1, Zenon DEF Route, SkipPlan, Plan, PlanFails
<1>2. CASE Timeout \/ OverBudget \/ OverQuota \/ ProviderFails \/ Thrashing
  BY <1>2, Zenon DEF Timeout, OverBudget, OverQuota, ProviderFails, Thrashing
<1>3. CASE BeginStep \/ StepsExhausted
  BY <1>3, Zenon DEF BeginStep, StepsExhausted
<1>4. ASSUME NEW u \in Usages, FinalAnswer(u) PROVE FlagsOK'
  BY <1>4, Zenon DEF FinalAnswer
<1>5. ASSUME NEW u \in Usages, NEW s \in Signatures, ToolCalls(u, s) PROVE FlagsOK'
  BY <1>5, Zenon DEF ToolCalls
<1>6. ASSUME NEW n \in FailedCalls, NEW t \in BOOLEAN, NEW w \in BOOLEAN,
         ExecuteTools(n, t, w) PROVE FlagsOK'
  BY <1>6, Zenon DEF ExecuteTools
<1>7. CASE SkipVerify \/ VerifyPasses \/ VerifyFailsForGood \/ VerifyFailsAndRetries
  BY <1>7, Zenon DEF SkipVerify, VerifyPasses, VerifyFailsForGood, VerifyFailsAndRetries
<1>8. CASE Resolve \/ Return \/ Cancel \/ Raise \/ Escape
  BY <1>8, Zenon DEF Resolve, Return, Cancel, Raise, Escape
<1>9. CASE UNCHANGED vars
  BY <1>9, Zenon DEF vars
<1> QED
  BY <1>1, <1>2, <1>3, <1>4, <1>5, <1>6, <1>7, <1>8, <1>9, Zenon DEF Next, Advance

\* The counters, the phase and the statuses keep their types.
LEMMA CountersStep == CountersOK /\ [Next]_vars => CountersOK'
<1> SUFFICES ASSUME CountersOK, [Next]_vars PROVE CountersOK'
  OBVIOUS
<1> USE LoopAssumption, SignatureAssumption
    DEF LoopAssumption, NoProgress, CountersOK, Phases, Statuses, ActFailures, None,
        bodyVars, fieldVars, actVars, history
<1>1. CASE Route \/ SkipPlan \/ Plan \/ PlanFails
  BY <1>1 DEF Route, SkipPlan, Plan, PlanFails
<1>2. CASE Timeout
  BY <1>2 DEF Timeout, ActFails
<1>3. CASE OverBudget \/ OverQuota \/ ProviderFails
  BY <1>3 DEF OverBudget, OverQuota, ProviderFails, ActFails
<1>4. CASE Thrashing
  BY <1>4 DEF Thrashing, ActFails
<1>5. CASE BeginStep \/ StepsExhausted
  BY <1>5 DEF BeginStep, StepsExhausted
<1>6. ASSUME NEW u \in Usages, FinalAnswer(u) PROVE CountersOK'
  BY <1>6 DEF FinalAnswer
<1>7. ASSUME NEW u \in Usages, NEW s \in Signatures, ToolCalls(u, s) PROVE CountersOK'
  BY <1>7 DEF ToolCalls, Repeats
<1>8. ASSUME NEW n \in FailedCalls, NEW t \in BOOLEAN, NEW w \in BOOLEAN,
         ExecuteTools(n, t, w) PROVE CountersOK'
  BY <1>8 DEF ExecuteTools, CorrectionLeft, Reflections, Extends
<1>9. CASE SkipVerify \/ VerifyPasses \/ VerifyFailsForGood
  BY <1>9 DEF SkipVerify, VerifyPasses, VerifyFailsForGood
<1>10. CASE VerifyFailsAndRetries
  BY <1>10 DEF VerifyFailsAndRetries, CanRetry
<1>11. CASE Resolve \/ Return
  BY <1>11 DEF Resolve, Return, FinalStatus
<1>12. CASE Cancel \/ Raise \/ Escape
  BY <1>12 DEF Cancel, Raise, Escape
<1>13. CASE UNCHANGED vars
  BY <1>13 DEF vars
<1> QED
  BY <1>1, <1>2, <1>3, <1>4, <1>5, <1>6, <1>7, <1>8, <1>9, <1>10, <1>11,
     <1>12, <1>13 DEF Next, Advance

\* Every variable keeps its type, whatever the limits are.
THEOREM TypeCorrect == Spec => []TypeOK
<1>1. Init => CountersOK
  BY LoopAssumption
  DEF LoopAssumption, NoProgress, Init, CountersOK, Phases, Statuses, ActFailures, None
<1>2. Init => FlagsOK
  BY Zenon DEF Init, FlagsOK
<1>3. TypeOK /\ [Next]_vars => TypeOK'
  BY FlagsStep, CountersStep DEF TypeOK
<1>4. QED BY <1>1, <1>2, <1>3, PTL DEF Spec, TypeOK

\* Every way out of the act phase settles exactly one thing.
LEMMA SettledStep ==
  TypeOK /\ SettledInv /\ [Next]_vars => SettledInv'
<1> SUFFICES ASSUME TypeOK, SettledInv, [Next]_vars PROVE SettledInv'
  OBVIOUS
<1> USE LoopAssumption
    DEF LoopAssumption, BudgetSpent, NoProgress, TypeOK, CountersOK, FlagsOK, SettledInv, Acting, None,
        bodyVars, fieldVars, actVars, history
<1>1. CASE Route \/ SkipPlan \/ PlanFails
  BY <1>1 DEF Route, SkipPlan, PlanFails
<1>2. CASE Plan
  BY <1>2 DEF Plan
<1>3. CASE Timeout
  BY <1>3 DEF Timeout, ActFails
<1>4. CASE OverBudget \/ OverQuota \/ ProviderFails \/ Thrashing
  BY <1>4 DEF OverBudget, OverQuota, ProviderFails, Thrashing, ActFails
<1>5. CASE BeginStep
  BY <1>5 DEF BeginStep
<1>6. CASE StepsExhausted
  BY <1>6 DEF StepsExhausted
<1>7. ASSUME NEW u \in Usages, FinalAnswer(u) PROVE SettledInv'
  BY <1>7 DEF FinalAnswer
<1>8. ASSUME NEW u \in Usages, NEW s \in Signatures, ToolCalls(u, s) PROVE SettledInv'
  BY <1>8 DEF ToolCalls, Repeats
<1>9. ASSUME NEW n \in FailedCalls, NEW t \in BOOLEAN, NEW w \in BOOLEAN,
         ExecuteTools(n, t, w) PROVE SettledInv'
  BY <1>9 DEF ExecuteTools, CorrectionLeft, Reflections, Extends
<1>10. CASE SkipVerify \/ VerifyPasses \/ VerifyFailsForGood
  BY <1>10 DEF SkipVerify, VerifyPasses, VerifyFailsForGood, NeedsVerify, CanRetry
<1>11. CASE VerifyFailsAndRetries
  BY <1>11 DEF VerifyFailsAndRetries, CanRetry, NeedsVerify
<1>12. CASE Resolve \/ Return
  BY <1>12 DEF Resolve, Return
<1>13. CASE Cancel \/ Raise \/ Escape
  BY <1>13 DEF Cancel, Raise, Escape, Running
<1>14. CASE UNCHANGED vars
  BY <1>14 DEF vars
<1> QED
  BY <1>1, <1>2, <1>3, <1>4, <1>5, <1>6, <1>7, <1>8, <1>9,
     <1>10, <1>11, <1>12, <1>13, <1>14 DEF Next, Advance

\* The cap and the step counter move together: an extension is granted at
\* the cap, and an extended run is past max_steps, where no retry is allowed.
LEMMA StepStep ==
  TypeOK /\ SettledInv /\ StepInv /\ [Next]_vars => StepInv'
<1> SUFFICES ASSUME TypeOK, SettledInv, StepInv, [Next]_vars PROVE StepInv'
  OBVIOUS
<1> USE LoopAssumption
    DEF LoopAssumption, BudgetSpent, NoProgress, TypeOK, CountersOK, FlagsOK, SettledInv, StepInv, Acting, Cap, None,
        bodyVars, fieldVars, actVars, history
<1>1. CASE Route \/ SkipPlan \/ PlanFails
  BY <1>1 DEF Route, SkipPlan, PlanFails
<1>2. CASE Plan
  BY <1>2 DEF Plan
<1>3. CASE Timeout
  BY <1>3 DEF Timeout, ActFails
<1>4. CASE OverBudget \/ OverQuota \/ ProviderFails \/ Thrashing
  BY <1>4 DEF OverBudget, OverQuota, ProviderFails, Thrashing, ActFails
<1>5. CASE BeginStep
  BY <1>5 DEF BeginStep
<1>6. CASE StepsExhausted
  BY <1>6 DEF StepsExhausted
<1>7. ASSUME NEW u \in Usages, FinalAnswer(u) PROVE StepInv'
  BY <1>7 DEF FinalAnswer
<1>8. ASSUME NEW u \in Usages, NEW s \in Signatures, ToolCalls(u, s) PROVE StepInv'
  BY <1>8 DEF ToolCalls, Repeats
<1>9. ASSUME NEW n \in FailedCalls, NEW t \in BOOLEAN, NEW w \in BOOLEAN,
         ExecuteTools(n, t, w) PROVE StepInv'
  BY <1>9 DEF ExecuteTools, CorrectionLeft, Reflections, Extends
<1>10. CASE SkipVerify \/ VerifyPasses \/ VerifyFailsForGood
  BY <1>10 DEF SkipVerify, VerifyPasses, VerifyFailsForGood, NeedsVerify, CanRetry
<1>11. CASE VerifyFailsAndRetries
  BY <1>11 DEF VerifyFailsAndRetries, CanRetry, NeedsVerify
<1>12. CASE Resolve \/ Return
  BY <1>12 DEF Resolve, Return
<1>13. CASE Cancel \/ Raise \/ Escape
  BY <1>13 DEF Cancel, Raise, Escape, Running
<1>14. CASE UNCHANGED vars
  BY <1>14 DEF vars
<1> QED
  BY <1>1, <1>2, <1>3, <1>4, <1>5, <1>6, <1>7, <1>8, <1>9,
     <1>10, <1>11, <1>12, <1>13, <1>14 DEF Next, Advance

\* Verification decides verify_failed, and the final status follows.
LEMMA VerdictStep ==
  TypeOK /\ SettledInv /\ VerdictInv /\ [Next]_vars => VerdictInv'
<1> SUFFICES ASSUME TypeOK, SettledInv, VerdictInv, [Next]_vars PROVE VerdictInv'
  OBVIOUS
<1> USE LoopAssumption
    DEF LoopAssumption, BudgetSpent, NoProgress, TypeOK, CountersOK, FlagsOK, SettledInv, VerdictInv, Acting, FinalStatus, None,
        bodyVars, fieldVars, actVars, history
<1>1. CASE Route \/ SkipPlan \/ PlanFails
  BY <1>1 DEF Route, SkipPlan, PlanFails
<1>2. CASE Plan
  BY <1>2 DEF Plan
<1>3. CASE Timeout
  BY <1>3 DEF Timeout, ActFails
<1>4. CASE OverBudget \/ OverQuota \/ ProviderFails \/ Thrashing
  BY <1>4 DEF OverBudget, OverQuota, ProviderFails, Thrashing, ActFails
<1>5. CASE BeginStep
  BY <1>5 DEF BeginStep
<1>6. CASE StepsExhausted
  BY <1>6 DEF StepsExhausted
<1>7. ASSUME NEW u \in Usages, FinalAnswer(u) PROVE VerdictInv'
  BY <1>7 DEF FinalAnswer
<1>8. ASSUME NEW u \in Usages, NEW s \in Signatures, ToolCalls(u, s) PROVE VerdictInv'
  BY <1>8 DEF ToolCalls, Repeats
<1>9. ASSUME NEW n \in FailedCalls, NEW t \in BOOLEAN, NEW w \in BOOLEAN,
         ExecuteTools(n, t, w) PROVE VerdictInv'
  BY <1>9 DEF ExecuteTools, CorrectionLeft, Reflections, Extends
<1>10. CASE SkipVerify \/ VerifyPasses \/ VerifyFailsForGood
  BY <1>10 DEF SkipVerify, VerifyPasses, VerifyFailsForGood, NeedsVerify, CanRetry
<1>11. CASE VerifyFailsAndRetries
  BY <1>11 DEF VerifyFailsAndRetries, CanRetry, NeedsVerify
<1>12. CASE Resolve \/ Return
  BY <1>12 DEF Resolve, Return
<1>13. CASE Cancel \/ Raise \/ Escape
  BY <1>13 DEF Cancel, Raise, Escape, Running
<1>14. CASE UNCHANGED vars
  BY <1>14 DEF vars
<1> QED
  BY <1>1, <1>2, <1>3, <1>4, <1>5, <1>6, <1>7, <1>8, <1>9,
     <1>10, <1>11, <1>12, <1>13, <1>14 DEF Next, Advance

\* The detector's counter follows the executed batches.
LEMMA RepeatStep ==
  TypeOK /\ SettledInv /\ RepeatInv /\ [Next]_vars => RepeatInv'
<1> SUFFICES ASSUME TypeOK, SettledInv, RepeatInv, [Next]_vars PROVE RepeatInv'
  OBVIOUS
<1> USE LoopAssumption
    DEF LoopAssumption, BudgetSpent, NoProgress, TypeOK, CountersOK, FlagsOK, SettledInv, RepeatInv, Acting, None,
        bodyVars, fieldVars, actVars, history
<1>1. CASE Route \/ SkipPlan \/ PlanFails
  BY <1>1 DEF Route, SkipPlan, PlanFails
<1>2. CASE Plan
  BY <1>2 DEF Plan
<1>3. CASE Timeout
  BY <1>3 DEF Timeout, ActFails
<1>4. CASE OverBudget \/ OverQuota \/ ProviderFails \/ Thrashing
  BY <1>4 DEF OverBudget, OverQuota, ProviderFails, Thrashing, ActFails
<1>5. CASE BeginStep
  BY <1>5 DEF BeginStep
<1>6. CASE StepsExhausted
  BY <1>6 DEF StepsExhausted
<1>7. ASSUME NEW u \in Usages, FinalAnswer(u) PROVE RepeatInv'
  BY <1>7 DEF FinalAnswer
<1>8. ASSUME NEW u \in Usages, NEW s \in Signatures, ToolCalls(u, s) PROVE RepeatInv'
  BY <1>8 DEF ToolCalls, Repeats
<1>9. ASSUME NEW n \in FailedCalls, NEW t \in BOOLEAN, NEW w \in BOOLEAN,
         ExecuteTools(n, t, w) PROVE RepeatInv'
  BY <1>9 DEF ExecuteTools, CorrectionLeft, Reflections, Extends
<1>10. CASE SkipVerify \/ VerifyPasses \/ VerifyFailsForGood
  BY <1>10 DEF SkipVerify, VerifyPasses, VerifyFailsForGood, NeedsVerify, CanRetry
<1>11. CASE VerifyFailsAndRetries
  BY <1>11 DEF VerifyFailsAndRetries, CanRetry, NeedsVerify
<1>12. CASE Resolve \/ Return
  BY <1>12 DEF Resolve, Return
<1>13. CASE Cancel \/ Raise \/ Escape
  BY <1>13 DEF Cancel, Raise, Escape, Running
<1>14. CASE UNCHANGED vars
  BY <1>14 DEF vars
<1> QED
  BY <1>1, <1>2, <1>3, <1>4, <1>5, <1>6, <1>7, <1>8, <1>9,
     <1>10, <1>11, <1>12, <1>13, <1>14 DEF Next, Advance

\* A response is awaited only below the token budget.
LEMMA BudgetStep ==
  TypeOK /\ BudgetInv /\ [Next]_vars => BudgetInv'
<1> SUFFICES ASSUME TypeOK, BudgetInv, [Next]_vars PROVE BudgetInv'
  OBVIOUS
<1> USE LoopAssumption
    DEF LoopAssumption, BudgetSpent, NoProgress, TypeOK, CountersOK, FlagsOK, BudgetInv, None,
        bodyVars, fieldVars, actVars, history
<1>1. CASE Route \/ SkipPlan \/ PlanFails
  BY <1>1 DEF Route, SkipPlan, PlanFails
<1>2. CASE Plan
  BY <1>2 DEF Plan
<1>3. CASE Timeout
  BY <1>3 DEF Timeout, ActFails
<1>4. CASE OverBudget \/ OverQuota \/ ProviderFails \/ Thrashing
  BY <1>4 DEF OverBudget, OverQuota, ProviderFails, Thrashing, ActFails
<1>5. CASE BeginStep
  BY <1>5 DEF BeginStep
<1>6. CASE StepsExhausted
  BY <1>6 DEF StepsExhausted
<1>7. ASSUME NEW u \in Usages, FinalAnswer(u) PROVE BudgetInv'
  BY <1>7 DEF FinalAnswer
<1>8. ASSUME NEW u \in Usages, NEW s \in Signatures, ToolCalls(u, s) PROVE BudgetInv'
  BY <1>8 DEF ToolCalls, Repeats
<1>9. ASSUME NEW n \in FailedCalls, NEW t \in BOOLEAN, NEW w \in BOOLEAN,
         ExecuteTools(n, t, w) PROVE BudgetInv'
  BY <1>9 DEF ExecuteTools, CorrectionLeft, Reflections, Extends
<1>10. CASE SkipVerify \/ VerifyPasses \/ VerifyFailsForGood
  BY <1>10 DEF SkipVerify, VerifyPasses, VerifyFailsForGood, NeedsVerify, CanRetry
<1>11. CASE VerifyFailsAndRetries
  BY <1>11 DEF VerifyFailsAndRetries, CanRetry, NeedsVerify
<1>12. CASE Resolve \/ Return
  BY <1>12 DEF Resolve, Return
<1>13. CASE Cancel \/ Raise \/ Escape
  BY <1>13 DEF Cancel, Raise, Escape, Running
<1>14. CASE UNCHANGED vars
  BY <1>14 DEF vars
<1> QED
  BY <1>1, <1>2, <1>3, <1>4, <1>5, <1>6, <1>7, <1>8, <1>9,
     <1>10, <1>11, <1>12, <1>13, <1>14 DEF Next, Advance

\* So one response is all the budget can be overshot by.
LEMMA TokenStep ==
  TypeOK /\ BudgetInv /\ TokenOvershoot /\ [Next]_vars => TokenOvershoot'
<1> SUFFICES ASSUME TypeOK, BudgetInv, TokenOvershoot, [Next]_vars PROVE TokenOvershoot'
  OBVIOUS
<1> USE LoopAssumption
    DEF LoopAssumption, BudgetSpent, NoProgress, TypeOK, CountersOK, FlagsOK, BudgetInv, TokenOvershoot, None,
        bodyVars, fieldVars, actVars, history
<1>1. CASE Route \/ SkipPlan \/ PlanFails
  BY <1>1 DEF Route, SkipPlan, PlanFails
<1>2. CASE Plan
  BY <1>2 DEF Plan
<1>3. CASE Timeout
  BY <1>3 DEF Timeout, ActFails
<1>4. CASE OverBudget \/ OverQuota \/ ProviderFails \/ Thrashing
  BY <1>4 DEF OverBudget, OverQuota, ProviderFails, Thrashing, ActFails
<1>5. CASE BeginStep
  BY <1>5 DEF BeginStep
<1>6. CASE StepsExhausted
  BY <1>6 DEF StepsExhausted
<1>7. ASSUME NEW u \in Usages, FinalAnswer(u) PROVE TokenOvershoot'
  BY <1>7 DEF FinalAnswer
<1>8. ASSUME NEW u \in Usages, NEW s \in Signatures, ToolCalls(u, s) PROVE TokenOvershoot'
  BY <1>8 DEF ToolCalls, Repeats
<1>9. ASSUME NEW n \in FailedCalls, NEW t \in BOOLEAN, NEW w \in BOOLEAN,
         ExecuteTools(n, t, w) PROVE TokenOvershoot'
  BY <1>9 DEF ExecuteTools, CorrectionLeft, Reflections, Extends
<1>10. CASE SkipVerify \/ VerifyPasses \/ VerifyFailsForGood
  BY <1>10 DEF SkipVerify, VerifyPasses, VerifyFailsForGood, NeedsVerify, CanRetry
<1>11. CASE VerifyFailsAndRetries
  BY <1>11 DEF VerifyFailsAndRetries, CanRetry, NeedsVerify
<1>12. CASE Resolve \/ Return
  BY <1>12 DEF Resolve, Return
<1>13. CASE Cancel \/ Raise \/ Escape
  BY <1>13 DEF Cancel, Raise, Escape, Running
<1>14. CASE UNCHANGED vars
  BY <1>14 DEF vars
<1> QED
  BY <1>1, <1>2, <1>3, <1>4, <1>5, <1>6, <1>7, <1>8, <1>9,
     <1>10, <1>11, <1>12, <1>13, <1>14 DEF Next, Advance

\* A batch is executed only while the detector is below its threshold.
LEMMA ThrashStep ==
  TypeOK /\ SettledInv /\ RepeatInv /\ NoThrash /\ [Next]_vars => NoThrash'
<1> SUFFICES ASSUME TypeOK, SettledInv, RepeatInv, NoThrash, [Next]_vars PROVE NoThrash'
  OBVIOUS
<1> USE LoopAssumption
    DEF LoopAssumption, BudgetSpent, NoProgress, TypeOK, CountersOK, FlagsOK, SettledInv, RepeatInv, NoThrash, Acting, None,
        bodyVars, fieldVars, actVars, history
<1>1. CASE Route \/ SkipPlan \/ PlanFails
  BY <1>1 DEF Route, SkipPlan, PlanFails
<1>2. CASE Plan
  BY <1>2 DEF Plan
<1>3. CASE Timeout
  BY <1>3 DEF Timeout, ActFails
<1>4. CASE OverBudget \/ OverQuota \/ ProviderFails \/ Thrashing
  BY <1>4 DEF OverBudget, OverQuota, ProviderFails, Thrashing, ActFails
<1>5. CASE BeginStep
  BY <1>5 DEF BeginStep
<1>6. CASE StepsExhausted
  BY <1>6 DEF StepsExhausted
<1>7. ASSUME NEW u \in Usages, FinalAnswer(u) PROVE NoThrash'
  BY <1>7 DEF FinalAnswer
<1>8. ASSUME NEW u \in Usages, NEW s \in Signatures, ToolCalls(u, s) PROVE NoThrash'
  BY <1>8 DEF ToolCalls, Repeats
<1>9. ASSUME NEW n \in FailedCalls, NEW t \in BOOLEAN, NEW w \in BOOLEAN,
         ExecuteTools(n, t, w) PROVE NoThrash'
  BY <1>9 DEF ExecuteTools, CorrectionLeft, Reflections, Extends
<1>10. CASE SkipVerify \/ VerifyPasses \/ VerifyFailsForGood
  BY <1>10 DEF SkipVerify, VerifyPasses, VerifyFailsForGood, NeedsVerify, CanRetry
<1>11. CASE VerifyFailsAndRetries
  BY <1>11 DEF VerifyFailsAndRetries, CanRetry, NeedsVerify
<1>12. CASE Resolve \/ Return
  BY <1>12 DEF Resolve, Return
<1>13. CASE Cancel \/ Raise \/ Escape
  BY <1>13 DEF Cancel, Raise, Escape, Running
<1>14. CASE UNCHANGED vars
  BY <1>14 DEF vars
<1> QED
  BY <1>1, <1>2, <1>3, <1>4, <1>5, <1>6, <1>7, <1>8, <1>9,
     <1>10, <1>11, <1>12, <1>13, <1>14 DEF Next, Advance

\* The progress counter restarts at a write and grows with every other step.
LEMMA ProgressStep ==
  TypeOK /\ SettledInv /\ StepInv /\ ProgressInv /\ [Next]_vars => ProgressInv'
<1> SUFFICES ASSUME TypeOK, SettledInv, StepInv, ProgressInv, [Next]_vars PROVE ProgressInv'
  OBVIOUS
<1> USE LoopAssumption
    DEF LoopAssumption, BudgetSpent, NoProgress, TypeOK, CountersOK, FlagsOK, ProgressInv, None,
        bodyVars, fieldVars, actVars, history
<1>1. CASE Route \/ SkipPlan \/ PlanFails
  BY <1>1 DEF Route, SkipPlan, PlanFails
<1>2. CASE Plan
  BY <1>2 DEF Plan
<1>3. CASE Timeout
  BY <1>3 DEF Timeout, ActFails
<1>4. CASE OverBudget \/ OverQuota \/ ProviderFails \/ Thrashing
  BY <1>4 DEF OverBudget, OverQuota, ProviderFails, Thrashing, ActFails
<1>5. CASE BeginStep
  BY <1>5 DEF BeginStep
<1>6. CASE StepsExhausted
  BY <1>6 DEF StepsExhausted
<1>7. ASSUME NEW u \in Usages, FinalAnswer(u) PROVE ProgressInv'
  BY <1>7 DEF FinalAnswer
<1>8. ASSUME NEW u \in Usages, NEW s \in Signatures, ToolCalls(u, s) PROVE ProgressInv'
  BY <1>8 DEF ToolCalls, Repeats
<1>9. ASSUME NEW n \in FailedCalls, NEW t \in BOOLEAN, NEW w \in BOOLEAN,
         ExecuteTools(n, t, w) PROVE ProgressInv'
  BY <1>9 DEF ExecuteTools, CorrectionLeft, Reflections, Extends
<1>10. CASE SkipVerify \/ VerifyPasses \/ VerifyFailsForGood
  BY <1>10 DEF SkipVerify, VerifyPasses, VerifyFailsForGood, NeedsVerify, CanRetry
<1>11. CASE VerifyFailsAndRetries
  BY <1>11 DEF VerifyFailsAndRetries, CanRetry, NeedsVerify
<1>12. CASE Resolve \/ Return
  BY <1>12 DEF Resolve, Return
<1>13. CASE Cancel \/ Raise \/ Escape
  BY <1>13 DEF Cancel, Raise, Escape, Running
<1>14. CASE UNCHANGED vars
  BY <1>14 DEF vars
<1> QED
  BY <1>1, <1>2, <1>3, <1>4, <1>5, <1>6, <1>7, <1>8, <1>9,
     <1>10, <1>11, <1>12, <1>13, <1>14 DEF Next, Advance

\* The status is settled by Resolve and replaced only by a cancellation.
LEMMA OutcomeStep ==
  TypeOK /\ SettledInv /\ StepInv /\ VerdictInv /\ OutcomeMatchesRun /\ [Next]_vars => OutcomeMatchesRun'
<1> SUFFICES ASSUME TypeOK, SettledInv, StepInv, VerdictInv, OutcomeMatchesRun, [Next]_vars PROVE OutcomeMatchesRun'
  OBVIOUS
<1> USE LoopAssumption
    DEF LoopAssumption, BudgetSpent, NoProgress, TypeOK, CountersOK, FlagsOK, SettledInv, StepInv, VerdictInv, OutcomeMatchesRun, Acting, Cap, FinalStatus, ActFailures, Statuses, None,
        bodyVars, fieldVars, actVars, history
<1>1. CASE Route \/ SkipPlan \/ PlanFails
  BY <1>1 DEF Route, SkipPlan, PlanFails
<1>2. CASE Plan
  BY <1>2 DEF Plan
<1>3. CASE Timeout
  BY <1>3 DEF Timeout, ActFails
<1>4. CASE OverBudget \/ OverQuota \/ ProviderFails \/ Thrashing
  BY <1>4 DEF OverBudget, OverQuota, ProviderFails, Thrashing, ActFails
<1>5. CASE BeginStep
  BY <1>5 DEF BeginStep
<1>6. CASE StepsExhausted
  BY <1>6 DEF StepsExhausted
<1>7. ASSUME NEW u \in Usages, FinalAnswer(u) PROVE OutcomeMatchesRun'
  BY <1>7 DEF FinalAnswer
<1>8. ASSUME NEW u \in Usages, NEW s \in Signatures, ToolCalls(u, s) PROVE OutcomeMatchesRun'
  BY <1>8 DEF ToolCalls, Repeats
<1>9. ASSUME NEW n \in FailedCalls, NEW t \in BOOLEAN, NEW w \in BOOLEAN,
         ExecuteTools(n, t, w) PROVE OutcomeMatchesRun'
  BY <1>9 DEF ExecuteTools, CorrectionLeft, Reflections, Extends
<1>10. CASE SkipVerify \/ VerifyPasses \/ VerifyFailsForGood
  BY <1>10 DEF SkipVerify, VerifyPasses, VerifyFailsForGood, NeedsVerify, CanRetry
<1>11. CASE VerifyFailsAndRetries
  BY <1>11 DEF VerifyFailsAndRetries, CanRetry, NeedsVerify
<1>12. CASE Resolve \/ Return
  BY <1>12 DEF Resolve, Return
<1>13. CASE Cancel \/ Raise \/ Escape
  BY <1>13 DEF Cancel, Raise, Escape, Running
<1>14. CASE UNCHANGED vars
  BY <1>14 DEF vars
<1> QED
  BY <1>1, <1>2, <1>3, <1>4, <1>5, <1>6, <1>7, <1>8, <1>9,
     <1>10, <1>11, <1>12, <1>13, <1>14 DEF Next, Advance

\* Reflections are paid for by the budget of the current cycle.
LEMMA CorrectionStep ==
  TypeOK /\ CorrectionInv /\ ReflectionBound /\ [Next]_vars => (CorrectionInv /\ ReflectionBound)'
<1> SUFFICES ASSUME TypeOK, CorrectionInv, ReflectionBound, [Next]_vars PROVE (CorrectionInv /\ ReflectionBound)'
  OBVIOUS
<1> USE LoopAssumption
    DEF LoopAssumption, BudgetSpent, NoProgress, TypeOK, CountersOK, FlagsOK, CorrectionInv, ReflectionBound, Acting, None,
        bodyVars, fieldVars, actVars, history
<1>1. CASE Route \/ SkipPlan \/ PlanFails
  BY <1>1 DEF Route, SkipPlan, PlanFails
<1>2. CASE Plan
  BY <1>2 DEF Plan
<1>3. CASE Timeout
  BY <1>3 DEF Timeout, ActFails
<1>4. CASE OverBudget \/ OverQuota \/ ProviderFails \/ Thrashing
  BY <1>4 DEF OverBudget, OverQuota, ProviderFails, Thrashing, ActFails
<1>5. CASE BeginStep
  BY <1>5 DEF BeginStep
<1>6. CASE StepsExhausted
  BY <1>6 DEF StepsExhausted
<1>7. ASSUME NEW u \in Usages, FinalAnswer(u) PROVE (CorrectionInv /\ ReflectionBound)'
  BY <1>7 DEF FinalAnswer
<1>8. ASSUME NEW u \in Usages, NEW s \in Signatures, ToolCalls(u, s) PROVE (CorrectionInv /\ ReflectionBound)'
  BY <1>8 DEF ToolCalls, Repeats
<1>9. ASSUME NEW n \in FailedCalls, NEW t \in BOOLEAN, NEW w \in BOOLEAN,
         ExecuteTools(n, t, w) PROVE (CorrectionInv /\ ReflectionBound)'
  BY <1>9 DEF ExecuteTools, CorrectionLeft, Reflections, Extends
<1>10. CASE SkipVerify \/ VerifyPasses \/ VerifyFailsForGood
  BY <1>10 DEF SkipVerify, VerifyPasses, VerifyFailsForGood, NeedsVerify, CanRetry
<1>11. CASE VerifyFailsAndRetries
  BY <1>11 DEF VerifyFailsAndRetries, CanRetry, NeedsVerify
<1>12. CASE Resolve \/ Return
  BY <1>12 DEF Resolve, Return
<1>13. CASE Cancel \/ Raise \/ Escape
  BY <1>13 DEF Cancel, Raise, Escape, Running
<1>14. CASE UNCHANGED vars
  BY <1>14 DEF vars
<1> QED
  BY <1>1, <1>2, <1>3, <1>4, <1>5, <1>6, <1>7, <1>8, <1>9,
     <1>10, <1>11, <1>12, <1>13, <1>14 DEF Next, Advance

\* IInv holds of every reachable state.
THEOREM Invariance == Spec => []IInv
<1>1. Init => CountersOK
  BY LoopAssumption
  DEF LoopAssumption, NoProgress, Init, CountersOK, Phases, Statuses, ActFailures, None
<1>2. Init => FlagsOK
  BY Zenon DEF Init, FlagsOK
<1>3. Init => SettledInv /\ StepInv /\ VerdictInv /\ RepeatInv
  BY LoopAssumption
  DEF LoopAssumption, NoProgress, Init, SettledInv, StepInv, Cap, Acting, VerdictInv, RepeatInv, None
<1>4. Init => /\ CorrectionInv /\ ReflectionBound /\ BudgetInv /\ TokenOvershoot
              /\ NoThrash /\ ProgressInv /\ OutcomeMatchesRun
  BY LoopAssumption
  DEF LoopAssumption, NoProgress, Init, CorrectionInv, ReflectionBound, BudgetInv, TokenOvershoot,
      NoThrash, ProgressInv, OutcomeMatchesRun, Acting, None
<1>5. IInv /\ [Next]_vars => IInv'
  BY FlagsStep, CountersStep, SettledStep, StepStep, VerdictStep, RepeatStep, BudgetStep,
     TokenStep, ThrashStep, ProgressStep, OutcomeStep, CorrectionStep
  DEF IInv, TypeOK
<1>6. Init => IInv
  BY <1>1, <1>2, <1>3, <1>4 DEF IInv, TypeOK
<1>7. QED BY <1>5, <1>6, PTL DEF Spec

\* No run takes more than max_steps steps plus the one extension it may be
\* granted, over all its verify-fix cycles.
THEOREM StepsAreBounded == Spec => []StepBound
<1>1. IInv => StepBound
  BY DEF IInv, StepInv, StepBound, Cap
<1>2. QED BY <1>1, Invariance, PTL

\* The reported status is true of the run: in particular "success" is an
\* accepted answer.
THEOREM OutcomeIsTrue == Spec => []OutcomeMatchesRun
<1>1. IInv => OutcomeMatchesRun
  BY DEF IInv
<1>2. QED BY <1>1, Invariance, PTL

\* The spending limits: tokens, reflections and repeated batches.
THEOREM LimitsHold == Spec => []Limits
<1>1. IInv => Limits
  BY DEF IInv, StepInv, StepBound, Cap, Limits
<1>2. QED BY <1>1, Invariance, PTL

\* The adaptive extension is granted once, and only within ProgressWindow steps of
\* a batch that asked to write a target file, through any number of cycles.
THEOREM ExtensionIsEarned == Spec => ExtensionEarned
<1> DEFINE Earned == extended' /\ ~extended =>
                       lastTouch' > 0 /\ step - lastTouch' <= ProgressWindow
<1>1. IInv /\ [Next]_vars => [(extended => extended') /\ Earned]_vars
  <2> SUFFICES ASSUME IInv, [Next]_vars PROVE (extended => extended') /\ Earned
    OBVIOUS
  <2> USE DEF bodyVars, fieldVars, actVars, history
  <2>1. CASE \E n \in FailedCalls, t, w \in BOOLEAN : ExecuteTools(n, t, w)
    <3>1. PICK n \in FailedCalls, t \in BOOLEAN, w \in BOOLEAN : ExecuteTools(n, t, w)
      BY <2>1, Zenon
    <3>2. extended => extended'
      BY <3>1 DEF ExecuteTools
    <3>3. ASSUME extended', ~extended
          PROVE lastTouch' > 0 /\ step - lastTouch' <= ProgressWindow
      <4>1. /\ phase = "tools" /\ sinceProgress' <= ProgressWindow
            /\ sinceProgress' = (IF t THEN 0 ELSE sinceProgress + 1)
            /\ lastTouch' = (IF t THEN step ELSE lastTouch)
        BY <3>1, <3>3 DEF ExecuteTools, Extends
      <4> QED
        BY <4>1, LoopAssumption
        DEF LoopAssumption, BudgetSpent, IInv, TypeOK, CountersOK, ProgressInv
    <3> QED BY <3>2, <3>3
  <2>2. CASE ~\E n \in FailedCalls, t, w \in BOOLEAN : ExecuteTools(n, t, w)
    <3>1. UNCHANGED extended
      BY <2>2, Zenon
      DEF Next, Advance, vars, Route, SkipPlan, Plan, PlanFails, Timeout, OverBudget,
          OverQuota, Thrashing, BeginStep, StepsExhausted, ProviderFails, FinalAnswer,
          ToolCalls, SkipVerify, VerifyPasses, VerifyFailsAndRetries, VerifyFailsForGood,
          Resolve, Return, Cancel, Raise, Escape
    <3> QED BY <3>1
  <2> QED BY <2>1, <2>2
<1>2. QED BY <1>1, Invariance, PTL DEF Spec, ExtensionEarned

\* The run as its caller sees it is a RunContract: every step of the loop is
\* one of the contract's actions or invisible to the caller.
THEOREM Implementation == Spec => KeepsContract
<1> USE DEF Contract!vars, Contract!Answer, Contract!Accept, Contract!SendBack,
            Contract!Reject, Contract!Report, Contract!Fail, Contract!Next
<1>1. Init => Contract!Init
  BY DEF Init, Contract!Init, Stage, Outcome, Running
<1>2. IInv /\ [Next]_vars => [Contract!Next]_Contract!vars
  <2> SUFFICES ASSUME IInv, [Next]_vars PROVE [Contract!Next]_Contract!vars
    OBVIOUS
  <2> USE LoopAssumption
      DEF LoopAssumption, BudgetSpent, IInv, TypeOK, CountersOK, FlagsOK, SettledInv, VerdictInv,
          Acting, Stage, Outcome, Running, None, bodyVars, fieldVars, actVars, history
  <2>1. CASE Route \/ SkipPlan \/ Plan
    BY <2>1 DEF Route, SkipPlan, Plan
  <2>2. CASE PlanFails
    BY <2>2 DEF PlanFails, ActFailures
  <2>3. CASE Timeout
    BY <2>3 DEF Timeout, ActFails
  <2>4. CASE OverBudget \/ OverQuota \/ Thrashing \/ ProviderFails
    BY <2>4 DEF OverBudget, OverQuota, Thrashing, ProviderFails, ActFails
  <2>5. CASE BeginStep \/ StepsExhausted
    BY <2>5 DEF BeginStep, StepsExhausted
  <2>6. ASSUME NEW u \in Usages, FinalAnswer(u) PROVE [Contract!Next]_Contract!vars
    BY <2>6 DEF FinalAnswer
  <2>7. ASSUME NEW u \in Usages, NEW s \in Signatures, ToolCalls(u, s)
        PROVE [Contract!Next]_Contract!vars
    BY <2>7 DEF ToolCalls
  <2>8. ASSUME NEW n \in FailedCalls, NEW t \in BOOLEAN, NEW w \in BOOLEAN,
         ExecuteTools(n, t, w)
        PROVE [Contract!Next]_Contract!vars
    BY <2>8 DEF ExecuteTools
  <2>9. CASE SkipVerify
    BY <2>9 DEF SkipVerify, NeedsVerify
  <2>10. CASE VerifyPasses \/ VerifyFailsForGood
    BY <2>10 DEF VerifyPasses, VerifyFailsForGood, NeedsVerify
  <2>11. CASE VerifyFailsAndRetries
    BY <2>11 DEF VerifyFailsAndRetries, NeedsVerify, CanRetry
  <2>12. CASE Resolve
    BY <2>12 DEF Resolve
  <2>13. CASE Return
    <3>1. phase = "record" /\ phase' = "done" /\ status' = status /\ status = FinalStatus
      BY <2>13 DEF Return
    <3>2. ~completed /\ ~loopDetected /\ terminal = None => step >= MaxSteps
      BY <3>1 DEF StepInv, Cap
    <3>3. CASE ~completed
      <4>1. status \in ActFailures \cup {"max_steps", "loop_detected"}
        BY <3>1, <3>2, <3>3 DEF FinalStatus
      <4> QED BY <2>13, <3>1, <3>3, <4>1 DEF Return
    <3>4. CASE completed
      BY <2>13, <3>1, <3>4 DEF Return, FinalStatus
    <3> QED BY <3>3, <3>4
  <2>14. CASE Cancel \/ Raise \/ Escape
    BY <2>14 DEF Cancel, Raise, Escape
  <2>15. CASE UNCHANGED vars
    BY <2>15 DEF vars
  <2> QED
    BY <2>1, <2>2, <2>3, <2>4, <2>5, <2>6, <2>7, <2>8, <2>9, <2>10, <2>11, <2>12,
       <2>13, <2>14, <2>15 DEF Next, Advance
<1>3. QED BY <1>1, <1>2, Invariance, PTL DEF Spec, KeepsContract, Contract!Spec

-----------------------------------------------------------------------------
(* The lattice *)

\* Meeting keeps the type.
LEMMA MeetType ==
  ASSUME NEW a \in Authorities, NEW b \in Authorities
  PROVE  Meet(a, b) \in Authorities
<1>1. MeetTools(a.tools, b.tools) \in ToolSets
  BY DEF MeetTools, TheseTools, ToolSets, Authorities
<1> QED BY <1>1 DEF Meet, Authorities

\* meet never widens: its result is within both operands.
THEOREM MeetNarrows ==
  ASSUME NEW a \in Authorities, NEW b \in Authorities
  PROVE  Within(Meet(a, b), a) /\ Within(Meet(a, b), b)
<1>1. /\ ToolsWithin(MeetTools(a.tools, b.tools), a.tools)
      /\ ToolsWithin(MeetTools(a.tools, b.tools), b.tools)
  BY DEF MeetTools, TheseTools, ToolsWithin, ToolSets, Authorities
<1> QED BY <1>1 DEF Meet, Within, Authorities

\* meet takes away no more than it must: what is within both is within it.
THEOREM MeetGreatest ==
  ASSUME NEW a \in Authorities, NEW b \in Authorities, NEW c \in Authorities,
         Within(c, a), Within(c, b)
  PROVE  Within(c, Meet(a, b))
<1>1. ToolsWithin(c.tools, MeetTools(a.tools, b.tools))
  BY DEF MeetTools, TheseTools, ToolsWithin, ToolSets, Authorities, Within
<1> QED BY <1>1 DEF Meet, Within, Authorities

\* Within is transitive.
LEMMA WithinTransitive ==
  ASSUME NEW a \in Authorities, NEW b \in Authorities, NEW c \in Authorities,
         Within(a, b), Within(b, c)
  PROVE  Within(a, c)
<1>1. ToolsWithin(a.tools, c.tools)
  BY DEF ToolsWithin, ToolSets, Authorities, Within
<1> QED BY <1>1 DEF Within, Authorities

\* A narrower authority permits no more.
LEMMA PermitsMonotone ==
  ASSUME NEW a \in Authorities, NEW b \in Authorities, NEW t \in ToolNames,
         Within(a, b), Permits(a, t)
  PROVE  Permits(b, t)
<1>1. b.tools.any \/ t \in b.tools.names
  BY DEF Permits, Within, ToolsWithin, ToolSets, Authorities
<1>2. Requires[t] \subseteq b.capabilities
  BY DEF Permits, Within
<1> QED BY <1>1, <1>2 DEF Permits

-----------------------------------------------------------------------------
(* Types of what a spawn computes *)

LEMMA UnrestrictedType == Unrestricted \in Authorities
  BY DEF Unrestricted, Authorities, Capabilities, AnyTool, ToolSets

LEMMA FactorTypes ==
  ASSUME NEW p \in Policy, NEW tools \in SUBSET ToolNames
  PROVE  /\ PolicyFactor(p) \in Authorities
         /\ Surface(tools) \in Authorities
<1>1. FromPolicy(p) \in Authorities
  BY DEF FromPolicy, Authorities, Capabilities, AnyTool, ToolSets, Policy
<1>2. PolicyFactor(p) \in Authorities
  BY <1>1, UnrestrictedType DEF PolicyFactor
<1>3. UNION {Requires[t] : t \in tools} \subseteq Capabilities
  BY AuthorityAssumption DEF AuthorityAssumption
<1>4. Surface(tools) \in Authorities
  BY <1>3 DEF Surface, Authorities, TheseTools, ToolSets
<1> QED BY <1>2, <1>4

LEMMA ProjectedType ==
  ASSUME NEW p \in Policy, NEW e \in Authorities
  PROVE  Projected(p, e) \in Policy
BY DEF Projected, Policy, Levels, Authorities

LEMMA GateTypes ==
  /\ NoGate \in [set : BOOLEAN, authority : Authorities]
  /\ \A a \in Authorities : Gate(a) \in [set : BOOLEAN, authority : Authorities]
BY UnrestrictedType DEF NoGate, Gate

LEMMA FreshType ==
  ASSUME NEW p \in RootPolicies
  PROVE  FreshRegistry(p) \in Registries
BY TreeAssumption, GateTypes DEF TreeAssumption, FreshRegistry, Registries

-----------------------------------------------------------------------------
(* The inductive invariant *)

\* The root has a registry without a gate.
RootOpen == \A l \in DOMAIN loops : Root(l) => loops[l].registry.gate = NoGate

TreeInv == /\ loops \in Seq(Loop)
        /\ TreeTypeOK /\ RootOpen /\ Bounded /\ NoNewCalls /\ SpawnCapped

LEMMA TreeStarts == TreeInit => TreeInv
<1> SUFFICES ASSUME TreeInit PROVE TreeInv
  OBVIOUS
<1>1. PICK p \in RootPolicies :
        loops = <<[parent |-> 0, delegated |-> FALSE, fresh |-> TRUE,
                   authority |-> NoGate, registry |-> FreshRegistry(p)]>>
  BY DEF TreeInit
<1>2. loops \in Seq(Loop) /\ DOMAIN loops = {1} /\ Len(loops) = 1 /\ loops[1] \in Loop
  BY <1>1, FreshType, GateTypes, TreeAssumption DEF Loop, TreeAssumption
<1>3. /\ loops[1].parent = 0 /\ loops[1].delegated = FALSE
      /\ loops[1].authority.set = FALSE /\ loops[1].registry.gate = NoGate
  BY <1>1 DEF NoGate, FreshRegistry
<1>4. TreeTypeOK
  <2>1. Len(loops) <= MaxLoops
    BY <1>2, TreeAssumption DEF TreeAssumption
  <2>2. \A l \in DOMAIN loops : loops[l] \in Loop /\ loops[l].parent < l
    BY <1>2, <1>3
  <2>3. \A l \in DOMAIN loops : loops[l].authority.set = loops[l].delegated
    BY <1>2, <1>3, Zenon
  <2> QED BY <2>1, <2>2, <2>3 DEF TreeTypeOK
<1>5. RootOpen
  BY <1>2, <1>3 DEF RootOpen
<1>6. Bounded /\ NoNewCalls /\ SpawnCapped
  BY <1>2, <1>3 DEF Bounded, NoNewCalls, SpawnCapped
<1> QED BY <1>2, <1>4, <1>5, <1>6 DEF TreeInv

\* A tree grows by one loop.
LEMMA Grown ==
  ASSUME loops \in Seq(Loop), NEW c \in Loop, loops' = Append(loops, c),
         NEW n, n = Len(loops) + 1
  PROVE  /\ loops' \in Seq(Loop) /\ Len(loops') = n /\ n \in Nat \ {0}
         /\ DOMAIN loops' = DOMAIN loops \cup {n}
         /\ \A l \in DOMAIN loops : l \in Nat /\ l # 0 /\ l < n /\ loops'[l] = loops[l]
         /\ loops'[n] = c
OBVIOUS

\* A registry scoped to what is within the gate of its base makes no call
\* possible that the base refuses.
LEMMA ScopedNarrows ==
  ASSUME NEW base \in Registries, NEW e \in Authorities,
         base.gate.set => Within(e, base.gate.authority),
         base.policy.set => base.policy.denies \subseteq e.denies
  PROVE  Callable(Scoped(base, e, Projected(base.policy, e))) \subseteq Callable(base)
<1> DEFINE r == Scoped(base, e, Projected(base.policy, e))
<1> SUFFICES ASSUME NEW c \in Callable(r)
             PROVE  c \in Callable(base)
  OBVIOUS
<1>1. /\ c \in [tool : ToolNames, matched : SUBSET Patterns]
      /\ Decision(r, c.tool, c.matched) # "deny"
  BY DEF Callable
<1> DEFINE t == c.tool
<1> DEFINE m == c.matched
<1>2. t \in ToolNames /\ m \in SUBSET Patterns
  BY <1>1
<1>3. r.tools = base.tools /\ r.gate = Gate(e) /\ r.policy = Projected(base.policy, e)
  BY DEF Scoped
<1>4. t \in base.tools /\ Permits(e, t)
  BY <1>1, <1>3 DEF Decision, Gate
<1>5. base.gate.set => Permits(base.gate.authority, t)
  <2> SUFFICES ASSUME base.gate.set PROVE Permits(base.gate.authority, t)
    OBVIOUS
  <2>1. base.gate.authority \in Authorities
    BY DEF Registries
  <2> QED BY <2>1, <1>2, <1>4, PermitsMonotone
<1>6. PolicyLevel(r.policy, t, m) # "deny" => PolicyLevel(base.policy, t, m) # "deny"
  <2>1. base.policy \in Policy
    BY DEF Registries
  <2>2. CASE ~base.policy.set \/ Gated[t] = "other"
    BY <2>2 DEF PolicyLevel
  <2>3. CASE base.policy.set /\ Gated[t] # "other"
    <3>1. base.policy.denies \subseteq r.policy.denies /\ r.policy.set
      BY <2>3, <1>3 DEF Projected
    <3>2. Gated[t] \in {"exec", "write", "read"}
      BY <2>3, <1>2, AuthorityAssumption DEF AuthorityAssumption
    <3>3. /\ r.policy.read = base.policy.read
          /\ r.policy.write \in {base.policy.write, "deny"}
          /\ r.policy.exec \in {base.policy.exec, "deny"}
      BY <1>3 DEF Projected
    <3> QED BY <2>3, <3>1, <3>2, <3>3 DEF PolicyLevel, Evaluate
  <2> QED BY <2>2, <2>3
<1>7. Decision(base, t, m) # "deny"
  <2>1. CASE Fixed[t] # "none"
    BY <2>1, <1>1, <1>3, <1>4, <1>5 DEF Decision
  <2>2. CASE Fixed[t] = "none"
    <3>1. PolicyLevel(r.policy, t, m) # "deny"
      BY <2>2, <1>1 DEF Decision
    <3> QED BY <2>2, <3>1, <1>4, <1>5, <1>6 DEF Decision
  <2> QED BY <2>1, <2>2
<1> QED BY <1>1, <1>7 DEF Callable

\* What the registries that a child may be given are.
LEMMA BaseTypes ==
  ASSUME TreeInv, NEW l \in DOMAIN loops, NEW base \in Bases(l)
  PROVE  /\ base \in Registries /\ base.policy \in Policy
         /\ base.tools \in SUBSET ToolNames
<1>1. loops[l].registry \in Registries
  BY DEF TreeInv, TreeTypeOK, Loop
<1>2. base \in Registries
  BY <1>1, FreshType DEF Bases
<1> QED BY <1>2 DEF Registries

\* What a loop holds is an authority.
LEMMA HeldType ==
  ASSUME TreeInv, NEW l \in DOMAIN loops
  PROVE  Held(l) \in Authorities
<1>1. loops[l] \in Loop
  BY DEF TreeInv, TreeTypeOK
<1>2. loops[l].authority.authority \in Authorities
  BY <1>1 DEF Loop
<1> QED BY <1>2, UnrestrictedType DEF Held

\* The effective authority is one, within the parent's and with the patterns of
\* the policy.
LEMMA EffectiveWithin ==
  ASSUME TreeInv, NEW l \in DOMAIN loops, NEW base \in Bases(l), NEW a \in Delegations
  PROVE  LET e == Effective(l, base, a) IN
         /\ e \in Authorities /\ Within(e, Held(l))
         /\ base.policy.set => base.policy.denies \subseteq e.denies
         /\ Projected(base.policy, e) \in Policy
<1> DEFINE e == Effective(l, base, a)
           d == Delegated(l, a)
           s == Surface(base.tools)
           q == PolicyFactor(base.policy)
<1>1. a \in Authorities /\ Held(l) \in Authorities
  BY HeldType, TreeAssumption DEF TreeAssumption
<1>2. s \in Authorities /\ q \in Authorities
  BY BaseTypes, FactorTypes
<1>3. d \in Authorities /\ Within(d, Held(l))
  BY <1>1, MeetType, MeetNarrows DEF Delegated
<1>4. Meet(d, s) \in Authorities /\ Within(Meet(d, s), d)
  BY <1>2, <1>3, MeetType, MeetNarrows
<1>5. e \in Authorities /\ Within(e, Meet(d, s)) /\ Within(e, q)
  BY <1>2, <1>4, MeetType, MeetNarrows DEF Effective
<1>6. Within(e, Held(l))
  BY <1>1, <1>3, <1>4, <1>5, WithinTransitive
<1>7. base.policy.set => base.policy.denies \subseteq e.denies
  BY <1>5 DEF Within, PolicyFactor, FromPolicy
<1>8. Projected(base.policy, e) \in Policy
  BY <1>5, BaseTypes, ProjectedType
<1> QED BY <1>5, <1>6, <1>7, <1>8

\* The invariant outlasts a spawn whose child is one that it allows.
LEMMA GrowTree ==
  ASSUME TreeInv, NEW l \in DOMAIN loops, NEW c \in Loop, Len(loops) < MaxLoops,
         loops' = Append(loops, c),
         c.parent = l, c.authority.set = c.delegated,
         c.delegated => /\ Within(c.authority.authority, Held(l))
                        /\ c.registry.gate = c.authority
                        /\ loops[l].authority.set => loops[l].authority.authority.canSpawn,
         (c.delegated /\ ~c.fresh /\ (Root(l) \/ loops[l].delegated)) =>
           Callable(c.registry) \subseteq Callable(loops[l].registry)
  PROVE  TreeInv'
<1>0. PICK n \in Nat : n = Len(loops) + 1
  BY DEF TreeInv
<1>1. /\ loops' \in Seq(Loop) /\ Len(loops') = n /\ n \in Nat \ {0}
      /\ DOMAIN loops' = DOMAIN loops \cup {n} /\ loops'[n] = c
      /\ \A k \in DOMAIN loops : k \in Nat /\ k # 0 /\ k < n /\ loops'[k] = loops[k]
  BY <1>0, Grown DEF TreeInv
<1>2. \A k \in DOMAIN loops :
        /\ loops[k] \in Loop /\ loops[k].parent < k
        /\ loops[k].parent # 0 => loops[k].parent \in DOMAIN loops
  <2> SUFFICES ASSUME NEW k \in DOMAIN loops
               PROVE /\ loops[k] \in Loop /\ loops[k].parent < k
                     /\ loops[k].parent # 0 => loops[k].parent \in DOMAIN loops
    OBVIOUS
  <2>1. loops[k] \in Loop /\ loops[k].parent < k
    BY DEF TreeInv, TreeTypeOK
  <2>2. loops[k].parent \in Nat
    BY <2>1, TreeAssumption DEF Loop, TreeAssumption
  <2> QED BY <2>1, <2>2 DEF TreeInv
<1>3. TreeTypeOK'
  <2>1. Len(loops') <= MaxLoops
    BY <1>0, <1>1, TreeAssumption DEF TreeInv, TreeAssumption
  <2>2. \A k \in DOMAIN loops' : loops'[k] \in Loop /\ loops'[k].parent < k
    BY <1>1, <1>2
  <2>3. \A k \in DOMAIN loops' : loops'[k].authority.set = loops'[k].delegated
    <3>1. \A k \in DOMAIN loops : loops'[k].authority.set = loops'[k].delegated
      BY <1>1, Zenon DEF TreeInv, TreeTypeOK
    <3>2. loops'[n].authority.set = loops'[n].delegated
      BY <1>1, Zenon
    <3> QED BY <3>1, <3>2, <1>1, Zenon
  <2> QED BY <2>1, <2>2, <2>3 DEF TreeTypeOK
<1>4. \A k \in DOMAIN loops : /\ Held(k)' = Held(k) /\ Parent(k)' = Parent(k)
                              /\ Root(k)' = Root(k)
  BY <1>1, Zenon DEF Held, Parent, Root
<1>5. /\ Parent(n)' = l /\ ~Root(n)' /\ Held(l)' = Held(l) /\ Root(l)' = Root(l)
      /\ loops'[l] = loops[l] /\ loops'[n] = c
  BY <1>1, <1>4 DEF Parent, Root
<1>6. \A k \in DOMAIN loops : loops[k].delegated => loops[k].parent # 0
  <2> SUFFICES ASSUME NEW k \in DOMAIN loops, loops[k].delegated, loops[k].parent = 0
               PROVE  FALSE
    OBVIOUS
  <2>1. loops[k].registry.gate = loops[k].authority
    BY DEF TreeInv, Bounded
  <2>2. loops[k].registry.gate = NoGate
    BY DEF TreeInv, RootOpen, Root
  <2>3. loops[k].authority.set = loops[k].delegated
    BY DEF TreeInv, TreeTypeOK
  <2> QED BY <2>1, <2>2, <2>3 DEF NoGate
<1>7. RootOpen'
  BY <1>1, <1>4, <1>5 DEF RootOpen, TreeInv
<1>8. Bounded'
  <2>1. \A k \in DOMAIN loops : loops[k].delegated =>
          Held(Parent(k))' = Held(Parent(k))
    BY <1>2, <1>4, <1>6 DEF Parent
  <2>2. \A k \in DOMAIN loops : loops'[k].delegated =>
          /\ Within(loops'[k].authority.authority, Held(Parent(k))')
          /\ loops'[k].registry.gate = loops'[k].authority
    BY <2>1, <1>1 DEF TreeInv, Bounded
  <2>3. c.delegated => Within(c.authority.authority, Held(Parent(n))')
    BY <1>5 DEF Held, Parent
  <2> QED BY <2>2, <2>3, <1>1 DEF Bounded
<1>9. NoNewCalls'
  <2> SUFFICES ASSUME NEW k \in DOMAIN loops', loops'[k].delegated, ~loops'[k].fresh,
                      NEW p, p = loops'[k].parent,
                      loops'[p].parent = 0 \/ loops'[p].delegated
               PROVE  Callable(loops'[k].registry) \subseteq Callable(loops'[p].registry)
    BY DEF NoNewCalls, Root, Parent, Callable
  <2>1. CASE k \in DOMAIN loops
    <3>1. loops'[k] = loops[k] /\ p \in DOMAIN loops
      BY <2>1, <1>1, <1>2, <1>6
    <3>2. loops'[p] = loops[p]
      BY <3>1, <1>1
    <3>3. Callable(loops[k].registry) \subseteq Callable(loops[p].registry)
      BY <2>1, <3>1, <3>2 DEF TreeInv, NoNewCalls, Root, Parent
    <3> QED BY <3>1, <3>2, <3>3
  <2>2. CASE k = n
    <3>1. loops'[k] = c /\ p = l /\ loops'[p] = loops[l]
      BY <2>2, <1>1
    <3>2. Callable(c.registry) \subseteq Callable(loops[l].registry)
      BY <3>1 DEF Root
    <3> QED BY <3>1, <3>2
  <2> QED BY <2>1, <2>2, <1>1
<1>10. SpawnCapped'
  <2>1. \A k \in DOMAIN loops :
          (loops'[k].delegated /\ loops'[Parent(k)'].authority.set)
            => loops'[Parent(k)'].authority.authority.canSpawn
    BY <1>1, <1>2, <1>6 DEF TreeInv, SpawnCapped, Parent
  <2> QED BY <2>1, <1>1, <1>5 DEF SpawnCapped, Parent
<1> QED BY <1>1, <1>3, <1>7, <1>8, <1>9, <1>10 DEF TreeInv

\* Delegating keeps the invariant.
LEMMA SpawnDelegatedKeeps ==
  ASSUME TreeInv, NEW l \in DOMAIN loops, SpawnDelegated(l)
  PROVE  TreeInv'
<1>1. PICK a \in Delegations, base \in Bases(l) :
        /\ MaySpawn(l, a)
        /\ LET e == Effective(l, base, a) IN
           loops' = Append(loops,
             [parent |-> l, delegated |-> TRUE, fresh |-> base # loops[l].registry,
              authority |-> Gate(e),
              registry |-> Scoped(base, e, ChildPolicy(base, e))])
  BY DEF SpawnDelegated
<1> DEFINE e == Effective(l, base, a)
           r == Scoped(base, e, Projected(base.policy, e))
           c == [parent |-> l, delegated |-> TRUE, fresh |-> base # loops[l].registry,
                 authority |-> Gate(e), registry |-> r]
<1>2. /\ e \in Authorities /\ Within(e, Held(l))
      /\ base.policy.set => base.policy.denies \subseteq e.denies
      /\ Projected(base.policy, e) \in Policy
  BY EffectiveWithin
<1>3. Len(loops) < MaxLoops /\ loops' = Append(loops, c)
  BY <1>1 DEF SpawnDelegated, ChildPolicy
<1> HIDE DEF e
<1>4. r \in Registries /\ Gate(e) \in [set : BOOLEAN, authority : Authorities]
  BY <1>2, BaseTypes, GateTypes DEF Scoped, Registries
<1>5. c \in Loop
  <2>1. l \in 0..MaxLoops
    BY TreeAssumption DEF TreeInv, TreeTypeOK, TreeAssumption
  <2> QED BY <2>1, <1>4 DEF Loop
<1>6. loops[l].authority.set => loops[l].authority.authority.canSpawn
  BY <1>1 DEF MaySpawn
<1>7. (~c.fresh /\ (Root(l) \/ loops[l].delegated)) =>
        Callable(r) \subseteq Callable(loops[l].registry)
  <2> SUFFICES ASSUME base = loops[l].registry, Root(l) \/ loops[l].delegated
               PROVE  Callable(r) \subseteq Callable(base)
    OBVIOUS
  <2>1. base.gate.set => Within(e, base.gate.authority)
    <3>1. CASE Root(l)
      BY <3>1 DEF TreeInv, RootOpen, NoGate
    <3>2. CASE loops[l].delegated
      <4>1. base.gate = loops[l].authority
        BY <3>2 DEF TreeInv, Bounded
      <4> QED BY <4>1, <1>2 DEF Held
    <3> QED BY <3>1, <3>2
  <2> QED BY <2>1, <1>2, BaseTypes, ScopedNarrows
<1>8. /\ c.parent = l /\ c.authority.set = c.delegated /\ c.delegated
      /\ c.authority.authority = e /\ c.registry = r /\ r.gate = c.authority
  BY DEF Gate, Scoped
<1> HIDE DEF c, r
<1> QED BY <1>2, <1>3, <1>5, <1>6, <1>7, <1>8, GrowTree

\* So does spawning without a delegation.
LEMMA SpawnUnrestrictedKeeps ==
  ASSUME TreeInv, NEW l \in DOMAIN loops, SpawnUnrestricted(l)
  PROVE  TreeInv'
<1>1. PICK base \in Bases(l) :
        loops' = Append(loops,
          [parent |-> l, delegated |-> FALSE, fresh |-> base # loops[l].registry,
           authority |-> NoGate, registry |-> base])
  BY DEF SpawnUnrestricted, OwnAuthority
<1> DEFINE c == [parent |-> l, delegated |-> FALSE, fresh |-> base # loops[l].registry,
                 authority |-> NoGate, registry |-> base]
<1>2. Len(loops) < MaxLoops /\ loops' = Append(loops, c)
  BY <1>1 DEF SpawnUnrestricted
<1>3. c \in Loop
  <2>1. l \in 0..MaxLoops
    BY TreeAssumption DEF TreeInv, TreeTypeOK, TreeAssumption
  <2> QED BY <2>1, BaseTypes, GateTypes DEF Loop
<1>4. c.parent = l /\ c.authority.set = c.delegated /\ ~c.delegated
  BY DEF NoGate
<1> HIDE DEF c
<1> QED BY <1>2, <1>3, <1>4, GrowTree

-----------------------------------------------------------------------------
(* The theorems *)

\* Every reachable tree satisfies the inductive invariant.
LEMMA TreeSteps == TreeInv /\ [TreeNext]_loops => TreeInv'
<1> SUFFICES ASSUME TreeInv, [TreeNext]_loops PROVE TreeInv'
  OBVIOUS
<1>1. ASSUME NEW l \in DOMAIN loops, SpawnDelegated(l) PROVE TreeInv'
  BY <1>1, SpawnDelegatedKeeps
<1>2. ASSUME NEW l \in DOMAIN loops, SpawnUnrestricted(l) PROVE TreeInv'
  BY <1>2, SpawnUnrestrictedKeeps
<1>3. CASE UNCHANGED loops
  BY <1>3 DEF TreeInv, TreeTypeOK, RootOpen, Bounded, NoNewCalls, SpawnCapped,
              Root, Parent, Held, Callable
<1> QED BY <1>1, <1>2, <1>3 DEF TreeNext

LEMMA TreeInductive == TreeSpec => []TreeInv
<1> QED BY TreeStarts, TreeSteps, PTL DEF TreeSpec

\* Every loop of the tree is well formed, whatever is delegated.
THEOREM TreeTyped == TreeSpec => []TreeTypeOK
<1>1. TreeInv => TreeTypeOK
  BY DEF TreeInv
<1> QED BY <1>1, TreeInductive, PTL

\* No delegation, at any depth, exceeds what its parent holds, and the gate of
\* the child's registry is the authority that the child believes to have.
THEOREM DelegationBounded == TreeSpec => []Bounded
<1>1. TreeInv => Bounded
  BY DEF TreeInv
<1> QED BY <1>1, TreeInductive, PTL

\* The gate and the projected policy together make no call possible that the
\* parent's registry refuses.
THEOREM DelegationNarrows == TreeSpec => []NoNewCalls
<1>1. TreeInv => NoNewCalls
  BY DEF TreeInv
<1> QED BY <1>1, TreeInductive, PTL

\* A loop whose authority does not let it spawn has no delegated children.
THEOREM SpawningCapped == TreeSpec => []SpawnCapped
<1>1. TreeInv => SpawnCapped
  BY DEF TreeInv
<1> QED BY <1>1, TreeInductive, PTL

\* The three together: no delegation gives more than its giver has.
THEOREM DelegationKept == TreeSpec => []DelegationLaw
<1>1. Bounded /\ NoNewCalls /\ SpawnCapped => DelegationLaw
  BY DEF DelegationLaw
<1> QED BY <1>1, DelegationBounded, DelegationNarrows, SpawningCapped, PTL

-----------------------------------------------------------------------------
(* The runs: the inductive invariant *)

\* Where an item stands agrees with what is known of its agent: isolated items
\* are of spawn_many, what is listed is being removed or has been, and a changed
\* file holds the change.
PlaceInv ==
  /\ script # "many" => isolated = {}
  /\ listed \subseteq isolated
  /\ \A i \in Items :
       /\ i \in listed => state[i] \in {"removing", "done"}
       /\ state[i] \in {"removing", "done"} => outcome[i] # "none"
       /\ i \in isolated /\ outcome[i] # "none" => state[i] \in {"removing", "done"}
       /\ outcome[i] = "cancelled" => main \in {"cancelling", "cancelled"}
       /\ \A f \in changed[i] : work[i][f] = i

\* Worktrees are there between the two calls of git, or after one was cut short.
CleanInv ==
  /\ late \subseteq cut /\ cut \subseteq isolated
  /\ \A i \in Items : state[i] \in {"ready", "done"} /\ i \notin cut => i \notin exists

\* What can be carried of an isolated agent's changes is in the workspace from its
\* integration on, and nothing that it did not change.
Arrived(i) == Fits(i) => \A f \in Carried(i) : files[f] # 0
ArrivedInv ==
  /\ \A i \in isolated : outcome[i] = "ok" => Arrived(i)
  /\ \A f \in Files : files[f] \in isolated => f \in changed[files[f]]

\* An item that is done has the result of its last agent, and its failures are
\* known.
ResultInv ==
  /\ main = "returned" => AllIn
  /\ \A i \in Items :
       /\ result[i] = IF state[i] = "done" THEN ResultOf(outcome[i]) ELSE "none"
       /\ i \in failed <=> state[i] = "done" /\ outcome[i] \in Fails
       /\ state[i] = "done" /\ outcome[i] = "ok" /\ script = "pipeline" => stage[i] = Stages

RunsInv == WorktreesTypeOK /\ PlaceInv /\ CleanInv /\ Isolation /\ ArrivedInv
        /\ ResultInv /\ EventsPaired

-----------------------------------------------------------------------------
(* How the agent of an item ends *)

\* The agent of item i ends with o: that is about item i alone, which goes on
\* with its next stage, has its worktree removed, or is done.
Turn(i, o) ==
  /\ stage' \in [Items -> 1..Stages] /\ state' \in [Items -> States]
  /\ outcome' \in [Items -> Outcomes] /\ result' \in [Items -> Results]
  /\ open' \subseteq open /\ failed' \subseteq Items
  /\ main' \in {main, "raised"} /\ (main' # main => main = "running")
  /\ \A j \in Items \ {i} :
       /\ state'[j] = state[j] /\ outcome'[j] = outcome[j]
       /\ result'[j] = result[j] /\ stage'[j] = stage[j]
       /\ (j \in failed') <=> (j \in failed)
  /\ state'[i] \in {"ready", "removing", "done"} /\ outcome'[i] = o
  /\ state'[i] = "ready" =>
       /\ script = "pipeline" /\ o = "ok"
       /\ result'[i] = result[i] /\ (i \in failed' <=> i \in failed)
  /\ state'[i] = "removing" =>
       /\ i \in isolated
       /\ result'[i] = result[i] /\ (i \in failed' <=> i \in failed)
  /\ state'[i] = "done" =>
       /\ result'[i] = ResultOf(o) /\ (i \in failed' <=> i \in failed \/ o \in Fails)
       /\ o # "cancelled" => i \notin open'
       /\ (o = "ok" /\ script = "pipeline") => stage'[i] = Stages

LEMMA EndsTurns ==
  ASSUME WorktreesTypeOK, NEW i \in Items, NEW o \in Outcomes \ {"none"}, Ends(i, o)
  PROVE  Turn(i, o) /\ state'[i] \in {"ready", "done"}
<1> USE WorktreesAssumption DEF WorktreesAssumption, Turn
<1>1. ResultOf(o) \in Results
  BY DEF ResultOf, Results, Outcomes, Fails
<1>2. CASE NextStage(i, o)
  BY <1>2 DEF Ends, NextStage, Closes, Fails, WorktreesTypeOK, States
<1>3. CASE ~NextStage(i, o)
  BY <1>1, <1>3 DEF Ends, NextStage, Spared, Closes, Fails, WorktreesTypeOK, States
<1> QED BY <1>2, <1>3

LEMMA OverTurns ==
  ASSUME WorktreesTypeOK, NEW i \in Items, NEW o \in Outcomes \ {"none"}, Over(i, o)
  PROVE  Turn(i, o) /\ (state'[i] = "removing" <=> i \in isolated)
<1>1. CASE i \in isolated
  BY <1>1 DEF Over, NothingToRemove, Turn, WorktreesTypeOK, States
<1>2. CASE i \notin isolated
  BY <1>2, EndsTurns DEF Over, NothingToRemove
<1> QED BY <1>1, <1>2

\* What the ends of agents leave alone.
Elsewhere == <<script, isolated, work, changed, origins>>

\* The steps in which the agent of item i ends.
EndsNow(i) ==
  \/ Refuse(i) \/ AddFails(i) \/ RunRaises(i) \/ StatusFails(i) \/ Integrate(i)
  \/ Remove(i) \/ (RunReturns(i) /\ i \notin isolated) \/ CancelItem(i)

\* Such a step with outcome o: the item was under way, and an isolated one has its
\* worktree removed, unless it never had one or that is what the step does.
TurnNow(i, o) ==
  /\ Turn(i, o) /\ UNCHANGED Elsewhere
  /\ state[i] # "done" /\ main # "returned"
  /\ o = "cancelled" => main \in {"cancelling", "cancelled"}
  /\ i \in isolated => \/ state'[i] = "removing" /\ state[i] \notin {"ready", "removing"}
                       \/ state'[i] = "done" /\ state[i] \in {"ready", "removing"}
  /\ i \in isolated /\ o = "ok" => Integrate(i) \/ outcome[i] = "ok"

LEMMA RunsTurn ==
  ASSUME RunsInv, NEW i \in Items, EndsNow(i)
  PROVE  \E o \in Outcomes \ {"none"} : TurnNow(i, o)
<1> USE DEF RunsInv, Elsewhere, TurnNow
<1>0. /\ {"ok", "domain", "raised", "cancelled"} \subseteq Outcomes \ {"none"}
      /\ Fails \subseteq {"domain", "raised"}
  BY DEF Outcomes, Fails
<1>1. state[i] # "done" => main # "returned"
  BY DEF ResultInv, AllIn
<1>2. CASE Refuse(i)
  <2>1. Turn(i, "domain") /\ state'[i] \in {"ready", "done"}
    BY <1>0, <1>2, EndsTurns DEF Refuse
  <2>2. state'[i] = "done"
    BY <2>1 DEF Turn
  <2> QED BY <1>0, <1>1, <1>2, <2>1, <2>2 DEF Refuse
<1>3. CASE AddFails(i)
  <2>1. PICK o \in Fails : Over(i, o)
    BY <1>3 DEF AddFails
  <2>2. Turn(i, o) /\ (state'[i] = "removing" <=> i \in isolated)
    BY <1>0, <2>1, OverTurns
  <2> QED BY <1>0, <1>1, <1>3, <2>2 DEF AddFails
<1>4. CASE RunRaises(i)
  <2>1. PICK o \in Fails : Over(i, o)
    BY <1>4 DEF RunRaises
  <2>2. Turn(i, o) /\ (state'[i] = "removing" <=> i \in isolated)
    BY <1>0, <2>1, OverTurns
  <2> QED BY <1>0, <1>1, <1>4, <2>2 DEF RunRaises
<1>5. CASE StatusFails(i)
  <2>1. PICK o \in Fails : Over(i, o)
    BY <1>5 DEF StatusFails
  <2>2. Turn(i, o) /\ (state'[i] = "removing" <=> i \in isolated)
    BY <1>0, <2>1, OverTurns
  <2> QED BY <1>0, <1>1, <1>5, <2>2 DEF StatusFails
<1>6. CASE Integrate(i)
  <2>1. PICK o \in {"ok", "raised"} : Over(i, o)
    BY <1>6 DEF Integrate
  <2>2. Turn(i, o) /\ (state'[i] = "removing" <=> i \in isolated)
    BY <1>0, <2>1, OverTurns
  <2>3. state[i] = "status" /\ UNCHANGED Elsewhere
    BY <1>6 DEF Integrate
  <2> QED BY <1>0, <1>1, <1>6, <2>2, <2>3
<1>7. CASE Remove(i)
  <2> DEFINE o == outcome[i]
  <2>1. o \in Outcomes \ {"none"} /\ i \in isolated /\ script = "many"
    BY <1>7 DEF Remove, PlaceInv, WorktreesTypeOK
  <2>2. Turn(i, o) /\ state'[i] \in {"ready", "done"}
    BY <1>7, <2>1, EndsTurns DEF Remove
  <2>3. state'[i] = "done"
    BY <2>1, <2>2 DEF Turn
  <2>4. o = "cancelled" => main \in {"cancelling", "cancelled"}
    BY DEF PlaceInv
  <2>5. state[i] = "removing" /\ UNCHANGED Elsewhere
    BY <1>7 DEF Remove
  <2>6. TurnNow(i, o)
    BY <1>1, <2>2, <2>3, <2>4, <2>5
  <2> QED BY <2>1, <2>6
<1>8. CASE RunReturns(i) /\ i \notin isolated
  <2>1. Turn(i, "ok")
    BY <1>0, <1>8, EndsTurns DEF RunReturns
  <2> QED BY <1>0, <1>1, <1>8, <2>1 DEF RunReturns
<1>9. CASE CancelItem(i)
  <2>1. /\ main = "cancelling" /\ state[i] # "done" /\ UNCHANGED Elsewhere
        /\ IF state[i] \in {"ready", "removing"} THEN Ends(i, "cancelled")
                                                 ELSE Over(i, "cancelled")
    BY <1>9 DEF CancelItem
  <2>2. CASE state[i] \in {"ready", "removing"}
    <3>1. Turn(i, "cancelled") /\ state'[i] \in {"ready", "done"}
      BY <1>0, <2>1, <2>2, EndsTurns
    <3>2. state'[i] = "done"
      BY <3>1 DEF Turn
    <3> QED BY <1>0, <1>1, <2>1, <2>2, <3>1, <3>2
  <2>3. CASE state[i] \notin {"ready", "removing"}
    <3>1. Turn(i, "cancelled") /\ (state'[i] = "removing" <=> i \in isolated)
      BY <1>0, <2>1, <2>3, OverTurns
    <3> QED BY <1>0, <1>1, <2>1, <2>3, <3>1
  <2> QED BY <2>2, <2>3
<1> QED BY <1>2, <1>3, <1>4, <1>5, <1>6, <1>7, <1>8, <1>9 DEF EndsNow

\* What else such a step changes.
LEMMA EndsAround ==
  ASSUME RunsInv, NEW i \in Items, EndsNow(i)
  PROVE  /\ listed \subseteq listed' /\ listed' \subseteq listed \cup {i}
         /\ i \in listed' /\ i \notin listed => state[i] = "status"
         /\ Integrate(i) => i \in listed'
         /\ cut \subseteq cut' /\ cut' \subseteq isolated /\ late' \subseteq cut'
         /\ \A j \in Items \ {i} : j \in exists' => j \in exists
         /\ exists' \subseteq isolated
         /\ state[i] \in {"ready", "removing"} /\ i \notin cut' => i \notin exists'
         /\ ~Integrate(i) => files' = files
<1> USE DEF RunsInv, WorktreesTypeOK, CleanInv
<1>1. CASE Refuse(i)
  BY <1>1 DEF Refuse, Integrate
<1>2. CASE AddFails(i)
  BY <1>2 DEF AddFails, Integrate
<1>3. CASE RunRaises(i)
  BY <1>3 DEF RunRaises, Integrate
<1>4. CASE StatusFails(i)
  BY <1>4 DEF StatusFails, Integrate
<1>5. CASE Integrate(i)
  BY <1>5 DEF Integrate
<1>6. CASE Remove(i)
  BY <1>6 DEF Remove, Integrate
<1>7. CASE RunReturns(i)
  BY <1>7 DEF RunReturns, Integrate
<1>8. CASE CancelItem(i)
  BY <1>8 DEF CancelItem, Integrate
<1> QED BY <1>1, <1>2, <1>3, <1>4, <1>5, <1>6, <1>7, <1>8 DEF EndsNow

\* The end of an agent keeps the invariant.
LEMMA EndsKeep ==
  ASSUME RunsInv, NEW i \in Items, EndsNow(i)
  PROVE  RunsInv'
<1> USE DEF RunsInv
<1>1. PICK o \in Outcomes \ {"none"} : TurnNow(i, o)
  BY RunsTurn
<1>2. Turn(i, o) /\ UNCHANGED Elsewhere
  BY <1>1 DEF TurnNow
<1>3. UNCHANGED <<script, isolated, work, changed, origins>>
  BY <1>2 DEF Elsewhere
<1>4. main' # "returned" /\ (main \in {"cancelling", "cancelled"} => main' = main)
  BY <1>1, <1>2 DEF TurnNow, Turn
<1>5. files' \in [Files -> Items \cup {0}]
  <2>1. CASE Integrate(i)
    BY <2>1 DEF Integrate, WorktreesTypeOK, Listed
  <2>2. CASE ~Integrate(i)
    BY <2>2, EndsAround DEF WorktreesTypeOK
  <2> QED BY <2>1, <2>2
<1>6. WorktreesTypeOK'
  <2>1. \A j \in Items : state'[j] \in {"adding", "status", "removing"} => j \in isolated'
    BY <1>2, <1>3 DEF Turn, WorktreesTypeOK
  <2>2. open' \cup exists' \cup late' \cup cut' \cup listed' \cup failed' \subseteq Items
    BY <1>2, EndsAround DEF Turn, WorktreesTypeOK
  <2>3. main' \in {"running", "raised", "returned", "cancelling", "cancelled"}
    BY <1>2 DEF Turn, WorktreesTypeOK
  <2>4. /\ stage' \in [Items -> 1..Stages] /\ state' \in [Items -> States]
        /\ outcome' \in [Items -> Outcomes] /\ result' \in [Items -> Results]
    BY <1>2 DEF Turn
  <2> QED BY <1>3, <1>5, <2>1, <2>2, <2>3, <2>4, EndsAround DEF WorktreesTypeOK
<1>7. PlaceInv'
  <2>1. listed' \subseteq isolated
    BY EndsAround DEF PlaceInv, WorktreesTypeOK
  <2>2. \A j \in Items \ {i} :
          /\ state'[j] = state[j] /\ outcome'[j] = outcome[j]
          /\ j \in listed' <=> j \in listed
    BY <1>2, EndsAround DEF Turn
  <2>3. i \in listed' => state'[i] \in {"removing", "done"}
    BY <1>1, <2>1 DEF TurnNow
  <2>4. outcome'[i] = o /\ o # "none" /\ (o = "cancelled" => main' \in {"cancelling", "cancelled"})
    BY <1>1, <1>2, <1>4 DEF TurnNow, Turn
  <2>5. i \in isolated => state'[i] \in {"removing", "done"}
    BY <1>1 DEF TurnNow
  <2> QED BY <1>3, <1>4, <2>1, <2>2, <2>3, <2>4, <2>5 DEF PlaceInv
<1>8. CleanInv'
  <2>1. state'[i] \in {"ready", "done"} /\ i \notin cut' => i \notin exists'
    <3>1. state'[i] = "ready" => isolated = {}
      BY <1>2 DEF Turn, PlaceInv
    <3> QED BY <1>1, <3>1, EndsAround DEF TurnNow
  <2>2. \A j \in Items \ {i} : state'[j] = state[j]
    BY <1>2 DEF Turn
  <2> QED BY <1>3, <2>1, <2>2, EndsAround DEF CleanInv
<1>9. Isolation'
  <2>1. CASE Integrate(i)
    <3>1. \A f \in Files : files'[f] \in {0, i, files[f]}
      BY <2>1 DEF Integrate, WorktreesTypeOK
    <3> QED BY <1>3, <2>1, <3>1, EndsAround, WorktreesAssumption
            DEF Isolation, WorktreesAssumption, WorktreesTypeOK
  <2>2. CASE ~Integrate(i)
    BY <1>3, <2>2, EndsAround DEF Isolation
  <2> QED BY <2>1, <2>2
<1>10. ArrivedInv'
  <2>1. CASE Integrate(i)
    <3>1. PICK shown \in Shown(i), copied \in SUBSET (Listed(i) \ Inner) :
            /\ IF Found(shown) \cap Inner = {}
                 THEN copied = Found(shown) /\ Over(i, "ok")
                 ELSE /\ Found(shown) \cap Tracked \subseteq copied
                      /\ copied \subseteq Found(shown)
                      /\ Over(i, "raised")
            /\ files' = [f \in Files |-> IF f \in copied THEN work[i][f] ELSE files[f]]
      BY <2>1 DEF Integrate
    <3>2. i \in isolated /\ copied \subseteq changed[i] /\ i # 0 /\ changed[i] \subseteq Files
      BY <2>1, <3>1, WorktreesAssumption
      DEF Integrate, WorktreesTypeOK, Listed, WorktreesAssumption
    <3>3. \A f \in copied : files'[f] = i
      BY <3>1, <3>2 DEF PlaceInv, WorktreesTypeOK
    <3>4. \A f \in Files \ copied : files'[f] = files[f]
      BY <3>1
    <3>5. outcome'[i] = "ok" /\ Fits(i) => copied = Carried(i)
      <4>1. Over(i, "raised") => outcome'[i] = "raised"
        BY OverTurns DEF Turn, Outcomes
      <4>2. Fits(i) => shown = Listed(i)
        BY <3>1 DEF Shown
      <4> QED BY <3>1, <4>1, <4>2 DEF Found, Listed, Carried
    <3>6. ASSUME NEW j \in isolated, outcome'[j] = "ok", Fits(j), NEW f \in Carried(j)
          PROVE  files'[f] # 0
      <4>1. CASE f \in copied
        BY <3>2, <3>3, <4>1
      <4>2. CASE f \notin copied
        <5>1. j # i /\ j \in Items
          BY <3>5, <3>6, <4>2 DEF WorktreesTypeOK
        <5>2. outcome[j] = "ok" /\ f \in Files
          BY <1>2, <3>6, <5>1 DEF Turn, WorktreesTypeOK, Carried
        <5> QED BY <3>4, <3>6, <4>2, <5>2 DEF ArrivedInv, Arrived
      <4> QED BY <4>1, <4>2
    <3>7. \A j : (Fits(j)' <=> Fits(j)) /\ Carried(j)' = Carried(j)
      BY <1>3 DEF Fits, Listed, Carried
    <3>8. \A f \in Files : files'[f] \in isolated => f \in changed[files'[f]]
      BY <3>2, <3>3, <3>4 DEF ArrivedInv
    <3> QED BY <1>3, <3>6, <3>7, <3>8 DEF ArrivedInv, Arrived
  <2>2. CASE ~Integrate(i)
    <3>1. \A j \in isolated : outcome'[j] = "ok" => outcome[j] = "ok"
      BY <1>1, <1>2, <2>2 DEF TurnNow, Turn, WorktreesTypeOK
    <3> QED BY <1>3, <2>2, <3>1, EndsAround DEF ArrivedInv, Arrived, Fits, Listed, Carried
  <2> QED BY <2>1, <2>2
<1>11. ResultInv'
  <2>1. /\ result[i] = "none" /\ i \notin failed /\ o \in Outcomes
    BY <1>1 DEF TurnNow, ResultInv
  <2>2. /\ result'[i] = IF state'[i] = "done" THEN ResultOf(o) ELSE "none"
        /\ i \in failed' <=> state'[i] = "done" /\ o \in Fails
        /\ state'[i] = "done" /\ o = "ok" /\ script = "pipeline" => stage'[i] = Stages
        /\ outcome'[i] = o
    BY <1>2, <2>1 DEF Turn
  <2>3. \A x : ResultOf(x)' = ResultOf(x)
    BY <1>3 DEF ResultOf
  <2>4. \A j \in Items \ {i} :
          /\ state'[j] = state[j] /\ outcome'[j] = outcome[j]
          /\ result'[j] = result[j] /\ stage'[j] = stage[j]
          /\ (j \in failed') <=> (j \in failed)
    BY <1>2 DEF Turn
  <2> QED BY <1>3, <1>4, <2>2, <2>3, <2>4 DEF ResultInv
<1>12. EventsPaired'
  BY <1>2 DEF Turn, EventsPaired
<1> QED BY <1>6, <1>7, <1>8, <1>9, <1>10, <1>11, <1>12

-----------------------------------------------------------------------------
(* The other steps *)

LEMMA StartKeeps ==
  ASSUME RunsInv, NEW i \in Items, Start(i)
  PROVE  RunsInv'
<1> USE DEF RunsInv, Start
<1>1. WorktreesTypeOK'
  BY DEF WorktreesTypeOK, States
<1>2. PlaceInv'
  BY DEF PlaceInv, WorktreesTypeOK
<1>3. CleanInv'
  BY DEF CleanInv, WorktreesTypeOK
<1>4. Isolation' /\ ArrivedInv'
  BY DEF Isolation, ArrivedInv, Arrived, Fits, Listed, Carried
<1>5. ResultInv'
  <2>1. \A x : ResultOf(x)' = ResultOf(x)
    BY DEF ResultOf
  <2> QED BY <2>1 DEF ResultInv, AllIn, WorktreesTypeOK
<1>6. EventsPaired'
  BY DEF EventsPaired, WorktreesTypeOK
<1> QED BY <1>1, <1>2, <1>3, <1>4, <1>5, <1>6

LEMMA AddKeeps ==
  ASSUME RunsInv, NEW i \in Items, Add(i)
  PROVE  RunsInv'
<1> USE DEF RunsInv, Add
<1>1. WorktreesTypeOK'
  BY DEF WorktreesTypeOK, States
<1>2. PlaceInv'
  BY DEF PlaceInv, WorktreesTypeOK
<1>3. CleanInv'
  BY DEF CleanInv, WorktreesTypeOK
<1>4. Isolation' /\ ArrivedInv'
  BY DEF Isolation, ArrivedInv, Arrived, Fits, Listed, Carried
<1>5. ResultInv'
  <2>1. \A x : ResultOf(x)' = ResultOf(x)
    BY DEF ResultOf
  <2> QED BY <2>1 DEF ResultInv, AllIn, WorktreesTypeOK
<1>6. EventsPaired'
  BY DEF EventsPaired, WorktreesTypeOK
<1> QED BY <1>1, <1>2, <1>3, <1>4, <1>5, <1>6

LEMMA IsolatedReturnKeeps ==
  ASSUME RunsInv, NEW i \in Items, RunReturns(i), i \in isolated
  PROVE  RunsInv'
<1> USE DEF RunsInv, RunReturns
<1>1. WorktreesTypeOK'
  BY DEF WorktreesTypeOK, States
<1>2. PlaceInv'
  BY DEF PlaceInv, WorktreesTypeOK
<1>3. CleanInv'
  BY DEF CleanInv, WorktreesTypeOK
<1>4. Isolation' /\ ArrivedInv'
  BY DEF Isolation, ArrivedInv, Arrived, Fits, Listed, Carried
<1>5. ResultInv'
  <2>1. \A x : ResultOf(x)' = ResultOf(x)
    BY DEF ResultOf
  <2> QED BY <2>1 DEF ResultInv, AllIn, WorktreesTypeOK
<1>6. EventsPaired'
  BY DEF EventsPaired, WorktreesTypeOK
<1> QED BY <1>1, <1>2, <1>3, <1>4, <1>5, <1>6

\* An agent that runs is not done with its worktree, nor listed.
LEMMA RunningIsOpen ==
  ASSUME RunsInv, NEW i \in Items, state[i] = "running"
  PROVE  i \notin listed /\ (i \in isolated => outcome[i] = "none")
BY DEF RunsInv, PlaceInv

\* What has arrived stays so while an agent that is not done goes on.
LEMMA ArrivedStays ==
  ASSUME RunsInv, NEW i \in Items, outcome[i] = "none",
         UNCHANGED <<files, isolated, outcome>>,
         \A f \in Files : files[f] = i /\ i \in isolated => f \in changed'[i],
         \A j \in Items \ {i} : changed'[j] = changed[j] /\ origins'[j] = origins[j]
  PROVE  ArrivedInv'
<1> USE DEF RunsInv
<1>1. \A j \in isolated : j \in Items
  BY DEF WorktreesTypeOK
<1>2. \A j \in Items \ {i} : (Fits(j)' <=> Fits(j)) /\ Carried(j)' = Carried(j)
  BY DEF Fits, Listed, Carried
<1>3. \A j \in isolated : outcome'[j] = "ok" => Arrived(j)'
  BY <1>1, <1>2 DEF ArrivedInv, Arrived
<1>4. \A f \in Files : files'[f] \in isolated' => f \in changed'[files'[f]]
  BY <1>1 DEF ArrivedInv
<1> QED BY <1>3, <1>4 DEF ArrivedInv

LEMMA EditKeeps ==
  ASSUME RunsInv, NEW i \in Items, NEW f \in Files, Edit(i, f)
  PROVE  RunsInv'
<1> USE DEF RunsInv, Edit, Rerooted
<1>0. /\ files' \in [Files -> Items \cup {0}] /\ work' \in [Items -> [Files -> Items \cup {0}]]
      /\ changed' \in [Items -> SUBSET Files]
      /\ \A j \in Items :
           /\ changed'[j] # {} => j \in isolated
           /\ \A g \in Files : /\ work'[j][g] \in {0, j}
                               /\ g \in changed'[j] => work'[j][g] = j
  <2>1. CASE i \in isolated
    <3>1. work'[i] = [work[i] EXCEPT ![f] = i] /\ changed'[i] = changed[i] \cup {f}
      BY <2>1 DEF WorktreesTypeOK
    <3>2. work[i] \in [Files -> Items \cup {0}]
      BY DEF WorktreesTypeOK
    <3>3. \A j \in Items \ {i} : work'[j] = work[j] /\ changed'[j] = changed[j]
      BY <2>1 DEF WorktreesTypeOK
    <3>4. \A g \in Files : /\ work'[i][g] \in {0, i}
                           /\ g \in changed'[i] => work'[i][g] = i
      BY <3>1, <3>2 DEF WorktreesTypeOK, PlaceInv
    <3>5. [work[i] EXCEPT ![f] = i] \in [Files -> Items \cup {0}]
      BY <3>2
    <3>6. work' = [work EXCEPT ![i] = [work[i] EXCEPT ![f] = i]]
      BY <2>1
    <3>7. work' \in [Items -> [Files -> Items \cup {0}]]
      BY <3>5, <3>6 DEF WorktreesTypeOK
    <3>8. files' = files /\ changed' \in [Items -> SUBSET Files]
      BY <2>1 DEF WorktreesTypeOK
    <3>9. \A j \in Items \ {i} :
            /\ changed[j] # {} => j \in isolated
            /\ \A g \in Files : /\ work[j][g] \in {0, j}
                                /\ g \in changed[j] => work[j][g] = j
      BY DEF WorktreesTypeOK, PlaceInv
    <3>10. files \in [Files -> Items \cup {0}]
      BY DEF WorktreesTypeOK
    <3> HIDE DEF RunsInv, Edit, Rerooted
    <3> QED BY <2>1, <3>3, <3>4, <3>7, <3>8, <3>9, <3>10
  <2>2. CASE i \notin isolated
    BY <2>2 DEF WorktreesTypeOK, PlaceInv
  <2> QED BY <2>1, <2>2
<1>1. WorktreesTypeOK'
  BY <1>0 DEF WorktreesTypeOK
<1>2. PlaceInv'
  BY <1>0 DEF PlaceInv
<1>3. CleanInv' /\ EventsPaired'
  BY DEF CleanInv, EventsPaired
<1>4. ResultInv'
  <2>1. \A x : ResultOf(x)' = ResultOf(x)
    BY DEF ResultOf
  <2> QED BY <2>1 DEF ResultInv, AllIn
<1>5. Isolation'
  BY DEF Isolation, WorktreesTypeOK
<1>6. ArrivedInv'
  <2>1. CASE i \in isolated
    <3>1. /\ UNCHANGED <<files, isolated, outcome, origins>>
          /\ \A j \in Items : changed[j] \subseteq changed'[j]
          /\ \A j \in Items \ {i} : changed'[j] = changed[j]
      BY <2>1 DEF WorktreesTypeOK
    <3>2. outcome[i] = "none"
      BY <2>1, RunningIsOpen
    <3>3. \A g \in Files : files[g] = i /\ i \in isolated => g \in changed'[i]
      BY <3>1 DEF ArrivedInv
    <3> QED BY <3>1, <3>2, <3>3, ArrivedStays
  <2>2. CASE i \notin isolated
    <3>1. /\ UNCHANGED <<isolated, outcome, changed, origins>> /\ i # 0
          /\ \A g \in Files : files'[g] \in {i, files[g]}
      BY <2>2, WorktreesAssumption DEF WorktreesTypeOK, WorktreesAssumption
    <3>2. \A j \in isolated : j \in Items /\ changed[j] \subseteq Files
      BY DEF WorktreesTypeOK
    <3>3. \A j : (Fits(j)' <=> Fits(j)) /\ Carried(j)' = Carried(j)
      BY <3>1 DEF Fits, Listed, Carried
    <3>4. \A j \in isolated : Carried(j) \subseteq Files
      BY <3>2 DEF Carried
    <3> QED BY <2>2, <3>1, <3>3, <3>4 DEF ArrivedInv, Arrived
  <2> QED BY <2>1, <2>2
<1> QED BY <1>1, <1>2, <1>3, <1>4, <1>5, <1>6

LEMMA RenameKeeps ==
  ASSUME RunsInv, NEW i \in Items, NEW f \in Files, NEW g \in Files, Rename(i, f, g)
  PROVE  RunsInv'
<1> USE DEF RunsInv, Rename, Rerooted
<1>0. /\ work' \in [Items -> [Files -> Items \cup {0}]]
      /\ changed' \in [Items -> SUBSET Files] /\ origins' \in [Items -> SUBSET Tracked]
      /\ \A j \in Items :
           /\ changed'[j] # {} => j \in isolated
           /\ origins'[j] \subseteq changed'[j]
           /\ \A h \in Files : /\ work'[j][h] \in {0, j}
                               /\ h \in changed'[j] => work'[j][h] = j
  <2> DEFINE moved == [h \in Files |-> IF h \in {f, g} THEN i ELSE work[i][h]]
  <2>1. work' = [work EXCEPT ![i] = moved]
    OBVIOUS
  <2>2. moved \in [Files -> Items \cup {0}]
    BY DEF WorktreesTypeOK
  <2>3. work' \in [Items -> [Files -> Items \cup {0}]] /\ work'[i] = moved
    BY <2>1, <2>2 DEF WorktreesTypeOK
  <2>4. changed'[i] = changed[i] \cup {f, g} /\ origins'[i] = origins[i] \cup {f}
    BY DEF WorktreesTypeOK
  <2>5. \A j \in Items \ {i} :
          work'[j] = work[j] /\ changed'[j] = changed[j] /\ origins'[j] = origins[j]
    BY DEF WorktreesTypeOK
  <2>6. changed' \in [Items -> SUBSET Files] /\ origins' \in [Items -> SUBSET Tracked]
    BY DEF WorktreesTypeOK
  <2>7. \A h \in Files : /\ moved[h] \in {0, i}
                         /\ h \in changed[i] \cup {f, g} => moved[h] = i
    BY DEF WorktreesTypeOK, PlaceInv
  <2>8. origins[i] \cup {f} \subseteq changed[i] \cup {f, g}
    BY DEF WorktreesTypeOK
  <2> HIDE DEF moved
  <2>9. \A h \in Files : /\ work'[i][h] \in {0, i}
                         /\ h \in changed'[i] => work'[i][h] = i
    BY <2>3, <2>4, <2>7
  <2>10. \A j \in Items \ {i} : \A h \in Files :
           /\ work'[j][h] \in {0, j}
           /\ h \in changed'[j] => work'[j][h] = j
    BY <2>5 DEF WorktreesTypeOK, PlaceInv
  <2>11. \A j \in Items : (changed'[j] # {} => j \in isolated) /\ origins'[j] \subseteq changed'[j]
    BY <2>4, <2>5, <2>8 DEF WorktreesTypeOK
  <2> QED BY <2>3, <2>6, <2>9, <2>10, <2>11
<1>1. WorktreesTypeOK'
  BY <1>0 DEF WorktreesTypeOK
<1>2. PlaceInv'
  BY <1>0 DEF PlaceInv
<1>3. CleanInv' /\ EventsPaired' /\ Isolation'
  BY DEF CleanInv, EventsPaired, Isolation
<1>4. ResultInv'
  <2>1. \A x : ResultOf(x)' = ResultOf(x)
    BY DEF ResultOf
  <2> QED BY <2>1 DEF ResultInv, AllIn
<1>5. ArrivedInv'
  <2>1. /\ UNCHANGED <<files, isolated, outcome>>
        /\ \A j \in Items : changed[j] \subseteq changed'[j]
        /\ \A j \in Items \ {i} : changed'[j] = changed[j] /\ origins'[j] = origins[j]
    BY DEF WorktreesTypeOK
  <2>2. outcome[i] = "none"
    BY RunningIsOpen
  <2>3. \A h \in Files : files[h] = i /\ i \in isolated => h \in changed'[i]
    BY <2>1 DEF ArrivedInv
  <2> QED BY <2>1, <2>2, <2>3, ArrivedStays
<1> QED BY <1>1, <1>2, <1>3, <1>4, <1>5

LEMMA CommitKeeps ==
  ASSUME RunsInv, NEW i \in Items, Commit(i)
  PROVE  RunsInv'
<1> USE DEF RunsInv, Commit
<1>1. WorktreesTypeOK'
  BY DEF WorktreesTypeOK
<1>2. PlaceInv'
  BY DEF PlaceInv, WorktreesTypeOK
<1>3. CleanInv' /\ EventsPaired' /\ Isolation'
  BY DEF CleanInv, EventsPaired, Isolation
<1>4. ResultInv'
  <2>1. \A x : ResultOf(x)' = ResultOf(x)
    BY DEF ResultOf
  <2> QED BY <2>1 DEF ResultInv, AllIn
<1>5. ArrivedInv'
  <2>1. /\ UNCHANGED <<files, isolated, outcome>>
        /\ \A j \in Items \ {i} : changed'[j] = changed[j] /\ origins'[j] = origins[j]
    BY DEF WorktreesTypeOK
  <2>2. outcome[i] = "none" /\ \A f \in Files : files[f] # i
    BY RunningIsOpen DEF Isolation
  <2> QED BY <2>1, <2>2, ArrivedStays
<1> QED BY <1>1, <1>2, <1>3, <1>4, <1>5

\* The script goes on, or git does what it was asked before the cancellation.
LEMMA ScriptKeeps ==
  ASSUME RunsInv, FanOutReturns \/ CancelScript \/ Cancelled \/ \E i \in Items : LateAdd(i)
  PROVE  RunsInv'
<1> USE DEF RunsInv, FanOutReturns, CancelScript, Cancelled, LateAdd
<1>1. CASE \E i \in Items : LateAdd(i)
  <2>1. PICK i \in Items : LateAdd(i)
    BY <1>1
  <2>2. i \in isolated /\ i \in cut
    BY <2>1 DEF CleanInv
  <2>3. WorktreesTypeOK' /\ PlaceInv'
    BY <2>1, <2>2 DEF WorktreesTypeOK, PlaceInv
  <2>4. CleanInv' /\ Isolation' /\ ArrivedInv' /\ EventsPaired'
    BY <2>1, <2>2 DEF CleanInv, Isolation, ArrivedInv, Arrived, Fits, Listed, Carried, EventsPaired
  <2>5. ResultInv'
    <3>1. \A x : ResultOf(x)' = ResultOf(x)
      BY <2>1 DEF ResultOf
    <3> QED BY <2>1, <3>1 DEF ResultInv, AllIn
  <2> QED BY <2>3, <2>4, <2>5
<1>2. CASE FanOutReturns \/ CancelScript \/ Cancelled
  <2>1. UNCHANGED <<script, isolated, stage, state, outcome, result, open, files,
                    work, changed, origins, exists, late, cut, listed, failed>>
    BY <1>2
  <2>2. /\ main' \in {"returned", "cancelling", "cancelled"}
        /\ main' = "returned" => AllIn
        /\ (\E i \in Items : outcome[i] = "cancelled") => main' \in {"cancelling", "cancelled"}
    BY <1>2 DEF PlaceInv
  <2>3. ResultInv'
    <3>1. \A x : ResultOf(x)' = ResultOf(x)
      BY <2>1 DEF ResultOf
    <3> QED BY <2>1, <2>2, <3>1 DEF ResultInv, AllIn
  <2>4. WorktreesTypeOK' /\ PlaceInv'
    BY <2>1, <2>2 DEF WorktreesTypeOK, PlaceInv
  <2>5. CleanInv' /\ Isolation' /\ ArrivedInv' /\ EventsPaired'
    BY <2>1 DEF CleanInv, Isolation, ArrivedInv, Arrived, Fits, Listed, Carried, EventsPaired
  <2> QED BY <2>3, <2>4, <2>5
<1> QED BY <1>1, <1>2

-----------------------------------------------------------------------------
(* Every behaviour *)

LEMMA RunsStart == WorktreesInit => RunsInv
<1> SUFFICES ASSUME WorktreesInit PROVE RunsInv
  OBVIOUS
<1> USE WorktreesAssumption DEF WorktreesInit, WorktreesAssumption
<1>1. WorktreesTypeOK
  BY DEF WorktreesTypeOK, States, Outcomes, Results
<1>2. PlaceInv /\ CleanInv /\ EventsPaired
  BY DEF PlaceInv, CleanInv, EventsPaired
<1>3. Isolation /\ ArrivedInv
  BY DEF Isolation, ArrivedInv
<1>4. ResultInv
  BY DEF ResultInv
<1> QED BY <1>1, <1>2, <1>3, <1>4 DEF RunsInv

LEMMA RunsStep ==
  ASSUME RunsInv, [WorktreesNext]_wvars
  PROVE  RunsInv'
<1>1. CASE \E i \in Items : EndsNow(i)
  BY <1>1, EndsKeep
<1>2. CASE \E i \in Items : Start(i) \/ Add(i)
  BY <1>2, StartKeeps, AddKeeps
<1>3. CASE \E i \in Items : RunReturns(i) /\ i \in isolated
  BY <1>3, IsolatedReturnKeeps
<1>4. CASE \E i \in Items : Commit(i)
  BY <1>4, CommitKeeps
<1>5. CASE \E i \in Items, f \in Files : Edit(i, f) \/ \E g \in Files : Rename(i, f, g)
  BY <1>5, EditKeeps, RenameKeeps
<1>6. CASE FanOutReturns \/ CancelScript \/ Cancelled \/ \E i \in Items : LateAdd(i)
  BY <1>6, ScriptKeeps
<1>7. CASE UNCHANGED wvars
  <2>1. \A x : ResultOf(x)' = ResultOf(x)
    BY <1>7 DEF ResultOf, wvars
  <2> QED BY <1>7, <2>1 DEF wvars, RunsInv, WorktreesTypeOK, PlaceInv, CleanInv,
             Isolation, ArrivedInv, Arrived, Fits, Listed, Carried, ResultInv, AllIn,
             EventsPaired
<1> QED BY <1>1, <1>2, <1>3, <1>4, <1>5, <1>6, <1>7 DEF WorktreesNext, Goes, EndsNow

LEMMA RunsInductive == WorktreesSpec => []RunsInv
<1>1. RunsInv /\ [WorktreesNext]_wvars => RunsInv'
  BY RunsStep
<1> QED BY RunsStart, <1>1, PTL DEF WorktreesSpec

\* The variables keep their types.
THEOREM WorktreesTyped == WorktreesSpec => []WorktreesTypeOK
<1>1. RunsInv => WorktreesTypeOK
  BY DEF RunsInv
<1> QED BY <1>1, RunsInductive, PTL

\* An item has a text exactly when its last agent returned.
LEMMA TextIsOk ==
  ASSUME RunsInv, NEW i \in Items
  PROVE  /\ result[i] = "text" => state[i] = "done" /\ outcome[i] = "ok"
         /\ result[i] = "error" => script = "many"
         /\ state[i] = "done" =>
              /\ outcome[i] \in Outcomes \ {"none"}
              /\ outcome[i] = "ok" => result[i] = "text"
              /\ result[i] = "none" => \/ outcome[i] = "raised" /\ script = "many"
                                       \/ outcome[i] = "cancelled"
<1>1. state[i] = "done" => outcome[i] \in {"ok", "domain", "raised", "cancelled"}
  BY DEF RunsInv, PlaceInv, WorktreesTypeOK, Outcomes
<1>2. result[i] = IF state[i] = "done" THEN ResultOf(outcome[i]) ELSE "none"
  BY DEF RunsInv, ResultInv
<1>3. script \in {"many", "parallel", "pipeline"}
  BY DEF RunsInv, WorktreesTypeOK
<1> QED BY <1>1, <1>2, <1>3 DEF ResultOf, Fails, Outcomes

\* Isolated agents leave no trace before they are integrated, and integration
\* touches nothing that they left alone; when the script has their text, what git
\* lists by its name has arrived, and their worktree is gone.
THEOREM IsolationKept == WorktreesSpec => []IsolationLaw
<1>1. RunsInv => IsolationLaw
  <2> SUFFICES ASSUME RunsInv PROVE IsolationLaw
    OBVIOUS
  <2>1. Cleaned
    BY DEF RunsInv, CleanInv, Cleaned
  <2>2. Isolation
    BY DEF RunsInv
  <2>3. Landed
    BY TextIsOk DEF RunsInv, ArrivedInv, Arrived, Landed, WorktreesTypeOK
  <2> QED BY <2>1, <2>2, <2>3 DEF IsolationLaw
<1> QED BY <1>1, RunsInductive, PTL

\* Items fail alone, the results of a script that goes on tell which failed, and
\* every started event is closed.
THEOREM FanOutKept == WorktreesSpec => []FanOutLaw
<1>1. RunsInv => FanOutLaw
  <2> SUFFICES ASSUME RunsInv PROVE FanOutLaw
    OBVIOUS
  <2>1. SiblingsSpared
    BY TextIsOk DEF RunsInv, PlaceInv, SiblingsSpared
  <2>2. ResultsTell
    <3> SUFFICES ASSUME main = "returned", NEW i \in Items
                 PROVE  /\ result[i] = "text" <=> i \notin failed
                        /\ (result[i] = "text" /\ script = "pipeline") => stage[i] = Stages
                        /\ result[i] = "error" => script = "many"
      BY DEF ResultsTell
    <3>1. state[i] = "done" /\ outcome[i] # "cancelled"
      BY DEF RunsInv, ResultInv, AllIn, PlaceInv
    <3>2. i \in failed <=> outcome[i] \in Fails
      BY <3>1 DEF RunsInv, ResultInv
    <3>3. outcome[i] \in Fails <=> outcome[i] # "ok"
      BY <3>1, TextIsOk DEF Fails, Outcomes
    <3> QED BY <3>1, <3>2, <3>3, TextIsOk DEF RunsInv, ResultInv
  <2>3. EventsPaired
    BY DEF RunsInv
  <2> QED BY <2>1, <2>2, <2>3 DEF FanOutLaw
<1> QED BY <1>1, RunsInductive, PTL

-----------------------------------------------------------------------------
(* The two together *)

\* There is the one that is not run as well, at its start for ever.
SubagentsInv ==
  /\ part \in {"tree", "runs"}
  /\ part = "tree" => TreeInv
  /\ part = "runs" => loops = <<>>
  /\ RunsInv

LEMMA SubagentsStart == MCInit => SubagentsInv
<1> SUFFICES ASSUME MCInit PROVE SubagentsInv
  OBVIOUS
<1>1. RunsInv
  BY RunsStart DEF MCInit
<1>2. part = "tree" => TreeInv
  BY TreeStarts DEF MCInit
<1> QED BY <1>1, <1>2 DEF MCInit, SubagentsInv

LEMMA SubagentsStep == SubagentsInv /\ [MCNext]_Vars => SubagentsInv'
<1> SUFFICES ASSUME SubagentsInv, [MCNext]_Vars PROVE SubagentsInv'
  OBVIOUS
<1>1. [WorktreesNext]_wvars /\ UNCHANGED part
  BY DEF MCNext, TreeStep, RunStep, Vars
<1>2. RunsInv'
  BY <1>1, RunsStep DEF SubagentsInv
<1>3. CASE part = "tree"
  <2>1. [TreeNext]_loops
    BY <1>3 DEF MCNext, TreeStep, RunStep, Vars
  <2> QED BY <1>1, <1>2, <1>3, <2>1, TreeSteps DEF SubagentsInv
<1>4. CASE part = "runs"
  <2>1. UNCHANGED loops
    BY <1>4 DEF MCNext, TreeStep, RunStep, Vars
  <2> QED BY <1>1, <1>2, <1>4, <2>1 DEF SubagentsInv
<1> QED BY <1>3, <1>4 DEF SubagentsInv

LEMMA SubagentsInductive == MCSpec => []SubagentsInv
<1> QED BY SubagentsStart, SubagentsStep, PTL DEF MCSpec

\* The loops of a tree and the items of a script keep their types.
THEOREM SubagentsTyped == MCSpec => []Typed
<1>1. SubagentsInv => Typed
  <2> SUFFICES ASSUME SubagentsInv PROVE TreeTypeOK /\ WorktreesTypeOK
    BY DEF Typed
  <2>1. WorktreesTypeOK
    BY DEF SubagentsInv, RunsInv
  <2>2. CASE part = "tree"
    BY <2>1, <2>2 DEF SubagentsInv, TreeInv
  <2>3. CASE part = "runs"
    BY <2>1, <2>3, TreeAssumption DEF SubagentsInv, TreeTypeOK
  <2> QED BY <2>2, <2>3 DEF SubagentsInv
<1> QED BY <1>1, SubagentsInductive, PTL
=============================================================================
