----------------------------- MODULE RunContract -----------------------------
(***************************************************************************)
(* What one agent run promises its caller, without the ReAct machinery:    *)
(* the run works, produces an answer, has the answer judged, may be sent   *)
(* back to work a bounded number of times, and ends exactly once with one  *)
(* outcome.  "success" is reachable only from an accepted answer.          *)
(*                                                                         *)
(* The promise is the one written on RunResult.status: success means that  *)
(* the model returned a final answer and, if a specification existed, that *)
(* verification passed.                                                    *)
(***************************************************************************)
EXTENDS Naturals

CONSTANTS Retries,   \* how many rejected answers may be sent back to work
          Failures   \* the outcomes of a run that stops without an answer

VARIABLES stage,     \* working, answered, accepted, rejected, ended
          sentBack,  \* rejected answers sent back to work so far
          outcome    \* the outcome the caller receives, or "none"

vars == <<stage, sentBack, outcome>>

Init == /\ stage = "working"
        /\ sentBack = 0
        /\ outcome = "none"

\* The model gives a final answer.
Answer == /\ stage = "working"
          /\ stage' = "answered"
          /\ UNCHANGED <<sentBack, outcome>>

\* The answer meets the acceptance criteria, or there are none.
Accept == /\ stage = "answered"
          /\ stage' = "accepted"
          /\ UNCHANGED <<sentBack, outcome>>

\* The answer is refused and the run goes back to work.
SendBack == /\ stage = "answered"
            /\ sentBack < Retries
            /\ stage' = "working"
            /\ sentBack' = sentBack + 1
            /\ UNCHANGED outcome

\* The answer is refused for good.
Reject == /\ stage = "answered"
          /\ stage' = "rejected"
          /\ UNCHANGED <<sentBack, outcome>>

\* The caller receives the outcome that the judgement calls for.
Report == /\ \/ stage = "accepted" /\ outcome' = "success"
             \/ stage = "rejected" /\ outcome' = "verification_failed"
          /\ stage' = "ended"
          /\ UNCHANGED sentBack

\* The run ends with no answer to report: a limit, a failure, a cancellation.
Fail == /\ stage # "ended"
        /\ stage' = "ended"
        /\ outcome' \in Failures
        /\ UNCHANGED sentBack

Next == Answer \/ Accept \/ SendBack \/ Reject \/ Report \/ Fail

Spec == Init /\ [][Next]_vars

=============================================================================
