---------------------------- MODULE ToolDispatch ----------------------------
(***************************************************************************)
(* How AgentLoop executes the tool calls of one response                   *)
(* (_execute_tools, _batch_by_conflict, _run_tool_call): the calls are     *)
(* logged, grouped into batches by first fit, the calls of a batch run     *)
(* concurrently under asyncio.gather, batches follow each other, and the   *)
(* results are logged in the order of the calls.                           *)
(*                                                                         *)
(* A call is its id, the resource key derived from its arguments and       *)
(* whether its tool is read-only.  A key is a path as the model spelled    *)
(* it, or the name of the tool for a call without one; FileOf says what a  *)
(* key really touches.  The tool itself, its hooks and the permission gate *)
(* are their outcomes and their awaits.                                    *)
(***************************************************************************)
EXTENDS Integers, Sequences

CONSTANTS
  Ids,       \* call ids; an adapter may give the same one twice
  Keys,      \* resource keys
  FileOf,    \* the resource behind a key
  Requests   \* the lists of calls a response may ask for

Call == [id : Ids, key : Keys, readOnly : BOOLEAN]

ASSUME RequestsAssumption == \A r \in Requests : r \in Seq(Call) /\ r # <<>>

\* What a call ends with; "blocked" by a hook, "denied" by the permission gate.
Outcomes == {"ok", "failed", "denied", "blocked"}

VARIABLES
  phase,    \* where _execute_tools stands
  calls,    \* the requested calls
  done,     \* position in the loop of the phase: calls logged, placed, answered
  batchOf,  \* the batch of each placed call, from 1; 0 before
  current,  \* the batch that runs
  state,    \* where the coroutine of each call stands
  outcome,  \* what it ended with
  byId,     \* outcomes_by_id
  answer    \* the outcome that the logged result of each call reports

vars == <<phase, calls, done, batchOf, current, state, outcome, byId, answer>>

Phases == {"log", "place", "gather", "run", "record", "answer",
           "done", "raised", "cancelled"}
States == {"waiting", "hook", "gate", "running", "post", "settled", "cancelled"}
Ended == phase \in {"done", "raised", "cancelled"}
Pending == "none"
Count == Len(calls)

Init ==
  /\ phase = "log"
  /\ calls \in Requests
  /\ done = 0
  /\ batchOf = [i \in DOMAIN calls |-> 0]
  /\ current = 0
  /\ state = [i \in DOMAIN calls |-> "waiting"]
  /\ outcome = [i \in DOMAIN calls |-> Pending]
  /\ byId = [d \in Ids |-> Pending]
  /\ answer = [i \in DOMAIN calls |-> Pending]

-----------------------------------------------------------------------------
(* Logging and batching *)

\* Mutant of Last: the loop goes one call too far.
LastIsPast(i) == i > Count

\* The loops over the calls end with this one.
Last(i) == i = Count

\* One ToolCallEvent is emitted.
LogCall ==
  /\ phase = "log"
  /\ IF Last(done + 1)
       THEN done' = 0 /\ phase' = "place"
       ELSE done' = done + 1 /\ UNCHANGED phase
  /\ UNCHANGED <<calls, batchOf, current, state, outcome, byId, answer>>

\* The event store refuses an event: the exception leaves _execute_tools.
LogFails ==
  /\ phase \in {"log", "answer"}
  /\ phase' = "raised"
  /\ UNCHANGED <<calls, done, batchOf, current, state, outcome, byId, answer>>

\* Mutant of Conflicts: only two writers conflict.
WritersConflict(i, j) ==
  calls[i].key = calls[j].key /\ ~calls[i].readOnly /\ ~calls[j].readOnly

\* Two calls may not share a batch: the same key, not both read-only.
Conflicts(i, j) ==
  calls[i].key = calls[j].key /\ ~(calls[i].readOnly /\ calls[j].readOnly)

\* Batch b has room for call i beside the calls placed before it.
Fits(i, b) == \A j \in DOMAIN calls : batchOf[j] = b => ~Conflicts(j, i)

\* The next call goes into the first batch it fits in, an empty one at worst.
Place ==
  /\ phase = "place"
  /\ LET i == done + 1 IN
     /\ \E b \in 1..(done + 1) :
          /\ Fits(i, b)
          /\ \A c \in 1..(b - 1) : ~Fits(i, c)
          /\ batchOf' = [batchOf EXCEPT ![i] = b]
     /\ IF Last(i)
          THEN done' = 0 /\ phase' = "gather"
          ELSE done' = i /\ UNCHANGED phase
  /\ UNCHANGED <<calls, current, state, outcome, byId, answer>>

-----------------------------------------------------------------------------
(* The batches *)

\* Mutant of BatchSettled: the batch is left when one of its calls is in.
BatchBegun(b) == \E i \in DOMAIN calls : batchOf[i] = b /\ state[i] = "settled"

BatchSettled(b) == \A i \in DOMAIN calls : batchOf[i] = b => state[i] = "settled"

\* The next batch is gathered: its calls are scheduled together.
Gather ==
  /\ phase = "gather"
  /\ \E i \in DOMAIN calls : batchOf[i] = current + 1
  /\ current' = current + 1
  /\ state' = [i \in DOMAIN calls |->
                 IF batchOf[i] = current + 1 THEN "hook" ELSE state[i]]
  /\ phase' = "run"
  /\ UNCHANGED <<calls, done, batchOf, outcome, byId, answer>>

GatherReturns ==
  /\ phase = "run"
  /\ BatchSettled(current)
  /\ phase' = "record"
  /\ UNCHANGED <<calls, done, batchOf, current, state, outcome, byId, answer>>

\* Mutant of Recorded: the dictionary forgets the batches before.
RecordedAlone(i) ==
  [byId EXCEPT ![calls[i].id] = IF batchOf[i] = current THEN outcome[i] ELSE Pending]

\* outcomes_by_id after the turn of call i.
Recorded(i) ==
  IF batchOf[i] = current THEN [byId EXCEPT ![calls[i].id] = outcome[i]] ELSE byId

\* The outcomes of the batch are recorded under the ids of its calls, in
\* order: a later call overwrites an earlier one with its id.
Record ==
  /\ phase = "record"
  /\ byId' = Recorded(done + 1)
  /\ IF Last(done + 1)
       THEN done' = 0 /\ phase' = "gather"
       ELSE done' = done + 1 /\ UNCHANGED phase
  /\ UNCHANGED <<calls, batchOf, current, state, outcome, answer>>

\* No batch is left.
EndBatches ==
  /\ phase = "gather"
  /\ \A i \in DOMAIN calls : batchOf[i] # current + 1
  /\ phase' = "answer"
  /\ UNCHANGED <<calls, done, batchOf, current, state, outcome, byId, answer>>

Settle(i, from, to, result) ==
  /\ state[i] = from
  /\ state' = [state EXCEPT ![i] = to]
  /\ outcome' = [outcome EXCEPT ![i] = result]
  /\ UNCHANGED <<phase, calls, done, batchOf, current, byId, answer>>

\* Mutant of AfterBlock: the call is put off to a batch that never comes.
AfterVeto == "waiting"

\* A vetoed call returns at once: its post_tool hooks do not run.
AfterBlock == "settled"

HookBlocks(i) == Settle(i, "hook", AfterBlock, "blocked")
HookPasses(i) == Settle(i, "hook", "gate", outcome[i])

\* Unparsed arguments, an unknown tool, the authority, the policy or the user
\* refuse the call.
Denied(i) == Settle(i, "gate", "post", "denied")
Begin(i) == Settle(i, "gate", "running", outcome[i])

\* The tool returns, or raises something that becomes an error result.
Finish(i, result) == result \in {"ok", "failed"} /\ Settle(i, "running", "post", result)

PostHooks(i) == Settle(i, "post", "settled", outcome[i])

\* A hook command that cannot be started for another reason than a missing
\* file raises out of _run_tool_call and out of gather, which does not stop
\* the other calls of the batch.
HookRaises(i) ==
  /\ state[i] \in {"hook", "post"}
  /\ state' = [state EXCEPT ![i] = "cancelled"]
  /\ phase' = "raised"
  /\ UNCHANGED <<calls, done, batchOf, current, outcome, byId, answer>>

CallStep(i) ==
  \/ HookBlocks(i) \/ HookPasses(i) \/ Denied(i) \/ Begin(i)
  \/ \E result \in Outcomes : Finish(i, result)
  \/ PostHooks(i) \/ HookRaises(i)

-----------------------------------------------------------------------------
(* The results *)

\* One ToolResultEvent is emitted, in the order of the calls.
AnswerCall ==
  /\ phase = "answer"
  /\ LET i == done + 1 IN
     /\ answer' = [answer EXCEPT ![i] = byId[calls[i].id]]
     /\ done' = i
     /\ IF Last(i) THEN phase' = "done" ELSE UNCHANGED phase
  /\ UNCHANGED <<calls, batchOf, current, state, outcome, byId>>

\* The run is cancelled: gather cancels the calls it waits for.
Cancel ==
  /\ ~Ended
  /\ phase' = "cancelled"
  /\ state' = [i \in DOMAIN calls |->
                 IF state[i] = "settled" THEN "settled" ELSE "cancelled"]
  /\ UNCHANGED <<calls, done, batchOf, current, outcome, byId, answer>>

Dispatch == LogCall \/ Place \/ Gather \/ GatherReturns \/ Record
            \/ EndBatches \/ AnswerCall

Next == Dispatch \/ LogFails \/ Cancel \/ \E i \in DOMAIN calls : CallStep(i)

Spec == Init /\ [][Next]_vars

\* Tools, hooks and permission prompts return: commands, requests and hooks
\* carry timeouts, and a prompt is the user's to answer.
FairSpec ==
  /\ Spec
  /\ WF_vars(Dispatch)
  /\ \A i \in UNION {DOMAIN r : r \in Requests} : WF_vars(i \in DOMAIN calls /\ CallStep(i))

-----------------------------------------------------------------------------
(* Properties *)

StateOK ==
  /\ phase \in Phases
  /\ done \in 0..Count /\ (~Ended => done < Count)
  /\ batchOf \in [DOMAIN calls -> 0..Count]
  /\ current \in 0..Count
  /\ state \in [DOMAIN calls -> States]
  /\ outcome \in [DOMAIN calls -> Outcomes \cup {Pending}]
  /\ byId \in [Ids -> Outcomes \cup {Pending}]
  /\ answer \in [DOMAIN calls -> Outcomes \cup {Pending}]

\* Every variable has its type.
TypeOK == calls \in Seq(Call) /\ calls # <<>> /\ StateOK

\* Two tools never run at the same time on one resource if one of them
\* writes it: an edit reads, awaits and writes back.  This needs every
\* resource to have one spelling.
NoConflictingOverlap ==
  \A i, j \in DOMAIN calls :
    /\ i # j /\ state[i] = "running" /\ state[j] = "running"
    /\ FileOf[calls[i].key] = FileOf[calls[j].key]
    => calls[i].readOnly /\ calls[j].readOnly

OneSpelling == \A k, l \in Keys : FileOf[k] = FileOf[l] => k = l

\* First fit keeps the order of a write: it starts only when every earlier
\* call with its key has settled.
WritesInOrder ==
  \A i, j \in DOMAIN calls :
    /\ i < j /\ calls[i].key = calls[j].key /\ ~calls[j].readOnly
    /\ state[j] \notin {"waiting", "cancelled"}
    => state[i] = "settled"

\* Calls of one response that conflict run one after the other, a write after
\* everything before it.
ConflictLaw == NoConflictingOverlap /\ WritesInOrder

DistinctIds == \A i, j \in DOMAIN calls : calls[i].id = calls[j].id => i = j

\* The result logged for a call is the outcome of that very call, whatever
\* batches the calls went through, provided no two of them share an id.
AnsweredTruthfully ==
  DistinctIds =>
    \A i \in DOMAIN calls :
      phase \in {"answer", "done"} /\ i <= done =>
        answer[i] = outcome[i] /\ answer[i] # Pending

\* The dispatch ends, with every call answered unless it was cancelled or
\* an exception left it.
Terminates == <>Ended

-----------------------------------------------------------------------------
(* What makes the invariants inductive *)

Busy == {"hook", "gate", "running", "post"}

\* Calls are placed one after the other, and none runs before all are.
PlacedInv ==
  /\ phase = "log" => \A i \in DOMAIN calls : batchOf[i] = 0
  /\ phase = "place" => \A i \in DOMAIN calls : batchOf[i] = 0 <=> i > done
  /\ phase \in {"log", "place"} =>
       current = 0 /\ \A i \in DOMAIN calls : state[i] = "waiting"
  /\ phase \in {"gather", "run", "record", "answer", "done"} =>
       \A i \in DOMAIN calls : batchOf[i] > 0
  /\ phase \in {"gather", "run"} => done = 0

\* The calls of a batch do not conflict.
Apart ==
  \A i, j \in DOMAIN calls :
    i # j /\ batchOf[i] > 0 /\ batchOf[i] = batchOf[j] => ~Conflicts(i, j)

\* First fit leaves no gap: every batch before that of a call has one with
\* its key.
NoGap ==
  \A i \in DOMAIN calls : \A b \in 1..Count :
    b < batchOf[i] => \E j \in DOMAIN calls : batchOf[j] = b /\ calls[j].key = calls[i].key

\* So a write comes after every earlier call with its key.
WritesLater ==
  \A i, j \in DOMAIN calls :
    i < j /\ calls[i].key = calls[j].key /\ ~calls[j].readOnly /\ batchOf[j] > 0 =>
      0 < batchOf[i] /\ batchOf[i] < batchOf[j]

\* Only the current batch is under way.
BatchInv ==
  /\ \A i \in DOMAIN calls :
       /\ state[i] \in Busy => batchOf[i] = current /\ current > 0
       /\ state[i] = "settled" => 0 < batchOf[i] /\ batchOf[i] <= current
       /\ 0 < batchOf[i] /\ batchOf[i] < current => state[i] = "settled"
  /\ phase \in {"gather", "record", "answer", "done"} => BatchSettled(current)

\* The outcomes of the batches that are in are found under their calls' ids.
InSoFar(i) ==
  \/ batchOf[i] > 0 /\ batchOf[i] < current
  \/ /\ batchOf[i] = current
     /\ phase \in {"gather", "answer", "done"} \/ (phase = "record" /\ i <= done)

RecordInv ==
  /\ \A i \in DOMAIN calls : state[i] \in {"post", "settled"} => outcome[i] # Pending
  /\ phase \in {"answer", "done"} => \A i \in DOMAIN calls : batchOf[i] <= current
  /\ DistinctIds =>
       \A i \in DOMAIN calls :
         batchOf[i] > 0 /\ InSoFar(i) => byId[calls[i].id] = outcome[i]

IInv == TypeOK /\ PlacedInv /\ Apart /\ NoGap /\ WritesLater /\ BatchInv
        /\ RecordInv /\ AnsweredTruthfully

=============================================================================
