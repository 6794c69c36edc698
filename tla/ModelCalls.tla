----------------------------- MODULE ModelCalls -----------------------------
(***************************************************************************)
(* How concurrent runs get a model and call it: the classification of the  *)
(* prompt and its cache, the router and its circuit breaker, which all     *)
(* runs share, and the attempts of a call.  A step is what happens between *)
(* two awaits; the clock may go on between any two.                        *)
(***************************************************************************)
EXTENDS Integers, FiniteSets, Sequences, SequencesExt

CONSTANTS
  Runs,
  Models,
  Tiers,        \* the models of each tier, in their order
  Chain,        \* the fallback chain, a sequence of tiers
  Prompts,
  Confident,    \* the tier of each prompt that a keyword of it decides
  Threshold,    \* failure_threshold
  Recovery,     \* recovery_time
  MaxRetries,   \* attempts of a call that is not streamed
  CacheSize,    \* entries of the classification cache
  MaxNow,       \* bound: the clock
  MaxFailures   \* bound: failures of a model from which it is given to no run

TierNames == DOMAIN Tiers
None == "none"
Never == -1  \* a moment that has not been

ASSUME ModelsAssumption ==
  /\ \A t \in TierNames : Tiers[t] \in Seq(Models)
  /\ Chain \in Seq(TierNames)
  /\ DOMAIN Confident \subseteq Prompts
  /\ \A p \in DOMAIN Confident : Confident[p] \in TierNames
  /\ {Threshold, MaxRetries, CacheSize} \subseteq Nat \ {0}
  /\ {Recovery, MaxNow, MaxFailures} \subseteq Nat
  /\ None \notin Models \cup Prompts
  /\ IsFiniteSet(Runs)

VARIABLES
  giving,     \* whether runs may be given a model (explicit_model)
  now,        \* the clock
  failures,   \* failures[model]
  openedAt,   \* opened_at[model]; Never if it has none
  cache,      \* by prompt that has been classified, its tier
  run,        \* what each run does
  lastFailed  \* history: when a call of each model last failed

mvars == <<giving, now, failures, openedAt, cache, run, lastFailed>>

\* A run: where it stands, the prompt it has classified, the model it is given,
\* if any, the one it uses, the attempts of its call, and when it was refused.
Standing(pc) == [pc |-> pc, prompt |-> None, given |-> None, model |-> None,
           attempt |-> 0, refused |-> Never]

ModelsInit ==
  /\ giving \in BOOLEAN
  /\ now = 0
  /\ failures = [m \in Models |-> 0]
  /\ openedAt = [m \in Models |-> Never]
  /\ cache = <<>>
  /\ run = [r \in Runs |-> Standing("start")]
  /\ lastFailed = [m \in Models |-> Never]

-----------------------------------------------------------------------------
(* The circuit breaker *)

Expired(m) == openedAt[m] # Never /\ now - openedAt[m] > Recovery

\* Mutant of IsOpen: an open circuit is not looked at.
IsOpenNever(m) == FALSE

IsOpen(m) == openedAt[m] # Never /\ ~Expired(m)

FailuresAfter(m) == failures[m] + 1

RecordFailure(m) ==
  /\ failures' = [failures EXCEPT ![m] = FailuresAfter(m)]
  /\ openedAt' = IF FailuresAfter(m) >= Threshold
                   THEN [openedAt EXCEPT ![m] = now] ELSE openedAt
  /\ lastFailed' = [lastFailed EXCEPT ![m] = now]

RecordSuccess(m) ==
  /\ failures' = [failures EXCEPT ![m] = 0]
  /\ openedAt' = [openedAt EXCEPT ![m] = Never]
  /\ UNCHANGED lastFailed

\* What looking at a model does to its circuit: an expired one is reset.
LookAt(m) ==
  IF m # None /\ Expired(m)
    THEN RecordSuccess(m)
    ELSE UNCHANGED <<failures, openedAt, lastFailed>>

-----------------------------------------------------------------------------
(* The router *)

\* The first model of a tier whose circuit is not open; None if there is none.
FirstOf(tier) ==
  LET i == SelectInSeq(Tiers[tier], LAMBDA m : ~IsOpen(m))
  IN  IF i = 0 THEN None ELSE Tiers[tier][i]

\* The tier that was asked for, then those of the chain, in their order.
SelectModel(tier) ==
  LET order == <<tier>> \o Chain
      i == SelectInSeq(order, LAMBDA t : FirstOf(t) # None)
  IN  IF i = 0 THEN None ELSE FirstOf(order[i])

-----------------------------------------------------------------------------
(* The classification of a prompt *)

\* Where a run is when another may take its place.
Over == {"start", "refused", "failed", "cancelled", "done"}

\* The models that a run may be given, None among them.
Given == {None} \cup {m \in Models : giving /\ failures[m] < MaxFailures}

Cached(p) == p \in DOMAIN cache

\* Mutant of Stored: a full cache is not cleared.
StoredAnyway(p, tier) ==
  [q \in DOMAIN cache \cup {p} |-> IF q = p THEN tier ELSE cache[q]]

\* The cache with the tier of p; one that is full is cleared first.
Stored(p, tier) ==
  LET kept == IF Cardinality(DOMAIN cache) >= CacheSize THEN {} ELSE DOMAIN cache
  IN  [q \in kept \cup {p} |-> IF q = p THEN tier ELSE cache[q]]

\* Run r gets the model that it was given, which asks nobody, or
\* the one that the router selects; if there is none, NoModelAvailableError.
Route(r, given, tier) ==
  LET model == IF given = None THEN SelectModel(tier) ELSE given IN
  /\ IF given = None
       THEN LookAt(model) ELSE UNCHANGED <<failures, openedAt, lastFailed>>
  /\ run' = [run EXCEPT ![r] =
                IF model = None THEN [Standing("refused") EXCEPT !.refused = now]
                ELSE [Standing("ready") EXCEPT !.given = given, !.model = model]]

\* A run begins, perhaps after another: parse_async knows the prompt, or a
\* keyword of it, or it asks the classifier.
Begin(r, p, m) ==
  /\ run[r].pc \in Over
  /\ \/ /\ Cached(p)
        /\ Route(r, m, cache[p])
        /\ UNCHANGED cache
     \/ /\ ~Cached(p) /\ p \in DOMAIN Confident
        /\ cache' = Stored(p, Confident[p])
        /\ Route(r, m, Confident[p])
     \/ /\ ~Cached(p) /\ p \notin DOMAIN Confident
        /\ run' = [run EXCEPT ![r] = [Standing("classify") EXCEPT !.prompt = p, !.given = m]]
        /\ UNCHANGED <<failures, openedAt, cache, lastFailed>>
  /\ UNCHANGED now

\* The classifier answers with a tier, or with something else, or not in time,
\* or fails, which all give the default.
Classify(r) ==
  /\ run[r].pc = "classify"
  /\ \E tier \in TierNames :
       /\ cache' = Stored(run[r].prompt, tier)
       /\ Route(r, run[r].given, tier)
  /\ UNCHANGED now

-----------------------------------------------------------------------------
(* The calls of a run *)

\* The loop asks the provider, streaming or not.
Ask(r) ==
  /\ run[r].pc = "ready"
  /\ \E how \in {"generate", "stream"} :
       run' = [run EXCEPT ![r].pc = how, ![r].attempt = 1]
  /\ UNCHANGED <<now, failures, openedAt, cache, lastFailed>>

Calling == {"generate", "stream"}

\* The response is in.
Succeed(r) ==
  /\ run[r].pc \in Calling
  /\ RecordSuccess(run[r].model)
  /\ run' = [run EXCEPT ![r].pc = "ready", ![r].attempt = 0]
  /\ UNCHANGED <<now, cache>>

\* A server error, a network error or a timeout is tried again, unless part of
\* the response may have been used.
Retried(r) == run[r].pc = "generate" /\ run[r].attempt < MaxRetries

Retry(r) ==
  /\ run[r].pc \in Calling /\ Retried(r)
  /\ run' = [run EXCEPT ![r].attempt = @ + 1]
  /\ UNCHANGED <<now, failures, openedAt, cache, lastFailed>>

\* A refusal of the provider, a response that is none, an event that cannot be
\* stored; or a transient error when no attempt is left: the run ends with it.
Lose(r) ==
  /\ run[r].pc \in Calling
  /\ RecordFailure(run[r].model)
  /\ run' = [run EXCEPT ![r] = Standing("failed")]
  /\ UNCHANGED <<now, cache>>

\* The run has its answer.
Finish(r) ==
  /\ run[r].pc = "ready"
  /\ run' = [run EXCEPT ![r] = Standing("done")]
  /\ UNCHANGED <<now, failures, openedAt, cache, lastFailed>>

\* A cancellation, which leaves no record.
CancelRun(r) ==
  /\ run[r].pc \in Calling \cup {"classify"}
  /\ run' = [run EXCEPT ![r] = Standing("cancelled")]
  /\ UNCHANGED <<now, failures, openedAt, cache, lastFailed>>

Tick ==
  /\ now < MaxNow
  /\ now' = now + 1
  /\ UNCHANGED <<failures, openedAt, cache, run, lastFailed>>

RunStep(r) ==
  \/ (\E p \in Prompts, m \in Given : Begin(r, p, m)) \/ Classify(r)
  \/ Ask(r) \/ Succeed(r) \/ Retry(r) \/ Lose(r) \/ Finish(r) \/ CancelRun(r)

ModelsNext == (Tick \/ \E r \in Runs : RunStep(r)) /\ UNCHANGED giving

-----------------------------------------------------------------------------
(* Properties *)

Moment == Never..MaxNow

ModelsTypeOK ==
  /\ now \in 0..MaxNow
  /\ failures \in [Models -> Nat] /\ openedAt \in [Models -> Moment]
  /\ lastFailed \in [Models -> Moment]
  /\ DOMAIN cache \subseteq Prompts /\ \A p \in DOMAIN cache : cache[p] \in TierNames
  /\ \A r \in Runs :
       /\ run[r].model \in Models \cup {None} /\ run[r].prompt \in Prompts \cup {None}
       /\ run[r].attempt \in 0..MaxRetries /\ run[r].refused \in Moment

\* A circuit is open exactly from the threshold on, and since the last failure.
BreakerAgrees ==
  \A m \in Models :
    IF failures[m] < Threshold THEN openedAt[m] = Never
                               ELSE openedAt[m] = lastFailed[m]

\* The runs that the router has sent to m and that may still fail on it.
Under(m) == {r \in Runs : run[r].model = m /\ run[r].pc \in Calling \cup {"ready"}}

\* A failing model is left alone: between two recoveries no more calls of routed
\* runs fail on it than the threshold and the runs that were under way when it
\* was reached, however their calls interleave.
Contained ==
  ~giving =>
    \A m \in Models :
      failures[m] + Cardinality(Under(m)) <= Threshold - 1 + Cardinality(Runs)

\* No run is refused a model without need: each candidate of its tier has
\* failed within the recovery time.
RefusedForCause ==
  \A r \in Runs : run[r].pc = "refused" =>
    \A m \in UNION {ToSet(Tiers[Chain[i]]) : i \in DOMAIN Chain} :
      lastFailed[m] # Never /\ run[r].refused - lastFailed[m] <= Recovery

\* The classification cache keeps its bound, and no classifier takes the place of
\* a keyword that decides a prompt.
CacheSound ==
  /\ Cardinality(DOMAIN cache) <= CacheSize
  /\ \A p \in DOMAIN cache \cap DOMAIN Confident : cache[p] = Confident[p]

RouterLaw == BreakerAgrees /\ Contained /\ RefusedForCause /\ CacheSound
=============================================================================
