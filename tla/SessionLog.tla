----------------------------- MODULE SessionLog -----------------------------
(***************************************************************************)
(* A session: its stored events, and the runs that load, extend, compact   *)
(* and rewind them one after the other.  A run keeps its own list of       *)
(* events; the store also gets those the run does not keep (deltas, the    *)
(* error that ends it).  A run may end anywhere: by a crash, a             *)
(* cancellation, a limit.                                                  *)
(***************************************************************************)
EXTENDS SessionFold

CONSTANTS
  Settings,    \* the sessions there may be
  Threshold,   \* prompt tokens from which a log is compacted
  MaxCalls     \* bound: calls of one response

\* An event still to be emitted: its kind and its calls.
Plan == [kind : {"user", "result", "note"}, calls : SUBSET CallIds]

\* A session: what the store holds at first, whether a provider may give a call
\* id twice, whether runs are started from a rewound log, the prompt tokens a
\* response may report (0: it reports none), and the bound on stored events
\* from which it is left alone.
ASSUME LogAssumption ==
  /\ Threshold \in Nat
  /\ \A s \in Settings :
       /\ s.repeats \in BOOLEAN /\ s.rewinds \in BOOLEAN
       /\ s.usages \subseteq Nat /\ s.events \in Nat
       /\ s.history \in Seq(Event)
       /\ \A i \in DOMAIN s.history : s.history[i].id = i

VARIABLES
  setting,  \* which session this is
  stored,   \* the events of the session in the store, oldest first
  log,      \* accumulated_events of the run
  cache,    \* its incremental fold
  phase,    \* where it stands; idle when there is no run
  todo,     \* what it emits before it moves on
  next,     \* where it moves on to
  saw       \* for each response, the messages it was asked with

vars == <<setting, stored, log, cache, phase, todo, next, saw>>

Init ==
  /\ setting \in Settings
  /\ stored = setting.history
  /\ log = <<>>
  /\ cache = EmptyCache
  /\ phase = "idle"
  /\ todo = <<>>
  /\ next = "idle"
  /\ saw = <<>>

\* Mutant of New: ids are counted by the run.
NewOfRun(kind, calls, tokens, gone) ==
  [id |-> Len(log) + 1, kind |-> kind, calls |-> calls,
   tokens |-> tokens, gone |-> gone]

\* A new event; its id is its position in the store.
New(kind, calls, tokens, gone) ==
  [id |-> Len(stored) + 1, kind |-> kind, calls |-> calls,
   tokens |-> tokens, gone |-> gone]
Note == New("note", {}, 0, {})

Room == Len(stored) < setting.events

-----------------------------------------------------------------------------
(* The start of a run *)

\* A run begins on events; it first emits the prompt.
Begin(events) ==
  /\ log' = events
  /\ cache' = EmptyCache
  /\ phase' = "emit"
  /\ todo' = <<[kind |-> "user", calls |-> {}]>>
  /\ next' = "check"
  /\ UNCHANGED saw

\* The stored session is loaded; if it is repaired, the report is stored, the
\* repaired events are not.
Load ==
  /\ phase = "idle" /\ Room
  /\ LET report == IF Orphans(stored) = {} THEN <<>> ELSE <<Note>> IN
     /\ stored' = stored \o report
     /\ Begin(Repair(stored) \o report)

\* rewind_and_run on the stored events, under the id of the session.  They are
\* taken as they are: a caller does not rewind what needs repair.
Rewind ==
  /\ phase = "idle" /\ Room /\ setting.rewinds
  /\ Orphans(stored) = {}
  /\ \E i \in DOMAIN stored :
       stored[i].kind = "response" /\ Begin(Rewound(stored, i))
  /\ UNCHANGED stored

-----------------------------------------------------------------------------
(* The steps of a run *)

\* Mutant of Keep: the event is published and stored only.
KeepStored(e) ==
  /\ stored' = Append(stored, e)
  /\ log' = IF e.kind = "compaction" THEN log ELSE Append(log, e)

\* An event is stored and joins the events of the run.
Keep(e) ==
  /\ stored' = Append(stored, e)
  /\ log' = Append(log, e)

\* The next event in turn.
Emit ==
  /\ phase = "emit"
  /\ Keep(New(Head(todo).kind, Head(todo).calls, 0, {}))
  /\ todo' = Tail(todo)
  /\ phase' = IF Len(todo) = 1 THEN next ELSE phase
  /\ UNCHANGED <<cache, next, saw>>

\* Before a step: the context is small enough, or a hook vetoes compaction.
Proceed ==
  /\ phase = "check"
  /\ cache' = Synced(cache, log)
  /\ phase' = "ask"
  /\ UNCHANGED <<stored, log, todo, next, saw>>

\* Before a step: the measured context is too large, or an unmeasured one is
\* estimated to be.
Compact ==
  /\ phase = "check" /\ Room
  /\ cache' = Synced(cache, log)
  /\ cache'.tokens = 0 \/ cache'.tokens >= Threshold
  /\ Keep(New("compaction", {}, 0, Compacted(log)))
  /\ phase' = "ask"
  /\ UNCHANGED <<todo, next, saw>>

\* The events of one executed call: an error first and a reflection last when
\* it failed.
Answer(c) ==
  LET note   == <<[kind |-> "note", calls |-> {}]>>
      result == <<[kind |-> "result", calls |-> {c}]>>
      user   == <<[kind |-> "user", calls |-> {}]>>
  IN  {result, note \o result, note \o result \o user}

\* The answers follow each other.
Planned(notes, answers) ==
  FoldLeft(LAMBDA plan, answer : plan \o answer, notes, answers)

\* What a run emits after a response that asks for calls, in their order: the
\* calls, then their answers; or the end of a run that repeats itself.
Turns(calls) ==
  LET notes == [i \in DOMAIN calls |-> [kind |-> "note", calls |-> {}]]
      answers == {f \in [DOMAIN calls -> UNION {Answer(c) : c \in ToSet(calls)}] :
                    \A i \in DOMAIN calls : f[i] \in Answer(calls[i])}
  IN  {Planned(notes, a) : a \in answers}
Stuck == <<[kind |-> "note", calls |-> {}], [kind |-> "user", calls |-> {}]>>

\* Call ids that a response may use.
Usable ==
  IF setting.repeats THEN CallIds ELSE CallIds \ UNION {e.calls : e \in ToSet(stored)}

\* The provider is asked with the folded messages and responds; a streamed
\* response leaves a delta in the store.
Respond(calls) ==
  /\ phase = "ask" /\ Room
  /\ cache' = Synced(cache, log)
  /\ \E tokens \in setting.usages, deltas \in {<<>>, <<Note>>} :
       LET e == [New("response", ToSet(calls), tokens, {}) EXCEPT !.id = @ + Len(deltas)] IN
       /\ stored' = stored \o deltas \o <<e>>
       /\ log' = Append(log, e)
       /\ saw' = [i \in DOMAIN saw \cup {e.id} |->
                    IF i = e.id THEN Fold(cache'.seen) ELSE saw[i]]

\* A response without calls is the final answer, which verification may refuse.
FinalAnswer ==
  /\ Respond(<<>>)
  /\ \/ phase' = "idle" /\ UNCHANGED <<todo, next>>
     \/ phase' = "emit" /\ todo' = Stuck /\ next' = "check"

ToolCalls ==
  /\ \E ids \in SUBSET Usable : Cardinality(ids) \in 1..MaxCalls /\
     \E calls \in SetToSeqs(ids) :
       /\ Respond(calls)
       /\ \/ todo' \in Turns(calls) /\ next' = "check"
          \/ todo' = Stuck /\ next' = "idle"
  /\ phase' = "emit"

\* A limit, a provider failure: the error is stored, the run does not keep it.
Fail ==
  /\ phase \in {"check", "ask"} /\ Room
  /\ stored' = Append(stored, Note)
  /\ phase' = "idle"
  /\ UNCHANGED <<log, cache, todo, next, saw>>

\* A crash, or a cancellation, between two events.
Stop ==
  /\ phase # "idle"
  /\ phase' = "idle"
  /\ todo' = <<>>
  /\ UNCHANGED <<stored, log, cache, next, saw>>

Next ==
  /\ \/ Load \/ Rewind
     \/ Emit \/ Proceed \/ Compact \/ FinalAnswer \/ ToolCalls
     \/ Fail \/ Stop
  /\ UNCHANGED setting

Spec == Init /\ [][Next]_vars

-----------------------------------------------------------------------------
(* Properties *)

\* Every variable has its type, and the id of an event is its position.
TypeOK ==
  /\ setting \in Settings
  /\ stored \in Seq(Event) /\ \A i \in DOMAIN stored : stored[i].id = i
  /\ log \in Seq(Event)
  /\ phase \in {"idle", "emit", "check", "ask"}
  /\ todo \in Seq(Plan) /\ (phase = "emit" => todo # <<>>)
  /\ next \in {"idle", "check"}
  /\ DOMAIN saw \subseteq DOMAIN stored

\* The incremental fold equals the full fold of the events it has seen,
\* messages, summary and measured size, whatever compactions came in between.
FoldAgrees ==
  LET fold == Fold(cache.seen) IN
  /\ cache.messages = fold.messages
  /\ cache.summary = fold.summary
  /\ cache.tokens = fold.tokens

\* Every tool message follows an assistant message that asks for its call: an
\* orphaned one is refused by the provider on every later request.
Paired ==
  phase = "ask" =>
    LET messages == Fold(log).messages IN
    \A i \in DOMAIN messages : messages[i].kind = "result" =>
      \E j \in 1..(i - 1) :
        messages[j].kind = "response" /\ messages[i].calls \subseteq messages[j].calls

\* The response that result i answers is the last one before it.
ResponseOf(i) == SelectLastInSubSeq(log, 1, i, LAMBDA e : e.kind = "response")

\* A session that this build has begun and no run is rewound in.
Own == setting.history = <<>> /\ ~setting.rewinds

\* A response that asks for tools and all of its results are folded away
\* together or kept together.
WholeTurns ==
  Own /\ phase = "ask" =>
    \A i \in DOMAIN log : log[i].kind = "result" =>
      (log[i].id \in Gone(log) <=> log[ResponseOf(i)].id \in Gone(log))

\* The summary at the head of the messages covers everything that is folded
\* away: no event is neither shown nor summarised.
SummaryCovers ==
  LET summary == Fold(log).summary IN
  Own => Gone(log) = IF summary = 0 THEN {} ELSE stored[summary].gone

\* Rewinding the stored session to a response restores exactly what that
\* response was asked with.
RewindRestores ==
  Own => \A i \in DOMAIN saw : Fold(Rewound(stored, i)) = saw[i]

\* Compaction loses nothing: turns go whole, what goes is summarised, and what
\* was shown before can be shown again.
CompactionLaw == WholeTurns /\ SummaryCovers /\ RewindRestores
=============================================================================
