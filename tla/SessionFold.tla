---------------------------- MODULE SessionFold ----------------------------
(***************************************************************************)
(* What a session's event log means: the conversation it folds into, the   *)
(* prefix a compaction folds away, the repair of a stored log, the         *)
(* truncation a rewind makes.                                              *)
(*                                                                         *)
(* An event is its id, its kind, the call ids it carries (those a response *)
(* asks for, the one a result answers), the prompt tokens the provider     *)
(* reported (0: none) and the events a compaction folds away.  Events that *)
(* the fold ignores (tool calls, errors, verifications, deltas, repairs)   *)
(* are notes.  A message is the event it was made from.                    *)
(***************************************************************************)
EXTENDS Integers, Sequences, SequencesExt

CONSTANTS
  CallIds,     \* ids of tool calls
  RecentKeep   \* _RECENT_KEEP

ASSUME KeepAssumption == RecentKeep \in Nat

MessageKinds == {"user", "response", "result"}

\* Only a compaction folds events away, and they come before it.
Event ==
  {e \in [id : Nat \ {0}, kind : MessageKinds \cup {"compaction", "note"},
          calls : SUBSET CallIds, tokens : Nat, gone : SUBSET Nat] :
     /\ e.gone \subseteq 1..(e.id - 1)
     /\ e.kind # "compaction" => e.gone = {}}

-----------------------------------------------------------------------------
(* Conversation.fold *)

\* The events that some compaction folds away.
Gone(log) == UNION {e.gone : e \in ToSet(log)}

\* last_prompt_tokens: reset by a compaction, set by a measured response.
Measure(tokens, e) ==
  CASE e.kind = "compaction" -> 0
    [] e.kind = "response" /\ e.tokens > 0 -> e.tokens
    [] OTHER -> tokens

\* The id of the compaction whose summary heads the messages; 0 if none.
Summarize(summary, e) == IF e.kind = "compaction" THEN e.id ELSE summary

Nothing == [messages |-> <<>>, summary |-> 0, tokens |-> 0]

\* A message joins the conversation, and what it measures.
Shown(conv, e) ==
  [conv EXCEPT !.messages = IF e.kind \in MessageKinds THEN Append(@, e) ELSE @,
               !.tokens = Measure(@, e)]

\* An event is read, and not shown when it is folded away.
ReadEvent(conv, e, gone) ==
  LET headed == [conv EXCEPT !.summary = Summarize(@, e)]
  IN  IF e.id \in gone THEN headed ELSE Shown(headed, e)

Folded(log, gone) == FoldLeft(LAMBDA conv, e : ReadEvent(conv, e, gone), Nothing, log)

Fold(log) == Folded(log, Gone(log))

-----------------------------------------------------------------------------
(* IncrementalFold *)

EmptyCache ==
  [seen |-> <<>>, gone |-> {}, messages |-> <<>>, summary |-> 0, tokens |-> 0]

\* One message is folded into the cached state.
ApplyMessage(cache, e) ==
  IF e.id \in cache.gone \/ e.kind \notin MessageKinds
    THEN cache
    ELSE Shown(cache, e)

\* Mutant of Rebuild: the messages so far are kept, the retained ones added.
RebuildUncleared(cache) ==
  [FoldLeft(ApplyMessage, cache, cache.seen) EXCEPT !.tokens = 0]

\* The messages are derived again from the retained events.
Rebuild(cache) ==
  [FoldLeft(ApplyMessage, [cache EXCEPT !.messages = <<>>], cache.seen)
     EXCEPT !.tokens = 0]

\* One appended event.
Absorb(cache, e) ==
  LET seen == [cache EXCEPT !.seen = Append(@, e)]
  IN  IF e.kind = "compaction"
        THEN Rebuild([seen EXCEPT !.gone = @ \cup e.gone, !.summary = e.id])
        ELSE ApplyMessage(seen, e)

\* _sync_fold: the events that the cache has not seen are appended to it.
Synced(cache, log) ==
  FoldLeft(Absorb, cache, SubSeq(log, Len(cache.seen) + 1, Len(log)))

-----------------------------------------------------------------------------
(* Compaction *)

\* The position of the last response that asks for a call; 0 if there is none.
Origin(log, calls) ==
  SelectLastInSeq(log, LAMBDA e : e.kind = "response" /\ calls \subseteq e.calls)

\* Mutant of Boundary: the naive slice.
NaiveBoundary(log) == IF Len(log) <= RecentKeep THEN 0 ELSE Len(log) - RecentKeep

\* How many events are folded away: all but the last few, less as long as the
\* kept tail has a result whose response is not in it.
Boundary(log) ==
  LET Split(b) == SelectInSubSeq(log, b + 1, Len(log), LAMBDA e :
                    e.kind = "result" /\ Origin(log, e.calls) \in 1..b)
      Retreat[b \in 0..Len(log)] ==
        IF b = 0 \/ Split(b) = 0
          THEN b
          ELSE Retreat[Origin(log, log[Split(b)].calls) - 1]
  IN  IF Len(log) <= RecentKeep THEN 0 ELSE Retreat[Len(log) - RecentKeep]

\* Mutant of Compacted: what an earlier compaction took is not taken again.
CompactedAnew(log) ==
  {log[i].id : i \in 1..Boundary(log)} \ Gone(log)

\* The ids of the events that the next compaction folds away.
Compacted(log) == {log[i].id : i \in 1..Boundary(log)}

-----------------------------------------------------------------------------
(* Repair and rewind *)

\* Result i would fold into a tool message without its assistant message:
\* no visible response before it asks for the call, and none that asks for it
\* is visible later.
Orphaned(log, i) ==
  /\ log[i].kind = "result"
  /\ log[i].id \notin Gone(log)
  /\ \A j \in 1..(i - 1) :
       log[j].kind = "response" /\ log[i].calls \subseteq log[j].calls
         => log[j].id \in Gone(log)
  /\ LET o == Origin(log, log[i].calls) IN o = 0 \/ log[o].id \in Gone(log)

Orphans(log) == {i \in DOMAIN log : Orphaned(log, i)}

\* Mutant of Restored: the repair reports what it does not do.
RestoredNothing(log) == {}

\* Responses to bring back, and results to drop for want of one.
Restored(log) ==
  {log[Origin(log, log[i].calls)].id :
     i \in {j \in Orphans(log) : Origin(log, log[j].calls) # 0}}
Dropped(log) ==
  {log[i].id : i \in {j \in Orphans(log) : Origin(log, log[j].calls) = 0}}

\* An event is copied, unless it is dropped, without what is brought back.
Repaired(kept, e, dropped, restored) ==
  IF e.id \in dropped THEN kept ELSE Append(kept, [e EXCEPT !.gone = @ \ restored])

Copied(log, dropped, restored) ==
  FoldLeft(LAMBDA kept, e : Repaired(kept, e, dropped, restored), <<>>, log)

Repair(log) == Copied(log, Dropped(log), Restored(log))

\* rewind_events: what comes before the response at position i.
Rewound(log, i) == SubSeq(log, 1, i - 1)
=============================================================================
