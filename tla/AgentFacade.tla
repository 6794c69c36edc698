---------------------------- MODULE AgentFacade -----------------------------
(***************************************************************************)
(* One Agent with its event bus and its two SQLite stores: runs, streams   *)
(* of their events, and close.  A step is what happens between two awaits; *)
(* runs and streams of one Agent may overlap.                              *)
(***************************************************************************)
EXTENDS Naturals, Sequences, SequencesExt

CONSTANTS
  Tasks,   \* the calls of run and stream
  Kinds,     \* "run", "stream"
  MaxEvents, \* bound: events of all runs
  MaxCloses  \* bound: calls of close

ASSUME FacadeAssumption ==
  /\ Kinds \subseteq {"run", "stream"} /\ {MaxEvents, MaxCloses} \subseteq Nat

VARIABLES
  call,       \* where each call stands, its kind and its outcome
  consumer,   \* what the consumer of each stream does
  emitted,    \* how many events the loop of each call has published
  queues,     \* the queue of each stream
  delivered,  \* what each stream has yielded
  table,      \* the rows of the event store
  store,      \* _conn of the event store, and how many connections are open
  memory,     \* _db of the episodic memory, and how many connections are open
  closes,     \* how often the Agent was closed
  overlapped  \* history: whether something else went on while a call began

avars == <<call, consumer, emitted, queues, delivered, table, store, memory,
           closes, overlapped>>

Closed == [have |-> FALSE, open |-> 0]

FacadeInit ==
  /\ call = [p \in Tasks |-> [pc |-> "new", kind |-> "run"]]
  /\ consumer = [p \in Tasks |-> "none"]
  /\ emitted = [p \in Tasks |-> 0]
  /\ queues = [p \in Tasks |-> <<>>] /\ delivered = [p \in Tasks |-> <<>>]
  /\ table = <<>>
  /\ store = Closed /\ memory = Closed
  /\ closes = 0 /\ overlapped = FALSE

Stands(p, pc) == call[p].pc = pc
Goes(p, pc) == call' = [call EXCEPT ![p].pc = pc]

\* Calls that have begun and whose loops are not over.
Active == {p \in Tasks : ~Stands(p, "new") /\ call[p].pc \notin {"answered", "raised", "unstored"}}

-----------------------------------------------------------------------------
(* The stores *)

\* A connection is opened and becomes the one that is used.
Connected(s) == [have |-> TRUE, open |-> s.open + 1]

\* One that is used if there is one.
Used(s) == IF s.have THEN s ELSE Connected(s)

\* The one that is used is closed.
Released(s) == IF s.have THEN [have |-> FALSE, open |-> s.open - 1] ELSE s

-----------------------------------------------------------------------------
(* run, stream *)

\* Mutant of InitializeStore: it connects whether or not it has a connection.
InitializeStoreAgain(p) == Goes(p, "connecting")

\* SQLiteEventStore.initialize: nothing to do if there is a connection.
InitializeStore(p) == Goes(p, IF store.have THEN "memory" ELSE "connecting")

BeginCall(p, kind) ==
  /\ Stands(p, "new")
  /\ call' = [call EXCEPT ![p] = [pc |-> "store", kind |-> kind]]
  /\ overlapped' = (overlapped \/ Active # {})
  /\ UNCHANGED <<consumer, emitted, queues, delivered, table, store, memory, closes>>

AskStore(p) ==
  /\ Stands(p, "store")
  /\ InitializeStore(p)
  /\ UNCHANGED <<consumer, emitted, queues, delivered, table, store, memory, closes, overlapped>>

StoreConnects(p) ==
  /\ Stands(p, "connecting")
  /\ store' = Connected(store)
  /\ Goes(p, "memory")
  /\ UNCHANGED <<consumer, emitted, queues, delivered, table, memory, closes, overlapped>>

\* EpisodicMemory.initialize connects each time.  Then the history of the session
\* is loaded, a stream subscribes to the bus, and the loop begins.
MemoryConnects(p) ==
  /\ Stands(p, "memory")
  /\ memory' = Connected(memory)
  /\ Goes(p, "loop")
  /\ consumer' = [consumer EXCEPT ![p] = IF call[p].kind = "stream" THEN "polling" ELSE "none"]
  /\ UNCHANGED <<emitted, queues, delivered, table, store, closes, overlapped>>

Subscribed == {p \in Tasks : consumer[p] \in {"polling", "draining"}}

\* Mutant of Audience: a stream whose run is over is not told.
AudienceRunning == {p \in Subscribed : Stands(p, "loop")} \ {p \in Tasks : queues[p] # <<>>}

\* The queues that get an event: those of all streams, whosever it is.
Audience == Subscribed

\* The loop publishes an event.
Publish(p) ==
  /\ Stands(p, "loop") /\ MapThenSumSet(LAMBDA q : emitted[q], Tasks) < MaxEvents
  /\ emitted' = [emitted EXCEPT ![p] = @ + 1]
  /\ queues' = [q \in Tasks |-> IF q \in Audience THEN Append(queues[q], <<p, emitted[p] + 1>>)
                                                  ELSE queues[q]]
  /\ Goes(p, "append")
  /\ UNCHANGED <<consumer, delivered, table, store, memory, closes, overlapped>>

\* It appends it to the store, which opens again if it was closed.
AppendRow(p) ==
  /\ Stands(p, "append")
  /\ store' = Used(store)
  /\ table' = Append(table, <<p, emitted[p]>>)
  /\ Goes(p, "loop")
  /\ UNCHANGED <<consumer, emitted, queues, delivered, memory, closes, overlapped>>

\* The store fails, because it is full, locked, or being closed: nothing in the
\* loop handles that.
AppendFails(p) ==
  /\ Stands(p, "append")
  /\ Goes(p, "unstored")
  /\ UNCHANGED <<consumer, emitted, queues, delivered, table, store, memory, closes, overlapped>>

\* The loop ends: an answer, whose trajectory is recorded if that works, or an
\* exception.
LoopEnds(p) ==
  /\ Stands(p, "loop")
  /\ \/ Goes(p, "answered") /\ memory' \in {Used(memory), memory}
     \/ Goes(p, "raised") /\ UNCHANGED memory
  /\ UNCHANGED <<consumer, emitted, queues, delivered, table, store, closes, overlapped>>

-----------------------------------------------------------------------------
(* The consumer of a stream *)

\* It is given the next event.
Take(p) ==
  /\ p \in Subscribed /\ queues[p] # <<>>
  /\ delivered' = [delivered EXCEPT ![p] = Append(@, Head(queues[p]))]
  /\ queues' = [queues EXCEPT ![p] = Tail(@)]
  /\ UNCHANGED <<call, consumer, emitted, table, store, memory, closes, overlapped>>

\* The generator sees that the task is done: it raises what the task did, or
\* goes on with what is left in the queue.
Notice(p) ==
  /\ consumer[p] = "polling"
  /\ \/ Stands(p, "answered") /\ consumer' = [consumer EXCEPT ![p] = "draining"]
     \/ call[p].pc \in {"raised", "unstored"} /\ consumer' = [consumer EXCEPT ![p] = "raised"]
  /\ UNCHANGED <<call, emitted, queues, delivered, table, store, memory, closes, overlapped>>

\* Mutant of Drained: what is left when the task is done is not delivered.
DrainedAnyway(p) == TRUE

Drained(p) == queues[p] = <<>>

\* The result is yielded, and the subscription ends.
Result(p) ==
  /\ consumer[p] = "draining" /\ Drained(p)
  /\ consumer' = [consumer EXCEPT ![p] = "result"]
  /\ UNCHANGED <<call, emitted, queues, delivered, table, store, memory, closes, overlapped>>

\* The consumer leaves: the subscription ends, the loop goes on.
Abandon(p) ==
  /\ p \in Subscribed
  /\ consumer' = [consumer EXCEPT ![p] = "left"]
  /\ UNCHANGED <<call, emitted, queues, delivered, table, store, memory, closes, overlapped>>

\* close, whatever goes on.
CloseAgent ==
  /\ closes < MaxCloses
  /\ closes' = closes + 1
  /\ store' = Released(store) /\ memory' = Released(memory)
  /\ overlapped' = (overlapped \/ Active # {})
  /\ UNCHANGED <<call, consumer, emitted, queues, delivered, table>>

CallStep(p) ==
  \/ (\E kind \in Kinds : BeginCall(p, kind))
  \/ AskStore(p) \/ StoreConnects(p) \/ MemoryConnects(p)
  \/ Publish(p) \/ AppendRow(p) \/ AppendFails(p) \/ LoopEnds(p)
  \/ Take(p) \/ Notice(p) \/ Result(p) \/ Abandon(p)

FacadeNext == CloseAgent \/ \E p \in Tasks : CallStep(p)

-----------------------------------------------------------------------------
(* Properties *)

Events == Tasks \X (1..MaxEvents)

FacadeTypeOK ==
  /\ call \in [Tasks -> [pc : {"new", "store", "connecting", "memory", "loop", "append",
                               "answered", "raised", "unstored"}, kind : {"run", "stream"}]]
  /\ consumer \in [Tasks -> {"none", "polling", "draining", "raised", "result", "left"}]
  /\ emitted \in [Tasks -> Nat]
  /\ \A p \in Tasks : queues[p] \in Seq(Events) /\ delivered[p] \in Seq(Events)
  /\ table \in Seq(Events)
  /\ {store, memory} \subseteq [have : BOOLEAN, open : Nat]
  /\ closes \in 0..MaxCloses

\* Of the events of p, those from the first to the last are in events, each once
\* and in their order; what lies between them is of other runs.
Tells(events, p, first, last) ==
  /\ {e \in ToSet(events) : e[1] = p} = {<<p, i>> : i \in first..last}
  /\ \A i, j \in DOMAIN events :
       i < j /\ events[i][1] = p /\ events[j][1] = p => events[i][2] < events[j][2]

\* A stream yields its run's events in their order, and all of them before the
\* result, whatever other runs publish meanwhile and whenever the run ends.
StreamWhole ==
  \A p \in Tasks :
    /\ \E n \in 0..emitted[p] : Tells(delivered[p], p, 1, n)
    /\ consumer[p] = "result" => Tells(delivered[p], p, 1, emitted[p])

\* Each run's events are stored in their order and all of them, whatever other
\* runs store meanwhile, but for the one that is being stored or made it fail.
TableWhole ==
  \A p \in Tasks :
    Tells(table, p, 1, IF call[p].pc \in {"append", "unstored"} THEN emitted[p] - 1
                                                               ELSE emitted[p])

\* Unless calls overlap, the event store has one connection at most, and none
\* once the Agent is closed.
OneConnection == ~overlapped => store.open = IF store.have THEN 1 ELSE 0

FacadeLaw == StreamWhole /\ TableWhole /\ OneConnection
=============================================================================
