---------------------------- MODULE PostgresStore ----------------------------
(***************************************************************************)
(* PostgresEventStore: appends put events on a bounded queue, a drain task *)
(* writes them in batches, reads wait until the queue is written and then  *)
(* query.  The clients are the tasks of one event loop; a step of this     *)
(* module is what happens between two awaits.                              *)
(*                                                                         *)
(* A pool of connections is a number, 0 for none.  A drain task lives      *)
(* until close cancels it; every initialisation that completes starts one. *)
(* An event is the client that appends it and a counter.                   *)
(***************************************************************************)
EXTENDS Integers, Sequences, FiniteSets

CONSTANTS
  Clients,
  QueueMax,     \* queue_maxsize
  BatchMax,     \* _DRAIN_BATCH_SIZE
  Settings      \* the ways in which a store may be used

\* How a store is used: by which clients, whether initialize() has returned
\* before they start, whether connections, schema changes, writes and queries
\* may fail, and (bound) how often each of them appends.
Setting ==
  [clients : SUBSET Clients, initialized : BOOLEAN, faulty : BOOLEAN, appends : Nat]

ASSUME StoreAssumption ==
  /\ QueueMax \in Nat \ {0} /\ BatchMax \in Nat \ {0}
  /\ Settings \subseteq Setting

Events == UNION {s.clients \X (1..s.appends) : s \in Settings}

VARIABLES
  setting,     \* how this store is used
  pc,          \* the await each client stands at, or idle
  op,          \* the method it has called
  count,       \* how many appends it has begun
  closed,      \* _closed
  pool,        \* _pool
  shut,        \* the pool that close() has closed; 0: none
  using,       \* the pool a reading client has got hold of
  queue,       \* _queue
  unfinished,  \* its count of tasks that are not done
  drains,      \* the drain tasks: where each stands, and its batch
  handle,      \* _drain_task, an index into drains; 0: None
  table,       \* the rows of the events table, by seq
  accepted,    \* history: events whose append has returned
  since,       \* history: how many of them when a client's last read began
  answer       \* what the last read of a client returned

clientVars == <<pc, op, count, using>>
poolVars == <<setting, closed, pool, shut>>
writeVars == <<queue, unfinished, drains, handle, table>>
readVars == <<since, answer>>
vars == <<clientVars, poolVars, writeVars, accepted, readVars>>

NewDrain == [state |-> "get", batch |-> <<>>]
EndedDrain == [state |-> "ended", batch |-> <<>>]

\* What a read ends with.
Returned(events) == [ok |-> TRUE, events |-> events]
Failed == [ok |-> FALSE, events |-> <<>>]

Init ==
  /\ setting \in Settings
  /\ pc = [c \in Clients |-> "idle"]
  /\ op = [c \in Clients |-> "initialize"]
  /\ count = [c \in Clients |-> 0]
  /\ using = [c \in Clients |-> 0]
  /\ closed = FALSE
  /\ shut = 0
  /\ IF setting.initialized
       THEN pool = 1 /\ drains = <<NewDrain>> /\ handle = 1
       ELSE pool = 0 /\ drains = <<>> /\ handle = 0
  /\ queue = <<>>
  /\ unfinished = 0
  /\ table = <<>>
  /\ accepted = <<>>
  /\ since = [c \in Clients |-> 0]
  /\ answer = [c \in Clients |-> Failed]

-----------------------------------------------------------------------------
(* Calls, and the pool they need *)

Goto(c, l) == pc' = [pc EXCEPT ![c] = l]

\* Mutant of HasRoom: the queue is not bounded.
HasRoomAlways == TRUE

HasRoom == Len(queue) < QueueMax

\* Event n of client c is accepted: its append returns.
Accept(c, n) ==
  /\ Goto(c, "idle")
  /\ queue' = Append(queue, <<c, n>>)
  /\ unfinished' = unfinished + 1
  /\ accepted' = Append(accepted, <<c, n>>)

\* What a method does without a further await once there is a pool: an append
\* puts its event if the queue has room.
Arrive(c, o, n) ==
  IF o = "append" /\ HasRoom
    THEN Accept(c, n)
    ELSE /\ Goto(c, CASE o = "initialize" -> "idle" [] o = "append" -> "put" [] o = "read" -> "flush")
         /\ UNCHANGED <<queue, unfinished, accepted>>

\* A method is called: it goes on if there is a pool, and creates one if not.
Enter(c, o, n) ==
  /\ pc[c] = "idle"
  /\ op' = [op EXCEPT ![c] = o]
  /\ count' = [count EXCEPT ![c] = n]
  /\ \/ /\ pool = 0
        /\ Goto(c, "create")
        /\ UNCHANGED <<using, queue, unfinished, accepted>>
     \/ /\ pool # 0
        /\ using' = [using EXCEPT ![c] = pool]
        /\ Arrive(c, o, n)
  /\ UNCHANGED <<poolVars, drains, handle, table, answer>>

Initialize(c) == Enter(c, "initialize", count[c]) /\ UNCHANGED since

AppendEvent(c) ==
  /\ ~closed
  /\ count[c] < setting.appends
  /\ Enter(c, "append", count[c] + 1)
  /\ UNCHANGED since

\* get_session_events, and the other reads alike.
Read(c) ==
  /\ Enter(c, "read", count[c])
  /\ since' = [since EXCEPT ![c] = Len(accepted)]

Raise(c) ==
  /\ Goto(c, "idle")
  /\ answer' = IF op[c] = "read" THEN [answer EXCEPT ![c] = Failed] ELSE answer
  /\ UNCHANGED <<op, count, queue, unfinished, table, accepted, since>>

\* create_pool returns: the field is overwritten whatever it holds by now.
Create(c) ==
  /\ pc[c] = "create"
  /\ pool' = (IF pool = 0 THEN shut ELSE pool) + 1
  /\ Goto(c, "schema")
  /\ UNCHANGED <<setting, op, count, using, closed, shut, writeVars, accepted, readVars>>

CreateFails(c) ==
  /\ setting.faulty
  /\ pc[c] = "create"
  /\ Raise(c)
  /\ UNCHANGED <<using, poolVars, drains, handle>>

\* The table exists: this initialisation starts a drain task.  If close() has
\* taken the pool away by now, an assertion fails in the task and in its maker.
Schema(c) ==
  /\ pc[c] = "schema"
  /\ handle' = Len(drains) + 1
  /\ using' = [using EXCEPT ![c] = pool]
  /\ \/ /\ pool # 0
        /\ drains' = Append(drains, NewDrain)
        /\ Arrive(c, op[c], count[c])
        /\ UNCHANGED <<op, count, table, readVars>>
     \/ /\ pool = 0
        /\ drains' = Append(drains, EndedDrain)
        /\ Raise(c)
  /\ UNCHANGED poolVars

\* It does not come to exist: the pool stays in its field.
SchemaFails(c) ==
  /\ setting.faulty
  /\ pc[c] = "schema"
  /\ Raise(c)
  /\ UNCHANGED <<using, poolVars, drains, handle>>

-----------------------------------------------------------------------------
(* Appends and reads *)

\* An append that waited resumes when the queue has room again.
Put(c) ==
  /\ pc[c] = "put"
  /\ HasRoom
  /\ Accept(c, count[c])
  /\ UNCHANGED <<op, count, using, poolVars, drains, handle, table, readVars>>

\* Mutant of Flushed: a flush waits for an empty queue only.
FlushedQueue == queue = <<>>

\* What queue.join() waits for.
Flushed == unfinished = 0

\* The reader resumes after the flush.
Flush(c) ==
  /\ pc[c] = "flush"
  /\ Flushed
  /\ Goto(c, "query")
  /\ UNCHANGED <<op, count, using, poolVars, writeVars, accepted, readVars>>

Query(c) ==
  /\ pc[c] = "query"
  /\ using[c] # shut
  /\ answer' = [answer EXCEPT ![c] = Returned(table)]
  /\ Goto(c, "idle")
  /\ UNCHANGED <<op, count, using, poolVars, writeVars, accepted, since>>

QueryFails(c) ==
  /\ setting.faulty \/ using[c] = shut
  /\ pc[c] = "query"
  /\ Raise(c)
  /\ UNCHANGED <<using, poolVars, drains, handle>>

-----------------------------------------------------------------------------
(* The drain tasks *)

\* Tasks whose put can be completed run before a batch is written: the write
\* awaits a connection, and the get that made room has woken them.
PuttersDone == HasRoom => \A c \in Clients : pc[c] # "put"

\* An event is taken from the queue into the batch.
Take(d) ==
  /\ \/ drains[d].state = "get"
     \/ drains[d].state = "fill" /\ Len(drains[d].batch) < BatchMax
  /\ queue # <<>>
  /\ queue' = Tail(queue)
  /\ drains' = [drains EXCEPT ![d] = [state |-> "fill",
                                      batch |-> Append(@.batch, Head(queue))]]
  /\ UNCHANGED <<clientVars, poolVars, unfinished, handle, table, accepted, readVars>>

\* The batch is full, or the interval has passed.
Fill(d) ==
  /\ drains[d].state = "fill"
  /\ PuttersDone
  /\ drains' = [drains EXCEPT ![d].state = "write"]
  /\ UNCHANGED <<clientVars, poolVars, queue, unfinished, handle, table, accepted, readVars>>

\* Mutant of Rows: the rows of a batch are inserted in no order of theirs.
RowsReversed(batch) == [i \in DOMAIN batch |-> batch[Len(batch) + 1 - i]]

\* The rows of a batch, in the order of their insertion.
Rows(batch) == batch

\* Mutant of Written: one task_done for the batch.
WrittenOnce(batch) == 1

\* How many tasks are done with a batch.
Written(batch) == Len(batch)

\* The outcome of a write is in: the tasks of the batch are done either way.
Done(d) ==
  /\ drains' = [drains EXCEPT ![d] = NewDrain]
  /\ unfinished' = unfinished - Written(drains[d].batch)
  /\ UNCHANGED <<clientVars, poolVars, queue, handle, accepted, readVars>>

Write(d) ==
  /\ drains[d].state = "write"
  /\ pool # 0 /\ pool # shut
  /\ table' = table \o Rows(drains[d].batch)
  /\ Done(d)

\* The batch is lost; the failure is logged.
WriteFails(d) ==
  /\ drains[d].state = "write"
  /\ setting.faulty \/ pool \in {0, shut}
  /\ Done(d)
  /\ UNCHANGED table

-----------------------------------------------------------------------------
(* close() *)

\* The drain task is cancelled at its await, with the batch it may have.
CancelDrain(c) ==
  /\ drains' = [drains EXCEPT ![handle] = EndedDrain]
  /\ handle' = 0
  /\ Goto(c, "shut")

\* A flush that has nothing to wait for does not give way to other tasks.
Close(c) ==
  /\ pc[c] = "idle"
  /\ ~closed
  /\ closed' = TRUE
  /\ op' = [op EXCEPT ![c] = "close"]
  /\ IF handle # 0 /\ Flushed
       THEN CancelDrain(c)
       ELSE /\ Goto(c, IF handle # 0 THEN "join" ELSE IF pool # 0 THEN "shut" ELSE "idle")
            /\ UNCHANGED <<drains, handle>>
  /\ UNCHANGED <<setting, count, using, pool, shut, queue, unfinished, table, accepted, readVars>>

\* A store that has been closed is closed, whatever it holds by now.
CloseAgain(c) ==
  /\ pc[c] = "idle"
  /\ closed
  /\ op' = [op EXCEPT ![c] = "close"]
  /\ UNCHANGED <<pc, count, using, poolVars, writeVars, accepted, readVars>>

\* The flush is over; the task is woken, and resumes after those woken before.
Join(c) ==
  /\ pc[c] = "join"
  /\ Flushed
  /\ Goto(c, "cancel")
  /\ UNCHANGED <<op, count, using, poolVars, writeVars, accepted, readVars>>

Cancel(c) ==
  /\ pc[c] = "cancel"
  /\ CancelDrain(c)
  /\ UNCHANGED <<op, count, using, poolVars, queue, unfinished, table, accepted, readVars>>

BeginShut(c) ==
  /\ pc[c] = "shut"
  /\ shut' = pool
  /\ Goto(c, "shutting")
  /\ UNCHANGED <<setting, op, count, using, closed, pool, writeVars, accepted, readVars>>

EndShut(c) ==
  /\ pc[c] = "shutting"
  /\ pool' = 0
  /\ Goto(c, "idle")
  /\ UNCHANGED <<setting, op, count, using, closed, shut, writeVars, accepted, readVars>>

-----------------------------------------------------------------------------

Call(c) == Initialize(c) \/ AppendEvent(c) \/ Read(c) \/ Close(c) \/ CloseAgain(c)

Resume(c) ==
  \/ Create(c) \/ CreateFails(c) \/ Schema(c) \/ SchemaFails(c)
  \/ Put(c) \/ Flush(c) \/ Query(c) \/ QueryFails(c)
  \/ Join(c) \/ Cancel(c) \/ BeginShut(c) \/ EndShut(c)

DrainStep(d) == Take(d) \/ Fill(d) \/ Write(d) \/ WriteFails(d)

Next ==
  \/ \E c \in setting.clients : Call(c) \/ Resume(c)
  \/ \E d \in DOMAIN drains : DrainStep(d)

Spec == Init /\ [][Next]_vars

\* At most one drain task for each initialisation: one at first, and one by
\* each client before the store is closed and one after.
DrainIds == 1..(2 * Cardinality(Clients) + 1)

\* Connections, writes and queries end, in success or failure, and the event
\* loop runs every task that can go on.
FairSpec ==
  /\ Spec
  /\ \A c \in Clients : WF_vars(Resume(c))
  /\ \A d \in DrainIds : WF_vars(d \in DOMAIN drains /\ DrainStep(d))

-----------------------------------------------------------------------------
(* Properties *)

Labels == {"idle", "create", "schema", "put", "flush", "query",
           "join", "cancel", "shut", "shutting"}
Drain == [state : {"get", "fill", "write", "ended"}, batch : Seq(Events)]

\* Every variable has its type, the queue keeps its bound and a batch its size.
TypeOK ==
  /\ setting \in Settings
  /\ pc \in [Clients -> Labels]
  /\ op \in [Clients -> {"initialize", "append", "read", "close"}]
  /\ count \in [Clients -> Nat] /\ using \in [Clients -> Nat]
  /\ closed \in BOOLEAN /\ pool \in Nat /\ shut \in Nat
  /\ queue \in Seq(Events) /\ Len(queue) <= QueueMax
  /\ unfinished \in Nat
  /\ drains \in Seq(Drain) /\ handle \in 0..Len(drains)
  /\ \A d \in DOMAIN drains : Len(drains[d].batch) <= BatchMax
  /\ table \in Seq(Events) /\ accepted \in Seq(Events)
  /\ since \in [Clients -> Nat] /\ answer \in [Clients -> [ok : BOOLEAN, events : Seq(Events)]]

\* The use the port is made for: the store is initialised before it is used,
\* and the database does what it is asked.
Sound == setting.initialized /\ ~setting.faulty

\* What the port promises: a read observes every append that happened before
\* it, in order.
Port == INSTANCE EventStorePort WITH
          reading <- {c \in Clients : op[c] = "read" /\ pc[c] # "idle"}
KeepsPort == Port!Init /\ [][Sound => Port!Next]_(Port!vars)

\* When close() gives the connections back, every event that was accepted is
\* in the table.
CloseFlushes ==
  \A c \in Clients : Sound /\ pc[c] \in {"shut", "shutting"} => table = accepted

\* Rows are inserted in the order in which their events were accepted, and
\* none twice, whatever fails: replay reads them by seq.
InOrder ==
  \A i, j \in DOMAIN table : i < j =>
    \E k, l \in DOMAIN accepted :
      k < l /\ accepted[k] = table[i] /\ accepted[l] = table[j]

\* What the table holds is in order, and complete once the store is closed.
TableLaw == InOrder /\ CloseFlushes

\* Every call returns: what is flushed is written, or its failure logged.
Returns == \A c \in Clients : Sound /\ pc[c] # "idle" ~> pc[c] = "idle"
=============================================================================
