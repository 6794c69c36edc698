------------------------- MODULE PostgresStoreProofs -------------------------
(***************************************************************************)
(* What the queue and the drain task of PostgresEventStore keep, for any   *)
(* number of clients, any size of the queue and of a batch, and any number *)
(* of appends; and that the store implements EventStorePort.               *)
(***************************************************************************)
EXTENDS PostgresStore, FiniteSetTheorems, SequenceTheorems, TLAPS

-----------------------------------------------------------------------------
(* The inductive invariant *)

Starting == {"create", "schema"}
Shutting == {"shut", "shutting"}

\* Where a client stands agrees with the method it has called, and an append
\* under way is of an event of its own.
CallInv ==
  \A c \in Clients : pc[c] # "idle" =>
    /\ c \in setting.clients
    /\ pc[c] \in Starting => op[c] \in {"initialize", "append", "read"}
    /\ pc[c] = "put" => op[c] = "append"
    /\ pc[c] \in {"flush", "query"} => op[c] = "read"
    /\ pc[c] \in {"join", "cancel"} \cup Shutting => op[c] = "close"
    /\ op[c] = "append" => count[c] \in 1..setting.appends

\* A drain task has a batch from its first event to the end of the write.
DrainInv ==
  \A d \in DOMAIN drains : drains[d].batch = <<>> <=> drains[d].state \in {"get", "ended"}

\* The places of the batches that hold an event.
Held == {h \in (DOMAIN drains) \X (1..BatchMax) : h[2] <= Len(drains[h[1]].batch)}

\* Every event that is queued or in a batch is one of the unfinished tasks; a
\* cancelled batch leaves tasks that no one will finish.
CountInv == Len(queue) + Cardinality(Held) <= unfinished

\* One task at a time may create the pool and the drain task.
OneStarter == setting.initialized \/ \A c, d \in setting.clients : c = d

\* After the end of the drain task nothing is under way, and nothing will be:
\* a closed store refuses to append.
Frozen ==
  /\ closed /\ queue = <<>>
  /\ \A d \in DOMAIN drains : drains[d].batch = <<>>
  /\ \A c \in Clients : pc[c] # "put" /\ ~(op[c] = "append" /\ pc[c] \in Starting)

\* A store that was initialised before its use, until its drain task ends.
InUse ==
  /\ pool = 1 /\ shut = 0
  /\ handle = 1 /\ Len(drains) = 1 /\ drains[1].state # "ended"
  /\ \A c \in Clients :
       /\ pc[c] \notin Starting \cup Shutting
       /\ pc[c] = "put" => queue # <<>> \/ drains[1].state = "fill"
       /\ pc[c] \in {"join", "cancel"} => closed
       /\ pc[c] = "cancel" => unfinished = 0

\* No drain task but the one that close() knows of is alive.
OneDrain == \A d \in DOMAIN drains : drains[d].state # "ended" => d = handle

\* A store with one client: there is no drain task while there is no pool.
Alone ==
  /\ OneDrain
  /\ (pool = 0 \/ \E c \in Clients : pc[c] \in Starting \cup Shutting) =>
       \A d \in DOMAIN drains : drains[d].state = "ended"

UseInv ==
  /\ setting.initialized => Frozen \/ InUse
  /\ OneStarter /\ ~setting.initialized => Alone

\* The batch of the drain task.
Batch == IF handle \in DOMAIN drains THEN drains[handle].batch ELSE <<>>

\* The events accepted and no longer under way.
Settled == Len(accepted) - Len(queue) - Len(Batch)

\* What is under way are the last events accepted, the batch before the queue,
\* and the rows of the table are earlier ones, in order.
FlightInv ==
  /\ Settled \in Nat
  /\ \A i \in DOMAIN Batch : Batch[i] = accepted[Settled + i]
  /\ \A i \in DOMAIN queue : queue[i] = accepted[Settled + Len(Batch) + i]
RowInv ==
  /\ \A i \in DOMAIN table : \E k \in 1..Settled : accepted[k] = table[i]
  /\ \A i, j \in DOMAIN table : i < j =>
       \E k, l \in 1..Settled : k < l /\ accepted[k] = table[i] /\ accepted[l] = table[j]
OrderInv == OneStarter => FlightInv /\ RowInv

\* Where nothing fails, all that is no longer under way is in the table, and a
\* flush leaves nothing under way.
WholeInv ==
  Sound =>
    /\ Len(table) = Settled
    /\ \A i \in DOMAIN table : table[i] = accepted[i]
    /\ \A c \in Clients : pc[c] = "query" => since[c] <= Len(table)
SinceInv == \A c \in Clients : since[c] <= Len(accepted)

Typed == TypeOK /\ CallInv /\ DrainInv
StoreInv == Typed /\ CountInv /\ UseInv /\ OrderInv /\ WholeInv /\ SinceInv

-----------------------------------------------------------------------------
(* Operators on the queue and on the drain tasks *)

\* The event that an append under way is about.
LEMMA OwnEvent ==
  ASSUME TypeOK, NEW c \in setting.clients, NEW n \in 1..setting.appends
  PROVE  <<c, n>> \in Events /\ c \in Clients
<1>1. setting \in Settings /\ setting \in Setting
  BY StoreAssumption DEF TypeOK, StoreAssumption
<1> QED BY <1>1 DEF Events, Setting

\* One drain task moves, the others stay as they are.
LEMMA DrainMoves ==
  ASSUME TypeOK, NEW d, NEW v \in Drain, Len(v.batch) <= BatchMax,
         drains' = [drains EXCEPT ![d] = v]
  PROVE  /\ drains' \in Seq(Drain) /\ Len(drains') = Len(drains)
         /\ \A e \in DOMAIN drains' : Len(drains'[e].batch) <= BatchMax
         /\ \A e \in DOMAIN drains : drains'[e] = IF e = d THEN v ELSE drains[e]
<1>1. drains \in Seq(Drain)
  BY DEF TypeOK
<1>2. /\ Len(drains) \in Nat /\ DOMAIN drains = 1..Len(drains)
      /\ \A e \in 1..Len(drains) : drains[e] \in Drain
  BY <1>1, LenProperties, ElementOfSeq
<1>3. /\ DOMAIN drains' = 1..Len(drains)
      /\ \A e \in DOMAIN drains : drains'[e] = IF e = d THEN v ELSE drains[e]
  BY <1>2
<1>4. drains' = [e \in 1..Len(drains) |-> drains'[e]]
  BY <1>2
<1>5. drains' \in [1..Len(drains) -> Drain]
  BY <1>2, <1>3, <1>4
<1>6. drains' \in Seq(Drain) /\ Len(drains') = Len(drains)
  BY <1>2, <1>5
<1> QED BY <1>2, <1>3, <1>6 DEF TypeOK

\* A drain task joins the others.
LEMMA DrainJoins ==
  ASSUME TypeOK, NEW v \in {NewDrain, EndedDrain}, drains' = Append(drains, v)
  PROVE  /\ drains' \in Seq(Drain) /\ Len(drains') = Len(drains) + 1
         /\ \A e \in DOMAIN drains' : Len(drains'[e].batch) <= BatchMax
         /\ \A e \in DOMAIN drains : drains'[e] = drains[e]
         /\ drains'[Len(drains) + 1] = v
         /\ DOMAIN drains' = DOMAIN drains \cup {Len(drains) + 1}
<1>1. v \in Drain /\ Len(v.batch) = 0
  <2>1. <<>> \in Seq(Events) /\ Len(<<>>) = 0
    BY EmptySeq
  <2>2. CASE v = NewDrain
    BY <2>1, <2>2 DEF NewDrain, Drain
  <2>3. CASE v = EndedDrain
    BY <2>1, <2>3 DEF EndedDrain, Drain
  <2> QED BY <2>2, <2>3
<1>2. drains \in Seq(Drain)
  BY DEF TypeOK
<1>3. /\ drains' \in Seq(Drain) /\ Len(drains') = Len(drains) + 1
      /\ \A e \in 1..Len(drains) : drains'[e] = drains[e]
      /\ drains'[Len(drains) + 1] = v
  BY <1>1, <1>2, AppendProperties
<1>4. DOMAIN drains' = DOMAIN drains \cup {Len(drains) + 1} /\ DOMAIN drains = 1..Len(drains)
  BY <1>2, <1>3
<1>5. BatchMax \in Nat
  BY StoreAssumption DEF StoreAssumption
<1> QED BY <1>1, <1>3, <1>4, <1>5 DEF TypeOK

\* How a method ends up that has a pool: an append is accepted, or everything
\* but the place of the client stays.
LEMMA Arrives ==
  ASSUME NEW c, NEW o \in {"initialize", "append", "read"}, NEW n, Arrive(c, o, n)
  PROVE  \/ o = "append" /\ HasRoom /\ Accept(c, n)
         \/ /\ UNCHANGED <<queue, unfinished, accepted>>
            /\ \/ o = "initialize" /\ Goto(c, "idle")
               \/ o = "append" /\ ~HasRoom /\ Goto(c, "put")
               \/ o = "read" /\ Goto(c, "flush")
  BY DEF Arrive

\* An accepted event is the last of the queue and the last accepted.
LEMMA Accepts ==
  ASSUME TypeOK, NEW c \in setting.clients, NEW n \in 1..setting.appends,
         HasRoom, Accept(c, n)
  PROVE  /\ pc' = [pc EXCEPT ![c] = "idle"] /\ pc' \in [Clients -> Labels]
         /\ queue' = Append(queue, <<c, n>>) /\ queue' \in Seq(Events)
         /\ Len(queue') = Len(queue) + 1 /\ Len(queue') <= QueueMax
         /\ unfinished' = unfinished + 1
         /\ accepted' = Append(accepted, <<c, n>>) /\ accepted' \in Seq(Events)
<1>1. <<c, n>> \in Events
  BY OwnEvent
<1>2. QueueMax \in Nat
  BY StoreAssumption DEF StoreAssumption
<1>3. pc' = [pc EXCEPT ![c] = "idle"] /\ pc' \in [Clients -> Labels]
  BY DEF TypeOK, Accept, Goto, Labels
<1>4. /\ queue' = Append(queue, <<c, n>>) /\ queue' \in Seq(Events)
      /\ Len(queue') = Len(queue) + 1
  <2>1. queue \in Seq(Events) /\ queue' = Append(queue, <<c, n>>)
    BY DEF TypeOK, Accept
  <2> QED BY <1>1, <2>1, AppendProperties
<1>5. accepted' = Append(accepted, <<c, n>>) /\ accepted' \in Seq(Events)
  <2>1. accepted \in Seq(Events) /\ accepted' = Append(accepted, <<c, n>>)
    BY DEF TypeOK, Accept
  <2> QED BY <1>1, <2>1, AppendProperties
<1>6. Len(queue) \in Nat /\ Len(queue) < QueueMax
  BY DEF TypeOK, HasRoom
<1> QED BY <1>2, <1>3, <1>4, <1>5, <1>6 DEF Accept

-----------------------------------------------------------------------------
(* Types *)

\* The variables of the clients and of the queue keep their types in a step by
\* which a client arrives.
ArrivedOK ==
  /\ pc' \in [Clients -> Labels]
  /\ queue' \in Seq(Events) /\ Len(queue') <= QueueMax
  /\ unfinished' \in Nat /\ accepted' \in Seq(Events)

\* The queue after what a method does at its arrival.
LEMMA ArriveTypes ==
  ASSUME TypeOK, NEW c \in setting.clients, NEW o \in {"initialize", "append", "read"},
         NEW n, o = "append" => n \in 1..setting.appends, Arrive(c, o, n)
  PROVE  ArrivedOK /\ \E l \in {"idle", "put", "flush"} :
                         /\ pc' = [pc EXCEPT ![c] = l]
                         /\ l = "put" => o = "append" /\ ~HasRoom
                         /\ l = "flush" => o = "read"
<1>1. CASE o = "append" /\ HasRoom /\ Accept(c, n)
  <2>1. n \in 1..setting.appends
    BY <1>1
  <2>2. /\ pc' = [pc EXCEPT ![c] = "idle"] /\ pc' \in [Clients -> Labels]
        /\ queue' \in Seq(Events) /\ Len(queue') <= QueueMax
        /\ unfinished' = unfinished + 1 /\ accepted' \in Seq(Events)
    BY <1>1, <2>1, Accepts
  <2>3. unfinished' \in Nat
    BY <2>2 DEF TypeOK
  <2> QED BY <2>2, <2>3 DEF ArrivedOK
<1>2. ASSUME UNCHANGED <<queue, unfinished, accepted>>,
             NEW l \in {"idle", "put", "flush"}, Goto(c, l)
      PROVE  ArrivedOK /\ pc' = [pc EXCEPT ![c] = l]
  BY <1>2 DEF TypeOK, ArrivedOK, Goto, Labels
<1>3. CASE UNCHANGED <<queue, unfinished, accepted>> /\ Goto(c, "idle")
  <2>1. ArrivedOK /\ pc' = [pc EXCEPT ![c] = "idle"]
    BY <1>2, <1>3
  <2> QED BY <2>1
<1>4. CASE UNCHANGED <<queue, unfinished, accepted>> /\ o = "append" /\ ~HasRoom /\ Goto(c, "put")
  <2>1. ArrivedOK /\ pc' = [pc EXCEPT ![c] = "put"]
    BY <1>2, <1>4
  <2> QED BY <1>4, <2>1
<1>5. CASE UNCHANGED <<queue, unfinished, accepted>> /\ o = "read" /\ Goto(c, "flush")
  <2>1. ArrivedOK /\ pc' = [pc EXCEPT ![c] = "flush"]
    BY <1>2, <1>5
  <2> QED BY <1>5, <2>1
<1> QED BY <1>1, <1>3, <1>4, <1>5, Arrives

-----------------------------------------------------------------------------
(* The count of unfinished tasks *)

\* The drain tasks and their batches, as the provers need them.
LEMMA HeldFinite ==
  ASSUME TypeOK
  PROVE  /\ IsFiniteSet(Held) /\ Cardinality(Held) \in Nat /\ Len(queue) \in Nat
         /\ DOMAIN drains = 1..Len(drains) /\ Len(drains) \in Nat
         /\ \A d \in DOMAIN drains : /\ drains[d] \in Drain /\ drains[d].batch \in Seq(Events)
                                     /\ Len(drains[d].batch) \in 0..BatchMax
         /\ BatchMax \in Nat
<1>1. drains \in Seq(Drain) /\ queue \in Seq(Events)
  BY DEF TypeOK
<1>2. DOMAIN drains = 1..Len(drains) /\ Len(drains) \in Nat /\ Len(queue) \in Nat
  BY <1>1
<1>3. BatchMax \in Nat
  BY StoreAssumption DEF StoreAssumption
<1>4. IsFiniteSet(1..Len(drains)) /\ IsFiniteSet(1..BatchMax)
  BY <1>2, <1>3, FS_Interval
<1>5. IsFiniteSet((1..Len(drains)) \X (1..BatchMax))
  BY <1>4, FS_Product
<1>6. Held \in SUBSET ((1..Len(drains)) \X (1..BatchMax))
  BY <1>2 DEF Held
<1>7. IsFiniteSet(Held)
  BY <1>5, <1>6, FS_Subset
<1>8. \A d \in DOMAIN drains : drains[d] \in Drain
  BY <1>1, <1>2, ElementOfSeq
<1>9. ASSUME NEW d \in DOMAIN drains
      PROVE  drains[d].batch \in Seq(Events) /\ Len(drains[d].batch) \in 0..BatchMax
  <2>1. drains[d].batch \in Seq(Events) /\ Len(drains[d].batch) <= BatchMax
    BY <1>8 DEF Drain, TypeOK
  <2> QED BY <1>3, <2>1, LenProperties
<1> QED BY <1>2, <1>3, <1>7, <1>8, <1>9, FS_CardinalityType

\* The places of one batch.
OfBatch(d) == {d} \X (1..Len(drains[d].batch))

\* A batch is a part of what is held.
LEMMA BatchCount ==
  ASSUME TypeOK, NEW d \in DOMAIN drains
  PROVE  /\ OfBatch(d) \in SUBSET Held
         /\ Cardinality(OfBatch(d)) = Len(drains[d].batch)
         /\ Len(drains[d].batch) <= Cardinality(Held)
<1>1. Len(drains[d].batch) \in 0..BatchMax /\ BatchMax \in Nat /\ IsFiniteSet(Held)
  BY HeldFinite
<1>2. OfBatch(d) \in SUBSET Held
  BY <1>1 DEF OfBatch, Held
<1>3. /\ IsFiniteSet({d}) /\ Cardinality({d}) = 1
      /\ IsFiniteSet(1..Len(drains[d].batch))
      /\ Cardinality(1..Len(drains[d].batch)) = Len(drains[d].batch)
  <2> DEFINE n == Len(drains[d].batch)
  <2>1. n \in Nat
    BY <1>1
  <2> HIDE DEF n
  <2>2. IsFiniteSet(1..n) /\ Cardinality(1..n) = IF 1 > n THEN 0 ELSE n - 1 + 1
    BY <2>1, FS_Interval
  <2>3. IsFiniteSet(1..n) /\ Cardinality(1..n) = n
    BY <2>1, <2>2
  <2> QED BY <2>3, FS_Singleton DEF n
<1>4. Cardinality(OfBatch(d)) = 1 * Len(drains[d].batch)
  <2> DEFINE R == 1..Len(drains[d].batch)
  <2> HIDE DEF R
  <2>1. IsFiniteSet({d}) /\ Cardinality({d}) = 1 /\ IsFiniteSet(R) /\ Cardinality(R) = Len(drains[d].batch)
    BY <1>3 DEF R
  <2>2. Cardinality({d} \X R) = Cardinality({d}) * Cardinality(R)
    BY <2>1, FS_Product
  <2> QED BY <2>1, <2>2 DEF OfBatch, R
<1> QED BY <1>1, <1>2, <1>4, FS_Subset

\* A flush waits for the queue and for every batch.
LEMMA FlushedEmpty ==
  ASSUME TypeOK, CountInv, Flushed
  PROVE  queue = <<>> /\ \A d \in DOMAIN drains : drains[d].batch = <<>>
<1>1. Len(queue) = 0 /\ Cardinality(Held) = 0
  BY HeldFinite DEF CountInv, Flushed
<1>2. queue = <<>>
  BY <1>1, EmptySeq DEF TypeOK
<1>3. ASSUME NEW d \in DOMAIN drains PROVE drains[d].batch = <<>>
  <2>1. drains[d].batch \in Seq(Events) /\ Len(drains[d].batch) = 0
    BY <1>1, BatchCount, HeldFinite
  <2> QED BY <2>1, EmptySeq
<1> QED BY <1>2, <1>3

\* What the steps of a drain task do to its batch and to the queue.
LEMMA TakeMoves ==
  ASSUME TypeOK, DrainInv, NEW d \in DOMAIN drains, Take(d)
  PROVE  /\ drains[d].state \in {"get", "fill"} /\ drains[d].state = "get" => drains[d].batch = <<>>
         /\ queue # <<>> /\ queue' = Tail(queue) /\ queue' \in Seq(Events)
         /\ Len(queue) > 0 /\ Len(queue') = Len(queue) - 1
         /\ \A i \in 1..Len(queue') : queue'[i] = queue[i + 1]
         /\ drains' \in Seq(Drain) /\ Len(drains') = Len(drains)
         /\ \A e \in DOMAIN drains' : Len(drains'[e].batch) <= BatchMax
         /\ \A e \in DOMAIN drains : e # d => drains'[e] = drains[e]
         /\ drains'[d].state = "fill"
         /\ drains'[d].batch = Append(drains[d].batch, queue[1])
         /\ Len(drains'[d].batch) = Len(drains[d].batch) + 1
         /\ \A i \in 1..Len(drains[d].batch) : drains'[d].batch[i] = drains[d].batch[i]
         /\ drains'[d].batch[Len(drains[d].batch) + 1] = queue[1]
<1> DEFINE b == Append(drains[d].batch, Head(queue))
<1>1. queue \in Seq(Events) /\ queue # <<>> /\ queue' = Tail(queue)
  BY DEF TypeOK, Take
<1>2. /\ Head(queue) \in Events /\ queue' \in Seq(Events) /\ Len(queue') = Len(queue) - 1
      /\ \A i \in 1..Len(queue') : queue'[i] = queue[i + 1]
  BY <1>1, HeadTailProperties
<1>3. Head(queue) = queue[1] /\ Len(queue) > 0
  BY <1>1
<1>4. drains[d].batch \in Seq(Events) /\ Len(drains[d].batch) \in 0..BatchMax /\ BatchMax \in Nat \ {0}
  BY HeldFinite, StoreAssumption DEF StoreAssumption
<1>5. /\ b \in Seq(Events) /\ Len(b) = Len(drains[d].batch) + 1
      /\ \A i \in 1..Len(drains[d].batch) : b[i] = drains[d].batch[i]
      /\ b[Len(drains[d].batch) + 1] = Head(queue)
  BY <1>2, <1>4, AppendProperties
<1>6. /\ drains[d].state \in {"get", "fill"}
      /\ drains[d].state = "get" => drains[d].batch = <<>>
      /\ drains[d].state = "fill" => Len(drains[d].batch) < BatchMax
  BY DEF Take, DrainInv
<1>7. Len(b) <= BatchMax
  BY <1>4, <1>5, <1>6
<1> DEFINE v == [state |-> "fill", batch |-> b]
<1>8. v \in Drain /\ Len(v.batch) <= BatchMax
  BY <1>5, <1>7 DEF Drain
<1>9. drains' = [drains EXCEPT ![d] = v]
  BY DEF Take
<1>10. /\ drains' \in Seq(Drain) /\ Len(drains') = Len(drains)
       /\ \A e \in DOMAIN drains' : Len(drains'[e].batch) <= BatchMax
       /\ \A e \in DOMAIN drains : drains'[e] = IF e = d THEN v ELSE drains[e]
  <2> HIDE DEF v
  <2> QED BY <1>8, <1>9, DrainMoves
<1>11. drains'[d].state = "fill" /\ drains'[d].batch = b
  BY <1>10
<1> HIDE DEF v, b
<1>12. b = Append(drains[d].batch, queue[1])
  BY <1>3 DEF b
<1> QED BY <1>1, <1>2, <1>3, <1>5, <1>6, <1>10, <1>11, <1>12

\* A batch that is complete stays as it is until it is written.
LEMMA FillMoves ==
  ASSUME TypeOK, NEW d \in DOMAIN drains, Fill(d)
  PROVE  /\ drains[d].state = "fill" /\ drains'[d].state = "write"
         /\ drains'[d].batch = drains[d].batch
         /\ \A e \in DOMAIN drains : e # d => drains'[e] = drains[e]
         /\ drains' \in Seq(Drain) /\ Len(drains') = Len(drains)
         /\ \A e \in DOMAIN drains' : Len(drains'[e].batch) <= BatchMax
<1> DEFINE v == [drains[d] EXCEPT !.state = "write"]
<1>1. drains[d] \in Drain /\ Len(drains[d].batch) <= BatchMax
  BY HeldFinite DEF TypeOK
<1>2. /\ v \in Drain /\ v.batch = drains[d].batch /\ v.state = "write"
      /\ drains' = [drains EXCEPT ![d] = v]
  BY <1>1 DEF Fill, Drain
<1> HIDE DEF v
<1> QED BY <1>1, <1>2, DrainMoves DEF Fill

\* The end of a write, and the cancellation of the drain task.
LEMMA DrainCleared ==
  ASSUME TypeOK, NEW d, NEW v \in {NewDrain, EndedDrain}, drains' = [drains EXCEPT ![d] = v]
  PROVE  /\ drains' \in Seq(Drain) /\ Len(drains') = Len(drains)
         /\ \A e \in DOMAIN drains' : Len(drains'[e].batch) <= BatchMax
         /\ \A e \in DOMAIN drains : drains'[e] = IF e = d THEN v ELSE drains[e]
<1>1. v \in Drain /\ Len(v.batch) <= BatchMax
  <2>. BatchMax \in Nat
    BY StoreAssumption DEF StoreAssumption
  <2>1. <<>> \in Seq(Events) /\ Len(<<>>) = 0
    BY EmptySeq
  <2>2. CASE v = NewDrain
    BY <2>1, <2>2 DEF NewDrain, Drain
  <2>3. CASE v = EndedDrain
    BY <2>1, <2>3 DEF EndedDrain, Drain
  <2> QED BY <2>2, <2>3
<1> QED BY <1>1, DrainMoves

\* After a write the task is at its queue again, and its batch has been counted
\* off.
LEMMA DoneMoves ==
  ASSUME TypeOK, CountInv, NEW d \in DOMAIN drains, Done(d)
  PROVE  /\ drains' \in Seq(Drain) /\ Len(drains') = Len(drains)
         /\ \A e \in DOMAIN drains' : Len(drains'[e].batch) <= BatchMax
         /\ \A e \in DOMAIN drains : drains'[e] = IF e = d THEN NewDrain ELSE drains[e]
         /\ unfinished' = unfinished - Len(drains[d].batch) /\ unfinished' \in Nat
<1>1. drains' = [drains EXCEPT ![d] = NewDrain] /\ unfinished' = unfinished - Len(drains[d].batch)
  BY DEF Done, Written
<1>2. Len(drains[d].batch) \in Nat /\ Len(queue) \in Nat /\ Cardinality(Held) \in Nat
  BY HeldFinite
<1>3. Len(drains[d].batch) <= Cardinality(Held)
  BY BatchCount
<1>4. unfinished' \in Nat
  BY SMTT(30), <1>1, <1>2, <1>3 DEF TypeOK, CountInv
<1>5. /\ drains' \in Seq(Drain) /\ Len(drains') = Len(drains)
      /\ \A e \in DOMAIN drains' : Len(drains'[e].batch) <= BatchMax
      /\ \A e \in DOMAIN drains : drains'[e] = IF e = d THEN NewDrain ELSE drains[e]
  BY <1>1, DrainCleared
<1> QED BY <1>1, <1>4, <1>5

\* A step of one client leaves the places of the others.
LEMMA CallMoves ==
  ASSUME TypeOK, CallInv, NEW c \in setting.clients, setting' = setting,
         NEW l \in Labels, NEW o, NEW n,
         pc' = [pc EXCEPT ![c] = l], op' = [op EXCEPT ![c] = o], count' = [count EXCEPT ![c] = n],
         l \in Starting => o \in {"initialize", "append", "read"},
         l = "put" => o = "append",
         l \in {"flush", "query"} => o = "read",
         l \in {"join", "cancel"} \cup Shutting => o = "close",
         l # "idle" /\ o = "append" => n \in 1..setting.appends
  PROVE  CallInv'
<1>1. SUFFICES ASSUME NEW d \in Clients, pc'[d] # "idle"
               PROVE  /\ d \in setting.clients
                      /\ pc'[d] \in Starting => op'[d] \in {"initialize", "append", "read"}
                      /\ pc'[d] = "put" => op'[d] = "append"
                      /\ pc'[d] \in {"flush", "query"} => op'[d] = "read"
                      /\ pc'[d] \in {"join", "cancel"} \cup Shutting => op'[d] = "close"
                      /\ op'[d] = "append" => count'[d] \in 1..setting.appends
  BY DEF CallInv
<1>2. DOMAIN pc = Clients /\ DOMAIN op = Clients /\ DOMAIN count = Clients
  BY DEF TypeOK
<1>3. CASE d = c
  <2>1. pc'[d] = l /\ op'[d] = o /\ count'[d] = n
    BY <1>2, <1>3
  <2> QED BY <2>1, <1>1, <1>3
<1>4. CASE d # c
  <2>1. pc'[d] = pc[d] /\ op'[d] = op[d] /\ count'[d] = count[d]
    BY <1>2, <1>4
  <2> QED BY <2>1, <1>1 DEF CallInv
<1> QED BY <1>3, <1>4

\* The same for a step that calls no method.
LEMMA ResumeMoves ==
  ASSUME TypeOK, CallInv, NEW c \in setting.clients, setting' = setting,
         NEW l \in Labels, pc' = [pc EXCEPT ![c] = l], op' = op, count' = count, pc[c] # "idle",
         l \in Starting => op[c] \in {"initialize", "append", "read"},
         l = "put" => op[c] = "append",
         l \in {"flush", "query"} => op[c] = "read",
         l \in {"join", "cancel"} \cup Shutting => op[c] = "close"
  PROVE  CallInv'
<1>1. op' = [op EXCEPT ![c] = op[c]] /\ count' = [count EXCEPT ![c] = count[c]]
  BY DEF TypeOK
<1>2. c \in Clients
  BY StoreAssumption DEF StoreAssumption, Setting, TypeOK
<1>3. op[c] = "append" => count[c] \in 1..setting.appends
  BY <1>2 DEF CallInv
<1> DEFINE o == op[c]
           n == count[c]
<1>4. /\ op' = [op EXCEPT ![c] = o] /\ count' = [count EXCEPT ![c] = n]
      /\ l \in Starting => o \in {"initialize", "append", "read"}
      /\ l = "put" => o = "append"
      /\ l \in {"flush", "query"} => o = "read"
      /\ l \in {"join", "cancel"} \cup Shutting => o = "close"
      /\ l # "idle" /\ o = "append" => n \in 1..setting.appends
  BY <1>1, <1>3
<1> HIDE DEF o, n
<1> QED BY <1>4, CallMoves

\* Who uses the store.
LEMMA SettingOK ==
  ASSUME TypeOK
  PROVE  setting \in Setting /\ setting.clients \subseteq Clients /\ setting.appends \in Nat
  BY StoreAssumption DEF StoreAssumption, Setting, TypeOK

\* A method that is called leaves every type as it should be.
LEMMA EnterTyped ==
  ASSUME Typed, NEW c \in setting.clients, NEW o \in {"initialize", "append", "read"}, NEW n \in Nat,
         o = "append" => n \in 1..setting.appends, Enter(c, o, n),
         since' \in [Clients -> Nat]
  PROVE  Typed'
<1> USE DEF Typed
<1>1. c \in Clients /\ TypeOK /\ CallInv /\ DrainInv
  BY SettingOK
<1>2. /\ op' = [op EXCEPT ![c] = o] /\ count' = [count EXCEPT ![c] = n]
      /\ UNCHANGED <<poolVars, drains, handle, table, answer>>
      /\ op' \in [Clients -> {"initialize", "append", "read", "close"}]
      /\ count' \in [Clients -> Nat]
  BY <1>1 DEF Enter, TypeOK
<1>3. PICK l \in {"idle", "create", "put", "flush"} :
        /\ ArrivedOK /\ pc' = [pc EXCEPT ![c] = l] /\ using' \in [Clients -> Nat]
        /\ l = "put" => o = "append"
        /\ l = "flush" => o = "read"
  <2>1. CASE pool = 0
    <3>1. pc' = [pc EXCEPT ![c] = "create"] /\ UNCHANGED <<using, queue, unfinished, accepted>>
      BY <2>1 DEF Enter, Goto
    <3>2. pc' \in [Clients -> Labels]
      BY <3>1, <1>1 DEF TypeOK, Labels
    <3> QED BY <3>1, <3>2 DEF ArrivedOK, TypeOK
  <2>2. CASE pool # 0
    <3>1. Arrive(c, o, n) /\ using' = [using EXCEPT ![c] = pool]
      BY <2>2 DEF Enter
    <3>2. using' \in [Clients -> Nat]
      BY <3>1, <1>1 DEF TypeOK
    <3> QED BY <3>1, <3>2, <1>1, ArriveTypes
  <2> QED BY <2>1, <2>2
<1>4. TypeOK'
  BY <1>1, <1>2, <1>3 DEF TypeOK, ArrivedOK, poolVars
<1>5. CallInv'
  <2>1. l \in Labels /\ l \notin {"join", "cancel"} \cup Shutting /\ l # "query" /\ setting' = setting
    BY <1>2 DEF Labels, Shutting, poolVars
  <2> QED BY <2>1, <1>1, <1>2, <1>3, CallMoves
<1>6. DrainInv'
  BY <1>1, <1>2 DEF DrainInv
<1> QED BY <1>4, <1>5, <1>6

\* So does an exception it raises,
LEMMA RaiseTyped ==
  ASSUME TypeOK, CallInv, NEW c \in setting.clients, pc[c] # "idle", Raise(c), setting' = setting
  PROVE  /\ CallInv' /\ pc' \in [Clients -> Labels]
         /\ answer' \in [Clients -> [ok : BOOLEAN, events : Seq(Events)]]
<1>1. pc' = [pc EXCEPT ![c] = "idle"] /\ UNCHANGED <<op, count>>
  BY DEF Raise, Goto
<1>2. CallInv'
  BY <1>1, ResumeMoves DEF Labels, Starting, Shutting
<1>3. Failed \in [ok : BOOLEAN, events : Seq(Events)]
  <2>1. <<>> \in Seq(Events)
    BY EmptySeq
  <2> QED BY <2>1 DEF Failed
<1>4. answer' = answer \/ answer' = [answer EXCEPT ![c] = Failed]
  BY DEF Raise
<1>5. answer' \in [Clients -> [ok : BOOLEAN, events : Seq(Events)]]
  BY <1>3, <1>4 DEF TypeOK
<1> QED BY <1>1, <1>2, <1>5 DEF TypeOK, Labels

\* and the end of an initialisation.
LEMMA SchemaTyped ==
  ASSUME Typed, NEW c \in setting.clients, Schema(c)
  PROVE  Typed'
<1> USE DEF Typed
<1>1. c \in Clients /\ pc[c] = "schema" /\ TypeOK /\ CallInv /\ DrainInv
  BY SettingOK DEF Schema
<1>2. /\ op[c] \in {"initialize", "append", "read"} /\ count[c] \in Nat
      /\ op[c] = "append" => count[c] \in 1..setting.appends
  BY <1>1 DEF CallInv, Starting, TypeOK
<1>3. /\ UNCHANGED poolVars /\ handle' = Len(drains) + 1 /\ setting' = setting
      /\ using' \in [Clients -> Nat]
  BY <1>1 DEF Schema, poolVars, TypeOK
<1>4. /\ \E v \in {NewDrain, EndedDrain} : drains' = Append(drains, v)
      /\ CallInv' /\ UNCHANGED <<op, count, table, since>>
      /\ ArrivedOK
      /\ answer' \in [Clients -> [ok : BOOLEAN, events : Seq(Events)]]
  <2>1. CASE pool # 0
    <3>1. /\ drains' = Append(drains, NewDrain) /\ Arrive(c, op[c], count[c])
          /\ UNCHANGED <<op, count, table, readVars>>
      BY <2>1 DEF Schema
    <3>2. PICK l \in {"idle", "put", "flush"} :
            /\ ArrivedOK /\ pc' = [pc EXCEPT ![c] = l]
            /\ l = "put" => op[c] = "append"
            /\ l = "flush" => op[c] = "read"
      BY <1>1, <1>2, <3>1, ArriveTypes
    <3>3. l \in Labels /\ l \notin Starting \cup {"query", "join", "cancel"} \cup Shutting
      BY DEF Labels, Starting, Shutting
    <3>4. CallInv'
      BY <1>1, <1>3, <3>1, <3>2, <3>3, ResumeMoves
    <3> QED BY <3>1, <3>2, <3>4 DEF readVars, TypeOK
  <2>2. CASE pool = 0
    <3>1. drains' = Append(drains, EndedDrain) /\ Raise(c)
      BY <2>2 DEF Schema
    <3>2. UNCHANGED <<op, count, queue, unfinished, table, accepted, since>>
      BY <3>1 DEF Raise
    <3> QED BY <1>1, <1>3, <3>1, <3>2, RaiseTyped DEF ArrivedOK, TypeOK
  <2> QED BY <2>1, <2>2
<1>5. PICK v \in {NewDrain, EndedDrain} : drains' = Append(drains, v)
  BY <1>4
<1>6. /\ drains' \in Seq(Drain) /\ Len(drains') = Len(drains) + 1
      /\ \A e \in DOMAIN drains' : Len(drains'[e].batch) <= BatchMax
      /\ \A e \in DOMAIN drains : drains'[e] = drains[e]
      /\ drains'[Len(drains) + 1] = v
      /\ DOMAIN drains' = DOMAIN drains \cup {Len(drains) + 1}
  BY <1>1, <1>5, DrainJoins
<1>7. handle' \in 0..Len(drains')
  BY <1>1, <1>3, <1>6, HeldFinite
<1>8. TypeOK'
  BY <1>1, <1>3, <1>4, <1>6, <1>7 DEF TypeOK, ArrivedOK, poolVars
<1>9. DrainInv'
  BY <1>1, <1>6 DEF DrainInv, NewDrain, EndedDrain
<1> QED BY <1>4, <1>8, <1>9

\* Every step of a client keeps the types.
LEMMA ClientTyped ==
  ASSUME Typed, CountInv, NEW c \in setting.clients, Call(c) \/ Resume(c)
  PROVE  Typed'
<1> USE DEF Typed
<1>a. c \in Clients /\ TypeOK /\ CallInv /\ DrainInv /\ setting.appends \in Nat
  BY SettingOK
<1>b. count[c] \in Nat /\ Len(accepted) \in Nat
  BY <1>a DEF TypeOK
<1>1. CASE Initialize(c)
  BY <1>1, <1>a, <1>b, EnterTyped DEF Initialize, TypeOK
<1>2. CASE AppendEvent(c)
  <2>1. count[c] + 1 \in 1..setting.appends /\ since' = since
    BY <1>2, <1>a, <1>b DEF AppendEvent
  <2>2. Enter(c, "append", count[c] + 1) /\ since' \in [Clients -> Nat]
    BY <1>2, <1>a, <2>1 DEF AppendEvent, TypeOK
  <2>3. count[c] + 1 \in Nat
    BY <1>b
  <2> QED BY <2>1, <2>2, <2>3, EnterTyped
<1>3. CASE Read(c)
  BY <1>3, <1>a, <1>b, EnterTyped DEF Read, TypeOK
<1>4. CASE Schema(c)
  BY <1>4, SchemaTyped
<1>5. CASE CreateFails(c) \/ SchemaFails(c) \/ QueryFails(c)
  <2>1. pc[c] # "idle" /\ Raise(c) /\ UNCHANGED <<using, poolVars, drains, handle>>
    BY <1>5 DEF CreateFails, SchemaFails, QueryFails
  <2>2. setting' = setting /\ UNCHANGED <<closed, pool, shut>>
    BY <2>1 DEF poolVars
  <2>3. /\ CallInv' /\ pc' \in [Clients -> Labels]
        /\ answer' \in [Clients -> [ok : BOOLEAN, events : Seq(Events)]]
    BY <1>a, <2>1, <2>2, RaiseTyped
  <2>4. TypeOK' /\ DrainInv'
    BY <1>a, <2>1, <2>2, <2>3 DEF Raise, TypeOK, DrainInv
  <2> QED BY <2>3, <2>4
<1>6. CASE Put(c)
  <2>1. op[c] = "append" /\ count[c] \in 1..setting.appends /\ HasRoom /\ Accept(c, count[c])
    BY <1>6, <1>a DEF Put, CallInv
  <2>2. /\ pc' = [pc EXCEPT ![c] = "idle"] /\ pc' \in [Clients -> Labels]
        /\ queue' \in Seq(Events) /\ Len(queue') <= QueueMax
        /\ unfinished' = unfinished + 1 /\ accepted' \in Seq(Events)
    BY <1>a, <2>1, Accepts
  <2>3. UNCHANGED <<op, count, using, poolVars, drains, handle, table, readVars>>
    BY <1>6 DEF Put
  <2>4. setting' = setting /\ pc[c] # "idle"
    BY <1>6, <2>3 DEF poolVars, Put
  <2>5. CallInv'
    BY <1>a, <2>2, <2>3, <2>4, ResumeMoves DEF Labels, Starting, Shutting
  <2>6. TypeOK' /\ DrainInv'
    BY SMTT(30), <1>a, <2>2, <2>3 DEF poolVars, readVars, TypeOK, DrainInv
  <2> QED BY <2>5, <2>6
<1>7. CASE Create(c) \/ Flush(c) \/ Query(c) \/ Join(c) \/ BeginShut(c) \/ EndShut(c)
  <2>1. PICK l \in {"schema", "query", "idle", "cancel", "shutting"} :
          /\ pc' = [pc EXCEPT ![c] = l] /\ pc[c] # "idle"
          /\ l = "schema" => pc[c] = "create"
          /\ l = "query" => pc[c] = "flush"
          /\ l = "cancel" => pc[c] = "join"
          /\ l = "shutting" => pc[c] = "shut"
    BY <1>7 DEF Create, Flush, Query, Join, BeginShut, EndShut, Goto
  <2>2. UNCHANGED <<setting, op, count, using, closed, writeVars, accepted, since>>
    BY <1>7 DEF Create, Flush, Query, Join, BeginShut, EndShut, poolVars, writeVars, readVars
  <2>3. CallInv'
    <3>1. /\ l \in Labels /\ l # "put"
          /\ l \in Starting => op[c] \in {"initialize", "append", "read"}
          /\ l \in {"flush", "query"} => op[c] = "read"
          /\ l \in {"join", "cancel"} \cup Shutting => op[c] = "close"
      BY <1>a, <2>1 DEF CallInv, Labels, Starting, Shutting
    <3> QED BY <1>a, <2>1, <2>2, <3>1, ResumeMoves
  <2>4. pool' \in Nat /\ shut' \in Nat
    BY <1>7, <1>a DEF Create, Flush, Query, Join, BeginShut, EndShut, poolVars, TypeOK
  <2>5. answer' \in [Clients -> [ok : BOOLEAN, events : Seq(Events)]]
    <3>1. table \in Seq(Events)
      BY <1>a DEF TypeOK
    <3>2. Returned(table) \in [ok : BOOLEAN, events : Seq(Events)]
      BY <3>1 DEF Returned
    <3>3. answer' = answer \/ answer' = [answer EXCEPT ![c] = Returned(table)]
      BY <1>7 DEF Create, Flush, Query, Join, BeginShut, EndShut, readVars
    <3> QED BY <1>a, <3>2, <3>3 DEF TypeOK
  <2>6. pc' \in [Clients -> Labels]
    BY <1>a, <2>1 DEF TypeOK, Labels
  <2>7. TypeOK' /\ DrainInv'
    BY <1>a, <2>2, <2>4, <2>5, <2>6 DEF writeVars, TypeOK, DrainInv
  <2> QED BY <2>3, <2>7
<1>8. CASE Close(c)
  <2>1. PICK l \in {"join", "shut", "idle"} : pc' = [pc EXCEPT ![c] = l]
    BY <1>8 DEF Close, CancelDrain, Goto
  <2>2. /\ op' = [op EXCEPT ![c] = "close"] /\ closed' = TRUE
        /\ UNCHANGED <<setting, count, using, pool, shut, queue, unfinished, table, accepted, readVars>>
    BY <1>8 DEF Close
  <2>3. count' = [count EXCEPT ![c] = count[c]] /\ l \in Labels
    BY <1>a, <2>2 DEF TypeOK, Labels
  <2>4. CallInv'
    BY <1>a, <2>1, <2>2, <2>3, CallMoves DEF Starting, Shutting
  <2>5. \/ UNCHANGED <<drains, handle>>
        \/ drains' = [drains EXCEPT ![handle] = EndedDrain] /\ handle' = 0
    BY <1>8 DEF Close, CancelDrain
  <2>6. /\ drains' \in Seq(Drain) /\ handle' \in 0..Len(drains') /\ DrainInv'
        /\ \A d \in DOMAIN drains' : Len(drains'[d].batch) <= BatchMax
    <3>1. CASE UNCHANGED <<drains, handle>>
      BY <1>a, <3>1 DEF TypeOK, DrainInv
    <3>2. CASE drains' = [drains EXCEPT ![handle] = EndedDrain] /\ handle' = 0
      <4>1. /\ drains' \in Seq(Drain) /\ Len(drains') = Len(drains)
            /\ \A e \in DOMAIN drains' : Len(drains'[e].batch) <= BatchMax
            /\ \A e \in DOMAIN drains : drains'[e] = IF e = handle THEN EndedDrain ELSE drains[e]
        BY <1>a, <3>2, DrainCleared
      <4>2. DOMAIN drains' = DOMAIN drains /\ Len(drains) \in Nat
        BY <1>a, <3>2, HeldFinite
      <4>3. DrainInv'
        BY <1>a, <4>1, <4>2 DEF DrainInv, EndedDrain
      <4> QED BY <3>2, <4>1, <4>2, <4>3
    <3> QED BY <2>5, <3>1, <3>2
  <2>7. pc' \in [Clients -> Labels] /\ op' \in [Clients -> {"initialize", "append", "read", "close"}]
    BY <1>a, <2>1, <2>2, <2>3 DEF TypeOK
  <2>8. TypeOK'
    BY <1>a, <2>2, <2>6, <2>7 DEF readVars, TypeOK
  <2> QED BY <2>4, <2>6, <2>8
<1>9. CASE CloseAgain(c)
  <2>1. /\ op' = [op EXCEPT ![c] = "close"] /\ pc' = pc /\ pc[c] = "idle"
        /\ UNCHANGED <<count, using, poolVars, writeVars, accepted, readVars>>
    BY <1>9 DEF CloseAgain
  <2>2. pc' = [pc EXCEPT ![c] = "idle"] /\ count' = [count EXCEPT ![c] = count[c]] /\ setting' = setting
    BY <1>a, <2>1 DEF TypeOK, poolVars
  <2>3. CallInv'
    BY <1>a, <2>1, <2>2, CallMoves DEF Labels, Starting, Shutting
  <2>4. TypeOK' /\ DrainInv'
    BY <1>a, <2>1 DEF poolVars, writeVars, readVars, TypeOK, DrainInv
  <2> QED BY <2>3, <2>4
<1>10. CASE Cancel(c)
  <2>1. /\ pc[c] = "cancel" /\ pc' = [pc EXCEPT ![c] = "shut"]
        /\ drains' = [drains EXCEPT ![handle] = EndedDrain] /\ handle' = 0
        /\ UNCHANGED <<op, count, using, poolVars, queue, unfinished, table, accepted, readVars>>
    BY <1>10 DEF Cancel, CancelDrain, Goto
  <2>2. /\ drains' \in Seq(Drain) /\ Len(drains') = Len(drains)
        /\ \A e \in DOMAIN drains' : Len(drains'[e].batch) <= BatchMax
        /\ \A e \in DOMAIN drains : drains'[e] = IF e = handle THEN EndedDrain ELSE drains[e]
    BY <1>a, <2>1, DrainCleared
  <2>3. DOMAIN drains' = DOMAIN drains /\ Len(drains) \in Nat
    BY <1>a, <2>1, HeldFinite
  <2>4. DrainInv'
    BY <1>a, <2>2, <2>3 DEF DrainInv, EndedDrain
  <2>5. setting' = setting /\ op[c] = "close" /\ "shut" \in Labels
    BY <1>a, <2>1 DEF CallInv, poolVars, Labels
  <2>6. CallInv'
    BY <1>a, <2>1, <2>5, ResumeMoves DEF Starting, Shutting
  <2>7. pc' \in [Clients -> Labels]
    BY <1>a, <2>1, <2>5 DEF TypeOK
  <2>8. TypeOK'
    BY SMTT(30), <1>a, <2>1, <2>2, <2>3, <2>7 DEF poolVars, readVars, TypeOK
  <2> QED BY <2>4, <2>6, <2>8
<1> QED
  BY <1>1, <1>2, <1>3, <1>4, <1>5, <1>6, <1>7, <1>8, <1>9, <1>10 DEF Call, Resume

\* Every step of a drain task keeps the types: it counts off no more than is
\* unfinished.
LEMMA DrainTyped ==
  ASSUME Typed, CountInv, NEW d \in DOMAIN drains, DrainStep(d)
  PROVE  Typed'
<1> USE DEF Typed
<1>a. TypeOK /\ CallInv /\ DrainInv
  OBVIOUS
<1>b. UNCHANGED <<clientVars, poolVars, handle, accepted, readVars>>
  BY DEF DrainStep, Take, Fill, Write, WriteFails, Done
<1>c. CallInv' /\ DOMAIN drains = 1..Len(drains) /\ Len(drains) \in Nat
  BY <1>a, <1>b, HeldFinite DEF CallInv, clientVars, poolVars
<1>1. CASE Take(d)
  <2>1. UNCHANGED <<unfinished, table>>
    BY <1>1 DEF Take
  <2>2. /\ queue' \in Seq(Events) /\ Len(queue') = Len(queue) - 1
        /\ drains' \in Seq(Drain) /\ Len(drains') = Len(drains)
        /\ \A e \in DOMAIN drains' : Len(drains'[e].batch) <= BatchMax
        /\ \A e \in DOMAIN drains : e # d => drains'[e] = drains[e]
        /\ drains'[d].state = "fill" /\ Len(drains'[d].batch) = Len(drains[d].batch) + 1
        /\ Len(drains[d].batch) \in Nat /\ Len(queue) \in Nat /\ QueueMax \in Nat
    BY <1>1, <1>a, TakeMoves, HeldFinite, StoreAssumption DEF StoreAssumption
  <2>3. TypeOK'
    BY SMTT(30), <1>a, <1>b, <2>1, <2>2 DEF clientVars, poolVars, readVars, TypeOK
  <2>4. drains'[d].batch # <<>>
    BY <2>2, EmptySeq
  <2>5. DrainInv'
    BY SMTT(30), <1>a, <1>c, <2>2, <2>4 DEF DrainInv
  <2> QED BY <1>c, <2>3, <2>5
<1>2. CASE Fill(d)
  <2>1. UNCHANGED <<queue, unfinished, table>>
    BY <1>2 DEF Fill
  <2>2. /\ drains[d].state = "fill" /\ drains'[d].state = "write"
        /\ drains'[d].batch = drains[d].batch
        /\ \A e \in DOMAIN drains : e # d => drains'[e] = drains[e]
        /\ drains' \in Seq(Drain) /\ Len(drains') = Len(drains)
        /\ \A e \in DOMAIN drains' : Len(drains'[e].batch) <= BatchMax
    BY <1>2, <1>a, FillMoves
  <2>3. TypeOK'
    BY <1>a, <1>b, <2>1, <2>2 DEF clientVars, poolVars, readVars, TypeOK
  <2>4. DrainInv'
    BY <1>a, <1>c, <2>2 DEF DrainInv
  <2> QED BY <1>c, <2>3, <2>4
<1>3. CASE Write(d) \/ WriteFails(d)
  <2>1. Done(d) /\ queue' = queue
    BY <1>3 DEF Write, WriteFails, Done
  <2>2. /\ drains' \in Seq(Drain) /\ Len(drains') = Len(drains)
        /\ \A e \in DOMAIN drains' : Len(drains'[e].batch) <= BatchMax
        /\ \A e \in DOMAIN drains : drains'[e] = IF e = d THEN NewDrain ELSE drains[e]
        /\ unfinished' \in Nat
    BY <1>a, <2>1, DoneMoves
  <2>3. table' \in Seq(Events)
    <3>1. drains[d].batch \in Seq(Events) /\ table \in Seq(Events)
      BY <1>a, HeldFinite DEF TypeOK
    <3>2. table' = table \/ table' = table \o drains[d].batch
      BY <1>3 DEF Write, WriteFails, Rows
    <3> QED BY <3>1, <3>2, ConcatProperties
  <2>4. TypeOK'
    BY <1>a, <1>b, <2>1, <2>2, <2>3 DEF clientVars, poolVars, readVars, TypeOK
  <2>5. DOMAIN drains' = DOMAIN drains
    BY <1>c, <2>2
  <2>6. DrainInv'
    BY <1>a, <2>2, <2>5 DEF DrainInv, NewDrain
  <2> QED BY <1>c, <2>4, <2>6
<1> QED BY <1>1, <1>2, <1>3 DEF DrainStep

\* The types are kept.
LEMMA TypedStep == Typed /\ CountInv /\ [Next]_vars => Typed'
<1> SUFFICES ASSUME Typed, CountInv, [Next]_vars PROVE Typed'
  OBVIOUS
<1>1. CASE UNCHANGED vars
  BY <1>1 DEF vars, clientVars, poolVars, writeVars, readVars, Typed, TypeOK, CallInv, DrainInv
<1> QED BY <1>1, ClientTyped, DrainTyped DEF Next

-----------------------------------------------------------------------------
(* What a step of a client changes of the queue and of the drain tasks *)

\* An event is accepted, in a state that has room for it.
Accepting(c) == \E n \in 1..setting.appends : HasRoom /\ Accept(c, n)

\* The drain task that close() knows of is cancelled.
Cancelling == drains' = [drains EXCEPT ![handle] = EndedDrain] /\ handle' = 0

\* The table is not theirs; of the queue they see an end, of the drain tasks a
\* beginning or an end.
LEMMA ClientEffects ==
  ASSUME Typed, NEW c \in setting.clients, Call(c) \/ Resume(c)
  PROVE  /\ table' = table /\ setting' = setting
         /\ UNCHANGED <<queue, unfinished, accepted>> \/ Accepting(c)
         /\ \/ UNCHANGED <<drains, handle>>
            \/ /\ pc[c] = "schema" /\ handle' = Len(drains) + 1
               /\ \E v \in {NewDrain, EndedDrain} : drains' = Append(drains, v)
            \/ Cancelling /\ UNCHANGED <<queue, unfinished, accepted>>
<1>a. c \in Clients /\ TypeOK /\ CallInv /\ setting.appends \in Nat /\ count[c] \in Nat
  BY SettingOK DEF Typed, TypeOK
<1>1. ASSUME NEW o \in {"initialize", "append", "read"}, NEW n, Arrive(c, o, n),
             o = "append" => n \in 1..setting.appends
      PROVE  UNCHANGED <<queue, unfinished, accepted>> \/ Accepting(c)
  BY <1>1, Arrives DEF Accepting
<1>2. ASSUME NEW o \in {"initialize", "append", "read"}, NEW n, Enter(c, o, n),
             o = "append" => n \in 1..setting.appends
      PROVE  /\ UNCHANGED <<queue, unfinished, accepted>> \/ Accepting(c)
             /\ table' = table /\ setting' = setting /\ UNCHANGED <<drains, handle>>
  BY <1>1, <1>2 DEF Enter, poolVars
<1>3. CASE Initialize(c) \/ Read(c)
  BY <1>2, <1>3 DEF Initialize, Read
<1>4. CASE AppendEvent(c)
  <2>1. count[c] + 1 \in 1..setting.appends
    BY <1>a, <1>4 DEF AppendEvent
  <2> QED BY <1>2, <1>4, <2>1 DEF AppendEvent
<1>5. CASE Schema(c)
  <2>1. /\ op[c] \in {"initialize", "append", "read"}
        /\ op[c] = "append" => count[c] \in 1..setting.appends
    BY <1>a, <1>5 DEF Schema, CallInv, Starting
  <2>2. CASE pool # 0
    <3>1. /\ drains' = Append(drains, NewDrain) /\ handle' = Len(drains) + 1 /\ pc[c] = "schema"
          /\ Arrive(c, op[c], count[c]) /\ table' = table /\ setting' = setting
      BY <1>5, <2>2 DEF Schema, poolVars
    <3> QED BY <1>1, <2>1, <3>1
  <2>3. CASE pool = 0
    <3>1. /\ drains' = Append(drains, EndedDrain) /\ handle' = Len(drains) + 1 /\ pc[c] = "schema"
          /\ UNCHANGED <<queue, unfinished, accepted, table>> /\ setting' = setting
      BY <1>5, <2>3 DEF Schema, poolVars, Raise
    <3> QED BY <3>1
  <2> QED BY <2>2, <2>3
<1>6. CASE Put(c)
  <2>1. count[c] \in 1..setting.appends
    BY <1>a, <1>6 DEF Put, CallInv
  <2> QED BY <1>6, <2>1 DEF Put, Accepting, poolVars
<1>7. CASE Create(c) \/ CreateFails(c) \/ SchemaFails(c) \/ Flush(c) \/ Query(c) \/ QueryFails(c)
           \/ Join(c) \/ BeginShut(c) \/ EndShut(c) \/ CloseAgain(c)
  BY <1>7 DEF Create, CreateFails, SchemaFails, Flush, Query, QueryFails, Join, BeginShut, EndShut,
    CloseAgain, Raise, poolVars, writeVars
<1>8. CASE Close(c) \/ Cancel(c)
  BY <1>8 DEF Close, Cancel, CancelDrain, Cancelling, poolVars
<1> QED BY <1>3, <1>4, <1>5, <1>6, <1>7, <1>8 DEF Call, Resume

\* The drain tasks after such a step, one by one.
LEMMA DrainsAfter ==
  ASSUME Typed, NEW c \in setting.clients, Call(c) \/ Resume(c)
  PROVE  /\ DOMAIN drains \subseteq DOMAIN drains'
         /\ \A d \in DOMAIN drains : drains'[d] = drains[d] \/ drains'[d] = EndedDrain
         /\ \A d \in (DOMAIN drains') \ DOMAIN drains : drains'[d].batch = <<>>
         /\ \A d \in DOMAIN drains' : drains'[d].batch # <<>> =>
              d \in DOMAIN drains /\ drains'[d] = drains[d]
<1>a. TypeOK
  BY DEF Typed
<1>1. CASE UNCHANGED <<drains, handle>>
  BY <1>1
<1>2. ASSUME NEW v \in {NewDrain, EndedDrain}, drains' = Append(drains, v)
      PROVE  /\ DOMAIN drains' = DOMAIN drains \cup {Len(drains) + 1}
             /\ \A d \in DOMAIN drains : drains'[d] = drains[d]
             /\ drains'[Len(drains) + 1].batch = <<>>
  BY <1>a, <1>2, DrainJoins DEF NewDrain, EndedDrain
<1>3. CASE Cancelling
  <2>1. \A e \in DOMAIN drains : drains'[e] = IF e = handle THEN EndedDrain ELSE drains[e]
    BY <1>a, <1>3, DrainCleared DEF Cancelling
  <2>2. DOMAIN drains' = DOMAIN drains
    BY <1>3 DEF Cancelling
  <2> QED BY <2>1, <2>2 DEF EndedDrain
<1> QED BY <1>1, <1>2, <1>3, ClientEffects

\* An event that is accepted is counted; clients take none away.
LEMMA CountClient ==
  ASSUME Typed, CountInv, NEW c \in setting.clients, Call(c) \/ Resume(c)
  PROVE  CountInv'
<1>a. TypeOK
  BY DEF Typed
<1>1. IsFiniteSet(Held) /\ Cardinality(Held) \in Nat /\ Len(queue) \in Nat /\ unfinished \in Nat
  BY <1>a, HeldFinite DEF TypeOK
<1>2. Held' \in SUBSET Held
  <2>1. ASSUME NEW h \in Held' PROVE h \in Held
    <3>1. /\ h \in (DOMAIN drains') \X (1..BatchMax) /\ h[1] \in DOMAIN drains' /\ h[2] \in 1..BatchMax
          /\ h[2] <= Len(drains'[h[1]].batch)
      BY <2>1 DEF Held
    <3>2. drains'[h[1]].batch # <<>>
      BY <3>1, EmptySeq
    <3>3. h[1] \in DOMAIN drains /\ drains'[h[1]] = drains[h[1]]
      BY <3>1, <3>2, DrainsAfter
    <3> QED BY <3>1, <3>3 DEF Held
  <2> QED BY <2>1
<1>3. Cardinality(Held') <= Cardinality(Held) /\ Cardinality(Held') \in Nat
  BY <1>1, <1>2, FS_Subset, FS_CardinalityType
<1>4. CASE UNCHANGED <<queue, unfinished, accepted>>
  BY <1>1, <1>3, <1>4 DEF CountInv
<1>5. CASE Accepting(c)
  <2>1. Len(queue') = Len(queue) + 1 /\ unfinished' = unfinished + 1
    BY <1>a, <1>5, Accepts DEF Accepting
  <2> QED BY <1>1, <1>3, <2>1 DEF CountInv
<1> QED BY <1>4, <1>5, ClientEffects

\* An event moves from the queue to a batch; what is written leaves both
\* counts.
LEMMA CountDrain ==
  ASSUME Typed, CountInv, NEW d \in DOMAIN drains, DrainStep(d)
  PROVE  CountInv'
<1>a. TypeOK /\ DrainInv
  BY DEF Typed
<1>b. /\ IsFiniteSet(Held) /\ Cardinality(Held) \in Nat /\ Len(queue) \in Nat /\ unfinished \in Nat
      /\ Len(drains[d].batch) \in Nat /\ DOMAIN drains = 1..Len(drains) /\ Len(drains) \in Nat
      /\ BatchMax \in Nat
  BY <1>a, HeldFinite DEF TypeOK
<1>1. CASE Take(d)
  <2> DEFINE h == <<d, Len(drains[d].batch) + 1>>
  <2>1. /\ Len(queue') = Len(queue) - 1 /\ Len(drains') = Len(drains) /\ drains' \in Seq(Drain)
        /\ \A e \in DOMAIN drains : e # d => drains'[e] = drains[e]
        /\ Len(drains'[d].batch) = Len(drains[d].batch) + 1
    BY <1>1, <1>a, TakeMoves
  <2>2. DOMAIN drains' = DOMAIN drains
    BY <1>b, <2>1
  <2>3. Held' \subseteq Held \cup {h}
    <3>1. ASSUME NEW g \in Held', g # h PROVE g \in Held
      <4>1. /\ g \in (DOMAIN drains) \X (1..BatchMax) /\ g = <<g[1], g[2]>> /\ g[2] \in Nat
            /\ g[2] <= Len(drains'[g[1]].batch) /\ g[1] \in DOMAIN drains
        BY <2>2, <3>1 DEF Held
      <4>2. CASE g[1] # d
        BY <2>1, <4>1, <4>2 DEF Held
      <4>3. CASE g[1] = d
        <5>1. g[2] # Len(drains[d].batch) + 1
          BY <3>1, <4>1, <4>3
        <5> QED BY <1>b, <2>1, <4>1, <4>3, <5>1 DEF Held
      <4> QED BY <4>2, <4>3
    <3> QED BY <3>1
  <2>4. IsFiniteSet(Held \cup {h}) /\ Cardinality(Held \cup {h}) <= Cardinality(Held) + 1
    <3> HIDE DEF h
    <3>1. /\ IsFiniteSet(Held \cup {h})
          /\ Cardinality(Held \cup {h}) = IF h \in Held THEN Cardinality(Held) ELSE Cardinality(Held) + 1
      BY <1>b, FS_AddElement
    <3> QED BY <1>b, <3>1
  <2>5. /\ Cardinality(Held') <= Cardinality(Held \cup {h})
        /\ Cardinality(Held') \in Nat /\ Cardinality(Held \cup {h}) \in Nat
    BY <2>3, <2>4, FS_Subset, FS_CardinalityType
  <2>6. unfinished' = unfinished
    BY <1>1 DEF Take
  <2> QED BY <1>b, <2>1, <2>4, <2>5, <2>6 DEF CountInv
<1>2. CASE Fill(d)
  <2>1. /\ drains'[d].batch = drains[d].batch
        /\ \A e \in DOMAIN drains : e # d => drains'[e] = drains[e]
        /\ drains' \in Seq(Drain) /\ Len(drains') = Len(drains)
        /\ queue' = queue /\ unfinished' = unfinished
    BY <1>2, <1>a, FillMoves DEF Fill
  <2>2. DOMAIN drains' = DOMAIN drains /\ \A e \in DOMAIN drains : drains'[e].batch = drains[e].batch
    BY <1>b, <2>1
  <2>3. Held' = Held
    BY <2>2 DEF Held
  <2> QED BY <2>1, <2>3 DEF CountInv
<1>3. CASE Write(d) \/ WriteFails(d)
  <2>1. Done(d) /\ queue' = queue
    BY <1>3 DEF Write, WriteFails, Done
  <2>2. /\ drains' \in Seq(Drain) /\ Len(drains') = Len(drains)
        /\ \A e \in DOMAIN drains : drains'[e] = IF e = d THEN NewDrain ELSE drains[e]
        /\ unfinished' = unfinished - Len(drains[d].batch)
    BY <1>a, <2>1, DoneMoves
  <2>3. DOMAIN drains' = DOMAIN drains
    BY <1>b, <2>2
  <2>4. OfBatch(d) \in SUBSET Held /\ Cardinality(OfBatch(d)) = Len(drains[d].batch)
    BY <1>a, BatchCount
  <2>5. Held' = Held \ OfBatch(d)
    <3>1. ASSUME NEW g, g \in Held' PROVE g \in Held /\ g \notin OfBatch(d)
      <4>1. /\ g \in (DOMAIN drains) \X (1..BatchMax) /\ g[2] \in 1..BatchMax
            /\ g[2] <= Len(drains'[g[1]].batch) /\ g[1] \in DOMAIN drains
        BY <2>3, <3>1 DEF Held
      <4>2. g[1] # d
        BY <2>2, <4>1, EmptySeq DEF NewDrain
      <4> QED BY <2>2, <4>1, <4>2 DEF Held, OfBatch
    <3>2. ASSUME NEW g, g \in Held, g \notin OfBatch(d) PROVE g \in Held'
      <4>1. /\ g \in (DOMAIN drains) \X (1..BatchMax) /\ g[2] \in 1..BatchMax /\ g = <<g[1], g[2]>>
            /\ g[2] <= Len(drains[g[1]].batch) /\ g[1] \in DOMAIN drains
        BY <3>2 DEF Held
      <4>2. g[1] # d
        BY <1>b, <3>2, <4>1 DEF OfBatch
      <4> QED BY <2>2, <2>3, <4>1, <4>2 DEF Held
    <3> QED BY <3>1, <3>2
  <2>6. Held \cap OfBatch(d) = OfBatch(d)
    BY <2>4
  <2>7. Cardinality(Held') = Cardinality(Held) - Len(drains[d].batch)
    <3>1. Cardinality(Held \ OfBatch(d)) = Cardinality(Held) - Cardinality(Held \cap OfBatch(d))
      BY <1>b, FS_Difference
    <3> QED BY <2>4, <2>5, <2>6, <3>1
  <2> QED BY <1>b, <2>1, <2>2, <2>7 DEF CountInv
<1> QED BY <1>1, <1>2, <1>3 DEF DrainStep

\* The count of unfinished tasks covers what is under way.
LEMMA CountStep == Typed /\ CountInv /\ [Next]_vars => CountInv'
<1> SUFFICES ASSUME Typed, CountInv, [Next]_vars PROVE CountInv'
  OBVIOUS
<1>1. CASE UNCHANGED vars
  BY <1>1 DEF vars, writeVars, CountInv, Held
<1> QED BY <1>1, CountClient, CountDrain DEF Next

-----------------------------------------------------------------------------
(* How the store is used *)

\* A queue without room holds an event.
LEMMA FullQueue ==
  ASSUME TypeOK, ~HasRoom
  PROVE  queue # <<>>
  BY StoreAssumption, EmptySeq DEF StoreAssumption, HasRoom, TypeOK

\* A client that starts, and every other, after a step of c.
LEMMA FrozenClient ==
  ASSUME Typed, CountInv, Frozen, NEW c \in setting.clients, Call(c) \/ Resume(c)
  PROVE  Frozen'
<1>a. c \in Clients /\ TypeOK /\ CallInv
  BY SettingOK DEF Typed
<1>b. closed /\ queue = <<>> /\ \A d \in Clients : pc[d] # "put" /\ ~(op[d] = "append" /\ pc[d] \in Starting)
  BY DEF Frozen
<1>1. closed'
  BY <1>b DEF Call, Resume, Initialize, AppendEvent, Read, Close, CloseAgain, Enter, Create, CreateFails,
    Schema, SchemaFails, Put, Flush, Query, QueryFails, Join, Cancel, BeginShut, EndShut, poolVars
<1>2. \A d \in DOMAIN drains' : drains'[d].batch = <<>>
  BY DrainsAfter DEF Frozen
<1>3. /\ UNCHANGED queue
      /\ \E l, o : /\ pc' = [pc EXCEPT ![c] = l] /\ op' = [op EXCEPT ![c] = o]
                   /\ l # "put" /\ ~(o = "append" /\ l \in Starting)
  <2>1. op = [op EXCEPT ![c] = op[c]] /\ pc = [pc EXCEPT ![c] = pc[c]]
    BY <1>a DEF TypeOK
  <2>2. ASSUME NEW o \in {"initialize", "read"}, NEW n, Enter(c, o, n)
        PROVE  /\ queue' = queue /\ op' = [op EXCEPT ![c] = o]
               /\ \E l \in {"create", "idle", "flush"} : pc' = [pc EXCEPT ![c] = l]
    BY <2>2, Arrives DEF Enter, Goto
  <2>3. CASE Initialize(c) \/ Read(c)
    <3>0. PICK o \in {"initialize", "read"} : Enter(c, o, count[c])
      BY <2>3 DEF Initialize, Read
    <3>1. PICK n : Enter(c, o, n)
      BY <3>0
    <3>2. queue' = queue /\ op' = [op EXCEPT ![c] = o]
      BY <2>2, <3>1
    <3>3. PICK l \in {"create", "idle", "flush"} : pc' = [pc EXCEPT ![c] = l]
      BY <2>2, <3>1
    <3>4. l # "put" /\ o # "append"
      OBVIOUS
    <3> QED BY <3>2, <3>3, <3>4
  <2>4. CASE AppendEvent(c) \/ Put(c) \/ Close(c)
    BY <1>a, <1>b, <2>4 DEF AppendEvent, Put, Close
  <2>5. CASE Schema(c)
    <3>1. op[c] \in {"initialize", "read"} /\ op' = op
      BY <1>a, <1>b, <2>5 DEF Schema, CallInv, Starting, Raise
    <3>2. /\ queue' = queue /\ \E l \in {"idle", "flush"} : pc' = [pc EXCEPT ![c] = l]
      BY <2>5, <3>1, Arrives DEF Schema, Raise, Goto
    <3> QED BY <2>1, <3>1, <3>2
  <2>6. CASE CreateFails(c) \/ SchemaFails(c) \/ QueryFails(c)
    BY <2>1, <2>6 DEF CreateFails, SchemaFails, QueryFails, Raise, Goto, Starting
  <2>7. CASE Create(c)
    BY <1>a, <1>b, <2>1, <2>7 DEF Create, Goto, Starting, writeVars
  <2>8. CASE Flush(c) \/ Query(c) \/ Join(c) \/ Cancel(c) \/ BeginShut(c) \/ EndShut(c)
    BY <2>1, <2>8 DEF Flush, Query, Join, Cancel, CancelDrain, BeginShut, EndShut, Goto, Starting, writeVars
  <2>9. CASE CloseAgain(c)
    <3>1. /\ queue' = queue /\ op' = [op EXCEPT ![c] = "close"]
          /\ pc' = [pc EXCEPT ![c] = "idle"]
      BY <2>1, <2>9 DEF CloseAgain, writeVars
    <3>2. "idle" # "put" /\ ~("close" = "append" /\ "idle" \in Starting)
      OBVIOUS
    <3> QED BY <3>1, <3>2, Zenon
  <2> QED
    BY <2>3, <2>4, <2>5, <2>6, <2>7, <2>8, <2>9 DEF Call, Resume
<1>4. \A d \in Clients : pc'[d] # "put" /\ ~(op'[d] = "append" /\ pc'[d] \in Starting)
  BY <1>a, <1>b, <1>3 DEF TypeOK
<1> QED BY <1>1, <1>2, <1>3, <1>4, <1>b DEF Frozen

\* No drain task can go on in a frozen store.
LEMMA FrozenDrain ==
  ASSUME Typed, Frozen, NEW d \in DOMAIN drains
  PROVE  ~DrainStep(d)
<1>1. drains[d].state \in {"get", "ended"} /\ queue = <<>>
  BY DEF Frozen, Typed, DrainInv
<1> QED BY <1>1 DEF DrainStep, Take, Fill, Write, WriteFails

\* What the clients do with a store in use does not touch its pool; who closes
\* it when all is flushed leaves it frozen.
LEMMA InUseClient ==
  ASSUME Typed, CountInv, InUse, NEW c \in setting.clients, Call(c) \/ Resume(c)
  PROVE  Frozen' \/ InUse'
<1>a. /\ c \in Clients /\ TypeOK /\ CallInv /\ DrainInv
      /\ DOMAIN drains = 1..Len(drains)
  BY SettingOK, HeldFinite DEF Typed
<1>b. /\ pool = 1 /\ shut = 0 /\ handle = 1 /\ Len(drains) = 1 /\ drains[1].state # "ended"
      /\ \A d \in Clients :
           /\ pc[d] \notin Starting \cup Shutting
           /\ pc[d] = "put" => queue # <<>> \/ drains[1].state = "fill"
           /\ pc[d] \in {"join", "cancel"} => closed
           /\ pc[d] = "cancel" => unfinished = 0
  BY DEF InUse
<1>c. Flushed => queue = <<>> /\ drains[1].batch = <<>> /\ \A d \in Clients : pc[d] # "put"
  <2>1. Flushed => queue = <<>> /\ drains[1].batch = <<>>
    BY <1>a, <1>b, FlushedEmpty
  <2> QED BY <1>a, <1>b, <2>1 DEF DrainInv
<1>1. ASSUME UNCHANGED <<closed, pool, shut, drains, handle>>, NEW l, l \notin Starting \cup Shutting \cup {"cancel"},
             pc' = [pc EXCEPT ![c] = l], l = "join" => closed,
             \/ UNCHANGED <<queue, unfinished>> /\ (l = "put" => queue # <<>>)
             \/ queue' # <<>> /\ \A d \in Clients : pc[d] # "cancel"
      PROVE  InUse'
  <2>1. ASSUME NEW d \in Clients
        PROVE  /\ pc'[d] \notin Starting \cup Shutting
               /\ pc'[d] = "put" => queue' # <<>> \/ drains'[1].state = "fill"
               /\ pc'[d] \in {"join", "cancel"} => closed'
               /\ pc'[d] = "cancel" => unfinished' = 0
    <3>1. CASE d = c
      <4>1. pc'[d] = l
        BY <1>a, <1>1, <3>1 DEF TypeOK
      <4> QED BY <1>1, <4>1
    <3>2. CASE d # c
      <4>1. pc'[d] = pc[d]
        BY <1>a, <1>1, <3>2 DEF TypeOK
      <4> QED BY <1>b, <1>1, <4>1
    <3> QED BY <3>1, <3>2
  <2> QED BY <1>b, <1>1, <2>1 DEF InUse
<1>2. ASSUME NEW n, n \in 1..setting.appends, HasRoom, Accept(c, n)
      PROVE  queue' # <<>> /\ pc' = [pc EXCEPT ![c] = "idle"]
  <2>1. Len(queue') = Len(queue) + 1 /\ Len(queue) \in Nat /\ pc' = [pc EXCEPT ![c] = "idle"]
    BY <1>a, <1>2, Accepts, HeldFinite
  <2> QED BY <2>1, EmptySeq
<1>3. ASSUME NEW o \in {"initialize", "append", "read"}, NEW n, Enter(c, o, n),
             o = "append" => n \in 1..setting.appends /\ ~closed
      PROVE  InUse'
  <2>1. Arrive(c, o, n) /\ UNCHANGED <<closed, pool, shut, drains, handle>>
    BY <1>b, <1>3 DEF Enter, poolVars
  <2>2. CASE o = "append" /\ HasRoom /\ Accept(c, n)
    BY <1>1, <1>2, <1>3, <1>b, <2>1, <2>2 DEF Starting, Shutting
  <2>3. ASSUME UNCHANGED <<queue, unfinished, accepted>>,
               NEW l \in {"idle", "put", "flush"}, pc' = [pc EXCEPT ![c] = l],
               l = "put" => ~HasRoom
        PROVE  InUse'
    <3>1. l = "put" => queue # <<>>
      BY <1>a, <2>3, FullQueue
    <3> QED BY <1>1, <2>1, <2>3, <3>1 DEF Starting, Shutting
  <2> QED BY <2>1, <2>2, <2>3, Arrives DEF Goto
<1>4. CASE Initialize(c) \/ Read(c)
  BY <1>3, <1>4 DEF Initialize, Read
<1>5. CASE AppendEvent(c)
  <2>1. count[c] + 1 \in 1..setting.appends
    BY SMTT(30), <1>a, <1>5, SettingOK DEF AppendEvent, TypeOK
  <2> QED BY <1>3, <1>5, <2>1 DEF AppendEvent
<1>6. CASE Put(c)
  <2>1. /\ count[c] \in 1..setting.appends /\ HasRoom /\ Accept(c, count[c])
        /\ UNCHANGED <<closed, pool, shut, drains, handle>> /\ ~Flushed
    BY <1>a, <1>c, <1>6 DEF Put, CallInv, poolVars
  <2>2. \A d \in Clients : pc[d] # "cancel"
    BY <1>b, <2>1 DEF Flushed
  <2> QED BY <1>1, <1>2, <2>1, <2>2 DEF Starting, Shutting
<1>7. CASE Flush(c) \/ Query(c) \/ QueryFails(c)
  <2>1. /\ UNCHANGED <<closed, pool, shut, drains, handle, queue, unfinished>>
        /\ pc' = [pc EXCEPT ![c] = "query"] \/ pc' = [pc EXCEPT ![c] = "idle"]
    BY <1>7 DEF Flush, Query, QueryFails, Raise, Goto, poolVars, writeVars
  <2>2. ASSUME NEW l \in {"query", "idle"}, pc' = [pc EXCEPT ![c] = l] PROVE InUse'
    BY <1>1, <2>1, <2>2 DEF Starting, Shutting
  <2>3. CASE pc' = [pc EXCEPT ![c] = "query"]
    BY <2>2, <2>3
  <2>4. CASE pc' = [pc EXCEPT ![c] = "idle"]
    BY <2>2, <2>4
  <2> QED BY <2>1, <2>3, <2>4
<1>8. CASE Create(c) \/ CreateFails(c) \/ Schema(c) \/ SchemaFails(c) \/ BeginShut(c) \/ EndShut(c)
  BY <1>a, <1>b, <1>8 DEF Create, CreateFails, Schema, SchemaFails, BeginShut, EndShut, Starting, Shutting
<1>9. CASE CloseAgain(c)
  BY <1>9, <1>b DEF CloseAgain, InUse, poolVars, writeVars
<1>10. CASE Join(c)
  <2>1. /\ UNCHANGED <<closed, pool, shut, drains, handle, queue, unfinished>> /\ closed
        /\ unfinished = 0 /\ pc' = [pc EXCEPT ![c] = "cancel"]
    BY <1>a, <1>b, <1>10 DEF Join, Goto, Flushed, poolVars, writeVars
  <2>2. "cancel" \notin Starting \cup Shutting
    BY DEF Starting, Shutting
  <2> QED BY <1>a, <1>b, <2>1, <2>2 DEF InUse, TypeOK
<1>11. ASSUME Flushed, Cancelling, closed', queue' = queue,
              NEW l \in {"shut"}, pc' = [pc EXCEPT ![c] = l]
       PROVE  Frozen'
  <2>1. \A d \in Clients : pc'[d] # "put" /\ pc'[d] \notin Starting
    BY <1>a, <1>b, <1>c, <1>11 DEF TypeOK, Starting
  <2>2. \A e \in DOMAIN drains' : drains'[e] = IF e = handle THEN EndedDrain ELSE drains[e]
    BY <1>a, <1>11, DrainCleared DEF Cancelling
  <2>3. \A e \in DOMAIN drains' : e = handle
    BY <1>a, <1>b, <1>11 DEF Cancelling
  <2> QED BY <1>c, <1>11, <2>1, <2>2, <2>3 DEF Frozen, EndedDrain
<1>12. CASE Cancel(c)
  <2>1. Flushed /\ closed
    BY <1>a, <1>b, <1>12 DEF Cancel, Flushed
  <2> QED BY <1>11, <1>12, <2>1 DEF Cancel, CancelDrain, Cancelling, Goto, poolVars
<1>13. CASE Close(c)
  <2>1. CASE Flushed
    BY <1>b, <1>11, <1>13, <2>1 DEF Close, CancelDrain, Cancelling, Goto
  <2>2. CASE ~Flushed
    <3>1. /\ closed' /\ UNCHANGED <<pool, shut, queue, unfinished, drains, handle>>
          /\ pc' = [pc EXCEPT ![c] = "join"] /\ ~closed
      BY <1>b, <1>13, <2>2 DEF Close, Goto
    <3>2. "join" \notin Starting \cup Shutting
      BY DEF Starting, Shutting
    <3> QED BY <1>a, <1>b, <3>1, <3>2 DEF InUse, TypeOK
  <2> QED BY <2>1, <2>2
<1> QED
  BY <1>4, <1>5, <1>6, <1>7, <1>8, <1>9, <1>10, <1>12, <1>13 DEF Call, Resume

\* The drain task of a store in use stays the only one.
LEMMA InUseDrain ==
  ASSUME Typed, CountInv, InUse, NEW d \in DOMAIN drains, DrainStep(d)
  PROVE  InUse'
<1>a. /\ TypeOK /\ DrainInv /\ DOMAIN drains = 1..Len(drains) /\ Len(drains[d].batch) \in Nat
      /\ drains[d].batch \in Seq(Events)
  BY HeldFinite DEF Typed
<1>b. /\ pool = 1 /\ shut = 0 /\ handle = 1 /\ Len(drains) = 1 /\ d = 1 /\ drains[1].state # "ended"
      /\ \A c \in Clients :
           /\ pc[c] \notin Starting \cup Shutting
           /\ pc[c] = "put" => queue # <<>> \/ drains[1].state = "fill"
           /\ pc[c] \in {"join", "cancel"} => closed
           /\ pc[c] = "cancel" => unfinished = 0
  BY <1>a DEF InUse
<1>c. UNCHANGED <<pc, closed, pool, shut, handle>>
  BY DEF DrainStep, Take, Fill, Write, WriteFails, Done, clientVars, poolVars
<1>1. CASE Take(d)
  <2>1. unfinished' = unfinished /\ Len(drains') = Len(drains) /\ drains'[d].state = "fill"
    BY <1>1, <1>a, TakeMoves DEF Take
  <2> QED BY <1>b, <1>c, <2>1 DEF InUse
<1>2. CASE Fill(d)
  <2>1. /\ UNCHANGED <<queue, unfinished>> /\ Len(drains') = Len(drains)
        /\ drains'[d].state = "write" /\ PuttersDone
    BY <1>2, <1>a, FillMoves DEF Fill
  <2>2. ASSUME NEW c \in Clients, pc[c] = "put" PROVE queue # <<>>
    BY <1>a, <2>1, <2>2, FullQueue DEF PuttersDone
  <2> QED BY <1>b, <1>c, <2>1, <2>2 DEF InUse
<1>3. CASE Write(d) \/ WriteFails(d)
  <2>1. Done(d) /\ queue' = queue /\ drains[d].state = "write"
    BY <1>3 DEF Write, WriteFails, Done
  <2>2. /\ Len(drains') = Len(drains) /\ drains'[d].state = "get"
        /\ unfinished' = unfinished - Len(drains[d].batch)
    BY <1>a, <2>1, DoneMoves DEF NewDrain
  <2>3. drains[d].batch # <<>> /\ ~Flushed
    BY <1>a, <2>1, FlushedEmpty DEF DrainInv
  <2>4. \A c \in Clients : pc[c] # "cancel"
    BY <1>b, <2>3 DEF Flushed
  <2> QED BY <1>b, <1>c, <2>1, <2>2, <2>4 DEF InUse
<1> QED BY <1>1, <1>2, <1>3 DEF DrainStep

AllEnded == \A d \in DOMAIN drains : drains[d].state = "ended"

\* What the only client does.
LEMMA AloneClient ==
  ASSUME Typed, Alone, NEW c \in setting.clients, \A d \in setting.clients : d = c,
         Call(c) \/ Resume(c)
  PROVE  Alone'
<1>a. /\ c \in Clients /\ TypeOK /\ CallInv
      /\ DOMAIN drains = 1..Len(drains) /\ Len(drains) \in Nat
  BY SettingOK, HeldFinite DEF Typed
<1>b. OneDrain /\ (pool = 0 \/ pc[c] \in Starting \cup Shutting => AllEnded)
  BY <1>a DEF Alone, AllEnded
<1>c. \A d \in Clients : d # c => pc[d] = "idle"
  BY <1>a DEF CallInv
<1>d. "idle" \notin Starting \cup Shutting
  BY DEF Starting, Shutting
<1>1. ASSUME UNCHANGED <<drains, handle>>, NEW l, pc' = [pc EXCEPT ![c] = l],
             pool' = 0 \/ l \in Starting \cup Shutting => AllEnded
      PROVE  Alone'
  <2>1. pc'[c] = l /\ \A d \in Clients : d # c => pc'[d] = "idle"
    BY <1>a, <1>c, <1>1 DEF TypeOK
  <2> QED BY <1>a, <1>b, <1>d, <1>1, <2>1 DEF Alone, AllEnded, OneDrain
<1>2. ASSUME NEW o \in {"initialize", "append", "read"}, NEW n, Enter(c, o, n)
      PROVE  Alone'
  <2>1. UNCHANGED <<pool, drains, handle>>
    BY <1>2 DEF Enter, poolVars
  <2>2. CASE pool = 0
    BY <1>1, <1>2, <1>b, <2>1, <2>2 DEF Enter, Goto
  <2>3. CASE pool # 0
    <3>1. Arrive(c, o, n)
      BY <1>2, <2>3 DEF Enter
    <3>2. PICK l \in {"idle", "put", "flush"} : pc' = [pc EXCEPT ![c] = l]
      BY <3>1, Arrives DEF Goto, Accept
    <3> QED BY <1>1, <2>1, <2>3, <3>2 DEF Starting, Shutting
  <2> QED BY <2>2, <2>3
<1>3. CASE Initialize(c) \/ AppendEvent(c) \/ Read(c)
  BY <1>2, <1>3 DEF Initialize, AppendEvent, Read
<1>4. CASE Create(c) \/ CreateFails(c) \/ SchemaFails(c) \/ BeginShut(c) \/ EndShut(c)
  <2>1. AllEnded /\ UNCHANGED <<drains, handle>>
    BY <1>4, <1>b DEF Create, CreateFails, SchemaFails, BeginShut, EndShut, Starting, Shutting, writeVars
  <2>2. \E l : pc' = [pc EXCEPT ![c] = l]
    BY <1>4 DEF Create, CreateFails, SchemaFails, BeginShut, EndShut, Goto, Raise
  <2> QED BY <1>1, <2>1, <2>2
<1>5. CASE Put(c) \/ Flush(c) \/ Query(c) \/ QueryFails(c) \/ Join(c)
  <2>1. UNCHANGED <<pool, drains, handle>>
    BY <1>5 DEF Put, Flush, Query, QueryFails, Join, poolVars, writeVars
  <2>2. PICK l \in {"idle", "query", "cancel"} : pc' = [pc EXCEPT ![c] = l]
    BY <1>5 DEF Put, Accept, Flush, Query, QueryFails, Raise, Join, Goto
  <2> QED BY <1>1, <1>b, <2>1, <2>2 DEF Starting, Shutting
<1>6. CASE CloseAgain(c)
  <2>1. UNCHANGED <<pool, drains, handle, pc>>
    BY <1>6 DEF CloseAgain, poolVars, writeVars
  <2> QED BY <1>a, <1>b, <2>1 DEF Alone, AllEnded, OneDrain
<1>7. CASE Schema(c)
  <2>1. AllEnded /\ handle' = Len(drains) + 1 /\ UNCHANGED poolVars
    BY <1>7, <1>b DEF Schema, Starting
  <2>2. CASE pool = 0
    <3>1. drains' = Append(drains, EndedDrain)
      BY <1>7, <2>2 DEF Schema
    <3>2. /\ \A e \in DOMAIN drains : drains'[e] = drains[e]
          /\ drains'[Len(drains) + 1] = EndedDrain
          /\ DOMAIN drains' = DOMAIN drains \cup {Len(drains) + 1}
      BY <1>a, <3>1, DrainJoins
    <3>3. AllEnded'
      BY <2>1, <3>2 DEF AllEnded, EndedDrain
    <3> QED BY <3>3 DEF Alone, OneDrain, AllEnded
  <2>3. CASE pool # 0
    <3>1. drains' = Append(drains, NewDrain) /\ Arrive(c, op[c], count[c])
      BY <1>7, <2>3 DEF Schema
    <3>2. /\ \A e \in DOMAIN drains : drains'[e] = drains[e]
          /\ DOMAIN drains' = DOMAIN drains \cup {Len(drains) + 1}
      BY <1>a, <3>1, DrainJoins
    <3>3. OneDrain'
      BY <2>1, <3>2 DEF AllEnded, OneDrain
    <3>4. op[c] \in {"initialize", "append", "read"}
      BY <1>a, <1>7 DEF CallInv, Schema, Starting
    <3>5. PICK l \in {"idle", "put", "flush"} : pc' = [pc EXCEPT ![c] = l]
      BY <3>1, <3>4, Arrives DEF Goto, Accept
    <3>6. \A d \in Clients : pc'[d] \notin Starting \cup Shutting
      BY <1>a, <1>c, <3>5 DEF TypeOK, Starting, Shutting
    <3>7. pool' # 0
      BY <2>1, <2>3 DEF poolVars
    <3> QED BY <3>3, <3>6, <3>7 DEF Alone
  <2> QED BY <2>2, <2>3
<1>8. ASSUME Cancelling PROVE Alone'
  <2>1. \A e \in DOMAIN drains : drains'[e] = IF e = handle THEN EndedDrain ELSE drains[e]
    BY <1>a, <1>8, DrainCleared DEF Cancelling
  <2>2. DOMAIN drains' = DOMAIN drains
    BY <1>8 DEF Cancelling
  <2>3. AllEnded'
    BY <1>b, <2>1, <2>2 DEF AllEnded, OneDrain, EndedDrain
  <2> QED BY <2>3 DEF Alone, OneDrain, AllEnded
<1>9. CASE Cancel(c)
  BY <1>8, <1>9 DEF Cancel, CancelDrain, Cancelling
<1>10. CASE Close(c)
  <2>1. CASE handle # 0 /\ Flushed
    BY <1>8, <1>10, <2>1 DEF Close, CancelDrain, Cancelling
  <2>2. CASE ~(handle # 0 /\ Flushed)
    <3>1. /\ UNCHANGED <<drains, handle, pool>>
          /\ pc' = [pc EXCEPT ![c] = IF handle # 0 THEN "join" ELSE IF pool # 0 THEN "shut" ELSE "idle"]
      BY <1>10, <2>2 DEF Close, Goto
    <3>2. handle = 0 => AllEnded
      BY <1>a, <1>b DEF OneDrain, AllEnded
    <3>3. "join" \notin Starting \cup Shutting
      BY DEF Starting, Shutting
    <3> DEFINE l == IF handle # 0 THEN "join" ELSE IF pool # 0 THEN "shut" ELSE "idle"
    <3>4. pool' = 0 \/ l \in Starting \cup Shutting => AllEnded
      BY <1>b, <1>d, <3>1, <3>2, <3>3
    <3> HIDE DEF l
    <3>5. pc' = [pc EXCEPT ![c] = l]
      BY <3>1 DEF l
    <3> QED BY <1>1, <3>1, <3>4, <3>5
  <2> QED BY <2>1, <2>2
<1> QED
  BY <1>3, <1>4, <1>5, <1>6, <1>7, <1>9, <1>10 DEF Call, Resume

\* A drain task does not end by itself.
LEMMA AloneDrain ==
  ASSUME Typed, CountInv, Alone, NEW d \in DOMAIN drains, DrainStep(d)
  PROVE  Alone'
<1>a. TypeOK /\ DrainInv /\ DOMAIN drains = 1..Len(drains) /\ Len(drains) \in Nat
  BY HeldFinite DEF Typed
<1>b. UNCHANGED <<pc, pool, handle>>
  BY DEF DrainStep, Take, Fill, Write, WriteFails, Done, clientVars, poolVars
<1>c. drains[d].state # "ended"
  BY DEF DrainStep, Take, Fill, Write, WriteFails
<1>1. Len(drains') = Len(drains) /\ drains' \in Seq(Drain) /\ \A e \in DOMAIN drains : e # d => drains'[e] = drains[e]
  <2>1. CASE Take(d)
    BY <1>a, <2>1, TakeMoves
  <2>2. CASE Fill(d)
    BY <1>a, <2>2, FillMoves
  <2>3. CASE Done(d)
    BY <1>a, <2>3, DoneMoves
  <2> QED BY <2>1, <2>2, <2>3 DEF DrainStep, Write, WriteFails
<1>2. DOMAIN drains' = DOMAIN drains
  BY <1>a, <1>1
<1> QED BY <1>b, <1>c, <1>1, <1>2 DEF Alone, OneDrain

\* The use of the store stays what it is.
LEMMA UseStep == Typed /\ CountInv /\ UseInv /\ [Next]_vars => UseInv'
<1> SUFFICES ASSUME Typed, CountInv, UseInv, [Next]_vars PROVE UseInv'
  OBVIOUS
<1>a. setting' = setting
  <2>1. ASSUME NEW c \in setting.clients, Call(c) \/ Resume(c) PROVE setting' = setting
    BY <2>1, ClientEffects
  <2>2. ASSUME NEW d \in DOMAIN drains, DrainStep(d) PROVE setting' = setting
    BY <2>2 DEF DrainStep, Take, Fill, Write, WriteFails, Done, poolVars
  <2> QED BY <2>1, <2>2 DEF Next, vars, poolVars
<1>1. CASE UNCHANGED vars
  BY <1>1 DEF vars, clientVars, poolVars, writeVars, UseInv, Frozen, InUse, Alone, OneDrain, OneStarter
<1>2. ASSUME NEW c \in setting.clients, Call(c) \/ Resume(c) PROVE UseInv'
  <2>1. ASSUME Frozen \/ InUse PROVE Frozen' \/ InUse'
    BY <1>2, <2>1, FrozenClient, InUseClient
  <2>2. ASSUME OneStarter, ~setting.initialized PROVE Alone'
    <3>1. Alone /\ \A d \in setting.clients : d = c
      BY <2>2 DEF UseInv, OneStarter
    <3> QED BY <1>2, <3>1, AloneClient
  <2> QED BY <1>a, <2>1, <2>2 DEF UseInv, OneStarter
<1>3. ASSUME NEW d \in DOMAIN drains, DrainStep(d) PROVE UseInv'
  <2>1. ASSUME Frozen \/ InUse PROVE InUse'
    BY <1>3, <2>1, FrozenDrain, InUseDrain
  <2>2. ASSUME Alone PROVE Alone'
    BY <1>3, <2>2, AloneDrain
  <2> QED BY <1>a, <2>1, <2>2 DEF UseInv, OneStarter
<1> QED BY <1>1, <1>2, <1>3 DEF Next

-----------------------------------------------------------------------------
(* The order of the rows *)

\* The batch of the drain task, in the terms of its steps.
LEMMA BatchType ==
  ASSUME TypeOK
  PROVE  /\ Batch \in Seq(Events) /\ Len(Batch) \in Nat /\ Len(queue) \in Nat /\ Len(accepted) \in Nat
         /\ DOMAIN Batch = 1..Len(Batch) /\ DOMAIN queue = 1..Len(queue)
         /\ DOMAIN accepted = 1..Len(accepted) /\ DOMAIN table = 1..Len(table) /\ Len(table) \in Nat
<1>1. Batch \in Seq(Events)
  BY HeldFinite, EmptySeq DEF Batch
<1> QED BY <1>1, LenProperties DEF TypeOK

\* An accepted event is under way from then on.
LEMMA OrderAccept ==
  ASSUME Typed, FlightInv, RowInv, NEW c \in setting.clients, Accepting(c),
         Batch' = Batch, table' = table
  PROVE  FlightInv' /\ RowInv' /\ Settled' = Settled
<1>1. PICK n \in 1..setting.appends : HasRoom /\ Accept(c, n)
  BY DEF Accepting
<1>2. /\ queue \in Seq(Events) /\ accepted \in Seq(Events) /\ <<c, n>> \in Events
      /\ queue' = Append(queue, <<c, n>>) /\ accepted' = Append(accepted, <<c, n>>)
  BY <1>1, OwnEvent, Accepts DEF Typed, TypeOK
<1>3. /\ Len(queue') = Len(queue) + 1 /\ Len(accepted') = Len(accepted) + 1
      /\ \A i \in 1..Len(queue) : queue'[i] = queue[i]
      /\ \A i \in 1..Len(accepted) : accepted'[i] = accepted[i]
      /\ queue'[Len(queue) + 1] = <<c, n>> /\ accepted'[Len(accepted) + 1] = <<c, n>>
      /\ DOMAIN queue' = 1..(Len(queue) + 1)
  BY <1>2, AppendProperties, LenProperties
<1>4. /\ Len(Batch) \in Nat /\ Len(queue) \in Nat /\ Len(accepted) \in Nat
      /\ DOMAIN Batch = 1..Len(Batch) /\ DOMAIN queue = 1..Len(queue) /\ DOMAIN table = 1..Len(table)
  BY BatchType DEF Typed
<1>5. Settled' = Settled /\ Settled \in Nat /\ Settled + Len(Batch) + Len(queue) = Len(accepted)
  BY <1>3, <1>4 DEF Settled, FlightInv
<1>6. FlightInv'
  <2>1. ASSUME NEW i \in DOMAIN Batch PROVE Batch[i] = accepted'[Settled + i]
    <3>1. Batch[i] = accepted[Settled + i]
      BY DEF FlightInv
    <3>2. Settled + i \in 1..Len(accepted)
      BY <1>4, <1>5
    <3> QED BY <1>3, <3>1, <3>2
  <2>2. ASSUME NEW i \in DOMAIN queue' PROVE queue'[i] = accepted'[Settled + Len(Batch) + i]
    <3>1. CASE i \in 1..Len(queue)
      <4>1. queue'[i] = queue[i] /\ queue[i] = accepted[Settled + Len(Batch) + i]
        BY <1>3, <1>4, <3>1 DEF FlightInv
      <4>2. Settled + Len(Batch) + i \in 1..Len(accepted)
        BY <1>4, <1>5, <3>1
      <4> QED BY <1>3, <4>1, <4>2
    <3>2. CASE i = Len(queue) + 1
      <4>1. Settled + Len(Batch) + i = Len(accepted) + 1
        BY <1>4, <1>5, <3>2
      <4> QED BY <1>3, <3>2, <4>1
    <3> QED BY <1>3, <1>4, <3>1, <3>2
  <2> QED BY <1>5, <2>1, <2>2 DEF FlightInv
<1>7. \A k \in 1..Settled : accepted'[k] = accepted[k]
  BY <1>3, <1>4, <1>5
<1>8. RowInv'
  <2>1. ASSUME NEW i \in DOMAIN table PROVE \E k \in 1..Settled : accepted'[k] = table[i]
    BY <1>7 DEF RowInv
  <2>2. ASSUME NEW i \in DOMAIN table, NEW j \in DOMAIN table, i < j
        PROVE  \E k, l \in 1..Settled : k < l /\ accepted'[k] = table[i] /\ accepted'[l] = table[j]
    <3>1. PICK k, l \in 1..Settled : k < l /\ accepted[k] = table[i] /\ accepted[l] = table[j]
      BY <2>2 DEF RowInv
    <3> QED BY <1>7, <3>1
  <2> QED BY <1>5, <2>1, <2>2 DEF RowInv
<1> QED BY <1>5, <1>6, <1>8

\* Rows of earlier events stay rows of earlier events.
LEMMA RowsKept ==
  ASSUME RowInv, Settled \in Nat, Settled' \in Nat, Settled <= Settled',
         UNCHANGED <<accepted, table>>
  PROVE  RowInv'
<1>1. 1..Settled \subseteq 1..Settled'
  OBVIOUS
<1>2. ASSUME NEW i \in DOMAIN table PROVE \E k \in 1..Settled' : accepted[k] = table[i]
  BY <1>1 DEF RowInv
<1>3. ASSUME NEW i \in DOMAIN table, NEW j \in DOMAIN table, i < j
      PROVE  \E k, l \in 1..Settled' : k < l /\ accepted[k] = table[i] /\ accepted[l] = table[j]
  <2>1. PICK k, l \in 1..Settled : k < l /\ accepted[k] = table[i] /\ accepted[l] = table[j]
    BY <1>3 DEF RowInv
  <2> QED BY <1>1, <2>1
<1> QED BY <1>2, <1>3 DEF RowInv

\* A batch that stays, or one that is dropped.
LEMMA OrderSame ==
  ASSUME Typed, FlightInv, RowInv, Batch' = Batch \/ Batch' = <<>>,
         UNCHANGED <<queue, accepted, table>>
  PROVE  FlightInv' /\ RowInv' /\ (Batch' = Batch => Settled' = Settled)
<1>1. /\ Len(Batch) \in Nat /\ Len(queue) \in Nat /\ Len(accepted) \in Nat
      /\ DOMAIN Batch = 1..Len(Batch) /\ DOMAIN queue = 1..Len(queue) /\ Settled \in Nat
  BY BatchType DEF Typed, FlightInv
<1>2. CASE Batch' = Batch
  <2>1. Settled' = Settled
    BY <1>2 DEF Settled
  <2> QED BY <1>1, <1>2, <2>1, RowsKept DEF FlightInv
<1>3. CASE Batch' = <<>>
  <2>1. Len(Batch') = 0 /\ DOMAIN Batch' = {}
    BY <1>3
  <2>2. Settled' = Settled + Len(Batch) /\ Settled' \in Nat /\ Settled <= Settled'
    BY <1>1, <2>1 DEF Settled
  <2>3. \A i \in DOMAIN queue' : queue'[i] = accepted'[Settled' + Len(Batch') + i]
    BY <1>1, <2>1, <2>2 DEF FlightInv
  <2>4. Batch' = Batch => Settled' = Settled
    BY <1>1, <2>1, <2>2
  <2> QED BY <1>1, <2>1, <2>2, <2>3, <2>4, RowsKept DEF FlightInv
<1> QED BY <1>2, <1>3

\* The first event of the queue becomes the last of the batch.
LEMMA OrderTake ==
  ASSUME Typed, FlightInv, RowInv, handle \in DOMAIN drains, Take(handle)
  PROVE  FlightInv' /\ RowInv' /\ Settled' = Settled
<1>a. TypeOK /\ DrainInv
  BY DEF Typed
<1>1. UNCHANGED <<handle, table, accepted>>
  BY DEF Take
<1>2. /\ Len(queue) > 0 /\ Len(queue') = Len(queue) - 1 /\ queue' \in Seq(Events)
      /\ \A i \in 1..Len(queue') : queue'[i] = queue[i + 1]
      /\ Len(drains') = Len(drains) /\ drains' \in Seq(Drain) /\ drains \in Seq(Drain)
      /\ Len(drains'[handle].batch) = Len(drains[handle].batch) + 1
      /\ \A i \in 1..Len(drains[handle].batch) : drains'[handle].batch[i] = drains[handle].batch[i]
      /\ drains'[handle].batch[Len(drains[handle].batch) + 1] = queue[1]
      /\ drains'[handle].batch = Append(drains[handle].batch, queue[1])
  BY <1>a, TakeMoves DEF TypeOK
<1>3. DOMAIN drains' = DOMAIN drains
  BY <1>2
<1>4. Batch = drains[handle].batch /\ Batch' = drains'[handle].batch
  BY <1>1, <1>3 DEF Batch
<1>5. /\ Len(Batch) \in Nat /\ Len(queue) \in Nat /\ Len(accepted) \in Nat
      /\ DOMAIN Batch = 1..Len(Batch) /\ DOMAIN queue = 1..Len(queue)
      /\ Batch \in Seq(Events) /\ DOMAIN queue' = 1..Len(queue')
  BY <1>a, <1>2, BatchType
<1>6. queue[1] \in Events
  BY <1>a, <1>2, <1>5 DEF TypeOK
<1>7. Batch' \in Seq(Events) /\ DOMAIN Batch' = 1..(Len(Batch) + 1) /\ Len(Batch') = Len(Batch) + 1
  BY <1>2, <1>4, <1>5, <1>6, AppendProperties, LenProperties
<1>8. Settled' = Settled /\ Settled \in Nat
  BY <1>1, <1>2, <1>5, <1>7 DEF Settled, FlightInv
<1>9. \A i \in DOMAIN Batch' : Batch'[i] = accepted'[Settled' + i]
  <2>1. ASSUME NEW i \in 1..Len(Batch) PROVE Batch'[i] = accepted[Settled + i]
    BY <1>2, <1>4, <1>5 DEF FlightInv
  <2>2. Batch'[Len(Batch) + 1] = accepted[Settled + (Len(Batch) + 1)]
    <3>0. 1 \in DOMAIN queue
      BY <1>2, <1>5
    <3>1. queue[1] = accepted[Settled + Len(Batch) + 1]
      BY <3>0 DEF FlightInv
    <3>2. Settled + Len(Batch) + 1 = Settled + (Len(Batch) + 1)
      BY <1>5, <1>8
    <3> QED BY <1>2, <1>4, <3>1, <3>2
  <2>3. \A i \in DOMAIN Batch' : i \in 1..Len(Batch) \/ i = Len(Batch) + 1
    BY <1>5, <1>7
  <2> QED BY <1>1, <1>8, <2>1, <2>2, <2>3
<1>10. \A i \in DOMAIN queue' : queue'[i] = accepted'[Settled' + Len(Batch') + i]
  <2>1. ASSUME NEW i \in 1..Len(queue') PROVE queue'[i] = accepted[Settled + Len(Batch) + 1 + i]
    <3>1. i + 1 \in DOMAIN queue /\ queue'[i] = queue[i + 1]
      BY <1>2, <1>5
    <3>2. queue[i + 1] = accepted[Settled + Len(Batch) + (i + 1)]
      BY <3>1 DEF FlightInv
    <3>3. Settled + Len(Batch) + (i + 1) = Settled + Len(Batch) + 1 + i
      BY <1>5, <1>8
    <3> QED BY <3>1, <3>2, <3>3
  <2>2. \A i \in 1..Len(queue') : Settled + Len(Batch) + 1 + i = Settled' + Len(Batch') + i
    BY <1>5, <1>7, <1>8
  <2> QED BY <1>1, <1>5, <2>1, <2>2
<1>11. RowInv'
  BY <1>1, <1>8, RowsKept
<1> QED BY <1>8, <1>9, <1>10, <1>11 DEF FlightInv

\* A written batch: its rows come after those of earlier events.
LEMMA OrderWrite ==
  ASSUME Typed, FlightInv, RowInv, handle \in DOMAIN drains, Write(handle), CountInv
  PROVE  /\ FlightInv' /\ RowInv'
         /\ Settled' = Settled + Len(Batch) /\ Len(table') = Len(table) + Len(Batch)
         /\ \A i \in 1..Len(table) : table'[i] = table[i]
         /\ \A i \in 1..Len(Batch) : table'[Len(table) + i] = accepted[Settled + i]
<1>a. TypeOK
  BY DEF Typed
<1>1. UNCHANGED <<handle, queue, accepted>> /\ Batch = drains[handle].batch /\ table' = table \o Batch
  BY DEF Write, Done, Rows, Batch
<1>2. Batch' = <<>>
  BY <1>a, <1>1, DoneMoves, HeldFinite DEF Write, NewDrain, Batch
<1>3. /\ Len(Batch) \in Nat /\ Len(queue) \in Nat /\ Len(accepted) \in Nat /\ Len(table) \in Nat
      /\ DOMAIN Batch = 1..Len(Batch) /\ DOMAIN queue = 1..Len(queue) /\ DOMAIN table = 1..Len(table)
      /\ Batch \in Seq(Events) /\ Settled \in Nat
  BY <1>a, BatchType DEF FlightInv
<1>4. /\ Len(table') = Len(table) + Len(Batch) /\ table' \in Seq(Events)
      /\ \A i \in 1..(Len(table) + Len(Batch)) :
            table'[i] = IF i <= Len(table) THEN table[i] ELSE Batch[i - Len(table)]
  BY <1>a, <1>1, <1>3, ConcatProperties DEF TypeOK
<1>5. DOMAIN table' = 1..(Len(table) + Len(Batch))
  BY <1>4, LenProperties
<1>6. Settled' = Settled + Len(Batch) /\ Settled' \in Nat
  BY <1>1, <1>2, <1>3 DEF Settled
<1>7. FlightInv'
  <2>1. \A i \in DOMAIN queue : queue[i] = accepted[Settled' + Len(Batch') + i]
    BY <1>2, <1>3, <1>6 DEF FlightInv
  <2> QED BY <1>1, <1>2, <1>6, <2>1 DEF FlightInv
<1>8. ASSUME NEW i \in 1..Len(Batch)
      PROVE  table'[Len(table) + i] = accepted[Settled + i] /\ Settled + i \in 1..Settled'
  <2>1. table'[Len(table) + i] = Batch[i]
    BY <1>3, <1>4
  <2> QED BY SMTT(30), <1>3, <1>6, <2>1 DEF FlightInv
<1>9. \A i \in 1..Len(table) : table'[i] = table[i]
  BY <1>3, <1>4
<1>14. ASSUME NEW i \in DOMAIN table', i - Len(table) \in 1..Len(Batch)
       PROVE  /\ accepted[Settled + (i - Len(table))] = table'[i]
              /\ Settled + (i - Len(table)) \in 1..Settled'
              /\ Settled + (i - Len(table)) > Settled
  <2>1. Len(table) + (i - Len(table)) = i
    BY <1>3, <1>5
  <2>2. table'[i] = accepted[Settled + (i - Len(table))]
    BY <1>8, <1>14, <2>1
  <2> QED BY <1>3, <1>6, <1>14, <2>2
<1>10. 1..Settled \subseteq 1..Settled'
  BY <1>3, <1>6
<1>11. ASSUME NEW i \in DOMAIN table' PROVE \E k \in 1..Settled' : accepted[k] = table'[i]
  <2>1. CASE i \in 1..Len(table)
    BY <1>3, <1>9, <1>10, <2>1 DEF RowInv
  <2>2. CASE i - Len(table) \in 1..Len(Batch)
    BY <1>3, <1>5, <1>8, <2>2
  <2> QED BY <1>3, <1>5, <2>1, <2>2
<1>12. ASSUME NEW i \in DOMAIN table', NEW j \in DOMAIN table', i < j
       PROVE  \E k, l \in 1..Settled' : k < l /\ accepted[k] = table'[i] /\ accepted[l] = table'[j]
  <2>1. CASE j \in 1..Len(table)
    <3>1. i \in DOMAIN table /\ j \in DOMAIN table /\ table'[i] = table[i] /\ table'[j] = table[j]
      BY <1>3, <1>5, <1>9, <1>12, <2>1
    <3>2. PICK k, l \in 1..Settled : k < l /\ accepted[k] = table[i] /\ accepted[l] = table[j]
      BY <1>12, <3>1 DEF RowInv
    <3> QED BY <1>10, <3>1, <3>2
  <2>2. CASE i \in 1..Len(table) /\ j - Len(table) \in 1..Len(Batch)
    <3>1. PICK k \in 1..Settled : accepted[k] = table[i]
      BY <1>3, <2>2 DEF RowInv
    <3> DEFINE l == Settled + (j - Len(table))
    <3>2. accepted[l] = table'[j] /\ l \in 1..Settled' /\ l > Settled
      BY <1>14, <2>2
    <3>3. k \in 1..Settled' /\ accepted[k] = table'[i]
      BY <1>9, <1>10, <2>2, <3>1
    <3>4. k < l
      BY <1>3, <1>6, <3>1, <3>2
    <3> QED BY <3>2, <3>3, <3>4
  <2>3. CASE i - Len(table) \in 1..Len(Batch) /\ j - Len(table) \in 1..Len(Batch)
    <3> DEFINE k == Settled + (i - Len(table))
               l == Settled + (j - Len(table))
    <3>1. accepted[k] = table'[i] /\ k \in 1..Settled' /\ accepted[l] = table'[j] /\ l \in 1..Settled'
      BY <1>14, <2>3
    <3>2. k < l
      BY <1>3, <1>5, <1>12
    <3> QED BY <3>1, <3>2
  <2> QED BY <1>3, <1>5, <1>12, <2>1, <2>2, <2>3
<1>13. RowInv'
  <2>1. \A i \in DOMAIN table' : \E k \in 1..Settled' : accepted'[k] = table'[i]
    BY <1>1, <1>11
  <2>2. \A i, j \in DOMAIN table' : i < j =>
          \E k, l \in 1..Settled' : k < l /\ accepted'[k] = table'[i] /\ accepted'[l] = table'[j]
    <3>1. ASSUME NEW i \in DOMAIN table', NEW j \in DOMAIN table', i < j
          PROVE  \E k, l \in 1..Settled' : k < l /\ accepted'[k] = table'[i] /\ accepted'[l] = table'[j]
      <4>1. PICK k, l \in 1..Settled' : k < l /\ accepted[k] = table'[i] /\ accepted[l] = table'[j]
        BY <1>12, <3>1
      <4>2. accepted' = accepted
        BY <1>1
      <4> QED BY <4>1, <4>2
    <3> QED BY <3>1
  <2> QED BY <2>1, <2>2 DEF RowInv
<1> QED BY <1>4, <1>6, <1>7, <1>8, <1>9, <1>13

-----------------------------------------------------------------------------
(* The order of the rows *)

\* No step changes how the store is used.
LEMMA SettingStep ==
  ASSUME Typed, [Next]_vars
  PROVE  setting' = setting
<1>1. ASSUME NEW c \in setting.clients, Call(c) \/ Resume(c) PROVE setting' = setting
  BY <1>1, ClientEffects
<1>2. ASSUME NEW d \in DOMAIN drains, DrainStep(d) PROVE setting' = setting
  BY <1>2 DEF DrainStep, Take, Fill, Write, WriteFails, Done, poolVars
<1> QED BY <1>1, <1>2 DEF Next, vars, poolVars

\* Who ends the drain task of a store that is in use has flushed it, or has
\* nothing to lose; who starts one finds no batch.
LEMMA BatchClient ==
  ASSUME Typed, CountInv, UseInv, OneStarter, NEW c \in setting.clients, Call(c) \/ Resume(c)
  PROVE  /\ Batch' = Batch \/ (Batch' = <<>> /\ UNCHANGED <<queue, accepted>>)
         /\ setting.initialized => Batch' = Batch
<1>a. TypeOK /\ DrainInv /\ c \in Clients
  BY SettingOK DEF Typed
<1>b. DOMAIN drains = 1..Len(drains) /\ Len(drains) \in Nat
  BY <1>a, HeldFinite
<1>1. CASE UNCHANGED <<drains, handle>>
  BY <1>1 DEF Batch
<1>2. ASSUME pc[c] = "schema", handle' = Len(drains) + 1,
             \E v \in {NewDrain, EndedDrain} : drains' = Append(drains, v)
      PROVE  Batch' = <<>> /\ Batch = <<>>
  <2>1. Frozen \/ Alone
    BY <1>a, <1>2 DEF UseInv, InUse, Starting
  <2>2. \A d \in DOMAIN drains : drains[d].batch = <<>>
    BY <1>a, <1>2, <2>1 DEF Frozen, Alone, Starting, DrainInv
  <2>3. Batch = <<>>
    BY <2>2 DEF Batch
  <2>4. handle' \notin DOMAIN drains
    BY <1>b, <1>2
  <2>5. \A d \in (DOMAIN drains') \ DOMAIN drains : drains'[d].batch = <<>>
    BY DrainsAfter
  <2> QED BY <2>3, <2>4, <2>5 DEF Batch
<1>3. ASSUME Cancelling PROVE Batch' = <<>>
  <2>1. 0 \notin DOMAIN drains /\ DOMAIN drains' = DOMAIN drains
    BY <1>b, <1>3 DEF Cancelling
  <2> QED BY <1>3, <2>1 DEF Batch, Cancelling
<1>4. ASSUME Cancelling, setting.initialized, ~UNCHANGED <<drains, handle>>
      PROVE  Batch = <<>>
  <2>1. CASE Frozen
    BY <2>1 DEF Frozen, Batch
  <2>2. CASE InUse
    <3>a. pc[c] # "schema"
      BY <1>a, <2>2 DEF InUse, Starting
    <3>1. (Close(c) /\ Flushed) \/ Cancel(c)
      <4>1. CASE Call(c)
        BY <1>4, <4>1 DEF Call, Initialize, AppendEvent, Read, Enter, Close, CloseAgain, poolVars, writeVars
      <4>2. CASE Resume(c)
        BY <1>4, <3>a, <4>2 DEF Resume, Create, CreateFails, Schema, SchemaFails, Put, Flush, Query, QueryFails,
          Join, BeginShut, EndShut, writeVars
      <4> QED BY <4>1, <4>2
    <3>2. Flushed
      BY <1>a, <2>2, <3>1 DEF InUse, Cancel, Flushed
    <3> QED BY <1>a, <3>2, FlushedEmpty DEF Batch
  <2> QED BY <1>4, <2>1, <2>2 DEF UseInv
<1>5. CASE Cancelling /\ UNCHANGED <<queue, accepted>>
  BY <1>1, <1>3, <1>4, <1>5
<1>6. CASE pc[c] = "schema" /\ handle' = Len(drains) + 1
           /\ \E v \in {NewDrain, EndedDrain} : drains' = Append(drains, v)
  BY <1>2, <1>6
<1> QED BY <1>1, <1>5, <1>6, ClientEffects

\* A drain task that can go on is the one close() knows of.
LEMMA OnlyDrain ==
  ASSUME Typed, UseInv, OneStarter, NEW d \in DOMAIN drains, DrainStep(d)
  PROVE  d = handle /\ (setting.initialized => InUse)
<1>1. drains[d].state # "ended"
  BY DEF DrainStep, Take, Fill, Write, WriteFails
<1>2. ~Frozen
  BY FrozenDrain
<1>3. CASE InUse
  <2>1. DOMAIN drains = 1..Len(drains)
    BY HeldFinite DEF Typed
  <2> QED BY <1>3, <2>1 DEF InUse
<1>4. CASE Alone /\ ~setting.initialized
  BY <1>1, <1>4 DEF Alone, OneDrain
<1> QED BY <1>2, <1>3, <1>4 DEF UseInv

\* No row overtakes another, whatever fails.
LEMMA OrderStep == Typed /\ CountInv /\ UseInv /\ OrderInv /\ [Next]_vars => OrderInv'
<1> SUFFICES ASSUME Typed, CountInv, UseInv, OrderInv, [Next]_vars, OneStarter PROVE FlightInv' /\ RowInv'
  BY SettingStep DEF OrderInv, OneStarter
<1>a. FlightInv /\ RowInv
  BY DEF OrderInv
<1>1. CASE UNCHANGED vars
  <2>1. UNCHANGED <<queue, drains, handle, table, accepted>>
    BY <1>1 DEF vars, writeVars
  <2>2. Batch' = Batch
    BY <2>1 DEF Batch
  <2> QED BY <1>a, <2>1, <2>2, OrderSame
<1>2. ASSUME NEW c \in setting.clients, Call(c) \/ Resume(c) PROVE FlightInv' /\ RowInv'
  <2>1. table' = table /\ (UNCHANGED <<queue, accepted>> \/ Accepting(c))
    BY <1>2, ClientEffects
  <2>2. Batch' = Batch \/ (Batch' = <<>> /\ UNCHANGED <<queue, accepted>>)
    BY <1>2, BatchClient
  <2>3. CASE UNCHANGED <<queue, accepted>>
    BY <1>a, <2>1, <2>2, <2>3, OrderSame
  <2>4. CASE Accepting(c) /\ Batch' = Batch
    BY <1>a, <2>1, <2>4, OrderAccept
  <2> QED BY <2>1, <2>2, <2>3, <2>4
<1>3. ASSUME NEW d \in DOMAIN drains, DrainStep(d) PROVE FlightInv' /\ RowInv'
  <2>a. d = handle
    BY <1>3, OnlyDrain
  <2>1. CASE Take(d)
    BY <1>a, <2>a, <2>1, OrderTake
  <2>2. CASE Write(d)
    BY <1>a, <2>a, <2>2, OrderWrite
  <2>3. CASE Fill(d)
    <3>1. drains'[d].batch = drains[d].batch /\ Len(drains') = Len(drains) /\ drains' \in Seq(Drain)
      BY <2>3, FillMoves DEF Typed
    <3>2. UNCHANGED <<queue, accepted, table, handle>>
      BY <2>3 DEF Fill
    <3>3. d \in DOMAIN drains'
      BY <3>1, HeldFinite DEF Typed
    <3>4. Batch' = Batch
      BY <2>a, <3>1, <3>2, <3>3 DEF Batch
    <3> QED BY <1>a, <3>2, <3>4, OrderSame
  <2>4. CASE WriteFails(d)
    <3>1. Done(d) /\ UNCHANGED <<queue, accepted, table, handle>>
      BY <2>4 DEF WriteFails, Done
    <3>2. drains'[d] = NewDrain
      BY <3>1, DoneMoves DEF Typed
    <3>3. Batch' = <<>>
      BY <2>a, <3>1, <3>2 DEF Batch, NewDrain
    <3> QED BY <1>a, <3>1, <3>3, OrderSame
  <2> QED BY <1>3, <2>1, <2>2, <2>3, <2>4 DEF DrainStep
<1> QED BY <1>1, <1>2, <1>3 DEF Next

-----------------------------------------------------------------------------
(* What a read has to return *)

\* What every step of a client leaves of the history of reads.
LEMMA SinceClient ==
  ASSUME Typed, SinceInv, NEW c \in setting.clients, Call(c) \/ Resume(c)
  PROVE  /\ since' = since \/ since' = [since EXCEPT ![c] = Len(accepted)]
         /\ \A e \in Clients : pc'[e] = "query" =>
              since'[e] = since[e] /\ (pc[e] = "query" \/ Flush(c))
<1>a. c \in Clients /\ TypeOK
  BY SettingOK DEF Typed
<1>1. CASE Read(c)
  <2>1. pc' = [pc EXCEPT ![c] = "create"] \/ pc' = [pc EXCEPT ![c] = "flush"]
    BY <1>1 DEF Read, Enter, Arrive, Goto
  <2> QED BY <1>a, <1>1, <2>1 DEF Read, TypeOK
<1>2. CASE ~Read(c)
  <2>1. since' = since
    <3>1. CASE Call(c)
      BY <1>2, <3>1 DEF Call, Initialize, AppendEvent, Close, CloseAgain, readVars
    <3>2. CASE Resume(c)
      BY <3>2 DEF Resume, Create, CreateFails, Schema, SchemaFails, Put, Flush, Query, QueryFails,
        Join, Cancel, BeginShut, EndShut, Raise, readVars
    <3> QED BY <3>1, <3>2
  <2>2. ASSUME NEW l \in Labels \ {"query"}, pc' = [pc EXCEPT ![c] = l], NEW e \in Clients, pc'[e] = "query"
        PROVE  pc[e] = "query"
    BY <1>a, <2>2 DEF TypeOK
  <2>3. \/ Flush(c) \/ UNCHANGED pc
        \/ \E l \in Labels \ {"query"} : pc' = [pc EXCEPT ![c] = l]
    <3>1. ASSUME NEW o \in {"initialize", "append", "read"}, NEW n, Enter(c, o, n)
          PROVE  \E l \in Labels \ {"query"} : pc' = [pc EXCEPT ![c] = l]
      BY <3>1 DEF Enter, Arrive, Accept, Goto, Labels
    <3>2. CASE Call(c)
      BY <3>1, <3>2 DEF Call, Initialize, AppendEvent, Read, Close, CloseAgain, CancelDrain, Goto, Labels
    <3>3. CASE Schema(c)
      <4>1. op[c] \in {"initialize", "append", "read"}
        BY <1>a, <3>3 DEF Schema, Typed, CallInv, Starting
      <4> QED BY <3>3, <4>1 DEF Schema, Arrive, Accept, Raise, Goto, Labels
    <3>4. CASE Resume(c) /\ ~Schema(c)
      BY <3>4 DEF Resume, Create, CreateFails, SchemaFails, Put, Accept, Query, QueryFails,
        Join, Cancel, CancelDrain, BeginShut, EndShut, Raise, Goto, Labels
    <3> QED BY <3>2, <3>3, <3>4
  <2> QED BY <2>1, <2>2, <2>3
<1> QED BY <1>1, <1>2

\* Nothing that has been accepted is forgotten.
LEMMA AcceptedGrows ==
  ASSUME Typed, NEW c \in setting.clients, Call(c) \/ Resume(c)
  PROVE  /\ Len(accepted) <= Len(accepted')
         /\ \A i \in 1..Len(accepted) : accepted'[i] = accepted[i]
<1>1. accepted \in Seq(Events) /\ Len(accepted) \in Nat
  BY BatchType DEF Typed, TypeOK
<1>2. CASE UNCHANGED accepted
  BY <1>1, <1>2
<1>3. CASE Accepting(c)
  <2>1. PICK n \in 1..setting.appends : accepted' = Append(accepted, <<c, n>>)
    BY <1>3 DEF Accepting, Accept
  <2>2. <<c, n>> \in Events
    BY OwnEvent DEF Typed
  <2>3. /\ Len(accepted') = Len(accepted) + 1
        /\ \A i \in 1..Len(accepted) : accepted'[i] = accepted[i]
    BY <1>1, <2>1, <2>2, AppendProperties
  <2> QED BY <1>1, <2>3
<1> QED BY <1>2, <1>3, ClientEffects

\* A read began after no more events than there are.
LEMMA SinceStep == Typed /\ SinceInv /\ [Next]_vars => SinceInv'
<1> SUFFICES ASSUME Typed, SinceInv, [Next]_vars PROVE SinceInv'
  OBVIOUS
<1>1. CASE UNCHANGED <<since, accepted>>
  BY <1>1 DEF SinceInv
<1>2. ASSUME NEW c \in setting.clients, Call(c) \/ Resume(c) PROVE SinceInv'
  <2>1. /\ Len(accepted) \in Nat /\ since \in [Clients -> Nat] /\ Len(accepted) <= Len(accepted')
    BY <1>2, AcceptedGrows, BatchType DEF Typed, TypeOK
  <2>2. Len(accepted') \in Nat
    BY <1>2, TypedStep, BatchType DEF Next, Typed
  <2>3. since' = since \/ since' = [since EXCEPT ![c] = Len(accepted)]
    BY <1>2, SinceClient
  <2> QED BY <2>1, <2>2, <2>3 DEF SinceInv
<1>3. ASSUME NEW d \in DOMAIN drains, DrainStep(d) PROVE UNCHANGED <<since, accepted>>
  BY <1>3 DEF DrainStep, Take, Fill, Write, WriteFails, Done, readVars
<1> QED BY <1>1, <1>2, <1>3 DEF Next, vars, readVars

\* Without faults nothing is lost, and who has flushed finds all it must.
LEMMA WholeStep ==
  Typed /\ CountInv /\ UseInv /\ OrderInv /\ WholeInv /\ SinceInv /\ [Next]_vars => WholeInv'
<1> SUFFICES ASSUME Typed, CountInv, UseInv, OrderInv, WholeInv, SinceInv, [Next]_vars, Sound
             PROVE  /\ Len(table') = Settled'
                    /\ \A i \in DOMAIN table' : table'[i] = accepted'[i]
                    /\ \A c \in Clients : pc'[c] = "query" => since'[c] <= Len(table')
  BY SettingStep DEF WholeInv, Sound
<1>a. /\ FlightInv /\ RowInv /\ OneStarter /\ setting.initialized /\ ~setting.faulty
      /\ Len(table) = Settled /\ \A i \in DOMAIN table : table[i] = accepted[i]
      /\ \A c \in Clients : pc[c] = "query" => since[c] <= Len(table)
  BY DEF OrderInv, WholeInv, Sound, OneStarter
<1>b. /\ TypeOK /\ Len(Batch) \in Nat /\ Len(queue) \in Nat /\ Len(accepted) \in Nat
      /\ DOMAIN table = 1..Len(table) /\ Len(table) \in Nat /\ since \in [Clients -> Nat]
  BY BatchType DEF Typed, TypeOK
<1>c. Len(table) <= Len(accepted)
  BY <1>a, <1>b DEF Settled
<1>1. CASE UNCHANGED vars
  <2>1. UNCHANGED <<queue, drains, handle, table, accepted, since, pc>>
    BY <1>1 DEF vars, writeVars, readVars, clientVars
  <2>2. Batch' = Batch
    BY <2>1 DEF Batch
  <2> QED BY <1>a, <2>1, <2>2 DEF Settled
<1>2. ASSUME NEW c \in setting.clients, Call(c) \/ Resume(c)
      PROVE  /\ Len(table') = Settled'
             /\ \A i \in DOMAIN table' : table'[i] = accepted'[i]
             /\ \A e \in Clients : pc'[e] = "query" => since'[e] <= Len(table')
  <2>1. table' = table /\ (UNCHANGED <<queue, accepted>> \/ Accepting(c)) /\ Batch' = Batch
    BY <1>a, <1>2, ClientEffects, BatchClient
  <2>2. Settled' = Settled
    BY <1>a, <2>1, OrderSame, OrderAccept
  <2>3. \A i \in DOMAIN table : table[i] = accepted'[i]
    BY <1>2, <1>a, <1>b, <1>c, AcceptedGrows
  <2>4. ASSUME NEW e \in Clients, pc'[e] = "query" PROVE since'[e] <= Len(table)
    <3>1. since'[e] = since[e] /\ (pc[e] = "query" \/ Flush(c))
      BY <1>2, <2>4, SinceClient
    <3>2. CASE Flush(c)
      <4>1. queue = <<>> /\ \A d \in DOMAIN drains : drains[d].batch = <<>>
        BY <1>b, <3>2, FlushedEmpty DEF Flush
      <4>2. Batch = <<>>
        BY <4>1 DEF Batch
      <4>3. Len(table) = Len(accepted)
        BY <1>a, <1>b, <4>1, <4>2, EmptySeq DEF Settled
      <4> QED BY <3>1, <4>3 DEF SinceInv
    <3> QED BY <1>a, <3>1, <3>2
  <2> QED BY <1>a, <2>1, <2>2, <2>3, <2>4
<1>3. ASSUME NEW d \in DOMAIN drains, DrainStep(d)
      PROVE  /\ Len(table') = Settled'
             /\ \A i \in DOMAIN table' : table'[i] = accepted'[i]
             /\ \A e \in Clients : pc'[e] = "query" => since'[e] <= Len(table')
  <2>a. d = handle /\ InUse
    BY <1>a, <1>3, OnlyDrain
  <2>b. UNCHANGED <<pc, since, accepted>>
    BY <1>3 DEF DrainStep, Take, Fill, Write, WriteFails, Done, clientVars, readVars
  <2>1. CASE Take(d)
    <3>1. table' = table /\ Settled' = Settled
      BY <1>a, <2>a, <2>1, OrderTake DEF Take
    <3> QED BY <1>a, <2>b, <3>1
  <2>2. CASE Fill(d)
    <3>1. drains'[d].batch = drains[d].batch /\ Len(drains') = Len(drains) /\ drains' \in Seq(Drain)
      BY <2>2, FillMoves DEF Typed
    <3>2. UNCHANGED <<queue, table, handle>>
      BY <2>2 DEF Fill
    <3>3. d \in DOMAIN drains'
      BY <3>1, HeldFinite DEF Typed
    <3>4. Batch' = Batch
      BY <2>a, <3>1, <3>2, <3>3 DEF Batch
    <3> QED BY <1>a, <2>b, <3>2, <3>4 DEF Settled
  <2>3. CASE Write(d)
    <3>1. /\ Settled' = Settled + Len(Batch) /\ Len(table') = Len(table) + Len(Batch)
          /\ \A i \in 1..Len(table) : table'[i] = table[i]
          /\ \A i \in 1..Len(Batch) : table'[Len(table) + i] = accepted[Settled + i]
      BY <1>a, <2>a, <2>3, OrderWrite
    <3>2. TypeOK'
      BY TypedStep DEF Typed
    <3>3. DOMAIN table' = 1..Len(table')
      BY <3>2, LenProperties DEF TypeOK
    <3>4. ASSUME NEW i \in DOMAIN table' PROVE table'[i] = accepted[i]
      <4>1. CASE i \in 1..Len(table)
        BY <1>a, <1>b, <3>1, <4>1
      <4>2. CASE i - Len(table) \in 1..Len(Batch)
        <5>1. i = Len(table) + (i - Len(table))
          BY <1>b, <3>1, <3>3
        <5> QED BY <1>a, <3>1, <4>2, <5>1
      <4> QED BY <1>b, <3>1, <3>3, <4>1, <4>2
    <3> QED BY <1>a, <1>b, <2>b, <3>1, <3>4
  <2>4. ~WriteFails(d)
    BY <1>a, <2>a DEF WriteFails, InUse
  <2> QED BY <1>3, <2>1, <2>2, <2>3, <2>4 DEF DrainStep
<1> QED BY <1>1, <1>2, <1>3 DEF Next

-----------------------------------------------------------------------------
(* The theorems *)

\* The invariant holds of a store that has just been made,
LEMMA StoreInit == Init => StoreInv
<1> SUFFICES ASSUME Init PROVE StoreInv
  OBVIOUS
<1>1. setting \in Setting /\ setting \in Settings
  BY StoreAssumption DEF Init, StoreAssumption
<1>2. /\ <<>> \in Seq(Events) /\ Len(<<>>) = 0 /\ DOMAIN <<>> = {}
      /\ <<NewDrain>> \in Seq(Drain) /\ Len(<<NewDrain>>) = 1 /\ DOMAIN <<NewDrain>> = {1}
      /\ <<NewDrain>>[1] = NewDrain /\ <<>> \in Seq(Drain)
  <2>1. /\ <<>> \in Seq(Events) /\ Len(<<>>) = 0 /\ DOMAIN <<>> = {} /\ <<>> \in Seq(Drain)
    BY EmptySeq
  <2>2. NewDrain \in Drain
    BY <2>1 DEF NewDrain, Drain
  <2> QED BY <2>1, <2>2
<1>3. QueueMax \in Nat \ {0} /\ BatchMax \in Nat \ {0}
  BY StoreAssumption DEF StoreAssumption
<1>4. /\ drains \in Seq(Drain) /\ handle \in 0..Len(drains)
      /\ \A d \in DOMAIN drains : drains[d] = NewDrain
  <2>1. CASE drains = <<NewDrain>> /\ handle = 1
    BY <1>2, <2>1
  <2>2. CASE drains = <<>> /\ handle = 0
    BY <1>2, <2>2
  <2> QED BY <2>1, <2>2 DEF Init
<1>5. TypeOK
  <2>1. \A d \in DOMAIN drains : Len(drains[d].batch) <= BatchMax
    BY <1>2, <1>3, <1>4 DEF NewDrain
  <2>2. answer \in [Clients -> [ok : BOOLEAN, events : Seq(Events)]]
    BY <1>2 DEF Init, Failed
  <2>3. pool \in Nat /\ handle \in 0..Len(drains)
    BY <1>4 DEF Init
  <2>4. unfinished \in Nat /\ shut \in Nat /\ Len(queue) <= QueueMax
    BY <1>2, <1>3 DEF Init
  <2>5. /\ pc \in [Clients -> Labels] /\ op \in [Clients -> {"initialize", "append", "read", "close"}]
        /\ count \in [Clients -> Nat] /\ using \in [Clients -> Nat] /\ since \in [Clients -> Nat]
    BY DEF Init, Labels
  <2>6. queue \in Seq(Events) /\ table \in Seq(Events) /\ accepted \in Seq(Events) /\ closed \in BOOLEAN
    BY <1>2 DEF Init
  <2> QED BY <1>1, <1>4, <2>1, <2>2, <2>3, <2>4, <2>5, <2>6 DEF TypeOK
<1>6. CallInv
  BY DEF Init, CallInv
<1>7. DrainInv
  BY <1>4 DEF DrainInv, NewDrain
<1>8. CountInv
  <2>1. Held = {}
    BY <1>2, <1>4 DEF Held, NewDrain
  <2> QED BY <1>2, <2>1, FS_EmptySet DEF CountInv, Init
<1>9. UseInv
  <2>1. setting.initialized => InUse
    BY <1>2 DEF Init, InUse, NewDrain, Starting, Shutting
  <2>2. ~setting.initialized => Alone
    BY <1>2 DEF Init, Alone, OneDrain, Starting, Shutting
  <2> QED BY <2>1, <2>2 DEF UseInv
<1>10. Batch = <<>> /\ queue = <<>> /\ accepted = <<>> /\ table = <<>>
  BY <1>4 DEF Batch, Init, NewDrain
<1>11. Settled = 0
  <2>1. Len(accepted) = 0 /\ Len(queue) = 0 /\ Len(Batch) = 0
    BY <1>2, <1>10
  <2> QED BY <2>1 DEF Settled
<1>12. FlightInv /\ RowInv
  BY <1>2, <1>10, <1>11 DEF FlightInv, RowInv
<1>13. WholeInv /\ SinceInv
  BY <1>2, <1>10, <1>11 DEF WholeInv, SinceInv, Init
<1> QED BY <1>5, <1>6, <1>7, <1>8, <1>9, <1>12, <1>13 DEF StoreInv, Typed, OrderInv

\* and every step keeps it.
LEMMA StoreStep == StoreInv /\ [Next]_vars => StoreInv'
BY TypedStep, CountStep, UseStep, OrderStep, WholeStep, SinceStep DEF StoreInv

\* The invariant that the theorems follow from: what is queued or in a batch
\* is counted as unfinished, what is under way are the last events accepted,
\* and no row overtakes another.
THEOREM StoreKept == Spec => []StoreInv
<1>1. Init => StoreInv
  BY StoreInit
<1>2. StoreInv /\ [Next]_vars => StoreInv'
  BY StoreStep
<1> QED BY <1>1, <1>2, PTL DEF Spec

\* The queue of an adapter never exceeds queue_maxsize, nor a batch its size,
\* and the count of unfinished tasks never goes below zero, which the queue
\* would answer with an exception.
THEOREM StoreTyped == Spec => []TypeOK
<1>1. StoreInv => TypeOK
  BY DEF StoreInv, Typed
<1> QED BY <1>1, StoreKept, PTL

\* Rows are inserted in the order of their appends, whatever fails, if one task
\* at a time may start the drain task; and close() of a store that is used as
\* the port is made for gives the connections back with all events written.
THEOREM TableKept == Spec => [](OneStarter => TableLaw)
<1>1. ASSUME StoreInv, OneStarter PROVE TableLaw
  <2>a. FlightInv /\ RowInv /\ TypeOK /\ CallInv
    BY <1>1 DEF StoreInv, OrderInv, Typed
  <2>b. /\ Len(accepted) \in Nat /\ DOMAIN accepted = 1..Len(accepted) /\ DOMAIN table = 1..Len(table)
        /\ Len(Batch) \in Nat /\ Len(queue) \in Nat /\ Len(table) \in Nat
    BY <2>a, BatchType
  <2>1. 1..Settled \subseteq DOMAIN accepted
    BY <2>a, <2>b DEF Settled, FlightInv
  <2>2. InOrder
    <3>1. ASSUME NEW i \in DOMAIN table, NEW j \in DOMAIN table, i < j
          PROVE  \E k, l \in DOMAIN accepted : k < l /\ accepted[k] = table[i] /\ accepted[l] = table[j]
      <4>1. PICK k, l \in 1..Settled : k < l /\ accepted[k] = table[i] /\ accepted[l] = table[j]
        BY <2>a, <3>1 DEF RowInv
      <4> QED BY <2>1, <4>1
    <3> QED BY <3>1 DEF InOrder
  <2>3. ASSUME NEW c \in Clients, Sound, pc[c] \in {"shut", "shutting"} PROVE table = accepted
    <3>1. Frozen
      BY <1>1, <2>3 DEF StoreInv, UseInv, InUse, Sound, Shutting
    <3>2. Batch = <<>> /\ queue = <<>>
      BY <3>1 DEF Frozen, Batch
    <3>3. Len(table) = Len(accepted) /\ \A i \in DOMAIN table : table[i] = accepted[i]
      BY <1>1, <2>3, <2>b, <3>2, EmptySeq DEF StoreInv, WholeInv, Settled
    <3>4. table \in Seq(Events) /\ accepted \in Seq(Events)
      BY <2>a DEF TypeOK
    <3> QED BY <2>b, <3>3, <3>4, SeqEqual
  <2> QED BY <2>2, <2>3 DEF TableLaw, CloseFlushes
<1>2. StoreInv => (OneStarter => TableLaw)
  BY <1>1
<1> QED BY <1>2, StoreKept, PTL

-----------------------------------------------------------------------------
(* The store implements its port *)

\* The clients whose reads wait for an answer: Port's variable of that name.
Reading == {c \in Clients : op[c] = "read" /\ pc[c] # "idle"}

\* A step moves one client; its place in the set is all that may change.
LEMMA ReadingMoves ==
  ASSUME TypeOK, NEW c \in Clients, NEW l, NEW o,
         pc' = [pc EXCEPT ![c] = l], op' = [op EXCEPT ![c] = o]
  PROVE  Reading' = IF o = "read" /\ l # "idle" THEN Reading \cup {c} ELSE Reading \ {c}
<1>1. \A e \in Clients : /\ pc'[e] = IF e = c THEN l ELSE pc[e]
                         /\ op'[e] = IF e = c THEN o ELSE op[e]
  BY DEF TypeOK
<1> QED BY <1>1 DEF Reading

\* A step in the middle of a method leaves the set as it is.
LEMMA ReadingStays ==
  ASSUME TypeOK, NEW c \in Clients, NEW l, pc' = [pc EXCEPT ![c] = l], op' = op,
         op[c] # "read" \/ (pc[c] # "idle" /\ l # "idle")
  PROVE  Reading' = Reading
<1>1. \A e \in Clients : pc'[e] = IF e = c THEN l ELSE pc[e]
  BY DEF TypeOK
<1> QED BY <1>1 DEF Reading

\* What an append does to the port.
LEMMA PortAccept ==
  ASSUME TypeOK, NEW c \in setting.clients, NEW n \in 1..setting.appends, Accept(c, n),
         Reading' = Reading, UNCHANGED <<since, answer>>
  PROVE  Port!Accept
<1>1. <<c, n>> \in Events /\ accepted' = Append(accepted, <<c, n>>)
  BY OwnEvent DEF Accept
<1> QED BY <1>1 DEF Port!Accept, Reading

\* An exception that a method raises fails the read, if it is one.
LEMMA PortRaise ==
  ASSUME Typed, NEW c \in setting.clients, pc[c] # "idle", Raise(c)
  PROVE  Port!FailRead(c) \/ (Reading' = Reading /\ UNCHANGED <<accepted, since, answer>>)
<1>a. c \in Clients /\ TypeOK
  BY SettingOK DEF Typed
<1>1. CASE op[c] = "read"
  <2>1. op' = [op EXCEPT ![c] = "read"]
    BY <1>a, <1>1 DEF Raise, TypeOK
  <2>2. Reading' = Reading \ {c} /\ c \in Reading
    BY <1>a, <1>1, <2>1, ReadingMoves DEF Raise, Goto, Reading
  <2>3. answer' = [answer EXCEPT ![c] = Failed] /\ UNCHANGED <<accepted, since>>
    BY <1>1 DEF Raise
  <2> QED BY <2>2, <2>3 DEF Port!FailRead, Port!Failed, Failed, Reading
<1>2. CASE op[c] # "read"
  BY <1>a, <1>2, ReadingStays DEF Raise, Goto
<1> QED BY <1>1, <1>2

\* A method other than a read, until it awaits.
LEMMA PortArrive ==
  ASSUME TypeOK, NEW c \in setting.clients, NEW o \in {"initialize", "append", "read"}, NEW n,
         o = "append" => n \in 1..setting.appends, Arrive(c, o, n), UNCHANGED <<since, answer>>,
         Reading' = Reading
  PROVE  Port!Accept \/ UNCHANGED accepted
<1>1. CASE o = "append" /\ HasRoom
  BY <1>1, PortAccept DEF Arrive
<1>2. CASE ~(o = "append" /\ HasRoom)
  BY <1>2 DEF Arrive
<1> QED BY <1>1, <1>2

\* A method is called: only a read is seen to begin.
LEMMA PortEnter ==
  ASSUME Typed, NEW c \in setting.clients, NEW o \in {"initialize", "append", "read"}, NEW n,
         o = "append" => n \in 1..setting.appends, Enter(c, o, n)
  PROVE  /\ o # "read" /\ UNCHANGED since =>
              Port!Accept \/ (Reading' = Reading /\ UNCHANGED <<accepted, since, answer>>)
         /\ o = "read" => c \notin Reading /\ Reading' = Reading \cup {c} /\ UNCHANGED <<accepted, answer>>
<1>a. c \in Clients /\ TypeOK /\ pc[c] = "idle" /\ op' = [op EXCEPT ![c] = o] /\ answer' = answer
      /\ c \notin Reading
  BY SettingOK DEF Typed, Enter, Reading
<1>1. PICK l \in Labels : pc' = [pc EXCEPT ![c] = l] /\ (o = "read" => l # "idle")
  BY DEF Enter, Arrive, Accept, Goto, Labels
<1>2. Reading' = IF o = "read" THEN Reading \cup {c} ELSE Reading
  <2>1. Reading' = IF o = "read" /\ l # "idle" THEN Reading \cup {c} ELSE Reading \ {c}
    <3>1. /\ c \in Clients /\ TypeOK /\ op' = [op EXCEPT ![c] = o]
          /\ pc' = [pc EXCEPT ![c] = l]
      BY <1>a, <1>1
    <3> QED BY <3>1, ReadingMoves
  <2>2. Reading \ {c} = Reading
    BY <1>a
  <2> QED BY <1>1, <2>1, <2>2
<1>3. CASE o = "read"
  <2>1. UNCHANGED accepted
    BY <1>3 DEF Enter, Arrive
  <2> QED BY <1>a, <1>2, <1>3, <2>1
<1>4. ASSUME o # "read", UNCHANGED since
      PROVE  Port!Accept \/ (Reading' = Reading /\ UNCHANGED <<accepted, since, answer>>)
  <2>1. CASE UNCHANGED accepted
    BY <1>a, <1>2, <1>4, <2>1
  <2>2. CASE Arrive(c, o, n)
    BY <1>a, <1>2, <1>4, <2>2, PortArrive
  <2> QED BY <2>1, <2>2 DEF Enter
<1> QED BY <1>3, <1>4

\* A query that succeeds answers with a part of the history that is long enough.
LEMMA PortQuery ==
  ASSUME StoreInv, Sound, NEW c \in setting.clients, Query(c)
  PROVE  Port!EndRead(c)
<1>a. /\ c \in Clients /\ TypeOK /\ CallInv /\ FlightInv /\ pc[c] = "query"
      /\ Len(table) = Settled /\ \A i \in DOMAIN table : table[i] = accepted[i]
      /\ since[c] <= Len(table) /\ since[c] \in Nat
  BY SettingOK DEF StoreInv, Typed, WholeInv, OrderInv, OneStarter, Sound, Query, TypeOK
<1>b. /\ Len(accepted) \in Nat /\ Len(Batch) \in Nat /\ Len(queue) \in Nat /\ Len(table) \in Nat
      /\ DOMAIN table = 1..Len(table) /\ table \in Seq(Events) /\ accepted \in Seq(Events)
  BY <1>a, BatchType DEF TypeOK
<1>1. Len(table) \in since[c]..Len(accepted)
  BY <1>a, <1>b DEF Settled
<1>2. SubSeq(accepted, 1, Len(table)) = table
  <2> DEFINE s == SubSeq(accepted, 1, Len(table))
  <2>1. s \in Seq(Events) /\ Len(s) = Len(table) /\ \A i \in 1..Len(table) : s[i] = accepted[i]
    BY <1>b, <1>1, SubSeqProperties
  <2> QED BY <1>a, <1>b, <2>1, SeqEqual
<1>3. op[c] = "read"
  BY <1>a DEF CallInv
<1>4. c \in Reading /\ op' = [op EXCEPT ![c] = "read"]
  BY <1>a, <1>3 DEF Reading, Query, TypeOK
<1>5. Reading' = Reading \ {c}
  BY <1>a, <1>4, ReadingMoves DEF Query, Goto
<1>6. answer' = [answer EXCEPT ![c] = [ok |-> TRUE, events |-> SubSeq(accepted, 1, Len(table))]]
  BY <1>2 DEF Query, Returned
<1>7. UNCHANGED <<accepted, since>>
  BY DEF Query
<1> QED BY <1>1, <1>4, <1>5, <1>6, <1>7 DEF Port!EndRead, Port!Returned, Reading

\* Every step is one of the port, or none that it could see.
LEMMA PortStep == StoreInv /\ [Next]_vars => [Sound => Port!Next]_(Port!vars)
<1> SUFFICES ASSUME StoreInv, [Next]_vars, Sound
             PROVE  Port!Next \/ (Reading' = Reading /\ UNCHANGED <<accepted, since, answer>>)
  BY DEF Port!vars, Reading
<1>a. Typed /\ TypeOK /\ CallInv
  BY DEF StoreInv, Typed
<1>1. CASE UNCHANGED vars
  BY <1>1 DEF vars, clientVars, readVars, Reading
<1>2. ASSUME NEW c \in setting.clients, Call(c) \/ Resume(c)
      PROVE  Port!Next \/ (Reading' = Reading /\ UNCHANGED <<accepted, since, answer>>)
  <2>a. c \in Clients
    BY <1>a, SettingOK
  <2>1. CASE Initialize(c)
    BY <1>a, <2>1, PortEnter DEF Initialize, Port!Next
  <2>2. CASE AppendEvent(c)
    <3>a. count[c] \in Nat /\ setting.appends \in Nat
      BY <1>a, <2>a, SettingOK DEF TypeOK
    <3>1. count[c] + 1 \in 1..setting.appends
      BY <2>2, <3>a DEF AppendEvent
    <3> QED BY <1>a, <2>2, <3>1, PortEnter DEF AppendEvent, Port!Next
  <2>3. CASE Read(c)
    <3>1. /\ c \notin Reading /\ Reading' = Reading \cup {c} /\ UNCHANGED <<accepted, answer>>
          /\ since' = [since EXCEPT ![c] = Len(accepted)]
      BY <1>a, <2>3, PortEnter DEF Read
    <3>2. Port!BeginRead(c)
      BY <3>1 DEF Port!BeginRead, Reading
    <3> QED BY <2>a, <3>2 DEF Port!Next
  <2>4. CASE Close(c) \/ CloseAgain(c)
    <3>1. /\ UNCHANGED <<accepted, since, answer>> /\ pc[c] = "idle"
          /\ op' = [op EXCEPT ![c] = "close"]
      BY <2>4 DEF Close, CloseAgain, readVars
    <3>2. PICK l \in Labels : pc' = [pc EXCEPT ![c] = l]
      <4>1. CASE Close(c)
        BY <4>1 DEF Close, CancelDrain, Goto, Labels
      <4>2. CASE CloseAgain(c)
        BY <1>a, <2>a, <3>1, <4>2 DEF CloseAgain, TypeOK
      <4> QED BY <2>4, <4>1, <4>2
    <3>3. Reading' = Reading \ {c} /\ c \notin Reading
      <4>2. Reading' = IF "close" = "read" /\ l # "idle" THEN Reading \cup {c} ELSE Reading \ {c}
        BY <1>a, <2>a, <3>1, <3>2, ReadingMoves
      <4>3. c \notin Reading
        BY <3>1 DEF Reading
      <4> QED BY <4>2, <4>3
    <3> QED BY <3>1, <3>3
  <2>5. CASE Create(c) \/ Flush(c)
    BY <1>a, <2>a, <2>5, ReadingStays DEF Create, Flush, Goto, readVars
  <2>6. CASE Schema(c)
    <3>1. /\ pc[c] = "schema" /\ op[c] \in {"initialize", "append", "read"}
          /\ op[c] = "append" => count[c] \in 1..setting.appends
      BY <1>a, <2>a, <2>6 DEF Schema, CallInv, Starting
    <3>2. CASE Raise(c)
      BY <1>a, <2>a, <3>1, <3>2, PortRaise DEF Port!Next
    <3>3. CASE Arrive(c, op[c], count[c]) /\ UNCHANGED <<op, since, answer>>
      <4>1. PICK l \in Labels : pc' = [pc EXCEPT ![c] = l] /\ (op[c] = "read" => l # "idle")
        BY <3>1, <3>3 DEF Arrive, Accept, Goto, Labels
      <4>2. Reading' = Reading
        BY <1>a, <2>a, <3>1, <3>3, <4>1, ReadingStays
      <4>3. Port!Accept \/ UNCHANGED accepted
        BY <1>a, <3>1, <3>3, <4>2, PortArrive
      <4> QED BY <3>3, <4>2, <4>3 DEF Port!Next
    <3> QED BY <2>6, <3>2, <3>3 DEF Schema, readVars
  <2>7. CASE Put(c)
    <3>1. op[c] = "append" /\ count[c] \in 1..setting.appends
      BY <1>a, <2>a, <2>7 DEF Put, CallInv
    <3>2. Reading' = Reading
      BY <1>a, <2>a, <2>7, <3>1, ReadingStays DEF Put, Accept, Goto
    <3>3. Port!Accept
      BY <1>a, <2>7, <3>1, <3>2, PortAccept DEF Put, readVars
    <3> QED BY <3>3 DEF Port!Next
  <2>8. CASE Query(c)
    BY <2>a, <2>8, PortQuery DEF Port!Next
  <2>9. CASE CreateFails(c) \/ SchemaFails(c) \/ QueryFails(c)
    <3>1. pc[c] # "idle" /\ Raise(c)
      BY <2>9 DEF CreateFails, SchemaFails, QueryFails
    <3> QED BY <1>a, <2>a, <3>1, PortRaise DEF Port!Next
  <2>10. CASE Join(c) \/ Cancel(c) \/ BeginShut(c) \/ EndShut(c)
    <3>1. op[c] = "close"
      BY <1>a, <2>a, <2>10 DEF CallInv, Join, Cancel, BeginShut, EndShut, Shutting
    <3>2. UNCHANGED <<op, accepted, since, answer>>
      BY <2>10 DEF Join, Cancel, BeginShut, EndShut, readVars
    <3>3. PICK l \in Labels : pc' = [pc EXCEPT ![c] = l]
      BY <2>10 DEF Join, Cancel, CancelDrain, BeginShut, EndShut, Goto, Labels
    <3> QED BY <1>a, <2>a, <3>1, <3>2, <3>3, ReadingStays
  <2> QED BY <1>2, <2>1, <2>2, <2>3, <2>4, <2>5, <2>6, <2>7, <2>8, <2>9, <2>10 DEF Call, Resume
<1>3. ASSUME NEW d \in DOMAIN drains, DrainStep(d)
      PROVE  Reading' = Reading /\ UNCHANGED <<accepted, since, answer>>
  BY <1>3 DEF DrainStep, Take, Fill, Write, WriteFails, Done, clientVars, readVars, Reading
<1> QED BY <1>1, <1>2, <1>3 DEF Next

\* An initialised store without faults implements EventStorePort: a read that
\* returns observes every append that happened before it, in order, for any
\* number of tasks and whatever the sizes of the queue and of a batch.
THEOREM PortKept == Spec => KeepsPort
<1>1. Init => Port!Init
  BY DEF Init, Port!Init, Port!Failed, Failed
<1>2. StoreInv /\ [Next]_vars => [Sound => Port!Next]_(Port!vars)
  BY PortStep
<1> QED BY <1>1, <1>2, StoreKept, PTL DEF Spec, KeepsPort
=============================================================================
