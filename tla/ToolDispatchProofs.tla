------------------------- MODULE ToolDispatchProofs -------------------------
(***************************************************************************)
(* Theorems about ToolDispatch, for every list of calls a response asks    *)
(* for.                                                                    *)
(***************************************************************************)
EXTENDS ToolDispatch, TLAPS

\* The positions of the calls are 1..Count, and every call has an id.
LEMMA Positions ==
  ASSUME TypeOK
  PROVE  /\ DOMAIN calls = 1..Count /\ Count \in Nat /\ Count > 0
         /\ \A i \in DOMAIN calls : calls[i].id \in Ids
<1>1. DOMAIN calls = 1..Count /\ Count \in Nat /\ Count > 0
  BY DEF TypeOK, Count
<1>2. \A i \in DOMAIN calls : calls[i] \in Call
  BY DEF TypeOK
<1>3. \A c \in Call : c.id \in Ids
  BY DEF Call
<1> QED BY <1>1, <1>2, <1>3

\* No step changes the calls.
LEMMA CallsKept == [Next]_vars => calls' = calls
  BY Zenon DEF Last, Next, Dispatch, LogCall, LogFails, Place, Gather, GatherReturns, Record,
    EndBatches, AnswerCall, Cancel, CallStep, HookBlocks, HookPasses, Denied, Begin,
    Finish, PostHooks, Settle, HookRaises, vars

\* Every variable keeps its type.
LEMMA TypeStep == TypeOK /\ [Next]_vars => TypeOK'
<1> SUFFICES ASSUME TypeOK, [Next]_vars PROVE TypeOK'
  OBVIOUS
<1>a. calls' = calls /\ Count' = Count
  BY CallsKept DEF Count
<1>b. /\ DOMAIN calls = 1..Count /\ Count \in Nat /\ Count > 0
      /\ \A i \in DOMAIN calls : calls[i].id \in Ids
  BY Positions
<1>d. StateOK
  BY DEF TypeOK
<1> SUFFICES StateOK'
  BY <1>a DEF TypeOK
<1> USE <1>a, <1>b, <1>d DEF StateOK, Ended, Phases, States, Outcomes, Pending
<1>1. CASE LogCall
  BY <1>1 DEF Last, LogCall
<1>2. CASE LogFails
  BY <1>2 DEF LogFails
<1>3. CASE Place
  BY <1>3 DEF Last, Place
<1>4. CASE Gather
  BY <1>4 DEF Gather
<1>5. CASE GatherReturns \/ EndBatches
  BY <1>5 DEF GatherReturns, EndBatches
<1>6. CASE Record
  <2>1. done + 1 \in 1..Count /\ (done + 1 # Count => done + 1 < Count) /\ 0 < Count /\ 0 \in 0..Count
    BY <1>6 DEF Last, Record
  <2>2. byId' \in [Ids -> Outcomes \cup {Pending}]
    BY <2>1, <1>6 DEF Last, Record, Recorded
  <2> QED BY <2>1, <2>2, <1>6 DEF Last, Record
<1>7. CASE AnswerCall
  <2>1. done + 1 \in 1..Count /\ (done + 1 # Count => done + 1 < Count)
    BY <1>7 DEF Last, AnswerCall
  <2>2. answer' \in [DOMAIN calls -> Outcomes \cup {Pending}]
    BY <2>1, <1>7 DEF Last, AnswerCall
  <2> QED BY <2>1, <2>2, <1>7 DEF Last, AnswerCall
<1>8. CASE Cancel
  BY <1>8 DEF Cancel
<1>9. ASSUME NEW i \in DOMAIN calls, CallStep(i) PROVE StateOK'
  <2>1. CASE HookBlocks(i) \/ HookPasses(i) \/ Denied(i) \/ Begin(i) \/ PostHooks(i)
    BY <2>1 DEF HookBlocks, HookPasses, Denied, Begin, PostHooks, Settle, AfterBlock
  <2>2. ASSUME NEW r \in Outcomes, Finish(i, r) PROVE StateOK'
    BY <2>2 DEF Finish, Settle
  <2>3. CASE HookRaises(i)
    BY <2>3 DEF HookRaises
  <2> QED BY <1>9, <2>1, <2>2, <2>3 DEF CallStep
<1>10. CASE UNCHANGED vars
  BY <1>10 DEF vars
<1> QED
  BY <1>1, <1>2, <1>3, <1>4, <1>5, <1>6, <1>7, <1>8, <1>9, <1>10 DEF Next, Dispatch

\* Every variable has its type in every state.
THEOREM TypeCorrect == Spec => []TypeOK
<1>1. Init => TypeOK
  BY RequestsAssumption
  DEF RequestsAssumption, Init, TypeOK, StateOK, Count, Ended, Phases, States, Pending
<1> QED BY <1>1, TypeStep, PTL DEF Spec

-----------------------------------------------------------------------------
(* Where the calls are placed *)

\* Only Place changes the batches, and only by placing the next call.
LEMMA OnlyPlace == [Next]_vars => batchOf' = batchOf \/ Place
  BY Zenon DEF Last, Next, Dispatch, LogCall, LogFails, Gather, GatherReturns, Record,
    EndBatches, AnswerCall, Cancel, CallStep, HookBlocks, HookPasses, Denied, Begin,
    Finish, PostHooks, Settle, HookRaises, vars

LEMMA PlaceCall ==
  ASSUME TypeOK, PlacedInv, Place
  PROVE  LET k == done + 1 IN
         /\ k \in DOMAIN calls /\ batchOf[k] = 0
         /\ \A i \in DOMAIN calls : batchOf[i] # 0 <=> i < k
         /\ \E b \in 1..Count :
              /\ Fits(k, b) /\ \A c \in 1..(b - 1) : ~Fits(k, c)
              /\ batchOf' = [batchOf EXCEPT ![k] = b]
<1>1. DOMAIN calls = 1..Count /\ Count \in Nat /\ done \in 0..Count /\ done < Count
  BY Positions DEF Last, TypeOK, StateOK, Ended, Place
<1>2. \A i \in DOMAIN calls : batchOf[i] = 0 <=> i > done
  BY DEF Last, PlacedInv, Place
<1>3. done + 1 \in DOMAIN calls /\ batchOf[done + 1] = 0
  BY <1>1, <1>2
<1>4. \A i \in DOMAIN calls : batchOf[i] # 0 <=> i < done + 1
  BY <1>1, <1>2
<1>5. \E b \in 1..Count :
        /\ Fits(done + 1, b) /\ \A c \in 1..(b - 1) : ~Fits(done + 1, c)
        /\ batchOf' = [batchOf EXCEPT ![done + 1] = b]
  <2>1. PICK b \in 1..(done + 1) :
          /\ Fits(done + 1, b) /\ \A c \in 1..(b - 1) : ~Fits(done + 1, c)
          /\ batchOf' = [batchOf EXCEPT ![done + 1] = b]
    BY DEF Last, Place
  <2>2. b \in 1..Count
    BY <1>1
  <2> QED BY <2>1, <2>2
<1> QED
  BY <1>3, <1>4, <1>5

\* The calls of one batch never conflict.
LEMMA ApartStep == TypeOK /\ PlacedInv /\ Apart /\ [Next]_vars => Apart'
<1> SUFFICES ASSUME TypeOK, PlacedInv, Apart, [Next]_vars PROVE Apart'
  OBVIOUS
<1>1. calls' = calls
  BY CallsKept
<1>2. CASE batchOf' = batchOf
  BY <1>1, <1>2 DEF Apart, Conflicts
<1>3. CASE Place
  <2> DEFINE k == done + 1
  <2>1. PICK b \in 1..Count : Fits(k, b) /\ batchOf' = [batchOf EXCEPT ![k] = b]
    BY <1>3, PlaceCall
  <2>2. k \in DOMAIN calls /\ batchOf \in [DOMAIN calls -> 0..Count]
    BY <1>3, PlaceCall DEF TypeOK, StateOK
  <2> HIDE DEF k
  <2>3. ASSUME NEW i \in DOMAIN calls, NEW j \in DOMAIN calls, i # j,
               batchOf'[i] > 0, batchOf'[i] = batchOf'[j]
        PROVE  ~Conflicts(i, j)
    <3>1. CASE i = k
      BY <3>1, <2>1, <2>2, <2>3 DEF Fits, Conflicts
    <3>2. CASE j = k
      BY <3>2, <2>1, <2>2, <2>3 DEF Fits, Conflicts
    <3>3. CASE i # k /\ j # k
      BY <3>3, <2>1, <2>2, <2>3 DEF Apart
    <3> QED BY <3>1, <3>2, <3>3
  <2> QED BY <2>3, <1>1 DEF Apart, Conflicts
<1> QED BY <1>2, <1>3, OnlyPlace

\* Every batch before that of a call holds a call with its key.
LEMMA NoGapStep == TypeOK /\ PlacedInv /\ NoGap /\ [Next]_vars => NoGap'
<1> SUFFICES ASSUME TypeOK, PlacedInv, NoGap, [Next]_vars PROVE NoGap'
  OBVIOUS
<1>1. calls' = calls /\ Count' = Count
  BY CallsKept DEF Count
<1>2. CASE batchOf' = batchOf
  BY <1>1, <1>2 DEF NoGap
<1>3. CASE Place
  <2> DEFINE k == done + 1
  <2>1. PICK b \in 1..Count :
          (\A c \in 1..(b - 1) : ~Fits(k, c)) /\ batchOf' = [batchOf EXCEPT ![k] = b]
    BY <1>3, PlaceCall
  <2>2. k \in DOMAIN calls /\ batchOf \in [DOMAIN calls -> 0..Count] /\ batchOf[k] = 0
    BY <1>3, PlaceCall DEF TypeOK, StateOK
  <2> HIDE DEF k
  <2>3. ASSUME NEW i \in DOMAIN calls, NEW c \in 1..Count, c < batchOf'[i]
        PROVE  \E j \in DOMAIN calls : batchOf'[j] = c /\ calls[j].key = calls[i].key
    <3>1. PICK j \in DOMAIN calls : batchOf[j] = c /\ calls[j].key = calls[i].key
      <4>1. CASE i = k
        BY <4>1, <2>1, <2>2, <2>3 DEF Fits, Conflicts
      <4>2. CASE i # k
        BY <4>2, <2>1, <2>2, <2>3 DEF NoGap
      <4> QED BY <4>1, <4>2
    <3>2. j # k
      BY <3>1, <2>2
    <3> QED BY <3>1, <3>2, <2>1, <2>2
  <2> QED BY <2>3, <1>1 DEF NoGap
<1> QED BY <1>2, <1>3, OnlyPlace

\* A write is placed after every earlier call with its key: it cannot share
\* its batch, and a later one would leave a conflict in the batch it took.
LEMMA WritesLaterStep ==
  TypeOK /\ PlacedInv /\ NoGap /\ WritesLater /\ [Next]_vars => WritesLater'
<1> SUFFICES ASSUME TypeOK, PlacedInv, NoGap, WritesLater, [Next]_vars PROVE WritesLater'
  OBVIOUS
<1>1. calls' = calls
  BY CallsKept
<1>2. CASE batchOf' = batchOf
  BY <1>1, <1>2 DEF WritesLater
<1>3. CASE Place
  <2> DEFINE k == done + 1
  <2>1. PICK b \in 1..Count : Fits(k, b) /\ batchOf' = [batchOf EXCEPT ![k] = b]
    BY <1>3, PlaceCall
  <2>2. /\ k \in DOMAIN calls /\ batchOf \in [DOMAIN calls -> 0..Count] /\ batchOf[k] = 0
        /\ DOMAIN calls = 1..Count /\ Count \in Nat
        /\ \A i \in DOMAIN calls : batchOf[i] # 0 <=> i < k
    BY <1>3, PlaceCall, Positions DEF TypeOK, StateOK
  <2> HIDE DEF k
  <2>3. ASSUME NEW i \in DOMAIN calls, NEW j \in DOMAIN calls, i < j,
               calls[i].key = calls[j].key, ~calls[j].readOnly, batchOf'[j] > 0
        PROVE  0 < batchOf'[i] /\ batchOf'[i] < batchOf'[j]
    <3>1. CASE j = k
      <4>1. batchOf'[j] = b /\ batchOf'[i] = batchOf[i] /\ batchOf[i] \in 1..Count
        BY <3>1, <2>1, <2>2, <2>3
      <4>2. \A m \in DOMAIN calls : calls[m].key = calls[i].key => batchOf[m] # b
        BY <3>1, <2>1, <2>3 DEF Fits, Conflicts
      <4>3. ~(b < batchOf[i])
        BY <4>1, <4>2, <2>1 DEF NoGap
      <4> QED BY <4>1, <4>2, <4>3
    <3>2. CASE j # k
      <4>1. batchOf'[j] = batchOf[j]
        BY <3>2, <2>1, <2>2
      <4>2. 0 < batchOf[i] /\ batchOf[i] < batchOf[j]
        BY <4>1, <2>3 DEF WritesLater
      <4> QED BY <4>1, <4>2, <2>1, <2>2
    <3> QED BY <3>1, <3>2
  <2> QED BY <2>3, <1>1 DEF WritesLater
<1> QED BY <1>2, <1>3, OnlyPlace

-----------------------------------------------------------------------------
(* How the batches run *)

\* A step of a call's coroutine moves that call alone, and only from a state
\* in which it is under way.
LEMMA CallMoves ==
  ASSUME TypeOK, NEW i \in DOMAIN calls, CallStep(i)
  PROVE  /\ state[i] \in Busy
         /\ UNCHANGED <<calls, done, batchOf, current, byId, answer>>
         /\ \E to \in {"gate", "running", "post", "settled", "cancelled"} :
              /\ state' = [state EXCEPT ![i] = to]
              /\ to = "cancelled" => phase' = "raised" /\ outcome' = outcome
              /\ to # "cancelled" => phase' = phase
         /\ \E result \in Outcomes \cup {Pending} :
              /\ outcome' = [outcome EXCEPT ![i] = result]
              /\ state'[i] \in {"post", "settled"} =>
                   result # Pending \/ (state[i] = "post" /\ result = outcome[i])
<1> USE DEF TypeOK, StateOK, Busy, Outcomes, Pending
<1>1. CASE HookBlocks(i)
  BY <1>1 DEF HookBlocks, Settle, AfterBlock
<1>2. CASE HookPasses(i)
  BY <1>2 DEF HookPasses, Settle
<1>3. CASE Denied(i)
  BY <1>3 DEF Denied, Settle
<1>4. CASE Begin(i)
  BY <1>4 DEF Begin, Settle
<1>5. ASSUME NEW r \in Outcomes, Finish(i, r)
      PROVE  /\ state[i] = "running" /\ r # Pending
             /\ UNCHANGED <<phase, calls, done, batchOf, current, byId, answer>>
             /\ state' = [state EXCEPT ![i] = "post"]
             /\ outcome' = [outcome EXCEPT ![i] = r]
  BY <1>5 DEF Finish, Settle
<1>6. CASE PostHooks(i)
  BY <1>6 DEF PostHooks, Settle
<1>7. CASE HookRaises(i)
  <2>1. outcome' = [outcome EXCEPT ![i] = outcome[i]] /\ state'[i] = "cancelled"
    BY <1>7 DEF HookRaises
  <2> QED BY <1>7, <2>1 DEF HookRaises
<1> QED
  BY <1>1, <1>2, <1>3, <1>4, <1>5, <1>6, <1>7 DEF CallStep

\* No call runs while calls are logged and placed.
LEMMA PlacedStep == TypeOK /\ PlacedInv /\ [Next]_vars => PlacedInv'
<1> SUFFICES ASSUME TypeOK, PlacedInv, [Next]_vars PROVE PlacedInv'
  OBVIOUS
<1>a. calls' = calls /\ Count' = Count
  BY CallsKept DEF Count
<1>b. DOMAIN calls = 1..Count /\ Count \in Nat /\ Count > 0
  BY Positions
<1>c. done \in 0..Count /\ batchOf \in [DOMAIN calls -> 0..Count]
  BY DEF TypeOK, StateOK
<1> USE <1>a, <1>b, <1>c DEF PlacedInv
<1>1. CASE LogCall
  BY <1>1 DEF Last, LogCall
<1>2. CASE LogFails \/ Cancel
  BY <1>2 DEF LogFails, Cancel
<1>3. CASE Place
  <2>1. PICK b \in 1..Count : batchOf' = [batchOf EXCEPT ![done + 1] = b]
    BY <1>3, PlaceCall
  <2>2. done + 1 \in DOMAIN calls /\ \A i \in DOMAIN calls : batchOf[i] # 0 <=> i < done + 1
    BY <1>3, PlaceCall
  <2>3. \A i \in DOMAIN calls : batchOf'[i] = 0 <=> i > done + 1
    BY <2>1, <2>2
  <2>4. CASE done + 1 = Count
    BY <1>3, <2>3, <2>4 DEF Last, Place
  <2>5. CASE done + 1 # Count
    BY <1>3, <2>3, <2>5 DEF Last, Place
  <2> QED BY <2>4, <2>5
<1>4. CASE Gather \/ GatherReturns \/ EndBatches
  BY <1>4 DEF Gather, GatherReturns, EndBatches
<1>5. CASE Record
  BY <1>5 DEF Last, Record
<1>6. CASE AnswerCall
  BY <1>6 DEF Last, AnswerCall
<1>7. ASSUME NEW i \in DOMAIN calls, CallStep(i) PROVE PlacedInv'
  BY <1>7, CallMoves DEF Busy
<1>8. CASE UNCHANGED vars
  BY <1>8 DEF vars
<1> QED
  BY <1>1, <1>2, <1>3, <1>4, <1>5, <1>6, <1>7, <1>8 DEF Next, Dispatch

\* A batch runs alone, after every batch before it has settled.
LEMMA BatchStep == TypeOK /\ PlacedInv /\ BatchInv /\ [Next]_vars => BatchInv'
<1> SUFFICES ASSUME TypeOK, PlacedInv, BatchInv, [Next]_vars PROVE BatchInv'
  OBVIOUS
<1>a. calls' = calls
  BY CallsKept
<1>b. /\ current \in Nat /\ batchOf \in [DOMAIN calls -> Nat]
      /\ state \in [DOMAIN calls -> States]
  BY Positions DEF TypeOK, StateOK
<1>c. PlacedInv'
  BY PlacedStep
<1> USE <1>a, <1>b DEF BatchInv, BatchSettled
<1>1. CASE LogCall
  BY <1>1, <1>c DEF Last, LogCall, PlacedInv
<1>2. CASE LogFails
  BY <1>2 DEF LogFails
<1>3. CASE Place
  <2>1. /\ \A i \in DOMAIN calls : state[i] = "waiting"
        /\ current = 0 /\ current' = current /\ state' = state /\ phase' \in {"place", "gather"}
    BY <1>3 DEF Last, Place, PlacedInv
  <2>2. phase' = "gather" => \A i \in DOMAIN calls : batchOf'[i] # 0
    BY <1>c DEF PlacedInv
  <2>3. batchOf' \in [DOMAIN calls -> Nat]
    <3>1. PICK b \in 1..Count : batchOf' = [batchOf EXCEPT ![done + 1] = b]
      BY <1>3, PlaceCall
    <3>2. b \in Nat
      BY Positions
    <3> QED BY <3>1, <3>2
  <2> QED BY <2>1, <2>2, <2>3 DEF Busy
<1>4. CASE Gather
  <2>1. /\ \A i \in DOMAIN calls : 0 < batchOf[i]
        /\ \A i \in DOMAIN calls : batchOf[i] = current => state[i] = "settled"
    BY <1>4 DEF Gather, PlacedInv
  <2> QED BY <1>4, <2>1 DEF Gather, Busy
<1>5. CASE GatherReturns \/ EndBatches
  BY <1>5 DEF GatherReturns, EndBatches
<1>6. CASE Record
  BY <1>6 DEF Last, Record
<1>7. CASE AnswerCall
  BY <1>7 DEF Last, AnswerCall
<1>8. CASE Cancel
  BY <1>8 DEF Cancel, Busy
<1>9. ASSUME NEW i \in DOMAIN calls, CallStep(i) PROVE BatchInv'
  <2>1. /\ state[i] \in Busy
        /\ UNCHANGED <<calls, batchOf, current>>
    BY <1>9, CallMoves
  <2>2. PICK to \in {"gate", "running", "post", "settled", "cancelled"} :
          /\ state' = [state EXCEPT ![i] = to]
          /\ to = "cancelled" => phase' = "raised"
          /\ to # "cancelled" => phase' = phase
    BY <1>9, CallMoves
  <2>3. batchOf[i] = current /\ current > 0 /\ state[i] # "settled"
    BY <2>1 DEF Busy
  <2>4. phase \notin {"gather", "record", "answer", "done"}
    BY <2>3
  <2> QED BY <2>1, <2>2, <2>3, <2>4 DEF Busy
<1>10. CASE UNCHANGED vars
  BY <1>10 DEF vars
<1> QED
  BY <1>1, <1>2, <1>3, <1>4, <1>5, <1>6, <1>7, <1>8, <1>9, <1>10 DEF Next, Dispatch

\* A recorded outcome is found under the id of its call.
LEMMA RecordStep ==
  TypeOK /\ PlacedInv /\ NoGap /\ BatchInv /\ RecordInv /\ [Next]_vars => RecordInv'
<1> SUFFICES ASSUME TypeOK, PlacedInv, NoGap, BatchInv, RecordInv, [Next]_vars
             PROVE  RecordInv'
  OBVIOUS
<1>a. calls' = calls /\ Count' = Count
  BY CallsKept DEF Count
<1>b. /\ DOMAIN calls = 1..Count /\ Count \in Nat
      /\ current \in Nat /\ batchOf \in [DOMAIN calls -> 0..Count] /\ done \in Nat
      /\ \A i \in DOMAIN calls : calls[i].id \in Ids
  BY Positions DEF TypeOK, StateOK
<1>c. /\ state \in [DOMAIN calls -> States]
      /\ outcome \in [DOMAIN calls -> Outcomes \cup {Pending}]
      /\ byId \in [Ids -> Outcomes \cup {Pending}]
  BY DEF TypeOK, StateOK
<1> USE <1>a, <1>b DEF RecordInv, InSoFar, DistinctIds
<1>1. CASE LogCall
  BY <1>1 DEF Last, LogCall, PlacedInv
<1>2. CASE LogFails
  BY <1>2 DEF LogFails
<1>3. CASE Place
  <2>1. /\ current = 0 /\ current' = 0 /\ phase' \in {"place", "gather"}
        /\ UNCHANGED <<state, outcome, byId>>
    BY <1>3 DEF Last, Place, PlacedInv
  <2>2. \A i \in DOMAIN calls : batchOf'[i] \in Nat
    <3>1. PICK b \in 1..Count : batchOf' = [batchOf EXCEPT ![done + 1] = b]
      BY <1>3, PlaceCall
    <3> QED BY <3>1
  <2> QED BY <2>1, <2>2
<1>4. CASE Gather
  <2>1. \A i \in DOMAIN calls : state'[i] \in {"post", "settled"} => state'[i] = state[i]
    BY <1>4, <1>c DEF Gather
  <2>2. /\ phase = "gather" /\ phase' = "run" /\ current' = current + 1
        /\ UNCHANGED <<batchOf, outcome, byId>>
    BY <1>4 DEF Gather
  <2>3. \A i \in DOMAIN calls : InSoFar(i)' => InSoFar(i)
    BY <2>2
  <2>4. \A i \in DOMAIN calls : state'[i] \in {"post", "settled"} => outcome'[i] # Pending
    BY <2>1, <2>2
  <2> QED BY <2>2, <2>3, <2>4
<1>5. CASE GatherReturns
  BY <1>5 DEF GatherReturns, PlacedInv
<1>6. CASE EndBatches
  <2>1. ASSUME NEW i \in DOMAIN calls, current + 1 < batchOf[i] PROVE FALSE
    <3>1. current + 1 \in 1..Count
      BY <2>1
    <3>2. \E j \in DOMAIN calls : batchOf[j] = current + 1
      BY <2>1, <3>1 DEF NoGap
    <3> QED BY <3>2, <1>6 DEF EndBatches
  <2>2. \A i \in DOMAIN calls : batchOf[i] <= current
    BY <2>1, <1>6 DEF EndBatches
  <2> QED BY <2>2, <1>6 DEF EndBatches
<1>7. CASE Record
  <2> DEFINE k == done + 1
  <2>1. k \in DOMAIN calls
    BY <1>7 DEF Last, Record, TypeOK, StateOK, Ended
  <2>2. /\ phase = "record" /\ phase' \in {"record", "gather"}
        /\ (phase' = "record" => done' = k) /\ (phase' = "gather" => k = Count)
        /\ UNCHANGED <<batchOf, current, state, outcome>>
        /\ byId' = Recorded(k)
    BY <1>7 DEF Last, Record
  <2>3. ASSUME DistinctIds, NEW i \in DOMAIN calls, batchOf[i] > 0, InSoFar(i)'
        PROVE  byId'[calls[i].id] = outcome[i]
    <3>1. CASE i = k /\ batchOf[i] = current
      BY <3>1, <2>1, <2>2, <1>c DEF Recorded
    <3>2. CASE ~(i = k /\ batchOf[i] = current)
      <4>1. InSoFar(i)
        BY <3>2, <2>1, <2>2, <2>3
      <4>2. byId[calls[i].id] = outcome[i]
        BY <4>1, <2>3
      <4>3. byId'[calls[i].id] = byId[calls[i].id]
        BY <3>2, <2>1, <2>2, <2>3, <1>c DEF Recorded
      <4> QED BY <4>2, <4>3
    <3> QED BY <3>1, <3>2
  <2> QED BY <2>2, <2>3
<1>8. CASE AnswerCall
  BY <1>8 DEF Last, AnswerCall
<1>9. CASE Cancel
  BY <1>9 DEF Cancel
<1>10. ASSUME NEW i \in DOMAIN calls, CallStep(i) PROVE RecordInv'
  <2>1. state[i] \in Busy /\ UNCHANGED <<done, batchOf, current, byId>>
    BY <1>10, CallMoves
  <2>2. PICK to \in {"gate", "running", "post", "settled", "cancelled"} :
          /\ state' = [state EXCEPT ![i] = to]
          /\ to = "cancelled" => phase' = "raised"
          /\ to # "cancelled" => phase' = phase
    BY <1>10, CallMoves
  <2>3. PICK result \in Outcomes \cup {Pending} :
          /\ outcome' = [outcome EXCEPT ![i] = result]
          /\ state'[i] \in {"post", "settled"} =>
               result # Pending \/ (state[i] = "post" /\ result = outcome[i])
    BY <1>10, CallMoves
  <2>4. batchOf[i] = current /\ phase \notin {"gather", "record", "answer", "done"}
    BY <2>1 DEF BatchInv, BatchSettled, Busy
  <2>5. \A j \in DOMAIN calls : state'[j] \in {"post", "settled"} => outcome'[j] # Pending
    BY <2>2, <2>3, <1>c
  <2>6. \A j \in DOMAIN calls : InSoFar(j)' => InSoFar(j) /\ j # i
    BY <2>1, <2>2, <2>4
  <2>7. \A j \in DOMAIN calls : j # i => outcome'[j] = outcome[j]
    BY <2>3, <1>c
  <2> QED BY <2>1, <2>2, <2>4, <2>5, <2>6, <2>7
<1>11. CASE UNCHANGED vars
  BY <1>11 DEF vars
<1> QED
  BY <1>1, <1>2, <1>3, <1>4, <1>5, <1>6, <1>7, <1>8, <1>9, <1>10, <1>11 DEF Next, Dispatch

\* An answered call has reported its own outcome.
LEMMA AnswerStep ==
  TypeOK /\ PlacedInv /\ BatchInv /\ RecordInv /\ AnsweredTruthfully /\ [Next]_vars
    => AnsweredTruthfully'
<1> SUFFICES ASSUME TypeOK, PlacedInv, BatchInv, RecordInv, AnsweredTruthfully, [Next]_vars
             PROVE  AnsweredTruthfully'
  OBVIOUS
<1>a. calls' = calls
  BY CallsKept
<1>b. DOMAIN calls = 1..Count /\ Count \in Nat /\ done \in 0..Count
  BY Positions DEF TypeOK, StateOK
<1> USE <1>a, <1>b DEF AnsweredTruthfully, DistinctIds
<1>1. CASE LogCall \/ LogFails \/ Place \/ Gather \/ GatherReturns \/ Record \/ Cancel
  BY <1>1 DEF Last, LogCall, LogFails, Place, Gather, GatherReturns, Record, Cancel
<1>2. CASE EndBatches
  BY <1>2 DEF EndBatches, PlacedInv
<1>3. CASE AnswerCall
  <2> DEFINE k == done + 1
  <2>1. k \in DOMAIN calls
    BY <1>3 DEF Last, AnswerCall, TypeOK, StateOK, Ended
  <2>2. state[k] = "settled" /\ batchOf[k] > 0 /\ InSoFar(k)
    <3> HIDE DEF k
    <3>1. phase = "answer" /\ batchOf[k] \in Nat /\ current \in Nat
      BY <2>1, <1>3 DEF Last, AnswerCall, TypeOK, StateOK
    <3>2. batchOf[k] > 0 /\ batchOf[k] <= current
      BY <2>1, <3>1 DEF PlacedInv, RecordInv
    <3>3. CASE batchOf[k] = current
      BY <2>1, <3>1, <3>2, <3>3 DEF BatchInv, BatchSettled, InSoFar
    <3>4. CASE batchOf[k] < current
      BY <2>1, <3>1, <3>2, <3>4 DEF BatchInv, InSoFar
    <3> QED BY <3>1, <3>2, <3>3, <3>4
  <2>3. outcome[k] # Pending /\ (DistinctIds => byId[calls[k].id] = outcome[k])
    BY <2>1, <2>2 DEF RecordInv
  <2>4. /\ answer' = [answer EXCEPT ![k] = byId[calls[k].id]] /\ done' = k
        /\ outcome' = outcome /\ phase = "answer"
    BY <1>3 DEF Last, AnswerCall
  <2>5. answer \in [DOMAIN calls -> Outcomes \cup {Pending}]
    BY DEF TypeOK, StateOK
  <2>6. ASSUME DistinctIds, NEW i \in DOMAIN calls, i <= done'
        PROVE  answer'[i] = outcome'[i] /\ answer'[i] # Pending
    BY <2>1, <2>3, <2>4, <2>5, <2>6
  <2> QED BY <2>6
<1>4. ASSUME NEW i \in DOMAIN calls, CallStep(i) PROVE AnsweredTruthfully'
  <2>1. state[i] \in Busy /\ (phase' = phase \/ phase' = "raised")
    BY <1>4, CallMoves
  <2>2. phase \notin {"answer", "done"}
    BY <2>1 DEF BatchInv, BatchSettled, Busy
  <2> QED BY <2>1, <2>2
<1>5. CASE UNCHANGED vars
  BY <1>5 DEF vars
<1> QED
  BY <1>1, <1>2, <1>3, <1>4, <1>5 DEF Next, Dispatch

-----------------------------------------------------------------------------
(* The theorems *)

\* The inductive invariant.
THEOREM Invariance == Spec => []IInv
<1>1. Init => TypeOK
  BY RequestsAssumption
  DEF RequestsAssumption, Init, TypeOK, StateOK, Count, Ended, Phases, States, Pending
<1>2. Init => IInv
  <2> SUFFICES ASSUME Init PROVE IInv
    OBVIOUS
  <2>1. PlacedInv /\ BatchInv
    BY DEF Init, PlacedInv, BatchInv, Busy
  <2>2. Apart /\ NoGap /\ WritesLater
    BY Positions, <1>1 DEF Init, Apart, NoGap, WritesLater
  <2>3. RecordInv /\ AnsweredTruthfully
    BY DEF Init, RecordInv, InSoFar, AnsweredTruthfully
  <2> QED BY <1>1, <2>1, <2>2, <2>3 DEF IInv
<1>3. IInv /\ [Next]_vars => IInv'
  BY TypeStep, PlacedStep, ApartStep, NoGapStep, WritesLaterStep, BatchStep, RecordStep,
     AnswerStep DEF IInv
<1> QED BY <1>2, <1>3, PTL DEF Spec

\* Two tools never run together on a resource that one of them writes, if
\* resources have one spelling each, however many calls a response holds.
THEOREM NoOverlap == OneSpelling => (Spec => []NoConflictingOverlap)
<1> SUFFICES ASSUME OneSpelling PROVE Spec => []NoConflictingOverlap
  OBVIOUS
<1>1. IInv => NoConflictingOverlap
  <2> SUFFICES ASSUME IInv, NEW i \in DOMAIN calls, NEW j \in DOMAIN calls, i # j,
                      state[i] = "running", state[j] = "running",
                      FileOf[calls[i].key] = FileOf[calls[j].key]
               PROVE  calls[i].readOnly /\ calls[j].readOnly
    BY DEF NoConflictingOverlap
  <2>1. calls[i].key \in Keys /\ calls[j].key \in Keys
    <3>1. calls[i] \in Call /\ calls[j] \in Call
      BY DEF IInv, TypeOK
    <3> QED BY <3>1 DEF Call
  <2>2. calls[i].key = calls[j].key
    BY <2>1 DEF OneSpelling
  <2>3. ~Conflicts(i, j)
    BY DEF IInv, BatchInv, Busy, Apart
  <2> QED BY <2>2, <2>3 DEF Conflicts
<1> QED BY <1>1, Invariance, PTL

\* A write starts only after every earlier call with its key has settled.
THEOREM WritesKeepOrder == Spec => []WritesInOrder
<1>1. IInv => WritesInOrder
  <2> SUFFICES ASSUME IInv, NEW i \in DOMAIN calls, NEW j \in DOMAIN calls, i < j,
                      calls[i].key = calls[j].key, ~calls[j].readOnly,
                      state[j] \notin {"waiting", "cancelled"}
               PROVE  state[i] = "settled"
    BY DEF WritesInOrder
  <2>1. /\ current \in Nat /\ batchOf[i] \in Nat /\ batchOf[j] \in Nat
        /\ state[j] \in States
    BY Positions DEF IInv, TypeOK, StateOK
  <2>2. 0 < batchOf[j] /\ batchOf[j] <= current
    BY <2>1 DEF IInv, BatchInv, Busy, States
  <2>3. 0 < batchOf[i] /\ batchOf[i] < batchOf[j]
    BY <2>2 DEF IInv, WritesLater
  <2> QED BY <2>1, <2>2, <2>3 DEF IInv, BatchInv
<1> QED BY <1>1, Invariance, PTL

\* Together: conflicting calls run one after the other.
THEOREM ConflictsKeptApart == OneSpelling => (Spec => []ConflictLaw)
<1> SUFFICES ASSUME OneSpelling PROVE Spec => []ConflictLaw
  OBVIOUS
<1>1. NoConflictingOverlap /\ WritesInOrder => ConflictLaw
  BY DEF ConflictLaw
<1> QED BY <1>1, NoOverlap, WritesKeepOrder, PTL

\* The logged result of a call is its own outcome, if ids are distinct.
THEOREM ResultsAreTrue == Spec => []AnsweredTruthfully
<1>1. IInv => AnsweredTruthfully
  BY DEF IInv
<1> QED BY <1>1, Invariance, PTL

=============================================================================
