--------------------------- MODULE ServicesProofs ---------------------------
(***************************************************************************)
(* For every value of the constants: undoing is the inverse of writing, and *)
(* takes an operation and all of it; what runs on the host was granted;     *)
(* runs get a model that works, and are refused one for cause only; calls   *)
(* are dispatched whole; the memory's index agrees with its files, the      *)
(* filter loses no key and the tree is navigated soundly; what file tools   *)
(* show and edit is what was read; and streams, tables and terminals keep   *)
(* what a run tells.                                                        *)
(***************************************************************************)
EXTENDS MCServices, StoresProofs

\* The calls that opened the operation they are in.
Outer == {f \in DOMAIN writing : writing[f].outer}

\* The operation that is open has one call that will close it; the counter
\* never goes back to the number that stands for none.
Opened ==
  /\ operations \in Nat /\ current \in Nat
  /\ current = 0 => Outer = {}
  /\ current # 0 => \E f \in DOMAIN writing : Outer = {f}

LEMMA OpenedInit == Init => Opened
  BY DEF Init, Opened, Outer

\* A call that ends closes the operation if it opened it.
LEMMA OpenedLeave ==
  ASSUME Opened, NEW f \in DOMAIN writing, LeaveOperation(f), Leave(f),
         operations' \in Nat
  PROVE  Opened'
<1>1. DOMAIN writing' = DOMAIN writing \ {f}
  BY DEF Leave
<1>2. Outer' = Outer \ {f}
  BY <1>1 DEF Leave, Outer
<1>3. CASE writing[f].outer
  <2>1. f \in Outer
    BY <1>3 DEF Outer
  <2>2. Outer = {f}
    BY <2>1 DEF Opened
  <2>3. current' = 0
    BY <1>3 DEF LeaveOperation
  <2>. QED
    BY <1>2, <2>2, <2>3 DEF Opened
<1>4. CASE ~writing[f].outer
  <2>1. f \notin Outer
    BY <1>4 DEF Outer
  <2>2. Outer' = Outer /\ current' = current
    BY <1>2, <1>4, <2>1 DEF LeaveOperation
  <2>3. ASSUME NEW g \in DOMAIN writing, Outer = {g}
        PROVE  g \in DOMAIN writing' /\ Outer' = {g}
    BY <1>1, <2>1, <2>2, <2>3
  <2>. QED
    BY <2>2, <2>3 DEF Opened
<1>. QED
  BY <1>3, <1>4

LEMMA OpenedNext == Opened /\ [Next]_vars => Opened'
<1>. SUFFICES ASSUME Opened, [Next]_vars PROVE Opened'
  OBVIOUS
<1>1. ASSUME NEW f \in Files, BeginWrite(f) PROVE Opened'
  <2>1. /\ f \notin DOMAIN writing
        /\ DOMAIN writing' = DOMAIN writing \cup {f}
        /\ \A g \in DOMAIN writing : writing'[g] = writing[g]
        /\ writing'[f].outer = (current = 0)
    BY <1>1 DEF BeginWrite
  <2>2. CASE current = 0
    <3>1. operations' = operations + 1 /\ current' = operations'
      BY <1>1, <2>2 DEF BeginWrite
    <3>2. operations' \in Nat /\ current' \in Nat /\ current' # 0
      BY <3>1 DEF Opened
    <3>3. Outer = {}
      BY <2>2 DEF Opened
    <3>4. Outer' = {f}
      BY <2>1, <2>2, <3>3 DEF Outer
    <3>. QED
      BY <2>1, <3>2, <3>4 DEF Opened
  <2>3. CASE current # 0
    <3>1. operations' = operations /\ current' = current
      BY <1>1, <2>3 DEF BeginWrite, Opened
    <3>2. Outer' = Outer
      BY <2>1, <2>3 DEF Outer
    <3>. QED
      BY <2>1, <2>3, <3>1, <3>2 DEF Opened
  <2>. QED
    BY <2>2, <2>3
<1>2. ASSUME NEW f \in DOMAIN writing, EndWrite(f) PROVE Opened'
  <2>1. operations' \in Nat /\ LeaveOperation(f) /\ Leave(f)
    BY <1>2 DEF EndWrite, Opened
  <2>. QED
    BY <2>1, OpenedLeave
<1>3. ASSUME NEW f \in DOMAIN writing, WriteFails(f) PROVE Opened'
  <2>1. operations' \in Nat /\ LeaveOperation(f) /\ Leave(f)
    BY <1>3 DEF WriteFails, Opened
  <2>. QED
    BY <2>1, OpenedLeave
<1>4. CASE BeginUndo \/ Restore \/ UndoFails
  <2>1. UNCHANGED <<operations, current, writing>>
    BY <1>4 DEF BeginUndo, Restore, UndoFails
  <2>. QED
    BY <2>1 DEF Opened, Outer
<1>5. CASE UNCHANGED vars
  BY <1>5 DEF vars, Opened, Outer
<1>. QED
  BY <1>1, <1>2, <1>3, <1>4, <1>5 DEF Next

\* An operation is open only while a call is in it (CheckpointStore.operation
\* resets _current_operation on every way out).
THEOREM Closes == Spec => []OperationCloses
<1>1. Opened => OperationCloses
  BY DEF Opened, OperationCloses
<1>. QED
  BY <1>1, OpenedInit, OpenedNext, PTL DEF Spec

-----------------------------------------------------------------------------
(* Numbers, sequences and the operators of the model *)

\* What goes is a number of whole operations.
LEMMA ExcessEnds ==
  ASSUME NEW s \in Seq(Checkpoint)
  PROVE  Excess(s) \in 0..Len(s) /\ OperationEnds(s, Excess(s))
<1>. DEFINE S == {k \in 0..Len(s) : /\ OperationEnds(s, k)
                                    /\ k = Len(s) \/ ~OverLimits(SubSeq(s, k + 1, Len(s)))}
<1>1. Len(s) \in S
  BY DEF OperationEnds
<1>2. S \subseteq Nat
  OBVIOUS
<1>3. Min(S) \in S
  BY <1>1, <1>2, MinOf
<1>. QED
  BY <1>3 DEF Excess

\* The part of a sequence from one place on.
LEMMA Suffix ==
  ASSUME NEW S, NEW s \in Seq(S), NEW e \in 0..Len(s)
  PROVE  /\ SubSeq(s, e + 1, Len(s)) \in Seq(S)
         /\ Len(SubSeq(s, e + 1, Len(s))) = Len(s) - e
         /\ \A i \in 1..(Len(s) - e) : SubSeq(s, e + 1, Len(s))[i] = s[e + i]
  OBVIOUS

\* The part of a sequence up to one place.
LEMMA Prefix ==
  ASSUME NEW S, NEW s \in Seq(S), NEW e \in 0..Len(s)
  PROVE  /\ SubSeq(s, 1, e) \in Seq(S)
         /\ Len(SubSeq(s, 1, e)) = e
         /\ \A i \in 1..e : SubSeq(s, 1, e)[i] = s[i]
  OBVIOUS

\* A sequence that is turned round.
LEMMA Turned ==
  ASSUME NEW S, NEW s \in Seq(S)
  PROVE  /\ Reverse(s) \in Seq(S)
         /\ Len(Reverse(s)) = Len(s)
         /\ \A i \in 1..Len(s) : Reverse(s)[i] = s[Len(s) - i + 1]
<1>1. \A i \in 1..Len(s) : Len(s) - i + 1 \in 1..Len(s)
  OBVIOUS
<1>2. Reverse(s) = [i \in 1..Len(s) |-> s[Len(s) - i + 1]]
  BY DEF Reverse
<1>3. \A i \in 1..Len(s) : s[Len(s) - i + 1] \in S
  BY <1>1
<1>4. Reverse(s) \in [1..Len(s) -> S]
  BY <1>2, <1>3
<1>. QED
  BY <1>2, <1>4

\* Latest is the end of the stack from some place on.
LEMMA LatestEnd ==
  ASSUME stack \in Seq(Checkpoint), stack # <<>>
  PROVE  LET k == Len(stack) - Cardinality(Latest) IN
         /\ k \in 0..(Len(stack) - 1)
         /\ Latest = (k + 1)..Len(stack)
<1>1. Len(stack) \in Latest
  BY DEF Latest, Last
<1>2. Latest \subseteq Nat /\ Latest \subseteq 1..Len(stack)
  BY DEF Latest
<1>. DEFINE m == Min(Latest)
<1>3. m \in Latest /\ \A i \in Latest : m <= i
  BY <1>1, <1>2, MinOf
<1>4. \A i \in m..Len(stack) : i \in Latest
  BY <1>2, <1>3 DEF Latest
<1>. HIDE DEF m
<1>5. Latest = m..Len(stack) /\ m \in 1..Len(stack)
  <2>1. m \in 1..Len(stack)
    BY <1>2, <1>3
  <2>2. \A i \in Latest : i \in m..Len(stack)
    BY <1>2, <1>3, <2>1
  <2>. QED
    BY <1>4, <2>1, <2>2
<1>6. Cardinality(Latest) = Len(stack) - m + 1
  BY <1>5, FS_Interval
<1>. QED
  BY <1>5, <1>6

-----------------------------------------------------------------------------
(* Types, and the numbers of the operations *)

\* The open operation is the latest; the operations of the stack ascend.
Ascending ==
  /\ current # 0 => current = operations
  /\ \A i \in DOMAIN stack : stack[i].op <= operations
  /\ \A i, j \in DOMAIN stack : i < j => stack[i].op <= stack[j].op

\* The checkpoint of a write that leaves content, and the stack with it.
Taken(f, content) ==
  [op |-> IF current # 0 THEN current ELSE operations + 1, file |-> f,
   saved |-> writing[f].base, wrote |-> content]
Pushed(f, content) == Append(stack, Taken(f, content))

\* A write that ends pushes its checkpoint in the latest operation, or in a new
\* one, and some whole operations at the bottom go.
Pushes(f, content, e) ==
  LET s == Pushed(f, content) IN
  /\ content \in Contents /\ e \in 0..Len(s) /\ OperationEnds(s, e)
  /\ disk' = [disk EXCEPT ![f] = content]
  /\ stack' = SubSeq(s, e + 1, Len(s))
  /\ evicted' = evicted + Cardinality({k \in 1..e : OperationEnds(s, k)})
  /\ dropped' = dropped \cup {s[k].op : k \in 1..e}
  /\ operations' = IF current # 0 THEN operations ELSE operations + 1

LEMMA OpType ==
  ASSUME NEW s \in Seq(Checkpoint)
  PROVE  \A i \in 1..Len(s) : s[i] \in Checkpoint /\ s[i].op \in Nat \ {0}
<1>1. \A i \in 1..Len(s) : s[i] \in Checkpoint
  OBVIOUS
<1>. QED
  BY <1>1 DEF Checkpoint

LEMMA TakenType ==
  ASSUME TypeOK, Ascending, NEW f \in DOMAIN writing, NEW content \in Contents
  PROVE  /\ Taken(f, content) \in Checkpoint
         /\ Pushed(f, content) \in Seq(Checkpoint)
         /\ Len(Pushed(f, content)) = Len(stack) + 1
         /\ \A i \in 1..Len(stack) : Pushed(f, content)[i] = stack[i]
         /\ Pushed(f, content)[Len(stack) + 1] = Taken(f, content)
<1>1. f \in Files /\ writing[f].base \in Contents
  BY DEF TypeOK
<1>2. current \in Nat /\ operations \in Nat /\ stack \in Seq(Checkpoint)
  BY DEF TypeOK
<1>3. (IF current # 0 THEN current ELSE operations + 1) \in Nat \ {0}
  BY <1>2
<1>4. Taken(f, content) \in Checkpoint
  BY <1>1, <1>3 DEF Taken, Checkpoint
<1>. QED
  BY <1>2, <1>4 DEF Pushed

LEMMA EndPushes ==
  ASSUME TypeOK, Ascending, NEW f \in DOMAIN writing, EndWrite(f)
  PROVE  \E content \in {writing[f].content, disk[f]}, e \in Nat : Pushes(f, content, e)
<1>1. PICK content \in {writing[f].content, disk[f]} :
        /\ Evict(Pushed(f, content))
        /\ disk' = [disk EXCEPT ![f] = content]
  BY DEF EndWrite, Pushed, Taken, Saved
<1>2. content \in Contents
  <2>1. /\ f \in Files /\ disk \in [Files -> Contents] /\ writes \in 0..MaxWrites
        /\ writing[f].content \in 1..writes
    BY DEF TypeOK
  <2>2. writing[f].content \in Contents
    BY <2>1, CheckpointsAssumption DEF Contents, Absent
  <2>. QED
    BY <2>1, <2>2
<1>3. Pushed(f, content) \in Seq(Checkpoint)
  BY <1>2, TakenType
<1>. DEFINE e == Excess(Pushed(f, content))
<1>4. e \in 0..Len(Pushed(f, content)) /\ OperationEnds(Pushed(f, content), e)
  BY <1>3, ExcessEnds
<1>5. operations' = IF current # 0 THEN operations ELSE operations + 1
  BY DEF EndWrite
<1>6. /\ stack' = SubSeq(Pushed(f, content), e + 1, Len(Pushed(f, content)))
      /\ evicted' = evicted + Cardinality({k \in 1..e : OperationEnds(Pushed(f, content), k)})
      /\ dropped' = dropped \cup {Pushed(f, content)[k].op : k \in 1..e}
  BY <1>1 DEF Evict
<1>7. e \in Nat
  BY <1>3, <1>4
<1>. HIDE DEF e
<1>8. Pushes(f, content, e)
  BY <1>1, <1>2, <1>4, <1>5, <1>6 DEF Pushes
<1>. QED
  BY <1>7, <1>8

\* The operations of the stack that a write pushes on ascend up to the latest.
LEMMA PushedAscends ==
  ASSUME TypeOK, Ascending, NEW f \in DOMAIN writing, NEW content, NEW e \in Nat,
         Pushes(f, content, e)
  PROVE  LET s == Pushed(f, content) IN
         /\ operations' \in Nat /\ operations <= operations'
         /\ \A i \in 1..Len(s) : s[i].op \in 1..operations'
         /\ \A i, j \in 1..Len(s) : i < j => s[i].op <= s[j].op
<1>. DEFINE s == Pushed(f, content)
<1>1. content \in Contents /\ operations' = IF current # 0 THEN operations ELSE operations + 1
  BY DEF Pushes
<1>2. /\ current \in 0..operations /\ operations \in Nat /\ stack \in Seq(Checkpoint)
      /\ s \in Seq(Checkpoint) /\ Len(s) = Len(stack) + 1
      /\ \A i \in 1..Len(stack) : s[i] = stack[i]
      /\ s[Len(stack) + 1] = Taken(f, content)
  BY <1>1, TakenType DEF TypeOK
<1>. HIDE DEF s
<1>3. s[Len(stack) + 1].op = operations' /\ operations' \in Nat \ {0} /\ operations <= operations'
  <2>1. s[Len(stack) + 1].op = IF current # 0 THEN current ELSE operations + 1
    BY <1>2 DEF Taken
  <2>. QED
    BY <1>1, <1>2, <2>1 DEF Ascending
<1>4. \A i \in 1..Len(stack) : s[i].op \in 1..operations
  <2>1. \A i \in 1..Len(stack) : stack[i].op \in Nat \ {0} /\ stack[i].op <= operations
    <3>1. \A i \in 1..Len(stack) : stack[i].op \in Nat \ {0}
      BY <1>2, OpType
    <3>. QED
      BY <1>2, <3>1 DEF Ascending
  <2>. QED
    BY <1>2, <2>1
<1>5. \A i \in 1..Len(s) : s[i].op \in 1..operations'
  <2>1. \A i \in 1..Len(s) : i \in 1..Len(stack) \/ i = Len(stack) + 1
    BY <1>2
  <2>. QED
    BY <1>2, <1>3, <1>4, <2>1
<1>6. ASSUME NEW i \in 1..Len(s), NEW j \in 1..Len(s), i < j PROVE s[i].op <= s[j].op
  <2>1. CASE j = Len(stack) + 1
    <3>1. s[j].op = operations' /\ s[i].op \in 1..operations'
      BY <1>3, <1>5, <2>1
    <3>. QED
      BY <1>3, <3>1
  <2>2. CASE j # Len(stack) + 1
    <3>1. i \in 1..Len(stack) /\ j \in 1..Len(stack)
      BY <1>2, <1>6, <2>2
    <3>2. s[i] = stack[i] /\ s[j] = stack[j] /\ DOMAIN stack = 1..Len(stack)
      BY <1>2, <3>1
    <3>3. stack[i].op <= stack[j].op
      BY <1>6, <3>1, <3>2 DEF Ascending
    <3>. QED
      BY <3>2, <3>3
  <2>. QED
    BY <2>1, <2>2
<1>. QED
  BY <1>3, <1>5, <1>6 DEF s

LEMMA TypedInit == Init => TypeOK /\ Ascending
<1>. SUFFICES ASSUME Init PROVE TypeOK /\ Ascending
  OBVIOUS
<1>1. disk \in [Files -> Contents]
  BY CheckpointsAssumption DEF Init, Contents, Absent
<1>2. stack \in Seq(Checkpoint) /\ undoing \in Seq(Checkpoint) /\ DOMAIN stack = {}
  BY DEF Init
<1>3. operations = 0 /\ current = 0 /\ evicted = 0 /\ writes = 0
  BY DEF Init
<1>4. DOMAIN writing = {} /\ used = {} /\ lost = {} /\ dropped = {}
  BY DEF Init
<1>5. writes \in 0..MaxWrites
  BY <1>3, CheckpointsAssumption
<1>6. TypeOK
  BY <1>1, <1>2, <1>3, <1>4, <1>5 DEF TypeOK
<1>. QED
  BY <1>2, <1>3, <1>6 DEF Ascending

LEMMA TypedNext == TypeOK /\ Ascending /\ [Next]_vars => TypeOK' /\ Ascending'
<1>. SUFFICES ASSUME TypeOK, Ascending, [Next]_vars PROVE TypeOK' /\ Ascending'
  OBVIOUS
<1>0. /\ disk \in [Files -> Contents]
      /\ stack \in Seq(Checkpoint) /\ undoing \in Seq(Checkpoint)
      /\ operations \in Nat /\ current \in 0..operations /\ evicted \in Nat
      /\ DOMAIN writing \subseteq used /\ used \subseteq Files
      /\ \A f \in DOMAIN writing :
           writing[f] \in [base : Contents, outer : BOOLEAN, content : 1..writes]
      /\ writes \in 0..MaxWrites
      /\ lost \subseteq Files /\ dropped \subseteq 1..operations
      /\ Batch \subseteq Files /\ DOMAIN writing \subseteq Batch
  BY DEF TypeOK, Batch, Idle
<1>1. ASSUME NEW f \in Files, BeginWrite(f) PROVE TypeOK' /\ Ascending'
  <2>1. /\ UNCHANGED <<disk, stack, evicted, undoing, dropped>>
        /\ writes' = writes + 1 /\ writes < MaxWrites
        /\ used' = Batch \cup {f}
        /\ lost' \subseteq lost \cup {f}
        /\ DOMAIN writing' = DOMAIN writing \cup {f}
        /\ operations' = operations + (IF current = 0 THEN 1 ELSE 0)
        /\ current' = IF current = 0 THEN operations' ELSE current
    BY <1>1 DEF BeginWrite
  <2>2. operations' \in Nat /\ operations <= operations' /\ current' \in 0..operations'
    BY <1>0, <2>1
  <2>3. writes' \in 1..MaxWrites
    BY <1>0, <2>1, CheckpointsAssumption
  <2>4. ASSUME NEW g \in DOMAIN writing'
        PROVE  writing'[g] \in [base : Contents, outer : BOOLEAN, content : 1..writes']
    <3>1. CASE g = f
      <4>1. writing'[g] = [base |-> disk[f], outer |-> (current = 0), content |-> writes']
        BY <1>1, <3>1 DEF BeginWrite
      <4>. QED
        BY <1>0, <2>3, <4>1
    <3>2. CASE g # f
      <4>1. g \in DOMAIN writing /\ writing'[g] = writing[g]
        BY <1>1, <2>1, <3>2 DEF BeginWrite
      <4>2. 1..writes \subseteq 1..writes'
        BY <1>0, <2>1
      <4>. QED
        BY <1>0, <4>1, <4>2
    <3>. QED
      BY <3>1, <3>2
  <2>5. dropped' \subseteq 1..operations'
    BY <1>0, <2>1, <2>2
  <2>6. TypeOK'
    BY <1>0, <2>1, <2>2, <2>3, <2>4, <2>5 DEF TypeOK
  <2>7. \A i \in DOMAIN stack : stack[i].op <= operations'
    <3>1. \A i \in DOMAIN stack : stack[i].op \in Nat \ {0}
      BY <1>0, OpType
    <3>. QED
      BY <1>0, <2>2, <3>1 DEF Ascending
  <2>8. current' # 0 => current' = operations'
    BY <1>0, <2>1 DEF Ascending
  <2>. QED
    BY <2>1, <2>6, <2>7, <2>8 DEF Ascending
<1>2. ASSUME NEW f \in DOMAIN writing, EndWrite(f) PROVE TypeOK' /\ Ascending'
  <2>1. PICK content \in {writing[f].content, disk[f]}, e \in Nat : Pushes(f, content, e)
    BY <1>2, EndPushes
  <2>. DEFINE s == Pushed(f, content)
  <2>2. /\ content \in Contents /\ e \in 0..Len(s)
        /\ disk' = [disk EXCEPT ![f] = content]
        /\ stack' = SubSeq(s, e + 1, Len(s))
        /\ evicted' = evicted + Cardinality({k \in 1..e : OperationEnds(s, k)})
        /\ dropped' = dropped \cup {s[k].op : k \in 1..e}
        /\ operations' = IF current # 0 THEN operations ELSE operations + 1
    BY <2>1 DEF Pushes
  <2>3. s \in Seq(Checkpoint)
    BY <2>2, TakenType
  <2>4. /\ operations' \in Nat /\ operations <= operations'
        /\ \A i \in 1..Len(s) : s[i].op \in 1..operations'
        /\ \A i, j \in 1..Len(s) : i < j => s[i].op <= s[j].op
    BY <2>1, PushedAscends
  <2>5. /\ stack' \in Seq(Checkpoint) /\ Len(stack') = Len(s) - e
        /\ \A i \in 1..(Len(s) - e) : stack'[i] = s[e + i]
    BY <2>2, <2>3, Suffix
  <2>6. evicted' \in Nat
    <3>1. IsFiniteSet({k \in 1..e : OperationEnds(s, k)})
      <4>1. IsFiniteSet(1..e)
        BY FS_Interval
      <4>. QED
        BY <4>1, FS_Subset
    <3>2. Cardinality({k \in 1..e : OperationEnds(s, k)}) \in Nat
      BY <3>1, FS_CardinalityType
    <3>. QED
      BY <1>0, <2>2, <3>2
  <2>7. current' \in {0, current}
    BY <1>2 DEF EndWrite, LeaveOperation
  <2>8. DOMAIN writing' = DOMAIN writing \ {f} /\ \A g \in DOMAIN writing' : writing'[g] = writing[g]
    BY <1>2 DEF EndWrite, Leave
  <2>9. UNCHANGED <<undoing, used, writes, lost>>
    BY <1>2 DEF EndWrite
  <2>10. dropped' \subseteq 1..operations'
    <3>1. \A k \in 1..e : k \in 1..Len(s)
      BY <2>2
    <3>2. dropped \subseteq 1..operations'
      BY <1>0, <2>4
    <3>. QED
      BY <2>2, <2>4, <3>1, <3>2
  <2>11. current' \in 0..operations' /\ (current' # 0 => current' = operations')
    <3>1. current # 0 => operations' = current
      BY <2>2 DEF Ascending
    <3>. QED
      BY <1>0, <2>4, <2>7, <3>1
  <2>12. disk' \in [Files -> Contents]
    BY <1>0, <2>2
  <2>13. TypeOK'
    BY <1>0, <2>4, <2>5, <2>6, <2>8, <2>9, <2>10, <2>11, <2>12 DEF TypeOK
  <2>14. \A i \in DOMAIN stack' : e + i \in 1..Len(s) /\ stack'[i] = s[e + i]
    BY <2>2, <2>3, <2>5
  <2>. HIDE DEF s
  <2>15. \A i \in DOMAIN stack' : stack'[i].op <= operations'
    BY <2>4, <2>14
  <2>16. \A i, j \in DOMAIN stack' : i < j => e + i < e + j
    BY <2>5
  <2>17. \A i, j \in DOMAIN stack' : i < j => stack'[i].op <= stack'[j].op
    BY <2>4, <2>14, <2>16
  <2>. QED
    BY <2>11, <2>13, <2>15, <2>17 DEF Ascending
<1>3. ASSUME NEW f \in DOMAIN writing, WriteFails(f) PROVE TypeOK' /\ Ascending'
  <2>1. /\ current' \in {0, current}
        /\ DOMAIN writing' = DOMAIN writing \ {f}
        /\ \A g \in DOMAIN writing' : writing'[g] = writing[g]
        /\ UNCHANGED <<disk, stack, operations, evicted, undoing, used, writes, lost, dropped>>
    BY <1>3 DEF WriteFails, LeaveOperation, Leave
  <2>2. TypeOK'
    BY <1>0, <2>1 DEF TypeOK
  <2>. QED
    BY <2>1, <2>2 DEF Ascending
<1>4. ASSUME BeginUndo PROVE TypeOK' /\ Ascending'
  <2>. DEFINE k == Len(stack) - Cardinality(Latest)
  <2>1. /\ stack # <<>>
        /\ stack' = SubSeq(stack, 1, k)
        /\ undoing' = Reverse(SubSeq(stack, k + 1, Len(stack)))
        /\ used' = Batch
        /\ lost' \subseteq lost \cup DOMAIN writing
        /\ UNCHANGED <<disk, operations, current, evicted, writing, writes, dropped>>
    BY <1>4 DEF BeginUndo
  <2>2. k \in 0..Len(stack)
    BY <1>0, <2>1, LatestEnd
  <2>. HIDE DEF k
  <2>3. /\ stack' \in Seq(Checkpoint) /\ Len(stack') = k
        /\ \A i \in 1..k : stack'[i] = stack[i]
    BY <1>0, <2>1, <2>2, Prefix
  <2>4. undoing' \in Seq(Checkpoint)
    BY <1>0, <2>1, <2>2, Suffix, Turned
  <2>5. TypeOK'
    BY <1>0, <2>1, <2>3, <2>4 DEF TypeOK
  <2>6. \A i \in DOMAIN stack' : i \in DOMAIN stack /\ stack'[i] = stack[i]
    BY <1>0, <2>2, <2>3
  <2>. QED
    BY <2>1, <2>5, <2>6 DEF Ascending
<1>5. ASSUME Restore PROVE TypeOK' /\ Ascending'
  <2>1. /\ undoing # <<>> /\ undoing' = Tail(undoing)
        /\ disk' = [disk EXCEPT ![Head(undoing).file] = Head(undoing).saved]
        /\ UNCHANGED <<stack, operations, current, evicted, writing, used, writes, lost, dropped>>
    BY <1>5 DEF Restore
  <2>2. Head(undoing) \in Checkpoint /\ undoing' \in Seq(Checkpoint)
    BY <1>0, <2>1
  <2>3. disk' \in [Files -> Contents]
    BY <1>0, <2>1, <2>2 DEF Checkpoint
  <2>4. TypeOK'
    BY <1>0, <2>1, <2>2, <2>3 DEF TypeOK
  <2>. QED
    BY <2>1, <2>4 DEF Ascending
<1>6. ASSUME UndoFails PROVE TypeOK' /\ Ascending'
  <2>1. /\ undoing' = <<>> /\ lost' = lost \cup {c.file : c \in ToSet(undoing)}
        /\ UNCHANGED <<disk, stack, operations, current, evicted, writing, used, writes, dropped>>
    BY <1>6 DEF UndoFails
  <2>2. ToSet(undoing) \subseteq Checkpoint
    BY <1>0 DEF ToSet
  <2>3. lost' \subseteq Files
    BY <1>0, <2>1, <2>2 DEF Checkpoint
  <2>4. TypeOK'
    BY <1>0, <2>1, <2>3 DEF TypeOK
  <2>. QED
    BY <2>1, <2>4 DEF Ascending
<1>7. CASE UNCHANGED vars
  BY <1>7 DEF vars, TypeOK, Ascending
<1>. QED
  BY <1>1, <1>2, <1>3, <1>4, <1>5, <1>6, <1>7 DEF Next

\* The variables stay in their ranges for any files and limits.
THEOREM CheckpointsTyped == Spec => []TypeOK
<1>. QED
  BY TypedInit, TypedNext, PTL DEF Spec

-----------------------------------------------------------------------------
(* Whole operations *)

\* Eviction has not reached the open operation.  A batch whose own checkpoints
\* are beyond a limit breaks this: _evict takes the operation at the bottom of
\* the stack, and nothing keeps that from being the one that is open.
OpenKept == current # 0 => current \notin dropped

\* Of whole operations there are as many as places where one ends.
LEMMA CountedOnce ==
  ASSUME NEW s \in Seq(Checkpoint), NEW e \in 0..Len(s), OperationEnds(s, e),
         \A i, j \in 1..Len(s) : i < j => s[i].op <= s[j].op
  PROVE  /\ IsFiniteSet({s[k].op : k \in 1..e})
         /\ Cardinality({k \in 1..e : OperationEnds(s, k)}) = Cardinality({s[k].op : k \in 1..e})
<1>. DEFINE K == {k \in 1..e : OperationEnds(s, k)}
            D == {s[k].op : k \in 1..e}
            b == [k \in K |-> s[k].op]
<1>0. \A k \in 1..e : k \in 1..Len(s) /\ s[k].op \in Nat
  BY OpType
<1>1. b \in [K -> D]
  OBVIOUS
<1>2. ASSUME NEW k \in K, NEW m \in K, k < m PROVE b[k] # b[m]
  <2>1. k # Len(s) /\ k # 0 /\ k + 1 \in 1..Len(s) /\ m \in 1..Len(s) /\ k \in 1..Len(s)
    BY <1>2
  <2>2. s[k].op # s[k + 1].op
    BY <2>1 DEF OperationEnds
  <2>3. s[k].op <= s[k + 1].op /\ s[k + 1].op <= s[m].op
    <3>1. k + 1 = m \/ k + 1 < m
      BY <1>2
    <3>2. s[m].op \in Nat
      BY <2>1, OpType
    <3>. QED
      BY <2>1, <3>1, <3>2
  <2>4. s[k].op \in Nat /\ s[k + 1].op \in Nat /\ s[m].op \in Nat
    BY <2>1, OpType
  <2>. QED
    BY <2>2, <2>3, <2>4
<1>3. \A k, m \in K : b[k] = b[m] => k = m
  <2>1. \A k, m \in K : k < m \/ m < k \/ k = m
    OBVIOUS
  <2>. QED
    BY <1>2, <2>1
<1>4. ASSUME NEW d \in D PROVE \E k \in K : b[k] = d
  <2>. DEFINE A == {k \in 1..e : s[k].op = d}
  <2>1. A # {} /\ A \subseteq 0..e /\ e \in Nat
    OBVIOUS
  <2>. HIDE DEF A
  <2>2. PICK m \in A : \A k \in A : k <= m
    BY <2>1, LastOf
  <2>. USE DEF A
  <2>3. m = e \/ (m + 1 \in 1..e /\ m + 1 \notin A)
    BY <2>2
  <2>4. OperationEnds(s, m)
    <3>1. CASE m = e
      BY <3>1
    <3>2. CASE m + 1 \in 1..e /\ m + 1 \notin A
      BY <3>2 DEF OperationEnds
    <3>. QED
      BY <2>3, <3>1, <3>2
  <2>5. m \in K /\ b[m] = d
    BY <2>4
  <2>. QED
    BY <2>5
<1>. HIDE DEF b, K, D
<1>5. b \in Bijection(K, D)
  BY <1>1, <1>3, <1>4 DEF Bijection, Injection, Surjection, IsInjective
<1>6. IsFiniteSet(K)
  <2>1. IsFiniteSet(1..e) /\ K \subseteq 1..e
    BY FS_Interval DEF K
  <2>. QED
    BY <2>1, FS_Subset
<1>7. IsFiniteSet(D) /\ Cardinality(K) = Cardinality(D)
  BY <1>5, <1>6, FS_Bijection DEF ExistsBijection
<1>. QED
  BY <1>7 DEF K, D

\* What the next write pushes is of no operation that was evicted.
LEMMA PushedFresh ==
  ASSUME TypeOK, Ascending, WholeOperations, OpenKept,
         NEW f \in DOMAIN writing, NEW content \in Contents
  PROVE  \A i \in 1..Len(Pushed(f, content)) : Pushed(f, content)[i].op \notin dropped
<1>. DEFINE s == Pushed(f, content)
<1>1. /\ stack \in Seq(Checkpoint) /\ current \in 0..operations /\ operations \in Nat
      /\ dropped \subseteq 1..operations
      /\ s \in Seq(Checkpoint) /\ Len(s) = Len(stack) + 1
      /\ \A i \in 1..Len(stack) : s[i] = stack[i]
      /\ s[Len(stack) + 1] = Taken(f, content)
  BY TakenType DEF TypeOK
<1>2. \A i \in 1..Len(stack) : s[i].op \notin dropped
  BY <1>1 DEF WholeOperations, ToSet
<1>3. s[Len(stack) + 1].op = IF current # 0 THEN current ELSE operations + 1
  BY <1>1 DEF Taken
<1>4. s[Len(stack) + 1].op \notin dropped
  BY <1>1, <1>3 DEF OpenKept
<1>5. \A i \in 1..Len(s) : i \in 1..Len(stack) \/ i = Len(stack) + 1
  BY <1>1
<1>. QED
  BY <1>2, <1>4, <1>5

LEMMA WholeNext ==
  TypeOK /\ Ascending /\ WholeOperations /\ OpenKept /\ [Next]_vars => WholeOperations'
<1>. SUFFICES ASSUME TypeOK, Ascending, WholeOperations, OpenKept, [Next]_vars
              PROVE  WholeOperations'
  OBVIOUS
<1>0. /\ stack \in Seq(Checkpoint) /\ dropped \subseteq 1..operations /\ operations \in Nat
      /\ \A i \in DOMAIN stack : stack[i].op \notin dropped
      /\ evicted = Cardinality(dropped)
  BY DEF TypeOK, WholeOperations, ToSet
<1>n. TypeOK' /\ Ascending'
  BY TypedNext
<1>1. ASSUME NEW f \in DOMAIN writing, EndWrite(f) PROVE WholeOperations'
  <2>1. PICK content \in {writing[f].content, disk[f]}, e \in Nat : Pushes(f, content, e)
    BY <1>1, EndPushes
  <2>. DEFINE s == Pushed(f, content)
              D == {s[k].op : k \in 1..e}
  <2>2. /\ content \in Contents /\ e \in 0..Len(s) /\ OperationEnds(s, e)
        /\ stack' = SubSeq(s, e + 1, Len(s))
        /\ evicted' = evicted + Cardinality({k \in 1..e : OperationEnds(s, k)})
        /\ dropped' = dropped \cup D
    BY <2>1 DEF Pushes
  <2>3. s \in Seq(Checkpoint)
    BY <2>2, TakenType
  <2>4. /\ \A i \in 1..Len(s) : s[i].op \notin dropped
        /\ \A i, j \in 1..Len(s) : i < j => s[i].op <= s[j].op
        /\ \A i \in 1..Len(s) : s[i].op \in Nat
    BY <2>1, <2>2, <2>3, PushedFresh, PushedAscends, OpType
  <2>5. /\ Len(stack') = Len(s) - e
        /\ \A i \in 1..(Len(s) - e) : stack'[i] = s[e + i]
        /\ Len(s) \in Nat /\ e \in Nat
    BY <2>2, <2>3, Suffix
  <2>6. IsFiniteSet(D) /\ Cardinality({k \in 1..e : OperationEnds(s, k)}) = Cardinality(D)
    BY <2>2, <2>3, <2>4, CountedOnce
  <2>7. IsFiniteSet(dropped) /\ Cardinality(dropped) \in Nat
    <3>1. IsFiniteSet(1..operations)
      BY <1>0, FS_Interval
    <3>. QED
      BY <1>0, <3>1, FS_Subset, FS_CardinalityType
  <2>8. dropped \cap D = {}
    BY <2>2, <2>3, <2>4
  <2>9. evicted' = Cardinality(dropped')
    <3>1. Cardinality(dropped \cup D) = Cardinality(dropped) + Cardinality(D) - Cardinality(dropped \cap D)
      BY <2>6, <2>7, FS_Union
    <3>2. Cardinality(dropped \cap D) = 0 /\ Cardinality(D) \in Nat
      BY <2>6, <2>8, FS_EmptySet, FS_CardinalityType
    <3>. QED
      BY <1>0, <2>2, <2>6, <2>7, <3>1, <3>2
  <2>. HIDE DEF s
  <2>10. ASSUME NEW i \in DOMAIN stack' PROVE stack'[i].op \notin dropped'
    <3>1. stack'[i] = s[e + i] /\ e + i \in 1..Len(s) /\ i \in Nat \ {0}
      <4>1. i \in 1..(Len(s) - e)
        BY <1>n, <2>5, SMTT(30) DEF TypeOK
      <4>. QED
        BY <2>2, <2>5, <4>1
    <3>2. ASSUME NEW k \in 1..e PROVE s[k].op # s[e + i].op
      <4>1. e # 0 /\ e # Len(s) /\ e \in 1..Len(s) /\ e + 1 \in 1..Len(s) /\ k \in 1..Len(s)
        <5>1. e + i <= Len(s) /\ 1 <= i /\ k \in Nat /\ 1 <= k /\ k <= e
          BY <2>5, <3>1
        <5>2. e < Len(s) /\ 1 <= e /\ k <= Len(s)
          BY <2>5, <3>1, <5>1
        <5>. QED
          BY <2>5, <5>1, <5>2
      <4>2. s[e].op # s[e + 1].op
        BY <2>2, <4>1 DEF OperationEnds
      <4>3. s[e].op < s[e + 1].op
        BY <2>4, <4>1, <4>2
      <4>4. s[k].op <= s[e].op
        <5>1. k = e \/ k < e
          OBVIOUS
        <5>. QED
          BY <2>4, <4>1, <5>1
      <4>5. s[e + 1].op <= s[e + i].op
        <5>1. i = 1 \/ e + 1 < e + i
          BY <3>1
        <5>. QED
          BY <2>4, <3>1, <4>1, <5>1
      <4>6. s[k].op \in Nat /\ s[e].op \in Nat /\ s[e + 1].op \in Nat /\ s[e + i].op \in Nat
        BY <2>4, <3>1, <4>1
      <4>. QED
        BY <4>3, <4>4, <4>5, <4>6
    <3>. QED
      BY <2>2, <2>4, <3>1, <3>2
  <2>11. \A i, j \in DOMAIN stack' : i < j => stack'[i].op <= stack'[j].op
    BY <1>n DEF Ascending
  <2>. QED
    BY <2>9, <2>10, <2>11 DEF WholeOperations, ToSet
<1>2. ASSUME BeginUndo PROVE WholeOperations'
  <2>. DEFINE k == Len(stack) - Cardinality(Latest)
  <2>1. stack # <<>> /\ stack' = SubSeq(stack, 1, k) /\ UNCHANGED <<evicted, dropped>>
    BY <1>2 DEF BeginUndo
  <2>2. k \in 0..Len(stack)
    BY <1>0, <2>1, LatestEnd
  <2>. HIDE DEF k
  <2>3. \A i \in DOMAIN stack' : i \in DOMAIN stack /\ stack'[i] = stack[i]
    BY <1>0, <2>1, <2>2, Prefix
  <2>4. \A i, j \in DOMAIN stack' : i < j => stack'[i].op <= stack'[j].op
    BY <1>n DEF Ascending
  <2>. QED
    BY <1>0, <2>1, <2>3, <2>4 DEF WholeOperations, ToSet
<1>3. CASE UNCHANGED <<stack, evicted, dropped>>
  BY <1>3 DEF WholeOperations
<1>4. ASSUME NEW f, BeginWrite(f) \/ WriteFails(f) \/ Restore \/ UndoFails \/ UNCHANGED vars
      PROVE  UNCHANGED <<stack, evicted, dropped>>
  BY <1>4 DEF BeginWrite, WriteFails, Restore, UndoFails, vars
<1>. QED
  BY <1>1, <1>2, <1>3, <1>4 DEF Next

LEMMA WholeInit == Init => WholeOperations
  BY FS_EmptySet DEF Init, WholeOperations, ToSet

\* An undo takes the whole of the latest operation.
LEMMA UndoWhole ==
  TypeOK /\ Ascending /\ WholeOperations /\ [Next]_vars =>
    ((undoing = <<>> /\ undoing' # <<>>) =>
        LET top == Head(undoing').op IN
        /\ \A c \in ToSet(undoing') : c.op = top
        /\ \A c \in ToSet(stack') : c.op # top
        /\ top \notin dropped)
<1>. SUFFICES ASSUME TypeOK, Ascending, WholeOperations, [Next]_vars, undoing = <<>>, undoing' # <<>>
              PROVE  LET top == Head(undoing').op IN
                     /\ \A c \in ToSet(undoing') : c.op = top
                     /\ \A c \in ToSet(stack') : c.op # top
                     /\ top \notin dropped
  OBVIOUS
<1>1. BeginUndo
  BY DEF Next, BeginWrite, EndWrite, WriteFails, Restore, UndoFails, vars
<1>. DEFINE n == Len(stack)
            k == n - Cardinality(Latest)
            t == SubSeq(stack, k + 1, n)
            top == stack[n].op
<1>2. stack \in Seq(Checkpoint) /\ stack # <<>> /\ n \in Nat \ {0}
  BY <1>1 DEF BeginUndo, TypeOK
<1>3. k \in 0..(n - 1) /\ Latest = (k + 1)..n
  BY <1>2, LatestEnd
<1>4. undoing' = Reverse(t) /\ stack' = SubSeq(stack, 1, k)
  BY <1>1 DEF BeginUndo
<1>. HIDE DEF k
<1>5. /\ t \in Seq(Checkpoint) /\ Len(t) = n - k
      /\ \A i \in 1..(n - k) : t[i] = stack[k + i]
  BY <1>2, <1>3, Suffix
<1>6. \A i \in Latest : stack[i].op = top
  BY <1>2 DEF Latest, Last
<1>7. \A i \in 1..(n - k) : k + i \in Latest
  BY <1>2, <1>3
<1>8. \A i \in 1..(n - k) : t[i].op = top
  BY <1>5, <1>6, <1>7
<1>. HIDE DEF t, n, top
<1>9. /\ undoing' \in Seq(Checkpoint) /\ Len(undoing') = n - k
      /\ \A i \in 1..(n - k) : undoing'[i] = t[n - k - i + 1]
  BY <1>4, <1>5, Turned
<1>10. \A i \in 1..(n - k) : undoing'[i].op = top
  <2>1. \A i \in 1..(n - k) : n - k - i + 1 \in 1..(n - k)
    BY <1>2, <1>3
  <2>. QED
    BY <1>8, <1>9, <2>1
<1>11. Head(undoing').op = top
  <2>1. 1 \in 1..(n - k)
    BY <1>2, <1>3
  <2>2. Head(undoing') = undoing'[1]
    BY <1>9
  <2>. QED
    BY <1>10, <2>1, <2>2
<1>12. \A c \in ToSet(undoing') : c.op = top
  BY <1>9, <1>10 DEF ToSet
<1>13. /\ Len(stack') = k
       /\ \A i \in 1..k : stack'[i] = stack[i]
       /\ stack' \in Seq(Checkpoint)
  BY <1>2, <1>3, <1>4, Prefix DEF n
<1>14. ASSUME NEW i \in 1..k PROVE stack[i].op # top
  <2>1. i \in DOMAIN stack /\ i \notin Latest /\ n \in DOMAIN stack /\ i < n
    BY <1>2, <1>3 DEF n
  <2>2. PICK j \in i..n : stack[j].op # top
    BY <2>1 DEF Latest, Last, n, top
  <2>3. j \in DOMAIN stack /\ (i = j \/ i < j) /\ j < n
    BY <1>2, <2>1, <2>2 DEF n, top
  <2>4. stack[j].op <= top /\ (i < j => stack[i].op <= stack[j].op)
    BY <2>1, <2>3 DEF Ascending, top
  <2>5. stack[i].op \in Nat /\ stack[j].op \in Nat /\ top \in Nat
    BY <1>2, <2>1, <2>3, OpType DEF n, top
  <2>. QED
    BY <2>2, <2>3, <2>4, <2>5
<1>15. \A c \in ToSet(stack') : c.op # top
  BY <1>13, <1>14 DEF ToSet
<1>16. top \notin dropped
  BY <1>2 DEF WholeOperations, ToSet, top, n
<1>. QED
  BY <1>11, <1>12, <1>15, <1>16

\* As long as eviction does not reach the open operation (every batch of writes
\* is within the limits), an undo takes one operation and all of it, whatever
\* calls shared the operation and whatever failed (CheckpointStore.undo pops by
\* operation_id).
THEOREM UndoTakesWhole == Spec /\ []OpenKept => UndoIsWhole
<1>. DEFINE Law == (undoing = <<>> /\ undoing' # <<>>) =>
        LET top == Head(undoing').op IN
        /\ \A c \in ToSet(undoing') : c.op = top
        /\ \A c \in ToSet(stack') : c.op # top
        /\ top \notin dropped
<1>1. TypeOK /\ Ascending /\ WholeOperations /\ [Next]_vars => [Law]_vars
  BY UndoWhole
<1>. HIDE DEF Law
<1>2. Spec /\ []OpenKept => [][Law]_vars
  BY <1>1, TypedInit, TypedNext, WholeInit, WholeNext, PTL DEF Spec
<1>. QED
  BY <1>2 DEF Law, UndoIsWhole

-----------------------------------------------------------------------------
(* Undoing inverts writing *)

\* The checkpoints of file f in s lead, one after the other, to this content.
Linked(s, f, content) ==
  \A i \in 1..Len(s) : s[i].file = f =>
    \/ s[i].wrote = content /\ \A j \in (i + 1)..Len(s) : s[j].file # f
    \/ \E j \in (i + 1)..Len(s) :
         /\ s[j].file = f /\ s[i].wrote = s[j].saved
         /\ \A k \in (i + 1)..(j - 1) : s[k].file # f

\* A file that no undo has lost has such checkpoints, and the call that writes
\* it has read the content that it still has.
Traced ==
  /\ \A f \in Files \ lost : Linked(Trail, f, disk[f])
  /\ \A f \in DOMAIN writing \ lost :
       writing[f].base = disk[f] /\ \A i \in 1..Len(undoing) : undoing[i].file # f

\* They still do without those at the bottom.
LEMMA LinkedDrop ==
  ASSUME NEW s, NEW u, NEW e \in Nat, NEW f, NEW content,
         Len(s) \in Nat, Len(u) \in Nat, Len(s) = e + Len(u),
         \A i \in 1..Len(u) : u[i] = s[e + i],
         Linked(s, f, content)
  PROVE  Linked(u, f, content)
<1>. SUFFICES ASSUME NEW i \in 1..Len(u), u[i].file = f
              PROVE  \/ u[i].wrote = content /\ \A j \in (i + 1)..Len(u) : u[j].file # f
                     \/ \E j \in (i + 1)..Len(u) :
                          /\ u[j].file = f /\ u[i].wrote = u[j].saved
                          /\ \A k \in (i + 1)..(j - 1) : u[k].file # f
  BY DEF Linked
<1>1. e + i \in 1..Len(s) /\ s[e + i] = u[i]
  OBVIOUS
<1>2. CASE s[e + i].wrote = content /\ \A j \in (e + i + 1)..Len(s) : s[j].file # f
  <2>1. ASSUME NEW j \in (i + 1)..Len(u) PROVE u[j].file # f
    <3>1. e + j \in (e + i + 1)..Len(s) /\ j \in 1..Len(u)
      OBVIOUS
    <3>. QED
      BY <1>2, <3>1
  <2>. QED
    BY <1>1, <1>2, <2>1
<1>3. ASSUME NEW j \in (e + i + 1)..Len(s), s[j].file = f, s[e + i].wrote = s[j].saved,
             \A k \in (e + i + 1)..(j - 1) : s[k].file # f
      PROVE  \E m \in (i + 1)..Len(u) :
                 /\ u[m].file = f /\ u[i].wrote = u[m].saved
                 /\ \A k \in (i + 1)..(m - 1) : u[k].file # f
  <2>1. j - e \in (i + 1)..Len(u) /\ j - e \in 1..Len(u) /\ e + (j - e) = j
    OBVIOUS
  <2>2. u[j - e] = s[j]
    BY <2>1
  <2>3. ASSUME NEW k \in (i + 1)..(j - e - 1) PROVE u[k].file # f
    <3>1. e + k \in (e + i + 1)..(j - 1) /\ k \in 1..Len(u)
      BY <2>1, SMTT(30)
    <3>. QED
      BY <1>3, <3>1
  <2>. QED
    BY <1>1, <1>3, <2>1, <2>2, <2>3
<1>. QED
  BY <1>1, <1>2, <1>3 DEF Linked

\* u is s with one checkpoint more, after the first n.
Inserted(s, n, c, u) ==
  /\ Len(s) \in Nat /\ n \in 0..Len(s) /\ Len(u) = Len(s) + 1
  /\ \A i \in 1..n : u[i] = s[i]
  /\ u[n + 1] = c
  /\ \A i \in (n + 1)..Len(s) : u[i + 1] = s[i]

\* The place that a checkpoint of u has in s.
Down(n, i) == IF i <= n THEN i ELSE i - 1

LEMMA InsertedPlaces ==
  ASSUME NEW s, NEW n, NEW c, NEW u, Inserted(s, n, c, u)
  PROVE  /\ \A i \in 1..Len(u) : i # n + 1 => Down(n, i) \in 1..Len(s) /\ u[i] = s[Down(n, i)]
         /\ \A j \in 1..Len(s) : \E i \in 1..Len(u) : i # n + 1 /\ Down(n, i) = j
         /\ \A i, k \in 1..Len(u) :
              (i # n + 1 /\ k # n + 1) => (i < k <=> Down(n, i) < Down(n, k))
<1>0. Len(s) \in Nat /\ n \in 0..Len(s) /\ Len(u) = Len(s) + 1
  BY DEF Inserted
<1>1. ASSUME NEW i \in 1..Len(u), i # n + 1
      PROVE  Down(n, i) \in 1..Len(s) /\ u[i] = s[Down(n, i)]
  <2>1. CASE i <= n
    BY <1>0, <2>1 DEF Inserted, Down
  <2>2. CASE i > n
    <3>1. i - 1 \in (n + 1)..Len(s) /\ (i - 1) + 1 = i
      BY <1>0, <1>1, <2>2
    <3>2. u[i] = s[i - 1]
      BY <3>1 DEF Inserted
    <3>. QED
      BY <1>0, <2>2, <3>1, <3>2 DEF Down
  <2>. QED
    BY <1>0, <2>1, <2>2
<1>2. ASSUME NEW j \in 1..Len(s) PROVE \E i \in 1..Len(u) : i # n + 1 /\ Down(n, i) = j
  <2>1. CASE j <= n
    <3>1. j \in 1..Len(u) /\ j # n + 1 /\ Down(n, j) = j
      BY <1>0, <2>1 DEF Down
    <3>. QED
      BY <3>1
  <2>2. CASE j > n
    <3>1. j + 1 \in 1..Len(u) /\ j + 1 # n + 1 /\ Down(n, j + 1) = j
      BY <1>0, <2>2 DEF Down
    <3>. QED
      BY <3>1
  <2>. QED
    BY <1>0, <2>1, <2>2
<1>3. ASSUME NEW i \in 1..Len(u), NEW k \in 1..Len(u), i # n + 1, k # n + 1
      PROVE  i < k <=> Down(n, i) < Down(n, k)
  BY <1>0, <1>3 DEF Down
<1>. QED
  BY <1>1, <1>2, <1>3

\* One of another file changes nothing.
LEMMA LinkedOther ==
  ASSUME NEW s, NEW n, NEW c, NEW u, Inserted(s, n, c, u), NEW f, NEW content,
         c.file # f, Linked(s, f, content)
  PROVE  Linked(u, f, content)
<1>0. Len(s) \in Nat /\ n \in 0..Len(s) /\ Len(u) = Len(s) + 1 /\ u[n + 1] = c
  BY DEF Inserted
<1>. SUFFICES ASSUME NEW i \in 1..Len(u), u[i].file = f
              PROVE  \/ u[i].wrote = content /\ \A j \in (i + 1)..Len(u) : u[j].file # f
                     \/ \E j \in (i + 1)..Len(u) :
                          /\ u[j].file = f /\ u[i].wrote = u[j].saved
                          /\ \A k \in (i + 1)..(j - 1) : u[k].file # f
  BY DEF Linked
<1>. DEFINE d == Down(n, i)
<1>1. i # n + 1 /\ d \in 1..Len(s) /\ u[i] = s[d]
  BY <1>0, InsertedPlaces
<1>. HIDE DEF d
<1>2. ASSUME NEW k \in (i + 1)..Len(u), k # n + 1
      PROVE  Down(n, k) \in (d + 1)..Len(s) /\ u[k] = s[Down(n, k)]
  <2>1. k \in 1..Len(u) /\ i < k
    BY <1>0
  <2>2. Down(n, k) \in 1..Len(s) /\ u[k] = s[Down(n, k)] /\ d < Down(n, k)
    BY <1>1, <1>2, <2>1, InsertedPlaces DEF d
  <2>. QED
    BY <1>0, <1>1, <2>2
<1>3. CASE s[d].wrote = content /\ \A j \in (d + 1)..Len(s) : s[j].file # f
  <2>1. ASSUME NEW j \in (i + 1)..Len(u) PROVE u[j].file # f
    BY <1>0, <1>2, <1>3
  <2>. QED
    BY <1>1, <1>3, <2>1
<1>4. ASSUME NEW j \in (d + 1)..Len(s), s[j].file = f, s[d].wrote = s[j].saved,
             \A k \in (d + 1)..(j - 1) : s[k].file # f
      PROVE  \E m \in (i + 1)..Len(u) :
                 /\ u[m].file = f /\ u[i].wrote = u[m].saved
                 /\ \A k \in (i + 1)..(m - 1) : u[k].file # f
  <2>1. j \in 1..Len(s) /\ d < j
    BY <1>0, <1>1
  <2>2. PICK m \in 1..Len(u) : m # n + 1 /\ Down(n, m) = j
    BY <2>1, InsertedPlaces
  <2>3. i < m /\ u[m] = s[j]
    BY <1>1, <2>1, <2>2, InsertedPlaces DEF d
  <2>4. ASSUME NEW k \in (i + 1)..(m - 1) PROVE u[k].file # f
    <3>1. CASE k = n + 1
      BY <1>0, <3>1
    <3>2. CASE k # n + 1
      <4>1. k \in (i + 1)..Len(u) /\ k \in 1..Len(u) /\ k < m
        BY <1>0, <2>2
      <4>2. Down(n, k) \in (d + 1)..Len(s) /\ u[k] = s[Down(n, k)] /\ Down(n, k) < j
        BY <1>2, <2>2, <3>2, <4>1, InsertedPlaces
      <4>3. Down(n, k) \in (d + 1)..(j - 1)
        BY <1>0, <1>1, <2>1, <4>2
      <4>. QED
        BY <1>4, <4>2, <4>3
    <3>. QED
      BY <3>1, <3>2
  <2>5. m \in (i + 1)..Len(u)
    BY <1>0, <2>2, <2>3
  <2>. QED
    BY <1>1, <1>4, <2>3, <2>4, <2>5
<1>. QED
  BY <1>1, <1>3, <1>4 DEF Linked

\* One of the file itself, after its others, carries on from where they led.
LEMMA LinkedOwn ==
  ASSUME NEW s, NEW n, NEW c, NEW u, Inserted(s, n, c, u), NEW f,
         c.file = f, Linked(s, f, c.saved), \A i \in (n + 1)..Len(s) : s[i].file # f
  PROVE  Linked(u, f, c.wrote)
<1>0. Len(s) \in Nat /\ n \in 0..Len(s) /\ Len(u) = Len(s) + 1 /\ u[n + 1] = c
  BY DEF Inserted
<1>a. \A i \in 1..n : u[i] = s[i]
  BY DEF Inserted
<1>b. ASSUME NEW i \in (n + 2)..Len(u) PROVE u[i].file # f
  <2>1. i - 1 \in (n + 1)..Len(s) /\ (i - 1) + 1 = i
    BY <1>0
  <2>2. u[i] = s[i - 1]
    BY <2>1 DEF Inserted
  <2>. QED
    BY <2>1, <2>2
<1>. SUFFICES ASSUME NEW i \in 1..Len(u), u[i].file = f
              PROVE  \/ u[i].wrote = c.wrote /\ \A j \in (i + 1)..Len(u) : u[j].file # f
                     \/ \E j \in (i + 1)..Len(u) :
                          /\ u[j].file = f /\ u[i].wrote = u[j].saved
                          /\ \A k \in (i + 1)..(j - 1) : u[k].file # f
  BY DEF Linked
<1>1. i \in 1..(n + 1)
  BY <1>0, <1>b
<1>2. CASE i = n + 1
  BY <1>0, <1>b, <1>2
<1>3. CASE i \in 1..n
  <2>1. i \in 1..Len(s) /\ u[i] = s[i] /\ s[i].file = f
    BY <1>0, <1>a, <1>3
  <2>2. CASE s[i].wrote = c.saved /\ \A j \in (i + 1)..Len(s) : s[j].file # f
    <3>1. ASSUME NEW k \in (i + 1)..n PROVE u[k].file # f
      <4>1. k \in 1..n /\ k \in (i + 1)..Len(s)
        BY <1>0, <1>3
      <4>. QED
        BY <1>a, <2>2, <4>1
    <3>2. n + 1 \in (i + 1)..Len(u) /\ (n + 1) - 1 = n
      BY <1>0, <1>3
    <3>. QED
      BY <1>0, <2>1, <2>2, <3>1, <3>2
  <2>3. ASSUME NEW j \in (i + 1)..Len(s), s[j].file = f, s[i].wrote = s[j].saved,
               \A k \in (i + 1)..(j - 1) : s[k].file # f
        PROVE  \E m \in (i + 1)..Len(u) :
                 /\ u[m].file = f /\ u[i].wrote = u[m].saved
                 /\ \A k \in (i + 1)..(m - 1) : u[k].file # f
    <3>1. j \in 1..n
      BY <1>0, <1>3, <2>3
    <3>2. ASSUME NEW k \in (i + 1)..(j - 1) PROVE u[k].file # f
      <4>1. k \in 1..n
        BY <1>0, <1>3, <3>1
      <4>. QED
        BY <1>a, <2>3, <4>1
    <3>3. j \in (i + 1)..Len(u) /\ u[j] = s[j]
      BY <1>0, <1>a, <3>1
    <3>. QED
      BY <2>1, <2>3, <3>2, <3>3
  <2>. QED
    BY <2>1, <2>2, <2>3 DEF Linked
<1>. QED
  BY <1>0, <1>1, <1>2, <1>3

\* Without those at the top, which are of other files.
LEMMA LinkedCut ==
  ASSUME NEW s, NEW u, NEW f, NEW content, Len(s) \in Nat, Len(u) \in 0..Len(s),
         \A i \in 1..Len(u) : u[i] = s[i], \A i \in (Len(u) + 1)..Len(s) : s[i].file # f,
         Linked(s, f, content)
  PROVE  Linked(u, f, content)
<1>. SUFFICES ASSUME NEW i \in 1..Len(u), u[i].file = f
              PROVE  \/ u[i].wrote = content /\ \A j \in (i + 1)..Len(u) : u[j].file # f
                     \/ \E j \in (i + 1)..Len(u) :
                          /\ u[j].file = f /\ u[i].wrote = u[j].saved
                          /\ \A k \in (i + 1)..(j - 1) : u[k].file # f
  BY DEF Linked
<1>1. i \in 1..Len(s) /\ s[i] = u[i]
  OBVIOUS
<1>2. CASE s[i].wrote = content /\ \A j \in (i + 1)..Len(s) : s[j].file # f
  <2>1. \A j \in (i + 1)..Len(u) : j \in (i + 1)..Len(s) /\ j \in 1..Len(u)
    OBVIOUS
  <2>. QED
    BY <1>1, <1>2, <2>1
<1>3. ASSUME NEW j \in (i + 1)..Len(s), s[j].file = f, s[i].wrote = s[j].saved,
             \A k \in (i + 1)..(j - 1) : s[k].file # f
      PROVE  \E m \in (i + 1)..Len(u) :
                 /\ u[m].file = f /\ u[i].wrote = u[m].saved
                 /\ \A k \in (i + 1)..(m - 1) : u[k].file # f
  <2>1. j \in (i + 1)..Len(u) /\ j \in 1..Len(u)
    BY <1>3
  <2>2. \A k \in (i + 1)..(j - 1) : k \in 1..Len(u)
    BY <2>1
  <2>. QED
    BY <1>1, <1>3, <2>1, <2>2
<1>. QED
  BY <1>1, <1>2, <1>3 DEF Linked

\* Without the last, which is of the file: they lead to what it saved.
LEMMA LinkedPop ==
  ASSUME NEW s, NEW u, NEW f, NEW content, Len(u) \in Nat, Len(s) = Len(u) + 1,
         \A i \in 1..Len(u) : u[i] = s[i], s[Len(s)].file = f,
         Linked(s, f, content)
  PROVE  Linked(u, f, s[Len(s)].saved)
<1>. DEFINE c == s[Len(s)]
<1>. SUFFICES ASSUME NEW i \in 1..Len(u), u[i].file = f
              PROVE  \/ u[i].wrote = c.saved /\ \A j \in (i + 1)..Len(u) : u[j].file # f
                     \/ \E j \in (i + 1)..Len(u) :
                          /\ u[j].file = f /\ u[i].wrote = u[j].saved
                          /\ \A k \in (i + 1)..(j - 1) : u[k].file # f
  BY DEF Linked
<1>1. i \in 1..Len(s) /\ s[i] = u[i] /\ Len(s) \in (i + 1)..Len(s)
  OBVIOUS
<1>2. PICK j \in (i + 1)..Len(s) :
        /\ s[j].file = f /\ s[i].wrote = s[j].saved
        /\ \A k \in (i + 1)..(j - 1) : s[k].file # f
  BY <1>1 DEF Linked
<1>3. \A k \in (i + 1)..(j - 1) : k \in 1..Len(u) /\ u[k].file # f
  <2>1. \A k \in (i + 1)..(j - 1) : k \in 1..Len(u)
    OBVIOUS
  <2>. QED
    BY <1>2, <2>1
<1>4. CASE j = Len(s)
  <2>1. j - 1 = Len(u)
    BY <1>4
  <2>. QED
    BY <1>1, <1>2, <1>3, <1>4, <2>1
<1>5. CASE j # Len(s)
  <2>1. j \in (i + 1)..Len(u) /\ u[j] = s[j]
    BY <1>5
  <2>. QED
    BY <1>1, <1>2, <1>3, <2>1
<1>. QED
  BY <1>4, <1>5

\* The trail has the checkpoints of the stack and, turned round, those that the
\* running undo has still to restore.
LEMMA TrailPlaces ==
  ASSUME NEW s \in Seq(Checkpoint), NEW t \in Seq(Checkpoint)
  PROVE  LET u == s \o Reverse(t) IN
         /\ u \in Seq(Checkpoint) /\ Len(u) = Len(s) + Len(t)
         /\ \A i \in 1..Len(s) : u[i] = s[i]
         /\ \A i \in 1..Len(t) : u[Len(s) + i] = t[Len(t) - i + 1]
<1>1. /\ Reverse(t) \in Seq(Checkpoint) /\ Len(Reverse(t)) = Len(t)
      /\ \A i \in 1..Len(t) : Reverse(t)[i] = t[Len(t) - i + 1]
  BY Turned
<1>. DEFINE r == Reverse(t)
<1>. HIDE DEF r
<1>2. /\ s \o r \in Seq(Checkpoint) /\ Len(s \o r) = Len(s) + Len(r)
      /\ \A i \in 1..Len(s) : (s \o r)[i] = s[i]
      /\ \A i \in 1..Len(r) : (s \o r)[Len(s) + i] = r[i]
  <2>1. r \in Seq(Checkpoint) /\ Len(s) \in Nat /\ Len(r) \in Nat
    BY <1>1 DEF r
  <2>2. /\ s \o r \in Seq(Checkpoint) /\ Len(s \o r) = Len(s) + Len(r)
        /\ \A i \in 1..(Len(s) + Len(r)) : (s \o r)[i] = IF i <= Len(s) THEN s[i] ELSE r[i - Len(s)]
    BY <2>1, ConcatProperties
  <2>3. \A i \in 1..Len(r) : /\ Len(s) + i \in 1..(Len(s) + Len(r)) /\ ~(Len(s) + i <= Len(s))
                             /\ Len(s) + i - Len(s) = i
    BY <2>1
  <2>4. \A i \in 1..Len(s) : i \in 1..(Len(s) + Len(r)) /\ i <= Len(s)
    BY <2>1
  <2>. QED
    BY <2>2, <2>3, <2>4
<1>. QED
  BY <1>1, <1>2 DEF r

LEMMA TracedInit == Init => Traced
<1>. SUFFICES ASSUME Init PROVE Traced
  OBVIOUS
<1>1. stack = <<>> /\ undoing = <<>> /\ DOMAIN writing = {}
  BY DEF Init
<1>2. stack \in Seq(Checkpoint) /\ undoing \in Seq(Checkpoint) /\ Len(stack) = 0 /\ Len(undoing) = 0
  BY <1>1
<1>3. Len(Trail) = 0
  <2>1. Len(Trail) = Len(stack) + Len(undoing)
    BY <1>2, TrailPlaces DEF Trail
  <2>. QED
    BY <1>2, <2>1
<1>. QED
  BY <1>1, <1>3 DEF Traced, Linked

\* What a write that ends does to the trail: its checkpoint comes on top of the
\* stack, and some at the bottom go.
LEMMA TrailPushed ==
  ASSUME TypeOK, Ascending, NEW f \in DOMAIN writing, NEW content, NEW e \in Nat,
         Pushes(f, content, e), undoing' = undoing
  PROVE  LET u == Pushed(f, content) \o Reverse(undoing) IN
         /\ Inserted(Trail, Len(stack), Taken(f, content), u)
         /\ Len(u) \in Nat /\ Len(Trail') \in Nat /\ Len(u) = e + Len(Trail')
         /\ \A i \in 1..Len(Trail') : Trail'[i] = u[e + i]
<1>. DEFINE s == Pushed(f, content)
            u == s \o Reverse(undoing)
            n == Len(stack)
            m == Len(undoing)
<1>1. /\ stack \in Seq(Checkpoint) /\ undoing \in Seq(Checkpoint)
      /\ content \in Contents /\ e \in 0..Len(s)
      /\ stack' = SubSeq(s, e + 1, Len(s))
  BY DEF TypeOK, Pushes
<1>2. /\ s \in Seq(Checkpoint) /\ Len(s) = n + 1
      /\ \A i \in 1..n : s[i] = stack[i]
      /\ s[n + 1] = Taken(f, content)
  BY <1>1, TakenType
<1>. HIDE DEF s
<1>3. /\ stack' \in Seq(Checkpoint) /\ Len(stack') = Len(s) - e
      /\ \A i \in 1..(Len(s) - e) : stack'[i] = s[e + i]
  BY <1>1, <1>2, Suffix
<1>4. /\ Len(Trail) = n + m
      /\ \A i \in 1..n : Trail[i] = stack[i]
      /\ \A i \in 1..m : Trail[n + i] = undoing[m - i + 1]
  BY <1>1, TrailPlaces DEF Trail
<1>5. /\ Len(u) = Len(s) + m
      /\ \A i \in 1..Len(s) : u[i] = s[i]
      /\ \A i \in 1..m : u[Len(s) + i] = undoing[m - i + 1]
  BY <1>1, <1>2, TrailPlaces
<1>6. /\ Len(Trail') = Len(stack') + m
      /\ \A i \in 1..Len(stack') : Trail'[i] = stack'[i]
      /\ \A i \in 1..m : Trail'[Len(stack') + i] = undoing[m - i + 1]
  <2>1. Trail' = stack' \o Reverse(undoing)
    BY DEF Trail
  <2>. HIDE DEF m, n
  <2>2. LET w == stack' \o Reverse(undoing) IN
        /\ Len(w) = Len(stack') + Len(undoing)
        /\ \A i \in 1..Len(stack') : w[i] = stack'[i]
        /\ \A i \in 1..Len(undoing) : w[Len(stack') + i] = undoing[Len(undoing) - i + 1]
    BY <1>1, <1>3, TrailPlaces
  <2>. QED
    BY <2>1, <2>2 DEF m
<1>7. n \in Nat /\ m \in Nat /\ Len(s) \in Nat /\ Len(stack') \in Nat
  BY <1>1, <1>2, <1>3
<1>. HIDE DEF u, n, m
<1>8. Inserted(Trail, n, Taken(f, content), u)
  <2>1. ASSUME NEW i \in (n + 1)..Len(Trail) PROVE u[i + 1] = Trail[i]
    <3>1. i - n \in 1..m /\ n + (i - n) = i /\ Len(s) + (i - n) = i + 1
      BY <1>2, <1>4, <1>7
    <3>2. Trail[i] = undoing[m - (i - n) + 1]
      BY <1>4, <3>1
    <3>3. u[i + 1] = undoing[m - (i - n) + 1]
      BY <1>5, <3>1
    <3>. QED
      BY <3>2, <3>3
  <2>2. \A i \in 1..n : u[i] = Trail[i]
    BY <1>2, <1>4, <1>5, <1>7
  <2>3. u[n + 1] = Taken(f, content)
    BY <1>2, <1>5, <1>7
  <2>. QED
    BY <1>2, <1>4, <1>5, <1>7, <2>1, <2>2, <2>3 DEF Inserted
<1>9. Len(u) \in Nat /\ Len(Trail') \in Nat /\ Len(u) = e + Len(Trail')
  BY <1>1, <1>3, <1>5, <1>6, <1>7
<1>10. ASSUME NEW i \in 1..Len(Trail') PROVE Trail'[i] = u[e + i]
  <2>1. CASE i <= Len(stack')
    <3>1. i \in 1..Len(stack')
      BY <1>6, <1>7, <2>1
    <3>2. i \in 1..(Len(s) - e) /\ e + i \in 1..Len(s)
      BY <1>1, <1>3, <1>7, <3>1
    <3>. QED
      BY <1>3, <1>5, <1>6, <3>1, <3>2
  <2>2. CASE i > Len(stack')
    <3>. DEFINE k == i - Len(stack')
    <3>1. k \in 1..m /\ Len(stack') + k = i /\ Len(s) + k = e + i
      <4>1. Len(s) = e + Len(stack') /\ i \in 1..(Len(stack') + m)
        BY <1>1, <1>3, <1>6, <1>7
      <4>. QED
        BY <1>7, <2>2, <4>1
    <3>. HIDE DEF k
    <3>2. Trail'[i] = undoing[m - k + 1] /\ u[e + i] = undoing[m - k + 1]
      BY <1>5, <1>6, <3>1
    <3>. QED
      BY <3>2
  <2>. QED
    BY <1>6, <1>7, <2>1, <2>2
<1>. QED
  BY <1>8, <1>9, <1>10 DEF u, n, s

LEMMA TracedNext == TypeOK /\ Ascending /\ Traced /\ [Next]_vars => Traced'
<1>. SUFFICES ASSUME TypeOK, Ascending, Traced, [Next]_vars PROVE Traced'
  OBVIOUS
<1>0. /\ stack \in Seq(Checkpoint) /\ undoing \in Seq(Checkpoint)
      /\ disk \in [Files -> Contents] /\ DOMAIN writing \subseteq Files
      /\ Len(stack) \in Nat /\ Len(undoing) \in Nat
  BY DEF TypeOK
<1>t. /\ Trail \in Seq(Checkpoint) /\ Len(Trail) = Len(stack) + Len(undoing)
      /\ \A i \in 1..Len(stack) : Trail[i] = stack[i]
      /\ \A i \in 1..Len(undoing) : Trail[Len(stack) + i] = undoing[Len(undoing) - i + 1]
  BY <1>0, TrailPlaces DEF Trail
<1>i. /\ \A f \in Files \ lost : Linked(Trail, f, disk[f])
      /\ \A f \in DOMAIN writing \ lost :
           writing[f].base = disk[f] /\ \A i \in 1..Len(undoing) : undoing[i].file # f
  BY DEF Traced
<1>1. ASSUME NEW f \in Files, BeginWrite(f) PROVE Traced'
  <2>1. /\ UNCHANGED <<disk, stack, undoing>>
        /\ DOMAIN writing' = DOMAIN writing \cup {f}
        /\ \A g \in DOMAIN writing : g # f => writing'[g] = writing[g]
        /\ writing'[f].base = disk[f]
        /\ lost' = lost \cup {g \in {f} : \E i \in DOMAIN undoing : undoing[i].file = g}
    BY <1>1 DEF BeginWrite
  <2>2. f \notin lost' => \A i \in 1..Len(undoing) : undoing[i].file # f
    BY <1>0, <2>1
  <2>3. Trail' = Trail
    BY <2>1 DEF Trail
  <2>4. \A g \in Files \ lost' : Linked(Trail', g, disk'[g])
    BY <1>i, <2>1, <2>3
  <2>5. ASSUME NEW g \in DOMAIN writing' \ lost'
        PROVE  writing'[g].base = disk'[g] /\ \A i \in 1..Len(undoing') : undoing'[i].file # g
    <3>1. CASE g = f
      BY <2>1, <2>2, <3>1
    <3>2. CASE g # f
      BY <1>i, <2>1, <3>2
    <3>. QED
      BY <3>1, <3>2
  <2>. QED
    BY <2>4, <2>5 DEF Traced
<1>2. ASSUME NEW f \in DOMAIN writing, EndWrite(f) PROVE Traced'
  <2>1. PICK content \in {writing[f].content, disk[f]}, e \in Nat : Pushes(f, content, e)
    BY <1>2, EndPushes
  <2>2. /\ UNCHANGED <<undoing, lost>>
        /\ DOMAIN writing' = DOMAIN writing \ {f}
        /\ \A g \in DOMAIN writing' : writing'[g] = writing[g]
        /\ disk' = [disk EXCEPT ![f] = content]
    BY <1>2, <2>1 DEF EndWrite, Leave, Pushes
  <2>. DEFINE c == Taken(f, content)
              u == Pushed(f, content) \o Reverse(undoing)
  <2>3. /\ Inserted(Trail, Len(stack), c, u)
        /\ Len(u) \in Nat /\ Len(Trail') \in Nat /\ Len(u) = e + Len(Trail')
        /\ \A i \in 1..Len(Trail') : Trail'[i] = u[e + i]
    BY <2>1, <2>2, TrailPushed
  <2>4. c.file = f /\ c.saved = writing[f].base /\ c.wrote = content
    BY DEF Taken
  <2>. HIDE DEF u, c
  <2>5. ASSUME NEW g \in Files \ lost' PROVE Linked(Trail', g, disk'[g])
    <3>1. Linked(Trail, g, disk[g])
      BY <1>i, <2>2
    <3>2. CASE g # f
      <4>1. Linked(u, g, disk[g])
        BY <2>3, <2>4, <3>1, <3>2, LinkedOther
      <4>2. disk'[g] = disk[g]
        BY <1>0, <2>2, <3>2
      <4>. QED
        BY <2>3, <4>1, <4>2, LinkedDrop
    <3>3. CASE g = f
      <4>1. c.saved = disk[f] /\ \A i \in 1..Len(undoing) : undoing[i].file # f
        BY <1>i, <2>2, <2>4, <3>3
      <4>2. ASSUME NEW i \in (Len(stack) + 1)..Len(Trail) PROVE Trail[i].file # f
        <5>. DEFINE k == i - Len(stack)
        <5>1. k \in 1..Len(undoing) /\ Len(stack) + k = i /\ Len(undoing) - k + 1 \in 1..Len(undoing)
          BY <1>0, <1>t
        <5>. HIDE DEF k
        <5>. QED
          BY <1>t, <4>1, <5>1
      <4>3. Linked(u, f, content)
        <5>1. Linked(Trail, f, c.saved)
          BY <3>1, <3>3, <4>1
        <5>2. Linked(u, f, c.wrote)
          BY <2>3, <2>4, <4>2, <5>1, LinkedOwn
        <5>. QED
          BY <2>4, <5>2
      <4>4. disk'[f] = content
        BY <1>0, <2>2
      <4>. QED
        BY <2>3, <3>3, <4>3, <4>4, LinkedDrop
    <3>. QED
      BY <3>2, <3>3
  <2>6. ASSUME NEW g \in DOMAIN writing' \ lost'
        PROVE  writing'[g].base = disk'[g] /\ \A i \in 1..Len(undoing') : undoing'[i].file # g
    <3>1. g \in DOMAIN writing \ lost /\ g # f /\ g \in Files
      BY <1>0, <2>2
    <3>2. disk'[g] = disk[g]
      BY <1>0, <2>2, <3>1
    <3>. QED
      BY <1>i, <2>2, <3>1, <3>2
  <2>. QED
    BY <2>5, <2>6 DEF Traced
<1>3. ASSUME NEW f \in DOMAIN writing, WriteFails(f) PROVE Traced'
  <2>1. /\ UNCHANGED <<disk, stack, undoing, lost>>
        /\ DOMAIN writing' = DOMAIN writing \ {f}
        /\ \A g \in DOMAIN writing' : writing'[g] = writing[g]
    BY <1>3 DEF WriteFails, Leave
  <2>2. Trail' = Trail
    BY <2>1 DEF Trail
  <2>. QED
    BY <1>i, <2>1, <2>2 DEF Traced
<1>4. ASSUME BeginUndo PROVE Traced'
  <2>. DEFINE k == Len(stack) - Cardinality(Latest)
              t == SubSeq(stack, k + 1, Len(stack))
  <2>1. /\ stack # <<>> /\ undoing = <<>>
        /\ stack' = SubSeq(stack, 1, k) /\ undoing' = Reverse(t)
        /\ lost' = lost \cup {f \in DOMAIN writing : \E i \in DOMAIN undoing' : undoing'[i].file = f}
        /\ UNCHANGED <<disk, writing>>
    BY <1>4 DEF BeginUndo
  <2>2. k \in 0..Len(stack)
    BY <1>0, <2>1, LatestEnd
  <2>. HIDE DEF k
  <2>3. /\ stack' \in Seq(Checkpoint) /\ Len(stack') = k
        /\ \A i \in 1..k : stack'[i] = stack[i]
    BY <1>0, <2>1, <2>2, Prefix
  <2>4. /\ t \in Seq(Checkpoint) /\ Len(t) = Len(stack) - k
        /\ \A i \in 1..(Len(stack) - k) : t[i] = stack[k + i]
    BY <1>0, <2>2, Suffix
  <2>. HIDE DEF t
  <2>5. /\ undoing' \in Seq(Checkpoint) /\ Len(undoing') = Len(t)
        /\ \A i \in 1..Len(t) : undoing'[i] = t[Len(t) - i + 1]
    BY <2>1, <2>4, Turned
  <2>6. /\ Len(Trail') = Len(stack') + Len(undoing')
        /\ \A i \in 1..Len(stack') : Trail'[i] = stack'[i]
        /\ \A i \in 1..Len(undoing') : Trail'[Len(stack') + i] = undoing'[Len(undoing') - i + 1]
    BY <2>3, <2>5, TrailPlaces DEF Trail
  <2>7. Len(Trail) = Len(stack) /\ Len(Trail') = Len(stack) /\ Len(Trail) \in Nat
    BY <1>0, <1>t, <2>1, <2>2, <2>3, <2>4, <2>5, <2>6
  <2>8. ASSUME NEW i \in 1..Len(Trail') PROVE Trail'[i] = Trail[0 + i]
    <3>0. i \in 1..Len(stack) /\ Trail[0 + i] = stack[i]
      BY <1>t, <2>7
    <3>1. CASE i <= k
      BY <2>2, <2>3, <2>6, <3>0, <3>1
    <3>2. CASE i > k
      <4>. DEFINE j == i - k
      <4>1. /\ j \in 1..Len(undoing') /\ Len(stack') + j = i
            /\ Len(t) - j + 1 \in 1..Len(t) /\ Len(t) - (Len(t) - j + 1) + 1 = j
            /\ j \in 1..(Len(stack) - k) /\ k + j = i
        BY <1>0, <2>2, <2>3, <2>4, <2>5, <3>0, <3>2
      <4>. HIDE DEF j
      <4>2. Trail'[i] = undoing'[Len(t) - j + 1]
        BY <2>5, <2>6, <4>1
      <4>3. undoing'[Len(t) - j + 1] = t[j]
        BY <2>5, <4>1
      <4>. QED
        BY <2>4, <3>0, <4>1, <4>2, <4>3
    <3>. QED
      BY <2>2, <3>0, <3>1, <3>2
  <2>9. \A f \in Files \ lost' : Linked(Trail', f, disk'[f])
    <3>1. Len(Trail') \in Nat /\ Len(Trail) = 0 + Len(Trail')
      BY <2>7
    <3>. QED
      BY <1>i, <2>1, <2>7, <2>8, <3>1, LinkedDrop
  <2>10. \A f \in DOMAIN writing' \ lost' :
            writing'[f].base = disk'[f] /\ \A i \in 1..Len(undoing') : undoing'[i].file # f
    <3>1. DOMAIN undoing' = 1..Len(undoing')
      BY <2>5
    <3>. QED
      BY <1>i, <2>1, <3>1
  <2>. QED
    BY <2>9, <2>10 DEF Traced
<1>5. ASSUME Restore PROVE Traced'
  <2>. DEFINE c == Head(undoing)
              m == Len(Trail)
  <2>1. /\ undoing # <<>> /\ undoing' = Tail(undoing)
        /\ disk' = [disk EXCEPT ![c.file] = c.saved]
        /\ UNCHANGED <<stack, writing, lost>>
    BY <1>5 DEF Restore
  <2>2. /\ undoing' \in Seq(Checkpoint) /\ Len(undoing') = Len(undoing) - 1 /\ Len(undoing) # 0
        /\ \A i \in 1..Len(undoing') : undoing'[i] = undoing[i + 1]
        /\ c = undoing[1] /\ c \in Checkpoint
    BY <1>0, <2>1
  <2>. HIDE DEF c
  <2>3. /\ Len(Trail') = Len(stack) + Len(undoing')
        /\ \A i \in 1..Len(stack) : Trail'[i] = stack[i]
        /\ \A i \in 1..Len(undoing') : Trail'[Len(stack) + i] = undoing'[Len(undoing') - i + 1]
    <3>1. Trail' = stack \o Reverse(undoing')
      BY <2>1 DEF Trail
    <3>. HIDE DEF m
    <3>2. LET w == stack \o Reverse(undoing') IN
          /\ Len(w) = Len(stack) + Len(undoing')
          /\ \A i \in 1..Len(stack) : w[i] = stack[i]
          /\ \A i \in 1..Len(undoing') : w[Len(stack) + i] = undoing'[Len(undoing') - i + 1]
      BY <1>0, <2>2, TrailPlaces
    <3>. QED
      BY <3>1, <3>2
  <2>4. Len(Trail') \in Nat /\ m = Len(Trail') + 1
    BY <1>0, <1>t, <2>2, <2>3
  <2>5. ASSUME NEW i \in 1..Len(Trail') PROVE Trail'[i] = Trail[i]
    <3>1. CASE i <= Len(stack)
      BY <1>0, <1>t, <2>3, <3>1
    <3>2. CASE i > Len(stack)
      <4>. DEFINE k == i - Len(stack)
      <4>1. /\ k \in 1..Len(undoing') /\ k \in 1..Len(undoing) /\ Len(stack) + k = i
            /\ Len(undoing') - k + 1 \in 1..Len(undoing')
            /\ (Len(undoing') - k + 1) + 1 = Len(undoing) - k + 1
        BY <1>0, <2>2, <2>3, <3>2
      <4>. HIDE DEF k
      <4>2. Trail'[i] = undoing[Len(undoing) - k + 1] /\ Trail[i] = undoing[Len(undoing) - k + 1]
        BY <1>t, <2>2, <2>3, <4>1
      <4>. QED
        BY <4>2
    <3>. QED
      BY <1>0, <2>3, <3>1, <3>2
  <2>6. Trail[m] = c
    <3>1. /\ Len(undoing) \in 1..Len(undoing) /\ Len(stack) + Len(undoing) = m
          /\ Len(undoing) - Len(undoing) + 1 = 1
      BY <1>0, <1>t, <2>2
    <3>. QED
      BY <1>t, <2>2, <3>1
  <2>7. c.file \in Files
    BY <2>2 DEF Checkpoint
  <2>8. ASSUME NEW f \in Files \ lost' PROVE Linked(Trail', f, disk'[f])
    <3>1. Linked(Trail, f, disk[f])
      BY <1>i, <2>1
    <3>2. CASE f = c.file
      <4>1. disk'[f] = Trail[m].saved /\ Trail[m].file = f
        BY <1>0, <2>1, <2>6, <3>2
      <4>2. Linked(Trail', f, Trail[m].saved)
        BY <2>4, <2>5, <3>1, <4>1, LinkedPop
      <4>. QED
        BY <4>1, <4>2
    <3>3. CASE f # c.file
      <4>1. disk'[f] = disk[f]
        BY <1>0, <2>1, <3>3
      <4>2. \A i \in (Len(Trail') + 1)..Len(Trail) : Trail[i].file # f
        BY <2>4, <2>6, <3>3
      <4>3. Len(Trail) \in Nat /\ Len(Trail') \in 0..Len(Trail)
        BY <2>4
      <4>. QED
        BY <2>5, <3>1, <4>1, <4>2, <4>3, LinkedCut
    <3>. QED
      BY <3>2, <3>3
  <2>9. ASSUME NEW f \in DOMAIN writing' \ lost'
        PROVE  writing'[f].base = disk'[f] /\ \A i \in 1..Len(undoing') : undoing'[i].file # f
    <3>1. writing[f].base = disk[f] /\ \A i \in 1..Len(undoing) : undoing[i].file # f
      BY <1>i, <2>1
    <3>2. f # c.file
      <4>1. 1 \in 1..Len(undoing)
        BY <1>0, <2>2
      <4>. QED
        BY <2>2, <3>1, <4>1
    <3>3. disk'[f] = disk[f]
      BY <1>0, <2>1, <3>2
    <3>4. \A i \in 1..Len(undoing') : i + 1 \in 1..Len(undoing)
      BY <1>0, <2>2
    <3>. QED
      BY <2>1, <2>2, <3>1, <3>3, <3>4
  <2>. QED
    BY <2>8, <2>9 DEF Traced
<1>6. ASSUME UndoFails PROVE Traced'
  <2>1. /\ undoing' = <<>> /\ lost' = lost \cup {c.file : c \in ToSet(undoing)}
        /\ UNCHANGED <<disk, stack, writing>>
    BY <1>6 DEF UndoFails
  <2>2. undoing' \in Seq(Checkpoint) /\ Len(undoing') = 0
    BY <2>1
  <2>3. /\ Len(Trail') = Len(stack)
        /\ \A i \in 1..Len(stack) : Trail'[i] = stack[i]
    <3>1. Trail' = stack \o Reverse(undoing')
      BY <2>1 DEF Trail
    <3>2. LET w == stack \o Reverse(undoing') IN
          Len(w) = Len(stack) + Len(undoing') /\ \A i \in 1..Len(stack) : w[i] = stack[i]
      BY <1>0, <2>2, TrailPlaces
    <3>. QED
      BY <1>0, <2>2, <3>1, <3>2
  <2>4. \A i \in 1..Len(undoing) : undoing[i].file \in lost'
    BY <1>0, <2>1 DEF ToSet
  <2>5. ASSUME NEW f \in Files \ lost' PROVE Linked(Trail', f, disk'[f])
    <3>1. Linked(Trail, f, disk[f])
      BY <1>i, <2>1
    <3>2. ASSUME NEW i \in (Len(Trail') + 1)..Len(Trail) PROVE Trail[i].file # f
      <4>. DEFINE k == i - Len(stack)
      <4>1. k \in 1..Len(undoing)
        BY <1>0, <1>t, <2>3
      <4>2. Len(stack) + k = i /\ Len(undoing) - k + 1 \in 1..Len(undoing)
        BY <1>0, <4>1
      <4>. HIDE DEF k
      <4>. QED
        BY <1>t, <2>4, <4>1, <4>2
    <3>3. Len(Trail) \in Nat /\ Len(Trail') \in 0..Len(Trail) /\ \A i \in 1..Len(Trail') : Trail'[i] = Trail[i]
      BY <1>0, <1>t, <2>3
    <3>. QED
      BY <2>1, <3>1, <3>2, <3>3, LinkedCut
  <2>6. \A f \in DOMAIN writing' \ lost' :
           writing'[f].base = disk'[f] /\ \A i \in 1..Len(undoing') : undoing'[i].file # f
    BY <1>i, <2>1, <2>2
  <2>. QED
    BY <2>5, <2>6 DEF Traced
<1>7. CASE UNCHANGED vars
  BY <1>7 DEF vars, Traced, Trail
<1>. QED
  BY <1>1, <1>2, <1>3, <1>4, <1>5, <1>6, <1>7 DEF Next

LEMMA TracedInverts == TypeOK /\ Traced => UndoInverts
<1>. SUFFICES ASSUME TypeOK, Traced, NEW i \in DOMAIN Trail, Trail[i].file \notin lost
              PROVE  Trail[i].wrote = IF Later(i) = {} THEN disk[Trail[i].file]
                                                       ELSE Trail[Min(Later(i))].saved
  BY DEF UndoInverts
<1>. DEFINE f == Trail[i].file
            m == Min(Later(i))
<1>1. Trail \in Seq(Checkpoint) /\ DOMAIN Trail = 1..Len(Trail) /\ Len(Trail) \in Nat
  <2>1. Trail \in Seq(Checkpoint)
    BY TrailPlaces DEF Trail, TypeOK
  <2>. QED
    BY <2>1
<1>2. f \in Files \ lost
  <2>1. Trail[i] \in Checkpoint
    BY <1>1
  <2>. QED
    BY <2>1 DEF Checkpoint
<1>3. Linked(Trail, f, disk[f])
  BY <1>2 DEF Traced
<1>4. Later(i) = {j \in (i + 1)..Len(Trail) : Trail[j].file = f}
  <2>1. \A j \in 1..Len(Trail) : j > i <=> j \in (i + 1)..Len(Trail)
    BY <1>1
  <2>2. (i + 1)..Len(Trail) \subseteq 1..Len(Trail)
    BY <1>1
  <2>. QED
    BY <1>1, <2>1, <2>2 DEF Later
<1>5. CASE Later(i) = {}
  BY <1>1, <1>3, <1>4, <1>5 DEF Linked
<1>6. CASE Later(i) # {}
  <2>1. Later(i) \subseteq Nat
    BY <1>1, <1>4
  <2>2. m \in Later(i) /\ \A j \in Later(i) : m <= j
    BY <1>6, <2>1, MinOf
  <2>. HIDE DEF m
  <2>3. PICK j \in (i + 1)..Len(Trail) :
          /\ Trail[j].file = f /\ Trail[i].wrote = Trail[j].saved
          /\ \A k \in (i + 1)..(j - 1) : Trail[k].file # f
    BY <1>1, <1>3, <1>4, <2>2 DEF Linked
  <2>4. j \in Later(i) /\ m <= j /\ m \in (i + 1)..Len(Trail) /\ Trail[m].file = f
    BY <1>4, <2>2, <2>3
  <2>5. m \notin (i + 1)..(j - 1)
    BY <2>3, <2>4
  <2>6. m = j
    BY <1>1, <2>4, <2>5
  <2>. QED
    BY <1>6, <2>3, <2>6 DEF m
<1>. QED
  BY <1>5, <1>6

\* For any files, sizes and limits, across any interleaving of writes, undos,
\* failures and evictions, a file that no undo has lost can be walked back from
\* what it has now: each of its checkpoints was taken of what the one before
\* left (CheckpointStore.snapshot reads, awaits git and pushes).
THEOREM UndoInverse == Spec => []UndoInverts
<1>. QED
  BY TypedInit, TypedNext, TracedInit, TracedNext, TracedInverts, PTL DEF Spec

\* As long as eviction does not reach the open operation, the stack holds whole
\* operations that lead back to every content, and the operations that eviction
\* took are counted once each.
THEOREM UndoKept == Spec /\ []OpenKept => []UndoLaw
<1>1. UndoInverts /\ WholeOperations => UndoLaw
  BY DEF UndoLaw
<1>. QED
  BY <1>1, TypedInit, TypedNext, TracedInit, TracedNext, TracedInverts, WholeInit, WholeNext, PTL DEF Spec

-----------------------------------------------------------------------------
(* What runs on the host *)

\* The processes of a part that is not theirs stand still.
LEMMA ProcessesPart == MCSpec => ProcessesInit /\ [][ProcessesNext]_xvars
<1>1. MCInit => ProcessesInit
  BY DEF MCInit
<1>2. [MCNext]_mcVars => [ProcessesNext]_xvars
  <2>1. UNCHANGED hostVars => UNCHANGED xvars
    BY DEF hostVars
  <2>2. HostSteps => [ProcessesNext]_xvars
    BY DEF HostSteps
  <2>. QED
    BY <2>1, <2>2 DEF MCNext, mcVars
<1>. QED
  BY <1>1, <1>2, PTL DEF MCSpec

LEMMA PluginsPart == MCSpec => PluginsInit /\ [][PluginsNext]_gvars
<1>1. MCInit => PluginsInit
  BY DEF MCInit
<1>2. [MCNext]_mcVars => [PluginsNext]_gvars
  <2>1. UNCHANGED hostVars => UNCHANGED gvars
    BY DEF hostVars
  <2>2. HostSteps => [PluginsNext]_gvars
    BY DEF HostSteps
  <2>. QED
    BY <2>1, <2>2 DEF MCNext, mcVars
<1>. QED
  BY <1>1, <1>2, PTL DEF MCSpec

-----------------------------------------------------------------------------
(* The processes of commands and hooks *)

Results == {"none", "ok", "error", "failed", "unavailable", "raised", "blocked",
            "done", "cancelled"}

ProcessesTyped ==
  /\ sandbox \in [enabled : BOOLEAN, required : BOOLEAN, works : BOOLEAN,
                  platform : Platforms, hooks : 0..MaxHooks]
  /\ use \in Uses
  /\ ProcessesTypeOK

\* A child that is waited for is of the last step that was begun.
Waited == IF child \in {"running", "exited"} THEN 1 ELSE 0

\* As long as the caller waits, each command that was begun was launched.
Launches1 == use # "hooks" /\ reply = "none" => Len(confined) = doing

\* As long as the caller waits, each hook that was begun has its outcome or is
\* the one that is waited for, and none has blocked.
HooksGo ==
  use = "hooks" /\ reply = "none" =>
    /\ doing = Len(outcomes) + Waited
    /\ \A i \in DOMAIN outcomes : outcomes[i] # "block"

ProcessInv == ProcessesTyped /\ ProcessLaw /\ Launches1 /\ HooksGo

LEMMA ProcessesStarts == ProcessesInit => ProcessInv
<1>. SUFFICES ASSUME ProcessesInit PROVE ProcessInv
  OBVIOUS
<1>1. /\ doing = 0 /\ child = "none" /\ confined = <<>> /\ code = "zero"
      /\ outcomes = <<>> /\ reply = "none"
  BY DEF ProcessesInit, ProcessesStart
<1>2. /\ sandbox \in [enabled : BOOLEAN, required : BOOLEAN, works : BOOLEAN,
                      platform : Platforms, hooks : 0..MaxHooks]
      /\ use \in Uses
  BY DEF ProcessesInit
<1>3. ProcessesTyped
  BY <1>1, <1>2, ProcessesAssumption DEF ProcessesTyped, ProcessesTypeOK, Steps, Commands, Codes
<1>4. ProcessLaw
  BY <1>1 DEF ProcessLaw, Confinement, NoChildLeft, ExitsTold, HooksInOrder
<1>. QED
  BY <1>1, <1>3, <1>4 DEF ProcessInv, Launches1, HooksGo, Waited

\* The outcome of a hook is added, and its child is not waited for any more.
LEMMA OutcomeAdded ==
  ASSUME ProcessInv, use = "hooks", reply = "none", UNCHANGED <<use, sandbox>>,
         NEW o \in {"pass", "block", "failed"}, outcomes' = Append(outcomes, o),
         doing' = Len(outcomes) + 1, Waited' = 0,
         reply' = IF o = "block" THEN "blocked" ELSE "none"
  PROVE  HooksInOrder' /\ HooksGo' /\ Launches1'
<1>1. /\ outcomes \in Seq({"pass", "block", "failed"}) /\ outcomes' \in Seq({"pass", "block", "failed"})
      /\ Len(outcomes') = Len(outcomes) + 1 /\ outcomes'[Len(outcomes) + 1] = o
      /\ \A i \in 1..Len(outcomes) : outcomes'[i] = outcomes[i]
      /\ DOMAIN outcomes = 1..Len(outcomes) /\ DOMAIN outcomes' = 1..Len(outcomes')
  BY DEF ProcessInv, ProcessesTyped, ProcessesTypeOK
<1>2. \A i \in 1..Len(outcomes) : outcomes[i] # "block"
  BY <1>1 DEF ProcessInv, HooksGo
<1>3. \A i \in DOMAIN outcomes' : outcomes'[i] = "block" => i = Len(outcomes') /\ o = "block"
  BY <1>1, <1>2
<1>4. HooksInOrder'
  BY <1>1, <1>3 DEF HooksInOrder, Last
<1>5. HooksGo' /\ Launches1'
  BY <1>1, <1>3 DEF HooksGo, Launches1
<1>. QED
  BY <1>4, <1>5

LEMMA RefuseKeeps == ProcessInv /\ Refuse => ProcessInv'
<1>. SUFFICES ASSUME ProcessInv, Refuse PROVE ProcessInv'
  OBVIOUS
<1>. USE DEF ProcessInv, Refuse, Ready, Answer
<1>1. ProcessesTyped'
  BY ProcessesAssumption DEF ProcessesTyped, ProcessesTypeOK, Steps, Commands
<1>2. ProcessLaw'
  BY DEF ProcessLaw, Confinement, NoChildLeft, ExitsTold, HooksInOrder, Commands
<1>. QED
  BY <1>1, <1>2 DEF Launches1, HooksGo

LEMMA LaunchFailsKeeps == ProcessInv /\ LaunchFails => ProcessInv'
<1>. SUFFICES ASSUME ProcessInv, LaunchFails PROVE ProcessInv'
  OBVIOUS
<1>. USE DEF ProcessInv, LaunchFails, Ready
<1>1. ProcessesTyped'
  BY ProcessesAssumption DEF ProcessesTyped, ProcessesTypeOK, Steps, Commands
<1>2. Confinement' /\ NoChildLeft' /\ ExitsTold'
  BY DEF ProcessLaw, Confinement, NoChildLeft, ExitsTold, Commands
<1>3. CASE use # "hooks"
  BY <1>1, <1>2, <1>3 DEF HooksInOrder, HooksGo, Launches1, ProcessLaw
<1>4. CASE use = "hooks" /\ reply' = "raised"
  BY <1>1, <1>2, <1>4 DEF HooksInOrder, HooksGo, Launches1, ProcessLaw
<1>5. CASE use = "hooks" /\ reply' # "raised"
  <2>1. outcomes' = Append(outcomes, "failed") /\ reply' = "none" /\ Waited' = 0 /\ Waited = 0
    BY <1>5 DEF Waited
  <2>2. doing' = Len(outcomes) + 1
    BY <1>5, <2>1 DEF HooksGo, ProcessesTyped, ProcessesTypeOK
  <2>3. HooksInOrder' /\ HooksGo' /\ Launches1'
    BY <1>5, <2>1, <2>2, OutcomeAdded
  <2>. QED
    BY <1>1, <1>2, <2>3 DEF ProcessLaw
<1>. QED
  BY <1>3, <1>4, <1>5

LEMMA LaunchKeeps == ProcessInv /\ Launch => ProcessInv'
<1>. SUFFICES ASSUME ProcessInv, Launch PROVE ProcessInv'
  OBVIOUS
<1>. USE DEF ProcessInv, Launch, Ready
<1>1. ProcessesTyped'
  BY ProcessesAssumption DEF ProcessesTyped, ProcessesTypeOK, Steps, Commands, Prepare, SelectSandbox, NoSandbox
<1>2. Confinement'
  BY DEF ProcessLaw, Confinement, ProcessesTyped, ProcessesTypeOK, Prepare, SelectSandbox, FailClosed, NoSandbox
<1>3. NoChildLeft' /\ ExitsTold'
  BY DEF ProcessLaw, NoChildLeft, ExitsTold, Commands
<1>4. HooksInOrder' /\ HooksGo' /\ Launches1'
  BY DEF HooksInOrder, HooksGo, Launches1, ProcessLaw, Waited, ProcessesTyped, ProcessesTypeOK
<1>. QED
  BY <1>1, <1>2, <1>3, <1>4 DEF ProcessLaw

LEMMA EmptyHookKeeps == ProcessInv /\ EmptyHook => ProcessInv'
<1>. SUFFICES ASSUME ProcessInv, EmptyHook PROVE ProcessInv'
  OBVIOUS
<1>. USE DEF ProcessInv, EmptyHook, Ready
<1>1. ProcessesTyped'
  BY ProcessesAssumption DEF ProcessesTyped, ProcessesTypeOK, Steps, Commands
<1>2. Confinement' /\ NoChildLeft' /\ ExitsTold'
  BY DEF ProcessLaw, Confinement, NoChildLeft, ExitsTold, Commands
<1>3. HooksInOrder' /\ HooksGo' /\ Launches1'
  BY OutcomeAdded DEF HooksGo, Waited
<1>. QED
  BY <1>1, <1>2, <1>3 DEF ProcessLaw

LEMMA ExitKeeps == ProcessInv /\ Exit => ProcessInv'
<1>. SUFFICES ASSUME ProcessInv, Exit PROVE ProcessInv'
  OBVIOUS
<1>. USE DEF ProcessInv, Exit
<1>1. ProcessesTyped'
  BY DEF ProcessesTyped, ProcessesTypeOK, Steps, Commands
<1>2. ProcessLaw'
  BY DEF ProcessLaw, Confinement, NoChildLeft, ExitsTold, HooksInOrder, Commands
<1>. QED
  BY <1>1, <1>2 DEF Launches1, HooksGo, Waited

LEMMA CommunicatedKeeps == ProcessInv /\ Communicated => ProcessInv'
<1>. SUFFICES ASSUME ProcessInv, Communicated PROVE ProcessInv'
  OBVIOUS
<1>. USE DEF ProcessInv, Communicated, Waits
<1>1. HookOutcome(code) \in {"pass", "block", "failed"} /\ Judged \in {"ok", "error"}
  BY DEF HookOutcome, Judged, ProcessesTyped, ProcessesTypeOK, Codes
<1>2. ProcessesTyped'
  <2>1. outcomes' \in Seq({"pass", "block", "failed"})
    <3>1. outcomes \in Seq({"pass", "block", "failed"})
      BY DEF ProcessesTyped, ProcessesTypeOK
    <3>2. outcomes' = outcomes \/ outcomes' = Append(outcomes, HookOutcome(code))
      OBVIOUS
    <3>. HIDE DEF ProcessInv, Communicated, Waits
    <3>. QED
      BY <1>1, <3>1, <3>2
  <2>2. reply' \in Results
    BY <1>1 DEF Results
  <2>. QED
    BY <2>1, <2>2 DEF ProcessesTyped, ProcessesTypeOK, Steps, Commands, Results
<1>3. Confinement' /\ NoChildLeft'
  BY DEF ProcessLaw, Confinement, NoChildLeft
<1>4. ExitsTold'
  <2>1. ASSUME use # "hooks", doing >= Steps PROVE Len(confined) = Commands
    BY <2>1 DEF Launches1, Steps, ProcessesTyped, ProcessesTypeOK, Commands
  <2>. QED
    BY <2>1 DEF ExitsTold, Judged, ProcessesTyped, ProcessesTypeOK, Commands, Steps
<1>5. HooksInOrder' /\ HooksGo' /\ Launches1'
  <2>1. CASE use = "hooks"
    BY <1>1, <2>1, OutcomeAdded DEF HooksGo, Waited, Blocked
  <2>2. CASE use # "hooks"
    BY <1>1, <2>2 DEF HooksInOrder, HooksGo, Launches1
  <2>. QED
    BY <2>1, <2>2
<1>. QED
  BY <1>2, <1>3, <1>4, <1>5 DEF ProcessLaw

LEMMA HooksDoneKeeps == ProcessInv /\ HooksDone => ProcessInv'
<1>. SUFFICES ASSUME ProcessInv, HooksDone PROVE ProcessInv'
  OBVIOUS
<1>. USE DEF ProcessInv, HooksDone
<1>1. ProcessesTyped'
  BY ProcessesAssumption DEF ProcessesTyped, ProcessesTypeOK, Steps, Commands
<1>2. Waited = 0 /\ child # "running"
  BY DEF HooksGo, Waited, ProcessesTyped, ProcessesTypeOK, Steps
<1>3. ProcessLaw'
  BY <1>2 DEF ProcessLaw, Confinement, NoChildLeft, ExitsTold, HooksInOrder, HooksGo, Steps
<1>. QED
  BY <1>1, <1>3 DEF Launches1, HooksGo

LEMMA TimeoutKeeps == ProcessInv /\ Timeout => ProcessInv'
<1>. SUFFICES ASSUME ProcessInv, Timeout PROVE ProcessInv'
  OBVIOUS
<1>. USE DEF ProcessInv, Timeout, Waits
<1>1. child' \in {"none", "killed"}
  BY DEF Stopped
<1>2. ProcessesTyped'
  <2>1. outcomes' \in Seq({"pass", "block", "failed"})
    <3>1. outcomes \in Seq({"pass", "block", "failed"})
      BY DEF ProcessesTyped, ProcessesTypeOK
    <3>2. outcomes' = outcomes \/ outcomes' = Append(outcomes, "failed")
      OBVIOUS
    <3>. HIDE DEF ProcessInv, Timeout, Waits
    <3>. QED
      BY <3>1, <3>2
  <2>. QED
    BY <1>1, <2>1 DEF ProcessesTyped, ProcessesTypeOK, Steps, Commands
<1>3. Confinement' /\ NoChildLeft' /\ ExitsTold'
  BY <1>1 DEF ProcessLaw, Confinement, NoChildLeft, ExitsTold, Commands
<1>4. HooksInOrder' /\ HooksGo' /\ Launches1'
  <2>1. CASE use = "hooks"
    BY <1>1, <2>1, OutcomeAdded DEF HooksGo, Waited
  <2>2. CASE use # "hooks"
    BY <2>2 DEF HooksInOrder, HooksGo, Launches1
  <2>. QED
    BY <2>1, <2>2
<1>. QED
  BY <1>2, <1>3, <1>4 DEF ProcessLaw

LEMMA CancelKeeps == ProcessInv /\ CancelCaller => ProcessInv'
<1>. SUFFICES ASSUME ProcessInv, CancelCaller PROVE ProcessInv'
  OBVIOUS
<1>. USE DEF ProcessInv, CancelCaller, Waits, Answer
<1>1. ProcessesTyped'
  BY ProcessesAssumption DEF ProcessesTyped, ProcessesTypeOK, Steps, Commands
<1>2. ProcessLaw'
  BY DEF ProcessLaw, Confinement, NoChildLeft, ExitsTold, HooksInOrder, HooksGo, Commands
<1>. QED
  BY <1>1, <1>2 DEF Launches1, HooksGo

LEMMA ProcessesStep == ProcessInv /\ [ProcessesNext]_xvars => ProcessInv'
<1>. SUFFICES ASSUME ProcessInv, [ProcessesNext]_xvars PROVE ProcessInv'
  OBVIOUS
<1>1. CASE ProcessesNext
  BY <1>1, RefuseKeeps, LaunchFailsKeeps, LaunchKeeps, EmptyHookKeeps, ExitKeeps,
     CommunicatedKeeps, HooksDoneKeeps, TimeoutKeeps, CancelKeeps DEF ProcessesNext
<1>2. CASE UNCHANGED xvars
  BY <1>2 DEF xvars, ProcessInv, ProcessesTyped, ProcessesTypeOK, Steps, Commands, ProcessLaw,
     Confinement, NoChildLeft, ExitsTold, HooksInOrder, Launches1, HooksGo, Waited
<1>. QED
  BY <1>1, <1>2

LEMMA ProcessesKept == MCSpec => []ProcessInv
<1>. QED
  BY ProcessesPart, ProcessesStarts, ProcessesStep, PTL

-----------------------------------------------------------------------------
(* Plugins *)

\* The plugins that are prepared are of entries that were considered, and their
\* servers are open until the daemon stops.
ServersInv ==
  /\ considered \in 0..Len(Entries) /\ registered \in 0..Len(prepared)
  /\ servers \in [PluginIds -> {"none", "open", "closed"}]
  /\ prepared \in Seq(PluginIds)
  /\ phase \in {"loading", "serving", "session", "stopped"}
  /\ \A p \in Range(prepared) : \E i \in 1..considered : Entries[i] = p
  /\ OnlyTrusted

\* Settings are those of an operator.
SettingsHeld ==
  plugins \in [signed : BOOLEAN, verifier : BOOLEAN, approve : BOOLEAN,
               allowed : Grants, entry : [PluginIds -> Grants],
               manifest : [PluginIds -> Manifests]]

PluginInv == SettingsHeld /\ ServersInv /\ WithinGrants

LEMMA PluginsStarts == PluginsInit => PluginInv
<1>. SUFFICES ASSUME PluginsInit PROVE PluginInv
  OBVIOUS
<1>1. /\ considered = 0 /\ servers = [p \in PluginIds |-> "none"]
      /\ prepared = <<>> /\ registry = Empty /\ registered = 0 /\ phase = "loading"
  BY DEF PluginsInit, PluginsStart
<1>2. SettingsHeld
  BY DEF PluginsInit, SettingsHeld
<1>3. Range(prepared) = {}
  BY <1>1 DEF Range
<1>4. ServersInv
  BY <1>1, <1>3, PluginsAssumption DEF ServersInv, OnlyTrusted
<1>5. WithinGrants
  BY <1>1 DEF WithinGrants, Empty
<1>. QED
  BY <1>2, <1>4, <1>5 DEF PluginInv

LEMMA RangeAdded ==
  ASSUME NEW S, NEW s \in Seq(S), NEW x \in S
  PROVE  /\ Append(s, x) \in Seq(S) /\ Len(Append(s, x)) = Len(s) + 1
         /\ Range(Append(s, x)) = Range(s) \cup {x}
<1>1. /\ Append(s, x) \in Seq(S) /\ Len(Append(s, x)) = Len(s) + 1
      /\ DOMAIN Append(s, x) = 1..(Len(s) + 1) /\ DOMAIN s = 1..Len(s)
      /\ \A i \in 1..Len(s) : Append(s, x)[i] = s[i]
      /\ Append(s, x)[Len(s) + 1] = x
  OBVIOUS
<1>2. Len(s) \in Nat
  OBVIOUS
<1>. DEFINE t == Append(s, x)
<1>. HIDE DEF t
<1>3. Range(t) = Range(s) \cup {x}
  BY <1>1, <1>2 DEF Range, t
<1>. QED
  BY <1>1, <1>3 DEF t

\* Only what was prepared matters to the registered tools.
LEMMA GrantsStay ==
  ASSUME WithinGrants, UNCHANGED <<plugins, registry>>, Range(prepared) \subseteq Range(prepared')
  PROVE  WithinGrants'
  BY DEF WithinGrants, Manifest

LEMMA SkipKeeps ==
  ASSUME PluginInv, NEW p \in PluginIds, SkipPlugin(p)
  PROVE  PluginInv'
<1>. USE DEF SkipPlugin, Considers, PluginInv
<1>1. ServersInv'
  <2>1. \A q \in Range(prepared) : \E i \in 1..considered' : Entries[i] = q
    BY PluginsAssumption DEF ServersInv
  <2>2. considered' \in 0..Len(Entries)
    BY PluginsAssumption DEF ServersInv
  <2>3. OnlyTrusted'
    BY DEF ServersInv, OnlyTrusted, Manifest
  <2>. QED
    BY <2>1, <2>2, <2>3 DEF ServersInv
<1>. QED
  BY <1>1, GrantsStay DEF SettingsHeld

LEMMA PrepareKeeps ==
  ASSUME PluginInv, NEW p \in PluginIds, PreparePlugin(p)
  PROVE  PluginInv'
<1>1. /\ phase = "loading" /\ considered < Len(Entries) /\ p = Entries[considered + 1]
      /\ considered' = considered + 1
      /\ UNCHANGED <<plugins, registry, registered, phase>>
  BY DEF PreparePlugin, Considers
<1>2. Valid(Manifest(p)) /\ Verified(Manifest(p))
  BY DEF PreparePlugin
<1>3. /\ considered \in 0..Len(Entries) /\ registered \in 0..Len(prepared)
      /\ servers \in [PluginIds -> {"none", "open", "closed"}] /\ prepared \in Seq(PluginIds)
      /\ Len(Entries) \in Nat /\ DOMAIN Entries = 1..Len(Entries)
  BY PluginsAssumption DEF PluginInv, ServersInv
<1>4. p \notin Range(prepared)
  <2>1. SUFFICES ASSUME NEW i \in 1..considered, Entries[i] = p PROVE FALSE
    BY DEF PluginInv, ServersInv
  <2>2. i \in DOMAIN Entries /\ considered + 1 \in DOMAIN Entries /\ i # considered + 1
    BY <1>1, <1>3
  <2>. QED
    BY <1>1, <2>1, <2>2, PluginsAssumption DEF IsInjective
<1>5. considered' \in 0..Len(Entries) /\ 1..considered \subseteq 1..considered' /\ considered' \in 1..considered'
  BY <1>1, <1>3
<1>6. CASE servers' = [servers EXCEPT ![p] = "open"] /\ prepared' = Append(prepared, p)
  <2>1. /\ prepared' \in Seq(PluginIds) /\ Len(prepared') = Len(prepared) + 1
        /\ Range(prepared') = Range(prepared) \cup {p}
    BY <1>3, <1>6, RangeAdded
  <2>2. registered' \in 0..Len(prepared')
    BY <1>1, <1>3, <2>1
  <2>3. \A q \in Range(prepared') : \E i \in 1..considered' : Entries[i] = q
    BY <1>1, <1>5, <2>1 DEF PluginInv, ServersInv
  <2>4. OnlyTrusted'
    <3>1. \A q \in Range(prepared') :
            /\ Manifest(q).schema /\ Manifest(q).pinned
            /\ Manifest(q).signature = "good" \/ (Manifest(q).signature = "none" /\ ~plugins.signed)
            /\ Manifest(q).signature = "good" => plugins.verifier
      BY <1>2, <2>1 DEF PluginInv, ServersInv, OnlyTrusted, Valid, Verified
    <3>2. \A q \in PluginIds : servers'[q] = "open" <=> q \in Range(prepared') /\ phase' # "stopped"
      BY <1>1, <1>3, <1>6, <2>1 DEF PluginInv, ServersInv, OnlyTrusted
    <3>. QED
      BY <1>1, <3>1, <3>2 DEF OnlyTrusted, Manifest
  <2>5. ServersInv'
    BY <1>1, <1>3, <1>5, <1>6, <2>1, <2>2, <2>3, <2>4 DEF PluginInv, ServersInv
  <2>. QED
    BY <1>1, <2>1, <2>5, GrantsStay DEF PluginInv, SettingsHeld
<1>7. CASE servers' = [servers EXCEPT ![p] = "closed"] /\ UNCHANGED prepared
  <2>1. OnlyTrusted'
    <3>1. \A q \in PluginIds : servers'[q] = "open" <=> q \in Range(prepared') /\ phase' # "stopped"
      BY <1>1, <1>3, <1>4, <1>7 DEF PluginInv, ServersInv, OnlyTrusted
    <3>. QED
      BY <1>1, <1>7, <3>1 DEF PluginInv, ServersInv, OnlyTrusted, Manifest
  <2>2. ServersInv'
    BY <1>1, <1>3, <1>5, <1>7, <2>1 DEF PluginInv, ServersInv
  <2>. QED
    BY <1>1, <1>7, <2>2, GrantsStay DEF PluginInv, SettingsHeld
<1>. QED
  BY <1>6, <1>7 DEF PreparePlugin

LEMMA ServeKeeps == PluginInv /\ Serve => PluginInv'
  BY GrantsStay DEF PluginInv, Serve, ServersInv, OnlyTrusted, SettingsHeld, Manifest

LEMMA OpenKeeps == PluginInv /\ OpenSession => PluginInv'
<1>. SUFFICES ASSUME PluginInv, OpenSession PROVE PluginInv'
  OBVIOUS
<1>1. WithinGrants'
  BY DEF OpenSession, WithinGrants, Empty
<1>2. ServersInv'
  BY DEF OpenSession, PluginInv, ServersInv, OnlyTrusted, Manifest
<1>. QED
  BY <1>1, <1>2 DEF PluginInv, OpenSession, SettingsHeld

\* What a tool may be registered with is what its manifest and the grants say.
LEMMA WrapperWithin ==
  ASSUME SettingsHeld, NEW p \in Range(prepared), NEW t, NEW reported, t \in Usable(p, reported)
  PROVE  LET e == Wrapper(p, t)
             Lists(list) == list = {} \/ e.requires \subseteq list
         IN  /\ e.plugin = p
             /\ e.requires \subseteq Manifest(p).caps
             /\ Lists(plugins.allowed) /\ Lists(plugins.entry[p])
             /\ e.requires = {} => t \in DOMAIN Manifest(p).tools
             /\ e.level = "allow" => plugins.approve \/ t \in DOMAIN Manifest(p).tools
  BY DEF Usable, Wrapper, Effective, Granted, CapSet, Requires, Level

LEMMA RegisterKeeps == PluginInv /\ RegisterPlugin => PluginInv'
<1>. SUFFICES ASSUME PluginInv, RegisterPlugin PROVE PluginInv'
  OBVIOUS
<1>1. /\ registered < Len(prepared) /\ registered' = registered + 1
      /\ UNCHANGED <<plugins, considered, servers, prepared, phase>>
  BY DEF RegisterPlugin
<1>2. registered \in 0..Len(prepared) /\ Len(prepared) \in Nat /\ DOMAIN prepared = 1..Len(prepared)
  BY DEF PluginInv, ServersInv
<1>3. registered' \in 0..Len(prepared) /\ registered + 1 \in DOMAIN prepared
  BY <1>1, <1>2
<1>4. ServersInv'
  BY <1>1, <1>3 DEF PluginInv, ServersInv, OnlyTrusted, Manifest
<1>5. ASSUME NEW reported \in SUBSET PluginTools,
             registry' = Registered(prepared[registered + 1], reported)
      PROVE  WithinGrants'
  <2>. DEFINE p == prepared[registered + 1]
              kept == {Manifest(p).space} \X Usable(p, reported)
  <2>1. p \in Range(prepared)
    BY <1>3 DEF Range
  <2>2. /\ DOMAIN registry' \subseteq DOMAIN registry \cup kept
        /\ \A k \in DOMAIN registry' :
             registry'[k] = IF k \in kept THEN Wrapper(p, k[2]) ELSE registry[k]
    BY <1>5 DEF Registered
  <2>3. \A k \in kept : k[1] = Manifest(p).space /\ k[2] \in Usable(p, reported)
    OBVIOUS
  <2>4. SettingsHeld
    BY DEF PluginInv
  <2>. HIDE DEF p, kept
  <2>5. \A k \in kept : 
          LET e == Wrapper(p, k[2])
              Lists(list) == list = {} \/ e.requires \subseteq list
          IN  /\ e.plugin = p
              /\ e.requires \subseteq Manifest(p).caps
              /\ Lists(plugins.allowed) /\ Lists(plugins.entry[p])
              /\ e.requires = {} => k[2] \in DOMAIN Manifest(p).tools
              /\ e.level = "allow" => plugins.approve \/ k[2] \in DOMAIN Manifest(p).tools
    BY <2>1, <2>3, <2>4, WrapperWithin
  <2>6. ASSUME NEW k \in DOMAIN registry'
        PROVE  LET e == registry'[k]
                   Lists(list) == list = {} \/ e.requires \subseteq list
               IN  /\ e.plugin \in Range(prepared) /\ k[1] = Manifest(e.plugin).space
                   /\ e.requires \subseteq Manifest(e.plugin).caps
                   /\ Lists(plugins.allowed) /\ Lists(plugins.entry[e.plugin])
                   /\ e.requires = {} => k[2] \in DOMAIN Manifest(e.plugin).tools
                   /\ e.level = "allow" => plugins.approve \/ k[2] \in DOMAIN Manifest(e.plugin).tools
    <3>1. CASE k \in kept
      <4>1. registry'[k] = Wrapper(p, k[2])
        BY <2>2, <3>1
      <4>. QED
        BY <2>1, <2>3, <2>5, <3>1, <4>1
    <3>2. CASE k \notin kept
      <4>1. k \in DOMAIN registry /\ registry'[k] = registry[k]
        BY <2>2, <3>2
      <4>. QED
        BY <4>1 DEF PluginInv, WithinGrants
    <3>. QED
      BY <3>1, <3>2
  <2>. QED
    BY <1>1, <2>6 DEF WithinGrants, Manifest
<1>6. WithinGrants'
  BY <1>1, <1>5, GrantsStay DEF RegisterPlugin, PluginInv
<1>. QED
  BY <1>1, <1>4, <1>6 DEF PluginInv, SettingsHeld

LEMMA CloseKeeps == PluginInv /\ CloseSession => PluginInv'
  BY GrantsStay DEF PluginInv, CloseSession, ServersInv, OnlyTrusted, SettingsHeld, Manifest

LEMMA StopKeeps == PluginInv /\ StopDaemon => PluginInv'
<1>. SUFFICES ASSUME PluginInv, StopDaemon PROVE PluginInv'
  OBVIOUS
<1>1. /\ phase = "serving" /\ phase' = "stopped"
      /\ servers' = [p \in PluginIds |-> IF p \in Range(prepared) THEN "closed" ELSE servers[p]]
      /\ UNCHANGED <<plugins, considered, prepared, registry, registered>>
  BY DEF StopDaemon
<1>2. \A p \in PluginIds : servers'[p] # "open"
  BY <1>1 DEF PluginInv, ServersInv, OnlyTrusted
<1>3. servers' \in [PluginIds -> {"none", "open", "closed"}]
  BY <1>1 DEF PluginInv, ServersInv
<1>4. OnlyTrusted'
  BY <1>1, <1>2 DEF PluginInv, ServersInv, OnlyTrusted, Manifest
<1>5. ServersInv'
  BY <1>1, <1>3, <1>4 DEF PluginInv, ServersInv
<1>. QED
  BY <1>1, <1>5, GrantsStay DEF PluginInv, SettingsHeld

LEMMA PluginsStep == PluginInv /\ [PluginsNext]_gvars => PluginInv'
<1>. SUFFICES ASSUME PluginInv, [PluginsNext]_gvars PROVE PluginInv'
  OBVIOUS
<1>1. CASE PluginsNext
  BY <1>1, SkipKeeps, PrepareKeeps, ServeKeeps, OpenKeeps, RegisterKeeps, CloseKeeps, StopKeeps
     DEF PluginsNext
<1>2. CASE UNCHANGED gvars
  BY <1>2, GrantsStay DEF gvars, PluginInv, ServersInv, OnlyTrusted, SettingsHeld, Manifest
<1>. QED
  BY <1>1, <1>2

LEMMA PluginsKept == MCSpec => []PluginInv
<1>. QED
  BY PluginsPart, PluginsStarts, PluginsStep, PTL

\* For any manifests, grants and entries, and whatever servers report in
\* whatever order they take each other's names, no plugin tool has more than its
\* manifest declares and every grant allows; and for any number of hooks and any
\* sandbox, commands are confined, none is left running behind an answered
\* caller, and exit codes and vetoes are told (plugins/loader.py,
\* tools/sandbox/runner.py, hooks/manager.py).
THEOREM HostKept == MCSpec => []HostLaw
<1>1. PluginInv /\ ProcessInv => HostLaw
  BY DEF HostLaw, In, PluginInv, ServersInv, PluginLaw, ProcessInv
<1>. QED
  BY <1>1, PluginsKept, ProcessesKept, PTL

-----------------------------------------------------------------------------
(* The router and its circuit breaker *)

LEMMA ModelsPart == MCSpec => ModelsInit /\ [][ModelsNext]_mvars
<1>1. MCInit => ModelsInit
  BY DEF MCInit
<1>2. [MCNext]_mcVars => [ModelsNext]_mvars
  <2>1. UNCHANGED modelVars => UNCHANGED mvars
    BY DEF modelVars
  <2>2. ModelSteps => [ModelsNext]_mvars
    BY DEF ModelSteps
  <2>. QED
    BY <2>1, <2>2 DEF MCNext, mcVars
<1>. QED
  BY <1>1, <1>2, PTL DEF MCSpec

Standings == [pc : Over \cup Calling \cup {"classify", "ready"},
              prompt : Prompts \cup {None}, given : Models \cup {None},
              model : Models \cup {None}, attempt : 0..MaxRetries, refused : Moment]

\* A run that is classified has a prompt that no keyword decides, one that has a
\* model uses it, and only where runs may be given a model it was given one.
Going(s) ==
  /\ s \in Standings
  /\ s.pc = "classify" => s.prompt \in Prompts \ DOMAIN Confident
  /\ s.pc \in Calling \cup {"ready"} => s.model \in Models
  /\ ~giving => s.given = None

RunsGo == run \in [Runs -> Standings] /\ \A r \in Runs : Going(run[r])

\* A model that has failed did so at some moment, of which its circuit tells once
\* it is open.
ClocksAgree ==
  /\ giving \in BOOLEAN /\ now \in 0..MaxNow
  /\ failures \in [Models -> Nat] /\ openedAt \in [Models -> Moment]
  /\ lastFailed \in [Models -> Moment]
  /\ \A m \in Models : lastFailed[m] <= now /\ (failures[m] > 0 => lastFailed[m] # Never)
  /\ BreakerAgrees

CacheKept ==
  /\ DOMAIN cache \subseteq Prompts /\ \A p \in DOMAIN cache : cache[p] \in TierNames
  /\ IsFiniteSet(DOMAIN cache)
  /\ CacheSound

ModelsInv == ClocksAgree /\ RunsGo /\ CacheKept /\ Contained /\ RefusedForCause

LEMMA MomentType ==
  /\ MaxNow \in Nat /\ Recovery \in Nat /\ Threshold \in Nat \ {0} /\ MaxRetries \in Nat \ {0}
  /\ CacheSize \in Nat \ {0}
  /\ \A t \in Moment : t \in Int /\ (t # Never => t \in Nat)
  /\ 0..MaxNow \subseteq Moment /\ Never \in Moment /\ Never \notin Nat
  BY ModelsAssumption DEF Moment, Never

LEMMA StandingGoes ==
  ASSUME NEW pc \in Over
  PROVE  Standing(pc) \in Standings /\ Going(Standing(pc)) /\ Standing(pc).model = None
  BY MomentType DEF Standing, Standings, Going, Over, Calling

\* A part of the runs is no more than all.
LEMMA UnderBound ==
  ASSUME NEW m
  PROVE  /\ IsFiniteSet(Under(m)) /\ Cardinality(Under(m)) \in Nat
         /\ Cardinality(Runs) \in Nat /\ Cardinality(Under(m)) <= Cardinality(Runs)
<1>1. IsFiniteSet(Runs) /\ Under(m) \in SUBSET Runs
  BY ModelsAssumption DEF Under
<1>. QED
  BY <1>1, FS_Subset, FS_CardinalityType

LEMMA ModelsStart == ModelsInit => ModelsInv
<1>. SUFFICES ASSUME ModelsInit PROVE ModelsInv
  OBVIOUS
<1>. USE DEF ModelsInit
<1>1. ClocksAgree
  BY MomentType DEF ClocksAgree, BreakerAgrees, Moment, Never
<1>2. RunsGo
  BY StandingGoes DEF RunsGo, Over
<1>3. CacheKept
  <2>1. DOMAIN cache = {}
    OBVIOUS
  <2>. QED
    BY <2>1, FS_EmptySet, MomentType DEF CacheKept, CacheSound
<1>4. Contained
  <2>1. ASSUME NEW m \in Models
        PROVE  failures[m] + Cardinality(Under(m)) <= Threshold - 1 + Cardinality(Runs)
    BY <2>1, UnderBound, MomentType
  <2>. QED
    BY <2>1 DEF Contained
<1>5. RefusedForCause
  BY DEF RefusedForCause, Standing
<1>. QED
  BY <1>1, <1>2, <1>3, <1>4, <1>5 DEF ModelsInv

\* The first model of a tier is one whose circuit is not open, if there is one.
LEMMA FirstOfTier ==
  ASSUME NEW t \in TierNames
  PROVE  \/ FirstOf(t) = None /\ \A m \in ToSet(Tiers[t]) : IsOpen(m)
         \/ FirstOf(t) \in Models /\ ~IsOpen(FirstOf(t))
<1>. DEFINE s == Tiers[t]
            I == {i \in 1..Len(s) : ~IsOpen(s[i])}
<1>1. s \in Seq(Models) /\ I \subseteq Nat
  BY ModelsAssumption
<1>2. SelectInSeq(s, LAMBDA m : ~IsOpen(m)) = IF I # {} THEN Min(I) ELSE 0
  BY DEF SelectInSeq
<1>. HIDE DEF I
<1>3. CASE I = {}
  <2>1. FirstOf(t) = None
    BY <1>2, <1>3 DEF FirstOf
  <2>2. \A m \in ToSet(s) : IsOpen(m)
    BY <1>1, <1>3 DEF I, ToSet
  <2>. QED
    BY <2>1, <2>2
<1>4. CASE I # {}
  <2>1. Min(I) \in I
    BY <1>1, <1>4, MinOf
  <2>2. Min(I) \in 1..Len(s) /\ ~IsOpen(s[Min(I)])
    BY <2>1 DEF I
  <2>3. Min(I) # 0
    BY <1>1, <2>2
  <2>4. FirstOf(t) = s[Min(I)]
    BY <1>2, <1>4, <2>3 DEF FirstOf
  <2>5. s[Min(I)] \in Models
    BY <1>1, <2>2
  <2>. QED
    BY <2>2, <2>4, <2>5
<1>. QED
  BY <1>3, <1>4

\* A run is refused a model only when all of the chain are open.
LEMMA SelectedModel ==
  ASSUME NEW tier \in TierNames
  PROVE  \/ /\ SelectModel(tier) = None
            /\ \A m \in UNION {ToSet(Tiers[Chain[i]]) : i \in DOMAIN Chain} : IsOpen(m)
         \/ SelectModel(tier) \in Models /\ ~IsOpen(SelectModel(tier))
<1>. DEFINE order == <<tier>> \o Chain
            I == {i \in 1..Len(order) : FirstOf(order[i]) # None}
<1>1. /\ Chain \in Seq(TierNames) /\ order \in Seq(TierNames) /\ I \subseteq Nat
      /\ Len(order) = Len(Chain) + 1 /\ Len(Chain) \in Nat
      /\ \A i \in 1..Len(Chain) : order[i + 1] = Chain[i]
  BY ModelsAssumption
<1>2. SelectInSeq(order, LAMBDA t : FirstOf(t) # None) = IF I # {} THEN Min(I) ELSE 0
  BY DEF SelectInSeq
<1>. HIDE DEF I
<1>3. SelectModel(tier) = IF I = {} \/ Min(I) = 0 THEN None ELSE FirstOf(order[Min(I)])
  BY <1>2 DEF SelectModel
<1>. HIDE DEF order
<1>4. CASE I = {}
  <2>1. \A i \in 1..Len(order) : FirstOf(order[i]) = None
    BY <1>4 DEF I
  <2>2. ASSUME NEW i \in DOMAIN Chain PROVE \A m \in ToSet(Tiers[Chain[i]]) : IsOpen(m)
    <3>1. i + 1 \in 1..Len(order) /\ Chain[i] = order[i + 1] /\ Chain[i] \in TierNames
      BY <1>1
    <3>2. None \notin Models
      BY ModelsAssumption
    <3>. QED
      BY <2>1, <3>1, <3>2, FirstOfTier
  <2>. QED
    BY <1>3, <1>4, <2>2
<1>5. CASE I # {}
  <2>1. Min(I) \in I
    BY <1>1, <1>5, MinOf
  <2>2. Min(I) \in 1..Len(order) /\ FirstOf(order[Min(I)]) # None /\ Min(I) # 0
    BY <1>1, <2>1 DEF I
  <2>3. order[Min(I)] \in TierNames
    BY <1>1, <2>2
  <2>. QED
    BY <1>3, <1>5, <2>2, <2>3, FirstOfTier
<1>. QED
  BY <1>4, <1>5

\* A circuit that is not open and not expired is one that never opened.
LEMMA OpenSince ==
  ASSUME ClocksAgree, NEW m \in Models
  PROVE  /\ IsOpen(m) => lastFailed[m] # Never /\ now - lastFailed[m] <= Recovery
         /\ ~IsOpen(m) /\ ~Expired(m) => failures[m] <= Threshold - 1
<1>1. /\ now \in Nat /\ openedAt[m] \in Moment /\ lastFailed[m] \in Moment /\ failures[m] \in Nat
      /\ failures[m] > 0 => lastFailed[m] # Never
      /\ IF failures[m] < Threshold THEN openedAt[m] = Never ELSE openedAt[m] = lastFailed[m]
  BY MomentType DEF ClocksAgree, BreakerAgrees
<1>. QED
  BY <1>1, MomentType DEF IsOpen, Expired

LEMMA SuccessKeeps ==
  ASSUME ClocksAgree, NEW m \in Models, RecordSuccess(m), UNCHANGED <<giving, now>>
  PROVE  /\ ClocksAgree' /\ UNCHANGED lastFailed
         /\ failures' = [failures EXCEPT ![m] = 0]
<1>1. /\ failures' = [failures EXCEPT ![m] = 0] /\ openedAt' = [openedAt EXCEPT ![m] = Never]
      /\ UNCHANGED lastFailed
  BY DEF RecordSuccess
<1>2. failures' \in [Models -> Nat] /\ openedAt' \in [Models -> Moment]
  BY <1>1, MomentType DEF ClocksAgree
<1>3. ASSUME NEW x \in Models
      PROVE  /\ lastFailed'[x] <= now' /\ (failures'[x] > 0 => lastFailed'[x] # Never)
             /\ IF failures'[x] < Threshold THEN openedAt'[x] = Never
                                            ELSE openedAt'[x] = lastFailed'[x]
  <2>1. CASE x = m
    BY <1>1, <2>1, MomentType DEF ClocksAgree
  <2>2. CASE x # m
    BY <1>1, <2>2 DEF ClocksAgree, BreakerAgrees
  <2>. QED
    BY <2>1, <2>2
<1>. QED
  BY <1>1, <1>2, <1>3 DEF ClocksAgree, BreakerAgrees

LEMMA FailureKeeps ==
  ASSUME ClocksAgree, NEW m \in Models, RecordFailure(m), UNCHANGED <<giving, now>>
  PROVE  /\ ClocksAgree'
         /\ failures' = [failures EXCEPT ![m] = @ + 1] /\ lastFailed' = [lastFailed EXCEPT ![m] = now]
<1>1. /\ failures' = [failures EXCEPT ![m] = @ + 1]
      /\ openedAt' = IF failures[m] + 1 >= Threshold THEN [openedAt EXCEPT ![m] = now] ELSE openedAt
      /\ lastFailed' = [lastFailed EXCEPT ![m] = now]
  BY DEF RecordFailure, FailuresAfter
<1>2. /\ failures' \in [Models -> Nat] /\ openedAt' \in [Models -> Moment]
      /\ lastFailed' \in [Models -> Moment] /\ now \in Nat
  BY <1>1, MomentType DEF ClocksAgree
<1>3. ASSUME NEW x \in Models
      PROVE  /\ lastFailed'[x] <= now' /\ (failures'[x] > 0 => lastFailed'[x] # Never)
             /\ IF failures'[x] < Threshold THEN openedAt'[x] = Never
                                            ELSE openedAt'[x] = lastFailed'[x]
  <2>1. CASE x = m
    <3>1. failures'[x] = failures[x] + 1 /\ lastFailed'[x] = now /\ now # Never
      BY <1>1, <1>2, <2>1, MomentType DEF ClocksAgree
    <3>2. openedAt'[x] = IF failures[x] + 1 >= Threshold THEN now ELSE openedAt[x]
      BY <1>1, <2>1 DEF ClocksAgree
    <3>3. failures[x] < Threshold => openedAt[x] = Never
      BY DEF ClocksAgree, BreakerAgrees
    <3>4. failures[x] \in Nat
      BY DEF ClocksAgree
    <3>. QED
      BY <1>2, <3>1, <3>2, <3>3, <3>4, MomentType
  <2>2. CASE x # m
    BY <1>1, <2>2 DEF ClocksAgree, BreakerAgrees
  <2>. QED
    BY <2>1, <2>2
<1>. QED
  BY <1>1, <1>2, <1>3 DEF ClocksAgree, BreakerAgrees

\* Looking at a model that is not open leaves it below the threshold.
LEMMA LookAtKeeps ==
  ASSUME ClocksAgree, NEW m \in Models, ~IsOpen(m), LookAt(m), UNCHANGED <<giving, now>>
  PROVE  /\ ClocksAgree' /\ UNCHANGED lastFailed
         /\ failures'[m] <= Threshold - 1 /\ \A x \in Models \ {m} : failures'[x] = failures[x]
<1>1. m # None
  BY ModelsAssumption
<1>2. CASE Expired(m)
  <2>1. RecordSuccess(m)
    BY <1>1, <1>2 DEF LookAt
  <2>2. ClocksAgree' /\ UNCHANGED lastFailed /\ failures' = [failures EXCEPT ![m] = 0]
    BY <2>1, SuccessKeeps
  <2>. QED
    BY <2>2, MomentType DEF ClocksAgree
<1>3. CASE ~Expired(m)
  <2>1. UNCHANGED <<failures, openedAt, lastFailed>>
    BY <1>1, <1>3 DEF LookAt
  <2>. QED
    BY <1>3, <2>1, OpenSince DEF ClocksAgree, BreakerAgrees
<1>. QED
  BY <1>2, <1>3

\* The runs under way on m, and its failures, are bounded if both are no more
\* than before, or if it is below the threshold.
LEMMA ContainedOn ==
  ASSUME Contained, ClocksAgree, ClocksAgree', UNCHANGED giving,
         \A m \in Models :
           \/ failures'[m] <= Threshold - 1
           \/ failures'[m] <= failures[m] /\ Under(m)' \subseteq Under(m)
  PROVE  Contained'
<1>. SUFFICES ASSUME ~giving, NEW m \in Models
              PROVE  failures'[m] + Cardinality(Under(m)') <= Threshold - 1 + Cardinality(Runs)
  BY DEF Contained
<1>1. /\ IsFiniteSet(Under(m)') /\ Cardinality(Under(m)') \in Nat
      /\ Cardinality(Under(m)') <= Cardinality(Runs) /\ Cardinality(Runs) \in Nat
  <2>1. IsFiniteSet(Runs) /\ Under(m)' \in SUBSET Runs
    BY ModelsAssumption DEF Under
  <2>. QED
    BY <2>1, FS_Subset, FS_CardinalityType
<1>2. failures[m] \in Nat /\ failures'[m] \in Nat
  BY DEF ClocksAgree
<1>3. CASE failures'[m] <= Threshold - 1
  BY <1>1, <1>2, <1>3, MomentType
<1>4. CASE failures'[m] <= failures[m] /\ Under(m)' \subseteq Under(m)
  <2>1. Cardinality(Under(m)') <= Cardinality(Under(m)) /\ Cardinality(Under(m)) \in Nat
    BY <1>4, UnderBound, FS_Subset
  <2>2. failures[m] + Cardinality(Under(m)) <= Threshold - 1 + Cardinality(Runs)
    BY DEF Contained
  <2>. QED
    BY <1>1, <1>2, <1>4, <2>1, <2>2, MomentType
<1>. QED
  BY <1>3, <1>4

\* A refusal keeps its cause.
LEMMA RefusedOn ==
  ASSUME RefusedForCause, RunsGo, ClocksAgree,
         \A m \in Models : lastFailed'[m] = lastFailed[m] \/ lastFailed'[m] = now,
         \A r \in Runs : run'[r].pc = "refused" => run'[r] = run[r]
  PROVE  RefusedForCause'
<1>. SUFFICES ASSUME NEW r \in Runs, run'[r].pc = "refused",
                     NEW i \in DOMAIN Chain, NEW m \in ToSet(Tiers[Chain[i]])
              PROVE  lastFailed'[m] # Never /\ run'[r].refused - lastFailed'[m] <= Recovery
  BY DEF RefusedForCause
<1>1. run[r].pc = "refused" /\ run'[r] = run[r]
  OBVIOUS
<1>2. lastFailed[m] # Never /\ run[r].refused - lastFailed[m] <= Recovery
  BY <1>1 DEF RefusedForCause
<1>3. m \in Models
  BY ModelsAssumption DEF ToSet
<1>4. run[r].refused \in Moment /\ lastFailed[m] \in Moment /\ lastFailed[m] <= now /\ now \in Nat
  BY <1>3, MomentType DEF RunsGo, Going, Standings, ClocksAgree
<1>5. CASE lastFailed'[m] = lastFailed[m]
  BY <1>1, <1>2, <1>5
<1>6. CASE lastFailed'[m] = now
  BY <1>1, <1>2, <1>4, <1>6, MomentType
<1>. QED
  BY <1>3, <1>5, <1>6

\* One run goes on.
LEMMA OneRuns ==
  ASSUME RunsGo, NEW r \in Runs, NEW s, Going(s), UNCHANGED giving, run' = [run EXCEPT ![r] = s]
  PROVE  /\ RunsGo' /\ run'[r] = s /\ \A q \in Runs \ {r} : run'[q] = run[q]
<1>1. run'[r] = s /\ \A q \in Runs \ {r} : run'[q] = run[q]
  BY DEF RunsGo
<1>2. run' \in [Runs -> Standings]
  BY DEF RunsGo, Going
<1>3. \A q \in Runs : Going(run'[q])
  BY <1>1 DEF RunsGo
<1>. QED
  BY <1>1, <1>2, <1>3 DEF RunsGo, Going

\* The runs under way on other models than the one that a run gets.
LEMMA UnderOf ==
  ASSUME RunsGo, NEW r \in Runs, NEW s, run' = [run EXCEPT ![r] = s], NEW m,
         s.pc \in Calling \cup {"ready"} /\ s.model = m => r \in Under(m)
  PROVE  Under(m)' \subseteq Under(m)
  BY DEF Under, RunsGo

\* A run that has its model is ready.
LEMMA ReadyGoes ==
  ASSUME NEW m \in Models, NEW given \in Models \cup {None}, ~giving => given = None
  PROVE  LET s == [Standing("ready") EXCEPT !.given = given, !.model = m]
         IN  Going(s) /\ s.pc = "ready" /\ s.model = m
<1>. DEFINE r == Standing("ready")
            s == [r EXCEPT !.given = given, !.model = m]
<1>1. r \in Standings /\ r.pc = "ready"
  BY MomentType DEF Standing, Standings
<1>. HIDE DEF r
<1>2. s \in Standings /\ s.pc = r.pc /\ s.given = given /\ s.model = m
  BY <1>1 DEF Standings
<1>. HIDE DEF s
<1>3. Going(s)
  BY <1>1, <1>2 DEF Going
<1>. QED
  BY <1>1, <1>2, <1>3 DEF s, r

LEMMA RouteKeeps ==
  ASSUME ModelsInv, NEW r \in Runs, NEW given \in Models \cup {None}, ~giving => given = None,
         NEW tier \in TierNames, Route(r, given, tier), UNCHANGED <<giving, now>>
  PROVE  ClocksAgree' /\ RunsGo' /\ Contained' /\ RefusedForCause'
<1>. USE DEF ModelsInv
<1>1. None \notin Models
  BY ModelsAssumption
<1>2. CASE given # None
  <2>. DEFINE s == [Standing("ready") EXCEPT !.given = given, !.model = given]
  <2>1. given \in Models /\ giving
    BY <1>2
  <2>2. run' = [run EXCEPT ![r] = s] /\ UNCHANGED <<failures, openedAt, lastFailed>>
    BY <1>2 DEF Route
  <2>3. Going(s) /\ s.pc = "ready"
    BY <2>1, ReadyGoes
  <2>. HIDE DEF s
  <2>4. RunsGo' /\ run'[r] = s /\ \A q \in Runs \ {r} : run'[q] = run[q]
    BY <2>2, <2>3, OneRuns
  <2>5. ClocksAgree'
    BY <2>2 DEF ClocksAgree, BreakerAgrees
  <2>6. RefusedForCause'
    BY <2>2, <2>3, <2>4, RefusedOn
  <2>7. Contained'
    BY <2>1 DEF Contained
  <2>. QED
    BY <2>4, <2>5, <2>6, <2>7
<1>3. CASE given = None /\ SelectModel(tier) = None
  <2>. DEFINE s == [Standing("refused") EXCEPT !.refused = now]
  <2>1. run' = [run EXCEPT ![r] = s] /\ UNCHANGED <<failures, openedAt, lastFailed>>
    BY <1>3 DEF Route, LookAt
  <2>2. Going(s) /\ s.pc = "refused" /\ s.refused = now
    BY MomentType DEF Going, Standing, Standings, Over, Calling, ClocksAgree
  <2>. HIDE DEF s
  <2>3. RunsGo' /\ run'[r] = s /\ \A q \in Runs \ {r} : run'[q] = run[q]
    BY <2>1, <2>2, OneRuns
  <2>4. ClocksAgree'
    BY <2>1 DEF ClocksAgree, BreakerAgrees
  <2>5. RefusedForCause'
    <3>1. ASSUME NEW i \in DOMAIN Chain, NEW m \in ToSet(Tiers[Chain[i]])
          PROVE  lastFailed[m] # Never /\ now - lastFailed[m] <= Recovery
      <4>1. IsOpen(m)
        BY <1>1, <1>3, SelectedModel
      <4>2. m \in Models
        BY ModelsAssumption DEF ToSet
      <4>. QED
        BY <4>1, <4>2, OpenSince
    <3>2. ASSUME NEW q \in Runs, run'[q].pc = "refused",
                 NEW m \in UNION {ToSet(Tiers[Chain[i]]) : i \in DOMAIN Chain}
          PROVE  lastFailed'[m] # Never /\ run'[q].refused - lastFailed'[m] <= Recovery
      <4>1. CASE q = r
        BY <2>1, <2>2, <2>3, <3>1, <4>1
      <4>2. CASE q # r
        <5>1. run'[q] = run[q]
          BY <2>3, <4>2
        <5>. QED
          BY <2>1, <3>2, <5>1 DEF RefusedForCause
      <4>. QED
        BY <4>1, <4>2
    <3>. QED
      BY <3>2 DEF RefusedForCause
  <2>6. Contained'
    <3>1. \A m \in Models : Under(m)' \subseteq Under(m)
      BY <2>1, <2>2, UnderOf DEF Calling
    <3>2. \A m \in Models : failures'[m] <= failures[m]
      BY <2>1 DEF ClocksAgree
    <3>. QED
      BY <2>4, <3>1, <3>2, ContainedOn
  <2>. QED
    BY <2>3, <2>4, <2>5, <2>6
<1>4. CASE given = None /\ SelectModel(tier) # None
  <2>1. PICK m \in Models : m = SelectModel(tier) /\ ~IsOpen(m)
    BY <1>4, SelectedModel
  <2>. DEFINE s == [Standing("ready") EXCEPT !.given = given, !.model = m]
  <2>2. run' = [run EXCEPT ![r] = s] /\ LookAt(m)
    BY <1>1, <1>4, <2>1 DEF Route
  <2>3. Going(s) /\ s.pc = "ready" /\ s.model = m
    BY <1>4, ReadyGoes
  <2>. HIDE DEF s
  <2>4. RunsGo' /\ run'[r] = s /\ \A q \in Runs \ {r} : run'[q] = run[q]
    BY <2>2, <2>3, OneRuns
  <2>5. /\ ClocksAgree' /\ UNCHANGED lastFailed
        /\ failures'[m] <= Threshold - 1 /\ \A x \in Models \ {m} : failures'[x] = failures[x]
    BY <2>1, <2>2, LookAtKeeps
  <2>6. RefusedForCause'
    BY <2>3, <2>4, <2>5, RefusedOn
  <2>7. ASSUME NEW x \in Models
        PROVE  \/ failures'[x] <= Threshold - 1
               \/ failures'[x] <= failures[x] /\ Under(x)' \subseteq Under(x)
    <3>1. CASE x = m
      BY <2>5, <3>1
    <3>2. CASE x # m
      <4>1. Under(x)' \subseteq Under(x)
        BY <2>2, <2>3, <3>2, UnderOf
      <4>. QED
        BY <2>5, <3>2, <4>1 DEF ClocksAgree
    <3>. QED
      BY <3>1, <3>2
  <2>8. Contained'
    BY <2>5, <2>7, ContainedOn
  <2>. QED
    BY <2>4, <2>5, <2>6, <2>8
<1>. QED
  BY <1>2, <1>3, <1>4
\* What a run does by itself touches neither circuits nor refusals, and it is
\* under way on no other model than before.
LEMMA OwnKeeps ==
  ASSUME ModelsInv, NEW r \in Runs, NEW s, Going(s), run' = [run EXCEPT ![r] = s],
         s.pc # "refused",
         \A m \in Models : s.pc \in Calling \cup {"ready"} /\ s.model = m => r \in Under(m),
         UNCHANGED <<giving, now, failures, openedAt, lastFailed>>
  PROVE  ClocksAgree' /\ RunsGo' /\ Contained' /\ RefusedForCause'
<1>1. ClocksAgree /\ RunsGo /\ Contained /\ RefusedForCause
  BY DEF ModelsInv
<1>2. ClocksAgree'
  BY <1>1 DEF ClocksAgree, BreakerAgrees
<1>3. RunsGo' /\ run'[r] = s /\ \A q \in Runs \ {r} : run'[q] = run[q]
  BY <1>1, OneRuns
<1>4. \A m \in Models : failures'[m] <= failures[m] /\ Under(m)' \subseteq Under(m)
  <2>1. \A m \in Models : Under(m)' \subseteq Under(m)
    BY <1>1, UnderOf
  <2>. QED
    BY <1>1, <2>1 DEF ClocksAgree
<1>5. Contained'
  BY <1>1, <1>2, <1>4, ContainedOn
<1>6. RefusedForCause'
  BY <1>1, <1>3, RefusedOn
<1>. QED
  BY <1>2, <1>3, <1>5, <1>6

\* What is stored of a prompt that no keyword decides, or as the keyword says.
LEMMA StoredKeeps ==
  ASSUME CacheKept, NEW p \in Prompts, NEW tier \in TierNames,
         p \in DOMAIN Confident => tier = Confident[p], cache' = Stored(p, tier)
  PROVE  CacheKept'
<1>. DEFINE kept == IF Cardinality(DOMAIN cache) >= CacheSize THEN {} ELSE DOMAIN cache
<1>1. cache' = [q \in kept \cup {p} |-> IF q = p THEN tier ELSE cache[q]]
  BY DEF Stored
<1>2. IsFiniteSet(DOMAIN cache) /\ Cardinality(DOMAIN cache) \in Nat
  BY FS_CardinalityType DEF CacheKept
<1>3. IsFiniteSet(kept) /\ Cardinality(kept) \in Nat /\ Cardinality(kept) < CacheSize
  BY <1>2, FS_EmptySet, MomentType
<1>4. kept \subseteq DOMAIN cache
  OBVIOUS
<1>. HIDE DEF kept
<1>5. DOMAIN cache' = kept \cup {p} /\ \A q \in DOMAIN cache' : cache'[q] = IF q = p THEN tier ELSE cache[q]
  BY <1>1
<1>6. IsFiniteSet(DOMAIN cache') /\ Cardinality(DOMAIN cache') <= CacheSize
  <2>1. /\ IsFiniteSet(kept \cup {p})
        /\ \/ Cardinality(kept \cup {p}) = Cardinality(kept)
           \/ Cardinality(kept \cup {p}) = Cardinality(kept) + 1
    BY <1>3, FS_AddElement
  <2>. HIDE DEF kept
  <2>2. Cardinality(kept \cup {p}) <= CacheSize
    BY <1>3, <2>1, MomentType
  <2>. QED
    BY <1>5, <2>1, <2>2
<1>7. DOMAIN cache' \subseteq Prompts /\ \A q \in DOMAIN cache' : cache'[q] \in TierNames
  BY <1>4, <1>5 DEF CacheKept
<1>8. \A q \in DOMAIN cache' \cap DOMAIN Confident : cache'[q] = Confident[q]
  BY <1>4, <1>5 DEF CacheKept, CacheSound
<1>. QED
  BY <1>6, <1>7, <1>8 DEF CacheKept, CacheSound

LEMMA BeginKeeps ==
  ASSUME ModelsInv, NEW r \in Runs, NEW p \in Prompts, NEW m \in Given, Begin(r, p, m),
         UNCHANGED giving
  PROVE  ModelsInv'
<1>. USE DEF ModelsInv
<1>1. m \in Models \cup {None} /\ (~giving => m = None)
  BY DEF Given
<1>2. CASE Cached(p) /\ Route(r, m, cache[p]) /\ UNCHANGED cache
  <2>1. cache[p] \in TierNames
    BY <1>2 DEF CacheKept, Cached
  <2>2. ClocksAgree' /\ RunsGo' /\ Contained' /\ RefusedForCause'
    BY <1>1, <1>2, <2>1, RouteKeeps DEF Begin
  <2>. QED
    BY <1>2, <2>2 DEF CacheKept, CacheSound
<1>3. CASE p \in DOMAIN Confident /\ cache' = Stored(p, Confident[p]) /\ Route(r, m, Confident[p])
  <2>1. Confident[p] \in TierNames
    BY <1>3, ModelsAssumption
  <2>2. ClocksAgree' /\ RunsGo' /\ Contained' /\ RefusedForCause'
    BY <1>1, <1>3, <2>1, RouteKeeps DEF Begin
  <2>. QED
    BY <1>3, <2>1, <2>2, StoredKeeps
<1>4. CASE /\ p \notin DOMAIN Confident
           /\ run' = [run EXCEPT ![r] = [Standing("classify") EXCEPT !.prompt = p, !.given = m]]
           /\ UNCHANGED <<failures, openedAt, cache, lastFailed>>
  <2>. DEFINE c == Standing("classify")
              s == [c EXCEPT !.prompt = p, !.given = m]
  <2>1. c \in Standings /\ c.pc = "classify"
    BY MomentType DEF Standing, Standings
  <2>. HIDE DEF c
  <2>2. s \in Standings /\ s.pc = "classify" /\ s.given = m /\ s.prompt = p
    BY <1>1, <2>1 DEF Standings
  <2>3. run' = [run EXCEPT ![r] = s]
    BY <1>4 DEF c
  <2>. HIDE DEF s
  <2>4. Going(s)
    BY <1>1, <1>4, <2>2 DEF Going, Calling
  <2>5. ClocksAgree' /\ RunsGo' /\ Contained' /\ RefusedForCause'
    BY <1>4, <2>2, <2>3, <2>4, OwnKeeps DEF Begin, Calling
  <2>. QED
    BY <1>4, <2>5 DEF CacheKept, CacheSound
<1>. QED
  BY <1>2, <1>3, <1>4 DEF Begin

LEMMA ClassifyKeeps ==
  ASSUME ModelsInv, NEW r \in Runs, Classify(r), UNCHANGED giving
  PROVE  ModelsInv'
<1>. USE DEF ModelsInv
<1>1. PICK tier \in TierNames : /\ cache' = Stored(run[r].prompt, tier)
                                /\ Route(r, run[r].given, tier)
  BY DEF Classify
<1>2. /\ run[r].prompt \in Prompts \ DOMAIN Confident /\ run[r].given \in Models \cup {None}
      /\ ~giving => run[r].given = None
  BY DEF Classify, RunsGo, Going, Standings
<1>3. ClocksAgree' /\ RunsGo' /\ Contained' /\ RefusedForCause'
  BY <1>1, <1>2, RouteKeeps DEF Classify
<1>4. CacheKept'
  BY <1>1, <1>2, StoredKeeps
<1>. QED
  BY <1>3, <1>4

\* The steps of a run that leave the circuits alone.
LEMMA RestKeeps ==
  ASSUME ModelsInv, NEW r \in Runs, UNCHANGED giving,
         Ask(r) \/ Retry(r) \/ Finish(r) \/ CancelRun(r)
  PROVE  ModelsInv'
<1>. USE DEF ModelsInv
<1>1. run[r] \in Standings /\ Going(run[r])
  BY DEF RunsGo
<1>2. CASE Ask(r)
  <2>1. PICK how \in Calling : run' = [run EXCEPT ![r] = [run[r] EXCEPT !.pc = how, !.attempt = 1]]
    BY <1>2 DEF Ask, Calling, RunsGo
  <2>. DEFINE s == [run[r] EXCEPT !.pc = how, !.attempt = 1]
  <2>2. s \in Standings /\ s.pc = how /\ s.model = run[r].model /\ s.given = run[r].given
    <3>1. 1 \in 0..MaxRetries
      BY MomentType
    <3>. QED
      BY <1>1, <3>1 DEF Standings
  <2>3. run' = [run EXCEPT ![r] = s]
    BY <2>1
  <2>. HIDE DEF s
  <2>4. Going(s) /\ s.pc # "refused"
    BY <1>1, <1>2, <2>2 DEF Going, Ask, Calling
  <2>5. \A m \in Models : s.model = m => r \in Under(m)
    BY <1>2, <2>2 DEF Under, Ask
  <2>6. ClocksAgree' /\ RunsGo' /\ Contained' /\ RefusedForCause'
    BY <1>2, <2>3, <2>4, <2>5, OwnKeeps DEF Ask
  <2>. QED
    BY <1>2, <2>6 DEF Ask, CacheKept, CacheSound
<1>3. CASE Retry(r)
  <2>1. PICK n \in 0..MaxRetries : n = run[r].attempt + 1
    BY <1>1, <1>3, MomentType DEF Retry, Retried, Standings
  <2>. DEFINE s == [run[r] EXCEPT !.attempt = n]
  <2>2. /\ s \in Standings /\ s.pc = run[r].pc /\ s.model = run[r].model /\ s.given = run[r].given
        /\ s.prompt = run[r].prompt
    BY <1>1 DEF Standings
  <2>3. run' = [run EXCEPT ![r] = s]
    BY <1>3, <2>1 DEF Retry, RunsGo
  <2>. HIDE DEF s
  <2>4. Going(s) /\ s.pc # "refused"
    BY <1>1, <1>3, <2>2 DEF Going, Retry, Calling
  <2>5. \A m \in Models : s.model = m => r \in Under(m)
    BY <1>3, <2>2 DEF Under, Retry
  <2>6. ClocksAgree' /\ RunsGo' /\ Contained' /\ RefusedForCause'
    BY <1>3, <2>3, <2>4, <2>5, OwnKeeps DEF Retry
  <2>. QED
    BY <1>3, <2>6 DEF Retry, CacheKept, CacheSound
<1>4. CASE Finish(r) \/ CancelRun(r)
  <2>1. PICK pc \in {"done", "cancelled"} : run' = [run EXCEPT ![r] = Standing(pc)]
    BY <1>4 DEF Finish, CancelRun
  <2>2. Going(Standing(pc)) /\ Standing(pc).pc = pc
    BY StandingGoes DEF Over, Standing
  <2>3. pc \notin Calling \cup {"ready", "refused"}
    BY DEF Calling
  <2>4. ClocksAgree' /\ RunsGo' /\ Contained' /\ RefusedForCause'
    BY <1>4, <2>1, <2>2, <2>3, OwnKeeps DEF Finish, CancelRun
  <2>. QED
    BY <1>4, <2>4 DEF Finish, CancelRun, CacheKept, CacheSound
<1>. QED
  BY <1>2, <1>3, <1>4

\* The response is in: the model starts again from no failure.
LEMMA SucceedKeeps ==
  ASSUME ModelsInv, NEW r \in Runs, Succeed(r), UNCHANGED giving
  PROVE  ModelsInv'
<1>. USE DEF ModelsInv
<1>1. run[r] \in Standings /\ Going(run[r]) /\ run[r].pc \in Calling /\ run[r].model \in Models
  BY DEF RunsGo, Going, Succeed
<1>2. PICK m \in Models : m = run[r].model
  BY <1>1
<1>3. ClocksAgree' /\ UNCHANGED lastFailed /\ failures' = [failures EXCEPT ![m] = 0]
  BY <1>2, SuccessKeeps DEF Succeed
<1>. DEFINE s == [run[r] EXCEPT !.pc = "ready", !.attempt = 0]
<1>4. s \in Standings /\ s.pc = "ready" /\ s.model = m /\ s.given = run[r].given
  <2>1. 0 \in 0..MaxRetries
    BY MomentType
  <2>. QED
    BY <1>1, <1>2, <2>1 DEF Standings
<1>5. run' = [run EXCEPT ![r] = s]
  BY DEF Succeed, RunsGo
<1>. HIDE DEF s
<1>6. Going(s)
  BY <1>1, <1>4 DEF Going, Calling
<1>7. RunsGo' /\ run'[r] = s /\ \A q \in Runs \ {r} : run'[q] = run[q]
  BY <1>5, <1>6, OneRuns
<1>8. RefusedForCause'
  BY <1>3, <1>4, <1>7, RefusedOn
<1>9. ASSUME NEW x \in Models
      PROVE  \/ failures'[x] <= Threshold - 1
             \/ failures'[x] <= failures[x] /\ Under(x)' \subseteq Under(x)
  <2>1. CASE x = m
    BY <1>3, <2>1, MomentType DEF ClocksAgree
  <2>2. CASE x # m
    <3>1. Under(x)' \subseteq Under(x)
      BY <1>4, <1>5, <2>2, UnderOf
    <3>. QED
      BY <1>3, <2>2, <3>1 DEF ClocksAgree
  <2>. QED
    BY <2>1, <2>2
<1>10. Contained'
  BY <1>3, <1>9, ContainedOn
<1>11. CacheKept'
  BY DEF Succeed, CacheKept, CacheSound
<1>. QED
  BY <1>3, <1>7, <1>8, <1>10, <1>11

\* The call fails: one failure more of its model, and one run less on it.
LEMMA LoseKeeps ==
  ASSUME ModelsInv, NEW r \in Runs, Lose(r), UNCHANGED giving
  PROVE  ModelsInv'
<1>. USE DEF ModelsInv
<1>1. run[r] \in Standings /\ Going(run[r]) /\ run[r].pc \in Calling /\ run[r].model \in Models
  BY DEF RunsGo, Going, Lose
<1>2. PICK m \in Models : m = run[r].model
  BY <1>1
<1>3. /\ ClocksAgree' /\ failures' = [failures EXCEPT ![m] = @ + 1]
      /\ lastFailed' = [lastFailed EXCEPT ![m] = now]
  BY <1>2, FailureKeeps DEF Lose
<1>. DEFINE s == Standing("failed")
<1>4. Going(s) /\ s.pc = "failed"
  BY StandingGoes DEF Over, Standing
<1>5. run' = [run EXCEPT ![r] = s]
  BY DEF Lose
<1>. HIDE DEF s
<1>6. RunsGo' /\ run'[r] = s /\ \A q \in Runs \ {r} : run'[q] = run[q]
  BY <1>4, <1>5, OneRuns
<1>7. RefusedForCause'
  <2>1. \A x \in Models : lastFailed'[x] = lastFailed[x] \/ lastFailed'[x] = now
    BY <1>3 DEF ClocksAgree
  <2>. QED
    BY <1>4, <1>6, <2>1, RefusedOn
<1>8. \A x : Under(x)' \subseteq Under(x) \ {r}
  BY <1>4, <1>6 DEF Under, Calling
<1>9. Contained'
  <2>. SUFFICES ASSUME ~giving, NEW x \in Models
                PROVE  failures'[x] + Cardinality(Under(x)') <= Threshold - 1 + Cardinality(Runs)
    BY DEF Contained
  <2>1. /\ failures[x] \in Nat
        /\ failures[x] + Cardinality(Under(x)) <= Threshold - 1 + Cardinality(Runs)
    BY DEF Contained, ClocksAgree
  <2>2. /\ IsFiniteSet(Under(x)) /\ Cardinality(Under(x)) \in Nat /\ Cardinality(Runs) \in Nat
        /\ IsFiniteSet(Under(x)') /\ Cardinality(Under(x)') \in Nat
        /\ Cardinality(Under(x)') <= Cardinality(Under(x))
    BY <1>8, UnderBound, FS_Subset, FS_CardinalityType
  <2>3. CASE x = m
    <3>1. r \in Under(x)
      BY <1>1, <1>2, <2>3 DEF Under
    <3>2. IsFiniteSet(Under(x) \ {r}) /\ Cardinality(Under(x) \ {r}) = Cardinality(Under(x)) - 1
      BY <2>2, <3>1, FS_RemoveElement
    <3>3. Cardinality(Under(x)') <= Cardinality(Under(x) \ {r})
      BY <1>8, <3>2, FS_Subset
    <3>4. failures'[x] = failures[x] + 1
      BY <1>3, <2>3 DEF ClocksAgree
    <3>. QED
      BY <2>1, <2>2, <3>2, <3>3, <3>4, MomentType
  <2>4. CASE x # m
    <3>1. failures'[x] = failures[x]
      BY <1>3, <2>4 DEF ClocksAgree
    <3>. QED
      BY <2>1, <2>2, <3>1, MomentType
  <2>. QED
    BY <2>3, <2>4
<1>10. CacheKept'
  BY DEF Lose, CacheKept, CacheSound
<1>. QED
  BY <1>3, <1>6, <1>7, <1>9, <1>10

LEMMA TickKeeps ==
  ASSUME ModelsInv, Tick, UNCHANGED giving
  PROVE  ModelsInv'
<1>. USE DEF ModelsInv
<1>1. now' = now + 1 /\ now < MaxNow /\ UNCHANGED <<failures, openedAt, cache, run, lastFailed>>
  BY DEF Tick
<1>2. ClocksAgree'
  <2>1. now' \in 0..MaxNow
    BY <1>1, MomentType DEF ClocksAgree
  <2>2. \A m \in Models : lastFailed'[m] <= now' /\ (failures'[m] > 0 => lastFailed'[m] # Never)
    <3>. TAKE m \in Models
    <3>1. lastFailed[m] <= now /\ lastFailed[m] \in Int /\ now \in Nat
      BY MomentType DEF ClocksAgree
    <3>. QED
      BY <1>1, <3>1 DEF ClocksAgree
  <2>. QED
    BY <1>1, <2>1, <2>2 DEF ClocksAgree, BreakerAgrees
<1>3. RunsGo' /\ CacheKept' /\ RefusedForCause'
  BY <1>1 DEF RunsGo, Going, CacheKept, CacheSound, RefusedForCause
<1>4. \A m : Under(m)' = Under(m)
  BY <1>1 DEF Under
<1>5. Contained'
  BY <1>1, <1>4 DEF Contained
<1>. QED
  BY <1>2, <1>3, <1>5

LEMMA ModelsStep == ModelsInv /\ [ModelsNext]_mvars => ModelsInv'
<1>. SUFFICES ASSUME ModelsInv, [ModelsNext]_mvars PROVE ModelsInv'
  OBVIOUS
<1>1. CASE Tick /\ UNCHANGED giving
  BY <1>1, TickKeeps
<1>2. CASE \E r \in Runs : RunStep(r) /\ UNCHANGED giving
  <2>1. PICK r \in Runs : RunStep(r) /\ UNCHANGED giving
    BY <1>2
  <2>2. CASE \E p \in Prompts, m \in Given : Begin(r, p, m)
    BY <2>1, <2>2, BeginKeeps
  <2>3. CASE Classify(r)
    BY <2>1, <2>3, ClassifyKeeps
  <2>4. CASE Ask(r) \/ Retry(r) \/ Finish(r) \/ CancelRun(r)
    BY <2>1, <2>4, RestKeeps
  <2>5. CASE Succeed(r)
    BY <2>1, <2>5, SucceedKeeps
  <2>6. CASE Lose(r)
    BY <2>1, <2>6, LoseKeeps
  <2>. QED
    BY <2>1, <2>2, <2>3, <2>4, <2>5, <2>6 DEF RunStep
<1>3. CASE UNCHANGED mvars
  <2>1. /\ UNCHANGED giving /\ UNCHANGED now /\ UNCHANGED failures /\ UNCHANGED openedAt
        /\ UNCHANGED cache /\ UNCHANGED run /\ UNCHANGED lastFailed
    BY <1>3 DEF mvars
  <2>2. ClocksAgree' /\ RunsGo' /\ CacheKept' /\ RefusedForCause'
    BY <2>1 DEF ModelsInv, ClocksAgree, BreakerAgrees, RunsGo, Going, CacheKept, CacheSound,
                RefusedForCause
  <2>3. Contained'
    BY <2>1 DEF ModelsInv, Contained, Under
  <2>. QED
    BY <2>2, <2>3 DEF ModelsInv
<1>. QED
  BY <1>1, <1>2, <1>3 DEF ModelsNext

\* What is known of the router says what is asked of it.
LEMMA ModelsLaw == ModelsInv => RouterLaw /\ ModelsTypeOK
<1>. SUFFICES ASSUME ModelsInv PROVE RouterLaw /\ ModelsTypeOK
  OBVIOUS
<1>1. RouterLaw
  BY DEF ModelsInv, ClocksAgree, CacheKept, RouterLaw
<1>2. ASSUME NEW r \in Runs
      PROVE  /\ run[r].model \in Models \cup {None} /\ run[r].prompt \in Prompts \cup {None}
             /\ run[r].attempt \in 0..MaxRetries /\ run[r].refused \in Moment
  BY DEF ModelsInv, RunsGo, Going, Standings
<1>. QED
  BY <1>1, <1>2 DEF ModelsInv, ClocksAgree, CacheKept, ModelsTypeOK

\* However the calls of concurrent runs interleave with the clock: a circuit is
\* open exactly from the threshold on, and a failing model is left alone; no run
\* is refused a model without need (router/router.py, router/breaker.py); and the
\* cache of prompts keeps its bound and the keywords (router/intent.py).
THEOREM RouterKept == MCSpec => [](RouterLaw /\ ModelsTypeOK)
<1>1. ModelsInit /\ [][ModelsNext]_mvars => []ModelsInv
  BY ModelsStart, ModelsStep, PTL
<1>. QED
  BY <1>1, ModelsPart, ModelsLaw, PTL

-----------------------------------------------------------------------------
(* The calls of a response *)

\* What a text is made of, and a call as it is merged.
Piece == (Calls \X Nat) \cup {"printed"}
Args == [dict : BOOLEAN, text : Seq(Piece)]
Delta == [id : Calls \cup Nat, name : Calls \cup {Nothing}, args : Args]

\* The place of the call with the id of another.
PlaceIs(got, delta) ==
  LET at == SelectInSeq(got, LAMBDA e : e.id = delta.id) IN
  /\ at \in 0..Len(got)
  /\ at = 0 => \A i \in 1..Len(got) : got[i].id # delta.id
  /\ at # 0 => at \in 1..Len(got) /\ got[at].id = delta.id

LEMMA PlaceOfCall ==
  ASSUME NEW got \in Seq(Delta), NEW delta \in Delta
  PROVE  PlaceIs(got, delta)
<1>. USE DEF PlaceIs
<1>. DEFINE S == {i \in 1..Len(got) : got[i].id = delta.id}
<1>1. S # {} => Min(S) \in S
  <2>1. S \subseteq Nat
    OBVIOUS
  <2>. HIDE DEF S
  <2>. QED BY <2>1, MinOf
<1>2. SelectInSeq(got, LAMBDA e : e.id = delta.id) = IF S # {} THEN Min(S) ELSE 0
  BY DEF SelectInSeq
<1>. DEFINE at == SelectInSeq(got, LAMBDA e : e.id = delta.id)
<1>3. CASE S = {}
  <2>1. at = 0
    BY <1>2, <1>3
  <2>2. \A i \in 1..Len(got) : got[i].id # delta.id
    BY <1>3
  <2>. HIDE DEF at
  <2>3. Len(got) \in Nat
    OBVIOUS
  <2>. QED BY <2>1, <2>2, <2>3 DEF at
<1>4. CASE S # {}
  <2>1. at \in S
    BY <1>1, <1>2, <1>4
  <2>2. at \in 1..Len(got) /\ got[at].id = delta.id
    BY <2>1
  <2>. HIDE DEF at, S
  <2>3. at # 0 /\ at \in 0..Len(got)
    BY <2>2
  <2>. QED BY <2>2, <2>3 DEF at
<1>. QED BY <1>3, <1>4

LEMMA JoinedType ==
  ASSUME NEW held \in Args, NEW coming \in Args
  PROVE  Joined(held, coming) \in Args
<1>1. held.text \in Seq(Piece) /\ coming.text \in Seq(Piece) /\ <<"printed">> \in Seq(Piece)
  BY DEF Args, Piece
<1>2. Printed(held) \in Seq(Piece)
  BY <1>1 DEF Printed
<1>3. Printed(held) \o coming.text \in Seq(Piece)
  BY <1>1, <1>2
<1>. QED BY <1>3 DEF Joined, Raw, Args

LEMMA DeltasType ==
  ASSUME NEW got \in Seq(Delta), NEW delta \in Delta
  PROVE  /\ MergeDelta(got, delta) \in Seq(Delta)
         /\ Collect(got, delta) \in Seq(Delta)
         /\ FinishCall(got, delta) \in Seq(Delta)
<1>. DEFINE at == SelectInSeq(got, LAMBDA e : e.id = delta.id)
<1>1. /\ at \in 0..Len(got)
      /\ at # 0 => at \in 1..Len(got)
  BY PlaceOfCall DEF PlaceIs
<1>2. Append(got, delta) \in Seq(Delta)
  OBVIOUS
<1>3. MergeDelta(got, delta) = IF at = 0 THEN Append(got, delta)
                               ELSE [got EXCEPT ![at].args = Joined(@, delta.args)]
  BY DEF MergeDelta
<1>4. Collect(got, delta) = IF at = 0 THEN Append(got, delta) ELSE [got EXCEPT ![at] = delta]
  BY DEF Collect
<1>. HIDE DEF at
<1>5. at # 0 => [got EXCEPT ![at] = delta] \in Seq(Delta)
  BY <1>1
<1>6. at # 0 => [got EXCEPT ![at].args = Joined(@, delta.args)] \in Seq(Delta)
  <2>. SUFFICES ASSUME at # 0
                PROVE  [got EXCEPT ![at].args = Joined(@, delta.args)] \in Seq(Delta)
    OBVIOUS
  <2>1. got[at] \in Delta
    BY <1>1
  <2>2. Joined(got[at].args, delta.args) \in Args
    BY <2>1, JoinedType DEF Delta
  <2>3. [got[at] EXCEPT !.args = Joined(got[at].args, delta.args)] \in Delta
    BY <2>1, <2>2 DEF Delta
  <2>. QED BY <1>1, <2>3
<1>7. FinishCall(got, delta) \in Seq(Delta)
  <2>1. [delta EXCEPT !.args.dict = TRUE] \in Delta
    BY DEF Delta, Args
  <2>. QED BY <2>1 DEF FinishCall
<1>. QED BY <1>2, <1>3, <1>4, <1>5, <1>6, <1>7

\* What is merged, delta by delta.
LEMMA MergedFold ==
  ASSUME NEW got \in Seq(Delta), NEW calls \in Seq(Delta)
  PROVE  \E g \in [0..Len(calls) -> Seq(Delta)] :
           /\ g[0] = got /\ g[Len(calls)] = Merged(got, calls)
           /\ \A k \in 1..Len(calls) : g[k] = MergeDelta(g[k - 1], calls[k])
<1>. DEFINE n == Len(calls)
            step == [k \in 1..n |-> [d \in Seq(Delta) |-> MergeDelta(d, calls[k])]]
            Is(it) == it = [S \in SUBSET (1..n) |->
                              IF S = {} THEN got
                              ELSE MergeDelta(it[S \ {Max(S)}], calls[Max(S)])]
            it == CHOOSE f : Is(f)
<1>1. Merged(got, calls) = it[1..n]
  <2>1. DOMAIN calls = 1..n
    OBVIOUS
  <2>. QED BY <2>1 DEF Merged, FoldLeft, MapThenFoldSet
<1>2. Stepping(n, Seq(Delta), got, step)
  <2>1. got \in Seq(Delta) /\ \A k \in 1..n : calls[k] \in Delta
    OBVIOUS
  <2>2. \A k \in 1..n, d \in Seq(Delta) : MergeDelta(d, calls[k]) \in Seq(Delta)
    BY <2>1, DeltasType
  <2>3. step \in [1..n -> [Seq(Delta) -> Seq(Delta)]]
    BY <2>2
  <2>. QED BY <2>1, <2>3 DEF Stepping
<1>. HIDE DEF step
<1>3. PICK f : Iterates(n, Seq(Delta), got, step, f)
  BY <1>2, Iteration
<1>4. ASSUME NEW S \in SUBSET (1..n), S # {}
      PROVE  Max(S) \in 1..n /\ S \ {Max(S)} \in SUBSET (1..n)
  <2>. HIDE DEF n
  <2>1. n \in Nat /\ S \subseteq 0..n
    BY <1>2 DEF Stepping
  <2>2. Max(S) \in S
    BY <1>4, <2>1, Greatest
  <2>. QED BY <2>2
<1>5. Is(f)
  BY <1>3, <1>4 DEF step, Iterates
<1>6. Is(it)
  BY <1>5
<1>. HIDE DEF it
<1>7. Computes(n, Seq(Delta), got, step, it)
  BY <1>4, <1>6 DEF step, Computes
<1>8. PICK g \in [0..n -> Seq(Delta)] :
        /\ g[0] = got /\ g[n] = it[1..n]
        /\ \A k \in 1..n : g[k] = step[k][g[k - 1]]
  <2>. HIDE DEF n, Is
  <2>. QED BY <1>2, <1>7, FoldSteps
<1>9. \A k \in 1..n : g[k] = MergeDelta(g[k - 1], calls[k])
  <2>1. \A k \in 1..n : k - 1 \in 0..n
    BY Len(calls) \in Nat
  <2>. HIDE DEF n
  <2>2. \A k \in 1..n : g[k - 1] \in Seq(Delta)
    BY <1>8, <2>1
  <2>. QED BY <1>8, <2>2 DEF step
<1>. QED BY <1>1, <1>8, <1>9

\* What is collected, call by call.
LEMMA CollectedFold ==
  ASSUME NEW calls \in Seq(Delta)
  PROVE  \E g \in [0..Len(calls) -> Seq(Delta)] :
           /\ g[0] = <<>> /\ g[Len(calls)] = FoldLeft(Collect, <<>>, calls)
           /\ \A k \in 1..Len(calls) : g[k] = Collect(g[k - 1], calls[k])
<1>. DEFINE n == Len(calls)
            step == [k \in 1..n |-> [d \in Seq(Delta) |-> Collect(d, calls[k])]]
            Is(it) == it = [S \in SUBSET (1..n) |->
                              IF S = {} THEN <<>>
                              ELSE Collect(it[S \ {Max(S)}], calls[Max(S)])]
            it == CHOOSE f : Is(f)
<1>1. FoldLeft(Collect, <<>>, calls) = it[1..n]
  <2>1. DOMAIN calls = 1..n
    OBVIOUS
  <2>. QED BY <2>1 DEF FoldLeft, MapThenFoldSet
<1>2. Stepping(n, Seq(Delta), <<>>, step)
  <2>1. <<>> \in Seq(Delta) /\ \A k \in 1..n : calls[k] \in Delta
    OBVIOUS
  <2>2. \A k \in 1..n, d \in Seq(Delta) : Collect(d, calls[k]) \in Seq(Delta)
    BY <2>1, DeltasType
  <2>3. step \in [1..n -> [Seq(Delta) -> Seq(Delta)]]
    BY <2>2
  <2>. QED BY <2>1, <2>3 DEF Stepping
<1>. HIDE DEF step
<1>3. PICK f : Iterates(n, Seq(Delta), <<>>, step, f)
  BY <1>2, Iteration
<1>4. ASSUME NEW S \in SUBSET (1..n), S # {}
      PROVE  Max(S) \in 1..n /\ S \ {Max(S)} \in SUBSET (1..n)
  <2>. HIDE DEF n
  <2>1. n \in Nat /\ S \subseteq 0..n
    BY <1>2 DEF Stepping
  <2>2. Max(S) \in S
    BY <1>4, <2>1, Greatest
  <2>. QED BY <2>2
<1>5. Is(f)
  BY <1>3, <1>4 DEF step, Iterates
<1>6. Is(it)
  BY <1>5
<1>. HIDE DEF it
<1>7. Computes(n, Seq(Delta), <<>>, step, it)
  BY <1>4, <1>6 DEF step, Computes
<1>8. PICK g \in [0..n -> Seq(Delta)] :
        /\ g[0] = <<>> /\ g[n] = it[1..n]
        /\ \A k \in 1..n : g[k] = step[k][g[k - 1]]
  <2>. HIDE DEF n, Is
  <2>. QED BY <1>2, <1>7, FoldSteps
<1>9. \A k \in 1..n : g[k] = Collect(g[k - 1], calls[k])
  <2>1. \A k \in 1..n : k - 1 \in 0..n
    BY Len(calls) \in Nat
  <2>. HIDE DEF n
  <2>2. \A k \in 1..n : g[k - 1] \in Seq(Delta)
    BY <1>8, <2>1
  <2>. QED BY <1>8, <2>2 DEF step
<1>. QED BY <1>1, <1>8, <1>9

\* What is finished, call by call.
LEMMA FinishedFold ==
  ASSUME NEW got \in Seq(Delta)
  PROVE  \E g \in [0..Len(got) -> Seq(Delta)] :
           /\ g[0] = <<>> /\ g[Len(got)] = Finalized(got)
           /\ \A k \in 1..Len(got) : g[k] = FinishCall(g[k - 1], got[k])
<1>. DEFINE n == Len(got)
            step == [k \in 1..n |-> [d \in Seq(Delta) |-> FinishCall(d, got[k])]]
            Is(it) == it = [S \in SUBSET (1..n) |->
                              IF S = {} THEN <<>>
                              ELSE FinishCall(it[S \ {Max(S)}], got[Max(S)])]
            it == CHOOSE f : Is(f)
<1>1. Finalized(got) = it[1..n]
  <2>1. DOMAIN got = 1..n
    OBVIOUS
  <2>. QED BY <2>1 DEF Finalized, FoldLeft, MapThenFoldSet
<1>2. Stepping(n, Seq(Delta), <<>>, step)
  <2>1. <<>> \in Seq(Delta) /\ \A k \in 1..n : got[k] \in Delta
    OBVIOUS
  <2>2. \A k \in 1..n, d \in Seq(Delta) : FinishCall(d, got[k]) \in Seq(Delta)
    BY <2>1, DeltasType
  <2>3. step \in [1..n -> [Seq(Delta) -> Seq(Delta)]]
    BY <2>2
  <2>. QED BY <2>1, <2>3 DEF Stepping
<1>. HIDE DEF step
<1>3. PICK f : Iterates(n, Seq(Delta), <<>>, step, f)
  BY <1>2, Iteration
<1>4. ASSUME NEW S \in SUBSET (1..n), S # {}
      PROVE  Max(S) \in 1..n /\ S \ {Max(S)} \in SUBSET (1..n)
  <2>. HIDE DEF n
  <2>1. n \in Nat /\ S \subseteq 0..n
    BY <1>2 DEF Stepping
  <2>2. Max(S) \in S
    BY <1>4, <2>1, Greatest
  <2>. QED BY <2>2
<1>5. Is(f)
  BY <1>3, <1>4 DEF step, Iterates
<1>6. Is(it)
  BY <1>5
<1>. HIDE DEF it
<1>7. Computes(n, Seq(Delta), <<>>, step, it)
  BY <1>4, <1>6 DEF step, Computes
<1>8. PICK g \in [0..n -> Seq(Delta)] :
        /\ g[0] = <<>> /\ g[n] = it[1..n]
        /\ \A k \in 1..n : g[k] = step[k][g[k - 1]]
  <2>. HIDE DEF n, Is
  <2>. QED BY <1>2, <1>7, FoldSteps
<1>9. \A k \in 1..n : g[k] = FinishCall(g[k - 1], got[k])
  <2>1. \A k \in 1..n : k - 1 \in 0..n
    BY Len(got) \in Nat
  <2>. HIDE DEF n
  <2>2. \A k \in 1..n : g[k - 1] \in Seq(Delta)
    BY <1>8, <2>1
  <2>. QED BY <1>8, <2>2 DEF step
<1>. QED BY <1>1, <1>8, <1>9

\* What a provider that does not open a call apart sends of it, and what the
\* loop has of a call of which so much was sent.
SentWhole == style \in {"whole", "together"}
HeldArgs(c, amount) ==
  [dict |-> SentWhole \/ Pieces = 1,
   text |-> [j \in 1..(IF SentWhole THEN Pieces ELSE amount) |-> <<c, j>>]]

\* The calls that were begun, each once, with what was sent of them.
Lists(got, amount) ==
  /\ got \in Seq(Delta)
  /\ \A i \in 1..Len(got) :
       /\ got[i].name \in Calls /\ amount[got[i].name] > 0
       /\ got[i].id = IF style = "together" THEN i ELSE got[i].name
       /\ got[i].args = HeldArgs(got[i].name, amount[got[i].name])
  /\ \A i, j \in 1..Len(got) : got[i].name = got[j].name => i = j
  /\ \A c \in Calls : amount[c] > 0 => \E i \in 1..Len(got) : got[i].name = c

\* How this provider may send.
Sending == style \in {"whole", "together", "pieces"} /\ sent \in [Calls -> Nat]

LEMMA FragmentIs ==
  ASSUME Sending, NEW c \in Calls, sent[c] < LastFrag, NEW i \in Nat
  PROVE  /\ ToolCall(NextFrag(c), i) \in Delta
         /\ ToolCall(NextFrag(c), i).id = IF style = "together" THEN i ELSE c
         /\ SentWhole \/ sent[c] = 0 => ToolCall(NextFrag(c), i).name = c
         /\ ToolCall(NextFrag(c), i).args =
              [dict |-> SentWhole \/ Pieces = 1,
               text |-> IF SentWhole THEN TextOf(c) ELSE << <<c, sent[c] + 1>> >>]
<1>. USE CallsAssumption DEF Sending
<1>1. Pieces \in Nat /\ Pieces > 0 /\ sent[c] \in Nat
  OBVIOUS
<1>2. TextOf(c) \in Seq(Piece) /\ Len(TextOf(c)) = Pieces /\ TextOf(c) # <<>>
  BY <1>1 DEF TextOf, Piece
<1>3. IsObject(TextOf(c))
  BY DEF IsObject
<1>4. CASE SentWhole
  <2>1. /\ NextFrag(c).id = IF style = "together" THEN Nothing ELSE c
        /\ NextFrag(c).name = c /\ NextFrag(c).text = TextOf(c)
    BY <1>4 DEF SentWhole, NextFrag, Frag
  <2>2. Arguments(TextOf(c)) = [dict |-> TRUE, text |-> TextOf(c)]
    BY <1>3 DEF Arguments, Dict
  <2>3. ToolCall(NextFrag(c), i) =
          [id |-> IF style = "together" THEN i ELSE c, name |-> c,
           args |-> [dict |-> TRUE, text |-> TextOf(c)]]
    BY <2>1, <2>2 DEF ToolCall
  <2>4. [dict |-> TRUE, text |-> TextOf(c)] \in Args
    BY <1>2 DEF Args
  <2>5. ToolCall(NextFrag(c), i) \in Delta
    BY <2>3, <2>4 DEF Delta
  <2>6. (SentWhole \/ Pieces = 1) = TRUE
    BY <1>4
  <2>7. [dict |-> SentWhole \/ Pieces = 1,
         text |-> IF SentWhole THEN TextOf(c) ELSE << <<c, sent[c] + 1>> >>]
          = [dict |-> TRUE, text |-> TextOf(c)]
    BY <1>4, <2>6
  <2>. QED
    BY <2>3, <2>5, <2>7
<1>5. CASE ~SentWhole
  <2>1. style = "pieces" /\ sent[c] < Pieces
    BY <1>5 DEF SentWhole, LastFrag
  <2>. DEFINE piece == << <<c, sent[c] + 1>> >>
  <2>2. TextOf(c)[sent[c] + 1] = <<c, sent[c] + 1>>
    BY <1>1, <2>1 DEF TextOf
  <2>3. NextFrag(c) = Frag(c, IF sent[c] = 0 THEN c ELSE Nothing, piece)
    BY <2>1, <2>2 DEF NextFrag
  <2>4. piece \in Seq(Piece) /\ Len(piece) = 1 /\ piece # <<>>
    BY <1>1 DEF Piece
  <2>5. IsObject(piece) <=> Pieces = 1
    <3>1. ASSUME Pieces = 1 PROVE IsObject(piece)
      <4>1. sent[c] = 0
        BY <1>1, <2>1, <3>1
      <4>2. piece = TextOf(c)
        BY <3>1, <4>1 DEF TextOf
      <4>. QED BY <4>2 DEF IsObject
    <3>2. ASSUME IsObject(piece) PROVE Pieces = 1
      <4>1. PICK d \in Calls : piece = TextOf(d)
        BY <3>2 DEF IsObject
      <4>2. Len(TextOf(d)) = Pieces
        BY <1>1 DEF TextOf
      <4>. QED BY <2>4, <4>1, <4>2
    <3>. QED BY <3>1, <3>2
  <2>. HIDE DEF piece
  <2>6. Arguments(piece) = [dict |-> Pieces = 1, text |-> piece]
    BY <2>4, <2>5 DEF Arguments, Dict, Raw
  <2>7. ToolCall(NextFrag(c), i) =
          [id |-> c, name |-> IF sent[c] = 0 THEN c ELSE Nothing,
           args |-> [dict |-> Pieces = 1, text |-> piece]]
    BY <2>3, <2>6 DEF ToolCall, Frag
  <2>8. [dict |-> Pieces = 1, text |-> piece] \in Args
    BY <2>4 DEF Args
  <2>9. ToolCall(NextFrag(c), i) \in Delta
    BY <2>7, <2>8 DEF Delta
  <2>10. (SentWhole \/ Pieces = 1) = (Pieces = 1)
    BY <1>5
  <2>. QED
    BY <1>5, <2>1, <2>7, <2>9, <2>10 DEF piece
<1>. QED BY <1>4, <1>5

\* A call that was not begun goes last.
LEMMA ListsNew ==
  ASSUME Sending, NEW got, NEW amount \in [Calls -> Nat], Lists(got, amount),
         NEW c \in Calls, sent[c] < LastFrag, amount[c] = 0, sent[c] = 0,
         NEW i \in Nat, style = "together" => i = Len(got) + 1
  PROVE  LET delta == ToolCall(NextFrag(c), i) IN
         /\ MergeDelta(got, delta) = Append(got, delta)
         /\ Collect(got, delta) = Append(got, delta)
         /\ Lists(Append(got, delta), [amount EXCEPT ![c] = @ + 1])
<1>. DEFINE delta == ToolCall(NextFrag(c), i)
            at == SelectInSeq(got, LAMBDA e : e.id = delta.id)
            t == Append(got, delta)
            more == [amount EXCEPT ![c] = @ + 1]
<1>1. /\ delta \in Delta
      /\ delta.id = IF style = "together" THEN i ELSE c
      /\ delta.name = c
      /\ delta.args = HeldArgs(c, 1)
  <2>1. /\ delta \in Delta /\ delta.name = c
        /\ delta.id = IF style = "together" THEN i ELSE c
        /\ delta.args = [dict |-> SentWhole \/ Pieces = 1,
                        text |-> IF SentWhole THEN TextOf(c) ELSE << <<c, 0 + 1>> >>]
    BY FragmentIs
  <2>2. HeldArgs(c, 1) = [dict |-> SentWhole \/ Pieces = 1,
                          text |-> IF SentWhole THEN TextOf(c) ELSE << <<c, 0 + 1>> >>]
    <3>1. [j \in 1..1 |-> <<c, j>>] = << <<c, 0 + 1>> >>
      OBVIOUS
    <3>2. CASE SentWhole
      BY <3>2 DEF HeldArgs, TextOf
    <3>3. CASE ~SentWhole
      BY <3>1, <3>3 DEF HeldArgs
    <3>. QED BY <3>2, <3>3
  <2>. HIDE DEF delta
  <2>. QED BY <2>1, <2>2
<1>2. got \in Seq(Delta)
  BY DEF Lists
<1>3. \A k \in 1..Len(got) : got[k].name \in Calls /\ got[k].name # c
  BY DEF Lists
<1>. HIDE DEF delta
<1>4. \A k \in 1..Len(got) : got[k].id # delta.id
  <2>. SUFFICES ASSUME NEW k \in 1..Len(got) PROVE got[k].id # delta.id
    OBVIOUS
  <2>1. got[k].id = IF style = "together" THEN k ELSE got[k].name
    BY DEF Lists
  <2>. QED BY <1>1, <1>2, <1>3, <2>1
<1>5. at = 0
  <2>1. got \in Seq(Delta) /\ delta \in Delta /\ Len(got) \in Nat
    BY <1>1, <1>2
  <2>2. PlaceIs(got, delta)
    BY <2>1, PlaceOfCall
  <2>3. /\ at \in 0..Len(got)
        /\ at # 0 => at \in 1..Len(got) /\ got[at].id = delta.id
    BY <2>2 DEF PlaceIs
  <2>. HIDE DEF at
  <2>. QED BY <1>4, <2>1, <2>3
<1>6. MergeDelta(got, delta) = t /\ Collect(got, delta) = t
  BY <1>5 DEF MergeDelta, Collect
<1>7. /\ t \in Seq(Delta) /\ Len(t) = Len(got) + 1 /\ Len(got) \in Nat
      /\ t[Len(got) + 1] = delta
      /\ \A k \in 1..Len(got) : t[k] = got[k]
  BY <1>1, <1>2
<1>8. more \in [Calls -> Nat] /\ more[c] = 1 /\ \A d \in Calls \ {c} : more[d] = amount[d]
  OBVIOUS
<1>. HIDE DEF t, more, at
<1>9. Lists(t, more)
  <2>1. ASSUME NEW k \in 1..Len(t)
        PROVE  /\ t[k].name \in Calls /\ more[t[k].name] > 0
               /\ t[k].id = IF style = "together" THEN k ELSE t[k].name
               /\ t[k].args = HeldArgs(t[k].name, more[t[k].name])
    <3>1. CASE k = Len(got) + 1
      BY <1>1, <1>7, <1>8, <3>1
    <3>2. CASE k \in 1..Len(got)
      <4>1. t[k] = got[k] /\ more[got[k].name] = amount[got[k].name]
        BY <1>3, <1>7, <1>8, <3>2
      <4>. QED BY <3>2, <4>1 DEF Lists
    <3>. QED BY <1>7, <3>1, <3>2
  <2>2. ASSUME NEW k \in 1..Len(t), NEW m \in 1..Len(t), t[k].name = t[m].name
        PROVE  k = m
    <3>1. \A l \in 1..Len(t) : t[l].name = c => l = Len(got) + 1
      BY <1>3, <1>7
    <3>2. k \in 1..Len(got) /\ m \in 1..Len(got) => k = m
      BY <1>7, <2>2 DEF Lists
    <3>. QED BY <1>1, <1>7, <2>2, <3>1, <3>2
  <2>3. ASSUME NEW d \in Calls, more[d] > 0
        PROVE  \E k \in 1..Len(t) : t[k].name = d
    <3>1. CASE d = c
      BY <1>1, <1>7, <3>1
    <3>2. CASE d # c
      <4>1. PICK k \in 1..Len(got) : got[k].name = d
        BY <1>8, <2>3, <3>2 DEF Lists
      <4>. QED BY <1>7, <4>1
    <3>. QED BY <3>1, <3>2
  <2>. QED BY <1>7, <2>1, <2>2, <2>3 DEF Lists
<1>. QED BY <1>6, <1>9 DEF delta, t, more

\* The next piece of a call that was begun goes to what there is of it.
LEMMA ListsMore ==
  ASSUME Sending, NEW got, NEW amount \in [Calls -> Nat], Lists(got, amount),
         NEW c \in Calls, sent[c] < LastFrag, amount[c] = sent[c], sent[c] > 0,
         NEW i \in Nat
  PROVE  LET delta == ToolCall(NextFrag(c), i) IN
         Lists(MergeDelta(got, delta), [amount EXCEPT ![c] = @ + 1])
<1>. USE CallsAssumption DEF Sending
<1>. DEFINE delta == ToolCall(NextFrag(c), i)
            at == SelectInSeq(got, LAMBDA e : e.id = delta.id)
            piece == << <<c, sent[c] + 1>> >>
            more == [amount EXCEPT ![c] = @ + 1]
<1>1. style = "pieces" /\ sent[c] < Pieces /\ ~SentWhole
  BY DEF LastFrag, SentWhole
<1>2. delta \in Delta /\ delta.id = c /\ delta.args = [dict |-> FALSE, text |-> piece]
  <2>1. Pieces # 1
    BY <1>1
  <2>. HIDE DEF piece
  <2>2. delta \in Delta /\ delta.id = c /\ delta.args = [dict |-> SentWhole \/ Pieces = 1, text |-> piece]
    BY <1>1, FragmentIs DEF piece
  <2>. QED BY <1>1, <2>1, <2>2
<1>3. got \in Seq(Delta) /\ Len(got) \in Nat
  BY DEF Lists
<1>4. \A k \in 1..Len(got) : got[k].id = got[k].name
  BY <1>1 DEF Lists
<1>. HIDE DEF delta
<1>5. at \in 1..Len(got) /\ got[at].name = c
  <2>1. PICK k \in 1..Len(got) : got[k].name = c
    BY DEF Lists
  <2>2. /\ at = 0 => \A l \in 1..Len(got) : got[l].id # delta.id
        /\ at # 0 => at \in 1..Len(got) /\ got[at].id = delta.id
    <3>1. got \in Seq(Delta) /\ delta \in Delta
      BY <1>2, <1>3
    <3>2. PlaceIs(got, delta)
      BY <3>1, PlaceOfCall
    <3>. QED BY <3>2 DEF PlaceIs
  <2>. HIDE DEF at
  <2>3. got[k].id = delta.id
    BY <1>2, <1>4, <2>1
  <2>. QED BY <1>2, <1>4, <2>2, <2>3
<1>. DEFINE t == MergeDelta(got, delta)
<1>6. t = [got EXCEPT ![at].args = Joined(@, delta.args)]
  <2>1. at # 0
    BY <1>3, <1>5
  <2>. QED BY <2>1 DEF MergeDelta
<1>7. t \in Seq(Delta)
  BY <1>2, <1>3, DeltasType
<1>. HIDE DEF at, t
<1>8. got[at] \in Delta /\ got[at].args = HeldArgs(c, sent[c])
  BY <1>3, <1>5 DEF Lists
<1>9. Joined(got[at].args, delta.args) = HeldArgs(c, sent[c] + 1)
  <2>. DEFINE held == [j \in 1..sent[c] |-> <<c, j>>]
              coming == [j \in 1..(sent[c] + 1) |-> <<c, j>>]
  <2>1. HeldArgs(c, sent[c]) = [dict |-> FALSE, text |-> held]
    <3>1. (SentWhole \/ Pieces = 1) = FALSE
      BY <1>1
    <3>. QED BY <1>1, <3>1 DEF HeldArgs
  <2>2. HeldArgs(c, sent[c] + 1) = [dict |-> FALSE, text |-> coming]
    <3>1. (SentWhole \/ Pieces = 1) = FALSE
      BY <1>1
    <3>. QED BY <1>1, <3>1 DEF HeldArgs
  <2>3. held \o piece = coming
    <3>1. sent[c] \in Nat
      OBVIOUS
    <3>2. \A j \in Nat : <<c, j>> \in Piece
      BY DEF Piece
    <3>3. held \in Seq(Piece) /\ Len(held) = sent[c]
      BY <3>1, <3>2
    <3>4. piece \in Seq(Piece) /\ Len(piece) = 1 /\ piece[1] = <<c, sent[c] + 1>>
      BY <3>1, <3>2
    <3>5. \A j \in 1..sent[c] : held[j] = <<c, j>>
      OBVIOUS
    <3>. HIDE DEF held, piece
    <3>6. held \o piece = [j \in 1..(sent[c] + 1) |-> IF j <= sent[c] THEN held[j] ELSE piece[j - sent[c]]]
      <4>. DEFINE u == held \o piece
      <4>a. held \in Seq(Piece) /\ piece \in Seq(Piece)
        BY <3>3, <3>4
      <4>1. /\ held \o piece \in Seq(Piece) /\ Len(held \o piece) = Len(held) + Len(piece)
            /\ \A j \in 1..(Len(held) + Len(piece)) :
                 (held \o piece)[j] = IF j <= Len(held) THEN held[j] ELSE piece[j - Len(held)]
        BY <4>a, ConcatProperties
      <4>b. /\ u \in Seq(Piece) /\ Len(u) = Len(held) + Len(piece)
            /\ \A j \in 1..(Len(held) + Len(piece)) :
                 u[j] = IF j <= Len(held) THEN held[j] ELSE piece[j - Len(held)]
        BY <4>1
      <4>. HIDE DEF u
      <4>2. u = [j \in 1..Len(u) |-> u[j]]
        BY <4>b
      <4>3. Len(u) = sent[c] + 1
        BY <3>1, <3>3, <3>4, <4>b
      <4>4. \A j \in 1..(sent[c] + 1) : u[j] = IF j <= sent[c] THEN held[j] ELSE piece[j - sent[c]]
        BY <3>1, <3>3, <3>4, <4>b
      <4>5. u = [j \in 1..(sent[c] + 1) |-> IF j <= sent[c] THEN held[j] ELSE piece[j - sent[c]]]
        BY <4>2, <4>3, <4>4
      <4>. QED BY <4>5 DEF u
    <3>7. \A j \in 1..(sent[c] + 1) :
            (IF j <= sent[c] THEN held[j] ELSE piece[j - sent[c]]) = <<c, j>>
      BY <3>1, <3>4, <3>5
    <3>. QED BY <3>6, <3>7
  <2>. HIDE DEF held, coming, piece
  <2>4. got[at].args.dict = FALSE /\ got[at].args.text = held
    BY <1>8, <2>1
  <2>5. delta.args.dict = FALSE /\ delta.args.text = piece
    BY <1>2
  <2>6. Joined(got[at].args, delta.args) = [dict |-> FALSE, text |-> held \o piece]
    BY <2>4, <2>5 DEF Joined, Printed, Raw
  <2>. QED BY <2>2, <2>3, <2>6
<1>10. /\ Len(t) = Len(got)
       /\ \A k \in 1..Len(got) :
            /\ t[k].name = got[k].name /\ t[k].id = got[k].id
            /\ t[k].args = IF k = at THEN HeldArgs(c, sent[c] + 1) ELSE got[k].args
  <2>1. \A k \in 1..Len(got) : got[k] \in Delta
    BY <1>3
  <2>. QED BY <1>3, <1>5, <1>6, <1>8, <1>9, <2>1 DEF Delta
<1>11. /\ more \in [Calls -> Nat] /\ more[c] = sent[c] + 1
       /\ \A d \in Calls \ {c} : more[d] = amount[d]
  OBVIOUS
<1>. HIDE DEF more
<1>12. Lists(t, more)
  <2>1. ASSUME NEW k \in 1..Len(t)
        PROVE  /\ t[k].name \in Calls /\ more[t[k].name] > 0
               /\ t[k].id = IF style = "together" THEN k ELSE t[k].name
               /\ t[k].args = HeldArgs(t[k].name, more[t[k].name])
    <3>1. /\ got[k].name \in Calls /\ amount[got[k].name] > 0
          /\ got[k].args = HeldArgs(got[k].name, amount[got[k].name])
      BY <1>10 DEF Lists
    <3>2. k = at <=> got[k].name = c
      BY <1>5, <1>10 DEF Lists
    <3>. QED BY <1>1, <1>4, <1>10, <1>11, <3>1, <3>2
  <2>2. ASSUME NEW k \in 1..Len(t), NEW m \in 1..Len(t), t[k].name = t[m].name
        PROVE  k = m
    BY <1>10, <2>2 DEF Lists
  <2>3. ASSUME NEW d \in Calls, more[d] > 0
        PROVE  \E k \in 1..Len(t) : t[k].name = d
    <3>1. amount[d] > 0
      BY <1>11, <2>3
    <3>2. PICK k \in 1..Len(got) : got[k].name = d
      BY <3>1 DEF Lists
    <3>. QED BY <1>10, <3>2
  <2>. QED BY <1>7, <2>1, <2>2, <2>3 DEF Lists
<1>. QED BY <1>12 DEF delta, t, more

\* What is sent of each call with the first calls of a chunk.
SentWith(chunk, k) ==
  [c \in Calls |-> IF \E j \in 1..k : chunk[j] = c THEN sent[c] + 1 ELSE sent[c]]

\* A chunk that can be sent next.
Sendable(chunk) ==
  /\ chunk \in Seq(Calls)
  /\ \A i, j \in 1..Len(chunk) : chunk[i] = chunk[j] => i = j
  /\ \A i \in 1..Len(chunk) : sent[chunk[i]] < LastFrag

LEMMA ParsedIs ==
  ASSUME Sending, NEW chunk, Sendable(chunk)
  PROVE  /\ Parsed(chunk) \in Seq(Delta) /\ Len(Parsed(chunk)) = Len(chunk)
         /\ \A i \in 1..Len(chunk) : Parsed(chunk)[i] = ToolCall(NextFrag(chunk[i]), i)
<1>1. chunk \in Seq(Calls) /\ DOMAIN chunk = 1..Len(chunk) /\ Len(chunk) \in Nat
  BY DEF Sendable
<1>2. \A i \in 1..Len(chunk) : ToolCall(NextFrag(chunk[i]), i) \in Delta
  <2>. SUFFICES ASSUME NEW i \in 1..Len(chunk)
                PROVE  ToolCall(NextFrag(chunk[i]), i) \in Delta
    OBVIOUS
  <2>1. chunk[i] \in Calls /\ sent[chunk[i]] < LastFrag /\ i \in Nat
    BY <1>1 DEF Sendable
  <2>. QED BY <2>1, FragmentIs
<1>3. Parsed(chunk) = [i \in 1..Len(chunk) |-> ToolCall(NextFrag(chunk[i]), i)]
  BY <1>1 DEF Parsed
<1>4. Parsed(chunk) \in [1..Len(chunk) -> Delta]
  BY <1>2, <1>3
<1>. QED BY <1>1, <1>3, <1>4

\* The deltas of a chunk list its calls.
LEMMA ChunkLists ==
  ASSUME Sending, NEW chunk, Sendable(chunk),
         NEW g \in [0..Len(chunk) -> Seq(Delta)], Lists(g[0], sent),
         style = "together" => Len(g[0]) = 0,
         \A k \in 1..Len(chunk) :
           \/ g[k] = MergeDelta(g[k - 1], Parsed(chunk)[k])
           \/ sent[chunk[k]] = 0 /\ g[k] = Collect(g[k - 1], Parsed(chunk)[k])
  PROVE  Lists(g[Len(chunk)], SentWith(chunk, Len(chunk)))
<1>. DEFINE n == Len(chunk)
            T == {k \in 0..n : /\ Lists(g[k], SentWith(chunk, k))
                               /\ style = "together" => Len(g[k]) = k}
<1>1. n \in Nat /\ chunk \in Seq(Calls)
  BY DEF Sendable
<1>2. 0 \in T
  <2>1. SentWith(chunk, 0) = sent
    BY DEF SentWith, Sending
  <2>. QED BY <1>1, <2>1
<1>3. ASSUME NEW k \in 0..(n - 1), k \in T PROVE k + 1 \in T
  <2>. DEFINE c == chunk[k + 1]
              amount == SentWith(chunk, k)
              delta == ToolCall(NextFrag(c), k + 1)
  <2>1. k \in 0..n /\ k + 1 \in 1..n /\ (k + 1) - 1 = k /\ k + 1 \in Nat
    BY <1>1
  <2>2. c \in Calls /\ sent[c] < LastFrag /\ sent[c] \in Nat
    BY <1>1, <2>1 DEF Sendable, Sending
  <2>3. ~(\E j \in 1..k : chunk[j] = c)
    BY <1>1, <2>1 DEF Sendable
  <2>4. amount \in [Calls -> Nat] /\ amount[c] = sent[c]
    BY <2>2, <2>3 DEF SentWith, Sending
  <2>5. [amount EXCEPT ![c] = @ + 1] = SentWith(chunk, k + 1)
    <3>1. 1..(k + 1) = 1..k \cup {k + 1}
      OBVIOUS
    <3>2. \A d \in Calls : (\E j \in 1..(k + 1) : chunk[j] = d)
                            <=> (\E j \in 1..k : chunk[j] = d) \/ d = c
      BY <3>1
    <3>. QED BY <2>2, <2>3, <3>2 DEF SentWith
  <2>6. Parsed(chunk)[k + 1] = delta
    BY <2>1, ParsedIs
  <2>7. Lists(g[k], amount) /\ (style = "together" => Len(g[k]) = k) /\ g[k] \in Seq(Delta)
    BY <1>3, <2>1
  <2>8. \/ g[k + 1] = MergeDelta(g[k], delta)
        \/ sent[c] = 0 /\ g[k + 1] = Collect(g[k], delta)
    BY <2>1, <2>6
  <2>. HIDE DEF amount, delta, T, n, c
  <2>9. CASE sent[c] = 0
    <3>1. style = "together" => k + 1 = Len(g[k]) + 1
      BY <2>7
    <3>2. /\ MergeDelta(g[k], delta) = Append(g[k], delta)
          /\ Collect(g[k], delta) = Append(g[k], delta)
          /\ Lists(Append(g[k], delta), [amount EXCEPT ![c] = @ + 1])
      BY <2>1, <2>2, <2>4, <2>7, <2>9, <3>1, ListsNew DEF delta
    <3>3. g[k + 1] = Append(g[k], delta)
      BY <2>8, <3>2
    <3>4. Len(g[k + 1]) = Len(g[k]) + 1
      BY <2>7, <3>3
    <3>5. style = "together" => Len(g[k + 1]) = k + 1
      BY <2>7, <3>4
    <3>6. Lists(g[k + 1], SentWith(chunk, k + 1))
      BY <2>5, <3>2, <3>3
    <3>. QED BY <2>1, <3>5, <3>6 DEF T, n
  <2>10. CASE sent[c] > 0
    <3>1. g[k + 1] = MergeDelta(g[k], delta)
      BY <2>2, <2>8, <2>10
    <3>2. Lists(MergeDelta(g[k], delta), [amount EXCEPT ![c] = @ + 1])
      BY <2>1, <2>2, <2>4, <2>7, <2>10, ListsMore DEF delta
    <3>3. style # "together"
      BY <2>2, <2>10 DEF LastFrag
    <3>. QED BY <2>1, <2>5, <3>1, <3>2, <3>3 DEF T, n
  <2>. QED BY <2>2, <2>9, <2>10
<1>4. 0..n \subseteq T
  <2>. HIDE DEF T, n
  <2>. QED BY <1>1, <1>2, <1>3, Reaches
<1>. QED BY <1>1, <1>4

\* When all was sent, what is finished is every call with all of its arguments.
LEMMA AllFinished ==
  ASSUME Sending, NEW got, NEW amount, Lists(got, amount),
         \A c \in Calls : amount[c] = LastFrag
  PROVE  /\ Len(Finalized(got)) = Cardinality(Calls)
         /\ \A c \in Calls : \E f \in ToSet(Replayed(Finalized(got))) :
              f.name = c /\ f.text = TextOf(c)
<1>. DEFINE n == Len(got)
            done == [i \in 1..n |-> [got[i] EXCEPT !.args.dict = TRUE]]
<1>1. got \in Seq(Delta) /\ n \in Nat /\ DOMAIN got = 1..n
  BY DEF Lists
<1>2. \A i \in 1..n : /\ got[i] \in Delta /\ got[i].name \in Calls
                      /\ got[i].args.text = TextOf(got[i].name)
                      /\ got[i].args.dict \/ IsObject(got[i].args.text)
  <2>. SUFFICES ASSUME NEW i \in 1..n
                PROVE  /\ got[i] \in Delta /\ got[i].name \in Calls
                       /\ got[i].args.text = TextOf(got[i].name)
                       /\ IsObject(got[i].args.text)
    OBVIOUS
  <2>1. /\ got[i].name \in Calls /\ got[i].args = HeldArgs(got[i].name, LastFrag)
    BY DEF Lists
  <2>2. ~SentWhole => LastFrag = Pieces
    BY DEF Sending, SentWhole, LastFrag
  <2>3. got[i].args.text = TextOf(got[i].name)
    BY <2>1, <2>2 DEF HeldArgs, TextOf
  <2>. QED BY <1>1, <2>1, <2>3 DEF IsObject
<1>3. Finalized(got) = done
  <2>1. PICK g \in [0..n -> Seq(Delta)] :
          /\ g[0] = <<>> /\ g[n] = Finalized(got)
          /\ \A k \in 1..n : g[k] = FinishCall(g[k - 1], got[k])
    BY <1>1, FinishedFold
  <2>. DEFINE T == {k \in 0..n : g[k] = [i \in 1..k |-> done[i]]}
  <2>2. 0 \in T
    BY <1>1, <2>1
  <2>3. ASSUME NEW k \in 0..(n - 1), k \in T PROVE k + 1 \in T
    <3>1. k \in 0..n /\ k + 1 \in 1..n /\ (k + 1) - 1 = k /\ k \in Nat
      BY <1>1
    <3>2. g[k + 1] = Append(g[k], done[k + 1])
      BY <1>2, <2>1, <3>1 DEF FinishCall
    <3>3. g[k] = [i \in 1..k |-> done[i]]
      BY <2>3
    <3>. HIDE DEF done, n
    <3>4. Append([i \in 1..k |-> done[i]], done[k + 1]) = [i \in 1..(k + 1) |-> done[i]]
      BY <3>1
    <3>. QED BY <3>1, <3>2, <3>3, <3>4
  <2>4. n \in T
    <3>. HIDE DEF T, n
    <3>1. 0..n \subseteq T
      BY <1>1, <2>2, <2>3, Reaches
    <3>. QED BY <1>1, <3>1
  <2>. QED BY <2>1, <2>4
<1>4. Cardinality(Calls) = n
  <2>. DEFINE f == [i \in 1..n |-> got[i].name]
  <2>1. f \in [1..n -> Calls] /\ (\A i, j \in 1..n : f[i] = f[j] => i = j)
    BY <1>2 DEF Lists
  <2>2. \A c \in Calls : amount[c] > 0
    BY CallsAssumption DEF Sending, LastFrag
  <2>3. \A c \in Calls : \E i \in 1..n : f[i] = c
    BY <2>2 DEF Lists
  <2>. HIDE DEF f
  <2>4. ExistsBijection(1..n, Calls)
    BY <2>1, <2>3 DEF ExistsBijection, Bijection, Injection, Surjection, IsInjective
  <2>. QED BY <1>1, <2>4, FS_CountingElements
<1>5. ASSUME NEW c \in Calls
      PROVE  \E f \in ToSet(Replayed(done)) : f.name = c /\ f.text = TextOf(c)
  <2>1. amount[c] > 0
    BY CallsAssumption DEF Sending, LastFrag
  <2>2. PICK i \in 1..n : got[i].name = c
    BY <2>1 DEF Lists
  <2>3. done[i].name = c /\ done[i].args.text = TextOf(c)
    BY <1>2, <2>2 DEF Delta, Args
  <2>4. DOMAIN done = 1..n
    OBVIOUS
  <2>. HIDE DEF done
  <2>5. DOMAIN Replayed(done) = 1..n /\ Replayed(done)[i] = Frag(done[i].id, c, TextOf(c))
    BY <2>3, <2>4 DEF Replayed
  <2>6. Frag(done[i].id, c, TextOf(c)) \in ToSet(Replayed(done))
    BY <2>2, <2>5 DEF ToSet
  <2>. QED BY <2>6 DEF Frag
<1>6. Len(done) = n
  BY <1>1
<1>. QED BY <1>3, <1>4, <1>5, <1>6

\* How the calls of a response come to be dispatched.
StreamInv ==
  /\ style \in Styles /\ sent \in [Calls -> Nat]
  /\ stream \in {"open", "ended", "broken"}
  /\ stream = "open" => /\ dispatch = <<>> /\ Lists(acc, sent)
                        /\ \A c \in Calls : sent[c] <= LastFrag
  /\ WholeCalls

LEMMA StreamStarts == StreamInit => StreamInv
<1>. SUFFICES ASSUME StreamInit PROVE StreamInv
  OBVIOUS
<1>. USE DEF StreamInit
<1>1. Lists(<<>>, sent)
  BY DEF Lists
<1>2. \A c \in Calls : sent[c] <= LastFrag
  <2>1. LastFrag \in Nat
    BY CallsAssumption DEF LastFrag, AllStyles
  <2>. QED BY <2>1
<1>. QED BY <1>1, <1>2 DEF StreamInv, WholeCalls

\* The chunks that come next can be sent.
LEMMA ChunksSendable ==
  ASSUME Sending, NEW chunk,
         \/ chunk \in Chunks
         \/ chunk \in SetToSeqs(Calls) /\ \A c \in Calls : sent[c] = 0
  PROVE  Sendable(chunk)
<1>. USE CallsAssumption DEF Sending
<1>1. LastFrag \in Nat /\ LastFrag > 0
  BY DEF LastFrag
<1>2. Cardinality(Calls) \in Nat
  BY FS_CardinalityType
<1>3. CASE chunk \in SetToSeqs(Calls) /\ \A c \in Calls : sent[c] = 0
  <2>1. /\ chunk \in [1..Cardinality(Calls) -> Calls]
        /\ \A i, j \in 1..Cardinality(Calls) : chunk[i] = chunk[j] => i = j
    BY <1>3 DEF SetToSeqs
  <2>2. chunk \in Seq(Calls) /\ Len(chunk) = Cardinality(Calls)
    BY <1>2, <2>1
  <2>3. \A i \in 1..Len(chunk) : sent[chunk[i]] < LastFrag
    BY <1>1, <1>3, <2>1, <2>2
  <2>. QED BY <2>1, <2>2, <2>3 DEF Sendable
<1>4. CASE chunk \in Chunks /\ style # "together"
  <2>1. PICK n \in 1..2 : chunk \in [1..n -> Calls]
    BY <1>4 DEF Chunks
  <2>2. IsInjective(chunk) /\ \A i \in DOMAIN chunk : sent[chunk[i]] < LastFrag
    BY <1>4 DEF Chunks
  <2>3. chunk \in Seq(Calls) /\ Len(chunk) = n /\ DOMAIN chunk = 1..Len(chunk)
    BY <2>1
  <2>. QED BY <2>2, <2>3 DEF Sendable, IsInjective
<1>5. CASE chunk \in Chunks /\ style = "together"
  <2>1. chunk \in SetToSeqs(Calls) /\ \A c \in Calls : sent[c] = 0
    BY <1>5 DEF Chunks
  <2>. QED BY <1>3, <2>1
<1>. QED BY <1>3, <1>4, <1>5

LEMMA StreamChunk == Sending /\ StreamInv /\ Chunk => StreamInv'
<1>. SUFFICES ASSUME Sending, StreamInv, Chunk PROVE StreamInv'
  OBVIOUS
<1>1. PICK chunk \in Chunks :
        /\ acc' = Merged(acc, Parsed(chunk))
        /\ sent' = [c \in Calls |-> IF c \in ToSet(chunk) THEN sent[c] + 1 ELSE sent[c]]
  BY DEF Chunk
<1>2. stream = "open" /\ style' = style /\ stream' = stream /\ dispatch' = dispatch
  BY DEF Chunk
<1>3. Sendable(chunk)
  BY ChunksSendable
<1>4. sent' = SentWith(chunk, Len(chunk))
  <2>1. DOMAIN chunk = 1..Len(chunk)
    BY <1>3 DEF Sendable
  <2>2. \A c \in Calls : c \in ToSet(chunk) <=> \E j \in 1..Len(chunk) : chunk[j] = c
    BY <2>1 DEF ToSet
  <2>. QED BY <1>1, <2>2 DEF SentWith
<1>5. Lists(acc, sent) /\ acc \in Seq(Delta)
  BY <1>2 DEF StreamInv, Lists
<1>6. style = "together" => Len(acc) = 0
  <2>. SUFFICES ASSUME style = "together" PROVE Len(acc) = 0
    OBVIOUS
  <2>1. \A c \in Calls : sent[c] = 0
    BY <1>1 DEF Chunks
  <2>2. ~(1 \in 1..Len(acc))
    BY <1>5, <2>1 DEF Lists
  <2>3. Len(acc) \in Nat
    BY <1>5
  <2>. QED BY <2>2, <2>3
<1>7. Parsed(chunk) \in Seq(Delta) /\ Len(Parsed(chunk)) = Len(chunk)
  BY <1>3, ParsedIs
<1>8. PICK g \in [0..Len(chunk) -> Seq(Delta)] :
        /\ g[0] = acc /\ g[Len(chunk)] = acc'
        /\ \A k \in 1..Len(chunk) : g[k] = MergeDelta(g[k - 1], Parsed(chunk)[k])
  <2>1. \E g \in [0..Len(Parsed(chunk)) -> Seq(Delta)] :
          /\ g[0] = acc /\ g[Len(Parsed(chunk))] = Merged(acc, Parsed(chunk))
          /\ \A k \in 1..Len(Parsed(chunk)) : g[k] = MergeDelta(g[k - 1], Parsed(chunk)[k])
    BY <1>5, <1>7, MergedFold
  <2>. QED BY <1>1, <1>7, <2>1
<1>9. Lists(acc', sent')
  <2>1. Lists(g[Len(chunk)], SentWith(chunk, Len(chunk)))
    BY <1>3, <1>5, <1>6, <1>8, ChunkLists
  <2>. QED BY <1>4, <1>8, <2>1
<1>10. Lists(acc, sent)' 
  BY <1>2, <1>9 DEF Lists, HeldArgs, SentWhole
<1>11. sent' \in [Calls -> Nat] /\ \A c \in Calls : sent'[c] <= LastFrag
  <2>1. LastFrag \in Nat
    BY CallsAssumption DEF LastFrag, Sending
  <2>2. ASSUME NEW c \in Calls PROVE sent'[c] \in Nat /\ sent'[c] <= LastFrag
    <3>1. sent[c] \in Nat /\ sent[c] <= LastFrag
      BY <1>2 DEF StreamInv
    <3>2. (\E j \in 1..Len(chunk) : chunk[j] = c) => sent[c] < LastFrag
      BY <1>3 DEF Sendable
    <3>. QED BY <1>4, <2>1, <3>1, <3>2 DEF SentWith
  <2>. QED BY <1>1, <2>2
<1>12. LastFrag' = LastFrag
  BY <1>2 DEF LastFrag
<1>. QED BY <1>2, <1>10, <1>11, <1>12 DEF StreamInv, WholeCalls

LEMMA StreamComplete == Sending /\ StreamInv /\ Complete => StreamInv'
<1>. SUFFICES ASSUME Sending, StreamInv, Complete PROVE StreamInv'
  OBVIOUS
<1>1. PICK chunk \in SetToSeqs(Calls) : dispatch' = Collected(Parsed(chunk))
  BY DEF Complete
<1>2. /\ style' = style /\ stream' = "ended" /\ SentWhole
      /\ sent' = [c \in Calls |-> LastFrag] /\ \A c \in Calls : sent[c] = 0
  BY DEF Complete, SentWhole
<1>3. Sendable(chunk)
  BY <1>2, ChunksSendable
<1>4. Parsed(chunk) \in Seq(Delta) /\ Len(Parsed(chunk)) = Len(chunk)
  BY <1>3, ParsedIs
<1>5. PICK g \in [0..Len(chunk) -> Seq(Delta)] :
        /\ g[0] = <<>> /\ g[Len(chunk)] = FoldLeft(Collect, <<>>, Parsed(chunk))
        /\ \A k \in 1..Len(chunk) : g[k] = Collect(g[k - 1], Parsed(chunk)[k])
  <2>1. \E g \in [0..Len(Parsed(chunk)) -> Seq(Delta)] :
          /\ g[0] = <<>> /\ g[Len(Parsed(chunk))] = FoldLeft(Collect, <<>>, Parsed(chunk))
          /\ \A k \in 1..Len(Parsed(chunk)) : g[k] = Collect(g[k - 1], Parsed(chunk)[k])
    BY <1>4, CollectedFold
  <2>. QED BY <1>4, <2>1
<1>6. Lists(g[Len(chunk)], SentWith(chunk, Len(chunk)))
  <2>1. Lists(g[0], sent) /\ Len(g[0]) = 0
    BY <1>2, <1>5 DEF Lists
  <2>2. \A k \in 1..Len(chunk) : sent[chunk[k]] = 0
    BY <1>2, <1>3 DEF Sendable
  <2>. QED BY <1>3, <1>5, <2>1, <2>2, ChunkLists
<1>7. \A c \in Calls : SentWith(chunk, Len(chunk))[c] = LastFrag
  <2>1. LastFrag = 1
    BY <1>2 DEF SentWhole, LastFrag
  <2>2. ASSUME NEW c \in Calls PROVE \E j \in 1..Len(chunk) : chunk[j] = c
    <3>. DEFINE n == Cardinality(Calls)
    <3>1. n \in Nat
      BY CallsAssumption, FS_CardinalityType
    <3>2. chunk \in [1..n -> Calls] /\ \A i, j \in 1..n : chunk[i] = chunk[j] => i = j
      BY DEF SetToSeqs
    <3>3. chunk \in Injection(1..n, Calls)
      BY <3>2 DEF Injection, IsInjective
    <3>4. IsFiniteSet(1..n) /\ Cardinality(1..n) = n
      BY <3>1, FS_Interval
    <3>5. chunk \in Surjection(1..n, Calls)
      BY <3>3, <3>4, CallsAssumption, FS_Injection
    <3>6. PICK j \in 1..n : chunk[j] = c
      BY <3>5 DEF Surjection
    <3>7. Len(chunk) = n
      BY <3>1, <3>2
    <3>. QED BY <3>6, <3>7
  <2>. QED BY <1>2, <2>1, <2>2 DEF SentWith
<1>8. Collected(Parsed(chunk)) = Finalized(g[Len(chunk)])
  BY <1>5 DEF Collected
<1>9. /\ Len(dispatch') = Cardinality(Calls)
      /\ \A c \in Calls : \E f \in ToSet(Replayed(dispatch')) : f.name = c /\ f.text = TextOf(c)
  BY <1>1, <1>6, <1>7, <1>8, AllFinished
<1>10. sent' \in [Calls -> Nat]
  BY <1>2, CallsAssumption DEF LastFrag, SentWhole
<1>. QED BY <1>2, <1>9, <1>10 DEF StreamInv, WholeCalls

LEMMA StreamEnds == Sending /\ StreamInv /\ EndStream => StreamInv'
<1>. SUFFICES ASSUME Sending, StreamInv, EndStream PROVE StreamInv'
  OBVIOUS
<1>1. /\ style' = style /\ sent' = sent /\ stream' = "ended" /\ dispatch' = Finalized(acc)
      /\ Lists(acc, sent) /\ \A c \in Calls : sent[c] = LastFrag
  BY DEF EndStream, StreamInv
<1>2. /\ Len(dispatch') = Cardinality(Calls)
      /\ \A c \in Calls : \E f \in ToSet(Replayed(dispatch')) : f.name = c /\ f.text = TextOf(c)
  BY <1>1, AllFinished
<1>. QED BY <1>1, <1>2 DEF StreamInv, WholeCalls

LEMMA StreamBreaks == StreamInv /\ Break => StreamInv'
  BY DEF StreamInv, Break, WholeCalls

LEMMA StreamsStep ==
  Sending /\ StreamInv /\ [StreamNext]_svars => (Sending /\ StreamInv)'
<1>. SUFFICES ASSUME Sending, StreamInv, [StreamNext]_svars PROVE (Sending /\ StreamInv)'
  OBVIOUS
<1>1. CASE UNCHANGED svars
  <2>1. /\ style' = style /\ sent' = sent /\ acc' = acc /\ stream' = stream
        /\ dispatch' = dispatch
    BY <1>1 DEF svars
  <2>2. Lists(acc, sent) => Lists(acc, sent)'
    BY <2>1 DEF Lists, HeldArgs, SentWhole
  <2>3. WholeCalls' <=> WholeCalls
    BY <2>1 DEF WholeCalls
  <2>4. LastFrag' = LastFrag
    BY <2>1 DEF LastFrag
  <2>. QED BY <2>1, <2>2, <2>3, <2>4 DEF StreamInv, Sending
<1>2. ASSUME StreamNext PROVE StreamInv' /\ style' = style
  <2>1. StreamInv'
    BY <1>2, StreamChunk, StreamComplete, StreamEnds, StreamBreaks DEF StreamNext
  <2>2. style' = style
    BY <1>2 DEF StreamNext, Chunk, Complete, EndStream, Break
  <2>. QED BY <2>1, <2>2
<1>3. StreamInv' /\ style' = style => Sending'
  BY DEF StreamInv, Sending
<1>. QED
  BY <1>1, <1>2, <1>3

LEMMA StreamsPart == MCSpec => StreamInit /\ [][StreamNext]_svars
<1>1. MCInit => StreamInit
  BY DEF MCInit
<1>2. [MCNext]_mcVars => [StreamNext]_svars
  <2>1. UNCHANGED modelVars => UNCHANGED svars
    BY DEF modelVars
  <2>2. ModelSteps => [StreamNext]_svars
    BY DEF ModelSteps
  <2>. QED
    BY <2>1, <2>2 DEF MCNext, mcVars
<1>. QED
  BY <1>1, <1>2, PTL DEF MCSpec

\* Runs get working models, as RouterKept says; and whatever of its calls a
\* provider sends together, in pieces or without ids, the loop dispatches the
\* calls that the model made, whole (llm/openai_compat.py, agent/loop.py):
\* unless the provider opens every call before its text.
THEOREM ModelKept == MCSpec /\ style # "opening" => []ModelLaw
<1>1. StreamInit /\ style # "opening" => Sending /\ StreamInv
  <2>1. StreamInit /\ style # "opening" => Sending
    BY CallsAssumption DEF StreamInit, Sending, AllStyles
  <2>. QED BY <2>1, StreamStarts
<1>2. Sending /\ StreamInv => WholeCalls
  BY DEF StreamInv
<1>3. MCSpec /\ style # "opening" => []WholeCalls
  BY <1>1, <1>2, StreamsPart, StreamsStep, PTL
<1>4. RouterLaw /\ ModelsTypeOK /\ WholeCalls => ModelLaw
  BY DEF ModelLaw, In
<1>. QED
  BY <1>3, <1>4, RouterKept, PTL

-----------------------------------------------------------------------------
(* What is kept and found again *)

LEMMA MemoryPart == MCSpec => MemoryInit /\ [][MemoryNext]_pvars
<1>1. MCInit => MemoryInit
  BY DEF MCInit
<1>2. [MCNext]_mcVars => [MemoryNext]_pvars
  <2>1. UNCHANGED fileVars => UNCHANGED pvars
    BY DEF fileVars
  <2>2. FileSteps => [MemoryNext]_pvars
    BY DEF FileSteps
  <2>. QED
    BY <2>1, <2>2 DEF MCNext, mcVars
<1>. QED
  BY <1>1, <1>2, PTL DEF MCSpec

LEMMA FilterPart == MCSpec => FilterInit /\ [][FilterNext]_cvars
<1>1. MCInit => FilterInit
  BY DEF MCInit
<1>2. [MCNext]_mcVars => [FilterNext]_cvars
  <2>1. UNCHANGED modelVars => UNCHANGED cvars
    BY DEF modelVars
  <2>2. ModelSteps => [FilterNext]_cvars
    BY DEF ModelSteps
  <2>. QED
    BY <2>1, <2>2 DEF MCNext, mcVars
<1>. QED
  BY <1>1, <1>2, PTL DEF MCSpec

LEMMA TreePart == MCSpec => RagTreeInit /\ [][RagTreeNext]_rvars
<1>1. MCInit => RagTreeInit
  BY DEF MCInit
<1>2. [MCNext]_mcVars => [RagTreeNext]_rvars
  <2>1. UNCHANGED modelVars => UNCHANGED rvars
    BY DEF modelVars
  <2>2. ModelSteps => [RagTreeNext]_rvars
    BY DEF ModelSteps
  <2>. QED
    BY <2>1, <2>2 DEF MCNext, mcVars
<1>. QED
  BY <1>1, <1>2, PTL DEF MCSpec

\* Whichever processes share the directory of memory and die where they may, the
\* index keeps its cap and lists a fact once; between operations it lists the facts
\* that can be read, except those that an overlap or a death was about; and a
\* write evicts others before its own fact (memory/persistent.py);
\* a key that is in the filter is reported as absent only for an insertion that gave
\* up or a removal of what was not in (rag/cuckoo_filter.py); and nodes are linked
\* once, and where they were added in order a navigation finds leaves of its tenant,
\* as many as its width allows (rag/rag_tree.py).
THEOREM RecallKept == MCSpec => []RecallLaw
<1>1. MemoryInit /\ [][MemoryNext]_pvars => []MemoryInv
  BY MemoryStarts, MemoryMoves, PTL
<1>2. FilterInit /\ [][FilterNext]_cvars => []FilterInv
  BY FilterStarts, FilterMoves, PTL
<1>3. RagTreeInit /\ [][RagTreeNext]_rvars => []TreeInv
  BY TreeStarts, TreeMoves, PTL
<1>4. MemoryInv /\ FilterInv /\ TreeInv => RecallLaw
  BY MemoryAnswers, FilterAnswers, TreeAnswers DEF RecallLaw, In
<1>. QED
  BY <1>1, <1>2, <1>3, <1>4, MemoryPart, FilterPart, TreePart, PTL

LEMMA FilesPart == MCSpec => FilesInit /\ [][FilesNext]_fvars
<1>1. MCInit => FilesInit
  BY DEF MCInit
<1>2. [MCNext]_mcVars => [FilesNext]_fvars
  <2>1. UNCHANGED fileVars => UNCHANGED fvars
    BY DEF fileVars
  <2>2. FileSteps => [FilesNext]_fvars
    BY DEF FileSteps
  <2>. QED
    BY <2>1, <2>2 DEF MCNext, mcVars
<1>. QED
  BY <1>1, <1>2, PTL DEF MCSpec

\* Whichever agents, programs and edits there are: the pages of a file cover it,
\* "unchanged" is said of what is, an edit that is answered as done is whole, and
\* a search that leaves out a line says so (nullain_tools/filesystem.py).
THEOREM FilesKept == MCSpec => []In("files", FilesLaw)
<1>1. FilesInit /\ [][FilesNext]_fvars => []FilesInv
  BY FilesStart, FilesStep, PTL
<1>2. FilesLaw => In("files", FilesLaw)
  BY DEF In
<1>. QED
  BY <1>1, <1>2, FilesPart, FilesAnswer, PTL

-----------------------------------------------------------------------------
(* The events of runs, of which streams and the table tell                  *)

LEMMA FacadePart == MCSpec => FacadeInit /\ [][FacadeNext]_avars
<1>1. MCInit => FacadeInit
  BY DEF MCInit
<1>2. [MCNext]_mcVars => [FacadeNext]_avars
  <2>1. UNCHANGED hostVars => UNCHANGED avars
    BY DEF hostVars
  <2>2. HostSteps => [FacadeNext]_avars
    BY DEF HostSteps
  <2>. QED
    BY <2>1, <2>2 DEF MCNext, mcVars
<1>. QED
  BY <1>1, <1>2, PTL DEF MCSpec

\* Events, without the bound on their number.
Published == Tasks \X Nat

LEMMA EventOf ==
  ASSUME NEW e \in Published
  PROVE  e = <<e[1], e[2]>> /\ e[1] \in Tasks /\ e[2] \in Nat
  BY DEF Published

\* The next event of p goes last.
LEMMA TellsNext ==
  ASSUME NEW s \in Seq(Published), NEW p \in Tasks, NEW a \in Nat, NEW b \in Nat, a <= b + 1,
         Tells(s, p, a, b)
  PROVE  Append(s, <<p, b + 1>>) \in Seq(Published) /\ Tells(Append(s, <<p, b + 1>>), p, a, b + 1)
<1>. DEFINE e == <<p, b + 1>>
            t == Append(s, e)
<1>1. e \in Published /\ e[1] = p /\ e[2] = b + 1
  BY DEF Published
<1>. HIDE DEF e
<1>2. /\ t \in Seq(Published) /\ Len(t) = Len(s) + 1 /\ t[Len(s) + 1] = e /\ Len(s) \in Nat
      /\ \A i \in 1..Len(s) : t[i] = s[i]
      /\ DOMAIN s = 1..Len(s) /\ DOMAIN t = 1..(Len(s) + 1)
  BY <1>1
<1>. HIDE DEF t
<1>3. ToSet(t) = ToSet(s) \cup {e}
  BY <1>2 DEF ToSet
<1>4. {x \in ToSet(t) : x[1] = p} = {x \in ToSet(s) : x[1] = p} \cup {e}
  BY <1>1, <1>3
<1>5. {<<p, i>> : i \in a..b + 1} = {<<p, i>> : i \in a..b} \cup {e}
  <2>1. a..b + 1 = (a..b) \cup {b + 1}
    OBVIOUS
  <2>. QED
    BY <2>1 DEF e
<1>6. \A i \in 1..Len(s) : s[i][1] = p => s[i][2] < b + 1
  <2>. SUFFICES ASSUME NEW i \in 1..Len(s), s[i][1] = p PROVE s[i][2] < b + 1
    OBVIOUS
  <2>1. s[i] \in {x \in ToSet(s) : x[1] = p}
    BY <1>2 DEF ToSet
  <2>2. PICK k \in a..b : s[i] = <<p, k>>
    BY <2>1 DEF Tells
  <2>. QED
    BY <2>2
<1>7. ASSUME NEW i \in DOMAIN t, NEW j \in DOMAIN t, i < j, t[i][1] = p, t[j][1] = p
      PROVE  t[i][2] < t[j][2]
  <2>1. i \in 1..Len(s) /\ t[i] = s[i]
    BY <1>2, <1>7
  <2>2. CASE j \in 1..Len(s)
    BY <1>2, <1>7, <2>1, <2>2 DEF Tells
  <2>3. CASE j = Len(s) + 1
    BY <1>1, <1>2, <1>6, <1>7, <2>1, <2>3
  <2>. QED
    BY <1>2, <2>2, <2>3
<1>. QED
  BY <1>2, <1>4, <1>5, <1>7 DEF Tells, t, e

\* The event of another run says nothing of p.
LEMMA TellsOther ==
  ASSUME NEW s \in Seq(Published), NEW e \in Published, NEW p, e[1] # p, NEW a, NEW b,
         Tells(s, p, a, b)
  PROVE  Append(s, e) \in Seq(Published) /\ Tells(Append(s, e), p, a, b)
<1>. DEFINE t == Append(s, e)
<1>1. /\ t \in Seq(Published) /\ Len(t) = Len(s) + 1 /\ t[Len(s) + 1] = e /\ Len(s) \in Nat
      /\ \A i \in 1..Len(s) : t[i] = s[i]
      /\ DOMAIN s = 1..Len(s) /\ DOMAIN t = 1..(Len(s) + 1)
  OBVIOUS
<1>. HIDE DEF t
<1>2. ToSet(t) = ToSet(s) \cup {e}
  BY <1>1 DEF ToSet
<1>3. {x \in ToSet(t) : x[1] = p} = {x \in ToSet(s) : x[1] = p}
  BY <1>2
<1>4. ASSUME NEW i \in DOMAIN t, NEW j \in DOMAIN t, i < j, t[i][1] = p, t[j][1] = p
      PROVE  t[i][2] < t[j][2]
  <2>1. i \in 1..Len(s) /\ j \in 1..Len(s)
    BY <1>1, <1>4
  <2>. QED
    BY <1>1, <1>4, <2>1 DEF Tells
<1>. QED
  BY <1>1, <1>3, <1>4 DEF Tells, t

\* The first event is that which comes next, if it is of p.
LEMMA TellsTail ==
  ASSUME NEW s \in Seq(Published), s # <<>>, NEW p \in Tasks, NEW a \in Nat, NEW b \in Nat,
         Tells(s, p, a, b)
  PROVE  /\ Head(s) \in Published /\ Tail(s) \in Seq(Published)
         /\ Head(s)[1] = p => Head(s) = <<p, a>> /\ a <= b /\ Tells(Tail(s), p, a + 1, b)
         /\ Head(s)[1] # p => Tells(Tail(s), p, a, b)
<1>. DEFINE h == Head(s)
            t == Tail(s)
<1>1. /\ h \in Published /\ t \in Seq(Published) /\ Len(s) \in Nat \ {0} /\ Len(t) = Len(s) - 1
      /\ h = s[1] /\ DOMAIN s = 1..Len(s) /\ DOMAIN t = 1..Len(t)
      /\ \A i \in 1..Len(t) : t[i] = s[i + 1]
  OBVIOUS
<1>. HIDE DEF h, t
<1>2. ToSet(s) = ToSet(t) \cup {h}
  <2>1. \A i \in 1..Len(s) : i = 1 \/ (i - 1 \in 1..Len(t) /\ s[i] = t[i - 1])
    BY <1>1
  <2>2. \A i \in 1..Len(t) : i + 1 \in 1..Len(s) /\ t[i] = s[i + 1]
    BY <1>1
  <2>3. 1 \in 1..Len(s)
    BY <1>1
  <2>4. ASSUME NEW x \in ToSet(s) PROVE x \in ToSet(t) \cup {h}
    <3>1. PICK i \in 1..Len(s) : x = s[i]
      BY <1>1 DEF ToSet
    <3>. QED
      BY <1>1, <2>1, <3>1 DEF ToSet
  <2>5. ASSUME NEW x \in ToSet(t) PROVE x \in ToSet(s)
    <3>1. PICK i \in 1..Len(t) : x = t[i]
      BY <1>1 DEF ToSet
    <3>. QED
      BY <1>1, <2>2, <3>1 DEF ToSet
  <2>6. h \in ToSet(s)
    BY <1>1, <2>3 DEF ToSet
  <2>. QED
    BY <2>4, <2>5, <2>6
<1>3. \A i, j \in DOMAIN t : i < j /\ t[i][1] = p /\ t[j][1] = p => t[i][2] < t[j][2]
  <2>. SUFFICES ASSUME NEW i \in DOMAIN t, NEW j \in DOMAIN t, i < j, t[i][1] = p, t[j][1] = p
                PROVE  t[i][2] < t[j][2]
    OBVIOUS
  <2>1. /\ i + 1 \in DOMAIN s /\ j + 1 \in DOMAIN s /\ i + 1 < j + 1
        /\ t[i] = s[i + 1] /\ t[j] = s[j + 1]
    BY <1>1
  <2>. QED
    BY <2>1 DEF Tells
<1>4. CASE h[1] # p
  <2>1. {x \in ToSet(t) : x[1] = p} = {x \in ToSet(s) : x[1] = p}
    BY <1>2, <1>4
  <2>. QED
    BY <1>1, <1>3, <1>4, <2>1 DEF Tells, h, t
<1>5. CASE h[1] = p
  <2>1. h \in {x \in ToSet(s) : x[1] = p}
    BY <1>2, <1>5
  <2>2. PICK k \in a..b : h = <<p, k>>
    BY <2>1 DEF Tells
  <2>3. \A x \in ToSet(t) : x[1] = p => h[2] < x[2]
    <3>. SUFFICES ASSUME NEW i \in DOMAIN t, t[i][1] = p PROVE h[2] < t[i][2]
      BY DEF ToSet
    <3>1. i + 1 \in DOMAIN s /\ 1 \in DOMAIN s /\ 1 < i + 1 /\ t[i] = s[i + 1] /\ h = s[1]
      BY <1>1
    <3>. QED
      BY <1>5, <3>1 DEF Tells
  <2>4. k = a
    <3>1. <<p, a>> \in {x \in ToSet(s) : x[1] = p}
      BY <2>2 DEF Tells
    <3>2. <<p, a>> = h \/ h[2] < a
      BY <1>2, <2>3, <3>1
    <3>. QED
      BY <2>2, <3>2
  <2>5. {x \in ToSet(t) : x[1] = p} = {<<p, i>> : i \in a + 1..b}
    <3>1. ASSUME NEW x \in ToSet(t), x[1] = p PROVE x \in {<<p, i>> : i \in a + 1..b}
      <4>1. PICK i \in a..b : x = <<p, i>>
        BY <1>2, <3>1 DEF Tells
      <4>2. a < i
        BY <2>2, <2>3, <2>4, <3>1, <4>1
      <4>. QED
        BY <4>1, <4>2
    <3>2. ASSUME NEW i \in a + 1..b PROVE <<p, i>> \in ToSet(t)
      <4>1. <<p, i>> \in ToSet(s) /\ i # a
        BY DEF Tells
      <4>. QED
        BY <1>2, <2>2, <2>4, <4>1
    <3>. QED
      BY <3>1, <3>2
  <2>. QED
    BY <1>1, <1>3, <1>5, <2>2, <2>4, <2>5 DEF Tells, h, t
<1>. QED
  BY <1>4, <1>5, <1>1 DEF h, t

LEMMA TellsNothing ==
  ASSUME NEW p, NEW a \in Nat, NEW b \in Nat
  PROVE  /\ a > b => Tells(<<>>, p, a, b)
         /\ Tells(<<>>, p, a, b) => a > b
<1>1. ToSet(<<>>) = {}
  BY DEF ToSet
<1>2. a > b => a..b = {}
  OBVIOUS
<1>3. a <= b => a \in a..b
  OBVIOUS
<1>4. a > b => Tells(<<>>, p, a, b)
  BY <1>1, <1>2 DEF Tells
<1>5. ASSUME Tells(<<>>, p, a, b), a <= b PROVE FALSE
  <2>1. {<<p, i>> : i \in a..b} = {}
    BY <1>1, <1>5 DEF Tells
  <2>. QED
    BY <1>3, <1>5, <2>1
<1>. QED
  BY <1>4, <1>5

Early == {"new", "store", "connecting", "memory"}

FacadeTyped ==
  /\ call \in [Tasks -> [pc : Early \cup {"loop", "append", "answered", "raised", "unstored"},
                         kind : {"run", "stream"}]]
  /\ consumer \in [Tasks -> {"none", "polling", "draining", "raised", "result", "left"}]
  /\ emitted \in [Tasks -> Nat]
  /\ queues \in [Tasks -> Seq(Published)] /\ delivered \in [Tasks -> Seq(Published)]
  /\ table \in Seq(Published)

\* What a stream has yielded of its run and what its queue holds follow each
\* other; with a subscription that is all of it.
Streaming(p) ==
  /\ \E m, n \in 0..emitted[p] :
       /\ m <= n
       /\ Tells(delivered[p], p, 1, m) /\ Tells(queues[p], p, m + 1, n)
       /\ consumer[p] \in {"polling", "draining"} => n = emitted[p]
       /\ consumer[p] = "result" => m = emitted[p]
  /\ Early \cap {call[p].pc} # {} => emitted[p] = 0 /\ consumer[p] = "none"
  /\ call[p].pc = "append" => emitted[p] > 0
  /\ consumer[p] \in {"draining", "result"} => call[p].pc = "answered"

Stored1(p) ==
  /\ call[p].pc \in {"append", "unstored"} => emitted[p] > 0
  /\ Tells(table, p, 1, IF call[p].pc \in {"append", "unstored"} THEN emitted[p] - 1
                                                               ELSE emitted[p])

\* While nothing overlaps one call at most is under way, and it connects only where
\* there is no connection.
Connecting ==
  /\ store \in [have : BOOLEAN, open : Int]
  /\ ~overlapped =>
       /\ store.open = IF store.have THEN 1 ELSE 0
       /\ \A p, q \in Active : p = q
       /\ \A p \in Tasks : call[p].pc = "connecting" => ~store.have

FacadeInv ==
  /\ FacadeTyped /\ Connecting
  /\ \A p \in Tasks : Streaming(p) /\ Stored1(p)

LEMMA FacadeStart == FacadeInit => FacadeInv
<1>. SUFFICES ASSUME FacadeInit PROVE FacadeInv
  OBVIOUS
<1>1. FacadeTyped
  BY DEF FacadeInit, FacadeTyped, Early
<1>2. Connecting
  BY DEF FacadeInit, Connecting, Closed, Active, Stands
<1>3. ASSUME NEW p \in Tasks PROVE Streaming(p) /\ Stored1(p)
  <2>1. /\ call[p].pc = "new" /\ consumer[p] = "none" /\ emitted[p] = 0 /\ queues[p] = <<>>
        /\ delivered[p] = <<>> /\ table = <<>>
    BY DEF FacadeInit
  <2>2. Tells(<<>>, p, 1, 0)
    BY TellsNothing
  <2>3. 0 \in 0..0 /\ 0 + 1 = 1
    OBVIOUS
  <2>5. Streaming(p)
    BY <2>1, <2>2, <2>3 DEF Streaming
  <2>6. Stored1(p)
    BY <2>1, <2>2 DEF Stored1
  <2>. QED
    BY <2>5, <2>6
<1>. QED
  BY <1>1, <1>2, <1>3 DEF FacadeInv

\* A call that goes elsewhere without publishing, storing or being heard.
LEMMA MovesOn ==
  ASSUME FacadeInv, NEW p \in Tasks, NEW pc \in Early \cup {"loop", "answered", "raised"},
         Goes(p, pc), pc \in Early => call[p].pc \in Early,
         ~Stands(p, "append"), ~Stands(p, "unstored"), consumer[p] \notin {"draining", "result"},
         UNCHANGED <<emitted, queues, delivered, table, consumer>>
  PROVE  FacadeTyped' /\ \A q \in Tasks : (Streaming(q) /\ Stored1(q))'
<1>. USE DEF FacadeInv
<1>1. /\ call' = [call EXCEPT ![p].pc = pc]
      /\ call'[p].pc = pc /\ \A q \in Tasks \ {p} : call'[q] = call[q]
  BY DEF Goes, FacadeTyped
<1>2. FacadeTyped'
  <2>1. call[p] \in [pc : Early \cup {"loop", "append", "answered", "raised", "unstored"},
                     kind : {"run", "stream"}]
    BY DEF FacadeTyped
  <2>2. call' = [call EXCEPT ![p] = [call[p] EXCEPT !.pc = pc]]
    BY <1>1 DEF FacadeTyped
  <2>3. [call[p] EXCEPT !.pc = pc]
          \in [pc : Early \cup {"loop", "append", "answered", "raised", "unstored"},
               kind : {"run", "stream"}]
    BY <2>1
  <2>. QED
    BY <2>2, <2>3 DEF FacadeTyped
<1>3. ASSUME NEW q \in Tasks PROVE (Streaming(q) /\ Stored1(q))'
  <2>1. /\ emitted'[q] = emitted[q] /\ queues'[q] = queues[q] /\ delivered'[q] = delivered[q]
        /\ table' = table /\ consumer'[q] = consumer[q]
    OBVIOUS
  <2>2. Streaming(q) /\ Stored1(q)
    OBVIOUS
  <2>3. CASE q # p
    BY <1>1, <2>1, <2>2, <2>3 DEF Streaming, Stored1
  <2>4. CASE q = p
    BY <1>1, <2>1, <2>2, <2>4 DEF Streaming, Stored1, Stands, Early
  <2>. QED
    BY <2>3, <2>4
<1>. QED
  BY <1>2, <1>3

LEMMA ConnectingOn ==
  ASSUME Connecting, UNCHANGED <<store, overlapped>>, Active' \subseteq Active,
         \A q \in Tasks : call'[q].pc = "connecting" => call[q].pc = "connecting"
  PROVE  Connecting'
  BY DEF Connecting

\* Where a call stands tells whether it is under way.
LEMMA ActiveMoves ==
  ASSUME FacadeTyped, NEW p \in Tasks, NEW pc, Goes(p, pc)
  PROVE  /\ call'[p].pc = pc /\ \A q \in Tasks \ {p} : call'[q] = call[q]
         /\ p \in Active => Active' \subseteq Active
         /\ pc # "connecting" =>
              \A q \in Tasks : call'[q].pc = "connecting" => call[q].pc = "connecting"
<1>1. call' = [call EXCEPT ![p].pc = pc]
      /\ call'[p].pc = pc /\ \A q \in Tasks \ {p} : call'[q] = call[q]
  BY DEF Goes, FacadeTyped
<1>2. p \in Active => Active' \subseteq Active
  BY <1>1 DEF Active, Stands
<1>. QED
  BY <1>1, <1>2

LEMMA BeginCallKeeps ==
  ASSUME FacadeInv, NEW p \in Tasks, NEW kind \in {"run", "stream"}, BeginCall(p, kind)
  PROVE  FacadeInv'
<1>. USE DEF FacadeInv
<1>1. /\ call' = [call EXCEPT ![p] = [pc |-> "store", kind |-> kind]]
      /\ UNCHANGED <<emitted, queues, delivered, table, consumer, store>>
      /\ call[p].pc = "new" /\ overlapped' = (overlapped \/ Active # {})
  BY DEF BeginCall, Stands
<1>2. call'[p].pc = "store" /\ \A q \in Tasks \ {p} : call'[q] = call[q]
  BY <1>1 DEF FacadeTyped
<1>3. FacadeTyped'
  BY <1>1 DEF FacadeTyped, Early
<1>4. Connecting'
  <2>1. store' = store /\ store \in [have : BOOLEAN, open : Int]
    BY <1>1 DEF Connecting
  <2>2. ASSUME ~overlapped'
        PROVE  /\ store.open = IF store.have THEN 1 ELSE 0
               /\ \A q, r \in Active' : q = r
               /\ \A q \in Tasks : call'[q].pc = "connecting" => ~store.have
    <3>1. ~overlapped /\ Active = {}
      BY <1>1, <2>2
    <3>2. \A q \in Active' : q = p
      BY <1>2, <3>1 DEF Active, Stands
    <3>. QED
      BY <1>2, <3>1, <3>2 DEF Connecting
  <2>. QED
    BY <2>1, <2>2 DEF Connecting
<1>5. ASSUME NEW q \in Tasks PROVE (Streaming(q) /\ Stored1(q))'
  <2>1. /\ emitted'[q] = emitted[q] /\ queues'[q] = queues[q] /\ delivered'[q] = delivered[q]
        /\ table' = table /\ consumer'[q] = consumer[q]
    BY <1>1
  <2>2. Streaming(q) /\ Stored1(q)
    OBVIOUS
  <2>3. CASE q # p
    BY <1>2, <2>1, <2>2, <2>3 DEF Streaming, Stored1
  <2>4. CASE q = p
    BY <1>1, <1>2, <2>1, <2>2, <2>4 DEF Streaming, Stored1, Early
  <2>. QED
    BY <2>3, <2>4
<1>. QED
  BY <1>3, <1>4, <1>5

\* A call connects to the stores it has no connection of.
LEMMA OpeningKeeps ==
  ASSUME FacadeInv, NEW p \in Tasks, AskStore(p) \/ StoreConnects(p)
  PROVE  FacadeInv'
<1>. USE DEF FacadeInv
<1>1. PICK pc \in Early : Goes(p, pc) /\ (AskStore(p) /\ pc = "connecting" => ~store.have)
                          /\ (StoreConnects(p) => pc = "memory")
  BY DEF AskStore, InitializeStore, StoreConnects, Early
<1>2. /\ call[p].pc \in {"store", "connecting"}
      /\ UNCHANGED <<emitted, queues, delivered, table, consumer, overlapped>>
  BY DEF AskStore, StoreConnects, Stands
<1>3. Streaming(p) /\ call[p].pc \in Early
  BY <1>2 DEF Early
<1>4. consumer[p] = "none"
  BY <1>3 DEF Streaming
<1>5. FacadeTyped' /\ \A q \in Tasks : (Streaming(q) /\ Stored1(q))'
  BY <1>1, <1>2, <1>3, <1>4, MovesOn DEF Stands
<1>6. /\ call'[p].pc = pc /\ \A q \in Tasks \ {p} : call'[q] = call[q]
      /\ p \in Active /\ Active' \subseteq Active
  BY <1>1, <1>2, ActiveMoves DEF Active, Stands
<1>7. Connecting'
  <2>1. CASE AskStore(p)
    <3>1. store' = store
      BY <2>1 DEF AskStore
    <3>2. \A q \in Tasks : call'[q].pc = "connecting" => call[q].pc = "connecting" \/ ~store.have
      BY <1>1, <1>6, <2>1
    <3>. QED
      BY <1>2, <1>6, <3>1, <3>2 DEF Connecting
  <2>2. CASE StoreConnects(p)
    <3>1. store' = [have |-> TRUE, open |-> store.open + 1] /\ call[p].pc = "connecting"
      BY <2>2 DEF StoreConnects, Connected, Stands
    <3>2. store' \in [have : BOOLEAN, open : Int]
      BY <3>1 DEF Connecting
    <3>3. ASSUME ~overlapped
          PROVE  store'.open = 1 /\ \A q \in Tasks : call'[q].pc # "connecting"
      <4>1. store.open = 0
        BY <3>1, <3>3 DEF Connecting
      <4>2. \A q \in Tasks : call[q].pc = "connecting" => q \in Active
        BY DEF Active, Stands
      <4>3. \A q \in Tasks \ {p} : call'[q].pc # "connecting"
        BY <1>6, <3>3, <4>2 DEF Connecting
      <4>. QED
        BY <1>1, <1>6, <2>2, <3>1, <4>1, <4>3
    <3>. QED
      BY <1>2, <1>6, <3>1, <3>2, <3>3 DEF Connecting
  <2>. QED
    BY <2>1, <2>2
<1>. QED
  BY <1>5, <1>7

\* The subscription of a stream begins before its loop.
LEMMA MemoryConnectsKeeps ==
  ASSUME FacadeInv, NEW p \in Tasks, MemoryConnects(p)
  PROVE  FacadeInv'
<1>. USE DEF FacadeInv
<1>1. /\ Goes(p, "loop") /\ UNCHANGED <<emitted, queues, delivered, table, store, overlapped>>
      /\ call[p].pc = "memory" /\ consumer' \in [Tasks -> {"none", "polling", "draining", "raised", "result", "left"}]
      /\ consumer'[p] \in {"none", "polling"} /\ \A q \in Tasks \ {p} : consumer'[q] = consumer[q]
  BY DEF MemoryConnects, Stands, FacadeTyped
<1>2. /\ call'[p].pc = "loop" /\ \A q \in Tasks \ {p} : call'[q] = call[q]
      /\ p \in Active /\ Active' \subseteq Active
      /\ \A q \in Tasks : call'[q].pc = "connecting" => call[q].pc = "connecting"
  BY <1>1, ActiveMoves DEF Active, Stands
<1>3. FacadeTyped'
  <2>1. call[p] \in [pc : Early \cup {"loop", "append", "answered", "raised", "unstored"},
                     kind : {"run", "stream"}]
    BY DEF FacadeTyped
  <2>2. call' = [call EXCEPT ![p] = [call[p] EXCEPT !.pc = "loop"]]
    BY <1>1 DEF FacadeTyped, Goes
  <2>3. [call[p] EXCEPT !.pc = "loop"]
          \in [pc : Early \cup {"loop", "append", "answered", "raised", "unstored"},
               kind : {"run", "stream"}]
    BY <2>1
  <2>. QED
    BY <1>1, <2>2, <2>3 DEF FacadeTyped
<1>4. Connecting'
  BY <1>1, <1>2, ConnectingOn
<1>5. ASSUME NEW q \in Tasks PROVE (Streaming(q) /\ Stored1(q))'
  <2>1. /\ emitted'[q] = emitted[q] /\ queues'[q] = queues[q] /\ delivered'[q] = delivered[q]
        /\ table' = table
    BY <1>1
  <2>2. Streaming(q) /\ Stored1(q)
    OBVIOUS
  <2>3. CASE q # p
    BY <1>1, <1>2, <2>1, <2>2, <2>3 DEF Streaming, Stored1
  <2>4. CASE q = p
    <3>1. emitted[p] = 0 /\ call[p].pc \in Early
      BY <1>1, <2>2, <2>4 DEF Streaming, Early
    <3>2. Tells(delivered[p], p, 1, 0) /\ Tells(queues[p], p, 1, 0)
      BY <2>2, <2>4, <3>1 DEF Streaming
    <3>3. Streaming(p)'
      <4>1. 0 \in 0..0 /\ 0 + 1 = 1
        OBVIOUS
      <4>. QED
        BY <1>1, <1>2, <2>1, <2>4, <3>1, <3>2, <4>1 DEF Streaming, Early
    <3>4. Stored1(p)'
      BY <1>1, <1>2, <2>1, <2>2, <2>4 DEF Stored1
    <3>. QED
      BY <2>4, <3>3, <3>4
  <2>. QED
    BY <2>3, <2>4
<1>. QED
  BY <1>3, <1>4, <1>5

\* The type of the calls when one of them moves.
LEMMA CallTyped ==
  ASSUME FacadeTyped, NEW p \in Tasks,
         NEW pc \in Early \cup {"loop", "append", "answered", "raised", "unstored"}, Goes(p, pc)
  PROVE  call' \in [Tasks -> [pc : Early \cup {"loop", "append", "answered", "raised", "unstored"},
                              kind : {"run", "stream"}]]
<1>1. call[p] \in [pc : Early \cup {"loop", "append", "answered", "raised", "unstored"},
                   kind : {"run", "stream"}]
  BY DEF FacadeTyped
<1>2. call' = [call EXCEPT ![p] = [call[p] EXCEPT !.pc = pc]]
  BY DEF FacadeTyped, Goes
<1>3. [call[p] EXCEPT !.pc = pc]
        \in [pc : Early \cup {"loop", "append", "answered", "raised", "unstored"},
             kind : {"run", "stream"}]
  BY <1>1
<1>. QED
  BY <1>2, <1>3 DEF FacadeTyped

\* An event goes to the queues of all streams, behind what they hold.
LEMMA PublishKeeps ==
  ASSUME FacadeInv, NEW p \in Tasks, Publish(p)
  PROVE  FacadeInv'
<1>. USE DEF FacadeInv
<1>1. /\ Goes(p, "append") /\ UNCHANGED <<consumer, delivered, table, store, overlapped>>
      /\ call[p].pc = "loop" /\ emitted' = [emitted EXCEPT ![p] = @ + 1]
      /\ queues' = [q \in Tasks |-> IF q \in Audience THEN Append(queues[q], <<p, emitted[p] + 1>>)
                                                      ELSE queues[q]]
  BY DEF Publish, Stands
<1>2. /\ call'[p].pc = "append" /\ \A q \in Tasks \ {p} : call'[q] = call[q]
      /\ p \in Active /\ Active' \subseteq Active
      /\ \A q \in Tasks : call'[q].pc = "connecting" => call[q].pc = "connecting"
  BY <1>1, ActiveMoves DEF Active, Stands
<1>3. Connecting'
  BY <1>1, <1>2, ConnectingOn
<1>4. PICK e \in Published : e = <<p, emitted[p] + 1>> /\ e[1] = p
  <2>1. emitted[p] + 1 \in Nat
    BY DEF FacadeTyped
  <2>2. <<p, emitted[p] + 1>> \in Published
    BY <2>1 DEF Published
  <2>. QED
    BY <2>2
<1>5. FacadeTyped'
  <2>1. emitted' \in [Tasks -> Nat]
    BY <1>1 DEF FacadeTyped
  <2>2. \A q \in Tasks : queues'[q] \in Seq(Published)
    BY <1>1, <1>4 DEF FacadeTyped
  <2>3. queues' \in [Tasks -> Seq(Published)]
    BY <1>1, <2>2
  <2>. QED
    BY <1>1, <2>1, <2>3, CallTyped DEF FacadeTyped
<1>6. ASSUME NEW q \in Tasks PROVE (Streaming(q) /\ Stored1(q))'
  <2>1. /\ delivered'[q] = delivered[q] /\ table' = table /\ consumer'[q] = consumer[q]
        /\ queues'[q] = IF consumer[q] \in {"polling", "draining"} THEN Append(queues[q], e)
                                                                   ELSE queues[q]
    BY <1>1, <1>4 DEF Audience, Subscribed
  <2>2. Streaming(q) /\ Stored1(q) /\ emitted[q] \in Nat /\ queues[q] \in Seq(Published)
    BY DEF FacadeTyped
  <2>3. PICK m, n \in 0..emitted[q] :
          /\ m <= n
          /\ Tells(delivered[q], q, 1, m) /\ Tells(queues[q], q, m + 1, n)
          /\ consumer[q] \in {"polling", "draining"} => n = emitted[q]
          /\ consumer[q] = "result" => m = emitted[q]
    BY <2>2 DEF Streaming
  <2>4. CASE q # p
    <3>1. Tells(queues'[q], q, m + 1, n)
      BY <1>4, <2>1, <2>2, <2>3, <2>4, TellsOther
    <3>2. emitted'[q] = emitted[q] /\ call'[q] = call[q]
      BY <1>1, <1>2, <2>4 DEF FacadeTyped
    <3>. QED
      BY <2>1, <2>2, <2>3, <3>1, <3>2 DEF Streaming, Stored1
  <2>5. CASE q = p
    <3>1. emitted'[q] = emitted[q] + 1 /\ call'[q].pc = "append" /\ call[q].pc = "loop"
      BY <1>1, <1>2, <2>5 DEF FacadeTyped
    <3>2. Stored1(q)'
      BY <2>1, <2>2, <3>1 DEF Stored1
    <3>3. consumer[q] \notin {"draining", "result"}
      BY <2>2, <3>1 DEF Streaming
    <3>4. CASE consumer[q] = "polling"
      <4>1. n = emitted[q] /\ e = <<q, n + 1>>
        BY <1>4, <2>3, <2>5, <3>4
      <4>2. Tells(queues'[q], q, m + 1, n + 1)
        BY <2>1, <2>2, <2>3, <3>4, <4>1, TellsNext
      <4>3. m \in 0..emitted'[q] /\ n + 1 \in 0..emitted'[q] /\ m <= n + 1 /\ n + 1 = emitted'[q]
        BY <2>2, <3>1, <4>1
      <4>. QED
        BY <2>1, <2>3, <3>1, <3>2, <3>3, <3>4, <4>2, <4>3 DEF Streaming, Early
    <3>5. CASE consumer[q] # "polling"
      <4>1. m \in 0..emitted'[q] /\ n \in 0..emitted'[q]
        BY <2>2, <3>1
      <4>. QED
        BY <2>1, <2>2, <2>3, <3>1, <3>2, <3>3, <3>5, <4>1 DEF Streaming, Early
    <3>. QED
      BY <3>4, <3>5
  <2>. QED
    BY <2>4, <2>5
<1>. QED
  BY <1>3, <1>5, <1>6

\* The events of p come last in the table when they are stored.
LEMMA AppendRowKeeps ==
  ASSUME FacadeInv, NEW p \in Tasks, AppendRow(p)
  PROVE  FacadeInv'
<1>. USE DEF FacadeInv
<1>1. /\ Goes(p, "loop") /\ UNCHANGED <<consumer, emitted, queues, delivered, overlapped>>
      /\ call[p].pc = "append" /\ table' = Append(table, <<p, emitted[p]>>)
      /\ store' = IF store.have THEN store ELSE [have |-> TRUE, open |-> store.open + 1]
  BY DEF AppendRow, Stands, Used, Connected
<1>2. /\ call'[p].pc = "loop" /\ \A q \in Tasks \ {p} : call'[q] = call[q]
      /\ p \in Active /\ Active' \subseteq Active
      /\ \A q \in Tasks : call'[q].pc = "connecting" => call[q].pc = "connecting"
  BY <1>1, ActiveMoves DEF Active, Stands
<1>3. Connecting'
  <2>1. store' \in [have : BOOLEAN, open : Int]
    BY <1>1 DEF Connecting
  <2>2. ASSUME ~overlapped
        PROVE  store'.open = 1 /\ store'.have /\ \A q \in Tasks : call'[q].pc # "connecting"
    <3>1. \A q \in Tasks : call[q].pc = "connecting" => q \in Active
      BY DEF Active, Stands
    <3>2. \A q \in Tasks : call[q].pc # "connecting"
      BY <1>1, <1>2, <2>2, <3>1 DEF Connecting
    <3>. QED
      BY <1>1, <1>2, <2>2, <3>2 DEF Connecting
  <2>. QED
    BY <1>1, <1>2, <2>1, <2>2 DEF Connecting
<1>4. PICK e \in Published : e = <<p, emitted[p]>> /\ e[1] = p
  <2>1. emitted[p] \in Nat
    BY DEF FacadeTyped
  <2>2. <<p, emitted[p]>> \in Published
    BY <2>1 DEF Published
  <2>. QED
    BY <2>2
<1>5. table \in Seq(Published) /\ table' = Append(table, e)
  BY <1>1, <1>4 DEF FacadeTyped
<1>6. FacadeTyped'
  <2>1. table' \in Seq(Published)
    BY <1>5
  <2>. QED
    BY <1>1, <2>1, CallTyped DEF FacadeTyped
<1>7. ASSUME NEW q \in Tasks PROVE (Streaming(q) /\ Stored1(q))'
  <2>1. /\ delivered'[q] = delivered[q] /\ consumer'[q] = consumer[q] /\ queues'[q] = queues[q]
        /\ emitted'[q] = emitted[q]
    BY <1>1
  <2>2. Streaming(q) /\ Stored1(q) /\ emitted[q] \in Nat
    BY DEF FacadeTyped
  <2>3. CASE q # p
    <3>1. call'[q] = call[q]
      BY <1>2, <2>3
    <3>2. Streaming(q)'
      BY <2>1, <2>2, <3>1 DEF Streaming
    <3>3. \A n : Tells(table, q, 1, n) => Tells(table', q, 1, n)
      BY <1>4, <1>5, <2>3, TellsOther
    <3>. QED
      BY <2>1, <2>2, <3>1, <3>2, <3>3 DEF Stored1
  <2>4. CASE q = p
    <3>1. PICK n \in Nat : n + 1 = emitted[q] /\ Tells(table, q, 1, n)
      <4>1. emitted[q] > 0 /\ Tells(table, q, 1, emitted[q] - 1)
        BY <1>1, <2>2, <2>4 DEF Stored1
      <4>2. emitted[q] - 1 \in Nat /\ (emitted[q] - 1) + 1 = emitted[q]
        BY <2>2, <4>1
      <4>. QED
        BY <4>1, <4>2
    <3>2. e = <<q, n + 1>> /\ 1 <= n + 1
      BY <1>4, <2>4, <3>1
    <3>3. Tells(table', q, 1, n + 1)
      BY <1>5, <3>1, <3>2, TellsNext
    <3>4. Stored1(q)'
      BY <1>2, <2>1, <2>4, <3>1, <3>3 DEF Stored1
    <3>5. Streaming(q)'
      BY <1>1, <1>2, <2>1, <2>2, <2>4 DEF Streaming, Early
    <3>. QED
      BY <3>4, <3>5
  <2>. QED
    BY <2>3, <2>4
<1>. QED
  BY <1>3, <1>6, <1>7

\* A loop that ends, or an append that fails.
LEMMA EndsKeep ==
  ASSUME FacadeInv, NEW p \in Tasks, AppendFails(p) \/ LoopEnds(p)
  PROVE  FacadeInv'
<1>. USE DEF FacadeInv
<1>1. PICK pc \in {"unstored", "answered", "raised"} :
        Goes(p, pc) /\ (AppendFails(p) <=> pc = "unstored")
  BY DEF AppendFails, LoopEnds, Stands
<1>2. /\ call[p].pc = IF pc = "unstored" THEN "append" ELSE "loop"
      /\ UNCHANGED <<consumer, emitted, queues, delivered, table, store, overlapped>>
  BY <1>1 DEF AppendFails, LoopEnds, Stands
<1>3. /\ call'[p].pc = pc /\ \A q \in Tasks \ {p} : call'[q] = call[q]
      /\ p \in Active /\ Active' \subseteq Active
      /\ \A q \in Tasks : call'[q].pc = "connecting" => call[q].pc = "connecting"
  BY <1>1, <1>2, ActiveMoves DEF Active, Stands
<1>4. Connecting'
  BY <1>2, <1>3, ConnectingOn
<1>5. FacadeTyped'
  BY <1>1, <1>2, CallTyped DEF FacadeTyped
<1>6. ASSUME NEW q \in Tasks PROVE (Streaming(q) /\ Stored1(q))'
  <2>1. /\ delivered'[q] = delivered[q] /\ consumer'[q] = consumer[q] /\ queues'[q] = queues[q]
        /\ emitted'[q] = emitted[q] /\ table' = table
    BY <1>2
  <2>2. Streaming(q) /\ Stored1(q)
    OBVIOUS
  <2>3. CASE q # p
    BY <1>3, <2>1, <2>2, <2>3 DEF Streaming, Stored1
  <2>4. CASE q = p
    BY <1>2, <1>3, <2>1, <2>2, <2>4 DEF Streaming, Stored1, Early
  <2>. QED
    BY <2>3, <2>4
<1>. QED
  BY <1>4, <1>5, <1>6

\* The consumer takes the first event of its queue.
LEMMA TakeKeeps ==
  ASSUME FacadeInv, NEW p \in Tasks, Take(p)
  PROVE  FacadeInv'
<1>. USE DEF FacadeInv
<1>1. /\ UNCHANGED <<call, consumer, emitted, table, store, overlapped>>
      /\ queues[p] # <<>> /\ consumer[p] \in {"polling", "draining"}
      /\ delivered' = [delivered EXCEPT ![p] = Append(@, Head(queues[p]))]
      /\ queues' = [queues EXCEPT ![p] = Tail(@)]
  BY DEF Take, Subscribed
<1>2. queues[p] \in Seq(Published) /\ delivered[p] \in Seq(Published) /\ emitted[p] \in Nat
  BY DEF FacadeTyped
<1>3. PICK h \in Published : h = Head(queues[p])
  BY <1>1, <1>2
<1>4. PICK t \in Seq(Published) : t = Tail(queues[p])
  <2>1. Tail(queues[p]) \in Seq(Published)
    BY <1>1, <1>2
  <2>. QED
    BY <2>1
<1>5. PICK d \in Seq(Published) : d = Append(delivered[p], h)
  <2>1. Append(delivered[p], h) \in Seq(Published)
    BY <1>2
  <2>. QED
    BY <2>1
<1>6. /\ delivered'[p] = d /\ queues'[p] = t
      /\ \A q \in Tasks \ {p} : delivered'[q] = delivered[q] /\ queues'[q] = queues[q]
  BY <1>1, <1>3, <1>4, <1>5 DEF FacadeTyped
<1>7. FacadeTyped'
  <2>1. delivered' = [delivered EXCEPT ![p] = d] /\ queues' = [queues EXCEPT ![p] = t]
    BY <1>1, <1>3, <1>4, <1>5 DEF FacadeTyped
  <2>. QED
    BY <1>1, <2>1 DEF FacadeTyped
<1>8. Connecting'
  BY <1>1 DEF Connecting, Active, Stands
<1>9. ASSUME NEW q \in Tasks PROVE (Streaming(q) /\ Stored1(q))'
  <2>1. call'[q] = call[q] /\ consumer'[q] = consumer[q] /\ emitted'[q] = emitted[q] /\ table' = table
    BY <1>1
  <2>2. Streaming(q) /\ Stored1(q)
    OBVIOUS
  <2>3. CASE q # p
    BY <1>6, <2>1, <2>2, <2>3 DEF Streaming, Stored1
  <2>4. CASE q = p
    <3>1. PICK m, n \in 0..emitted[p] :
            m <= n /\ Tells(delivered[p], p, 1, m) /\ Tells(queues[p], p, m + 1, n) /\ n = emitted[p]
      BY <1>1, <2>2, <2>4 DEF Streaming
    <3>2. m \in Nat /\ n \in Nat /\ m + 1 \in Nat
      BY <1>2
    <3>3. CASE h[1] = p
      <4>1. h = <<p, m + 1>> /\ m + 1 <= n /\ Tells(t, p, (m + 1) + 1, n)
        BY <1>1, <1>2, <1>3, <1>4, <3>1, <3>2, <3>3, TellsTail, SMTT(30)
      <4>2. Tells(d, p, 1, m + 1)
        BY <1>2, <1>5, <3>1, <3>2, <4>1, TellsNext, SMTT(30)
      <4>3. m + 1 \in 0..emitted[p] /\ n \in 0..emitted[p]
        BY <1>2, <3>1, <4>1
      <4>. QED
        BY <1>1, <1>6, <2>1, <2>2, <2>4, <3>1, <4>1, <4>2, <4>3, ZenonT(40) DEF Streaming, Stored1
    <3>4. CASE h[1] # p
      <4>1. Tells(t, p, m + 1, n)
        BY <1>1, <1>2, <1>3, <1>4, <3>1, <3>2, <3>4, TellsTail
      <4>2. Tells(d, p, 1, m)
        BY <1>2, <1>5, <3>1, <3>4, TellsOther
      <4>. QED
        BY <1>1, <1>6, <2>1, <2>2, <2>4, <3>1, <4>1, <4>2 DEF Streaming, Stored1
    <3>. QED
      BY <3>3, <3>4
  <2>. QED
    BY <2>3, <2>4
<1>. QED
  BY <1>7, <1>8, <1>9

\* A generator that sees the end of its task, has nothing left, or is left.
LEMMA ConsumerKeeps ==
  ASSUME FacadeInv, NEW p \in Tasks, Notice(p) \/ Result(p) \/ Abandon(p)
  PROVE  FacadeInv'
<1>. USE DEF FacadeInv
<1>1. /\ UNCHANGED <<call, emitted, queues, delivered, table, store, overlapped>>
      /\ consumer[p] \in {"polling", "draining"}
  BY DEF Notice, Result, Abandon, Subscribed
<1>2. PICK c \in {"draining", "raised", "result", "left"} :
        /\ consumer' = [consumer EXCEPT ![p] = c]
        /\ c = "draining" => call[p].pc = "answered"
        /\ c = "result" => consumer[p] = "draining" /\ queues[p] = <<>>
  BY DEF Notice, Result, Abandon, Drained, Stands
<1>3. consumer'[p] = c /\ \A q \in Tasks \ {p} : consumer'[q] = consumer[q]
  BY <1>2 DEF FacadeTyped
<1>4. FacadeTyped'
  BY <1>1, <1>2 DEF FacadeTyped
<1>5. Connecting'
  BY <1>1 DEF Connecting, Active, Stands
<1>6. ASSUME NEW q \in Tasks PROVE (Streaming(q) /\ Stored1(q))'
  <2>1. /\ delivered'[q] = delivered[q] /\ call'[q] = call[q] /\ queues'[q] = queues[q]
        /\ emitted'[q] = emitted[q] /\ table' = table
    BY <1>1
  <2>2. Streaming(q) /\ Stored1(q) /\ emitted[q] \in Nat
    BY DEF FacadeTyped
  <2>3. CASE q # p
    BY <1>3, <2>1, <2>2, <2>3 DEF Streaming, Stored1
  <2>4. CASE q = p
    <3>1. PICK m, n \in 0..emitted[p] :
            m <= n /\ Tells(delivered[p], p, 1, m) /\ Tells(queues[p], p, m + 1, n) /\ n = emitted[p]
      BY <1>1, <2>2, <2>4 DEF Streaming
    <3>2. c = "result" => m = emitted[p]
      <4>1. SUFFICES ASSUME c = "result" PROVE m = emitted[p]
        OBVIOUS
      <4>2. m + 1 \in Nat /\ n \in Nat /\ Tells(<<>>, p, m + 1, n)
        BY <1>2, <2>2, <2>4, <3>1, <4>1
      <4>3. m + 1 > n
        BY <4>2, TellsNothing
      <4>. QED
        BY <2>2, <2>4, <3>1, <4>3
    <3>3. Early \cap {call[p].pc} = {}
      BY <1>1, <2>2, <2>4 DEF Streaming
    <3>4. c \in {"draining", "result"} => call[p].pc = "answered"
      BY <1>2, <2>2, <2>4 DEF Streaming
    <3>. QED
      BY <1>3, <2>1, <2>2, <2>4, <3>1, <3>2, <3>3, <3>4 DEF Streaming, Stored1
  <2>. QED
    BY <2>3, <2>4
<1>. QED
  BY <1>4, <1>5, <1>6

LEMMA CloseAgentKeeps ==
  ASSUME FacadeInv, CloseAgent
  PROVE  FacadeInv'
<1>. USE DEF FacadeInv
<1>1. /\ UNCHANGED <<call, consumer, emitted, queues, delivered, table>>
      /\ store' = (IF store.have THEN [have |-> FALSE, open |-> store.open - 1] ELSE store)
      /\ overlapped' = (overlapped \/ Active # {})
  BY DEF CloseAgent, Released
<1>2. FacadeTyped' /\ \A q \in Tasks : (Streaming(q) /\ Stored1(q))'
  BY <1>1 DEF FacadeTyped, Streaming, Stored1
<1>3. Connecting'
  <2>1. store' \in [have : BOOLEAN, open : Int]
    BY <1>1 DEF Connecting
  <2>2. ASSUME ~overlapped'
        PROVE  /\ store'.open = 0 /\ ~store'.have /\ \A p, q \in Active' : p = q
               /\ \A p \in Tasks : call'[p].pc # "connecting"
    <3>1. ~overlapped /\ Active = {} /\ Active' = Active
      BY <1>1, <2>2 DEF Active, Stands
    <3>2. \A p \in Tasks : call[p].pc # "connecting"
      BY <3>1 DEF Active, Stands
    <3>. QED
      BY <1>1, <3>1, <3>2 DEF Connecting
  <2>. QED
    BY <2>1, <2>2 DEF Connecting
<1>. QED
  BY <1>2, <1>3

LEMMA FacadeStep == FacadeInv /\ [FacadeNext]_avars => FacadeInv'
<1>. SUFFICES ASSUME FacadeInv, [FacadeNext]_avars PROVE FacadeInv'
  OBVIOUS
<1>1. CASE CloseAgent
  BY <1>1, CloseAgentKeeps
<1>2. CASE \E p \in Tasks : CallStep(p)
  <2>1. PICK p \in Tasks : CallStep(p)
    BY <1>2
  <2>2. CASE \E kind \in Kinds : BeginCall(p, kind)
    BY <2>2, FacadeAssumption, BeginCallKeeps
  <2>3. CASE AskStore(p) \/ StoreConnects(p)
    BY <2>3, OpeningKeeps
  <2>4. CASE MemoryConnects(p)
    BY <2>4, MemoryConnectsKeeps
  <2>5. CASE Publish(p)
    BY <2>5, PublishKeeps
  <2>6. CASE AppendRow(p)
    BY <2>6, AppendRowKeeps
  <2>7. CASE AppendFails(p) \/ LoopEnds(p)
    BY <2>7, EndsKeep
  <2>8. CASE Take(p)
    BY <2>8, TakeKeeps
  <2>9. CASE Notice(p) \/ Result(p) \/ Abandon(p)
    BY <2>9, ConsumerKeeps
  <2>. QED
    BY <2>1, <2>2, <2>3, <2>4, <2>5, <2>6, <2>7, <2>8, <2>9 DEF CallStep
<1>3. CASE UNCHANGED avars
  BY <1>3 DEF avars, FacadeInv, FacadeTyped, Connecting, Streaming, Stored1, Active, Stands
<1>. QED
  BY <1>1, <1>2, <1>3 DEF FacadeNext

LEMMA FacadeSays == FacadeInv => FacadeLaw
<1>. SUFFICES ASSUME FacadeInv PROVE FacadeLaw
  OBVIOUS
<1>. USE DEF FacadeInv
<1>1. StreamWhole
  <2>. SUFFICES ASSUME NEW p \in Tasks
                PROVE  /\ \E n \in 0..emitted[p] : Tells(delivered[p], p, 1, n)
                       /\ consumer[p] = "result" => Tells(delivered[p], p, 1, emitted[p])
    BY DEF StreamWhole
  <2>. QED
    BY DEF Streaming
<1>2. TableWhole
  BY DEF TableWhole, Stored1
<1>3. OneConnection
  BY DEF OneConnection, Connecting
<1>. QED
  BY <1>1, <1>2, <1>3 DEF FacadeLaw

-----------------------------------------------------------------------------
(* What the terminal keeps                                                   *)

LEMMA TerminalPart == MCSpec => TerminalInit /\ [][TerminalNext]_tvars
<1>1. MCInit => TerminalInit
  BY DEF MCInit
<1>2. [MCNext]_mcVars => [TerminalNext]_tvars
  <2>1. UNCHANGED hostVars => UNCHANGED tvars
    BY DEF hostVars
  <2>2. HostSteps => [TerminalNext]_tvars
    BY DEF HostSteps
  <2>. QED
    BY <2>1, <2>2 DEF MCNext, mcVars
<1>. QED
  BY <1>1, <1>2, PTL DEF MCSpec

LineKinds ==
  {Blank, Panel} \cup {TextFrame(texts) : texts \in SUBSET Nat}
    \cup {ToolFrame(kind, c) : kind \in {"pending", "panel", "ok", "error", "detail", "diff"}, c \in Made}
    \cup {[kind |-> "streak", tool |-> s, count |-> n] : s \in Drawers \cup {NoDrawer}, n \in Nat}

Streaks == [tool : Drawers \cup {NoDrawer}, count : Nat]
Displays == [streamed : SUBSET Nat, live : LineKinds, streak : Streaks, screen : Seq(LineKinds)]

\* A frame shows the text of a response, and a display shows it somewhere.
Shows(f, t) == f.kind = "text" /\ t \in f.turns
Says(d, t) == Shows(d.live, t) \/ \E i \in 1..Len(d.screen) : Shows(d.screen[i], t)

\* The lines of a display stay where they are, and its texts stay.
Follows(d, e) ==
  /\ e \in Displays
  /\ Len(d.screen) <= Len(e.screen) /\ \A i \in 1..Len(d.screen) : e.screen[i] = d.screen[i]
  /\ \A t : Says(d, t) => Says(e, t)

LEMMA FollowsOn ==
  ASSUME NEW d \in Displays, NEW e, NEW f, Follows(d, e), Follows(e, f)
  PROVE  Follows(d, f)
<1>1. Len(d.screen) \in Nat /\ Len(e.screen) \in Nat /\ Len(f.screen) \in Nat
  BY DEF Displays, Follows
<1>. QED
  BY <1>1 DEF Follows

LEMMA FollowsItself ==
  ASSUME NEW d \in Displays
  PROVE  Follows(d, d)
<1>1. Len(d.screen) \in Nat
  BY DEF Displays
<1>. QED
  BY <1>1 DEF Follows

LEMMA FrameKinds ==
  /\ Blank \in LineKinds /\ Panel \in LineKinds /\ \A t : ~Shows(Blank, t)
  /\ \A texts \in SUBSET Nat : TextFrame(texts) \in LineKinds
  /\ \A texts : TextFrame(texts) # Blank /\ \A t : Shows(TextFrame(texts), t) <=> t \in texts
  /\ \A kind \in {"pending", "panel", "ok", "error", "detail", "diff"}, c \in Made :
       /\ ToolFrame(kind, c) \in LineKinds /\ ToolFrame(kind, c) # Blank
       /\ \A t : ~Shows(ToolFrame(kind, c), t)
<1>1. /\ Blank \in LineKinds /\ Panel \in LineKinds
      /\ \A texts \in SUBSET Nat : TextFrame(texts) \in LineKinds
      /\ \A kind \in {"pending", "panel", "ok", "error", "detail", "diff"}, c \in Made :
           ToolFrame(kind, c) \in LineKinds
  BY DEF LineKinds
<1>2. \A t : ~Shows(Blank, t)
  BY DEF Blank, Shows
<1>3. \A texts : TextFrame(texts).kind = "text" /\ TextFrame(texts).turns = texts
  BY DEF TextFrame
<1>4. Blank.kind = "blank"
  BY DEF Blank
<1>5. \A kind, c : ToolFrame(kind, c).kind = kind
  BY DEF ToolFrame
<1>. QED
  BY <1>1, <1>2, <1>3, <1>4, <1>5 DEF Shows

LEMMA PrintsFollows ==
  ASSUME NEW d \in Displays, NEW line \in LineKinds
  PROVE  LET e == Prints(d, line)
         IN  /\ Follows(d, e) /\ e.live = d.live /\ e.streak = d.streak /\ e.streamed = d.streamed
             /\ Len(e.screen) = Len(d.screen) + 1 /\ e.screen[Len(d.screen) + 1] = line
<1>. DEFINE e == Prints(d, line)
<1>1. d.screen \in Seq(LineKinds)
  BY DEF Displays
<1>2. PICK s \in Seq(LineKinds) : s = Append(d.screen, line)
  <2>1. Append(d.screen, line) \in Seq(LineKinds)
    BY <1>1
  <2>. QED
    BY <2>1
<1>3. /\ Len(s) = Len(d.screen) + 1 /\ s[Len(d.screen) + 1] = line /\ Len(d.screen) \in Nat
      /\ \A i \in 1..Len(d.screen) : s[i] = d.screen[i]
  BY <1>1, <1>2
<1>4. e = [d EXCEPT !.screen = s]
  BY <1>2 DEF Prints
<1>5. /\ e \in Displays /\ e.screen = s /\ e.live = d.live /\ e.streak = d.streak
      /\ e.streamed = d.streamed
  BY <1>4 DEF Displays
<1>. HIDE DEF e
<1>6. ASSUME NEW t, Says(d, t) PROVE Says(e, t)
  <2>1. CASE Shows(d.live, t)
    BY <1>5, <2>1 DEF Says
  <2>2. CASE \E i \in 1..Len(d.screen) : Shows(d.screen[i], t)
    <3>1. PICK i \in 1..Len(d.screen) : Shows(d.screen[i], t)
      BY <2>2
    <3>2. i \in 1..Len(e.screen) /\ e.screen[i] = d.screen[i]
      BY <1>3, <1>5
    <3>. QED
      BY <3>1, <3>2 DEF Says
  <2>. QED
    BY <1>6, <2>1, <2>2 DEF Says
<1>7. Follows(d, e)
  BY <1>3, <1>5, <1>6 DEF Follows
<1>. QED
  BY <1>3, <1>5, <1>7 DEF e

LEMMA UpdateFollows ==
  ASSUME NEW d \in Displays, NEW frame \in LineKinds, \A t : Shows(d.live, t) => Shows(frame, t)
  PROVE  LET e == Update(d, frame)
         IN  /\ Follows(d, e) /\ e.live = frame /\ e.streak = d.streak /\ e.streamed = d.streamed
             /\ e.screen = d.screen
<1>. DEFINE e == Update(d, frame)
<1>1. /\ e \in Displays /\ e.screen = d.screen /\ e.live = frame /\ e.streak = d.streak
      /\ e.streamed = d.streamed
  BY DEF Displays, Update
<1>2. Len(d.screen) \in Nat
  BY DEF Displays
<1>. HIDE DEF e
<1>3. Follows(d, e)
  BY <1>1, <1>2 DEF Follows, Says
<1>. QED
  BY <1>1, <1>3 DEF e

\* A live display that stops stays as a line.
LEMMA StopLiveFollows ==
  ASSUME NEW d \in Displays
  PROVE  LET e == StopLive(d)
         IN  /\ Follows(d, e) /\ e.live = Blank /\ e.streak = d.streak /\ e.streamed = d.streamed
             /\ d.live # Blank => /\ Len(e.screen) = Len(d.screen) + 1
                                  /\ e.screen[Len(d.screen) + 1] = d.live
<1>1. CASE d.live = Blank
  BY <1>1, FollowsItself DEF StopLive
<1>2. CASE d.live # Blank
  <2>. DEFINE p == Prints(d, d.live)
              e == StopLive(d)
  <2>1. d.live \in LineKinds
    BY DEF Displays
  <2>2. /\ Follows(d, p) /\ p.live = d.live /\ p.streak = d.streak /\ p.streamed = d.streamed
        /\ Len(p.screen) = Len(d.screen) + 1 /\ p.screen[Len(d.screen) + 1] = d.live
    BY <2>1, PrintsFollows
  <2>3. p \in Displays /\ Len(d.screen) \in Nat
    BY <2>2 DEF Follows, Displays
  <2>4. e = [p EXCEPT !.live = Blank]
    BY <1>2 DEF StopLive, Prints, Displays
  <2>. HIDE DEF p
  <2>5. /\ e \in Displays /\ e.live = Blank /\ e.streak = p.streak /\ e.streamed = p.streamed
        /\ e.screen = p.screen
    BY <2>3, <2>4, FrameKinds DEF Displays
  <2>. HIDE DEF e
  <2>6. ASSUME NEW t, Says(d, t) PROVE Says(e, t)
    <3>1. CASE Shows(d.live, t)
      <4>1. Len(d.screen) + 1 \in 1..Len(e.screen)
        BY <2>2, <2>3, <2>5
      <4>. QED
        BY <2>2, <2>5, <3>1, <4>1 DEF Says
    <3>2. CASE \E i \in 1..Len(d.screen) : Shows(d.screen[i], t)
      <4>1. PICK i \in 1..Len(d.screen) : Shows(d.screen[i], t)
        BY <3>2
      <4>2. i \in 1..Len(e.screen) /\ e.screen[i] = d.screen[i]
        BY <2>2, <2>3, <2>5 DEF Follows
      <4>. QED
        BY <4>1, <4>2 DEF Says
    <3>. QED
      BY <2>6, <3>1, <3>2 DEF Says
  <2>7. Follows(d, e)
    BY <2>2, <2>3, <2>5, <2>6 DEF Follows
  <2>. QED
    BY <2>2, <2>5, <2>7 DEF e
<1>. QED
  BY <1>1, <1>2

LEMMA FinalizeFollows ==
  ASSUME NEW d \in Displays
  PROVE  LET e == FinalizeStreak(d)
         IN  Follows(d, e) /\ e.live = Blank /\ e.streamed = d.streamed
<1>. DEFINE s == StopLive(d)
<1>1. /\ Follows(d, s) /\ s.live = Blank /\ s.streak = d.streak /\ s.streamed = d.streamed
      /\ s \in Displays
  BY StopLiveFollows DEF Follows
<1>2. CASE d.streak.tool = NoDrawer \/ d.streak.count = 0
  BY <1>1, <1>2 DEF FinalizeStreak
<1>3. CASE ~(d.streak.tool = NoDrawer \/ d.streak.count = 0)
  <2>. DEFINE n == [s EXCEPT !.streak = NoStreak]
              line == [kind |-> "streak", tool |-> d.streak.tool, count |-> d.streak.count]
  <2>0. FinalizeStreak(d) = IF d.streak.count > 1 THEN Prints(n, line) ELSE n
    BY <1>3 DEF FinalizeStreak
  <2>1. line \in LineKinds
    <3>1. d.streak.tool \in Drawers \cup {NoDrawer} /\ d.streak.count \in Nat
      BY DEF Displays, Streaks
    <3>. QED
      BY <3>1 DEF LineKinds
  <2>2. NoStreak \in Streaks
    BY DEF NoStreak, Streaks
  <2>. HIDE DEF s, line
  <2>3. /\ n \in Displays /\ n.live = s.live /\ n.streak = NoStreak /\ n.streamed = s.streamed
        /\ n.screen = s.screen
    BY <1>1, <2>2 DEF Displays
  <2>. HIDE DEF n
  <2>4. Follows(s, n)
    <3>1. Len(s.screen) \in Nat
      BY <1>1 DEF Displays
    <3>. QED
      BY <2>3, <3>1 DEF Follows, Says
  <2>5. Follows(d, n)
    BY <1>1, <2>4, FollowsOn
  <2>6. /\ Follows(n, Prints(n, line)) /\ Prints(n, line).live = n.live
        /\ Prints(n, line).streak = n.streak /\ Prints(n, line).streamed = n.streamed
    BY <2>1, <2>3, PrintsFollows
  <2>7. Follows(d, Prints(n, line))
    BY <2>5, <2>6, FollowsOn
  <2>. QED
    BY <1>1, <2>0, <2>2, <2>3, <2>5, <2>6, <2>7
<1>. QED
  BY <1>2, <1>3

\* A text whose deltas come in grows in the live display.
LEMMA DeltaFollows ==
  ASSUME NEW d \in Displays, NEW t \in Nat,
         d.streamed # {} => \A u : Shows(d.live, u) => u \in d.streamed
  PROVE  LET e == HandleDelta(d, t)
         IN  Follows(d, e) /\ e.streamed = d.streamed \cup {t} /\ e.live = TextFrame(e.streamed)
<1>. DEFINE r == IF d.streamed = {} THEN FinalizeStreak(d) ELSE d
            x == [r EXCEPT !.streamed = r.streamed \cup {t}]
            f == TextFrame(r.streamed \cup {t})
<1>0. HandleDelta(d, t) = Update(x, f)
  BY DEF HandleDelta
<1>1. /\ Follows(d, r) /\ r.streamed = d.streamed /\ r \in Displays
      /\ \A u : Shows(r.live, u) => u \in r.streamed
  BY FinalizeFollows, FollowsItself, FrameKinds DEF Follows
<1>. HIDE DEF r
<1>2. /\ x \in Displays /\ x.streamed = d.streamed \cup {t} /\ x.live = r.live /\ x.screen = r.screen
  BY <1>1 DEF Displays
<1>3. f \in LineKinds /\ f = TextFrame(x.streamed) /\ \A u : Shows(f, u) <=> u \in x.streamed
  <2>1. d.streamed \cup {t} \in SUBSET Nat
    BY DEF Displays
  <2>. QED
    BY <1>1, <1>2, <2>1, FrameKinds
<1>. HIDE DEF x, f
<1>4. Follows(r, x)
  <2>1. Len(r.screen) \in Nat
    BY <1>1 DEF Displays
  <2>. QED
    BY <1>2, <2>1 DEF Follows, Says
<1>5. \A u : Shows(x.live, u) => Shows(f, u)
  BY <1>1, <1>2, <1>3
<1>6. /\ Follows(x, Update(x, f)) /\ Update(x, f).live = f
      /\ Update(x, f).streamed = x.streamed
  BY <1>2, <1>3, <1>5, UpdateFollows
<1>7. Follows(d, Update(x, f))
  <2>1. Follows(d, x)
    BY <1>1, <1>4, FollowsOn
  <2>. QED
    BY <1>6, <2>1, FollowsOn
<1>. QED
  BY <1>0, <1>2, <1>3, <1>6, <1>7

\* A response stops what is live before it is drawn, and when its calls follow.
LEMMA ResponseFollows ==
  ASSUME NEW d \in Displays, NEW t \in Nat, NEW content \in BOOLEAN, NEW calls
  PROVE  LET e == HandleResponse(d, t, content, calls)
         IN  /\ Follows(d, e)
             /\ content /\ d.streamed = {} => Says(e, t)
             /\ calls = {} => /\ e.streamed = d.streamed
                              /\ d.streamed # {} => e.live = d.live
             /\ calls # {} => e.streamed = {} /\ e.live = Blank
<1>. DEFINE f == TextFrame({t})
            z == FinalizeStreak(d)
            u == Update(z, f)
            x == IF content /\ d.streamed = {} THEN u ELSE d
            y == StopLive(x)
            e == HandleResponse(d, t, content, calls)
<1>1. e = IF calls = {} THEN x ELSE [y EXCEPT !.streamed = {}]
  BY DEF HandleResponse
<1>2. Follows(d, z) /\ z \in Displays /\ z.live = Blank /\ z.streamed = d.streamed
  BY FinalizeFollows DEF Follows
<1>3. f \in LineKinds /\ Shows(f, t) /\ \A v : ~Shows(Blank, v)
  BY FrameKinds
<1>. HIDE DEF z, f
<1>4. Follows(z, u) /\ u.live = f /\ u.streamed = z.streamed
  BY <1>2, <1>3, UpdateFollows
<1>. HIDE DEF u
<1>5. Follows(d, u) /\ Says(u, t)
  BY <1>2, <1>3, <1>4, FollowsOn DEF Says
<1>6. /\ Follows(d, x) /\ x \in Displays /\ x.streamed = d.streamed
      /\ content /\ d.streamed = {} => Says(x, t)
      /\ d.streamed # {} => x.live = d.live
  BY <1>2, <1>4, <1>5, FollowsItself DEF Follows
<1>. HIDE DEF x
<1>7. Follows(x, y) /\ y \in Displays /\ y.live = Blank
  BY <1>6, StopLiveFollows DEF Follows
<1>. HIDE DEF y
<1>8. Follows(d, y) /\ (Says(x, t) => Says(y, t))
  BY <1>6, <1>7, FollowsOn DEF Follows
<1>9. CASE calls = {}
  BY <1>1, <1>6, <1>9
<1>10. CASE calls # {}
  <2>1. e = [y EXCEPT !.streamed = {}]
    BY <1>1, <1>10
  <2>2. e \in Displays /\ e.streamed = {} /\ e.live = y.live /\ e.screen = y.screen
    BY <1>7, <2>1 DEF Displays
  <2>. HIDE DEF e
  <2>3. \A v : Says(y, v) => Says(e, v)
    BY <2>2 DEF Says
  <2>4. Follows(y, e)
    <3>1. Len(y.screen) \in Nat
      BY <1>7 DEF Displays
    <3>. QED
      BY <2>2, <2>3, <3>1 DEF Follows
  <2>5. Follows(d, e)
    BY <1>8, <2>4, FollowsOn
  <2>. QED
    BY <1>6, <1>7, <1>8, <1>10, <2>2, <2>3, <2>5 DEF e
<1>. QED
  BY <1>9, <1>10

\* A call is drawn over no text.
LEMMA CallFollows ==
  ASSUME NEW d \in Displays, NEW c \in Made, toolOf \in [Made -> Drawers],
         \A t : ~Shows(d.live, t)
  PROVE  LET e == HandleCall(d, c)
         IN  Follows(d, e) /\ e.streamed = d.streamed /\ \A t : ~Shows(e.live, t)
<1>. DEFINE z == FinalizeStreak(d)
            k == [tool |-> toolOf[c], count |-> 0]
            x == IF toolOf[c] = d.streak.tool THEN d ELSE [z EXCEPT !.streak = k]
            f == ToolFrame("pending", c)
<1>1. HandleCall(d, c) = Update(x, f)
  BY DEF HandleCall
<1>2. Follows(d, z) /\ z \in Displays /\ z.live = Blank /\ z.streamed = d.streamed
  BY FinalizeFollows DEF Follows
<1>3. k \in Streaks
  BY DEF Streaks
<1>. HIDE DEF z, k
<1>4. /\ [z EXCEPT !.streak = k] \in Displays /\ [z EXCEPT !.streak = k].live = z.live
      /\ [z EXCEPT !.streak = k].streamed = z.streamed /\ [z EXCEPT !.streak = k].screen = z.screen
  BY <1>2, <1>3 DEF Displays
<1>5. Follows(z, [z EXCEPT !.streak = k])
  <2>1. Len(z.screen) \in Nat
    BY <1>2 DEF Displays
  <2>. QED
    BY <1>4, <2>1 DEF Follows, Says
<1>6. Follows(d, [z EXCEPT !.streak = k])
  BY <1>2, <1>5, FollowsOn
<1>7. Follows(d, x) /\ x \in Displays /\ x.streamed = d.streamed /\ \A t : ~Shows(x.live, t)
  BY <1>2, <1>4, <1>6, FollowsItself, FrameKinds DEF Follows
<1>8. f \in LineKinds /\ \A t : ~Shows(f, t)
  BY FrameKinds
<1>. HIDE DEF x, f
<1>9. /\ Follows(x, Update(x, f)) /\ Update(x, f).live = f /\ Update(x, f).streamed = x.streamed
  BY <1>7, <1>8, UpdateFollows
<1>10. Follows(d, Update(x, f))
  BY <1>7, <1>9, FollowsOn
<1>. QED
  BY <1>1, <1>7, <1>8, <1>9, <1>10

LEMMA CountedFollows ==
  ASSUME NEW d \in Displays
  PROVE  LET e == Counted(d)
         IN  Follows(d, e) /\ e.streamed = d.streamed /\ e.live = d.live
<1>. DEFINE k == [d.streak EXCEPT !.count = @ + 1]
            e == [d EXCEPT !.streak = k]
<1>1. Counted(d) = e
  BY DEF Counted, Displays
<1>2. k \in Streaks
  <2>1. d.streak \in Streaks /\ d.streak.count + 1 \in Nat
    BY DEF Displays, Streaks
  <2>. QED
    BY <2>1 DEF Streaks
<1>. HIDE DEF k
<1>3. /\ e \in Displays /\ e.live = d.live /\ e.streamed = d.streamed /\ e.screen = d.screen
  BY <1>2 DEF Displays
<1>. HIDE DEF e
<1>4. Follows(d, e)
  <2>1. Len(d.screen) \in Nat
    BY DEF Displays
  <2>. QED
    BY <1>3, <2>1 DEF Follows, Says
<1>. QED
  BY <1>1, <1>3, <1>4

LEMMA SuccessFollows ==
  ASSUME NEW d \in Displays, NEW c \in Made, \A t : ~Shows(d.live, t)
  PROVE  LET e == HandleSuccess(d, c)
         IN  Follows(d, e) /\ e.streamed = d.streamed /\ \A t : ~Shows(e.live, t)
<1>. DEFINE x == Counted(d)
            f == ToolFrame("ok", c)
<1>1. Follows(d, x) /\ x \in Displays /\ x.streamed = d.streamed /\ x.live = d.live
  BY CountedFollows DEF Follows
<1>2. f \in LineKinds /\ \A t : ~Shows(f, t)
  BY FrameKinds
<1>3. HandleSuccess(d, c) = Update(x, f)
  BY DEF HandleSuccess
<1>. HIDE DEF x, f
<1>4. Follows(x, Update(x, f)) /\ Update(x, f).live = f /\ Update(x, f).streamed = x.streamed
  BY <1>1, <1>2, UpdateFollows
<1>5. Follows(d, Update(x, f))
  BY <1>1, <1>4, FollowsOn
<1>. QED
  BY <1>1, <1>2, <1>3, <1>4, <1>5

\* Two lines, one right below the other.
Right(d, above, below) ==
  \E i \in 1..Len(d.screen) - 1 : d.screen[i] = above /\ d.screen[i + 1] = below

LEMMA RightFollows ==
  ASSUME NEW d \in Displays, NEW e, Follows(d, e), NEW above, NEW below, Right(d, above, below)
  PROVE  Right(e, above, below)
<1>1. PICK i \in 1..Len(d.screen) - 1 : d.screen[i] = above /\ d.screen[i + 1] = below
  BY DEF Right
<1>2. Len(d.screen) \in Nat /\ Len(e.screen) \in Nat
  BY DEF Displays, Follows
<1>3. /\ i \in 1..Len(e.screen) - 1 /\ e.screen[i] = above /\ e.screen[i + 1] = below
  BY <1>1, <1>2 DEF Follows
<1>. QED
  BY <1>3 DEF Right

LEMMA TwoLines ==
  ASSUME NEW d \in Displays, NEW above \in LineKinds, NEW below \in LineKinds
  PROVE  LET e == Prints(Prints(d, above), below)
         IN  /\ Follows(d, e) /\ Right(e, above, below)
             /\ e.live = d.live /\ e.streamed = d.streamed
<1>. DEFINE x == Prints(d, above)
            e == Prints(x, below)
<1>1. /\ Follows(d, x) /\ x.live = d.live /\ x.streamed = d.streamed
      /\ Len(x.screen) = Len(d.screen) + 1 /\ x.screen[Len(d.screen) + 1] = above
  BY PrintsFollows
<1>2. x \in Displays /\ Len(d.screen) \in Nat
  BY <1>1 DEF Follows, Displays
<1>. HIDE DEF x
<1>3. /\ Follows(x, e) /\ e.live = x.live /\ e.streamed = x.streamed
      /\ Len(e.screen) = Len(x.screen) + 1 /\ e.screen[Len(x.screen) + 1] = below
  BY <1>2, PrintsFollows
<1>. HIDE DEF e
<1>4. Right(e, above, below)
  <2>1. Len(d.screen) + 1 \in 1..Len(x.screen) /\ Len(d.screen) + 1 \in 1..Len(e.screen) - 1
    BY <1>1, <1>2, <1>3
  <2>2. e.screen[Len(d.screen) + 1] = above /\ e.screen[(Len(d.screen) + 1) + 1] = below
    BY <1>1, <1>3, <2>1 DEF Follows
  <2>. QED
    BY <2>1, <2>2 DEF Right
<1>5. Follows(d, e)
  BY <1>1, <1>3, FollowsOn
<1>. QED
  BY <1>1, <1>3, <1>4, <1>5 DEF e, x

\* A changed file keeps a line and its difference.
LEMMA DiffFollows ==
  ASSUME NEW d \in Displays, NEW c \in Made
  PROVE  LET e == HandleDiff(d, c)
         IN  /\ Follows(d, e) /\ e.live = Blank /\ e.streamed = d.streamed
             /\ Right(e, ToolFrame("ok", c), ToolFrame("diff", c))
<1>. DEFINE x == Counted(d)
            y == FinalizeStreak(x)
            z == StopLive(y)
            e == Prints(Prints(z, ToolFrame("ok", c)), ToolFrame("diff", c))
<1>0. HandleDiff(d, c) = e
  BY DEF HandleDiff
<1>1. Follows(d, x) /\ x \in Displays /\ x.streamed = d.streamed
  BY CountedFollows DEF Follows
<1>. HIDE DEF x
<1>2. Follows(x, y) /\ y \in Displays /\ y.streamed = x.streamed
  BY <1>1, FinalizeFollows DEF Follows
<1>. HIDE DEF y
<1>3. Follows(y, z) /\ z \in Displays /\ z.streamed = y.streamed /\ z.live = Blank
  BY <1>2, StopLiveFollows DEF Follows
<1>. HIDE DEF z
<1>4. /\ Follows(z, e) /\ Right(e, ToolFrame("ok", c), ToolFrame("diff", c))
      /\ e.live = z.live /\ e.streamed = z.streamed
  BY <1>3, TwoLines, FrameKinds
<1>. HIDE DEF e
<1>5. Follows(d, e)
  BY <1>1, <1>2, <1>3, <1>4, FollowsOn
<1>. QED
  BY <1>0, <1>1, <1>2, <1>3, <1>4, <1>5

\* A failure keeps a line and its reason.
LEMMA FailureFollows ==
  ASSUME NEW d \in Displays, NEW c \in Made
  PROVE  LET e == HandleFailure(d, c)
         IN  /\ Follows(d, e) /\ e.live = Blank /\ e.streamed = d.streamed
             /\ Right(e, ToolFrame("error", c), ToolFrame("detail", c))
<1>. DEFINE x == Counted(d)
            y == FinalizeStreak(x)
            u == Update(y, ToolFrame("error", c))
            z == StopLive(u)
            e == Prints(z, ToolFrame("detail", c))
<1>0. HandleFailure(d, c) = e
  BY DEF HandleFailure
<1>1. Follows(d, x) /\ x \in Displays /\ x.streamed = d.streamed
  BY CountedFollows DEF Follows
<1>. HIDE DEF x
<1>2. Follows(x, y) /\ y \in Displays /\ y.streamed = x.streamed /\ y.live = Blank
  BY <1>1, FinalizeFollows DEF Follows
<1>. HIDE DEF y
<1>3. /\ Follows(y, u) /\ u \in Displays /\ u.streamed = y.streamed
      /\ u.live = ToolFrame("error", c)
  BY <1>2, UpdateFollows, FrameKinds DEF Follows
<1>. HIDE DEF u
<1>4. /\ Follows(u, z) /\ z \in Displays /\ z.streamed = u.streamed /\ z.live = Blank
      /\ Len(z.screen) = Len(u.screen) + 1 /\ z.screen[Len(u.screen) + 1] = ToolFrame("error", c)
  BY <1>3, StopLiveFollows, FrameKinds DEF Follows
<1>. HIDE DEF z
<1>5. /\ Follows(z, e) /\ e.live = z.live /\ e.streamed = z.streamed
      /\ Len(e.screen) = Len(z.screen) + 1 /\ e.screen[Len(z.screen) + 1] = ToolFrame("detail", c)
  BY <1>4, PrintsFollows, FrameKinds
<1>. HIDE DEF e
<1>6. Right(e, ToolFrame("error", c), ToolFrame("detail", c))
  <2>1. Len(u.screen) \in Nat
    BY <1>3 DEF Displays
  <2>2. Len(u.screen) + 1 \in 1..Len(z.screen) /\ Len(u.screen) + 1 \in 1..Len(e.screen) - 1
    BY <1>4, <1>5, <2>1
  <2>3. /\ e.screen[Len(u.screen) + 1] = ToolFrame("error", c)
        /\ e.screen[(Len(u.screen) + 1) + 1] = ToolFrame("detail", c)
    BY <1>4, <1>5, <2>2 DEF Follows
  <2>. QED
    BY <2>2, <2>3 DEF Right
<1>7. Follows(d, e)
  <2>1. Follows(d, u)
    BY <1>1, <1>2, <1>3, FollowsOn
  <2>2. Follows(u, e)
    BY <1>3, <1>4, <1>5, FollowsOn
  <2>. QED
    BY <2>1, <2>2, FollowsOn
<1>. QED
  BY <1>0, <1>1, <1>2, <1>3, <1>4, <1>5, <1>6, <1>7

LEMMA PanelFollows ==
  ASSUME NEW d \in Displays, NEW panel \in LineKinds
  PROVE  LET e == HandlePanel(d, panel)
         IN  Follows(d, e) /\ e.live = Blank /\ e.streamed = d.streamed
<1>. DEFINE x == FinalizeStreak(d)
            e == Prints(x, panel)
<1>1. Follows(d, x) /\ x \in Displays /\ x.streamed = d.streamed /\ x.live = Blank
  BY FinalizeFollows DEF Follows
<1>2. HandlePanel(d, panel) = e
  BY DEF HandlePanel
<1>. HIDE DEF x
<1>3. Follows(x, e) /\ e.live = x.live /\ e.streamed = x.streamed
  BY <1>1, PrintsFollows
<1>. HIDE DEF e
<1>4. Follows(d, e)
  BY <1>1, <1>3, FollowsOn
<1>. QED
  BY <1>1, <1>2, <1>3, <1>4

\* TextsLive are live between calls only, and the text whose deltas come in is among
\* the accumulated.
TextsLive ==
  /\ streamed # {} => \A t : Shows(live, t) => t \in streamed
  /\ ~Quiet => streamed = {} /\ \A t : ~Shows(live, t)
  /\ ~streams => streamed = {} /\ ~talking
  /\ talking => turn \in spoken

Hears ==
  /\ toolOf \in [Made -> Drawers] /\ streams \in BOOLEAN /\ talking \in BOOLEAN
  /\ turn \in Nat /\ announced \subseteq Made /\ called \in Seq(Made)
  /\ results \in [Made -> {"none", "failing", "ok", "diff", "error"}]

TerminalInv == Hears /\ Display \in Displays /\ TextsLive /\ NothingHidden /\ NothingLive

\* What is drawn becomes the display.
LEMMA BecomesDisplay ==
  ASSUME NEW d \in Displays, Becomes(d)
  PROVE  /\ Display' \in Displays
         /\ streamed' = d.streamed /\ live' = d.live /\ streak' = d.streak /\ screen' = d.screen
<1>1. streamed' = d.streamed /\ live' = d.live /\ streak' = d.streak /\ screen' = d.screen
  BY DEF Becomes
<1>2. d.streamed \in SUBSET Nat /\ d.live \in LineKinds /\ d.streak \in Streaks /\ d.screen \in Seq(LineKinds)
  BY DEF Displays
<1>3. streamed' \in SUBSET Nat /\ live' \in LineKinds /\ streak' \in Streaks /\ screen' \in Seq(LineKinds)
  BY <1>1, <1>2
<1>. HIDE DEF LineKinds, Streaks
<1>4. Display' \in Displays
  BY <1>3 DEF Display, Displays
<1>. QED
  BY <1>1, <1>4

\* A text is said on the screen or in the live display.
LEMMA SaidSomewhere ==
  ASSUME NEW d \in Displays, NEW t
  PROVE  (\E f \in Range(Append(d.screen, d.live)) : f.kind = "text" /\ t \in f.turns)
           <=> Says(d, t)
<1>1. d.screen \in Seq(LineKinds) /\ d.live \in LineKinds
  BY DEF Displays
<1>. DEFINE s == Append(d.screen, d.live)
<1>2. /\ DOMAIN s = 1..Len(d.screen) + 1 /\ s[Len(d.screen) + 1] = d.live /\ Len(d.screen) \in Nat
      /\ \A i \in 1..Len(d.screen) : s[i] = d.screen[i]
  BY <1>1
<1>. HIDE DEF s
<1>3. \A i \in DOMAIN s : i = Len(d.screen) + 1 \/ i \in 1..Len(d.screen)
  BY <1>2
<1>4. ASSUME NEW f \in Range(s), Shows(f, t) PROVE Says(d, t)
  <2>1. PICK i \in DOMAIN s : f = s[i]
    BY DEF Range
  <2>2. CASE i = Len(d.screen) + 1
    BY <1>2, <1>4, <2>1, <2>2 DEF Says
  <2>3. CASE i \in 1..Len(d.screen)
    BY <1>2, <1>4, <2>1, <2>3 DEF Says
  <2>. QED
    BY <1>3, <2>2, <2>3
<1>5. ASSUME Says(d, t) PROVE \E f \in Range(s) : Shows(f, t)
  <2>1. CASE Shows(d.live, t)
    <3>1. Len(d.screen) + 1 \in DOMAIN s
      BY <1>2
    <3>. QED
      BY <1>2, <2>1, <3>1 DEF Range
  <2>2. CASE \E i \in 1..Len(d.screen) : Shows(d.screen[i], t)
    <3>1. PICK i \in 1..Len(d.screen) : Shows(d.screen[i], t)
      BY <2>2
    <3>2. i \in DOMAIN s /\ s[i] = d.screen[i]
      BY <1>2
    <3>. QED
      BY <3>1, <3>2 DEF Range
  <2>. QED
    BY <1>5, <2>1, <2>2 DEF Says
<1>. QED
  BY <1>4, <1>5 DEF s, Shows

\* Whatever is drawn next, what was to be kept is.
LEMMA DrawnKeeps ==
  ASSUME TerminalInv, NEW d, Follows(Display, d), Becomes(d),
         \A t \in spoken' : t \in spoken \/ Says(d, t),
         \A c \in Made :
           /\ results'[c] = "error" =>
                results[c] = "error" \/ Right(d, ToolFrame("error", c), ToolFrame("detail", c))
           /\ results'[c] = "diff" =>
                results[c] = "diff" \/ Right(d, ToolFrame("ok", c), ToolFrame("diff", c))
  PROVE  /\ Display' \in Displays /\ NothingHidden'
         /\ streamed' = d.streamed /\ live' = d.live /\ streak' = d.streak /\ screen' = d.screen
<1>. USE DEF TerminalInv
<1>0. d \in Displays
  BY DEF Follows
<1>1. /\ Display' \in Displays
      /\ streamed' = d.streamed /\ live' = d.live /\ streak' = d.streak /\ screen' = d.screen
  BY <1>0, BecomesDisplay
<1>2. Display.live = live /\ Display.screen = screen
  BY DEF Display
<1>3. ASSUME NEW t \in spoken' PROVE Says(d, t)
  <2>1. CASE t \in spoken
    <3>1. Says(Display, t)
      BY <1>2, <2>1, SaidSomewhere DEF NothingHidden
    <3>. QED
      BY <3>1 DEF Follows
  <2>. QED
    BY <1>3, <2>1
<1>4. \A t \in spoken' : \E f \in Range(Append(screen', live')) : f.kind = "text" /\ t \in f.turns
  BY <1>0, <1>1, <1>3, SaidSomewhere
<1>5. \A above, below : Stay(above, below) => Right(d, above, below)
  <2>1. \A above, below : Stay(above, below) <=> Right(Display, above, below)
    BY DEF Stay, Right, Display
  <2>. QED
    BY <2>1, RightFollows
<1>6. \A above, below : Right(d, above, below) => Stay(above, below)'
  BY <1>1 DEF Stay, Right
<1>7. ASSUME NEW c \in Made
      PROVE  /\ results'[c] = "error" => Stay(ToolFrame("error", c), ToolFrame("detail", c))'
             /\ results'[c] = "diff" => Stay(ToolFrame("ok", c), ToolFrame("diff", c))'
  <2>1. /\ results[c] = "error" => Stay(ToolFrame("error", c), ToolFrame("detail", c))
        /\ results[c] = "diff" => Stay(ToolFrame("ok", c), ToolFrame("diff", c))
    BY DEF NothingHidden
  <2>. QED
    BY <1>5, <1>6, <2>1
<1>. QED
  BY <1>1, <1>4, <1>7 DEF NothingHidden

LEMMA TerminalInitial == TerminalInit => TerminalInv
<1>. SUFFICES ASSUME TerminalInit PROVE TerminalInv
  OBVIOUS
<1>. USE DEF TerminalInit, TerminalStart
<1>1. Hears
  <2>1. <<>> \in Seq(Made) /\ [c \in Made |-> "none"] \in
          [Made -> {"none", "failing", "ok", "diff", "error"}]
    OBVIOUS
  <2>. QED
    BY <2>1 DEF Hears
<1>2. Display \in Displays
  <2>1. NoStreak \in Streaks /\ <<>> \in Seq(LineKinds) /\ {} \in SUBSET Nat
    BY DEF NoStreak, Streaks
  <2>2. Display = [streamed |-> {}, live |-> Blank, streak |-> NoStreak, screen |-> <<>>]
    BY DEF Display
  <2>. HIDE DEF NoStreak, Streaks, LineKinds, Blank
  <2>. QED
    BY <2>1, <2>2, FrameKinds DEF Displays
<1>3. TextsLive
  BY FrameKinds DEF TextsLive, Quiet
<1>4. NothingHidden /\ NothingLive
  BY DEF NothingHidden, NothingLive
<1>. QED
  BY <1>1, <1>2, <1>3, <1>4 DEF TerminalInv

\* A response gets a number of its own or keeps it.
LEMMA SpeaksKeeps ==
  ASSUME TerminalInv, NEW has \in BOOLEAN, Speaks(has)
  PROVE  /\ turn' \in Nat /\ Quiet /\ ended' = "no" /\ UNCHANGED <<toolOf, streams, called, results>>
         /\ spoken' = IF has THEN spoken \cup {turn'} ELSE spoken
         /\ talking => turn' = turn
  BY DEF TerminalInv, Hears, Speaks, Running

LEMMA DrawDeltaKeeps ==
  ASSUME TerminalInv, DrawDelta
  PROVE  TerminalInv'
<1>. USE DEF TerminalInv
<1>. DEFINE d == HandleDelta(Display, turn')
<1>1. /\ streams /\ Speaks(TRUE) /\ talking' = TRUE /\ UNCHANGED announced /\ Becomes(d)
  BY DEF DrawDelta
<1>2. /\ turn' \in Nat /\ Quiet /\ ended' = "no" /\ UNCHANGED <<toolOf, streams, called, results>>
      /\ spoken' = spoken \cup {turn'}
  BY <1>1, SpeaksKeeps
<1>3. Display.streamed = streamed /\ Display.live = live
  BY DEF Display
<1>4. /\ Follows(Display, d) /\ d.streamed = streamed \cup {turn'} /\ d.live = TextFrame(d.streamed)
  BY <1>2, <1>3, DeltaFollows DEF TextsLive
<1>5. \A t : Shows(d.live, t) <=> t \in d.streamed
  BY <1>4, FrameKinds
<1>6. Says(d, turn')
  BY <1>4, <1>5 DEF Says
<1>. HIDE DEF d
<1>7. /\ Display' \in Displays /\ NothingHidden' /\ streamed' = d.streamed /\ live' = d.live
  BY <1>1, <1>2, <1>4, <1>6, DrawnKeeps
<1>8. Hears'
  BY <1>1, <1>2 DEF Hears
<1>9. TextsLive'
  BY <1>1, <1>2, <1>5, <1>7 DEF TextsLive, Quiet
<1>10. NothingLive'
  BY <1>2 DEF NothingLive
<1>. QED
  BY <1>7, <1>8, <1>9, <1>10

LEMMA DrawResponseKeeps ==
  ASSUME TerminalInv, DrawResponse
  PROVE  TerminalInv'
<1>. USE DEF TerminalInv
<1>1. PICK calls \in SUBSET {c \in Made : results[c] = "none"}, content \in BOOLEAN :
        /\ talking' = FALSE /\ Speaks(content) /\ (IF streams THEN content = talking ELSE TRUE)
        /\ announced' = calls /\ Becomes(HandleResponse(Display, turn', content, calls))
  BY DEF DrawResponse
<1>. DEFINE d == HandleResponse(Display, turn', content, calls)
<1>2. /\ turn' \in Nat /\ Quiet /\ ended' = "no" /\ UNCHANGED <<toolOf, streams, called, results>>
      /\ spoken' = (IF content THEN spoken \cup {turn'} ELSE spoken)
      /\ talking => turn' = turn
  BY <1>1, SpeaksKeeps
<1>3. Display.streamed = streamed /\ Display.live = live
  BY DEF Display
<1>4. /\ Follows(Display, d) /\ (content /\ streamed = {} => Says(d, turn'))
      /\ calls = {} => d.streamed = streamed /\ (streamed # {} => d.live = live)
      /\ calls # {} => d.streamed = {} /\ d.live = Blank
  BY <1>2, <1>3, ResponseFollows
<1>5. \A t \in spoken' : t \in spoken \/ Says(d, t)
  <2>1. CASE streams
    BY <1>1, <1>2, <2>1 DEF TextsLive
  <2>2. CASE ~streams
    BY <1>2, <1>4, <2>2 DEF TextsLive
  <2>. QED
    BY <2>1, <2>2
<1>. HIDE DEF d
<1>6. /\ Display' \in Displays /\ NothingHidden' /\ streamed' = d.streamed /\ live' = d.live
  BY <1>1, <1>2, <1>4, <1>5, DrawnKeeps DEF d
<1>7. Hears'
  BY <1>1, <1>2 DEF Hears
<1>8. TextsLive'
  <2>1. CASE calls = {}
    BY <1>1, <1>2, <1>4, <1>6, <2>1 DEF TextsLive, Quiet
  <2>2. CASE calls # {}
    BY <1>1, <1>2, <1>4, <1>6, <2>2, FrameKinds DEF TextsLive, Quiet
  <2>. QED
    BY <2>1, <2>2
<1>9. NothingLive'
  BY <1>2 DEF NothingLive
<1>. QED
  BY <1>6, <1>7, <1>8, <1>9

LEMMA DrawCallKeeps ==
  ASSUME TerminalInv, NEW c \in Made, Running, DrawCall(c)
  PROVE  TerminalInv'
<1>. USE DEF TerminalInv
<1>. DEFINE d == HandleCall(Display, c)
<1>1. /\ c \in announced /\ announced' = announced \ {c} /\ called' = Append(called, c) /\ Becomes(d)
      /\ UNCHANGED <<toolOf, streams, turn, talking, spoken, results, ended>>
  BY DEF DrawCall
<1>2. streamed = {} /\ \A t : ~Shows(live, t)
  BY <1>1 DEF TextsLive, Quiet
<1>3. Display.streamed = streamed /\ Display.live = live
  BY DEF Display
<1>4. Follows(Display, d) /\ d.streamed = streamed /\ \A t : ~Shows(d.live, t)
  BY <1>2, <1>3, CallFollows DEF Hears
<1>. HIDE DEF d
<1>5. /\ Display' \in Displays /\ NothingHidden' /\ streamed' = d.streamed /\ live' = d.live
  BY <1>1, <1>4, DrawnKeeps
<1>6. Hears'
  BY <1>1 DEF Hears
<1>7. TextsLive'
  BY <1>1, <1>2, <1>4, <1>5 DEF TextsLive
<1>8. NothingLive'
  BY <1>1 DEF NothingLive, Running
<1>. QED
  BY <1>5, <1>6, <1>7, <1>8

LEMMA DrawResultKeeps ==
  ASSUME TerminalInv, NEW c \in Made, Running, DrawResult(c)
  PROVE  TerminalInv'
<1>. USE DEF TerminalInv
<1>1. PICK r \in {"ok", "error", "diff"} :
        /\ results' = [results EXCEPT ![c] = r]
        /\ r = "ok" => Becomes(HandleSuccess(Display, c))
        /\ r = "diff" => Becomes(HandleDiff(Display, c))
        /\ r = "error" => Becomes(HandleFailure(Display, c))
  BY DEF DrawResult, Outcomes
<1>2. /\ called # <<>> /\ called' = Tail(called)
      /\ UNCHANGED <<toolOf, streams, turn, talking, spoken, announced, ended>>
  BY DEF DrawResult, Answering
<1>3. streamed = {} /\ \A t : ~Shows(live, t)
  BY <1>2 DEF TextsLive, Quiet
<1>4. Display.streamed = streamed /\ Display.live = live
  BY DEF Display
<1>5. PICK d : /\ Follows(Display, d) /\ d.streamed = streamed /\ (\A t : ~Shows(d.live, t))
               /\ Becomes(d)
               /\ r = "error" => Right(d, ToolFrame("error", c), ToolFrame("detail", c))
               /\ r = "diff" => Right(d, ToolFrame("ok", c), ToolFrame("diff", c))
  <2>1. CASE r = "ok"
    BY <1>1, <1>3, <1>4, <2>1, SuccessFollows
  <2>2. CASE r = "diff"
    BY <1>1, <1>4, <2>2, DiffFollows, FrameKinds
  <2>3. CASE r = "error"
    BY <1>1, <1>4, <2>3, FailureFollows, FrameKinds
  <2>. QED
    BY <2>1, <2>2, <2>3
<1>6. results'[c] = r /\ \A x \in Made \ {c} : results'[x] = results[x]
  BY <1>1 DEF Hears
<1>7. \A x \in Made :
        /\ results'[x] = "error" =>
             results[x] = "error" \/ Right(d, ToolFrame("error", x), ToolFrame("detail", x))
        /\ results'[x] = "diff" =>
             results[x] = "diff" \/ Right(d, ToolFrame("ok", x), ToolFrame("diff", x))
  BY <1>5, <1>6
<1>8. /\ Display' \in Displays /\ NothingHidden' /\ streamed' = d.streamed /\ live' = d.live
  BY <1>2, <1>5, <1>7, DrawnKeeps
<1>9. Hears'
  BY <1>1, <1>2 DEF Hears
<1>10. TextsLive'
  BY <1>2, <1>3, <1>5, <1>8 DEF TextsLive
<1>11. NothingLive'
  BY <1>2 DEF NothingLive, Running
<1>. QED
  BY <1>8, <1>9, <1>10, <1>11

LEMMA DrawErrorKeeps ==
  ASSUME TerminalInv, NEW c \in Made, Running, DrawError(c)
  PROVE  TerminalInv'
<1>. USE DEF TerminalInv
<1>. DEFINE panel == ToolFrame("panel", c)
            d == HandlePanel(Display, panel)
<1>1. /\ called # <<>> /\ results' = [results EXCEPT ![c] = "failing"] /\ Becomes(d)
      /\ UNCHANGED <<toolOf, streams, turn, talking, spoken, announced, called, ended>>
  BY DEF DrawError, Answering
<1>2. streamed = {}
  BY <1>1 DEF TextsLive, Quiet
<1>3. Display.streamed = streamed
  BY DEF Display
<1>4. panel \in LineKinds
  BY FrameKinds
<1>. HIDE DEF panel
<1>5. Follows(Display, d) /\ d.streamed = streamed /\ d.live = Blank
  BY <1>3, <1>4, PanelFollows
<1>. HIDE DEF d
<1>6. \A x \in Made : results'[x] \in {"error", "diff"} => results'[x] = results[x]
  BY <1>1 DEF Hears
<1>7. /\ Display' \in Displays /\ NothingHidden' /\ streamed' = d.streamed /\ live' = d.live
  BY <1>1, <1>5, <1>6, DrawnKeeps
<1>8. Hears'
  BY <1>1 DEF Hears
<1>9. TextsLive'
  BY <1>1, <1>2, <1>5, <1>7, FrameKinds DEF TextsLive
<1>10. NothingLive'
  BY <1>1 DEF NothingLive, Running
<1>. QED
  BY <1>7, <1>8, <1>9, <1>10

\* A panel, and the end of a run.
LEMMA PanelKeeps ==
  ASSUME TerminalInv, OtherItem \/ RunEnds \/ FinishDisplay
  PROVE  TerminalInv'
<1>. USE DEF TerminalInv
<1>1. PICK d : /\ Becomes(d)
               /\ \/ d = FinalizeStreak(Display)
                  \/ d = HandlePanel(Display, Panel)
  <2>1. CASE FinishDisplay
    BY <2>1 DEF FinishDisplay
  <2>2. CASE OtherItem /\ ~FinishDisplay
    BY <2>2 DEF OtherItem
  <2>3. CASE RunEnds /\ ~FinishDisplay
    <3>1. PICK success \in BOOLEAN :
            Becomes(IF success THEN FinalizeStreak(Display) ELSE HandlePanel(Display, Panel))
      BY <2>3 DEF RunEnds
    <3>. QED
      BY <2>3, <3>1
  <2>. QED
    BY <2>1, <2>2, <2>3
<1>2. /\ UNCHANGED <<toolOf, streams, spoken, announced, called, results>>
      /\ turn' \in Nat /\ talking' \in BOOLEAN
      /\ talking' => talking /\ turn' = turn
  <2>1. MaxTurns \in Nat
    BY TerminalAssumption
  <2>2. CASE OtherItem
    BY <2>1, <2>2 DEF OtherItem, Hears
  <2>3. CASE RunEnds
    BY <2>3 DEF RunEnds, Hears
  <2>4. CASE FinishDisplay
    BY <2>4 DEF FinishDisplay, Hears
  <2>. QED
    BY <2>2, <2>3, <2>4
<1>3. Display.streamed = streamed /\ Display.live = live
  BY DEF Display
<1>4. /\ Follows(Display, d) /\ d.streamed = streamed /\ d.live = Blank
  BY <1>1, <1>3, FinalizeFollows, PanelFollows, FrameKinds
<1>5. /\ Display' \in Displays /\ NothingHidden' /\ streamed' = d.streamed /\ live' = d.live
  BY <1>1, <1>2, <1>4, DrawnKeeps
<1>6. Hears'
  BY <1>2 DEF Hears
<1>7. TextsLive'
  BY <1>2, <1>4, <1>5, FrameKinds DEF TextsLive, Quiet
<1>8. NothingLive'
  BY <1>4, <1>5 DEF NothingLive
<1>. QED
  BY <1>5, <1>6, <1>7, <1>8

LEMMA TerminalStep == TerminalInv /\ [TerminalNext]_tvars => TerminalInv'
<1>. SUFFICES ASSUME TerminalInv, [TerminalNext]_tvars PROVE TerminalInv'
  OBVIOUS
<1>1. CASE DrawDelta
  BY <1>1, DrawDeltaKeeps
<1>2. CASE DrawResponse
  BY <1>2, DrawResponseKeeps
<1>3. CASE OtherItem \/ RunEnds \/ FinishDisplay
  BY <1>3, PanelKeeps
<1>4. CASE \E c \in Made : Running /\ (DrawCall(c) \/ DrawError(c) \/ DrawResult(c))
  BY <1>4, DrawCallKeeps, DrawErrorKeeps, DrawResultKeeps
<1>5. CASE UNCHANGED tvars
  <2>1. /\ UNCHANGED <<toolOf, streams, turn, talking, spoken, announced, called, results, ended>>
        /\ UNCHANGED <<streamed, live, streak, screen>>
    BY <1>5 DEF tvars, evars, dvars
  <2>2. Hears' /\ (Display \in Displays)' /\ TextsLive'
    BY <2>1 DEF TerminalInv, Hears, Display, TextsLive, Quiet
  <2>3. NothingHidden' /\ NothingLive'
    BY <2>1 DEF TerminalInv, NothingHidden, Stay, NothingLive
  <2>. QED
    BY <2>2, <2>3 DEF TerminalInv
<1>. QED
  BY <1>1, <1>2, <1>3, <1>4, <1>5 DEF TerminalNext

\* Whatever runs of one Agent publish, store and end meanwhile, and whenever it is
\* closed, each stream yields the events of its run in order and all of them
\* before the result, the table has them, and calls that do not overlap leave no
\* connection behind (agent/facade.py, events/bus.py, events/store.py); and
\* whatever streak, error or panel comes between, no text, failure or difference is
\* drawn over, and nothing is left live when the stream is over (tui.py).
THEOREM StreamKept == MCSpec => []StreamLaw
<1>1. FacadeInit /\ [][FacadeNext]_avars => []FacadeInv
  BY FacadeStart, FacadeStep, PTL
<1>2. TerminalInit /\ [][TerminalNext]_tvars => []TerminalInv
  BY TerminalInitial, TerminalStep, PTL
<1>3. FacadeInv /\ TerminalInv => StreamLaw
  BY FacadeSays DEF StreamLaw, In, TerminalInv, TerminalLaw
<1>. QED
  BY <1>1, <1>2, <1>3, FacadePart, TerminalPart, PTL
==============================================================================
