----------------------------- MODULE Checkpoints -----------------------------
(***************************************************************************)
(* The write tools, their checkpoint store and undo.  A write reads the    *)
(* file, snapshots it (git stores the blob while other calls run) and      *)
(* writes it; undo takes the last operation off the stack and restores its *)
(* files one by one.  The calls of a batch run concurrently; no two of a   *)
(* batch have the same file, and at most one is an undo (ToolDispatch).    *)
(* Storage by copies never awaits: its runs are those without overlap.     *)
(*                                                                         *)
(* The content of a file is the number of the write that made it, 0 what   *)
(* it was at first, Absent when there is none.                             *)
(***************************************************************************)
EXTENDS Integers, Sequences, FiniteSets, SequencesExt, FiniteSetsExt

CONSTANTS
  Files,            \* the files of the workspace that are written
  Existing,         \* those that exist at first
  Size,             \* the size of each content
  MaxCheckpoints,   \* max_checkpoints
  MaxBytes,         \* max_bytes
  MaxWrites         \* bound: writes before no more are started

Absent == -1
Contents == Absent..MaxWrites

ASSUME CheckpointsAssumption ==
  /\ Existing \subseteq Files
  /\ MaxCheckpoints \in Nat /\ MaxBytes \in Nat /\ MaxWrites \in Nat
  /\ Size \in [Contents -> Nat]

\* A checkpoint: its operation, its file, the content it saved, and the
\* content that the write it was taken for left.
Checkpoint == [op : Nat \ {0}, file : Files, saved : Contents, wrote : Contents]

VARIABLES
  disk,       \* the content of each file
  stack,      \* the checkpoints, oldest first
  operations, \* _operation_counter
  current,    \* _current_operation; 0 for None
  evicted,    \* _evicted_operations
  writing,    \* for each file that is written, what its call holds
  undoing,    \* the checkpoints that the running undo has still to restore
  used,       \* the files of the batch so far
  writes,     \* how many writes were started
  lost,       \* files that an undo failed to restore, or restored while they
              \* were written
  dropped     \* operations of which a checkpoint was evicted

vars == <<disk, stack, operations, current, evicted, writing, undoing, used,
          writes, lost, dropped>>

Idle == DOMAIN writing = {} /\ undoing = <<>>

Init ==
  /\ disk = [f \in Files |-> IF f \in Existing THEN 0 ELSE Absent]
  /\ stack = <<>>
  /\ operations = 0 /\ current = 0 /\ evicted = 0
  /\ writing = [f \in {} |-> 0]
  /\ undoing = <<>>
  /\ used = {} /\ writes = 0 /\ lost = {} /\ dropped = {}

-----------------------------------------------------------------------------
(* Retention *)

OverLimits(s) ==
  \/ Len(s) > MaxCheckpoints
  \/ FoldLeft(LAMBDA sum, c : sum + Size[c.saved], 0, s) > MaxBytes

\* Mutant of OperationEnds: eviction may stop anywhere.
EndsAnywhere(s, k) == TRUE

\* The first k checkpoints are whole operations.
OperationEnds(s, k) == k \in {0, Len(s)} \/ s[k].op # s[k + 1].op

\* How many of the oldest checkpoints go: whole operations, until none is left
\* or the rest is within the limits.
Excess(s) ==
  Min({k \in 0..Len(s) : /\ OperationEnds(s, k)
                         /\ k = Len(s) \/ ~OverLimits(SubSeq(s, k + 1, Len(s)))})

Evict(s) ==
  /\ stack' = SubSeq(s, Excess(s) + 1, Len(s))
  /\ evicted' = evicted + Cardinality({k \in 1..Excess(s) : OperationEnds(s, k)})
  /\ dropped' = dropped \cup {s[k].op : k \in 1..Excess(s)}

-----------------------------------------------------------------------------
(* write_file, edit_file, multi_edit *)

\* Mutant of Batch: the batch forgets the files it has had.
BatchFree == {}

\* The files of a batch are free again when none of its calls is left.
Batch == IF Idle THEN {} ELSE used

\* The call reads the file and enters an operation, its own when there is none.
BeginWrite(f) ==
  /\ f \notin Batch /\ f \notin DOMAIN writing /\ writes < MaxWrites
  /\ writes' = writes + 1
  /\ LET outer == current = 0 IN
     /\ operations' = operations + (IF outer THEN 1 ELSE 0)
     /\ current' = IF outer THEN operations' ELSE current
     /\ writing' = [g \in DOMAIN writing \cup {f} |->
                      IF g = f THEN [base |-> disk[f], outer |-> outer, content |-> writes']
                               ELSE writing[g]]
  /\ used' = Batch \cup {f}
  /\ lost' = lost \cup {g \in {f} : \E i \in DOMAIN undoing : undoing[i].file = g}
  /\ UNCHANGED <<disk, stack, evicted, undoing, dropped>>

\* Mutant of LeaveOperation: the operation stays open.
LeaveNothing(f) == UNCHANGED current

\* The call that opened the operation closes it, whatever became of it.
LeaveOperation(f) == current' = IF writing[f].outer THEN 0 ELSE current

Leave(f) == writing' = [g \in DOMAIN writing \ {f} |-> writing[g]]

\* Mutant of Saved: the snapshot is taken of the file as written.
SavedAfter(f) == writing[f].content

\* The content that the checkpoint has.
Saved(f) == writing[f].base

\* Git has the blob: the checkpoint is pushed, in the operation that is open
\* now or else in one of its own, and the file is written, unless that fails.
EndWrite(f) ==
  LET op == IF current # 0 THEN current ELSE operations + 1 IN
  /\ operations' = IF current # 0 THEN operations ELSE op
  /\ \E content \in {writing[f].content, disk[f]} :
       /\ Evict(Append(stack, [op |-> op, file |-> f, saved |-> Saved(f), wrote |-> content]))
       /\ disk' = [disk EXCEPT ![f] = content]
  /\ LeaveOperation(f) /\ Leave(f)
  /\ UNCHANGED <<undoing, used, writes, lost>>

\* Git fails, or the call is cancelled.
WriteFails(f) ==
  /\ LeaveOperation(f) /\ Leave(f)
  /\ UNCHANGED <<disk, stack, operations, evicted, undoing, used, writes, lost, dropped>>

-----------------------------------------------------------------------------
(* undo *)

\* Mutant of Latest: one checkpoint is undone.
LatestOne == {Len(stack)}

\* The checkpoints of the latest operation, from the top of the stack.
Latest == {i \in DOMAIN stack : \A j \in i..Len(stack) : stack[j].op = Last(stack).op}

\* Undos exclude one another.
BeginUndo ==
  /\ undoing = <<>> /\ stack # <<>>
  /\ LET k == Len(stack) - Cardinality(Latest) IN
     /\ stack' = SubSeq(stack, 1, k)
     /\ undoing' = Reverse(SubSeq(stack, k + 1, Len(stack)))
  /\ lost' = lost \cup {f \in DOMAIN writing : \E i \in DOMAIN undoing' : undoing'[i].file = f}
  /\ used' = Batch
  /\ UNCHANGED <<disk, operations, current, evicted, writing, writes, dropped>>

\* Git has given the blob back: the file is written, or removed.
Restore ==
  /\ undoing # <<>>
  /\ disk' = [disk EXCEPT ![Head(undoing).file] = Head(undoing).saved]
  /\ undoing' = Tail(undoing)
  /\ UNCHANGED <<stack, operations, current, evicted, writing, used, writes, lost, dropped>>

\* Git fails, or the call is cancelled: what is not restored is gone.
UndoFails ==
  /\ undoing # <<>>
  /\ lost' = lost \cup {c.file : c \in ToSet(undoing)}
  /\ undoing' = <<>>
  /\ UNCHANGED <<disk, stack, operations, current, evicted, writing, used, writes, dropped>>

Next ==
  \/ \E f \in Files : BeginWrite(f)
  \/ \E f \in DOMAIN writing : EndWrite(f) \/ WriteFails(f)
  \/ BeginUndo \/ Restore \/ UndoFails

Spec == Init /\ [][Next]_vars

-----------------------------------------------------------------------------
(* Properties *)

\* Every variable has its type, and a call that writes is of the batch.
TypeOK ==
  /\ disk \in [Files -> Contents]
  /\ stack \in Seq(Checkpoint) /\ undoing \in Seq(Checkpoint)
  /\ operations \in Nat /\ current \in 0..operations /\ evicted \in Nat
  /\ DOMAIN writing \subseteq used /\ used \subseteq Files
  /\ \A f \in DOMAIN writing :
       writing[f] \in [base : Contents, outer : BOOLEAN, content : 1..writes]
  /\ writes \in 0..MaxWrites
  /\ lost \subseteq Files /\ dropped \subseteq 1..operations

\* The checkpoints, the one that is restored next last.
Trail == stack \o Reverse(undoing)

\* Those that the file of checkpoint i has after it.
Later(i) == {j \in DOMAIN Trail : j > i /\ Trail[j].file = Trail[i].file}

\* Undoing is the inverse of writing: walking down the checkpoints of a file
\* gives each of its contents in turn, from the one it has now, across any
\* interleaving of the other files' writes, failures and evictions.  It takes
\* an undo that failed, or one in the same batch as a write of the file, to
\* lose this.
UndoInverts ==
  \A i \in DOMAIN Trail :
    Trail[i].file \notin lost =>
      Trail[i].wrote = IF Later(i) = {} THEN disk[Trail[i].file]
                                       ELSE Trail[Min(Later(i))].saved

\* Undo and eviction take whole operations: the operations of the stack ascend,
\* none of them has lost a checkpoint to eviction, and those that eviction took
\* are counted once each.  It takes a batch whose own checkpoints are beyond
\* the limits to lose this.
WholeOperations ==
  /\ \A i, j \in DOMAIN stack : i < j => stack[i].op <= stack[j].op
  /\ \A c \in ToSet(stack) : c.op \notin dropped
  /\ evicted = Cardinality(dropped)

\* The stack holds whole operations that lead back to every content.
UndoLaw == UndoInverts /\ WholeOperations

\* An operation is open only while a call is in it: otherwise every later
\* write would be undone with it.
OperationCloses == DOMAIN writing = {} => current = 0

\* An undo takes one operation and all of it: what it will restore is of a
\* single operation, none of which stays on the stack or was evicted before.
UndoIsWhole ==
  [][ (undoing = <<>> /\ undoing' # <<>>) =>
        LET op == Head(undoing').op IN
        /\ \A c \in ToSet(undoing') : c.op = op
        /\ \A c \in ToSet(stack') : c.op # op
        /\ op \notin dropped ]_vars
==============================================================================
