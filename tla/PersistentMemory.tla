-------------------------- MODULE PersistentMemory --------------------------
(***************************************************************************)
(* The memory of facts: one file per topic and an index of them, capped.   *)
(* The operations of one process do not interleave, but several processes  *)
(* (a command line, a daemon) may share the directory, and any of them may *)
(* die between two operations on files; opening a file to write it empties *)
(* it first.                                                               *)
(***************************************************************************)
EXTENDS Integers, Sequences, SequencesExt

CONSTANTS
  Processes,
  Slugs,       \* the names of facts
  Lengths,     \* the lengths that the line of a fact may have
  Cap,         \* max_index_bytes
  MaxOverlaps, \* bound: operations begun while another process has one
  MaxCrashes   \* bound: deaths of a process in an operation

ASSUME MemoryAssumption ==
  /\ Lengths \subseteq Nat \ {0} /\ Cap \in Nat /\ {MaxOverlaps, MaxCrashes} \subseteq Nat

VARIABLES
  topics,   \* topics[slug]: NoFile, Torn, or the length its file gives
  index,    \* the lines of the index, oldest first
  op,       \* op[process]: the operation it is in
  overlaps, \* how often an operation began while another was under way
  crashes,  \* how often a process died in one
  doubt     \* history: the slugs that an overlap or a crash may have touched

pvars == <<topics, index, op, overlaps, crashes, doubt>>

NoFile == -1  \* no file
Torn == 0     \* a file with nothing to read

Line(s, n) == [slug |-> s, length |-> n]
NoOp == [pc |-> "idle", line |-> <<>>, lines |-> <<>>, evicted |-> {},
         fresh |-> FALSE, alone |-> TRUE]

MemoryInit ==
  /\ topics = [s \in Slugs |-> NoFile]
  /\ index = <<>>
  /\ op = [p \in Processes |-> NoOp]
  /\ overlaps = 0 /\ crashes = 0
  /\ doubt = {}

-----------------------------------------------------------------------------
(* Reading *)

SlugsOf(lines) == {lines[i].slug : i \in DOMAIN lines}

\* What list_entries and to_context show, and what read finds.
Listed == SlugsOf(index)
Readable(s) == topics[s] \notin {NoFile, Torn}

SizeOf(lines) == FoldLeft(LAMBDA n, line : n + line.length, 0, lines)

-----------------------------------------------------------------------------
(* Writing *)

\* Mutant of Noted: a rewritten fact gets a second line.
NotedAgain(lines, line) == Append(lines, line)

\* The line of a slug is replaced where it stands; a new one goes last.
Noted(lines, line) ==
  LET at == SelectInSeq(lines, LAMBDA old : old.slug = line.slug)
  IN  IF at = 0 THEN Append(lines, line) ELSE [lines EXCEPT ![at] = line]

Busy(p) == op[p].pc # "idle"

\* An operation begins; if another process is in the middle of one, neither is
\* alone and every slug is in doubt.
Begins(p, new) ==
  /\ ~Busy(p)
  /\ IF \E q \in Processes : Busy(q)
       THEN /\ overlaps < MaxOverlaps /\ overlaps' = overlaps + 1
            /\ op' = [q \in Processes |->
                        [(IF q = p THEN new ELSE op[q]) EXCEPT !.alone = FALSE]]
            /\ doubt' = Slugs
       ELSE op' = [op EXCEPT ![p] = new] /\ UNCHANGED <<overlaps, doubt>>
  /\ UNCHANGED <<index, crashes>>

\* The slugs that an operation is about; when it ends, there is no more doubt of
\* them if it was alone.
About(p) == SlugsOf(op[p].line) \cup op[p].evicted
Settled(p) == IF op[p].alone THEN doubt \ About(p) ELSE doubt

\* write opens the file of the topic.
OpenTopic(p, s, n) ==
  /\ Begins(p, [NoOp EXCEPT !.pc = "topic", !.line = <<Line(s, n)>>])
  /\ topics' = [topics EXCEPT ![s] = Torn]

\* It writes and closes it.
FillTopic(p) ==
  /\ op[p].pc = "topic"
  /\ topics' = [topics EXCEPT ![op[p].line[1].slug] = op[p].line[1].length]
  /\ op' = [op EXCEPT ![p].pc = "read"]
  /\ UNCHANGED <<index, overlaps, crashes, doubt>>

\* It reads the index, and replaces or appends the line of the topic.
ReadIndex(p) ==
  /\ op[p].pc = "read"
  /\ op' = [op EXCEPT ![p].pc = "cap", ![p].lines = Noted(index, op[p].line[1]),
                      ![p].fresh = op[p].line[1].slug \notin Listed]
  /\ UNCHANGED <<topics, index, overlaps, crashes, doubt>>

\* Mutant of Oversized: lines are dropped until one is left.
OversizedOld(lines) == SizeOf(lines) > Cap /\ Len(lines) > 1

Oversized(lines) == SizeOf(lines) > Cap

\* Mutant of DropOldest: the file stays.
DropLine(p) ==
  /\ op[p].pc = "cap" /\ op[p].lines # <<>> /\ Oversized(op[p].lines)
  /\ op' = [op EXCEPT ![p].lines = Tail(@), ![p].evicted = @ \cup {op[p].lines[1].slug}]
  /\ UNCHANGED <<topics, index, overlaps, crashes, doubt>>

\* _enforce_cap drops the first line and deletes its file.
DropOldest(p) ==
  /\ op[p].pc = "cap" /\ op[p].lines # <<>> /\ Oversized(op[p].lines)
  /\ topics' = [topics EXCEPT ![op[p].lines[1].slug] = NoFile]
  /\ op' = [op EXCEPT ![p].lines = Tail(@), ![p].evicted = @ \cup {op[p].lines[1].slug}]
  /\ UNCHANGED <<index, overlaps, crashes, doubt>>

\* delete: the file goes; the lines without the slug are to be written if they
\* are others than those read.
Delete(p, s) ==
  /\ Begins(p, [NoOp EXCEPT !.pc = "unlist", !.evicted = {s}])
  /\ topics' = [topics EXCEPT ![s] = NoFile]

\* The lines of other slugs, in their order.
Without(lines, slugs) ==
  FoldLeft(LAMBDA kept, line : IF line.slug \in slugs THEN kept ELSE Append(kept, line),
           <<>>, lines)

Unlist(p) ==
  /\ op[p].pc = "unlist"
  /\ LET kept == Without(index, op[p].evicted)
     IN  IF kept = index THEN op' = [op EXCEPT ![p] = NoOp] /\ doubt' = Settled(p)
         ELSE op' = [op EXCEPT ![p].pc = "cap", ![p].lines = kept] /\ UNCHANGED doubt
  /\ UNCHANGED <<topics, index, overlaps, crashes>>

\* The index is opened.
OpenIndex(p) ==
  /\ op[p].pc = "cap"
  /\ op[p].line # <<>> => op[p].lines = <<>> \/ ~Oversized(op[p].lines)
  /\ index' = <<>>
  /\ op' = [op EXCEPT ![p].pc = "index"]
  /\ UNCHANGED <<topics, overlaps, crashes, doubt>>

\* It is written and closed, and the operation is over.
FillIndex(p) ==
  /\ op[p].pc = "index"
  /\ index' = op[p].lines
  /\ op' = [op EXCEPT ![p] = NoOp]
  /\ doubt' = Settled(p)
  /\ UNCHANGED <<topics, overlaps, crashes>>

\* A process dies: the files stay as they are.
Crash(p) ==
  /\ Busy(p) /\ crashes < MaxCrashes
  /\ crashes' = crashes + 1
  /\ op' = [op EXCEPT ![p] = NoOp]
  /\ doubt' = doubt \cup (IF op[p].pc = "index" THEN Slugs ELSE About(p))
  /\ UNCHANGED <<topics, index, overlaps>>

MemoryStep(p) ==
  \/ (\E s \in Slugs, n \in Lengths : OpenTopic(p, s, n))
  \/ FillTopic(p) \/ ReadIndex(p) \/ DropOldest(p)
  \/ (\E s \in Slugs : Delete(p, s)) \/ Unlist(p)
  \/ OpenIndex(p) \/ FillIndex(p) \/ Crash(p)

MemoryNext == \E p \in Processes : MemoryStep(p)

-----------------------------------------------------------------------------
(* Properties *)

MemoryTypeOK ==
  /\ topics \in [Slugs -> Lengths \cup {NoFile, Torn}]
  /\ index \in Seq([slug : Slugs, length : Lengths])
  /\ op \in [Processes -> [pc : {"idle", "topic", "read", "unlist", "cap", "index"},
                           line : Seq([slug : Slugs, length : Lengths]),
                           lines : Seq([slug : Slugs, length : Lengths]),
                           evicted : SUBSET Slugs, fresh : BOOLEAN, alone : BOOLEAN]]
  /\ overlaps \in 0..MaxOverlaps /\ crashes \in 0..MaxCrashes /\ doubt \in SUBSET Slugs

\* Whoever writes it and dies, the index never exceeds its cap nor lists a fact
\* twice.
IndexBounded ==
  /\ SizeOf(index) <= Cap
  /\ \A i, j \in DOMAIN index : index[i].slug = index[j].slug => i = j

\* Between operations the index lists exactly the facts that can be read, as
\* they are, except those that a dead or a concurrent operation may have been
\* at; the next undisturbed write or delete of such a fact mends it.
IndexAgrees ==
  (\A p \in Processes : ~Busy(p)) =>
    \A s \in Slugs \ doubt :
      /\ s \in Listed <=> topics[s] # NoFile
      /\ \A i \in DOMAIN index : index[i].slug = s => index[i].length = topics[s]

\* A write does not evict the fact that it adds, if that fits at all.
NewestKept ==
  \A p \in Processes :
    op[p].pc \in {"cap", "index"} /\ op[p].fresh =>
      \/ op[p].line[1].length > Cap
      \/ op[p].line[1].slug \in SlugsOf(op[p].lines)

MemoryLaw == IndexBounded /\ IndexAgrees /\ NewestKept
=============================================================================
