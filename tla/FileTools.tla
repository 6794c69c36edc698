----------------------------- MODULE FileTools ------------------------------
(***************************************************************************)
(* The file tools that read, edit and search, over one tracker of reads.   *)
(* The agents are the loops that use one toolset: a session's and its      *)
(* children's, which have conversations of their own.                      *)
(*                                                                         *)
(* A file is a sequence of lines.  What writes do beyond the content (the  *)
(* checkpoints) is in Checkpoints.                                         *)
(***************************************************************************)
EXTENDS Integers, Sequences, FiniteSets, SequencesExt, Functions

CONSTANTS
  Agents,
  Paths,
  Lines,     \* the lines that files are made of
  MaxLines,  \* bound: lines of a file
  Drafts,    \* what files hold at first and what is written to them
  Requests,  \* the offsets and limits of reads
  EditLists, \* the edits of calls: what is replaced, by what, everywhere or not
  Worlds,    \* what else there is
  Limits,    \* head_limit of searches
  MaxChanges \* bound: changes of files

\* "calm"; "programs": one may write a file while it is read; "coarse": the clock
\* of the file system does not tell two writes apart that are close.
AllWorlds == {"calm", "programs", "coarse"}

Texts == UNION {[1..n -> Lines] : n \in 0..MaxLines}

ASSUME FileToolsAssumption ==
  /\ Worlds \subseteq AllWorlds
  /\ Drafts \subseteq Texts
  /\ Requests \subseteq [offset : Nat, limit : Nat \ {0}]
  /\ EditLists \subseteq Seq([old : Lines, new : Lines, all : BOOLEAN])
  /\ {MaxLines, MaxChanges} \subseteq Nat /\ Limits \subseteq Nat \ {0}

VARIABLES
  world,   \* one of Worlds
  text,    \* the lines of each file that exists
  mtime,   \* when each path was last written
  changes, \* how often files were written
  seen,    \* _read: the paths that were read
  pages,   \* _page_cache: the bodies under their keys
  told,    \* the pages that each conversation holds
  pending, \* for each agent, the edit that awaits its checkpoint
  answer   \* what the last call returned

fvars == <<world, text, mtime, changes, seen, pages, told, pending, answer>>

Said(kind) == [kind |-> kind]
NoEdit == <<>>

FilesInit ==
  /\ world \in Worlds
  /\ text \in [Paths -> Drafts]
  /\ mtime = [p \in Paths |-> 0] /\ changes = 0
  /\ seen = {}
  /\ pages = [k \in {} |-> <<>>]
  /\ told = [a \in Agents |-> {}]
  /\ pending = [a \in Agents |-> NoEdit]
  /\ answer = Said("none")

-----------------------------------------------------------------------------
(* read_file *)

\* The lines of a page, and how many come after it.
PageOf(lines, r) ==
  LET end == IF r.offset + r.limit < Len(lines) THEN r.offset + r.limit ELSE Len(lines)
  IN  [lines |-> SubSeq(lines, r.offset + 1, end), more |-> Len(lines) - end]

\* Mutant of PageKey: a page is known by its place only.
PageKeyPlace(p, r, when, size) == [path |-> p, request |-> r, when |-> 0, size |-> 0]

PageKey(p, r, when, size) == [path |-> p, request |-> r, when |-> when, size |-> size]
KeyNow(p, r) == PageKey(p, r, mtime[p], Len(text[p]))

Exists(p) == p \in DOMAIN text

\* A path that is no file: an error.
NotAFile(p) ==
  /\ ~Exists(p)
  /\ answer' = Said("error")
  /\ UNCHANGED <<text, mtime, changes, seen, pages, told, pending>>

\* A page whose key is known is not sent again.
Point(a, p, r) ==
  /\ Exists(p) /\ KeyNow(p, r) \in DOMAIN pages
  /\ seen' = seen \cup {p}
  /\ answer' = [kind |-> "unchanged", agent |-> a, path |-> p, request |-> r]
  /\ UNCHANGED <<text, mtime, changes, pages, told, pending>>

\* The file changes: a coarse clock may not have moved since it last did.
Change(p, lines) ==
  /\ changes < MaxChanges /\ changes' = changes + 1
  /\ text' = [q \in DOMAIN text \cup {p} |-> IF q = p THEN lines ELSE text[q]]
  /\ \E t \in {mtime[p], changes'} :
       (world # "coarse" => t = changes') /\ mtime' = [mtime EXCEPT ![p] = t]

\* Any other page is read, told and kept, under the key that the file has after
\* the reading: another program may have written it in between.
ReadPage(a, p, r) ==
  /\ Exists(p) /\ KeyNow(p, r) \notin DOMAIN pages
  /\ \/ UNCHANGED <<text, mtime, changes>>
     \/ world = "programs" /\ \E lines \in Drafts : Change(p, lines)
  /\ LET body == PageOf(text[p], r)
         key == PageKey(p, r, mtime'[p], Len(text'[p]))
     IN  /\ pages' = [k \in DOMAIN pages \cup {key} |-> IF k = key THEN body ELSE pages[k]]
         /\ told' = [told EXCEPT ![a] = @ \cup {[path |-> p, request |-> r, body |-> body]}]
  /\ seen' = seen \cup {p}
  /\ answer' = Said("page")
  /\ UNCHANGED pending

-----------------------------------------------------------------------------
(* write_file, edit_file, multi_edit *)

\* write_file, or a program that writes the file.
WriteFile(p, lines) ==
  /\ Change(p, lines)
  /\ answer' = Said("written")
  /\ UNCHANGED <<seen, pages, told, pending>>

Places(lines, old) == {i \in DOMAIN lines : lines[i] = old}

Applicable(lines, e) ==
  /\ e.old # e.new
  /\ Places(lines, e.old) # {}
  /\ Cardinality(Places(lines, e.old)) > 1 => e.all

\* Mutant of Applied: only the first is replaced.
AppliedFirst(lines, e) ==
  [lines EXCEPT ![CHOOSE i \in Places(lines, e.old) :
                    \A j \in Places(lines, e.old) : i <= j] = e.new]

Applied(lines, e) == [i \in DOMAIN lines |-> IF lines[i] = e.old THEN e.new ELSE lines[i]]

\* Mutant of Outcome: an edit that does not apply is skipped.
OutcomeSkipped(lines, edits) ==
  FoldLeft(LAMBDA sofar, e :
    IF Applicable(sofar.lines, e) THEN [sofar EXCEPT !.lines = Applied(@, e)] ELSE sofar,
    [ok |-> TRUE, lines |-> lines], edits)

\* The edits in their order, each on the result of those before; all or none.
Outcome(lines, edits) ==
  FoldLeft(LAMBDA sofar, e :
    IF sofar.ok /\ Applicable(sofar.lines, e) THEN [sofar EXCEPT !.lines = Applied(@, e)]
    ELSE [ok |-> FALSE, lines |-> lines], [ok |-> TRUE, lines |-> lines], edits)

\* A file that was not read, or an edit that is empty, ambiguous or of nothing.
RefuseEdit(p, edits) ==
  /\ Exists(p) /\ (p \notin seen \/ ~Outcome(text[p], edits).ok)
  /\ answer' = Said("error")
  /\ UNCHANGED <<text, mtime, changes, seen, pages, told, pending>>

\* The content is read and edited; then the checkpoint is awaited.
BeginEdit(a, p, edits) ==
  /\ pending[a] = NoEdit /\ Exists(p) /\ p \in seen /\ Outcome(text[p], edits).ok
  /\ pending' = [pending EXCEPT ![a] =
                   <<[path |-> p, edits |-> edits, before |-> text[p],
                      after |-> Outcome(text[p], edits).lines]>>]
  /\ answer' = Said("none")
  /\ UNCHANGED <<text, mtime, changes, seen, pages, told>>

\* The edited content is written.
EndEdit(a) ==
  /\ pending[a] # NoEdit
  /\ Change(pending[a][1].path, pending[a][1].after)
  /\ pending' = [pending EXCEPT ![a] = NoEdit]
  /\ answer' = [kind |-> "edited", call |-> pending[a][1]]
  /\ UNCHANGED <<seen, pages, told>>

-----------------------------------------------------------------------------
(* The rest of the world *)

\* A program removes the file.
RemoveFile(p) ==
  /\ Exists(p) /\ changes < MaxChanges
  /\ changes' = changes + 1
  /\ text' = [q \in DOMAIN text \ {p} |-> text[q]]
  /\ answer' = Said("none")
  /\ UNCHANGED <<mtime, seen, pages, told, pending>>

\* A compaction of the conversation leaves out what the tools returned.
Compact(a) ==
  /\ told[a] # {}
  /\ told' = [told EXCEPT ![a] = {}]
  /\ answer' = Said("none")
  /\ UNCHANGED <<text, mtime, changes, seen, pages, pending>>

FilesNext ==
  /\ \/ \E p \in Paths :
          \/ NotAFile(p) \/ RemoveFile(p) \/ \E lines \in Drafts : WriteFile(p, lines)
          \/ \E a \in Agents, r \in Requests : Point(a, p, r) \/ ReadPage(a, p, r)
          \/ \E edits \in EditLists : RefuseEdit(p, edits) \/ \E a \in Agents : BeginEdit(a, p, edits)
     \/ \E a \in Agents : EndEdit(a) \/ Compact(a)
  /\ UNCHANGED world

-----------------------------------------------------------------------------
(* grep, by the Python code: the content mode *)

\* The lines about line i.
Around(lines, i, context) ==
  LET first == IF i > context THEN i - context ELSE 1
      last == IF i + context < Len(lines) THEN i + context ELSE Len(lines)
  IN  [k \in 1..(last - first + 1) |-> first + k - 1]

\* The lines of one file that are found, with their context, and how many match;
\* a match is left out only when the limit is reached.
SearchFile(lines, wanted, context, limit) ==
  LET step(sofar, i) ==
        IF lines[i] # wanted THEN sofar
        ELSE [shown |-> IF Len(sofar.shown) >= limit THEN sofar.shown
                        ELSE sofar.shown \o Around(lines, i, context),
              total |-> sofar.total + 1]
  IN  FoldLeft(step, [shown |-> <<>>, total |-> 0], [i \in DOMAIN lines |-> i])

\* Mutant of Announced: the limit itself is not exceeded.
AnnouncedLate(total, limit) == total > limit + 1

Announced(total, limit) == total > limit

\* What the answer shows of it.
Shown(found, limit) ==
  SubSeq(found.shown, 1, IF Len(found.shown) < limit THEN Len(found.shown) ELSE limit)

-----------------------------------------------------------------------------
(* Properties *)

Page == [lines : Seq(Lines), more : 0..MaxLines]

FilesTypeOK ==
  /\ world \in Worlds
  /\ DOMAIN text \subseteq Paths /\ \A p \in DOMAIN text : text[p] \in Texts
  /\ mtime \in [Paths -> 0..MaxChanges] /\ changes \in 0..MaxChanges
  /\ seen \subseteq Paths
  /\ \A k \in DOMAIN pages : pages[k] \in Page
  /\ \A a \in Agents : \A t \in told[a] : t.path \in Paths /\ t.body \in Page
  /\ \A a \in Agents : Len(pending[a]) \in 0..1

\* Reading on at the offset that each page gives tells the whole file once.
PagesCover ==
  \A p \in DOMAIN text, n \in 1..MaxLines :
    LET Rest[at \in 0..MaxLines] ==
          LET page == PageOf(text[p], [offset |-> at, limit |-> n])
          IN  IF page.more = 0 THEN page.lines ELSE page.lines \o Rest[at + n]
    IN  Rest[0] = text[p]

\* "Unchanged" is said of a page only if it still is what was read, whoever has
\* written the file in whatever way, as long as the clock tells writes apart and
\* no program writes the file while it is read.
UnchangedIsTrue ==
  answer.kind = "unchanged" /\ world = "calm" =>
    pages[KeyNow(answer.path, answer.request)] = PageOf(text[answer.path], answer.request)

\* An edit that is answered as done has made every replacement in its order and
\* changed nothing else.
EditsWhole ==
  answer.kind = "edited" =>
    LET call == answer.call
        step(sofar, e) == Append(sofar,
          [i \in DOMAIN call.before |->
             IF Last(sofar)[i] = e.old THEN e.new ELSE Last(sofar)[i]])
        versions == FoldLeft(step, <<call.before>>, call.edits)
    IN  /\ Last(versions) = text[call.path]
        /\ \A k \in DOMAIN call.edits :
             LET n == Cardinality(Places(versions[k], call.edits[k].old))
             IN  n = 1 \/ (n > 1 /\ call.edits[k].all)

\* A search without context that leaves out a match says so.
SearchTold ==
  \A p \in DOMAIN text, wanted \in Lines, limit \in Limits :
    LET found == SearchFile(text[p], wanted, 0, limit)
    IN  \/ Announced(found.total, limit)
        \/ ToSet(Shown(found, limit)) = Places(text[p], wanted)

FilesLaw == PagesCover /\ UnchangedIsTrue /\ EditsWhole /\ SearchTold

\* "Unchanged" refers to an earlier result of the same conversation.
ToldBefore ==
  answer.kind = "unchanged" =>
    [path |-> answer.path, request |-> answer.request,
     body |-> PageOf(text[answer.path], answer.request)] \in told[answer.agent]
=============================================================================
