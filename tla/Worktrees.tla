----------------------------- MODULE Worktrees ------------------------------
(***************************************************************************)
(* How sub-agents run: AgentLoop.spawn, spawn_many and _spawn_worktree, and *)
(* the workflow's agent, parallel and pipeline (workflow/context.py).       *)
(*                                                                         *)
(* One script runs some items at once: tasks of spawn_many, thunks of       *)
(* parallel that each run one agent, items of a pipeline that run one agent *)
(* per stage.  A task of spawn_many may be isolated: it works in a git      *)
(* worktree, whose changes are copied back when it ends.                    *)
(*                                                                         *)
(* The content of a file is 0 as committed at HEAD, or the item that last   *)
(* changed it; a deletion is a change like any other.                       *)
(***************************************************************************)
EXTENDS Naturals, FiniteSets

CONSTANTS
  Items,    \* the items of the script
  Stages,   \* stages of a pipeline
  Tracked,     \* files that HEAD has
  Loose,       \* files that it has not, in directories that it has
  Inner,       \* files in directories that HEAD has not
  Ignored,     \* files that .gitignore names
  Misprinted,  \* those whose names, or directories, git status prints otherwise
               \* than they are: in quotes, or cut by redact_secrets
  MaxShown,    \* entries of a status that max_output_bytes has room for
  MaxEdits     \* files that one agent changes (a bound)

Files == Tracked \cup Loose \cup Inner \cup Ignored

ASSUME WorktreesAssumption ==
  /\ Items \subseteq Nat \ {0}
  /\ Misprinted \subseteq Files
  /\ MaxShown \in Nat /\ MaxEdits \in Nat
  /\ Stages \in Nat \ {0}

VARIABLES
  script,       \* "many", "parallel" or "pipeline"
  isolated,     \* items with isolation="worktree"
  main,         \* where the call that runs the items stands
  stage,        \* stage of each item
  state,        \* where its agent stands
  outcome,      \* how the agent ended, while its worktree is removed
  result,       \* what the script gets for the item
  open,         \* a started event without its completed or failed
  files,        \* the workspace
  work,         \* the worktree of each item: its files
  changed,      \* the uncommitted changes of each item's worktree
  origins,      \* those that are gone under a new name, by a staged rename
  exists,       \* the worktree is there
  late,         \* a git worktree add that was cancelled still runs
  cut,          \* history: cancelled while the worktree was added or removed
  listed,       \* history: git status listed the changes
  failed        \* history: an agent of the item failed

wvars == <<script, isolated, main, stage, state, outcome, result, open, files,
           work, changed, origins, exists, late, cut, listed, failed>>

Outcomes == {"none", "ok", "domain", "raised", "cancelled"}
Results == {"none", "text", "error", "null"}
States == {"ready", "adding", "running", "status", "removing", "done"}
Fails == {"domain", "raised"}

WorktreesInit ==
  /\ script \in {"many", "parallel", "pipeline"}
  /\ isolated \in SUBSET Items
  /\ script # "many" => isolated = {}
  /\ main = "running"
  /\ stage = [i \in Items |-> 1]
  /\ state = [i \in Items |-> "ready"]
  /\ outcome = [i \in Items |-> "none"]
  /\ result = [i \in Items |-> "none"]
  /\ open = {}
  /\ files = [f \in Files |-> 0]
  /\ work = [i \in Items |-> [f \in Files |-> 0]]
  /\ changed = [i \in Items |-> {}] /\ origins = [i \in Items |-> {}]
  /\ exists = {} /\ late = {} /\ cut = {} /\ listed = {} /\ failed = {}

-----------------------------------------------------------------------------
(* The end of an agent, as its script takes it *)

\* Mutant of NextStage: an item that failed goes on to its next stage.
NextStageAnyway(i, o) == script = "pipeline" /\ stage[i] < Stages /\ o # "cancelled"

\* A pipeline goes on with the next stage of an item whose stage returned.
NextStage(i, o) == script = "pipeline" /\ stage[i] < Stages /\ o = "ok"

\* Mutant of ResultOf: parallel gives what a failed thunk raised.
ResultOfRaised(o) ==
  IF o = "ok" THEN "text" ELSE IF o = "domain" THEN "error" ELSE "null"

\* The entry of the item in the list of results.
ResultOf(o) ==
  CASE o = "ok" -> "text"
    [] o \in Fails /\ script = "many" -> IF o = "domain" THEN "error" ELSE "none"
    [] o \in Fails /\ script # "many" -> "null"
    [] o = "cancelled" -> "none"

\* Mutant of Closes: only success is reported.
ClosesWhenOk(i, o) == IF o = "ok" THEN open \ {i} ELSE open

\* completed or failed is published, but not when the agent was cancelled.
Closes(i, o) == IF o = "cancelled" THEN open ELSE open \ {i}

\* Mutant of Spared: one failure ends the siblings.
SparedNone(i, o) == [j \in Items |-> IF o \in Fails \/ j = i THEN "done" ELSE state[j]]

\* The state of the items after one of them ended: the others go on.
Spared(i, o) == [state EXCEPT ![i] = "done"]

\* The agent of item i has ended with o; an exception that spawn_many does not
\* capture leaves it at once.
Ends(i, o) ==
  /\ IF NextStage(i, o)
       THEN /\ stage' = [stage EXCEPT ![i] = @ + 1]
            /\ state' = [state EXCEPT ![i] = "ready"]
            /\ UNCHANGED <<result, main>>
       ELSE /\ state' = Spared(i, o)
            /\ result' = [result EXCEPT ![i] = ResultOf(o)]
            /\ main' = IF script = "many" /\ o = "raised" /\ main = "running"
                       THEN "raised" ELSE main
            /\ UNCHANGED stage
  /\ open' = Closes(i, o)
  /\ outcome' = [outcome EXCEPT ![i] = o]
  /\ failed' = IF o \in Fails THEN failed \cup {i} ELSE failed

\* Mutant of NothingToRemove: a worktree is removed when the run went well.
NothingToRemoveUnlessOk(i, o) == i \notin isolated \/ o # "ok"

NothingToRemove(i, o) == i \notin isolated

\* The run of i is over with o; an isolated one removes its worktree first.
Over(i, o) ==
  IF NothingToRemove(i, o)
    THEN Ends(i, o)
    ELSE /\ state' = [state EXCEPT ![i] = "removing"]
         /\ outcome' = [outcome EXCEPT ![i] = o]
         /\ UNCHANGED <<stage, result, main, open, failed>>

-----------------------------------------------------------------------------
(* Spawning *)

\* agent() publishes its start; the child runs in place or has its worktree
\* added first.
Start(i) ==
  /\ state[i] = "ready"
  /\ state' = [state EXCEPT ![i] = IF i \in isolated THEN "adding" ELSE "running"]
  /\ open' = IF script = "many" THEN open ELSE open \cup {i}
  /\ UNCHANGED <<script, isolated, main, stage, outcome, result, files, work,
                 changed, origins, exists, late, cut, listed, failed>>

\* spawn refuses: no tool factory, or the loop may not spawn.
Refuse(i) ==
  /\ state[i] = "ready"
  /\ Ends(i, "domain")
  /\ UNCHANGED <<script, isolated, files, work, changed, origins, exists, late, cut, listed>>

\* The worktree is there, at HEAD: what the workspace has uncommitted is not in it.
Add(i) ==
  /\ state[i] = "adding"
  /\ exists' = exists \cup {i}
  /\ state' = [state EXCEPT ![i] = "running"]
  /\ UNCHANGED <<script, isolated, main, stage, outcome, result, open, files,
                 work, changed, origins, late, cut, listed, failed>>

\* git fails, or the child's tools or registry when the worktree is there.
AddFails(i) ==
  /\ state[i] = "adding"
  /\ exists' \in {exists, exists \cup {i}}
  /\ \E o \in Fails : Over(i, o)
  /\ UNCHANGED <<script, isolated, files, work, changed, origins, late, cut, listed>>

-----------------------------------------------------------------------------
(* The run of an agent *)

\* Mutants of Rerooted: the tools of every child, or of none, work elsewhere.
RerootedNone(i) == i \notin Items
RerootedAll(i) == i \in Items

\* The tool factory has built tools for the worktree of i.
Rerooted(i) == i \in isolated

\* The agent changes a file, in place or in its worktree.
Edit(i, f) ==
  /\ state[i] = "running"
  /\ IF Rerooted(i)
       THEN /\ f \notin changed[i] /\ Cardinality(changed[i]) < MaxEdits
            /\ work' = [work EXCEPT ![i][f] = i]
            /\ changed' = [changed EXCEPT ![i] = @ \cup {f}]
            /\ UNCHANGED files
       ELSE /\ files[f] # i /\ Cardinality({g \in Files : files[g] = i}) < MaxEdits
            /\ files' = [files EXCEPT ![f] = i]
            /\ UNCHANGED <<work, changed>>
  /\ UNCHANGED <<script, isolated, main, stage, state, outcome, result, open,
                 origins, exists, late, cut, listed, failed>>

\* It renames a file in its worktree with git mv: both names change.
Rename(i, f, g) ==
  /\ state[i] = "running" /\ Rerooted(i)
  /\ f \in Tracked /\ g \in Loose \ Ignored /\ {f, g} \cap changed[i] = {}
  /\ Cardinality(changed[i]) < MaxEdits
  /\ work' = [work EXCEPT ![i] = [h \in Files |-> IF h \in {f, g} THEN i ELSE @[h]]]
  /\ changed' = [changed EXCEPT ![i] = @ \cup {f, g}]
  /\ origins' = [origins EXCEPT ![i] = @ \cup {f}]
  /\ UNCHANGED <<script, isolated, main, stage, state, outcome, result, open, files,
                 exists, late, cut, listed, failed>>

\* It commits in its worktree, on a HEAD that no branch has.
Commit(i) ==
  /\ state[i] = "running" /\ i \in isolated /\ changed[i] # {}
  /\ changed' = [changed EXCEPT ![i] = {}] /\ origins' = [origins EXCEPT ![i] = {}]
  /\ UNCHANGED <<script, isolated, main, stage, state, outcome, result, open,
                 files, work, exists, late, cut, listed, failed>>

\* run_result returns, whatever the status of the run.
RunReturns(i) ==
  /\ state[i] = "running"
  /\ IF i \in isolated
       THEN /\ state' = [state EXCEPT ![i] = "status"]
            /\ UNCHANGED <<main, stage, outcome, result, open, failed>>
       ELSE Ends(i, "ok")
  /\ UNCHANGED <<script, isolated, files, work, changed, origins, exists, late, cut, listed>>

\* An exception leaves it.
RunRaises(i) ==
  /\ state[i] = "running"
  /\ \E o \in Fails : Over(i, o)
  /\ UNCHANGED <<script, isolated, files, work, changed, origins, exists, late, cut, listed>>

-----------------------------------------------------------------------------
(* Integration and removal *)

\* Mutant of Listed: files that HEAD has not are forgotten.
ListedTracked(i) == changed[i] \cap Tracked

\* The changes that git status has an entry for: it leaves out ignored files, and
\* of a rename the code takes the new name only.
Listed(i) == changed[i] \ (Ignored \cup origins[i])

Fits(i) == Cardinality(Listed(i)) <= MaxShown

\* The entries that are left of the output: when it is too long its end is cut
\* off.  Those of tracked files come first.
Shown(i) ==
  IF Fits(i) THEN {Listed(i)}
  ELSE {shown \in SUBSET Listed(i) :
          /\ Cardinality(shown) = MaxShown
          /\ shown \subseteq Tracked \/ Listed(i) \cap Tracked \subseteq shown}

\* The entries whose path is one of the worktree; the others are passed over
\* without a word.
Found(shown) == shown \ Misprinted

\* Entries are copied one by one; a new directory is one entry and not a file
\* that can be copied, and what is listed after it is left.
Integrate(i) ==
  /\ state[i] = "status"
  /\ listed' = listed \cup {i}
  /\ \E shown \in Shown(i), copied \in SUBSET (Listed(i) \ Inner) :
       /\ IF Found(shown) \cap Inner = {}
            THEN copied = Found(shown) /\ Over(i, "ok")
            ELSE /\ Found(shown) \cap Tracked \subseteq copied /\ copied \subseteq Found(shown)
                 /\ Over(i, "raised")
       /\ files' = [f \in Files |-> IF f \in copied THEN work[i][f] ELSE files[f]]
  /\ UNCHANGED <<script, isolated, work, changed, origins, exists, late, cut>>

StatusFails(i) ==
  /\ state[i] = "status"
  /\ \E o \in Fails : Over(i, o)
  /\ UNCHANGED <<script, isolated, files, work, changed, origins, exists, late, cut, listed>>

\* git worktree remove, whose failure is ignored, and rmtree.
Remove(i) ==
  /\ state[i] = "removing"
  /\ exists' = exists \ {i}
  /\ Ends(i, outcome[i])
  /\ UNCHANGED <<script, isolated, files, work, changed, origins, late, cut, listed>>

-----------------------------------------------------------------------------
(* The script *)

\* Mutant of AllIn: the call returns only with a text from every item.
AllInWithText == \A i \in Items : result[i] = "text"

AllIn == \A i \in Items : state[i] = "done"

\* gather has all its results.
FanOutReturns ==
  /\ main = "running"
  /\ AllIn
  /\ main' = "returned"
  /\ UNCHANGED <<script, isolated, stage, state, outcome, result, open, files,
                 work, changed, origins, exists, late, cut, listed, failed>>

\* The task of the script is cancelled, and with it every item.
CancelScript ==
  /\ main = "running"
  /\ main' = "cancelling"
  /\ UNCHANGED <<script, isolated, stage, state, outcome, result, open, files,
                 work, changed, origins, exists, late, cut, listed, failed>>

\* An item that awaits anything gets the cancellation there: git worktree add
\* goes on without it, and a removal is not completed.
CancelItem(i) ==
  /\ main = "cancelling"
  /\ state[i] # "done" /\ outcome[i] # "cancelled"
  /\ LET at == state[i] IN
     /\ IF at \in {"ready", "removing"} THEN Ends(i, "cancelled")
                                        ELSE Over(i, "cancelled")
     /\ late' = IF at = "adding" THEN late \cup {i} ELSE late
     /\ cut' = IF at \in {"adding", "removing"} /\ i \in isolated
               THEN cut \cup {i} ELSE cut
  /\ UNCHANGED <<script, isolated, files, work, changed, origins, exists, listed>>

Cancelled ==
  /\ main = "cancelling" /\ AllIn
  /\ main' = "cancelled"
  /\ UNCHANGED <<script, isolated, stage, state, outcome, result, open, files,
                 work, changed, origins, exists, late, cut, listed, failed>>

\* The git worktree add of a cancelled item gets done.
LateAdd(i) ==
  /\ i \in late
  /\ late' = late \ {i}
  /\ exists' = exists \cup {i}
  /\ UNCHANGED <<script, isolated, main, stage, state, outcome, result, open,
                 files, work, changed, origins, cut, listed, failed>>

Finished == main \notin {"running", "cancelling"} /\ AllIn /\ late = {}

\* What the event loop brings about for item i.
Goes(i) ==
  \/ Start(i) \/ Refuse(i) \/ Add(i) \/ AddFails(i)
  \/ RunReturns(i) \/ RunRaises(i) \/ Integrate(i) \/ StatusFails(i) \/ Remove(i)

WorktreesNext ==
  \/ \E i \in Items : Goes(i) \/ Commit(i) \/ CancelItem(i) \/ LateAdd(i)
  \/ \E i \in Items, f \in Files : Edit(i, f) \/ \E g \in Files : Rename(i, f, g)
  \/ FanOutReturns \/ CancelScript \/ Cancelled

WorktreesSpec == WorktreesInit /\ [][WorktreesNext]_wvars

-----------------------------------------------------------------------------
(* Properties *)

WorktreesTypeOK ==
  /\ script \in {"many", "parallel", "pipeline"} /\ isolated \subseteq Items
  /\ main \in {"running", "raised", "returned", "cancelling", "cancelled"}
  /\ stage \in [Items -> 1..Stages] /\ state \in [Items -> States]
  /\ outcome \in [Items -> Outcomes] /\ result \in [Items -> Results]
  /\ files \in [Files -> Items \cup {0}] /\ work \in [Items -> [Files -> Items \cup {0}]]
  /\ changed \in [Items -> SUBSET Files] /\ origins \in [Items -> SUBSET Tracked]
  /\ open \cup exists \cup late \cup cut \cup listed \cup failed \subseteq Items
  /\ \A i \in Items :
       /\ state[i] \in {"adding", "status", "removing"} => i \in isolated
       /\ changed[i] # {} => i \in isolated
       /\ origins[i] \subseteq changed[i]
       /\ \A f \in Files : work[i][f] \in {0, i}
  /\ exists \subseteq isolated

\* When an isolated agent is over, whatever went wrong, its worktree is gone;
\* only a cancellation while git adds or removes it leaves it behind.
Cleaned ==
  \A i \in Items : (state[i] = "done" /\ i \notin cut) => i \notin exists

\* An isolated agent leaves no trace in the workspace before its run is over,
\* and none at all when its run raised or its changes could not be listed.
Isolation ==
  \A i \in isolated : i \notin listed => \A f \in Files : files[f] # i

\* The changes that the copying back can carry: not those of ignored files, of
\* misprinted names and of the old names of renames.
Carried(i) == changed[i] \ (Ignored \cup Misprinted \cup origins[i])

\* What it can carry is in the workspace when the text of an isolated agent is,
\* if git's output was not cut; and integrating never changes a file that its
\* agent left alone, so it undoes nothing that another agent did to one.
Landed ==
  /\ \A f \in Files : files[f] \in isolated => f \in changed[files[f]]
  /\ \A i \in isolated :
       result[i] = "text" /\ Fits(i) => \A f \in Carried(i) : files[f] # 0

\* An isolated agent is isolated, and what can be carried of what it did arrives
\* when it is done.
IsolationLaw == Cleaned /\ Isolation /\ Landed

\* One item that fails does not end the others: an item ends without a result
\* only when its own agent raised, or the script was cancelled.
SiblingsSpared ==
  \A i \in Items :
    (state[i] = "done" /\ result[i] = "none") =>
      \/ outcome[i] = "raised" /\ script = "many"
      \/ outcome[i] = "cancelled" /\ main \in {"cancelling", "cancelled"}

\* The results that a script goes on with: a text comes from an item whose every
\* agent returned, through all stages; None or an error from one that failed.
ResultsTell ==
  main = "returned" =>
    \A i \in Items :
      /\ result[i] = "text" <=> i \notin failed
      /\ (result[i] = "text" /\ script = "pipeline") => stage[i] = Stages
      /\ result[i] = "error" => script = "many"

\* Every agent that was reported started is reported completed or failed, even
\* with a stage that raises, except the cancelled ones.
EventsPaired ==
  \A i \in Items : (state[i] = "done" /\ outcome[i] # "cancelled") => i \notin open

\* The items of a script fail alone, and the script is told which.
FanOutLaw == SiblingsSpared /\ ResultsTell /\ EventsPaired

\* What a child left uncommitted in its worktree is integrated when its run has
\* returned and git has listed it: violated by a file in a new directory.
EditsIntegrated ==
  \A i \in listed :
    (state[i] = "done" /\ i \notin cut /\ outcome[i] # "cancelled") =>
      \A f \in changed[i] : files[f] # 0

\* A child that returns its text has its edits in the workspace: violated without
\* any failure by a file whose name git status prints in quotes.
TextMeansLanded ==
  \A i \in isolated : result[i] = "text" => \A f \in changed[i] : files[f] # 0
=============================================================================
