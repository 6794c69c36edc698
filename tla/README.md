# Nullain Agent SDK: TLA+ models and proofs

TLA+ modules for the concurrent and stateful core of the Nullain agent SDK, the
TLC configurations that check them on small instances, and TLAPS proofs of the
properties that matter most. `PROJECT.json` links every definition to the lines
it models, every property to the run that checks it, and every hazard of the
code to the properties that would catch it. Paths below are relative to
`nullain-sdk/src/nullain/` unless they begin with another package.

    tlc -workers 2 -config MCAgentLoop.cfg MCAgentLoop     # one of the runs
    tlapm AgentProofs.tla                                  # one of the proofs

## 1. The system

An agent run is one coroutine on one asyncio event loop. `AgentLoop` routes the
task to a model, may plan it, and alternates *act* phases (ask the provider,
execute the calls it asks for) with verification. Everything a run does is an
event: appended to an `EventStore`, kept in the run's own list, folded into the
messages of the next request. Concurrency comes from these places: the calls of
one response run under `asyncio.gather`; a loop spawns others; the tasks of one
process share event stores, routers, clients of tool servers and a bus; the
daemon's main loop and the calls of its agent share one stdin; several processes
share files; and everything may be cancelled at an await. Below, what is *hard*
is what a test hardly reaches, and *correct* says what that component owes the
others.

| Component | State | Operations and interactions | Hard | Correct when |
|---|---|---|---|---|
| Agent loop, `agent/loop.py` | counters and flags of a run, some local to an act phase, some to the run, some fields | run, act, verify, retry, cancel; calls provider, dispatch, context manager, store, hooks | locals reset and fields kept across verify cycles; a dozen exits | limits hold over all cycles, the outcome tells what happened, every run ends |
| Tool dispatch, `agent/loop.py` 421-780, `tools/registry.py` | the batches, the calls under way, `outcomes_by_id` | log, batch by first fit, gather, hooks, gate, answer | calls of a batch interleave; ids collide; one call raises | no conflicting overlap, order of writes, each call gets its own answer |
| Session log, `events/conversation.py`, `events/repair.py`, `agent/checkpoint.py`, `context/manager.py` | stored events, the run's list, the incremental fold | emit, fold, compact, load, repair, rewind | a log cut anywhere by a crash, compaction inside a turn, rewinding past a compaction | the provider is never shown a result without its call; folds agree; nothing is hidden unsummarised |
| Event stores, `events/port.py`, `store.py`, `postgres_store.py` | rows; a connection, or a pool, a queue and a drain task | append, read, initialise, close | lazy initialisation, bounded queue, flush against drain, close against both | a read sees every earlier append, in order; close loses nothing |
| Facade and event bus, `agent/facade.py`, `events/bus.py` | one agent's stores, its bus, its streams | run, stream, close, undo, rewind | streams overlap; a consumer leaves early | a stream is the events of its run, once, in order, then the result |
| Daemon, `nullain-agentd/.../main.py` | stdin's buffer, session registry | lines in, envelopes out; permission and question callbacks | two callbacks and the loop read one pipe | an answer reaches the call it answers, no message is forgotten, the end of input ends the daemon |
| Tool servers, `mcp/`, `lsp/` | a child process or a URL, the handshake, the id counter, what is left in the pipe | load, register, call, notify, close | concurrent requests read one pipe; a read is given up in the middle | a request gets its own answer or an error, and returns |
| Sub-agents, authority, worktrees, `agent/loop.py` 1833-2092, `authority.py`, `workflow/` | authority and policy of each loop; a worktree per isolated child | spawn, spawn_many, parallel, pipeline, integrate | siblings copy back over each other; cancellation while git works | no child has more authority than was delegated; isolated work arrives, whole, at the end only |
| Undo, `nullain-tools/.../checkpoints.py` | the stack of checkpoints, the open operation | push, evict, undo | the open operation is a shared field across an await | undo is the inverse of writing, operations stay whole |
| File tools, `nullain-tools/.../filesystem.py` | files, page cache, what was read | read, write, edit, multi-edit, search | pages cached by time and size, one tracker for several loops | what is answered was in the file; edits are whole |
| Model router, `router/` | a breaker per model, a cache of classifications | select, report, classify, retry | concurrent runs on one breaker | failing models are avoided, working ones are not |
| LLM adapters, `llm/`, `agent/loop.py` 1009-1058 | the calls merged so far | stream, complete | fragments of calls, ids in the first only | a dispatched call is the call that the model made |
| Memories, `memory/` | topic files and an index; trajectories | write, evict, delete, recall | several processes; a crash between two files | index and topics agree |
| Retrieval, `rag/` | cuckoo filter, tree, vectors | add, contains, remove, navigate | an insertion that gives up | no false negative; nodes stay linked |
| Plugins, `plugins/` | verified manifests, clients, registered tools | verify, start, register | the server reports its tools later than it was verified | what runs was granted |
| Sandbox, commands, hooks, `tools/sandbox/`, `hooks/`, `nullain-tools/.../shell.py`, `git.py` | child processes | run, time out, kill | timeouts and cancellation; a sandbox that is missing | confined when it must be, no child is left, exit codes are told |
| `nullain.toml`, `cli.py` | a hand-edited file | mcp add, mcp remove | a parser of its own beside the TOML one | what was asked is edited, the rest is kept |
| Terminal, `tui.py` | the live display and its streak | draw, freeze | all calls of a response are drawn before their results; failures end a streak in the middle | failures, differences and texts are never hidden |
| Quota, telemetry, settings, vector store, embeddings, Windows launcher, web tools, command line, evaluations | as named | I/O, parsing, presentation | operating system and services | see section 9 |

Each row and its status is a component in `PROJECT.json`.

## 2. Modules

| Module | Models | Checked by | Proved in |
|---|---|---|---|
| `RunContract` | what a run promises its caller (abstract) | `AgentLoop` refines it | `AgentProofs` |
| `AgentLoop` | one run: counters, limits, exits, verification, outcome | `agent_loop` | `AgentProofs` |
| `ToolDispatch` | the calls of one response | `tool_dispatch` | `ToolDispatchProofs` |
| `SessionFold` | pure operators: fold, incremental fold, boundary, repair, rewind | `session_log` | `SessionLogProofs` |
| `SessionLog` | a stored session and the runs that load, extend and rewind it | `session_log` | `SessionLogProofs` |
| `EventStorePort` | what any event store promises (abstract) | `PostgresStore` refines it | `PostgresStoreProofs` |
| `PostgresStore` | the Postgres adapter, its queue and drain tasks, clients of one loop | `postgres_store` | `PostgresStoreProofs` |
| `Daemon` | stdin shared by the main loop and the calls | `daemon` | `DaemonProofs` |
| `ToolServers` | an MCP server over stdio or HTTP, or a language server, and its client | `tool_servers` | `ToolServersProofs` |
| `Authority`, `SpawnTree` | what a child may do, down a tree of spawns | `subagents` | `AgentProofs` |
| `Worktrees` | fan-outs and pipelines of agents, isolated in worktrees or not | `subagents` | `AgentProofs` |
| `Checkpoints` | write tools, checkpoint stack, retention, undo | `services` | `ServicesProofs` |
| `FileTools` | reads with the page cache, edits, search | `services` | `StoresProofs` |
| `ServerSettings` | the editing of `nullain.toml` | `services` | |
| `PersistentMemory` | topics and their index, shared by processes that may die | `services` | `StoresProofs` |
| `CuckooFilter`, `RagTree` | retrieval's filter and tree | `services` | `StoresProofs` |
| `ModelCalls` | classifier, router, breaker, retries, for concurrent runs | `services` | `ServicesProofs` |
| `StreamedCalls` | from the chunks of a response to merged calls | `services` | `ServicesProofs` |
| `AgentFacade` | run, stream and close of one Agent, its bus and SQLite stores | `services` | `ServicesProofs` |
| `Terminal` | the live display of a run | `services` | `ServicesProofs` |
| `Plugins` | manifests, grants, servers, registration | `services` | `ServicesProofs` |
| `Processes` | confinement, timeouts, exit codes, hooks | `services` | `ServicesProofs` |

An `MC` module gives the constants of a run their values. Two of them hold
several components side by side, which share no state: `MCSubagents` (the tree
of spawns, or the script that runs agents) and `MCServices` (twelve components).
Their variable `part` says which one a behaviour is about; the variables of the
others keep one initial value, and each law is stated of its own part. In
`MCSessionLog` and `MCPostgresStore` a variable `setting`, chosen at the start,
says under which conditions the one component runs.

The components meet at narrow interfaces, and each module states what it takes
from the others: `AgentLoop` sees a batch of calls as how many failed;
`ToolDispatch` models that batch; `SessionLog` sees a run as the order of the
events it emits; `Checkpoints` assumes of a batch what `ToolDispatch` proves (no
two writes of one file at once); `Daemon` sees the agent as requests and an end;
`SpawnTree` says what a child may do and `Worktrees` when and where it does it;
`StreamedCalls` ends where `ToolDispatch` begins.

### AgentLoop
A variable per local or field of the code, named after it (comments give the
original), grouped as the code groups their lifetimes: `bodyVars` belong to
`_run_pipeline_body`, `fieldVars` are instance fields that outlive an act phase,
`actVars` are locals of one `_run_act_phase`. `phase` is where the coroutine
stands. An action is one exit or one turn of the code: the checks at the head of
a step (`Timeout`, `OverBudget`, `OverQuota`, `Thrashing`, `BeginStep`, in the
order the code makes them; the clock, asked first, is a choice), the response
(`FinalAnswer`, `ToolCalls`, `ProviderFails`), the batch (`ExecuteTools`),
verification (`SkipVerify`, `VerifyPasses`, `VerifyFailsAndRetries`,
`VerifyFailsForGood`), the status (`Resolve`). `Cancel`, `Raise` and `Escape`
may come at any await. The history variables (`verdict`, `reflections`,
`lastBatch`, `sameBatch`, `lastTouch`, `wrote`) record what happened independently
of the counters the code keeps, so that the properties compare the two. Of a batch,
`ExecuteTools` takes how many calls failed, whether it asked to write a file of the
plan, which is what the code looks at (`_step_touched_target_file`, 737-758), and
whether such a write was done, which the code does not look at.

### ToolDispatch
`phase` is the position in `_execute_tools`, `done` the position in its loops,
`state[i]` the await at which the coroutine of call i stands. `Place` is one
turn of `_batch_by_conflict`: the first batch the call fits in. `HookRaises` is
the exception a hook command may raise out of `gather`, which leaves the other
calls running: the model lets them go on after the dispatch has ended.

### SessionFold and SessionLog
An event has an id, a kind, the call ids it carries, its measured tokens and the
ids a compaction folds away. `SessionFold` gives `Conversation.fold`,
`IncrementalFold`, the compaction boundary of `context/manager.py`,
`repair_orphaned_tool_results` and `rewind_events` as operators, each read event
by event (`ReadEvent` is one turn of the fold, `Copied` keeps or drops one event
of a log under repair); `SessionLog`
lets runs use them on one stored session: `Load` or `Rewind`, then `Emit`,
`Proceed` or `Compact`, `FinalAnswer` or `ToolCalls`, and `Fail` or `Stop`
anywhere. `log` is the run's own list, `stored` the store's, and they differ as
in the code (deltas and the final error are stored and not kept, repaired events
are kept and not stored).

### EventStorePort and PostgresStore
`PostgresStore` is cut at its awaits: `pc[c]` is the await a client task stands
at, `drains` the drain tasks that initialisations have started, each with its
batch. `unfinished` is the counter behind `queue.join()`, distinct from the
queue's length because a drain task holds events neither in the queue nor in the
table. Two scheduling facts of asyncio are used: a put or a join that need not
wait does not give way (`Arrive`, `Close`), and tasks woken earlier run before a
write is answered (`PuttersDone`).

### Daemon
`input` is the stream's buffer, `waiting` the one reader that asyncio's
`StreamReader` will wake; a second reader on an empty stream gets an exception.
The main loop's steps are `MainWaits`, `Skim`, `Message`, `LoadSession`,
`EndRun` and their failures; `Ask` and `Resume` are both callbacks. The client
is external and writes what it likes, when it likes, within the bounds.
`orderly` records that it has so far behaved as the protocol has in mind.

### Checkpoints
A write is two steps around the await of git: `BeginWrite` reads the file and
enters an operation, `EndWrite` pushes the checkpoint and writes (or fails to
write) the file. `undo` is `BeginUndo` (pop a whole operation), `Restore` (one
file at a time), `UndoFails`. A checkpoint also remembers what its write left
on disk, which the code does not: `UndoInverts` compares it with what follows.

### ToolServers
One client from start-up to `Shutdown` and the pipe to its server. A user of the
client is the main loop (start-up, then the registrations of sessions) or a call;
`user[u].script` is what it still has to send and `user[u].pc` the await it
stands at. A message has as many reads as its framing
(one line over stdio; header, blank line and body for a language server; none
over HTTP), and `procs[p].out` holds what is not read yet, so a read that is given up
leaves the rest to the next reader. Timeouts, cancellations, the death of the
process, messages that nobody asked for and requests by the server may come at
any time within their bounds.

### Authority, SpawnTree, Worktrees
`Authority` has `Meet` and `Within`, the decision of a registry and the
projection of an authority on a policy. `SpawnTree` grows a tree of loops by
`Spawn`, with or without a delegation, on the parent's registry or a fresh one.
In `Worktrees`, `state[i]` is where the agent of item i stands between the two
calls of git; `Over` and `Ends` are the `finally` and the `except` clauses that
follow a run, taken in the order of the code. The content of a file is 0 as in
HEAD or the item that changed it last, which is all that isolation is about.
The copying back goes through text, and each way in which that text is not the
list of changes is modelled: files that `.gitignore` names and the old names of
renames by `git mv` are not listed (`Listed`), the end of a long output is cut off
(`Shown`), entries whose printed name is no path are passed over (`Found`), an
entry that is a directory stops the copying (`Integrate`). Left out are: renames
that git recognises in other stagings, a last entry that is cut in the middle of
its name, and an `OSError` of one copy that is not a directory.

### The parts of `services`
- **FileTools**: a file is a sequence of lines with a time of writing; `pages` is
  the page cache, `seen` the tracker of reads, `told` what each loop's
  conversation holds. The surroundings are one of three worlds: `calm` (only
  these tools write), `programs` (others do as well, while a page is read),
  `coarse` (the clock does not tell two writes apart).
- **ServerSettings**: a file is its sequence of tables; the CLI's line parser
  (`ParseServers`) and the TOML parser (`Loads`, `Meaning`) are two readings of it.
- **PersistentMemory**: an operation is its file operations in order (`OpenTopic`,
  `FillTopic`, `ReadIndex`, `DropLine`, `DropOldest`, `OpenIndex`, `FillIndex`),
  by two processes that may overlap and die between any two.
- **CuckooFilter**: buckets of fingerprints, as many as the power of two of the
  code (`NextPower`), with the exclusive or of the code on numbers
  (`ExclusiveOr`); each `Kick` of an insertion is a step, and the reference is the
  bag of the keys that were added.
- **RagTree**: `AddNode` and, as functions that go down level by level, the
  children, the path to the root (`Upward`) and the navigation (`Downward`).
- **ModelCalls**: looking at a breaker is a step with its side effect; a call
  reports to a breaker that others have changed meanwhile.
- **StreamedCalls**: a provider's style says which chunks carry ids, names and
  pieces; `Parsed` is the adapter, `MergeDelta` and `Finalized` are the loop's.
- **AgentFacade**: `run` and `stream` with their queues, timer and final drain;
  handlers of one bus; two stores with their connections.
- **Terminal**: what is live and what stays on the screen, and the streak of one
  tool. The items come as the loop emits them: the calls of a response all before
  their results, the results in the order of the calls, and before a failed one
  its error event (`DrawError`), if it has a type. After a failure or a difference
  no tool has the streak, and what is counted then is counted for none
  (`FinalizeStreak`).
- **Plugins**: the manifest of every entry is verified and its server started,
  then each session registers what the server reports by then.
- **Processes**: launch, exit, timeout and cancellation of a command, and the
  hooks of one lifecycle point.

## 3. Runs

| Run | Configuration | What it shows |
|---|---|---|
| `agent_loop` | `MCAgentLoop.cfg` | `Limits`: steps, tokens, reflections and repetitions are bounded across verify-fix cycles; `ExtensionEarned`: an extension follows a batch that asked to write a file of the plan; `OutcomeMatchesRun`: the status is true; `Terminates`: a run ends; `KeepsContract`: it refines `RunContract` |
| `tool_dispatch` | `MCToolDispatch.cfg` | `ConflictLaw`: no two calls conflict while they run, and writes keep their order; `AnsweredTruthfully`: answers are the calls' own when ids are distinct; `Terminates` |
| `session_log` | `MCSessionLog.cfg` | `FoldAgrees`: the incremental fold is the fold; `CompactionLaw`: turns are compacted whole, a summary covers all that is hidden, a rewound log folds to what its response was asked with; `Paired`: no result is sent without its call, from broken histories too |
| `postgres_store` | `MCPostgresStore.cfg` | `TableLaw`: rows are in the order of their appends, each once, and close leaves none behind; `KeepsPort`: an initialised store without faults refines the port; `Returns`: every call of it returns |
| `daemon` | `MCDaemon.cfg` | `GrantLaw`: with an orderly client answers reach their calls, with any client one answer lets one call go on at most; `MessageLaw`: no message is forgotten or answered twice; `Ends`: the end of input ends the daemon |
| `tool_servers` | `MCToolServers.cfg` | `AnswerLaw`: a request takes no answer but its own, one is lost only to a concurrent reader or a read that was given up, and framing stays in step; `ServerLaw`: nothing is asked before the handshake, no process is orphaned; `Returns` |
| `subagents` | `MCSubagents.cfg` | `DelegationLaw`: a delegation gives no more authority, calls or spawning than its giver has; `IsolationLaw`: isolated work does not show before it is integrated; then what the copying back can carry arrives, if git's output was not cut; an integration touches no file that its agent left alone; worktrees go away; `FanOutLaw`: items fail alone and the script is told which; `ScriptReturns` |
| `services` | `MCServices.cfg` | twelve components, one at a time: `UndoLaw`, `OperationCloses`, `UndoIsWhole` of undo; `EditLaw` of file tools and `nullain.toml`; `RecallLaw` of memory, filter and tree; `ModelLaw` of the router and of streamed calls; `StreamLaw` of the facade and the terminal; `HostLaw` of plugins and processes |
| `subagents_new_dir` | `MCSubagentsNewDir.cfg` | **violation** of `EditsIntegrated` |
| `models_opening` | `MCModelsOpening.cfg` | **violation** of `WholeCalls` |
| `file_pointer` | `MCFilePointer.cfg` | **violation** of `ToldBefore` |
| `settings_edit` | `MCSettingsEdit.cfg` | **violation** of `EditsTaken` |

A law is a conjunction of named properties, each with its own comment beside its
definition; `PROJECT.json` gives the properties mutants of their own.

The laws of `services` in more detail:

- `UndoLaw`: undo puts back what was there before the writes, and operations are
  kept or dropped whole. `UndoIsWhole` is the same of the steps of an undo.
- `EditLaw`: pages tell the whole file; "unchanged" is said of what is unchanged;
  an edit makes its replacements in order or none; a search that leaves something
  out says so. Every edit of `nullain.toml` leaves the
  other tables as they were. If the tables of the servers stand together after a
  line `[mcp.servers]` (`InOneBlock`) the file loads afterwards, with the servers
  that are meant; if moreover no other table after that line has a key of the
  name of a server's (`NoKeysAfter`), each of them is what is meant. Files for
  which either does not hold are in the run too, and are the subject of the
  violation `settings_edit`.
- `RecallLaw`: the index is bounded and lists what can be read, except what a
  crash or an overlap touched; a write does not evict itself. A key that was
  added and not removed is found, and no more fingerprints are missing than the
  insertions that gave up and the removals of keys that were not there. Nodes are
  linked once; a navigation finds leaves of its tenant only, and all of them if
  its width allows.
- `ModelLaw`: a circuit is open from the threshold on; concurrent runs burden a
  failing model by no more than their number beyond it; a run is refused only
  when every model of its chain has failed recently; the cache is bounded. A
  response's calls are dispatched as the model made them.
- `StreamLaw`: a stream yields its run's events in order and whole before the
  result; rows are whole; calls that do not overlap share one connection. On the
  screen no failure, diff or answer is overwritten, whatever streak or error comes
  between, and nothing stays live. That each success is shown or counted for its
  tool is false (section 5).
- `HostLaw`: only verified plugins are started, their tools need no more than
  what was granted. No command that must be confined runs unconfined, a child is
  gone when its caller is answered, exit codes are told, hooks run in order up to
  the first that blocks.

### Bounds, and why they are enough
- **agent_loop**: `MaxSteps` 4 with an extension of 2 and a window of 1, two
  verification retries, one reflection per cycle, batches failing in 0 to 2
  calls, token budget 6 with responses of 0 or 2. Every counter reaches its
  limit, the step limit and the token budget are each reached first in some
  run, a retry happens before and at the limit, and an extension can be
  attempted in a second cycle. None of these counters needs a bound of the
  model's own: the code's limits bound the run.
- **tool_dispatch**: up to three calls, two keys, each read-only or not, ids
  equal or distinct in every pattern. Three is where first fit can reorder: a
  call joins the batch of the first around the second.
- **session_log**: 7 stored events from an empty store, with measured tokens and
  without rewinds, or with rewinds; 8 events from a store whose response is
  missing and from three that were cut by a build without the boundary (before,
  in and after the results of a turn). Two call ids, which are symmetric, and
  `RecentKeep` 2 (4 in the code): a compaction takes something from three events
  on, and two compactions with a resume between them, or a turn of two results at
  the cut, fit. The boundary is a distance from the end; a smaller one cuts more
  of the logs that fit.
- **postgres_store**: queue and batch of 2; two clients with two appends each on
  an initialised store, or one with three and every fault: the queue fills, a
  batch fills, a batch is in hand while the queue is empty, and a close meets
  each of these.
- **daemon**: two calls at once, two requests, five lines, one session: enough
  for a start, a message, a line out of turn and both answers, in any order.
- **tool_servers**: two calls, two sessions (the second finds the cache, or
  retries what the first failed at), a bound of two processes of which one is used
  (a server that dies is not started again; the second is there for the mutant that
  starts it twice), one unasked
  message and one request of the server with an id that the client will use.
- **subagents**: trees of three loops, four tools with one capability each, four
  delegations (unrestricted, and three that overlap in capabilities, tools, deny
  patterns and spawning). Three loops are the shortest chain in which an authority
  could be regained. Two items and two stages, since every interference between items
  is one of two; a tracked file whose name git prints in quotes, a new one and one in
  a new directory, of which an agent changes any or renames the first, and room for
  two entries in the output: any two kinds are listed in full, and of three one is cut
  off. The entries of tracked files come first in the output, the order of the others
  is a choice. Ignored files are left to the proof of `IsolationKept`.
- **services**: *undo*: a file that exists and one that does not, four writes,
  three checkpoints or three units of size, so that eviction by count and by size
  both happen, and an undo between two overlapping writes. *Files*: two loops,
  one file of up to two lines of two kinds, two changes; edit lists that find one
  place, two or none. *Settings*: two names and eight files: without servers, with
  their block alone or before, behind and between other tables, which have keys
  like a server's or not, and with servers but without the line of the block. *Memory*: two processes,
  three topics with lines of 1 or 3 against a cap of 2, one overlap and one crash.
  *Filter*: four keys in four buckets of one, two of them with one fingerprint,
  two kicks, so insertions give up. *Tree*: four nodes, two tenants, four
  additions. *Models*: two runs, two models in two tiers, threshold 2, one retry,
  recovery of one tick, three failures: a circuit opens while a call is under
  way, recovers, and opens again. *Streams*: two calls in up to three pieces,
  mixed. *Facade*: two calls with two events in all, one close. *Terminal*: two
  calls of one tool or two, two responses. *Plugins*: two entries and five
  manifests, sound, unsigned, signed by another, not pinned, or requiring what
  they do not declare. *Processes*: up to two hooks.

The actors of each part of `services` (processes, runs, calls) are symmetric, and
so are the call ids of `session_log`; neither run checks liveness.

### Deadlock
`CHECK_DEADLOCK FALSE` is set where the system stops: a run, a dispatch, a script
or a daemon that has ended; a session, a tree or a workspace at its bound. In
`postgres_store` a client whose initialisation failed may wait for a flush that
nobody ends (section 5); that nobody waits for ever otherwise is what `Returns`
says. `tool_servers` leaves the check on: only a client that is shut may rest.

### Fairness
Liveness is claimed under what the event loop gives: a task that can go on is
resumed. In `AgentLoop` that is weak fairness of the run's own steps, not of
`Cancel`; in `ToolDispatch` of the dispatch and of each call, whose tools, hooks
and requests carry timeouts (a permission prompt in a terminal is the user's to
answer, and is assumed to be answered); in `PostgresStore` of every client that
waits and of every drain task, a driver call ending in success or failure. In
`Daemon` the client owes nothing: only the loop and the calls are fair, an agent
whose calls have all been answered ends (that is `Terminates` of `AgentLoop`),
and `Ends` follows from the closing of the stream alone. In `ToolServers` only
the client's users are fair, never the server: every read has a time limit, and a
server can put it off only as often as it sends something. In `subagents` each
item is fair (its run ends, git ends), and so are the delivery of a cancellation
and the script's own steps; nobody is made to cancel. `services` checks safety
only.

## 4. What the runs found

Four runs end in a violation, each of a statement the repository makes:

1. **`subagents_new_dir`**. `agent/loop.py:2057-2059` says that each changed path
   is copied back so that the child's edits land. `git status --porcelain` gives
   a new directory as one entry, `?? dir/`, which `copy2` refuses (2076): the
   file does not land, what is listed after it does not either, the worktree is
   removed with both, and the exception, not being a `NullainError`, leaves
   `spawn_many`, whose docstring (1935-1936) says otherwise.
2. **`models_opening`**. `agent/loop.py:1018-1019` describes streams in which
   "the id is present on the first chunk and empty on the rest", and
   `llm/openai_compat.py:3-5` says the adapter works against OpenAI. The adapter
   replaces an empty id by `call_<position>` (157), so the loop never sees one:
   the call is dispatched without its arguments, which gather under `call_0`.
   Providers that repeat the id, or send a call whole, are served correctly
   (`ModelLaw`).
3. **`file_pointer`**. `nullain-tools/.../filesystem.py:64-66` says of a repeated
   read that "the earlier call already put that exact content in the model's
   context". The tracker belongs to the toolset, which a loop shares with the
   children it spawns in place: a child is told "unchanged since your last
   read_file" of a page that only its parent has seen (371). What is said of the
   file itself is true (`UnchangedIsTrue`).
4. **`settings_edit`**. `cli.py:134` says "add, update, or remove an MCP server
   entry", and `docs/configuration.md:170-183` shows `[mcp.servers.<name>]`
   tables and says to manage them from the command line. The block is found only
   by a `[mcp.servers]` line (107), which such a file has not: every server is
   written twice, the file no longer loads, and a removed server stays. A parser
   that does not stop at other tables (62-79) also takes the keys of a following
   `[lsp.servers.x]` for the last server's, and does so in files with the line
   as well. What is edited correctly is a file with the line in which no later
   table has such keys (`SettingsLaw`).

## 5. Where else the code departs from what one would expect

These were met while modelling. The behaviour is in the models; no run states
the property, and where a line says how to see it, that is a change of a
configuration.

*Loop and dispatch.*
- `agent/loop.py:1344-1347` grants the extension to "a run that's still making real
  progress (a target-file write within the last progress_window steps)". The test
  (737-758, called at 1336) looks at the calls that the batch asked for: a write that
  failed, was denied or was vetoed counts. With `PROPERTY ExtensionIsProgress` in
  `MCAgentLoop.cfg` a run is extended that has written nothing; `ExtensionEarned` is
  what does hold.
- A `NullainError` outside the act phase (routing, `validate_spec`) leaves
  `run_result` raw, although `agent/loop.py:1501-1505` says failures become
  results: action `Escape`, reachable as `phase = "escaped"`.
- `_batch_by_conflict` (`agent/loop.py:611-613`) promises submission order
  between conflicting calls. For read, write, read of one file the third call
  fits into the first batch and runs before the write. The order of *writes* is
  kept (`WritesInOrder`, proved).
- An `OSError` of a hook other than a missing file (`hooks/manager.py:153`)
  raises out of `gather` while the other calls of the batch go on: `HookRaises`,
  then any call still `running` after `phase = "raised"`.
- A path spelled in two ways is two keys (`agent/loop.py:600`): with `FileOf <-
  MCTwoSpellings` in `MCToolDispatch.cfg`, `ConflictLaw` fails.

*Sessions and stores.*
- Call ids made from positions repeat in every response
  (`llm/openai_compat.py:157`): with `repeats |-> TRUE` in a setting of
  `MCSessionLog` that rewinds, `Paired` fails, since compaction, repair and
  rewinding look responses up by id.
- The repair restores a response without looking at its other results
  (`events/repair.py:134`), and rewinding within a session leaves the abandoned
  events in the store (`agent/loop.py:1802`): `CompactionLaw` is stated of
  sessions that this build began and no run rewinds (`Own`).
- `initialize()` of the Postgres store tests `_pool` before the await that makes
  it (`postgres_store.py:164-167`): two first calls start two drain tasks on one
  queue, although the docstring (44-53) rests on one writer "by construction".
  With `Settings <- MCFirstUse` in `MCPostgresStore.cfg`, `InOrder` fails.
- A failed batch write is logged and dropped (225-228), which `KeepsPort`
  excludes by `Sound`; a schema failure leaves a pool without a drain task (172),
  and later flushes wait for ever; a read on a closed store opens a pool that a
  second `close()` leaves open.

*Daemon and tool servers.*
- `docs/architecture.md:185-186` says that a call is blocked "until a matching
  response arrives". Neither callback compares the `request_id`
  (`main.py:323`): with `INVARIANT OnlyMatching` in `MCDaemon.cfg`, a call goes
  on with the answer to another's request. `GrantLaw` is what does hold.
- A language server's own request is taken for an answer when its id is the
  awaited one (`lsp/client.py:192-193, 209`): `INVARIANT AnswersOnly` in
  `MCToolServers.cfg` fails.
- Requests that wait concurrently read one pipe, and one may skip the other's
  answer, which then times out; `AnswerKept` is stated of sequential use
  (`serial`). After a read that was given up inside a language server's message
  no later request of that process succeeds (`cut`).
- Over HTTP the handshake counts before its notification is sent
  (`mcp/client.py:113`), and a body whose last data line is a notification loses
  its answer. Failures inside a language server's message are no `LSPError`, so
  the tools do raise (`lsp/tools.py:8-11`); the daemon's `finally` closes no
  language server.

*Sub-agents.*
- The copying back (section 4, 1.) fails in silence too: the paths are read from the
  output of git as it is printed. A name with a space or a letter outside ASCII is
  printed in quotes, no file is found by that name, and the entry is passed over
  (`agent/loop.py:2075`); ignored files are not listed, the old file of a rename is not
  removed (2069-2070), and what `tools/sandbox/runner.py:150-153` cuts off is not seen.
  The script gets the child's text all the same, and the worktree with the edits is
  removed: with `INVARIANT TextMeansLanded` in `MCSubagents.cfg` it is. `IsolationLaw`
  says what does arrive (`Carried`).
- A child that is spawned without a delegation has no authority of its own, so
  its children are not bound by its parent's; `NoNewCalls` is stated of
  delegations on delegations or on the root. `from_policy` never grants the
  network; `Capability.SPAWN` is never consulted, `can_spawn` is.
- A worktree is at HEAD, without what the workspace has uncommitted; what a child
  commits in it is lost; a cancellation while git
  adds or removes the worktree leaves it (`cut`), in spite of "guaranteed
  cleanup".

*Undo and file tools.*
- `filesystem.py:410-411` says one undo unit per tool call. The open operation is
  one field of the store: a write that begins while another awaits git joins its
  operation, and one undo takes back both.
- `undo` pops all checkpoints of an operation before it restores the first
  (`checkpoints.py:219`): when one fails the rest are gone.
- `checkpoints.py:250-251` says that eviction "drops whole operations, never a
  partial one". It takes the operation at the bottom of the stack (257), and that
  may be the one that is open: when writes that share an operation are beyond a
  limit before the last of them is pushed (a file of more than 50 MB, or more
  than 21 writes), the first checkpoints are dropped, the next are pushed under
  the same operation, and an undo takes back only those. With `MaxBytes = 1` in
  `MCServices.cfg`, `UndoLaw` fails. With the bounds of the run `OpenKept`, that
  this has not happened, holds of every state; as the hypothesis `[]OpenKept` it
  is what the theorems about whole operations assume.
- The page cache is keyed by time and size (`filesystem.py:100`): a write of the
  same size within the clock's granularity, or between the read and the `stat`
  of its key, leaves a stale page. `UnchangedIsTrue` is stated of `calm`.
- Searching with context cuts without saying so, although line 156 says that
  truncation is always announced; two loops that edit one file may overwrite each
  other over the await of the checkpoint.

*Models and streams.*
- A circuit that has cooled down is reset wholly, not half; a model that the
  caller names is not checked; an event that cannot be stored counts as a failure
  of the model, a cancellation as nothing; the default that stands in for a
  classifier that failed is cached.
- An empty fragment in the middle of a call's arguments, or one that is an
  object, replaces what was merged; calls without ids of a native endpoint in
  several chunks overwrite each other as `call_0`.

*Memories and retrieval.*
- A fact that is written again keeps its place in the index, so a write may evict
  the fact it has just written although `memory/persistent.py:12-15` means to
  keep the most recent; a description of two lines breaks its line of the index.
- An insertion that gives up has already displaced another key's fingerprint: that
  key is then reported as "definitely not indexed"
  (`rag/cuckoo_filter.py:13-14, 122-126`). `NoneLost` bounds the damage.
- Adding a tree node again under another parent keeps the old link, and a cycle
  makes the navigation loop for ever; `children_of` and `path_to_root` take no
  tenant, although the docstring (63-70) says so.

*Facade, plugins, processes, terminal, settings.*
- Every run connects the episodic memory again (`agent/facade.py:419-420`), and
  `close()` (520) releases the last connection only; streams of one Agent yield
  each other's events; the run behind an abandoned stream goes on; when a run
  raises, queued events are not yielded.
- Plugin names that differ by `-` and `_` share a namespace; an empty grant means
  every capability; a plugin that is refused at registration keeps its server; a
  server that lists a name twice stops its registration in the middle, and the
  session goes on with what was registered.
- A cancelled command or hook goes on running (`tools/sandbox/runner.py:139-145`,
  `hooks/manager.py:157-163`): `NoChildLeft` is stated of answered callers.
  `git_commit` ignores the exit code of its `git add`. Hooks run unconfined, and
  so does a command whose sandbox is missing but not required.
- `mcp add` and `mcp remove` lose `env` and arrays of several lines; two processes
  lose each other's edits.
- `tui.py:141-148` says that calls of the same tool share a line that becomes
  "name xN" when a different tool starts or an error breaks the streak. Every call of
  a response is drawn before the first result, so the results are counted (251) for the
  tool of the last call: after a read and an edit that changed nothing the read is
  drawn over, and the line says "edit x2". After a failure or a difference no tool has
  the streak (316), and what follows until the next call is counted without ever
  getting its line (301-303). With `INVARIANT StreaksTold` in `MCServices.cfg` the
  first is found. A failure is counted in a green "xN" line too, which
  `tui.py:270-272` excludes.

## 6. Proofs

Eight modules hold theorems; all are for every value of the constants allowed
by the named assumptions in the component's module.

**`AgentProofs`**, the loop (from `LoopAssumption`, `SignatureAssumption`).
`TypeCorrect`; `Invariance`, that `IInv` is inductive; from it
`StepsAreBounded`, `OutcomeIsTrue`, `LimitsHold`, `ExtensionIsEarned`, and
`Implementation`: every run is a behaviour of `RunContract`. The properties are
not inductive by themselves. `StepBound` needs to know that an act phase works
under the cap that the extension flag calls for, although the cap is recomputed
and the flag is not: `StepInv` says so, and says why, an extended run has
already taken `MaxSteps` steps and so is never retried. `NoThrash` needs that
the detector's counter is the number of executed repetitions (`RepeatInv`),
`OutcomeMatchesRun` that `verify_failed` is what verification last said
(`VerdictInv`) and that an answer excludes both ways of giving up
(`SettledInv`), `ExtensionEarned` that `steps_since_progress` is never less than
the steps since a batch last asked to write a file of the plan (`ProgressInv`).

**`AgentProofs`**, the tree of spawns (from the assumptions of `Authority` and `SpawnTree`; trees
of any size, and any tools, patterns, delegations and policies). `MeetNarrows`
and `MeetGreatest`: the meet of two authorities is their greatest lower bound.
From these and the type invariant (`TreeTyped`), `DelegationBounded`: a loop with
a delegated authority has no more than its parent, and its registry enforces what
it has; `DelegationNarrows`: no call becomes possible that the parent's inherited
registry refuses; `SpawningCapped`; and `DelegationKept`, all of `DelegationLaw`.
The invariant adds `RootOpen`, that the root's registry has no gate: only then is
a delegation by the root, as by a delegated loop, within what its registry lets
through (`ScopedNarrows`, with `PermitsMonotone`).

**`AgentProofs`**, the script (from `WorktreesAssumption`; any number of items, stages
and files). `WorktreesTyped`, `IsolationKept` (all of `IsolationLaw`) and
`FanOutKept` (all of `FanOutLaw`). None of the laws is inductive. `PlaceInv` ties
where an item stands to what is known of its agent: what is listed is being
removed or gone, and a cancelled outcome needs a cancelled script. `ArrivedInv`
says of `Landed` what holds already while the worktree is removed; that a sibling
may not spoil it by committing, which empties what it changed, takes `Isolation`:
a running sibling has no file in the workspace yet. `CleanInv` covers the
worktrees that git adds after the cancellation (`late`, within `cut`), and
`ResultInv` makes results and failures functions of the last outcome. The eight
ways in which an agent ends are one lemma each way to `TurnNow`, after which the
invariant is proved once (`EndsKeep`). `SubagentsTyped` puts both
side by side: the type invariant of the run, of every step of either part.

**`ToolDispatchProofs`** (from `RequestsAssumption`; calls of any number and
any keys). `TypeCorrect`, `Invariance`, `NoOverlap`, `WritesKeepOrder`,
`ConflictsKeptApart`, `ResultsAreTrue`. The heart is `NoGap`: first fit leaves no
gap in the batches of a key, so a write, which fits in no batch with its key, is
placed after every earlier call with its key (`WritesLater`); together with "only
the current batch is under way" (`BatchInv`) this orders the writes. `NoOverlap`
and `ConflictsKeptApart` have the hypothesis `OneSpelling`, that no two keys mean
one file, and `ResultsAreTrue` is about requests with distinct ids; section 5
says what happens otherwise.

**`PostgresStoreProofs`** (any tasks, any bound of the queue and of a batch, any
number of appends and of drain tasks). `StoreTyped` (the queue keeps its bound,
`task_done` is never called too often), `TableKept` and `PortKept`. The invariant
`StoreInv` has these parts. `CountInv`: what is queued and what the batches hold
is at most `unfinished`, so `join` never returns early. `UseInv`: a store that
was initialised first has one drain task until `close()` ends it, and then
nothing is under way (`Frozen`); one that is not is the affair of one task
(`Alone`). `OrderInv`: batch in hand and queue are the end of `accepted`, and the
rows are a subsequence of what comes before (`FlightInv`, `RowInv`); `WholeInv`,
that without faults they are all of it. `TableKept` has the hypothesis
`OneStarter`, that the store was initialised before it was used or has one
caller: a concurrent first use starts two drain tasks (section 5). `PortKept`
is the refinement of `EventStorePort`, step by step: `Write` is not seen by the
port, an append is the port's, and a read ends when its flush has put what was
accepted before it (`since`) into the table.

**`DaemonProofs`** (any sessions, requests and lines). `DaemonTyped`,
`GrantsKept` (all of `GrantLaw`) and `MessagesKept` (all of `MessageLaw`).
`WakeInv`: one reader waits at most, and only for an empty stream. `LineInv`:
no two unread lines are of the same message or of the same answer. `SpentInv`
counts: for each kind of call, those that went on and the answers not read yet
are together no more than the answers that the client gave, so one answer never
lets two calls go on, whoever reads it. `PlaceInv` and `FoundInv` say where a
message that was sent is: unread, served, answered, or taken by a call for its
answer; and `OrderlyInv` that with a client that writes one line for each request
and none else during a run, nothing but the awaited answer is in the stream.

**`SessionLogProofs`** (any call ids, any number of events, histories and
settings). A fold over a sequence of events is the last of a row of conversations,
each read from the one before (`Iteration`), so what a fold
computes follows by induction on the place in the log. `BoundaryIsCut`: the
boundary of a compaction has no result behind it whose response is in front of it,
and it is the furthest such place. `RepairIsComplete`: a repaired log has no
orphan, and a repair of it changes nothing. `SessionTyped` and `FoldsAgree` rest
on the invariant `Held`: the cache is the fold of some first events of the log
(`Right`), and the log's events are stored ones in order. `NothingIsLost` (all of
`CompactionLaw`) and `ToolMessagesPaired` need `Whole`: every result answers the
last response before it (`Turned`), what is folded away is what precedes one place
of the log that is a cut (`FoldedUpTo`), a summary says of each event that it
covers (`Covered`), and what was shown before each response can be had again from
the store (`Restorable`). Both theorems have the hypothesis `~setting.repeats`:
where an adapter makes ids from positions (`llm/openai_compat.py:157`) the
responses of two turns have the same, and the lookup by id finds the wrong one
(section 5). `ToolMessagesPaired` is about sessions that this build began and no
run rewinds (`Own`).

**`ToolServersProofs`** (from `ServersAssumption`; any calls, sessions, server
processes and unasked messages). `ServersTyped`, `AnswersKept` (all of
`AnswerLaw`) and `UsesKept` (all of `ServerLaw`). `IdInv`: an id is given once
and goes with its request, so an answer that is owed, under way or left in a pipe
is for the one user that can carry its id; that is all `OwnAnswer` needs, with
readers in any order. For `AnswerKept` and `InStep`, whose hypotheses are
sequential requests and no read given up inside a message, `PipeInv` says that
what a server has sent and nobody has read is a row of whole messages of which
the first may be begun, exactly as far as the reader is (`Framing`, `InPlace`),
and that the reader's answer is owed or stands in it (`Due`); a reader then
throws away only what is not its answer. `HandInv` ties `initialized` to the
script of the main loop: a living server of an initialised client has had the
`initialized` notification or has it next, and a failure between the two halves
is that of a dead server. `ProcInv` and `WorkInv` say that only the client's
process lives and that start-up, registrations and calls follow one another.

**`ServicesProofs`**, undo (any files, limits and sizes). `Closes`: an operation is
open only while a call is in it. The inductive invariant `Opened` adds that
exactly one call under way has opened the operation that is open, so the leaving
of any other keeps it open and the leaving of that one, by success, failure or
cancellation, closes it. `UndoInverse`: the checkpoints of a file lead back from
its content through each that it had (`Traced`: of two neighbouring checkpoints
of one file the later saved what the earlier's write left), and this survives
eviction, which takes from the bottom, and undo, which takes from the top. `UndoKept` (all of `UndoLaw`) and
`UndoTakesWhole` have the hypothesis `[]OpenKept`, that eviction has not reached
an operation while it was open (section 5): then operation ids ascend along the
stack (`Numbered`), so the ids of an operation are a segment, eviction ends
between two segments, and the number of evicted operations is the number of such
ends (`Counted`).

**`ServicesProofs`**, the services about a run (from the assumptions of each
module; any runs, models, calls, events, plugins, hooks). `MCServices` holds the
components side by side, and for each a lemma `...Part` says that the whole steps
as the component does, or stutters. The invariants:

- `HostKept`, all of `HostLaw`. `PluginInv`: a plugin that is prepared is of an
  entry that was considered and verified, and each tool of the registry is within
  its manifest and every grant. `ProcessInv`: as long as the caller waits, the
  hooks begun are those with an outcome and the one that is waited for
  (`HooksGo`), and each command begun was launched (`Launches1`).
- `RouterKept`: `ModelsInv`. `ClocksAgree` ties a circuit to the last failure of
  its model; `RunsGo` says which model a run holds where it stands; `Contained`
  counts failures and the runs still under way together, which makes it
  inductive: a run that fails leaves the second count for the first.
- `ModelKept`, all of `ModelLaw`: `StreamInv` ties the merged list to the pieces
  sent (`Lists`: one entry for each call that was begun, with what was sent of
  it). Its hypothesis `style # "opening"` leaves out the style of the violation
  `models_opening`, for which it is false.
- `StreamKept`, all of `StreamLaw`. `FacadeInv`: what a stream has yielded of its
  run and what its queue holds follow one another, and are all of it while the
  consumer is subscribed (`Streaming`); the rows are what the run has emitted, but
  for the event that is being appended (`Stored1`); without overlap a call
  connects only where there is no connection (`Connecting`). `TerminalInv`: a text
  is live between calls only (`TextsLive`).
- `RecallKept` and `FilesKept` lift the next module's lemmas to the whole.

**`StoresProofs`** (any slugs, keys, nodes, lines and sizes). A kit of lemmas comes
first: the least of a set (`MinOf`), folds by `Iteration`, and recursive functions
by `Descends`, which proves that a function on the numbers equals its body, as the
library's theorem cannot be instantiated. Then:

- `MemoryAnswers`. `MemoryInv` is `MemoryTyped`, `Company` (an operation that
  works alone has no other beside it, and one that does not puts every slug in
  doubt), `Agreed` (between operations the index lists what the files hold, but
  for slugs in doubt; in the middle of one, `Midway`, what it has in hand makes up
  for what it has not written yet) and `Knows`, what an operation has in hand at
  each of its steps, whoever else is at work.
- `FilesAnswer`. `FilesInv`: in a calm world what is cached under the key that a
  page has now is the page (`PagesTrue`), and an edit that is pending is the
  outcome of its replacements on what it has read (`Sound`). That pages cover a
  file and a search tells what it leaves out is proved by induction on the lines.
- `FilterAnswers`. The number of buckets is a power of two, so the exclusive or
  followed by the remainder is its own inverse (`Returning`), by induction on the
  bits. `FilterInv` counts for each class of keys that the filter cannot tell apart
  the copies that are missing (`Lacking`), the insertion under way and the
  fingerprint in hand included: a displacement moves one copy, so the sum of what
  is lost (`LostOf`) is at most the misuses.
- `TreeAnswers`. `TreeInv`: unless the tree is unruly each list holds its own
  nodes (`InOwnLists`), and there is a depth for each node, one more than its
  parent's (`Depths`). `Meets` says by induction on the levels what a navigation
  finds from each frontier.

## 7. Assumptions of the models

- Events are appended one by one and a store keeps their order; the SQLite store
  (`events/store.py`) is taken to be what `EventStorePort` says, and
  `AgentFacade` models its connection and its order.
- Call ids are given once, unless a setting repeats them.
- Verification, permission, hooks, tools and providers are their outcomes.
- Time is a choice: a timeout may come at any await, a batch may be written
  before it is full. Only the circuit breaker has a clock.
- In the checked instance one operation of the checkpoint store fits its limits;
  in the theorems this is the hypothesis `[]OpenKept` (section 5).
- The estimated size of a context is a choice; the measured one is compared with
  the threshold.
- Hashes, fingerprints, signatures and scores are constants.
- `close()` of an Agent is one step. Operations on one file by one process are in
  the order in which they are made.

## 8. What is only model-checked

Liveness (`Terminates` of two modules, `Returns` of two, `Ends`,
`ScriptReturns`) is out of the prover's reach. `Paired` of sessions that rewind
or begin with a history, the type invariant of the twelve services (`Typed`) and
the editing of `nullain.toml` in `EditLaw` (`SettingsLaw`) are checked on the
instances of section 3 only.
`TableLaw` without `OneStarter`, `UndoLaw` without `OpenKept`, `Paired`
with repeated ids and `ConflictLaw` without `OneSpelling` are false in general
(section 5).

## 9. What is not modelled

- **Quota, telemetry, settings**: counters that are printed, and parsing.
- **Vector store and embeddings**: each operation is one call of a service,
  ranked by floating-point scores.
- **Windows launcher**: a sequence of system calls of one operating system; that
  a command is launched through it or refused is in `Processes`.
- **Web and search tools, `ask_user`**: requests behind one call each; the await
  of `ask_user` is in `Daemon`.
- **Command line, evaluations, scripts**: arguments, prompts, output; tools of
  development. What the command line edits is in `ServerSettings`.
- Of modelled components: the text of a summary, the token estimator, the
  patterns of the tool policy, the search of tools, ripgrep and listing, the
  bytes of signatures, the system calls of sandboxes, the formatting of language
  servers' results, images and usage of the adapters. A crash of the process loses
  what the Postgres queue holds, as its documentation says.

## 10. What is left

Every hazard listed in `PROJECT.json` has a property. What would add most next:

1. A theorem about `ServerSettings`, for files whose server tables stand
   together; the mapping from operation to undo unit as an abstract specification
   that `Checkpoints` implements.
2. A composition of `Worktrees` with `ToolDispatch`: several agents' batches on
   one workspace, whose conflicts no batching sees.
3. Two Agents over one store, and a daemon with several sessions.
4. The policy's patterns and the registry's hydration of deferred tools.
