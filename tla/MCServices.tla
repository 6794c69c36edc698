----------------------------- MODULE MCServices -----------------------------
(* Small instances of the components around the loop; a run is one of them,   *)
(* and the variables of the others keep one initial value.                    *)
EXTENDS Checkpoints, FileTools, ServerSettings, PersistentMemory, CuckooFilter,
        RagTree, ModelCalls, StreamedCalls, AgentFacade, Terminal, Plugins,
        Processes, TLC

CONSTANTS Parts, one, two, three, old, new, ka, kb, kc, kd, plain, hard

\* The actors of every part, which are alike, and memory's three topics.
MCPair == {one, two}
MCThree == {one, two, three}
Symmetry == Permutations(MCPair)

\* Checkpoints: a file that exists, with a content larger than those written,
\* and one that does not; two writes of a batch fit the limits.
MCFiles == {old, new}
MCExisting == {old}
MCSize == [c \in Contents |-> CASE c = Absent -> 0 [] c = 0 -> 2 [] OTHER -> 1]

\* FileTools: a text in which a replacement has one place or two.
MCDrafts == {<<"x", "x">>, <<"x", "y">>}
MCRequests == {[offset |-> 0, limit |-> 1]}
Replacing(before, after, all) == [old |-> before, new |-> after, all |-> all]
MCEditLists ==
  {<<Replacing("x", "y", FALSE)>>, <<Replacing("x", "y", TRUE)>>,
   <<Replacing("x", "y", TRUE), Replacing("y", "x", FALSE)>>}

\* ServerSettings: files with and without the block, alone, before and after other
\* tables, of which two have keys like a server's; and three of which the servers
\* are written as docs/configuration.md shows, or are followed by such a table.
Agent == [head |-> "other", name |-> "agent", keys |-> "enabled" :> FALSE]
Router == [head |-> "other", name |-> "router", keys |-> "fallback_chain" :> "deep"]
Language == [head |-> "other", name |-> "lsp.servers.python",
             keys |-> "command" :> "pyright" @@ "enabled" :> FALSE]
Fs == ServerTable("fs", "command" :> "npx" @@ "args" :> "-y" @@ "auto_approve" :> TRUE)
Git == ServerTable("git", "command" :> "uvx" @@ "enabled" :> FALSE)
MCTomls ==
  {<<>>, <<Agent>>, <<Agent, Bare, Fs, Git>>, <<Agent, Bare, Fs, Router>>, <<Router>>,
   <<Bare, Fs, Language>>, <<Bare, Agent>>, <<Agent, Fs, Git>>}
MCDocumented == {<<Agent, Fs, Git>>, <<Fs, Language>>, <<Bare, Fs, Language>>}

\* CuckooFilter: two keys with one fingerprint, and homes that meet.
MCKeys == {ka, kb, kc, kd}
MCFingerprint == ka :> 1 @@ kb :> 1 @@ kc :> 2 @@ kd :> 3
MCHash == ka :> 0 @@ kb :> 4 @@ kc :> 1 @@ kd :> 5
MCHashOf == 1 :> 5 @@ 2 :> 1 @@ 3 :> 6

\* RagTree: every node has a score of its own.
MCScore == ka :> 1 @@ kb :> 2 @@ kc :> 3 @@ kd :> 4

\* ModelCalls: one model in each of two tiers; a keyword decides one prompt.
MCTiers == [balanced |-> <<"small">>, deep |-> <<"large">>]
MCChain == <<"deep", "balanced">>
MCConfident == hard :> "deep"

\* Plugins: manifests that are sound, unsigned, signed by an unknown key, not
\* pinned, or require what they do not declare; two of them share a name.
MCEntries == <<"first", "second">>
Tool(requires, level) == [requires |-> requires, level |-> level]
Bundle(pinned, signature, caps, space, tools) ==
  [schema |-> TRUE, pinned |-> pinned, signature |-> signature, caps |-> caps,
   space |-> space, tools |-> tools]
MCManifests ==
  {Bundle(TRUE, "good", {"read", "write"}, "a",
          "look" :> Tool({"read"}, "allow") @@ "edit" :> Tool({"write"}, "unset")),
   Bundle(TRUE, "none", {"read"}, "a", "look" :> Tool({}, "unset")),
   Bundle(TRUE, "other", {"write"}, "b", "edit" :> Tool({"write"}, "deny")),
   Bundle(FALSE, "good", {"read"}, "b", "look" :> Tool({"read"}, "unset")),
   Bundle(TRUE, "good", {"read"}, "b", "edit" :> Tool({"write"}, "unset"))}
MCGrants == {{}, {"read"}}
-----------------------------------------------------------------------------
VARIABLE part

AnyOf(S) == CHOOSE x \in S : TRUE

FilesRest == world = AnyOf(Worlds) /\ text = AnyOf([Paths -> Drafts])
SettingsRest == wrote = AnyOf(Tomls)
TerminalRest == streams = FALSE /\ toolOf = [c \in Made |-> "read"]
PluginsRest ==
  plugins = [signed |-> TRUE, verifier |-> TRUE, approve |-> FALSE, allowed |-> {},
             entry |-> [p \in PluginIds |-> {}],
             manifest |-> [p \in PluginIds |-> AnyOf(Manifests)]]
ProcessesRest ==
  /\ sandbox = [enabled |-> TRUE, required |-> TRUE, works |-> TRUE,
                platform |-> AnyOf(Platforms), hooks |-> 0]
  /\ use = "bash"

MCInit ==
  /\ part \in Parts
  /\ (IF part = "files" THEN TRUE ELSE FilesRest) /\ FilesInit
  /\ (IF part = "settings" THEN TRUE ELSE SettingsRest) /\ SettingsInit
  /\ (IF part = "models" THEN TRUE ELSE giving = FALSE) /\ ModelsInit
  /\ (IF part = "streams" THEN TRUE ELSE style = AnyOf(Styles)) /\ StreamInit
  /\ (IF part = "terminal" THEN TRUE ELSE TerminalRest) /\ TerminalInit
  /\ (IF part = "plugins" THEN TRUE ELSE PluginsRest) /\ PluginsInit
  /\ (IF part = "processes" THEN TRUE ELSE ProcessesRest) /\ ProcessesInit
  /\ Init /\ MemoryInit /\ FilterInit /\ RagTreeInit /\ FacadeInit

fileVars == <<vars, fvars, nvars, pvars>>
modelVars == <<cvars, rvars, mvars, svars>>
hostVars == <<avars, tvars, gvars, xvars>>
mcVars == <<part, fileVars, modelVars, hostVars>>

FileSteps ==
  \/ part = "undo" /\ Next /\ UNCHANGED <<fvars, nvars, pvars>>
  \/ part = "files" /\ FilesNext /\ UNCHANGED <<vars, nvars, pvars>>
  \/ part = "settings" /\ SettingsNext /\ UNCHANGED <<vars, fvars, pvars>>
  \/ part = "memory" /\ MemoryNext /\ UNCHANGED <<vars, fvars, nvars>>

ModelSteps ==
  \/ part = "filter" /\ FilterNext /\ UNCHANGED <<rvars, mvars, svars>>
  \/ part = "tree" /\ RagTreeNext /\ UNCHANGED <<cvars, mvars, svars>>
  \/ part = "models" /\ ModelsNext /\ UNCHANGED <<cvars, rvars, svars>>
  \/ part = "streams" /\ StreamNext /\ UNCHANGED <<cvars, rvars, mvars>>

HostSteps ==
  \/ part = "facade" /\ FacadeNext /\ UNCHANGED <<tvars, gvars, xvars>>
  \/ part = "terminal" /\ TerminalNext /\ UNCHANGED <<avars, gvars, xvars>>
  \/ part = "plugins" /\ PluginsNext /\ UNCHANGED <<avars, tvars, xvars>>
  \/ part = "processes" /\ ProcessesNext /\ UNCHANGED <<avars, tvars, gvars>>

MCNext ==
  \/ FileSteps /\ UNCHANGED <<part, modelVars, hostVars>>
  \/ ModelSteps /\ UNCHANGED <<part, fileVars, hostVars>>
  \/ HostSteps /\ UNCHANGED <<part, fileVars, modelVars>>

MCSpec == MCInit /\ [][MCNext]_mcVars
-----------------------------------------------------------------------------
In(p, law) == part = p => law

\* The variables of every component keep their types.
Typed ==
  /\ In("undo", TypeOK) /\ In("files", FilesTypeOK) /\ In("settings", SettingsTypeOK)
  /\ In("memory", MemoryTypeOK) /\ In("filter", FilterTypeOK) /\ In("tree", RagTreeTypeOK)
  /\ In("models", ModelsTypeOK) /\ In("streams", StreamTypeOK) /\ In("facade", FacadeTypeOK)
  /\ In("terminal", TerminalTypeOK) /\ In("plugins", PluginsTypeOK)
  /\ In("processes", ProcessesTypeOK)

\* What tools show and edit is what was read, and the rest is kept: pages, edits
\* and searches of files (nullain_tools/filesystem.py), and the tables of
\* nullain.toml, of which the servers of one block become what was asked (cli.py).
EditLaw == In("files", FilesLaw) /\ In("settings", SettingsLaw)

\* What is remembered can be found: the index of memory lists what can be read,
\* within its cap, after crashes and overlaps (memory/persistent.py); a key that is
\* in the filter is never reported as absent, but for insertions that gave up and
\* removals of what was not in (rag/cuckoo_filter.py); and nodes of the tree are
\* linked once, and a navigation finds its tenant's leaves (rag/rag_tree.py).
RecallLaw == In("memory", MemoryLaw) /\ In("filter", FilterLaw) /\ In("tree", RagTreeLaw)

\* Concurrent runs get working models (router/) and dispatch the calls that the
\* model made, however its response is cut (llm/, agent/loop.py).
ModelLaw == In("models", RouterLaw) /\ In("streams", WholeCalls)

\* A consumer gets the events of its run, once and in order, over one connection
\* of the stores (agent/facade.py, events/), and a terminal keeps what matters of
\* them (tui.py).
StreamLaw == In("facade", FacadeLaw) /\ In("terminal", TerminalLaw)

\* What runs on the host was granted: plugin tools (plugins/loader.py), and the
\* processes of commands and hooks (tools/sandbox/runner.py, hooks/manager.py).
HostLaw == In("plugins", PluginLaw) /\ In("processes", ProcessLaw)
=============================================================================
