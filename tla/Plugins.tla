------------------------------ MODULE Plugins ------------------------------
(* The plugins of a daemon: their manifests are checked and their servers     *)
(* started once (plugins/loader.py, agentd's main.py), and what a server then *)
(* reports is registered in the registry of every session (mcp/client.py).    *)
EXTENDS Naturals, Sequences, Functions, SequencesExt

CONSTANTS
  Entries,      \* the plugins of the settings, in their order
  PluginTools,  \* the names a server may report
  Powers,       \* the capabilities
  Manifests,    \* the manifests an entry may name
  Grants        \* what [plugins] or an entry may allow; {} when it says nothing

\* A manifest has the fields schema (a supported version), pinned (the digest
\* of the SBOM is the one it states), signature ("none", "good", "other"), caps,
\* space (its name inside tool names) and tools, from names to requires, level.
\* An entry is a name for its place in the settings.
ASSUME PluginsAssumption ==
  /\ Entries \in Seq(Range(Entries)) /\ IsInjective(Entries)
  /\ {"write"} \subseteq Powers /\ Grants \subseteq SUBSET Powers
  /\ \A m \in Manifests : m.caps \subseteq Powers

VARIABLES
  plugins,     \* the settings and the manifests they name
  considered,  \* the entries of the settings that were loaded or skipped
  servers,     \* by entry, its server: "none", "open" or "closed"
  prepared,    \* the prepared plugins, in order
  registry,    \* by namespace and name, the plugin tools of the session
  registered,  \* the prepared plugins registered in the session
  phase        \* "loading", "serving", "session" or "stopped"

gvars == <<plugins, considered, servers, prepared, registry, registered, phase>>

PluginIds == Range(Entries)
Manifest(p) == plugins.manifest[p]

Empty == [k \in {} |-> {}]

PluginsStart ==
  /\ considered = 0 /\ servers = [p \in PluginIds |-> "none"]
  /\ prepared = <<>> /\ registry = Empty /\ registered = 0 /\ phase = "loading"

PluginsInit ==
  /\ plugins \in [signed : BOOLEAN, verifier : BOOLEAN, approve : BOOLEAN,
                  allowed : Grants, entry : [PluginIds -> Grants],
                  manifest : [PluginIds -> Manifests]]
  /\ PluginsStart
-----------------------------------------------------------------------------
(* Loading                                                                   *)

\* An empty list narrows nothing.
CapSet(names) == IF names = {} THEN Powers ELSE names

\* Mutant of Granted: the list of the entry replaces the one of the operator.
GrantedByEntry(p) == CapSet(plugins.entry[p])

Granted(p) == CapSet(plugins.allowed) \cap CapSet(plugins.entry[p])

Effective(p) == Manifest(p).caps \cap Granted(p)

Valid(m) ==
  /\ m.schema /\ m.pinned
  /\ \A t \in DOMAIN m.tools : m.tools[t].requires \subseteq m.caps

\* Mutant of Verified: a signature nobody can verify is passed over.
VerifiedIfPossible(m) ==
  IF m.signature = "none" THEN ~plugins.signed
  ELSE plugins.verifier => m.signature = "good"

Verified(m) ==
  IF m.signature = "none" THEN ~plugins.signed
  ELSE plugins.verifier /\ m.signature = "good"

Considers(p) ==
  /\ phase = "loading" /\ considered < Len(Entries) /\ p = Entries[considered + 1]
  /\ considered' = considered + 1
  /\ UNCHANGED <<plugins, registry, registered, phase>>

\* The entry is disabled, its manifest cannot be read or a check refuses it.
SkipPlugin(p) == Considers(p) /\ UNCHANGED <<servers, prepared>>

PreparePlugin(p) ==
  /\ Considers(p) /\ Valid(Manifest(p)) /\ Verified(Manifest(p))
  /\ \/ /\ servers' = [servers EXCEPT ![p] = "open"]
        /\ prepared' = Append(prepared, p)
     \/ /\ servers' = [servers EXCEPT ![p] = "closed"]  \* initialize fails
        /\ UNCHANGED prepared

Serve ==
  /\ phase = "loading" /\ considered = Len(Entries) /\ phase' = "serving"
  /\ UNCHANGED <<plugins, considered, servers, prepared, registry, registered>>
-----------------------------------------------------------------------------
(* Sessions                                                                  *)

OpenSession ==
  /\ phase = "serving" /\ phase' = "session"
  /\ registry' = Empty /\ registered' = 0
  /\ UNCHANGED <<plugins, considered, servers, prepared>>

\* Mutant of Requires: a tool the manifest does not declare needs nothing.
RequiresNothing(p, t) ==
  IF t \in DOMAIN Manifest(p).tools THEN Manifest(p).tools[t].requires ELSE {}

Requires(p, t) ==
  IF t \in DOMAIN Manifest(p).tools THEN Manifest(p).tools[t].requires ELSE {"write"}

Level(p, t) ==
  IF t \in DOMAIN Manifest(p).tools /\ Manifest(p).tools[t].level # "unset"
    THEN Manifest(p).tools[t].level
    ELSE IF plugins.approve THEN "allow" ELSE "ask"

\* Mutant of Usable: a tool beyond the grant stays.
UsableAll(p, reported) == reported

Usable(p, reported) == {t \in reported : Requires(p, t) \subseteq Effective(p)}

Wrapper(p, t) == [plugin |-> p, requires |-> Requires(p, t), level |-> Level(p, t)]

\* Every reported tool takes its name in the registry, whoever had it, and the
\* ones that may not be used are then dropped by name.
Registered(p, reported) ==
  LET Spaced(T) == {Manifest(p).space} \X T
      kept == Spaced(Usable(p, reported))
  IN  [k \in (DOMAIN registry \ Spaced(reported)) \cup kept |->
         IF k \in kept THEN Wrapper(p, k[2]) ELSE registry[k]]

RegisterPlugin ==
  /\ phase = "session" /\ registered < Len(prepared)
  /\ registered' = registered + 1
  /\ \/ UNCHANGED registry  \* the server does not answer
     \/ \E reported \in SUBSET PluginTools :
          registry' = Registered(prepared[registered + 1], reported)
  /\ UNCHANGED <<plugins, considered, servers, prepared, phase>>

CloseSession ==
  /\ phase = "session" /\ registered = Len(prepared) /\ phase' = "serving"
  /\ UNCHANGED <<plugins, considered, servers, prepared, registry, registered>>

StopDaemon ==
  /\ phase = "serving" /\ phase' = "stopped"
  /\ servers' = [p \in PluginIds |->
                   IF p \in Range(prepared) THEN "closed" ELSE servers[p]]
  /\ UNCHANGED <<plugins, considered, prepared, registry, registered>>

PluginsNext ==
  \/ \E p \in PluginIds : SkipPlugin(p) \/ PreparePlugin(p)
  \/ Serve \/ OpenSession \/ RegisterPlugin \/ CloseSession \/ StopDaemon
-----------------------------------------------------------------------------
PluginsTypeOK ==
  /\ considered \in 0..Len(Entries) /\ registered \in 0..Len(prepared)
  /\ servers \in [PluginIds -> {"none", "open", "closed"}]
  /\ prepared \in Seq(PluginIds)
  /\ \A k \in DOMAIN registry : registry[k].level \in {"ask", "allow", "deny"}
  /\ phase \in {"loading", "serving", "session", "stopped"}

\* A plugin whose manifest was altered, is unsigned where signatures are
\* required, or is signed by a key nobody checked, is never prepared; and only
\* prepared plugins keep a server.
OnlyTrusted ==
  /\ \A p \in Range(prepared) :
       /\ Manifest(p).schema /\ Manifest(p).pinned
       /\ Manifest(p).signature = "good" \/ (Manifest(p).signature = "none" /\ ~plugins.signed)
       /\ Manifest(p).signature = "good" => plugins.verifier
  /\ \A p \in PluginIds : servers[p] = "open" <=> p \in Range(prepared) /\ phase # "stopped"

\* Whatever the servers report, and in whatever order they take each other's
\* names, a tool of a session has the requirements and the level its manifest
\* gives it, and needs nothing that the manifest does not declare, the operator
\* does not allow or the entry does not allow.
WithinGrants ==
  \A k \in DOMAIN registry :
    LET e == registry[k]
        Lists(list) == list = {} \/ e.requires \subseteq list
    IN  /\ e.plugin \in Range(prepared) /\ k[1] = Manifest(e.plugin).space
        /\ e.requires \subseteq Manifest(e.plugin).caps
        /\ Lists(plugins.allowed) /\ Lists(plugins.entry[e.plugin])
        /\ e.requires = {} => k[2] \in DOMAIN Manifest(e.plugin).tools
        /\ e.level = "allow" => plugins.approve \/ k[2] \in DOMAIN Manifest(e.plugin).tools

\* Only trusted plugins run, and their tools stay within every grant
\* (plugins/loader.py).
PluginLaw == OnlyTrusted /\ WithinGrants
=============================================================================
