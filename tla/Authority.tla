----------------------------- MODULE Authority ------------------------------
(***************************************************************************)
(* What a sub-agent may do (authority.py) and how a tool registry decides a *)
(* call (tools/registry.py, tools/permissions.py).                          *)
(*                                                                         *)
(* An authority is a set of capabilities, a set of tools, a set of deny     *)
(* patterns and the permission to spawn.  The universe of tools, None in    *)
(* the code, is AnyTool.  A pattern stands for the calls it matches: a call *)
(* is a tool and the set of patterns that its arguments match.              *)
(***************************************************************************)
EXTENDS Integers

CONSTANTS
  ToolNames,  \* tools
  Patterns,   \* deny patterns
  Requires,   \* [ToolNames -> capabilities]: what a tool needs
  Fixed,      \* [ToolNames -> level or "none"]: permission_level of the tool
  Gated       \* [ToolNames -> "exec", "write", "read" or "other"]

Capabilities == {"read", "write", "exec", "network", "spawn"}
Levels == {"allow", "ask", "deny"}
AnyTool == [any |-> TRUE, names |-> {}]
TheseTools(names) == [any |-> FALSE, names |-> names]

ToolSets == [any : BOOLEAN, names : SUBSET ToolNames]
Authorities ==
  [capabilities : SUBSET Capabilities, tools : ToolSets,
   denies : SUBSET Patterns, canSpawn : BOOLEAN]

\* A permission policy, and none.
Policy == [set : BOOLEAN, read : Levels, write : Levels, exec : Levels,
           denies : SUBSET Patterns]
NoPolicy == [set |-> FALSE, read |-> "allow", write |-> "ask", exec |-> "ask",
             denies |-> {}]

ASSUME AuthorityAssumption ==
  /\ Requires \in [ToolNames -> SUBSET Capabilities]
  /\ Fixed \in [ToolNames -> Levels \cup {"none"}]
  /\ Gated \in [ToolNames -> {"exec", "write", "read", "other"}]

-----------------------------------------------------------------------------
(* The lattice *)

Unrestricted ==
  [capabilities |-> Capabilities, tools |-> AnyTool, denies |-> {},
   canSpawn |-> TRUE]

\* AnyTool is the identity.
MeetTools(a, b) ==
  IF a.any THEN b ELSE IF b.any THEN a ELSE TheseTools(a.names \cap b.names)

Meet(a, b) ==
  [capabilities |-> a.capabilities \cap b.capabilities,
   tools        |-> MeetTools(a.tools, b.tools),
   denies       |-> a.denies \cup b.denies,
   canSpawn     |-> a.canSpawn /\ b.canSpawn]

\* a is nowhere wider than b.
ToolsWithin(a, b) == b.any \/ (~a.any /\ a.names \subseteq b.names)
Within(a, b) ==
  /\ a.capabilities \subseteq b.capabilities
  /\ ToolsWithin(a.tools, b.tools)
  /\ b.denies \subseteq a.denies
  /\ a.canSpawn => b.canSpawn

\* permits: the tool is one of the allowed, its capabilities are held.
Permits(a, t) ==
  /\ a.tools.any \/ t \in a.tools.names
  /\ Requires[t] \subseteq a.capabilities

\* from_policy: neither network nor spawn is ever granted.
FromPolicy(p) ==
  [capabilities |-> {"read"} \cup {c \in {"write"} : p.write # "deny"}
                             \cup {c \in {"exec"} : p.exec # "deny"},
   tools        |-> AnyTool,
   denies       |-> p.denies,
   canSpawn     |-> TRUE]

\* capability_surface: what the tools of a registry need, and their names.
Surface(tools) ==
  [capabilities |-> UNION {Requires[t] : t \in tools},
   tools        |-> TheseTools(tools),
   denies       |-> {},
   canSpawn     |-> TRUE]

\* _project_authority_policy: the policy of a child with this authority.
Projected(p, effective) ==
  [set    |-> TRUE,
   read   |-> p.read,
   write  |-> IF "write" \in effective.capabilities THEN p.write ELSE "deny",
   exec   |-> IF "exec" \in effective.capabilities THEN p.exec ELSE "deny",
   denies |-> effective.denies]

-----------------------------------------------------------------------------
(* A registry: its tools, policy and authority; unlimited without one *)

NoGate == [set |-> FALSE, authority |-> Unrestricted]
Gate(a) == [set |-> TRUE, authority |-> a]
Registries ==
  [tools : SUBSET ToolNames, policy : Policy,
   gate : [set : BOOLEAN, authority : Authorities]]

\* evaluate_command, evaluate_file_access: a deny pattern, or the default.
Evaluate(p, level, matched) ==
  IF p.denies \cap matched # {} THEN "deny" ELSE level

\* _evaluate_permission: only commands and file accesses have a rule.
PolicyLevel(p, t, matched) ==
  IF ~p.set \/ Gated[t] = "other" THEN "allow"
  ELSE Evaluate(p, CASE Gated[t] = "exec" -> p.exec
                     [] Gated[t] = "write" -> p.write
                     [] Gated[t] = "read" -> p.read, matched)

\* execute: the authority, then the level of the tool or of the policy.
Decision(r, t, matched) ==
  IF t \notin r.tools \/ (r.gate.set /\ ~Permits(r.gate.authority, t)) THEN "deny"
  ELSE IF Fixed[t] # "none" THEN Fixed[t]
  ELSE PolicyLevel(r.policy, t, matched)

\* The calls that a registry does not refuse out of hand.
Callable(r) ==
  {c \in [tool : ToolNames, matched : SUBSET Patterns] :
     Decision(r, c.tool, c.matched) # "deny"}

\* scoped: the same tools under an authority and a policy.
Scoped(r, a, p) == [tools |-> r.tools, policy |-> p, gate |-> Gate(a)]
============================================================================
