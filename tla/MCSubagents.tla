---------------------------- MODULE MCSubagents -----------------------------
(* Small instances of SpawnTree and of Worktrees; a run is one of them.      *)
EXTENDS SpawnTree, Worktrees, TLC

CONSTANTS read_file, write_file, bash, web_fetch, rm

MCToolNames == {read_file, write_file, bash, web_fetch}
MCRequires == read_file :> {"read"} @@ write_file :> {"write"}
                @@ bash :> {"exec"} @@ web_fetch :> {"network"}
MCFixed == [t \in MCToolNames |-> "none"]
MCGated == read_file :> "read" @@ write_file :> "write" @@ bash :> "exec"
             @@ web_fetch :> "other"

MCDelegations ==
  {Unrestricted,
   [capabilities |-> {"read", "network"}, tools |-> AnyTool, denies |-> {},
    canSpawn |-> TRUE],
   [capabilities |-> Capabilities, tools |-> TheseTools({read_file, bash}),
    denies |-> {rm}, canSpawn |-> FALSE],
   [capabilities |-> {"read", "write"}, tools |-> TheseTools({write_file}),
    denies |-> {}, canSpawn |-> TRUE]}
MCRootPolicies ==
  {[set |-> TRUE, read |-> "allow", write |-> "ask", exec |-> "ask", denies |-> {rm}],
   NoPolicy}

VARIABLE part  \* "tree" or "runs"

Vars == <<part, loops, wvars>>

MCInit ==
  /\ part \in {"tree", "runs"}
  /\ IF part = "tree"
       THEN TreeInit /\ WorktreesInit /\ script = "many" /\ isolated = {}
       ELSE WorktreesInit /\ loops = <<>>

TreeStep == part = "tree" /\ TreeNext /\ UNCHANGED <<part, wvars>>
RunStep == part = "runs" /\ WorktreesNext /\ UNCHANGED <<part, loops>>
Item(i) == part = "runs" /\ Goes(i) /\ UNCHANGED <<part, loops>>
CancelStep(i) == part = "runs" /\ CancelItem(i) /\ UNCHANGED <<part, loops>>
ScriptStep == part = "runs" /\ (FanOutReturns \/ Cancelled) /\ UNCHANGED <<part, loops>>

MCNext == TreeStep \/ RunStep

MCSpec ==
  /\ MCInit /\ [][MCNext]_Vars
  /\ \A i \in Items : WF_Vars(Item(i)) /\ WF_Vars(CancelStep(i))
  /\ WF_Vars(ScriptStep)

\* Whichever it is, its variables keep their types.
Typed == TreeTypeOK /\ WorktreesTypeOK

\* Every item ends or is cancelled, so the script is answered.
ScriptReturns == part = "runs" ~> main \in {"raised", "returned", "cancelled"}
=============================================================================
