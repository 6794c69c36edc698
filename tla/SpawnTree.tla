----------------------------- MODULE SpawnTree ------------------------------
(***************************************************************************)
(* The authorities of a tree of agent loops: AgentLoop.spawn and           *)
(* _child_registry.  A loop spawns children with a delegated authority or  *)
(* without, on its own registry or on one that the caller built afresh (a  *)
(* registry for the spawn, or the tool factory's for a worktree).  How the *)
(* children run is the subject of Worktrees.                               *)
(***************************************************************************)
EXTENDS Authority, Sequences

CONSTANTS
  Delegations,  \* the authorities that callers delegate
  RootPolicies, \* the policies of the root's registry and of fresh ones
  MaxLoops      \* bound: loops in the tree

ASSUME TreeAssumption ==
  /\ Delegations \subseteq Authorities
  /\ RootPolicies \subseteq Policy
  /\ MaxLoops \in Nat \ {0}

VARIABLE
  loops  \* the loops in the order of their creation; the first is the root

\* A loop: who spawned it, whether with a delegation, its authority attribute
\* (self.authority, None when not set) and its registry.
Loop == [parent : 0..MaxLoops, delegated : BOOLEAN, fresh : BOOLEAN,
         authority : [set : BOOLEAN, authority : Authorities],
         registry : Registries]

FreshRegistry(p) == [tools |-> ToolNames, policy |-> p, gate |-> NoGate]

TreeInit ==
  \E p \in RootPolicies :
    loops = <<[parent |-> 0, delegated |-> FALSE, fresh |-> TRUE,
               authority |-> NoGate, registry |-> FreshRegistry(p)]>>

\* self.authority or Authority.unrestricted()
Held(l) == IF loops[l].authority.set THEN loops[l].authority.authority
                                     ELSE Unrestricted

\* Mutant of Delegated: the delegation is taken as it is.
DelegatedFreely(l, a) == a

\* Delegation is clamped to what the parent holds.
Delegated(l, a) == Meet(a, Held(l))

PolicyFactor(p) == IF p.set THEN FromPolicy(p) ELSE Unrestricted

\* The meet of parent, delegation, tools and policy.
Effective(l, base, a) ==
  Meet(Meet(Delegated(l, a), Surface(base.tools)), PolicyFactor(base.policy))

\* Mutant of MaySpawn: any delegation will do.
MaySpawnAlways(l, a) == a \in Delegations

\* A loop whose authority does not let it spawn delegates to no one.
MaySpawn(l, a) == loops[l].authority.set => loops[l].authority.authority.canSpawn

\* Mutant of ChildPolicy: the levels are tightened, the patterns forgotten.
ChildPolicyBare(base, e) == [Projected(base.policy, e) EXCEPT !.denies = {}]

ChildPolicy(base, e) == Projected(base.policy, e)

\* The registries a child may be given: the parent's, or a fresh one.
Bases(l) == {loops[l].registry} \cup {FreshRegistry(p) : p \in RootPolicies}

\* A child with a delegated authority.
SpawnDelegated(l) ==
  /\ Len(loops) < MaxLoops
  /\ \E a \in Delegations, base \in Bases(l) :
       /\ MaySpawn(l, a)
       /\ LET e == Effective(l, base, a) IN
          loops' = Append(loops,
            [parent |-> l, delegated |-> TRUE, fresh |-> base # loops[l].registry,
             authority |-> Gate(e),
             registry |-> Scoped(base, e, ChildPolicy(base, e))])

\* Mutant of OwnAuthority: the parent's authority is passed on.
OwnAuthorityInherited(l) == loops[l].authority

OwnAuthority(l) == NoGate

\* A child without: it has no authority of its own, and the registry as it is.
SpawnUnrestricted(l) ==
  /\ Len(loops) < MaxLoops
  /\ \E base \in Bases(l) :
       loops' = Append(loops,
         [parent |-> l, delegated |-> FALSE, fresh |-> base # loops[l].registry,
          authority |-> OwnAuthority(l), registry |-> base])

TreeNext == \E l \in DOMAIN loops : SpawnDelegated(l) \/ SpawnUnrestricted(l)

TreeSpec == TreeInit /\ [][TreeNext]_loops

-----------------------------------------------------------------------------
(* Properties *)

Root(l) == loops[l].parent = 0
Parent(l) == loops[l].parent

\* Every loop is a loop, its parent came before it, and it has an authority
\* exactly when one was delegated to it.
TreeTypeOK ==
  /\ Len(loops) <= MaxLoops
  /\ \A l \in DOMAIN loops :
       /\ loops[l] \in Loop /\ loops[l].parent < l
       /\ loops[l].authority.set = loops[l].delegated

\* However deep the tree, a child that was delegated an authority holds at most
\* what its parent holds and what its registry enforces is what it holds.
Bounded ==
  \A l \in DOMAIN loops :
    loops[l].delegated =>
      /\ Within(loops[l].authority.authority, Held(Parent(l)))
      /\ loops[l].registry.gate = loops[l].authority

\* Down a chain of delegations on inherited registries no call becomes possible
\* that the parent's registry refuses: neither the patterns of the policy nor
\* the tools get lost when authority and policy are projected on each other.
NoNewCalls ==
  \A l \in DOMAIN loops :
    (loops[l].delegated /\ ~loops[l].fresh
       /\ (Root(Parent(l)) \/ loops[Parent(l)].delegated)) =>
      Callable(loops[l].registry) \subseteq Callable(loops[Parent(l)].registry)

\* A loop that may not spawn has no child with a delegated authority.
SpawnCapped ==
  \A l \in DOMAIN loops :
    (loops[l].delegated /\ loops[Parent(l)].authority.set)
      => loops[Parent(l)].authority.authority.canSpawn

\* No delegation, at any depth, gives more than its giver has.
DelegationLaw == Bounded /\ NoNewCalls /\ SpawnCapped
============================================================================
