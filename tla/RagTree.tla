------------------------------ MODULE RagTree -------------------------------
(* The tree of clusters of an index that several tenants share: how nodes   *)
(* are linked, the path from a node to its root, and the navigation.        *)
EXTENDS Integers, Sequences, FiniteSets, SequencesExt, Functions

CONSTANTS
  Nodes,
  Tenants,
  Score,   \* the similarity of each node's centroid to a query
  Widths,  \* top_k
  MaxAdds  \* bound: calls of add_node

\* The parent of a root.
NoParent == "none"

ASSUME TreeAssumption ==
  /\ IsFiniteSet(Nodes) /\ NoParent \notin Nodes
  /\ Widths \subseteq Nat \ {0} /\ MaxAdds \in Nat
  /\ \A n \in Nodes : Score[n] \in Int
  /\ \A m, n \in Nodes : Score[m] = Score[n] => m = n

VARIABLES
  nodes,    \* the nodes by their ids: their tenants and parents
  children, \* the ids of each node's children
  roots,    \* the ids of each tenant's roots
  adds,     \* how many nodes were added
  unruly    \* history: whether one was added again elsewhere, before its parent
            \* or under a node of another tenant

rvars == <<nodes, children, roots, adds, unruly>>

RagTreeInit ==
  /\ nodes = <<>>
  /\ children = [n \in Nodes |-> <<>>]
  /\ roots = [t \in Tenants |-> <<>>]
  /\ adds = 0 /\ unruly = FALSE

\* Mutant of With: a node that is added again is listed again.
WithAgain(list, n) == Append(list, n)

With(list, n) == IF Contains(list, n) THEN list ELSE Append(list, n)

\* add_node: it does not look at the linkage of a node that is there.
AddNode(n, tenant, parent) ==
  /\ adds < MaxAdds /\ parent # n
  /\ adds' = adds + 1
  /\ nodes' = [m \in DOMAIN nodes \cup {n} |->
                 IF m = n THEN [tenant |-> tenant, parent |-> parent] ELSE nodes[m]]
  /\ IF parent = NoParent
       THEN roots' = [roots EXCEPT ![tenant] = With(@, n)] /\ UNCHANGED children
       ELSE children' = [children EXCEPT ![parent] = With(@, n)] /\ UNCHANGED roots
  /\ unruly' = \/ unruly
               \/ n \in DOMAIN nodes /\ nodes[n] # [tenant |-> tenant, parent |-> parent]
               \/ parent # NoParent /\ parent \notin DOMAIN nodes
               \/ parent \in DOMAIN nodes /\ nodes[parent].tenant # tenant

RagTreeNext ==
  \E n \in Nodes, t \in Tenants, p \in Nodes \cup {NoParent} : AddNode(n, t, p)

-----------------------------------------------------------------------------
(* Reading *)

Present(list) == ToSet(list) \cap DOMAIN nodes
ChildrenOf(n) == Present(children[n])
RootsFor(t) == Present(roots[t])

\* The way up from each node, of at most k nodes, read from its end.
Upward[k \in Nat] ==
  [m \in Nodes \cup {NoParent} |->
     IF m \notin DOMAIN nodes \/ k = 0 THEN <<>>
     ELSE Append(Upward[k - 1][nodes[m].parent], m)]

\* path_to_root, root first; of no use on a cycle, where it does not end.
PathToRoot(n) == Upward[Cardinality(Nodes)][n]

\* The nodes of a set, the most similar first.
Better(set, n) == {m \in set : Score[m] > Score[n]}
Ranked(set) ==
  [i \in 1..Cardinality(set) |-> CHOOSE n \in set : Cardinality(Better(set, n)) = i - 1]
Best(set, width) == {Ranked(set)[i] : i \in 1..Cardinality(set) \cap 1..width}

\* Mutant of Below: only the best node is descended into.
BelowBest(kept) == ChildrenOf(Ranked(kept)[1])

\* The next frontier.
Below(kept) == UNION {ChildrenOf(n) : n \in kept}

IsLeaf(n) == ChildrenOf(n) = {}

\* The leaves met on at most k levels from a frontier.
Downward(width) ==
  LET Met[k \in Nat] ==
        [frontier \in SUBSET Nodes |->
           IF frontier = {} \/ k = 0 THEN {}
           ELSE LET kept == Best(frontier, width)
                IN  {n \in kept : IsLeaf(n)} \cup Met[k - 1][Below(kept)]]
  IN  Met

\* navigate: the leaves met on the way down, the most similar first.
Navigate(t, width) == Ranked(Downward(width)[Cardinality(Nodes)][RootsFor(t)])

-----------------------------------------------------------------------------
(* Properties *)

RagTreeTypeOK ==
  /\ DOMAIN nodes \subseteq Nodes
  /\ \A n \in DOMAIN nodes :
       nodes[n].tenant \in Tenants /\ nodes[n].parent \in Nodes \cup {NoParent}
  /\ children \in [Nodes -> Seq(Nodes)] /\ roots \in [Tenants -> Seq(Nodes)]
  /\ adds \in 0..MaxAdds /\ unruly \in BOOLEAN

\* However often a node is added, each list has it once, and the list of its
\* parent, or of its tenant's roots, has it.
LinkedOnce ==
  /\ \A n \in Nodes : IsInjective(children[n])
  /\ \A t \in Tenants : IsInjective(roots[t])
  /\ \A n \in DOMAIN nodes :
       Contains(IF nodes[n].parent = NoParent THEN roots[nodes[n].tenant]
                ELSE children[nodes[n].parent], n)

\* Where nodes were added in order and stayed where they are, paths begin at a
\* root and stay with the tenant; navigation returns leaves of the tenant, one at
\* least if it has a node, no more than the width on each level, and all leaves if
\* the width does not limit it.
NavigationSound ==
  ~unruly =>
    /\ \A n \in DOMAIN nodes :
         /\ PathToRoot(n)[1] \in RootsFor(nodes[n].tenant)
         /\ \A m \in ToSet(PathToRoot(n)) : nodes[m].tenant = nodes[n].tenant
    /\ \A t \in Tenants, width \in Widths :
         LET found == Navigate(t, width)
             owned == {n \in DOMAIN nodes : nodes[n].tenant = t}
         IN  /\ \A n \in ToSet(found) : n \in owned /\ IsLeaf(n)
             /\ owned # {} => found # <<>>
             /\ \A d \in 1..Cardinality(Nodes) :
                  Cardinality({n \in ToSet(found) : Len(PathToRoot(n)) = d}) <= width
             /\ width >= Cardinality(Nodes) => ToSet(found) = {n \in owned : IsLeaf(n)}

RagTreeLaw == LinkedOnce /\ NavigationSound
=============================================================================
