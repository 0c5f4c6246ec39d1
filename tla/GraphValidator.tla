---------------------------- MODULE GraphValidator ----------------------------
(***************************************************************************)
(* GraphConfigValidator (control_plane/graph.py) on the graphs an editor   *)
(* can draw between a fixed set of nodes.  The validator enumerates the    *)
(* paths without repeated nodes from START to pr_creator; the reference is *)
(* reachability, which speaks of every execution, cycles included.         *)
(*                                                                         *)
(* Handlers, kinds and escalation reasons are compile-time lookups and are *)
(* left out; every node stands for a required one or a tenant's own.       *)
(***************************************************************************)
EXTENDS Naturals, Sequences, FiniteSets

CONSTANTS
  GraphNodes,       \* nodes of the configuration, pr_creator among them
  RequiredNodes,    \* REQUIRED_PR_PATH_NODES that occur among them
  ApprovalNodes, WriterNodes

PrCreator == "pr_creator"
Gate == "readiness_gate"
StartNode == "START"

ASSUME GraphAssumption ==
  {PrCreator, Gate} \subseteq RequiredNodes /\ RequiredNodes \subseteq GraphNodes
  /\ (ApprovalNodes \cup WriterNodes) \subseteq GraphNodes /\ IsFiniteSet(GraphNodes)

VARIABLE edges      \* graph_edges

EditableEdges == {e \in ({StartNode} \cup (GraphNodes \ {PrCreator})) \X GraphNodes : e[1] # e[2]}

GraphInit == edges = {}

\* The editor adds an edge to the draft.
AddEdge(e) == e \notin edges /\ edges' = edges \cup {e}

GraphNext == \E e \in EditableEdges : AddEdge(e)

GraphSpec == GraphInit /\ [][GraphNext]_edges

-----------------------------------------------------------------------------
(* The validator *)

\* Sequences of different nodes that end in pr_creator
Candidates ==
  {p \in UNION {[1 .. n -> GraphNodes] : n \in 1 .. Cardinality(GraphNodes)} :
     p[Len(p)] = PrCreator /\ \A i, j \in 1 .. Len(p) : p[i] = p[j] => i = j}

IsPath(p) ==
  <<StartNode, p[1]>> \in edges /\ \A i \in 1 .. Len(p) - 1 : <<p[i], p[i + 1]>> \in edges

\* _paths_to_target
PathsToTarget == {p \in Candidates : IsPath(p)}

Index(p, v) == CHOOSE i \in 1 .. Len(p) : p[i] = v
OnPath(p) == {p[i] : i \in 1 .. Len(p)}

\* Mutant: the required nodes may lie on different paths.
SomewhereOnPaths(paths) == RequiredNodes \subseteq UNION {OnPath(p) : p \in paths}

HasRequired(paths) == \A p \in paths : RequiredNodes \subseteq OnPath(p)

\* No invariant error and no protected path violation
Accepted(paths) ==
  /\ paths # {} /\ HasRequired(paths)
  /\ \A p \in paths :
       /\ OnPath(p) \cap ApprovalNodes = {}
       /\ \A w \in OnPath(p) \cap WriterNodes :
            Gate \in OnPath(p) /\ Index(p, w) >= Index(p, Gate)

-----------------------------------------------------------------------------
(* Reference: nodes an execution reaches without passing through v *)

Avoiding(v) ==
  LET reach[n \in Nat] ==
        IF n = 0 THEN {StartNode}
        ELSE LET before == reach[n - 1]
             IN  before \cup {e[2] : e \in {f \in edges : f[1] \in before /\ f[2] # v}}
  IN  reach[Cardinality(GraphNodes)]

\* In an accepted graph no execution, however often it retries and loops, gets to
\* pr_creator without the readiness gate and the other required nodes, and a
\* graph is refused for a missing node only when some execution misses it.
RequiredNodesDominate ==
  LET paths == PathsToTarget
      missed == {v \in RequiredNodes \ {PrCreator} : PrCreator \in Avoiding(v)}
  IN  edges # {} =>
        /\ Accepted(paths) => missed = {}
        /\ paths # {} /\ ~ HasRequired(paths) => missed # {}
=============================================================================
