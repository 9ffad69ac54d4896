---- MODULE MCDagExecutor ----
(* Small graphs for DagExecutor: every acyclic graph over four nodes whose first node is a    *)
(* decision with one or two branches, nested decisions, and every three-node graph, cyclic or *)
(* not, with two priority assignments.                                                        *)
EXTENDS DagExecutor

Forward == {e \in Node \X Node : e[1] < e[2]}

Flat(S) == [n \in S |-> 0]
Reversed(S) == [n \in S |-> 3 - n]

Graph(N, E, P, D, B) == [nodes |-> N, edges |-> E, prio |-> P, decisions |-> D, branches |-> B]

On(d, l, T) == [decision |-> d, label |-> l, targets |-> T]

ThreeNodes == {1, 2, 3}

\* Every directed graph over three nodes, self-loops excluded.
PlainGraphs ==
    {Graph(ThreeNodes, E, P, {}, {}) :
        E \in SUBSET {e \in ThreeNodes \X ThreeNodes : e[1] # e[2]},
        P \in {Flat(ThreeNodes), Reversed(ThreeNodes)}}

BranchSets ==
    { {On(1, "true", {2})},
      {On(1, "true", {2}), On(1, "false", {3})},
      {On(1, "true", {2}), On(2, "false", {4})} }

\* Acyclic graphs with decisions, each branch drawn after its decision.
BranchGraphs ==
    {g \in {Graph(Node, E, Flat(Node), {1, 2}, B) : E \in SUBSET Forward, B \in BranchSets} :
        BranchesFollowDecisions(g)}

MCGraphs == PlainGraphs \union BranchGraphs
====
