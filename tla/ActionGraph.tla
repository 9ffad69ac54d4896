---- MODULE ActionGraph ----
(* The action graph of neuronium_agent/planning/dag.py and the questions the executor and the *)
(* recovery code ask of it. Node ids are naturals: their order stands for the string order of *)
(* ids, the second component of the (priority, node_id) tie-breaker.                          *)
EXTENDS Naturals, FiniteSets, Sequences

CONSTANTS
    Node,    \* the node ids that can occur
    Label,   \* the branch labels that can occur
    None     \* Python's None

ASSUME NodeAssumption == Node \subseteq Nat /\ IsFiniteSet(Node)
\* ConditionalBranch: the targets run only if the decision selects this label.
Branch == [decision : Node, label : Label, targets : SUBSET Node]

\* ActionGraph: typed nodes (only "decision" matters to the control flow), edges, branches.
IsGraph(g) ==
    /\ g.nodes \subseteq Node
    /\ g.edges \subseteq g.nodes \X g.nodes
    /\ g.prio \in [g.nodes -> Nat]
    /\ g.decisions \subseteq g.nodes
    /\ \A cb \in g.branches : cb \in Branch

\* NodeOutput, as far as control flow reads it: the status and a decision's branch value.
Output == [status : {"COMPLETED", "FAILED"}, branch : Label \union {None}]

ASSUME NoneAssumption == None \notin Label \union Output

Predecessors(g, n) == {m \in g.nodes : <<m, n>> \in g.edges}
Successors(g, n) == {m \in g.nodes : <<n, m>> \in g.edges}

\* sort key (priority, node_id)
Before(g, m, n) == g.prio[m] < g.prio[n] \/ (g.prio[m] = g.prio[n] /\ m < n)

First(g, S) == CHOOSE n \in S : \A m \in S \ {n} : Before(g, n, m)

Elements(seq) == {seq[i] : i \in DOMAIN seq}

\* Mutant: a node enters the queue when its first predecessor is output.
KahnQueueTooEarly(g, order) ==
    {n \in g.nodes \ Elements(order) :
        Predecessors(g, n) = {} \/ Predecessors(g, n) \intersect Elements(order) # {}}

\* Mutant: another value of the output is recorded as the branch.
SelectedIsStatus(g, results) ==
    [n \in Node |-> IF n \in g.decisions /\ results[n] # None THEN results[n].status ELSE None]

\* The queue of Kahn's algorithm when `order` has been output: in-degree zero, not yet output.
KahnQueue(g, order) ==
    {n \in g.nodes \ Elements(order) : Predecessors(g, n) \subseteq Elements(order)}

\* topological_order() before its length check; shorter than the graph iff there is a cycle.
KahnOrder(g) ==
    LET upTo[k \in 0 .. Cardinality(g.nodes)] ==
          IF k = 0 THEN <<>>
          ELSE LET order == upTo[k - 1]
                   queue == KahnQueue(g, order)
               IN  IF queue = {} THEN order ELSE Append(order, First(g, queue))
    IN  upTo[Cardinality(g.nodes)]

\* topological_order() raises ValueError("ActionGraph contains a cycle") when this is false.
Orderable(g) == Len(KahnOrder(g)) = Cardinality(g.nodes)

\* The nodes reachable from S, S included (_transitive_dependents).
Dependents(g, S) ==
    LET within[k \in 0 .. Cardinality(g.nodes)] ==
          IF k = 0 THEN S
          ELSE within[k - 1] \union UNION {Successors(g, n) : n \in within[k - 1]}
    IN  within[Cardinality(g.nodes)]

\* selected_branches as a function of the node results: a COMPLETED decision with a branch value.
SelectedBy(g, results) ==
    [n \in Node |->
        IF n \in g.decisions /\ results[n] # None /\ results[n].status = "COMPLETED"
        THEN results[n].branch ELSE None]

\* _is_in_unselected_branch
InUnselectedBranch(g, n, selected) ==
    \E cb \in g.branches :
        /\ n \in cb.targets
        /\ selected[cb.decision] # None
        /\ selected[cb.decision] # cb.label
====
