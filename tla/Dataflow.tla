---- MODULE Dataflow ----
(* What running an action graph promises, with none of the executor's bookkeeping: no batches, *)
(* no pending list, no completed set, no restart. Which node may start is read off the results *)
(* alone: every predecessor has a result or lies in a branch the results did not select.       *)
EXTENDS ActionGraph

CONSTANT Graphs    \* the graphs a run may be given

VARIABLES
    graph,      \* the graph being run
    results,    \* node -> Output, or None while it has none
    running     \* nodes started and without a result yet

flowVars == <<graph, results, running>>

Unselected(n) == InUnselectedBranch(graph, n, SelectedBy(graph, results))

\* Nothing that is still to come can change n's inputs.
Resolved(n) == results[n] # None \/ Unselected(n)

MayStart(n) ==
    /\ n \in graph.nodes \ running
    /\ results[n] = None
    /\ ~Unselected(n)
    /\ \A p \in Predecessors(graph, n) : Resolved(p)

FlowInit ==
    /\ graph \in Graphs
    /\ results = [n \in Node |-> None]
    /\ running = {}

Start(n) ==
    /\ MayStart(n)
    /\ running' = running \union {n}
    /\ UNCHANGED <<graph, results>>

\* Some running nodes deliver their results together.
Settle ==
    /\ running' \subseteq running /\ running' # running
    /\ results' \in [Node -> Output \union {None}]
    /\ \A n \in running \ running' : results'[n] # None
    /\ \A n \in Node \ (running \ running') : results'[n] = results[n]
    /\ UNCHANGED graph

FlowNext == Settle \/ \E n \in Node : Start(n)

FlowSpec == FlowInit /\ [][FlowNext]_flowVars
====
