---- MODULE DagExecutor ----
(* DAGExecutor.execute of neuronium_agent/execution/executor.py: batches of ready nodes run in *)
(* a thread pool, an interrupt is polled at each batch boundary, and a later call of execute   *)
(* resumes from the results the interrupted call returned.                                     *)
EXTENDS ActionGraph

CONSTANTS
    Graphs,        \* the graphs a run may be given
    MaxParallel,   \* runtime.max_parallel_nodes
    MaxInterrupts  \* bound of the model: how many pauses a run sees

ASSUME GraphsAssumption == \A g \in Graphs : IsGraph(g)
ASSUME MaxParallelAssumption == MaxParallel \in Nat \ {0}
ASSUME MaxInterruptsAssumption == MaxInterrupts \in Nat

VARIABLES
    graph,       \* the ActionGraph
    oracle,      \* what each node will answer when it runs (chosen in advance, read once)
    pc,          \* where execute() is
    pending,     \* execute's `pending`, as a set: every use of its order is followed by a sort
    completed,   \* execute's `completed`: nodes with a result, and skipped nodes
    selected,    \* execute's `selected_branches`; None where the dict has no key
    batch,       \* the nodes handed to _execute_batch and not committed yet
    thread,      \* the pool thread of each node of the batch
    results,     \* self.results; None where the dict has no key
    interrupt,   \* whether interrupt_check() would return a request
    interrupts,  \* requests made so far
    runs         \* history: how many times each node's execute() was called

vars == <<graph, oracle, pc, pending, completed, selected, batch, thread, results,
          interrupt, interrupts, runs>>

\* the local variables of one call of execute()
bookkeeping == <<pending, completed, selected>>

Control == {"plan", "select", "batch", "poll", "done", "interrupted", "deadlock", "cyclic"}
\* execute() has returned, or raised; after "interrupted" a user may call it again.
Returned == {"done", "deadlock", "cyclic", "interrupted"}
ThreadState == {"idle", "queued", "running", "finished"}

HasResult == {n \in graph.nodes : results[n] # None}
\* topological_order() does not raise
AcyclicGraphs == {g \in Graphs : Orderable(g)}

NoneYet == [n \in Node |-> None]

\* A node answers with a branch only as a COMPLETED decision.
Answers(g) ==
    {o \in [Node -> Output] :
        \A n \in Node : o[n].branch # None => n \in g.decisions /\ o[n].status = "COMPLETED"}

Init ==
    /\ graph \in Graphs
    /\ oracle \in Answers(graph)
    /\ pc = "plan"
    /\ pending = {} /\ completed = {} /\ selected = NoneYet
    /\ batch = {} /\ thread = [n \in Node |-> "idle"]
    /\ results = NoneYet
    /\ interrupt = FALSE /\ interrupts = 0
    /\ runs = [n \in Node |-> 0]

----
\* Mutants of the definitions that follow: the bugs the properties must be able to see.

PlanForgetsResults ==
    /\ pc = "plan" /\ graph \in AcyclicGraphs
    /\ pending' = graph.nodes
    /\ completed' = HasResult
    /\ selected' = SelectedBy(graph, results)
    /\ pc' = "select"
    /\ UNCHANGED <<graph, oracle, batch, thread, results, interrupt, interrupts, runs>>

PlanForgetsBranches ==
    /\ pc = "plan" /\ graph \in AcyclicGraphs
    /\ pending' = graph.nodes \ HasResult
    /\ completed' = HasResult
    /\ selected' = NoneYet
    /\ pc' = "select"
    /\ UNCHANGED <<graph, oracle, batch, thread, results, interrupt, interrupts, runs>>

PredecessorsCompletedAny(n) ==
    Predecessors(graph, n) = {} \/ Predecessors(graph, n) \intersect completed # {}

SkippedEveryTarget(ready) ==
    {n \in pending : \E cb \in graph.branches : n \in cb.targets} \ ready

PollNeverResumes ==
    /\ pc = "poll" /\ ~interrupt
    /\ pc' = IF pending = {} THEN "select" ELSE "poll"
    /\ UNCHANGED <<graph, oracle, bookkeeping, batch, thread, results, interrupt, interrupts, runs>>
----

\* Lines 122-148: order the graph (a cycle raises), then derive the locals from initial_results.
Cyclic ==
    /\ pc = "plan" /\ graph \notin AcyclicGraphs
    /\ pc' = "cyclic"
    /\ UNCHANGED <<graph, oracle, bookkeeping, batch, thread, results, interrupt, interrupts, runs>>

Plan ==
    /\ pc = "plan" /\ graph \in AcyclicGraphs
    /\ pending' = graph.nodes \ HasResult
    /\ completed' = HasResult
    /\ selected' = SelectedBy(graph, results)
    /\ pc' = "select"
    /\ UNCHANGED <<graph, oracle, batch, thread, results, interrupt, interrupts, runs>>

PredecessorsCompleted(n) == Predecessors(graph, n) \subseteq completed

Ready ==
    {n \in pending : PredecessorsCompleted(n) /\ ~InUnselectedBranch(graph, n, selected)}

\* Dropped from pending and counted as completed, never added to the results.
Skipped(ready) == {n \in pending : PredecessorsCompleted(n)} \ ready

\* ready.sort(key=(priority, id))[:max_parallel]
FirstInOrder(ready) ==
    {n \in ready : Cardinality({m \in ready : Before(graph, m, n)}) < MaxParallel}

SelectBatch ==
    /\ pc = "select" /\ Ready # {}
    /\ pending' = pending \ Skipped(Ready)
    /\ completed' = completed \union Skipped(Ready)
    /\ batch' = FirstInOrder(Ready)
    /\ thread' = [n \in Node |-> IF n \in batch' THEN "queued" ELSE "idle"]
    /\ pc' = "batch"
    /\ UNCHANGED <<graph, oracle, selected, results, interrupt, interrupts, runs>>

\* No ready node: the loop ends if the skipped nodes were the last ones, and raises
\* RuntimeError("Deadlock: no ready nodes but pending remains") if they were not.
NothingReady ==
    /\ pc = "select" /\ Ready = {}
    /\ pending' = pending \ Skipped(Ready)
    /\ completed' = completed \union Skipped(Ready)
    /\ pc' = IF pending' = {} THEN "done" ELSE "deadlock"
    /\ UNCHANGED <<graph, oracle, selected, batch, thread, results, interrupt, interrupts, runs>>

\* A pool thread calls node_impl.execute; its retries are module NodeAttempts.
StartNode(n) ==
    /\ pc = "batch" /\ n \in batch /\ thread[n] = "queued"
    /\ thread' = [thread EXCEPT ![n] = "running"]
    /\ runs' = [runs EXCEPT ![n] = @ + 1]
    /\ UNCHANGED <<graph, oracle, pc, bookkeeping, batch, results, interrupt, interrupts>>

FinishNode(n) ==
    /\ pc = "batch" /\ n \in batch /\ thread[n] = "running"
    /\ thread' = [thread EXCEPT ![n] = "finished"]
    /\ UNCHANGED <<graph, oracle, pc, bookkeeping, batch, results, interrupt, interrupts, runs>>

\* All futures are done: store the outputs, FAILED ones too, and note the branches selected.
CommitBatch ==
    /\ pc = "batch" /\ \A n \in batch : thread[n] = "finished"
    /\ results' = [n \in Node |-> IF n \in batch THEN oracle[n] ELSE results[n]]
    /\ completed' = completed \union batch
    /\ pending' = pending \ batch
    /\ selected' = [n \in Node |->
           IF n \in batch THEN SelectedBy(graph, results')[n] ELSE selected[n]]
    /\ batch' = {}
    /\ thread' = [n \in Node |-> "idle"]
    /\ pc' = "poll"
    /\ UNCHANGED <<graph, oracle, interrupt, interrupts, runs>>

\* interrupt_check() after each batch, the last one included.
PollProceeds ==
    /\ pc = "poll" /\ ~interrupt
    /\ pc' = "select"
    /\ UNCHANGED <<graph, oracle, bookkeeping, batch, thread, results, interrupt, interrupts, runs>>

PollInterrupts ==
    /\ pc = "poll" /\ interrupt
    /\ pc' = "interrupted"
    /\ UNCHANGED <<graph, oracle, bookkeeping, batch, thread, results, interrupt, interrupts, runs>>

\* Another thread asks for a pause while execute() is running.
RequestInterrupt ==
    /\ pc \in {"select", "batch", "poll"} /\ ~interrupt /\ interrupts < MaxInterrupts
    /\ interrupt' = TRUE /\ interrupts' = interrupts + 1
    /\ UNCHANGED <<graph, oracle, pc, bookkeeping, batch, thread, results, runs>>

\* A user resumes: a new DAGExecutor is given the results of the interrupted one as
\* initial_results. Nobody is obliged to.
Resume ==
    /\ pc = "interrupted"
    /\ pc' = "plan" /\ interrupt' = FALSE
    /\ pending' = {} /\ completed' = {} /\ selected' = NoneYet
    /\ UNCHANGED <<graph, oracle, batch, thread, results, interrupts, runs>>

Execute ==
    \/ Cyclic \/ Plan \/ SelectBatch \/ NothingReady
    \/ CommitBatch \/ PollProceeds \/ PollInterrupts

NodeThread(n) == StartNode(n) \/ FinishNode(n)

Next == Execute \/ Resume \/ RequestInterrupt \/ \E n \in Node : NodeThread(n)

Spec == Init /\ [][Next]_vars

\* The thread inside execute() keeps running, and the pool starts what it was handed. Nobody is
\* obliged to pause or to resume, and a node's program may run for ever: the docker path of a
\* code node passes no timeout (code_node.py, lines 217-236).
FairSpec == Spec /\ WF_vars(Execute) /\ \A n \in Node : WF_vars(StartNode(n))

----
\* The type of every variable.
TypeOK ==
    /\ graph \in Graphs
    /\ oracle \in [Node -> Output]
    /\ pc \in Control
    /\ pending \subseteq graph.nodes
    /\ completed \subseteq graph.nodes
    /\ selected \in [Node -> Label \union {None}]
    /\ batch \subseteq graph.nodes
    /\ thread \in [Node -> ThreadState]
    /\ results \in [Node -> Output \union {None}]
    /\ interrupt \in BOOLEAN
    /\ interrupts \in 0 .. MaxInterrupts
    /\ runs \in [Node -> Nat]

\* What a node's branch decisions say of it, from the results alone.
Unselected(n) == InUnselectedBranch(graph, n, SelectedBy(graph, results))

\* Within a call, the locals agree with the results: a node is pending or completed, and
\* completed only with a result or in an unselected branch.
LocalsAgree ==
    pc \in {"select", "batch", "poll"} =>
        /\ pending = graph.nodes \ completed
        /\ selected = SelectedBy(graph, results)
        /\ HasResult \subseteq completed
        /\ \A n \in completed : results[n] # None \/ Unselected(n)

\* The batch holds pending nodes that were ready when it was drawn and still are.
BatchSound ==
    /\ pc # "batch" => batch = {}
    /\ \A n \in batch :
         /\ n \in pending /\ results[n] = None /\ ~Unselected(n)
         /\ Predecessors(graph, n) \subseteq completed
         /\ thread[n] # "idle"
    /\ \A n \in Node \ batch : thread[n] = "idle"

\* A node was executed once if it has a result or a thread at work on it, and else not at all.
RunsCounted ==
    \A n \in Node :
        runs[n] = IF results[n] # None \/ thread[n] \in {"running", "finished"} THEN 1 ELSE 0

\* Between two calls of execute() only the results survive; within one they, `completed`,
\* `pending`, `selected_branches` and the pool tell the same story of every node, resumed runs
\* included (lines 128-148, 164-167 and 185-202). With TypeOK it is inductive.
Bookkeeping == LocalsAgree /\ BatchSound /\ RunsCounted

\* The executor's batches, its pending and completed sets, its skipping of unselected branches
\* and its reconstruction of all of them on resume amount to the dataflow rule: a node starts
\* only when each predecessor has a result or lies in an unselected branch, at most once, and
\* never itself in an unselected branch (execute(), lines 122-219).
Flow == INSTANCE Dataflow WITH running <- {n \in batch : thread[n] # "queued"}
ImplementsDataflow == Flow!FlowSpec

\* However often a run is paused at a batch boundary and resumed from its results, no node is
\* executed twice (lines 132-135: "only nodes not in this dict are executed").
AtMostOnce == \A n \in Node : runs[n] <= 1

\* A decision placed before its targets, which is how the branches are drawn.
BranchesFollowDecisions(g) ==
    \A cb \in g.branches : cb.targets \subseteq Dependents(g, {cb.decision}) \ {cb.decision}

\* A node of a branch that a completed decision did not select has no result and is not being
\* executed, whatever was paused and resumed in between (lines 94-96 and 136-146).
PrunedNeverRuns ==
    BranchesFollowDecisions(graph) =>
        \A n \in graph.nodes :
            InUnselectedBranch(graph, n, SelectedBy(graph, results)) => runs[n] = 0

\* Reference: the results a run must end with, node by node along the topological order.
Expected ==
    LET order == KahnOrder(graph)
        after[k \in 0 .. Len(order)] ==
          IF k = 0 THEN NoneYet
          ELSE LET n == order[k]
                   before == after[k - 1]
               IN  IF InUnselectedBranch(graph, n, SelectedBy(graph, before)) THEN before
                   ELSE [before EXCEPT ![n] = oracle[n]]
    IN  after[Len(order)]

\* When execute() returns with nothing pending, its results are those of the reference: neither
\* the batch size, nor the order in which pool threads finish, nor the pauses show in them.
Confluent == pc = "done" /\ BranchesFollowDecisions(graph) => results = Expected

\* topological_order() raises exactly on the cyclic graphs, and otherwise returns each node once,
\* after its predecessors, a smaller (priority, id) never waiting behind a larger one that was
\* available at the same time (dag.py, lines 87-112).
OrderIsTopological == pc = "plan" =>
    LET order == KahnOrder(graph)
        place(n) == CHOOSE i \in DOMAIN order : order[i] = n
        available(n, i) == \A p \in Predecessors(graph, n) : place(p) < i
    IN  /\ Orderable(graph) <=>
             \A n \in graph.nodes : n \notin Dependents(graph, Successors(graph, n))
        /\ Orderable(graph) =>
             /\ Elements(order) = graph.nodes
             /\ \A e \in graph.edges : place(e[1]) < place(e[2])
             /\ \A i \in DOMAIN order : \A n \in graph.nodes :
                    place(n) > i /\ available(n, i) => Before(graph, order[i], n)

\* No node's program runs for ever.
NodesReturn == \A n \in Node : []<>(thread[n] # "running")

\* Every call of execute(), the first one and each one after a resume, returns or raises if its
\* nodes return: no schedule of the pool, no graph and no pause leaves it looping over a pending
\* set that never shrinks (lines 150-211).
ExecuteReturns == NodesReturn => []<>(pc \in Returned)

\* Lines 162-163: skipped nodes are removed from pending "so the loop terminates"; an acyclic
\* graph then has no reason to raise "Deadlock: no ready nodes but pending remains".
NoSpuriousDeadlock == pc # "deadlock"
====
