---- MODULE DagExecutorProofs ----
(* Proofs about DagExecutor, for every set of nodes, labels and graphs, every batch size and   *)
(* any number of pauses: its bookkeeping is consistent, no node runs twice, it implements      *)
(* Dataflow, the order is topological, and which nodes run or are pruned does not depend on    *)
(* the schedule.                                                                               *)
EXTENDS DagExecutor, ActionGraphProofs, TLAPS

Inv == TypeOK /\ Bookkeeping

USE DEF bookkeeping

\* What a well-formed graph is made of.
LEMMA GraphParts ==
    ASSUME NEW g \in Graphs
    PROVE  /\ g.nodes \subseteq Node
           /\ g.edges \subseteq g.nodes \X g.nodes
           /\ g.decisions \subseteq g.nodes
           /\ \A cb \in g.branches : cb \in Branch
BY GraphsAssumption DEF IsGraph

\* The branches selected are labels, whatever the results.
LEMMA SelectedType ==
    ASSUME NEW g \in Graphs, NEW r \in [Node -> Output \union {None}]
    PROVE  SelectedBy(g, r) \in [Node -> Label \union {None}]
<1> SUFFICES ASSUME NEW n \in Node
             PROVE  (IF n \in g.decisions /\ r[n] # None /\ r[n].status = "COMPLETED"
                     THEN r[n].branch ELSE None) \in Label \union {None}
    BY DEF SelectedBy
<1> CASE r[n] = None
    OBVIOUS
<1> CASE r[n] \in Output
    BY DEF Output
<1> QED
    OBVIOUS

\* A result once given is not taken back: then neither is a selected branch.
LEMMA SelectionStable ==
    ASSUME NEW g \in Graphs,
           NEW r1 \in [Node -> Output \union {None}],
           NEW r2 \in [Node -> Output \union {None}],
           \A n \in Node : r1[n] # None => r2[n] = r1[n]
    PROVE  \A n \in Node : SelectedBy(g, r1)[n] # None => SelectedBy(g, r2)[n] = SelectedBy(g, r1)[n]
BY DEF SelectedBy

\* Hence a node in an unselected branch stays in it.
LEMMA UnselectedStable ==
    ASSUME NEW g \in Graphs,
           NEW r1 \in [Node -> Output \union {None}],
           NEW r2 \in [Node -> Output \union {None}],
           \A n \in Node : r1[n] # None => r2[n] = r1[n],
           NEW n \in Node,
           InUnselectedBranch(g, n, SelectedBy(g, r1))
    PROVE  InUnselectedBranch(g, n, SelectedBy(g, r2))
<1>1. PICK cb \in g.branches : /\ n \in cb.targets
                               /\ SelectedBy(g, r1)[cb.decision] # None
                               /\ SelectedBy(g, r1)[cb.decision] # cb.label
      BY DEF InUnselectedBranch
<1>2. cb.decision \in Node
      BY GraphParts DEF Branch
<1>3. SelectedBy(g, r2)[cb.decision] = SelectedBy(g, r1)[cb.decision]
      BY <1>1, <1>2, SelectionStable
<1> QED
      BY <1>1, <1>3 DEF InUnselectedBranch

\* execute() starts consistent.
LEMMA InitInv == Init => Inv
<1> SUFFICES ASSUME Init PROVE Inv
    OBVIOUS
<1>1. oracle \in [Node -> Output]
      BY DEF Init, Answers
<1>2. selected \in [Node -> Label \union {None}] /\ results \in [Node -> Output \union {None}]
      BY DEF Init, NoneYet
<1>3. thread \in [Node -> ThreadState] /\ runs \in [Node -> Nat] /\ pc \in Control
      BY DEF Init, ThreadState, Control
<1>4. interrupt \in BOOLEAN
      BY Zenon DEF Init
<1>5. interrupts \in 0 .. MaxInterrupts
      BY MaxInterruptsAssumption DEF Init
<1>6. Bookkeeping
      BY DEF Init, Bookkeeping, LocalsAgree, BatchSound, RunsCounted, NoneYet
<1> QED
    BY <1>1, <1>2, <1>3, <1>4, <1>5, <1>6 DEF Init, TypeOK, Inv

\* Every step keeps the variables in their types.
LEMMA NextType == Inv /\ [Next]_vars => TypeOK'
<1> SUFFICES ASSUME Inv, [Next]_vars PROVE TypeOK'
    OBVIOUS
<1> USE DEF Inv
<1>1. CASE Cyclic
      BY <1>1 DEF Cyclic, TypeOK, Control
<1>2. CASE Plan
  <2>1. selected' \in [Node -> Label \union {None}]
        BY <1>2, SelectedType DEF Plan, TypeOK
  <2> QED
      BY <1>2, <2>1 DEF Plan, TypeOK, Control, HasResult, AcyclicGraphs
<1>3. CASE SelectBatch
  <2>1. batch' \subseteq graph.nodes /\ Skipped(Ready) \subseteq graph.nodes
        BY <1>3 DEF SelectBatch, FirstInOrder, Ready, Skipped, TypeOK
  <2>2. thread' \in [Node -> ThreadState]
        BY <1>3 DEF SelectBatch, ThreadState
  <2> QED
      BY <1>3, <2>1, <2>2 DEF SelectBatch, TypeOK, Control
<1>4. CASE NothingReady
  <2>1. Skipped(Ready) \subseteq graph.nodes
        BY DEF Skipped, TypeOK
  <2> QED
      BY <1>4, <2>1 DEF NothingReady, TypeOK, Control
<1>5. ASSUME NEW n \in Node, StartNode(n) PROVE TypeOK'
      BY <1>5 DEF StartNode, TypeOK, ThreadState
<1>6. ASSUME NEW n \in Node, FinishNode(n) PROVE TypeOK'
      BY <1>6 DEF FinishNode, TypeOK, ThreadState
<1>7. CASE CommitBatch
  <2>1. results' \in [Node -> Output \union {None}]
        BY <1>7 DEF CommitBatch, TypeOK
  <2>2. SelectedBy(graph, results') \in [Node -> Label \union {None}]
        BY <2>1, SelectedType DEF TypeOK
  <2>3. selected' \in [Node -> Label \union {None}]
        BY <1>7, <2>2 DEF CommitBatch, TypeOK
  <2>4. thread' \in [Node -> ThreadState]
        BY <1>7 DEF CommitBatch, ThreadState
  <2> QED
      BY <1>7, <2>1, <2>3, <2>4 DEF CommitBatch, TypeOK, Control
<1>8. CASE PollProceeds
      BY <1>8 DEF PollProceeds, TypeOK, Control
<1>9. CASE PollInterrupts
      BY <1>9 DEF PollInterrupts, TypeOK, Control
<1>10. CASE RequestInterrupt
  <2>1. interrupts' \in 0 .. MaxInterrupts
        BY <1>10, MaxInterruptsAssumption DEF RequestInterrupt, TypeOK
  <2>2. interrupt' \in BOOLEAN
        BY <1>10, Zenon DEF RequestInterrupt
  <2> QED
      BY <1>10, <2>1, <2>2 DEF RequestInterrupt, TypeOK
<1>11. CASE Resume
  <2>1. selected' \in [Node -> Label \union {None}]
        BY <1>11 DEF Resume, NoneYet
  <2>2. interrupt' \in BOOLEAN
        BY <1>11, Zenon DEF Resume
  <2> QED
      BY <1>11, <2>1, <2>2 DEF Resume, TypeOK, Control
<1>12. CASE UNCHANGED vars
      BY <1>12 DEF vars, TypeOK
<1> QED
    BY <1>1, <1>2, <1>3, <1>4, <1>5, <1>6, <1>7, <1>8, <1>9, <1>10, <1>11, <1>12
    DEF Next, Execute, NodeThread

\* Every step keeps the bookkeeping consistent.
LEMMA NextBookkeeping == Inv /\ [Next]_vars => Bookkeeping'
<1> SUFFICES ASSUME Inv, [Next]_vars PROVE Bookkeeping'
    OBVIOUS
<1> USE DEF Inv, Bookkeeping
<1>1. CASE Cyclic
      BY <1>1 DEF Cyclic, LocalsAgree, BatchSound, RunsCounted
<1>2. CASE Plan
  <2>1. LocalsAgree'
        BY <1>2 DEF Plan, LocalsAgree, HasResult
  <2>2. BatchSound' /\ RunsCounted'
        BY <1>2 DEF Plan, BatchSound, RunsCounted
  <2> QED
      BY <2>1, <2>2
<1>3. CASE SelectBatch
  <2>1. /\ batch = {} /\ pending = graph.nodes \ completed /\ HasResult \subseteq completed
        /\ selected = SelectedBy(graph, results)
        BY <1>3 DEF SelectBatch, LocalsAgree, BatchSound
  <2>2. \A n \in Skipped(Ready) : n \in pending /\ Unselected(n)
        BY <2>1 DEF Skipped, Ready, Unselected
  <2>3. LocalsAgree'
        BY <1>3, <2>1, <2>2 DEF SelectBatch, LocalsAgree, HasResult, Unselected
  <2>4. \A n \in batch' : n \in Ready
        BY <1>3 DEF SelectBatch, FirstInOrder
  <2>5. \A n \in batch' : /\ n \in pending' /\ Predecessors(graph, n) \subseteq completed
                          /\ results[n] = None /\ ~Unselected(n)
        BY <1>3, <2>1, <2>4
        DEF SelectBatch, Ready, Skipped, PredecessorsCompleted, HasResult, Unselected
  <2>6. BatchSound'
    <3>1. \A n \in batch' : n \in Node
          BY <1>3, <2>5, GraphParts DEF TypeOK, SelectBatch
    <3> QED
        BY <1>3, <2>5, <3>1 DEF SelectBatch, BatchSound, Unselected
  <2>7. RunsCounted'
        BY <1>3, <2>1 DEF SelectBatch, BatchSound, RunsCounted
  <2> QED
      BY <2>3, <2>6, <2>7
<1>4. CASE NothingReady
      BY <1>4 DEF NothingReady, LocalsAgree, BatchSound, RunsCounted
<1>5. ASSUME NEW n \in Node, StartNode(n) PROVE Bookkeeping'
  <2>1. LocalsAgree'
        BY <1>5 DEF StartNode, LocalsAgree, HasResult, Unselected
  <2>2. BatchSound'
        BY <1>5 DEF StartNode, BatchSound, Unselected, TypeOK
  <2>3. results[n] = None
        BY <1>5 DEF StartNode, BatchSound
  <2>4. runs[n] = 0
        BY <1>5, <2>3 DEF StartNode, RunsCounted
  <2>5. RunsCounted'
        BY <1>5, <2>3, <2>4 DEF StartNode, RunsCounted, TypeOK
  <2> QED
      BY <2>1, <2>2, <2>5
<1>6. ASSUME NEW n \in Node, FinishNode(n) PROVE Bookkeeping'
  <2>1. LocalsAgree'
        BY <1>6 DEF FinishNode, LocalsAgree, HasResult, Unselected
  <2>2. BatchSound'
        BY <1>6 DEF FinishNode, BatchSound, Unselected, TypeOK
  <2>3. RunsCounted'
        BY <1>6 DEF FinishNode, RunsCounted, TypeOK
  <2> QED
      BY <2>1, <2>2, <2>3
<1>7. CASE CommitBatch
  <2> DEFINE out == [n \in Node |-> IF n \in batch THEN oracle[n] ELSE results[n]]
  <2>1. results' = out /\ out \in [Node -> Output \union {None}]
        BY <1>7 DEF CommitBatch, TypeOK
  <2>2. \A n \in Node : results[n] # None => results'[n] = results[n]
        BY <1>7, <2>1 DEF BatchSound
  <2>3. \A n \in batch : n \in Node /\ results'[n] # None
        BY <2>1, NoneAssumption, GraphParts DEF TypeOK
  <2>4. \A n \in Node : Unselected(n) => Unselected(n)'
        BY <1>7, <2>1, <2>2, UnselectedStable DEF CommitBatch, Unselected, TypeOK
  <2>5. selected' = SelectedBy(graph, results')
    <3>1. \A n \in Node \ batch : selected[n] = SelectedBy(graph, results')[n]
          BY <1>7, <2>1 DEF CommitBatch, LocalsAgree, SelectedBy
    <3> HIDE DEF out
    <3> QED
        BY <1>7, <3>1 DEF CommitBatch, SelectedBy
  <2>6. LocalsAgree'
    <3>1. /\ pending = graph.nodes \ completed /\ HasResult \subseteq completed
          /\ \A n \in completed : results[n] # None \/ Unselected(n)
          BY <1>7 DEF CommitBatch, LocalsAgree
    <3>2. HasResult' \subseteq completed'
          BY <1>7, <2>1, <3>1, GraphParts DEF CommitBatch, HasResult, TypeOK
    <3>3. \A n \in completed' : results'[n] # None \/ Unselected(n)'
          BY <1>7, <2>2, <2>3, <2>4, <3>1, GraphParts DEF CommitBatch, TypeOK
    <3> QED
        BY <1>7, <2>5, <3>1, <3>2, <3>3 DEF CommitBatch, LocalsAgree
  <2>7. BatchSound'
        BY <1>7 DEF CommitBatch, BatchSound
  <2>8. RunsCounted'
    <3>1. \A n \in Node : runs[n] = IF results'[n] # None THEN 1 ELSE 0
          BY <1>7, <2>1, <2>3 DEF CommitBatch, BatchSound, RunsCounted
    <3> QED
        BY <1>7, <3>1 DEF CommitBatch, RunsCounted
  <2> QED
      BY <2>6, <2>7, <2>8
<1>8. CASE PollProceeds
      BY <1>8 DEF PollProceeds, LocalsAgree, BatchSound, RunsCounted, HasResult, Unselected
<1>9. CASE PollInterrupts
      BY <1>9 DEF PollInterrupts, LocalsAgree, BatchSound, RunsCounted
<1>10. CASE RequestInterrupt
      BY <1>10 DEF RequestInterrupt, LocalsAgree, BatchSound, RunsCounted, HasResult, Unselected
<1>11. CASE Resume
      BY <1>11 DEF Resume, LocalsAgree, BatchSound, RunsCounted
<1>12. CASE UNCHANGED vars
      BY <1>12 DEF vars, LocalsAgree, BatchSound, RunsCounted, HasResult, Unselected
<1> QED
    BY <1>1, <1>2, <1>3, <1>4, <1>5, <1>6, <1>7, <1>8, <1>9, <1>10, <1>11, <1>12
    DEF Next, Execute, NodeThread

\* The types and the bookkeeping, together, hold in every state of every run.
THEOREM Invariance == Spec => [](TypeOK /\ Bookkeeping)
<1>1. Inv /\ UNCHANGED vars => Inv'
      BY NextType, NextBookkeeping DEF Inv
<1>2. Inv /\ [Next]_vars => Inv'
      BY NextType, NextBookkeeping DEF Inv
<1>3. Spec => []Inv
      BY InitInv, <1>2, PTL DEF Spec
<1> QED
    BY <1>3, PTL DEF Inv

\* No node is executed twice, whatever is paused and resumed in between: its second execution
\* would need it pending with a result, which the reconstruction of `pending` rules out.
THEOREM NoNodeTwice == Spec => []AtMostOnce
<1>1. TypeOK /\ Bookkeeping => AtMostOnce
  <2> SUFFICES ASSUME Bookkeeping, NEW n \in Node PROVE runs[n] <= 1
      BY DEF AtMostOnce
  <2>1. runs[n] = 0 \/ runs[n] = 1
        BY DEF Bookkeeping, RunsCounted
  <2> QED
      BY <2>1
<1> QED
    BY <1>1, Invariance, PTL

\* Dataflow asks the same questions of the graph and the results.
LEMMA SameQuestions ==
    /\ \A n : Flow!Unselected(n) <=> Unselected(n)
    /\ \A n : Flow!Predecessors(graph, n) = Predecessors(graph, n)
    /\ Flow!Output = Output
BY DEF Flow!Unselected, Flow!InUnselectedBranch, Flow!SelectedBy, Flow!Predecessors, Flow!Output,
       Unselected, InUnselectedBranch, SelectedBy, Predecessors, Output

\* The executor's first state is one of the dataflow rule's.
LEMMA FlowInitially == Init => Flow!FlowInit
BY DEF Init, Flow!FlowInit, NoneYet

\* A node whose predecessors are completed has all its inputs settled.
LEMMA CompletedIsResolved ==
    ASSUME Inv, NEW n \in batch
    PROVE  \A p \in Predecessors(graph, n) : Flow!Resolved(p)
<1>1. pc = "batch" /\ Predecessors(graph, n) \subseteq completed
      BY DEF Inv, Bookkeeping, BatchSound
<1>2. \A p \in completed : results[p] # None \/ Unselected(p)
      BY <1>1 DEF Inv, Bookkeeping, LocalsAgree
<1> QED
    BY <1>1, <1>2, SameQuestions DEF Flow!Resolved

\* Starting a node is the rule's Start, committing a batch its Settle (or nothing, were the
\* batch empty); every other step leaves results and running nodes alone.
LEMMA FlowStep == Inv /\ [Next]_vars => [Flow!FlowNext]_(Flow!flowVars)
<1> SUFFICES ASSUME Inv, [Next]_vars PROVE [Flow!FlowNext]_(Flow!flowVars)
    OBVIOUS
<1> DEFINE Running == {n \in batch : thread[n] # "queued"}
<1> USE DEF Flow!flowVars, Inv
<1>1. CASE Cyclic \/ Plan \/ NothingReady \/ PollProceeds \/ PollInterrupts
           \/ RequestInterrupt \/ Resume
      BY <1>1 DEF Cyclic, Plan, NothingReady, PollProceeds, PollInterrupts, RequestInterrupt, Resume
<1>2. CASE SelectBatch
  <2>1. batch = {}
        BY <1>2 DEF SelectBatch, Bookkeeping, BatchSound
  <2>2. \A n \in batch' : thread'[n] = "queued"
    <3>1. batch' \subseteq Node
          BY <1>2, GraphParts DEF SelectBatch, FirstInOrder, Ready, TypeOK
    <3> QED
        BY <1>2, <3>1 DEF SelectBatch
  <2>3. Running' = Running
        BY <2>1, <2>2
  <2> QED
      BY <1>2, <2>3 DEF SelectBatch
<1>3. ASSUME NEW n \in Node, StartNode(n) PROVE Flow!Start(n)
  <2>1. n \in graph.nodes /\ n \notin Running /\ results[n] = None /\ ~Unselected(n)
        BY <1>3 DEF StartNode, Bookkeeping, BatchSound, TypeOK
  <2>2. \A p \in Predecessors(graph, n) : Flow!Resolved(p)
        BY <1>3, CompletedIsResolved DEF StartNode
  <2>3. Flow!MayStart(n)
        BY <2>1, <2>2, SameQuestions DEF Flow!MayStart
  <2>4. Running' = Running \union {n}
        BY <1>3 DEF StartNode, TypeOK
  <2> QED
      BY <1>3, <2>3, <2>4 DEF Flow!Start, StartNode
<1>4. ASSUME NEW n \in Node, FinishNode(n) PROVE UNCHANGED Flow!flowVars
  <2>1. Running' = Running
        BY <1>4 DEF FinishNode, TypeOK
  <2> QED
      BY <1>4, <2>1 DEF FinishNode
<1>5. CASE CommitBatch
  <2>1. Running = batch /\ Running' = {}
        BY <1>5 DEF CommitBatch
  <2>2. results' \in [Node -> Output \union {None}]
        BY <1>5 DEF CommitBatch, TypeOK
  <2>3. CASE batch = {}
    <3>1. \A n \in Node : results'[n] = results[n]
          BY <1>5, <2>3 DEF CommitBatch
    <3>2. results' = results
          BY <2>2, <3>1 DEF TypeOK
    <3> QED
        BY <1>5, <2>1, <2>3, <3>2 DEF CommitBatch
  <2>4. CASE batch # {}
    <3>1. \A n \in batch : n \in Node /\ results'[n] # None
          BY <1>5, NoneAssumption, GraphParts DEF CommitBatch, TypeOK
    <3>2. \A n \in Node \ batch : results'[n] = results[n]
          BY <1>5 DEF CommitBatch
    <3>3. Flow!Settle
          BY <1>5, <2>1, <2>2, <2>4, <3>1, <3>2, SameQuestions DEF Flow!Settle, CommitBatch
    <3> QED
        BY <3>3 DEF Flow!FlowNext
  <2> QED
      BY <2>3, <2>4
<1>6. CASE UNCHANGED vars
      BY <1>6 DEF vars
<1> QED
    BY <1>1, <1>2, <1>3, <1>4, <1>5, <1>6 DEF Next, Execute, NodeThread, Flow!FlowNext

\* Batches, pending list, completed set, skipping and resuming amount to the dataflow rule.
THEOREM Implements == Spec => ImplementsDataflow
<1>1. Spec => []Inv
      BY Invariance, PTL DEF Inv
<1> QED
    BY <1>1, FlowInitially, FlowStep, PTL DEF Spec, ImplementsDataflow, Flow!FlowSpec

\* Types alone, as the runs check them.
THEOREM Types == Spec => []TypeOK
BY Invariance, PTL

----
\* topological_order().

\* The place of a node in the order is where it was output.
LEMMA Place ==
    ASSUME NEW g, IsGraph(g), Orderable(g), NEW n \in g.nodes
    PROVE  LET order == KahnOrder(g)
               place == CHOOSE i \in DOMAIN order : order[i] = n
           IN  place \in 1 .. Len(order) /\ order[place] = n
<1> DEFINE order == KahnOrder(g)
<1>1. order \in Seq(g.nodes) /\ DOMAIN order = 1 .. Len(order)
      BY KahnOrderSorted
<1>2. \E i \in DOMAIN order : order[i] = n
      BY OrderIsComplete DEF Elements
<1> HIDE DEF order
<1> QED
    BY <1>1, <1>2 DEF order

\* On every graph, topological_order() raises exactly when there is a cycle, and otherwise
\* returns each node once, after its predecessors, in the order of (priority, id) as far as the
\* edges leave it free.
THEOREM Topological == Spec => []OrderIsTopological
<1>1. TypeOK => OrderIsTopological
  <2> SUFFICES ASSUME TypeOK PROVE OrderIsTopological
      OBVIOUS
  <2> DEFINE order == KahnOrder(graph)
             place(n) == CHOOSE i \in DOMAIN order : order[i] = n
             available(n, i) == \A p \in Predecessors(graph, n) : place(p) < i
  <2>1. IsGraph(graph)
        BY GraphsAssumption DEF TypeOK
  <2>2. Orderable(graph) <=> \A n \in graph.nodes : n \notin Dependents(graph, Successors(graph, n))
        BY <2>1, AcyclicIsOrderable, OrderableIsAcyclic
  <2>3. ASSUME Orderable(graph)
        PROVE  /\ Elements(order) = graph.nodes
               /\ \A e \in graph.edges : place(e[1]) < place(e[2])
               /\ \A i \in DOMAIN order : \A n \in graph.nodes :
                      place(n) > i /\ available(n, i) => Before(graph, order[i], n)
    <3>1. /\ order \in Seq(graph.nodes) /\ DOMAIN order = 1 .. Len(order) /\ Len(order) \in Nat
          /\ Sorted(graph, order)
          BY <2>1, KahnOrderSorted
    <3>2. \A n \in graph.nodes : place(n) \in 1 .. Len(order) /\ order[place(n)] = n
          BY <2>1, <2>3, Place
    <3>3. Elements(order) = graph.nodes
          BY <2>1, <2>3, OrderIsComplete
    <3> HIDE DEF order, place
    <3>4. ASSUME NEW m \in graph.nodes, NEW i \in 1 .. Len(order), NEW j \in 1 .. i,
                 order[j] = m
          PROVE  place(m) = j
          BY <3>1, <3>2, <3>4 DEF Sorted
    <3>5. ASSUME NEW e \in graph.edges PROVE place(e[1]) < place(e[2])
      <4>1. e[1] \in graph.nodes /\ e[2] \in graph.nodes /\ e[1] \in Predecessors(graph, e[2])
            BY <2>1 DEF IsGraph, Predecessors
      <4>2. PICK j \in 1 .. place(e[2]) - 1 : order[j] = e[1]
            BY <3>1, <3>2, <4>1 DEF Sorted
      <4>3. place(e[1]) = j
            BY <3>1, <3>2, <4>1, <4>2 DEF Sorted
      <4> QED
          BY <3>1, <3>2, <4>1, <4>3
    <3>6. ASSUME NEW i \in DOMAIN order, NEW n \in graph.nodes, place(n) > i, available(n, i)
          PROVE  Before(graph, order[i], n)
      <4>1. \A j \in 1 .. i : order[j] # n
            BY <3>1, <3>2, <3>6 DEF Sorted
      <4>2. ASSUME NEW p \in Predecessors(graph, n) PROVE \E j \in 1 .. i - 1 : order[j] = p
        <5>1. p \in graph.nodes /\ place(p) < i
              BY <3>6 DEF Predecessors
        <5> QED
            BY <3>1, <3>2, <5>1
      <4> QED
          BY <3>1, <4>1, <4>2 DEF Sorted
    <3> QED
        BY <3>3, <3>5, <3>6
  <2> QED
      BY <2>2, <2>3 DEF OrderIsTopological
<1> QED
    BY <1>1, Types, PTL
----
\* Unselected branches, and the results a run ends with.

\* A node is settled when it has a result, or will never have one.
Settled(n) == results[n] # None \/ Unselected(n)

\* Whatever a node depends on is settled before the node is completed or drawn into a batch.
AncestorsSettled ==
    \A n \in completed \union batch \union HasResult : \A a \in graph.nodes \ {n} :
        n \in Dependents(graph, {a}) => Settled(a)

\* No node with a result lies in an unselected branch, when branches follow their decisions.
RanSelected == BranchesFollowDecisions(graph) => \A n \in HasResult : ~Unselected(n)

\* Results are the nodes' own answers, and a run ends with every node settled.
Ends ==
    /\ \A n \in Node : results[n] # None => n \in graph.nodes /\ results[n] = oracle[n]
    /\ pc \notin {"plan", "cyclic"} => graph \in AcyclicGraphs
    /\ pc = "done" => \A n \in graph.nodes : Settled(n)

Settlement == AncestorsSettled /\ RanSelected /\ Ends

\* The decision that leaves a node in an unselected branch is a node of the graph, has a result,
\* and the node depends on it.
LEMMA UnselectedBy ==
    ASSUME NEW g \in Graphs, NEW r \in [Node -> Output \union {None}], NEW n \in Node,
           BranchesFollowDecisions(g), InUnselectedBranch(g, n, SelectedBy(g, r))
    PROVE  \E cb \in g.branches :
              /\ n \in cb.targets
              /\ SelectedBy(g, r)[cb.decision] # None
              /\ SelectedBy(g, r)[cb.decision] # cb.label
              /\ cb.decision \in g.nodes /\ cb.decision # n
              /\ n \in Dependents(g, {cb.decision})
              /\ r[cb.decision] # None
<1>1. PICK cb \in g.branches : /\ n \in cb.targets
                               /\ SelectedBy(g, r)[cb.decision] # None
                               /\ SelectedBy(g, r)[cb.decision] # cb.label
      BY DEF InUnselectedBranch
<1>2. cb.decision \in Node
      BY GraphParts DEF Branch
<1>3. cb.decision \in g.decisions /\ r[cb.decision] # None
      BY <1>1, <1>2 DEF SelectedBy
<1>4. n \in Dependents(g, {cb.decision}) \ {cb.decision}
      BY <1>1 DEF BranchesFollowDecisions
<1> QED
    BY <1>1, <1>3, <1>4, GraphParts

\* A node none of whose predecessors is unsettled, and none of theirs, has only settled ancestors.
LEMMA ReadyAncestors ==
    ASSUME TypeOK, AncestorsSettled, NEW n \in graph.nodes, Predecessors(graph, n) \subseteq completed,
           \A p \in completed : Settled(p),
           NEW a \in graph.nodes \ {n}, n \in Dependents(graph, {a})
    PROVE  Settled(a)
<1>1. IsGraph(graph)
      BY GraphsAssumption DEF TypeOK
<1>2. PICK p \in Predecessors(graph, n) : p \in Dependents(graph, {a})
      BY <1>1, DependentsBack
<1> QED
    BY <1>2 DEF AncestorsSettled

\* A step that leaves graph, results and answers alone disturbs none of it, as long as it neither
\* completes a node nor draws a batch.
LEMMA SettlementKept ==
    ASSUME Settlement, UNCHANGED <<graph, oracle, results>>, batch' \subseteq batch,
           completed' \subseteq completed, pc' = "done" => pc = "done",
           pc' \notin {"plan", "cyclic"} => pc \notin {"plan", "cyclic"}
    PROVE  Settlement'
<1>1. AncestorsSettled'
      BY DEF Settlement, AncestorsSettled, HasResult, Settled, Unselected
<1>2. RanSelected'
      BY DEF Settlement, RanSelected, HasResult, Unselected
<1>3. Ends'
      BY DEF Settlement, Ends, Settled, Unselected
<1> QED
    BY <1>1, <1>2, <1>3 DEF Settlement

\* execute() starts with nothing to settle.
LEMMA InitSettlement == Init => Settlement
<1> SUFFICES ASSUME Init PROVE Settlement
    OBVIOUS
<1>1. \A n \in Node : results[n] = None
      BY DEF Init, NoneYet
<1>2. HasResult = {}
      BY <1>1, GraphParts DEF Init, HasResult
<1> QED
    BY <1>1, <1>2 DEF Init, Settlement, AncestorsSettled, RanSelected, Ends

\* Every step keeps it.
LEMMA NextSettlement == Inv /\ Settlement /\ [Next]_vars => Settlement'
<1> SUFFICES ASSUME Inv, Settlement, [Next]_vars PROVE Settlement'
    OBVIOUS
<1>1. CASE Cyclic
      BY <1>1, SettlementKept DEF Cyclic
<1>2. CASE Plan
  <2>1. AncestorsSettled'
        BY <1>2 DEF Plan, Settlement, AncestorsSettled, HasResult, Settled, Unselected
  <2>2. RanSelected'
        BY <1>2 DEF Plan, Settlement, RanSelected, HasResult, Unselected
  <2>3. Ends'
        BY <1>2 DEF Plan, Settlement, Ends
  <2> QED
      BY <2>1, <2>2, <2>3 DEF Settlement
<1>3. CASE SelectBatch \/ NothingReady
  <2>1. /\ pc = "select" /\ UNCHANGED <<graph, oracle, results>>
        /\ completed' = completed \union Skipped(Ready)
        /\ pc' # "done" \/ (pending \ Skipped(Ready) = {})
        /\ batch' \subseteq batch \union Ready
        BY <1>3 DEF SelectBatch, NothingReady, FirstInOrder
  <2>2. /\ pending = graph.nodes \ completed /\ selected = SelectedBy(graph, results)
        /\ \A p \in completed : Settled(p)
        BY <2>1 DEF Inv, Bookkeeping, LocalsAgree, Settled
  <2>3. \A n \in Skipped(Ready) : n \in pending /\ Unselected(n) /\ Predecessors(graph, n) \subseteq completed
        BY <2>2 DEF Skipped, Ready, Unselected, PredecessorsCompleted
  <2>4. \A n \in Ready : n \in pending /\ Predecessors(graph, n) \subseteq completed
        BY DEF Ready, PredecessorsCompleted
  <2>5. ASSUME NEW n \in completed' \union batch' \union HasResult', NEW a \in graph.nodes \ {n},
               n \in Dependents(graph, {a})
        PROVE  Settled(a)
    <3>1. CASE n \in completed \union batch \union HasResult
          BY <2>5, <3>1 DEF Settlement, AncestorsSettled
    <3>2. CASE n \in Skipped(Ready) \union Ready
      <4>1. n \in graph.nodes /\ Predecessors(graph, n) \subseteq completed
            BY <2>2, <2>3, <2>4, <3>2
      <4> QED
          BY <2>2, <2>5, <4>1, ReadyAncestors DEF Inv, Settlement
    <3> QED
        BY <2>1, <3>1, <3>2 DEF HasResult
  <2>6. AncestorsSettled'
        BY <2>1, <2>5 DEF AncestorsSettled, Settled, Unselected
  <2>7. RanSelected'
        BY <2>1 DEF Settlement, RanSelected, HasResult, Unselected
  <2>8. Ends'
    <3>1. pc' = "done" => \A n \in graph.nodes : Settled(n)
          BY <2>1, <2>2, <2>3 DEF Settled
    <3> QED
        BY <2>1, <3>1 DEF Settlement, Ends, Settled, Unselected
  <2> QED
      BY <2>6, <2>7, <2>8 DEF Settlement
<1>4. ASSUME NEW n \in Node, NodeThread(n) PROVE Settlement'
      BY <1>4, SettlementKept DEF NodeThread, StartNode, FinishNode
<1>5. CASE CommitBatch
  <2>1. /\ pc = "batch" /\ pc' = "poll" /\ graph' = graph /\ oracle' = oracle /\ batch' = {}
        /\ completed' = completed \union batch
        /\ results' = [n \in Node |-> IF n \in batch THEN oracle[n] ELSE results[n]]
        BY <1>5 DEF CommitBatch
  <2>2. /\ graph \in Graphs /\ graph.nodes \subseteq Node /\ batch \subseteq graph.nodes
        /\ results \in [Node -> Output \union {None}] /\ results' \in [Node -> Output \union {None}]
        BY <2>1, GraphParts DEF Inv, TypeOK
  <2>3. \A n \in batch : results[n] = None /\ ~Unselected(n)
        BY DEF Inv, Bookkeeping, BatchSound
  <2>4. \A n \in Node : results[n] # None => results'[n] = results[n]
        BY <2>1, <2>3
  <2>5. \A n \in Node : Settled(n) => Settled(n)'
    <3> SUFFICES ASSUME NEW n \in Node, Settled(n) PROVE Settled(n)'
        OBVIOUS
    <3>1. CASE results[n] # None
          BY <2>4, <3>1 DEF Settled
    <3>2. CASE Unselected(n)
          BY <2>1, <2>2, <2>4, <3>2, UnselectedStable DEF Settled, Unselected
    <3> QED
        BY <3>1, <3>2 DEF Settled
  <2>6. HasResult' \subseteq HasResult \union batch
        BY <2>1, <2>2 DEF HasResult
  <2>7. AncestorsSettled'
        BY <2>1, <2>2, <2>5, <2>6 DEF Settlement, AncestorsSettled
  <2>8. ASSUME BranchesFollowDecisions(graph), NEW n \in HasResult', Unselected(n)'
        PROVE  FALSE
    <3>1. n \in Node /\ InUnselectedBranch(graph, n, SelectedBy(graph, results'))
          BY <2>1, <2>2, <2>8 DEF HasResult, Unselected
    <3>2. PICK cb \in graph.branches :
              /\ n \in cb.targets
              /\ SelectedBy(graph, results')[cb.decision] # None
              /\ SelectedBy(graph, results')[cb.decision] # cb.label
              /\ cb.decision \in graph.nodes /\ cb.decision # n
              /\ n \in Dependents(graph, {cb.decision})
              /\ results'[cb.decision] # None
          BY <2>2, <2>8, <3>1, UnselectedBy
    <3>3. Settled(cb.decision)
          BY <2>6, <2>8, <3>2 DEF Settlement, AncestorsSettled
    <3>4. results'[cb.decision] = results[cb.decision]
          BY <2>1, <2>2, <2>3, <3>2, <3>3 DEF Settled
    <3>5. SelectedBy(graph, results')[cb.decision] = SelectedBy(graph, results)[cb.decision]
          BY <2>2, <3>2, <3>4 DEF SelectedBy
    <3>6. Unselected(n)
          BY <3>2, <3>5 DEF Unselected, InUnselectedBranch
    <3> QED
        BY <2>3, <2>6, <2>8, <3>6 DEF Settlement, RanSelected
  <2>9. RanSelected'
        BY <2>1, <2>8 DEF RanSelected
  <2>10. Ends'
         BY <2>1, <2>2 DEF Settlement, Ends
  <2> QED
      BY <2>7, <2>9, <2>10 DEF Settlement
<1>6. CASE PollProceeds \/ PollInterrupts \/ RequestInterrupt
      BY <1>6, SettlementKept DEF PollProceeds, PollInterrupts, RequestInterrupt
<1>7. CASE Resume
      BY <1>7, SettlementKept DEF Resume, Inv, Bookkeeping, BatchSound
<1>8. CASE UNCHANGED vars
      BY <1>8, SettlementKept DEF vars
<1> QED
    BY <1>1, <1>2, <1>3, <1>4, <1>5, <1>6, <1>7, <1>8 DEF Next, Execute

\* It holds in every state of every run.
LEMMA SettlementAlways == Spec => [](Inv /\ Settlement)
<1>1. Inv /\ Settlement /\ [Next]_vars => (Inv /\ Settlement)'
      BY NextType, NextBookkeeping, NextSettlement DEF Inv
<1> QED
    BY InitInv, InitSettlement, <1>1, PTL DEF Spec

\* A node in a branch that its decision did not select is never executed, over all pauses: it is
\* not drawn once the decision has its result, and was not drawn before, its ancestors being
\* settled first.
THEOREM Pruning == Spec => []PrunedNeverRuns
<1>1. Inv /\ Settlement => PrunedNeverRuns
  <2> SUFFICES ASSUME Inv, Settlement, BranchesFollowDecisions(graph), NEW n \in graph.nodes,
                      Unselected(n)
               PROVE  runs[n] = 0
      BY DEF PrunedNeverRuns, Unselected
  <2>1. n \in Node
        BY GraphParts DEF Inv, TypeOK
  <2>2. results[n] = None
        BY DEF Settlement, RanSelected, HasResult
  <2>3. n \notin batch
        BY DEF Inv, Bookkeeping, BatchSound
  <2>4. thread[n] = "idle"
        BY <2>1, <2>3 DEF Inv, Bookkeeping, BatchSound
  <2> QED
      BY <2>1, <2>2, <2>4 DEF Inv, Bookkeeping, RunsCounted
<1> QED
    BY <1>1, SettlementAlways, PTL
\* The nodes output before the i-th.
OutputBefore(order, i) == {order[j] : j \in 1 .. i - 1}

\* In a topological order a node comes after every other node it depends on.
LEMMA DependentsComeLater ==
    ASSUME NEW g, IsGraph(g), Orderable(g), NEW i \in 1 .. Len(KahnOrder(g)),
           NEW a \in g.nodes \ {KahnOrder(g)[i]}, KahnOrder(g)[i] \in Dependents(g, {a})
    PROVE  a \in OutputBefore(KahnOrder(g), i)
<1> DEFINE order == KahnOrder(g)
           L == Len(order)
<1>1. order \in Seq(g.nodes) /\ Sorted(g, order)
      BY KahnOrderSorted
<1>2. L \in Nat /\ order \in [1 .. L -> g.nodes]
      BY <1>1
<1>3. \A q \in g.nodes : \E j \in 1 .. L : order[j] = q
      BY <1>2, OrderIsComplete DEF Elements
<1> HIDE DEF order, L
<1>4. PICK k \in 1 .. L : order[k] = a
      BY <1>3
<1> DEFINE Later == {order[j] : j \in {l \in 1 .. L : l >= k}}
<1>5. ASSUME NEW q \in Later, NEW s \in Successors(g, q) PROVE s \in Later
  <2>1. PICK l \in 1 .. L : order[l] = s
        BY <1>3 DEF Successors
  <2>2. PICK j \in 1 .. L : j >= k /\ order[j] = q
        BY <1>5
  <2>3. q \in Predecessors(g, order[l])
        BY <1>2, <1>5, <2>1, <2>2 DEF Successors, Predecessors
  <2>4. PICK h \in 1 .. l - 1 : order[h] = q
        BY <1>1, <2>1, <2>3 DEF Sorted, L
  <2>5. h = j
        BY <1>1, <1>2, <2>2, <2>4 DEF Sorted, L
  <2> QED
      BY <1>2, <2>1, <2>2, <2>4, <2>5
<1>6. Dependents(g, {a}) \subseteq Later
  <2>1. {a} \subseteq Later
        BY <1>2, <1>4
  <2> HIDE DEF Later
  <2> QED
      BY <1>5, <2>1, DependentsSmallest
<1>7. order[i] \in Later
      BY <1>6 DEF order
<1>8. PICK j \in 1 .. L : j >= k /\ order[j] = order[i]
      BY <1>7
<1>9. j = i
      BY <1>1, <1>2, <1>8 DEF Sorted, L, order
<1> QED
    BY <1>2, <1>4, <1>8, <1>9 DEF order, L, OutputBefore

\* The reference takes the nodes in topological order, and by then every decision about the node
\* has been taken: it gives the node its answer exactly when the run ended with it.
LEMMA ReferenceStep ==
    ASSUME TypeOK, Settlement, pc = "done", BranchesFollowDecisions(graph), Orderable(graph),
           NEW k \in 1 .. Len(KahnOrder(graph)),
           NEW before \in [Node -> Output \union {None}],
           \A m \in Node :
               before[m] = IF \E j \in 1 .. k - 1 : KahnOrder(graph)[j] = m THEN results[m] ELSE None
    PROVE  LET n == KahnOrder(graph)[k]
           IN  results[n] = IF InUnselectedBranch(graph, n, SelectedBy(graph, before))
                            THEN None ELSE oracle[n]
<1> DEFINE order == KahnOrder(graph)
           n == order[k]
<1>1. /\ IsGraph(graph) /\ graph \in Graphs /\ graph.nodes \subseteq Node
      /\ results \in [Node -> Output \union {None}]
      BY GraphsAssumption, GraphParts DEF TypeOK
<1>2. n \in graph.nodes /\ n \in Node
      BY <1>1, KahnOrderSorted
<1>3. \A m \in Node : before[m] # None => results[m] = before[m]
      OBVIOUS
<1>4. CASE InUnselectedBranch(graph, n, SelectedBy(graph, before))
  <2>1. Unselected(n)
        BY <1>1, <1>2, <1>3, <1>4, UnselectedStable DEF Unselected
  <2>2. results[n] = None
        BY <1>2, <2>1 DEF Settlement, RanSelected, HasResult
  <2> QED
      BY <1>4, <2>2
<1>5. CASE ~InUnselectedBranch(graph, n, SelectedBy(graph, before))
  <2>1. ASSUME Unselected(n) PROVE FALSE
    <3>1. PICK cb \in graph.branches :
              /\ n \in cb.targets
              /\ SelectedBy(graph, results)[cb.decision] # None
              /\ SelectedBy(graph, results)[cb.decision] # cb.label
              /\ cb.decision \in graph.nodes /\ cb.decision # n
              /\ n \in Dependents(graph, {cb.decision})
              /\ results[cb.decision] # None
          BY <1>1, <1>2, <2>1, UnselectedBy DEF Unselected
    <3>2. \E j \in 1 .. k - 1 : order[j] = cb.decision
      <4>1. cb.decision \in graph.nodes \ {order[k]} /\ order[k] \in Dependents(graph, {cb.decision})
            BY <3>1
      <4>2. cb.decision \in OutputBefore(order, k)
            BY <1>1, <4>1, DependentsComeLater
      <4> QED
          BY <4>2 DEF OutputBefore
    <3>3. cb.decision \in Node
          BY <1>1, <3>1
    <3>4. before[cb.decision] = results[cb.decision]
          BY <3>2, <3>3
    <3>5. SelectedBy(graph, before)[cb.decision] = SelectedBy(graph, results)[cb.decision]
          BY <3>3, <3>4 DEF SelectedBy
    <3>6. InUnselectedBranch(graph, n, SelectedBy(graph, before))
          BY <3>1, <3>5 DEF InUnselectedBranch
    <3> QED
        BY <1>5, <3>6
  <2>2. Settled(n)
        BY <1>2 DEF Settlement, Ends
  <2>3. results[n] # None
        BY <2>1, <2>2 DEF Settled
  <2>4. results[n] = oracle[n]
        BY <1>2, <2>3 DEF Settlement, Ends
  <2> QED
      BY <1>5, <2>4
<1> QED
    BY <1>4, <1>5

\* The results a run ends with, restricted to the first k nodes of the order, are what the
\* reference has after k nodes.
LEMMA ReferenceIsReached ==
    ASSUME TypeOK, Settlement, pc = "done", BranchesFollowDecisions(graph)
    PROVE  results = Expected
<1> DEFINE order == KahnOrder(graph)
           L == Len(order)
           Upto(k) == [m \in Node |-> IF \E j \in 1 .. k : order[j] = m THEN results[m] ELSE None]
           Step(k, before) ==
               IF InUnselectedBranch(graph, order[k], SelectedBy(graph, before)) THEN before
               ELSE [before EXCEPT ![order[k]] = oracle[order[k]]]
           Holds(f) == f = [k \in 0 .. L |-> IF k = 0 THEN NoneYet ELSE Step(k, f[k - 1])]
           ref == [k \in 0 .. L |-> Upto(k)]
<1>1. /\ IsGraph(graph) /\ graph \in Graphs /\ graph.nodes \subseteq Node
      /\ results \in [Node -> Output \union {None}]
      BY GraphsAssumption, GraphParts DEF TypeOK
<1>2. Orderable(graph)
      BY DEF Settlement, Ends, AcyclicGraphs
<1>3. order \in Seq(graph.nodes) /\ L \in Nat /\ Sorted(graph, order)
      BY <1>1, KahnOrderSorted
<1>4. \A k \in 1 .. L : order[k] \in graph.nodes /\ order[k] \in Node
      BY <1>1, <1>3
<1>5. Upto(0) = NoneYet
      BY DEF NoneYet
<1>6. ASSUME NEW k \in 1 .. L PROVE Upto(k) = Step(k, Upto(k - 1))
  <2> DEFINE before == Upto(k - 1)
             n == order[k]
  <2>1. before \in [Node -> Output \union {None}]
        BY <1>1
  <2>2. results[n] = IF InUnselectedBranch(graph, n, SelectedBy(graph, before))
                     THEN None ELSE oracle[n]
    <3>1. \A m \in Node :
              before[m] = IF \E j \in 1 .. k - 1 : order[j] = m THEN results[m] ELSE None
          OBVIOUS
    <3> HIDE DEF before
    <3> QED
        BY <1>2, <2>1, <3>1, ReferenceStep
  <2>3. before[n] = None
    <3>1. ~ \E j \in 1 .. k - 1 : order[j] = n
          BY <1>3 DEF Sorted
    <3> QED
        BY <1>4, <3>1
  <2>4. \A m \in Node \ {n} : Upto(k)[m] = before[m]
    <3>1. \A m \in Node \ {n} :
              (\E j \in 1 .. k : order[j] = m) <=> (\E j \in 1 .. k - 1 : order[j] = m)
          BY <1>3
    <3> QED
        BY <3>1
  <2>5. Upto(k)[n] = results[n]
        BY <1>4
  <2>6. Upto(k) \in [Node -> Output \union {None}]
        BY <1>1
  <2> HIDE DEF Upto, before, n
  <2>7. CASE InUnselectedBranch(graph, n, SelectedBy(graph, before))
    <3>1. \A m \in Node : Upto(k)[m] = before[m]
          BY <2>2, <2>3, <2>4, <2>5, <2>7
    <3>2. Upto(k) = before
          BY <2>1, <2>6, <3>1
    <3> QED
        BY <2>7, <3>2 DEF n, before
  <2>8. CASE ~InUnselectedBranch(graph, n, SelectedBy(graph, before))
    <3>1. n \in Node
          BY <1>4 DEF n
    <3>2. \A m \in Node : Upto(k)[m] = [before EXCEPT ![n] = oracle[n]][m]
          BY <2>1, <2>2, <2>4, <2>5, <2>8, <3>1
    <3>3. Upto(k) = [before EXCEPT ![n] = oracle[n]]
          BY <2>1, <2>6, <3>1, <3>2
    <3> QED
        BY <2>8, <3>3 DEF n, before
  <2> QED
      BY <2>7, <2>8
<1>7. Holds(ref)
  <2> HIDE DEF Upto, Step, L
  <2>1. \A k \in 0 .. L : ref[k] = IF k = 0 THEN NoneYet ELSE Step(k, ref[k - 1])
        BY <1>3, <1>5, <1>6
  <2> HIDE DEF ref
  <2>2. ref = [k \in 0 .. L |-> ref[k]]
        BY DEF ref
  <2> QED
      BY <2>1, <2>2
<1> DEFINE after == CHOOSE f : Holds(f)
<1>8. after[0] = NoneYet /\ \A k \in 1 .. L : after[k] = Step(k, after[k - 1])
  <2>1. Holds(after)
    <3> HIDE DEF Holds, ref
    <3> QED
        BY <1>7
  <2> HIDE DEF after, Step, L
  <2> QED
      BY <1>3, <2>1
<1>9. Expected = after[L]
      BY DEF Expected
<1> HIDE DEF after, Step, Upto, L
<1> DEFINE T == {k \in 0 .. L : after[k] = Upto(k)}
<1>10. 0 \in T
       BY <1>3, <1>5, <1>8
<1>11. ASSUME NEW k \in 0 .. L - 1, k \in T PROVE k + 1 \in T
  <2>1. k + 1 \in 1 .. L /\ (k + 1) - 1 = k /\ k + 1 \in 0 .. L
        BY <1>3
  <2>2. after[k + 1] = Step(k + 1, after[k])
        BY <1>8, <2>1
  <2>3. Upto(k + 1) = Step(k + 1, Upto(k))
        BY <1>6, <2>1
  <2> QED
      BY <1>11, <2>1, <2>2, <2>3
<1>12. after[L] = Upto(L)
  <2>1. 0 .. L \subseteq T
    <3> HIDE DEF T
    <3> QED
        BY <1>3, <1>10, <1>11, Induction
  <2> QED
      BY <1>3, <2>1
<1>13. Upto(L) = results
  <2>1. \A m \in Node : results[m] # None => \E j \in 1 .. L : order[j] = m
    <3>1. \A m \in graph.nodes : \E j \in 1 .. L : order[j] = m
          BY <1>1, <1>2, <1>3, OrderIsComplete DEF Elements, L
    <3> QED
        BY <3>1 DEF Settlement, Ends
  <2>2. \A m \in Node : Upto(L)[m] = results[m]
        BY <2>1 DEF Upto
  <2>3. Upto(L) = [m \in Node |-> Upto(L)[m]]
        BY DEF Upto
  <2> QED
      BY <1>1, <2>2, <2>3
<1> QED
    BY <1>9, <1>12, <1>13

\* When nothing is left pending the results are those of the reference: neither batches, nor the
\* order in which pool threads finish, nor pauses and resumes show in them.
THEOREM Confluence == Spec => []Confluent
<1>1. Inv /\ Settlement => Confluent
      BY ReferenceIsReached DEF Inv, Confluent
<1> QED
    BY <1>1, SettlementAlways, PTL
====
