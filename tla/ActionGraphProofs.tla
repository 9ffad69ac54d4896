---- MODULE ActionGraphProofs ----
(* Facts about the operators of ActionGraph, for every finite graph. Their recursive functions *)
(* are reasoned about with NaturalRecursion.                                                   *)
EXTENDS ActionGraph, NaturalRecursion, FiniteSetTheorems, TLAPS

----
\* The order of (priority, node_id).

\* Finite graphs: the nodes can be counted.
LEMMA NodesFinite ==
    ASSUME NEW g, IsGraph(g)
    PROVE  IsFiniteSet(g.nodes) /\ Cardinality(g.nodes) \in Nat
BY NodeAssumption, FS_Subset, FS_CardinalityType DEF IsGraph

\* Two different nodes are always ordered one way, and not both ways.
LEMMA BeforeTotal ==
    ASSUME NEW g, IsGraph(g), NEW m \in g.nodes, NEW n \in g.nodes, m # n
    PROVE  Before(g, m, n) <=> ~Before(g, n, m)
<1>1. m \in Nat /\ n \in Nat /\ g.prio[m] \in Nat /\ g.prio[n] \in Nat
      BY NodeAssumption DEF IsGraph
<1> QED
    BY <1>1 DEF Before

\* Some node of a set comes before all its others, so First is that node.
LEMMA FirstIsFirst ==
    ASSUME NEW g, IsGraph(g), NEW S, S \subseteq g.nodes, S # {}
    PROVE  First(g, S) \in S /\ \A m \in S \ {First(g, S)} : Before(g, First(g, S), m)
<1> DEFINE Prios == {g.prio[n] : n \in S}
<1>1. \A n \in S : n \in Nat /\ g.prio[n] \in Nat
      BY NodeAssumption DEF IsGraph
<1>2. Prios \subseteq Nat /\ Prios # {}
      BY <1>1
<1>3. PICK p \in Prios : \A q \in Prios : p <= q
  <2> HIDE DEF Prios
  <2> QED
      BY <1>2, Least
<1> DEFINE Lowest == {n \in S : g.prio[n] = p}
<1>4. Lowest \subseteq Nat /\ Lowest # {}
      BY <1>1, <1>3
<1>5. PICK n \in Lowest : \A m \in Lowest : n <= m
  <2> HIDE DEF Lowest
  <2> QED
      BY <1>4, Least
<1>6. \A m \in S : g.prio[n] <= g.prio[m]
      BY <1>3, <1>5
<1>7. \A m \in S \ {n} : Before(g, n, m)
  <2> SUFFICES ASSUME NEW m \in S \ {n} PROVE Before(g, n, m)
      OBVIOUS
  <2>1. CASE g.prio[m] = g.prio[n]
    <3>1. m \in Lowest
          BY <1>5, <2>1
    <3>2. n <= m
          BY <1>5, <3>1
    <3>3. n < m
          BY <1>1, <3>2
    <3> QED
        BY <2>1, <3>3 DEF Before
  <2>2. CASE g.prio[m] # g.prio[n]
        BY <1>1, <1>6, <2>2 DEF Before
  <2> QED
      BY <2>1, <2>2
<1>8. n \in S
      BY <1>5
<1> QED
    BY <1>7, <1>8 DEF First

----
\* Reachability.

\* within[k] is what can be reached from S in at most k steps.
Levels(g, S, within, m) ==
    /\ within \in [0 .. m -> SUBSET g.nodes]
    /\ within[0] = S
    /\ \A k \in 1 .. m :
           within[k] = within[k - 1] \union UNION {Successors(g, n) : n \in within[k - 1]}

\* Dependents computes them, one round for each node of the graph.
LEMMA DependentsLevels ==
    ASSUME NEW g, IsGraph(g), NEW S, S \subseteq g.nodes
    PROVE  \E within : /\ Levels(g, S, within, Cardinality(g.nodes))
                       /\ Dependents(g, S) = within[Cardinality(g.nodes)]
<1> DEFINE X == SUBSET g.nodes
           m == Cardinality(g.nodes)
           Step(W) == W \union UNION {Successors(g, n) : n \in W}
           step == [kw \in Nat \X X |-> Step(kw[2])]
           Holds(f) == f = [k \in 0 .. m |-> IF k = 0 THEN S ELSE Step(f[k - 1])]
<1>1. m \in Nat
      BY NodesFinite
<1>2. \A W \in X : Step(W) \in X
      BY DEF Successors
<1>3. step \in [Nat \X X -> X]
  <2> HIDE DEF X, Step
  <2> QED
      BY <1>2
<1>4. PICK f \in [0 .. m -> X] : Iterates(f, S, step, m)
  <2> HIDE DEF step, m
  <2>1. S \in X
        OBVIOUS
  <2> HIDE DEF X
  <2> QED
      BY <1>1, <1>3, <2>1, RecursionExists
<1>5. \A k \in 0 .. m : k # 0 => step[<<k, f[k - 1]>>] = Step(f[k - 1])
  <2> SUFFICES ASSUME NEW k \in 1 .. m PROVE step[<<k, f[k - 1]>>] = Step(f[k - 1])
      BY <1>1
  <2>1. <<k, f[k - 1]>> \in Nat \X X
        BY <1>1
  <2> HIDE DEF Step, X
  <2> QED
      BY <2>1
<1>6. Holds(f)
  <2>1. \A k \in 0 .. m : f[k] = IF k = 0 THEN S ELSE Step(f[k - 1])
    <3> SUFFICES ASSUME NEW k \in 0 .. m PROVE f[k] = IF k = 0 THEN S ELSE Step(f[k - 1])
        OBVIOUS
    <3> HIDE DEF step, Step, m, X
    <3>1. CASE k = 0
          BY <1>4, <3>1 DEF Iterates
    <3>2. CASE k # 0
      <4>1. k \in 1 .. m
            BY <1>1, <3>2
      <4>2. f[k] = step[<<k, f[k - 1]>>]
            BY <1>4, <4>1 DEF Iterates
      <4> QED
          BY <1>5, <3>2, <4>2
    <3> QED
        BY <3>1, <3>2
  <2> HIDE DEF step, Step, X, m
  <2> QED
      BY <2>1
<1> DEFINE within == CHOOSE w : Holds(w)
<1>7. Holds(within)
  <2> HIDE DEF Holds
  <2> QED
      BY <1>6
<1>8. Dependents(g, S) = within[m]
      BY DEF Dependents
<1>9. within[0] = S /\ \A k \in 1 .. m : within[k] = Step(within[k - 1])
  <2> HIDE DEF Step, m
  <2> HIDE DEF within
  <2> QED
      BY <1>1, <1>7
<1>10. within \in [0 .. m -> X]
  <2> DEFINE T == {k \in 0 .. m : within[k] \in X}
  <2> HIDE DEF Step, m, X, within
  <2>1. 0 \in T
        BY <1>1, <1>9 DEF X
  <2>2. \A k \in 0 .. m - 1 : k \in T => k + 1 \in T
    <3> SUFFICES ASSUME NEW k \in 0 .. m - 1, within[k] \in X PROVE k + 1 \in T
        OBVIOUS
    <3>1. k + 1 \in 1 .. m /\ (k + 1) - 1 = k
          BY <1>1
    <3>2. within[k + 1] = Step(within[k])
          BY <1>9, <3>1
    <3> QED
        BY <1>2, <3>1, <3>2
  <2>3. 0 .. m \subseteq T
    <3> HIDE DEF T
    <3> QED
        BY <1>1, <2>1, <2>2, Induction
  <2>4. within = [k \in 0 .. m |-> within[k]]
        BY <1>7
  <2> QED
      BY <2>3, <2>4
<1> HIDE DEF within
<1> QED
    BY <1>8, <1>9, <1>10 DEF Levels

\* Each of those sets holds the one before it, hence Dependents(g, S) holds them all.
LEMMA LevelsGrow ==
    ASSUME NEW g, NEW S, NEW m \in Nat, NEW within, Levels(g, S, within, m)
    PROVE  \A k \in 0 .. m : within[k] \subseteq within[m]
<1> SUFFICES ASSUME NEW j \in 0 .. m PROVE within[j] \subseteq within[m]
    OBVIOUS
<1> DEFINE T == {k \in 0 .. m : k >= j => within[j] \subseteq within[k]}
<1>1. 0 \in T
      BY DEF Levels
<1>2. ASSUME NEW k \in 0 .. m - 1, k \in T PROVE k + 1 \in T
  <2>1. within[k] \subseteq within[k + 1]
        BY k + 1 \in 1 .. m /\ (k + 1) - 1 = k DEF Levels
  <2> QED
      BY <1>2, <2>1 DEF Levels
<1>3. m \in T
  <2>1. 0 .. m \subseteq T
    <3> HIDE DEF T
    <3> QED
        BY <1>1, <1>2, Induction
  <2> QED
      BY <2>1
<1> QED
    BY <1>3

\* The starting nodes are among the nodes reachable from them, and these are nodes.
LEMMA DependentsHold ==
    ASSUME NEW g, IsGraph(g), NEW S, S \subseteq g.nodes
    PROVE  S \subseteq Dependents(g, S) /\ Dependents(g, S) \subseteq g.nodes
<1> DEFINE m == Cardinality(g.nodes)
<1>1. m \in Nat
      BY NodesFinite
<1>2. PICK within : Levels(g, S, within, m) /\ Dependents(g, S) = within[m]
      BY DependentsLevels
<1> HIDE DEF m
<1>3. within[0] \subseteq within[m]
      BY <1>1, <1>2, LevelsGrow
<1> QED
    BY <1>1, <1>2, <1>3 DEF Levels

\* A node that depends on S and is not in S has a predecessor that depends on S, or is in S.
LEMMA DependentsBack ==
    ASSUME NEW g, IsGraph(g), NEW S, S \subseteq g.nodes, NEW n \in Dependents(g, S), n \notin S
    PROVE  \E p \in Predecessors(g, n) : p \in Dependents(g, S)
<1> DEFINE m == Cardinality(g.nodes)
<1>1. m \in Nat
      BY NodesFinite
<1>2. PICK within : Levels(g, S, within, m) /\ Dependents(g, S) = within[m]
      BY DependentsLevels
<1> HIDE DEF m
<1> DEFINE T == {k \in 0 .. m : n \in within[k]}
<1>3. T # {} /\ T \subseteq Nat
      BY <1>1, <1>2 DEF Levels
<1>4. PICK k \in T : \A j \in T : k <= j
  <2> HIDE DEF T
  <2> QED
      BY <1>3, Least
<1>5. k \in 1 .. m /\ n \notin within[k - 1]
      BY <1>1, <1>2, <1>4 DEF Levels
<1>6. PICK p \in within[k - 1] : n \in Successors(g, p)
      BY <1>2, <1>4, <1>5 DEF Levels
<1>7. k - 1 \in 0 .. m
      BY <1>1, <1>5
<1>8. p \in within[m] /\ p \in g.nodes
  <2>1. within[k - 1] \subseteq within[m]
        BY <1>1, <1>2, <1>7, LevelsGrow
  <2>2. within[k - 1] \subseteq g.nodes
        BY <1>2, <1>7 DEF Levels
  <2> QED
      BY <1>6, <2>1, <2>2
<1> QED
    BY <1>2, <1>6, <1>8 DEF Successors, Predecessors

\* A successor of a node that depends on S depends on S: Cardinality(g.nodes) rounds are enough,
\* for each of them that is not the last to change anything adds a node.
LEMMA DependentsClosed ==
    ASSUME NEW g, IsGraph(g), NEW S, S \subseteq g.nodes, NEW p \in Dependents(g, S)
    PROVE  Successors(g, p) \subseteq Dependents(g, S)
<1> DEFINE m == Cardinality(g.nodes)
           Closed(W) == UNION {Successors(g, n) : n \in W} \subseteq W
<1>1. m \in Nat /\ IsFiniteSet(g.nodes)
      BY NodesFinite
<1>2. PICK within : Levels(g, S, within, m) /\ Dependents(g, S) = within[m]
      BY DependentsLevels
<1>3. \A W \in SUBSET g.nodes : IsFiniteSet(W) /\ Cardinality(W) \in Nat /\ Cardinality(W) <= m
      BY <1>1, FS_Subset, FS_CardinalityType
<1> DEFINE T == {k \in 0 .. m : Closed(within[k]) \/ Cardinality(within[k]) >= k + 1}
<1> HIDE DEF m
<1>4. 0 \in T
  <2>1. CASE S = {}
        BY <1>1, <1>2, <2>1 DEF Levels
  <2>2. CASE S # {}
    <3>1. Cardinality(S) # 0
          BY <1>3, <2>2, FS_EmptySet
    <3> QED
        BY <1>1, <1>2, <1>3, <3>1 DEF Levels
  <2> QED
      BY <2>1, <2>2
<1>5. ASSUME NEW k \in 0 .. m - 1, k \in T PROVE k + 1 \in T
  <2>1. k + 1 \in 1 .. m /\ (k + 1) - 1 = k /\ k + 1 \in 0 .. m /\ k \in 0 .. m
        BY <1>1
  <2>2. within[k + 1] = within[k] \union UNION {Successors(g, n) : n \in within[k]}
        BY <1>2, <2>1 DEF Levels
  <2>3. CASE Closed(within[k])
    <3>1. within[k + 1] = within[k]
          BY <2>2, <2>3
    <3> QED
        BY <2>1, <2>3, <3>1
  <2>4. CASE ~Closed(within[k])
    <3>1. within[k] \subseteq within[k + 1] /\ within[k] # within[k + 1]
          BY <2>2, <2>4
    <3>2. within[k] \in SUBSET g.nodes /\ within[k + 1] \in SUBSET g.nodes
          BY <1>2, <2>1 DEF Levels
    <3>3. Cardinality(within[k]) < Cardinality(within[k + 1])
          BY <1>3, <3>1, <3>2, FS_Subset
    <3>4. Cardinality(within[k]) >= k + 1
          BY <1>5, <2>4
    <3> QED
        BY <1>3, <2>1, <3>2, <3>3, <3>4
  <2> QED
      BY <2>3, <2>4
<1>6. m \in T
  <2>1. 0 .. m \subseteq T
    <3> HIDE DEF T
    <3> QED
        BY <1>1, <1>4, <1>5, Induction
  <2> QED
      BY <1>1, <2>1
<1>7. within[m] \in SUBSET g.nodes
      BY <1>1, <1>2 DEF Levels
<1>8. Closed(within[m])
      BY <1>1, <1>3, <1>6, <1>7
<1> QED
    BY <1>2, <1>8

\* Dependents is the smallest: any set of nodes that holds S and the successors of its own.
LEMMA DependentsSmallest ==
    ASSUME NEW g, IsGraph(g), NEW S, S \subseteq g.nodes, NEW W, S \subseteq W,
           \A p \in W : Successors(g, p) \subseteq W
    PROVE  Dependents(g, S) \subseteq W
<1> DEFINE m == Cardinality(g.nodes)
<1>1. m \in Nat
      BY NodesFinite
<1>2. PICK within : Levels(g, S, within, m) /\ Dependents(g, S) = within[m]
      BY DependentsLevels
<1> HIDE DEF m
<1> DEFINE T == {k \in 0 .. m : within[k] \subseteq W}
<1>3. 0 \in T
      BY <1>1, <1>2 DEF Levels
<1>4. ASSUME NEW k \in 0 .. m - 1, k \in T PROVE k + 1 \in T
  <2>1. k + 1 \in 1 .. m /\ (k + 1) - 1 = k /\ k + 1 \in 0 .. m
        BY <1>1
  <2>2. within[k + 1] = within[k] \union UNION {Successors(g, n) : n \in within[k]}
        BY <1>2, <2>1 DEF Levels
  <2> QED
      BY <1>4, <2>1, <2>2
<1>5. m \in T
  <2>1. 0 .. m \subseteq T
    <3> HIDE DEF T
    <3> QED
        BY <1>1, <1>3, <1>4, Induction
  <2> QED
      BY <1>1, <2>1
<1> QED
    BY <1>2, <1>5

----
\* Kahn's algorithm.

\* One round: the first node of the queue is output, if there is one.
Kahn(g, order) ==
    IF KahnQueue(g, order) = {} THEN order ELSE Append(order, First(g, KahnQueue(g, order)))

\* A round on nodes outputs nodes.
LEMMA KahnType ==
    ASSUME NEW g, IsGraph(g), NEW order \in Seq(g.nodes)
    PROVE  Kahn(g, order) \in Seq(g.nodes)
<1>1. KahnQueue(g, order) \subseteq g.nodes
      BY DEF KahnQueue
<1>2. KahnQueue(g, order) # {} => First(g, KahnQueue(g, order)) \in g.nodes
      BY <1>1, FirstIsFirst
<1>3. CASE KahnQueue(g, order) = {}
      BY <1>3 DEF Kahn
<1>4. CASE KahnQueue(g, order) # {}
  <2>1. Append(order, First(g, KahnQueue(g, order))) \in Seq(g.nodes)
        BY <1>2, <1>4
  <2> QED
      BY <1>4, <2>1 DEF Kahn
<1> QED
    BY <1>3, <1>4

\* The sequences KahnOrder computes, one round for each node of the graph.
Rounds(g, upTo, m) ==
    /\ upTo \in [0 .. m -> Seq(g.nodes)]
    /\ upTo[0] = <<>>
    /\ \A k \in 1 .. m : upTo[k] = Kahn(g, upTo[k - 1])

\* KahnOrder computes them.
LEMMA KahnRounds ==
    ASSUME NEW g, IsGraph(g)
    PROVE  \E upTo : /\ Rounds(g, upTo, Cardinality(g.nodes))
                     /\ KahnOrder(g) = upTo[Cardinality(g.nodes)]
<1> DEFINE X == Seq(g.nodes)
           m == Cardinality(g.nodes)
           step == [ko \in Nat \X X |-> Kahn(g, ko[2])]
           Holds(f) == f = [k \in 0 .. m |-> IF k = 0 THEN <<>> ELSE Kahn(g, f[k - 1])]
<1>1. m \in Nat
      BY NodesFinite
<1>2. \A order \in X : Kahn(g, order) \in X
      BY KahnType
<1>3. step \in [Nat \X X -> X]
  <2> HIDE DEF X
  <2> QED
      BY <1>2
<1>4. PICK f \in [0 .. m -> X] : Iterates(f, <<>>, step, m)
  <2> HIDE DEF step, m
  <2>1. <<>> \in X
        OBVIOUS
  <2> HIDE DEF X
  <2> QED
      BY <1>1, <1>3, <2>1, RecursionExists
<1>5. \A k \in 1 .. m : step[<<k, f[k - 1]>>] = Kahn(g, f[k - 1])
  <2> SUFFICES ASSUME NEW k \in 1 .. m PROVE step[<<k, f[k - 1]>>] = Kahn(g, f[k - 1])
      OBVIOUS
  <2>1. <<k, f[k - 1]>> \in Nat \X X
        BY <1>1
  <2> HIDE DEF X
  <2> QED
      BY <2>1
<1>6. Holds(f)
  <2>1. \A k \in 0 .. m : f[k] = IF k = 0 THEN <<>> ELSE Kahn(g, f[k - 1])
    <3> SUFFICES ASSUME NEW k \in 0 .. m
                 PROVE  f[k] = IF k = 0 THEN <<>> ELSE Kahn(g, f[k - 1])
        OBVIOUS
    <3> HIDE DEF step, m, X
    <3>1. CASE k = 0
          BY <1>4, <3>1 DEF Iterates
    <3>2. CASE k # 0
      <4>1. k \in 1 .. m
            BY <1>1, <3>2
      <4>2. f[k] = step[<<k, f[k - 1]>>]
            BY <1>4, <4>1 DEF Iterates
      <4> QED
          BY <1>5, <3>2, <4>1, <4>2
    <3> QED
        BY <3>1, <3>2
  <2> HIDE DEF step, X, m
  <2> QED
      BY <2>1
<1> DEFINE upTo == CHOOSE f_1 : Holds(f_1)
<1>7. Holds(upTo)
  <2> HIDE DEF Holds
  <2> QED
      BY <1>6
<1>8. KahnOrder(g) = upTo[m]
      BY DEF KahnOrder, Kahn
<1> HIDE DEF m
<1>9. upTo[0] = <<>> /\ \A k \in 1 .. m : upTo[k] = Kahn(g, upTo[k - 1])
  <2> HIDE DEF upTo
  <2> QED
      BY <1>1, <1>7
<1>10. upTo \in [0 .. m -> X]
  <2> DEFINE T == {k \in 0 .. m : upTo[k] \in X}
  <2>0. <<>> \in X
        OBVIOUS
  <2> HIDE DEF upTo, X
  <2>1. 0 \in T
        BY <1>1, <1>9, <2>0
  <2>2. \A k \in 0 .. m - 1 : k \in T => k + 1 \in T
    <3> SUFFICES ASSUME NEW k \in 0 .. m - 1, upTo[k] \in X PROVE k + 1 \in T
        OBVIOUS
    <3>1. k + 1 \in 1 .. m /\ (k + 1) - 1 = k
          BY <1>1
    <3>2. upTo[k + 1] = Kahn(g, upTo[k])
          BY <1>9, <3>1
    <3> QED
        BY <1>2, <3>1, <3>2
  <2>3. 0 .. m \subseteq T
    <3> HIDE DEF T
    <3> QED
        BY <1>1, <2>1, <2>2, Induction
  <2>4. upTo = [k \in 0 .. m |-> upTo[k]]
        BY <1>7
  <2> QED
      BY <2>3, <2>4
<1> HIDE DEF upTo
<1> QED
    BY <1>8, <1>9, <1>10 DEF Rounds, m

\* The nodes output so far: each once, after its predecessors, and each before every other node
\* that could have been output in its place.
Sorted(g, order) ==
    /\ \A i, j \in 1 .. Len(order) : order[i] = order[j] => i = j
    /\ \A i \in 1 .. Len(order) : \A p \in Predecessors(g, order[i]) :
           \E j \in 1 .. i - 1 : order[j] = p
    /\ \A i \in 1 .. Len(order) : \A n \in g.nodes :
           /\ \A j \in 1 .. i : order[j] # n
           /\ \A p \in Predecessors(g, n) : \E j \in 1 .. i - 1 : order[j] = p
           => Before(g, order[i], n)

\* A round keeps the sequence sorted, and outputs a node unless the queue is empty.
LEMMA KahnSorts ==
    ASSUME NEW g, IsGraph(g), NEW order \in Seq(g.nodes), Sorted(g, order)
    PROVE  /\ Sorted(g, Kahn(g, order))
           /\ KahnQueue(g, order) # {} => Len(Kahn(g, order)) = Len(order) + 1
           /\ KahnQueue(g, order) = {} => Kahn(g, order) = order
<1>1. CASE KahnQueue(g, order) = {}
      BY <1>1 DEF Kahn
<1>2. CASE KahnQueue(g, order) # {}
  <2> DEFINE Q == KahnQueue(g, order)
             f == First(g, Q)
             new == Kahn(g, order)
             L == Len(order)
  <2>1. Q \subseteq g.nodes
        BY DEF KahnQueue
  <2>2. f \in Q /\ \A n \in Q \ {f} : Before(g, f, n)
    <3> HIDE DEF Q
    <3> QED
        BY <1>2, <2>1, FirstIsFirst DEF Q
  <2>3. /\ new = Append(order, f) /\ f \in g.nodes
        BY <1>2, <2>1, <2>2 DEF Kahn
  <2>4. L \in Nat /\ Elements(order) = {order[i] : i \in 1 .. L}
        BY DEF Elements
  <2>5. f \notin Elements(order) /\ Predecessors(g, f) \subseteq Elements(order)
        BY <2>2 DEF KahnQueue
  <2>6. Len(new) = L + 1 /\ new[L + 1] = f /\ \A i \in 1 .. L : new[i] = order[i]
    <3> HIDE DEF f, new
    <3> QED
        BY <2>3
  <2> HIDE DEF new, f, L
  <2>7. \A i, j \in 1 .. L + 1 : new[i] = new[j] => i = j
    <3>1. \A i, j \in 1 .. L : new[i] = new[j] => i = j
          BY <2>6 DEF Sorted, L
    <3>2. \A i \in 1 .. L : new[i] # new[L + 1]
          BY <2>4, <2>5, <2>6
    <3> QED
        BY <2>4, <3>1, <3>2
  <2>8. ASSUME NEW i \in 1 .. L + 1, NEW p \in Predecessors(g, new[i])
        PROVE  \E j \in 1 .. i - 1 : new[j] = p
    <3>1. CASE i \in 1 .. L
      <4>1. PICK j \in 1 .. i - 1 : order[j] = p
            BY <2>6, <3>1 DEF Sorted, L
      <4>2. j \in 1 .. L
            BY <2>4, <3>1
      <4> QED
          BY <2>6, <4>1, <4>2
    <3>2. CASE i = L + 1
      <4>1. p \in Elements(order) /\ i - 1 = L
            BY <2>4, <2>5, <2>6, <3>2
      <4> QED
          BY <2>4, <2>6, <4>1
    <3> QED
        BY <2>4, <3>1, <3>2
  <2>9. ASSUME NEW i \in 1 .. L + 1, NEW n \in g.nodes,
               \A j \in 1 .. i : new[j] # n,
               \A p \in Predecessors(g, n) : \E j \in 1 .. i - 1 : new[j] = p
        PROVE  Before(g, new[i], n)
    <3>1. CASE i \in 1 .. L
      <4>1. \A j \in 1 .. i : j \in 1 .. L /\ new[j] = order[j]
            BY <2>4, <2>6, <3>1
      <4>2. \A j \in 1 .. i : order[j] # n
            BY <2>9, <4>1
      <4>3. \A p \in Predecessors(g, n) : \E j \in 1 .. i - 1 : order[j] = p
            BY <2>9, <4>1, <3>1
      <4> QED
          BY <3>1, <4>1, <4>2, <4>3, <2>6 DEF Sorted, L
    <3>2. CASE i = L + 1
      <4>1. n \notin Elements(order) /\ n # f
            BY <2>4, <2>6, <2>9, <3>2
      <4>2. Predecessors(g, n) \subseteq Elements(order)
            BY <2>4, <2>6, <2>9, <3>2
      <4>3. n \in Q
            BY <4>1, <4>2 DEF KahnQueue
      <4> HIDE DEF Q
      <4> QED
          BY <2>2, <2>6, <3>2, <4>1, <4>3
    <3> QED
        BY <2>4, <3>1, <3>2
  <2>10. Sorted(g, new)
         BY <2>4, <2>6, <2>7, <2>8, <2>9 DEF Sorted
  <2> QED
      BY <1>2, <2>6, <2>10 DEF new, L
<1> QED
    BY <1>1, <1>2

\* What topological_order() ends with: a sorted sequence, the queue empty if it is too short.
LEMMA KahnOrderSorted ==
    ASSUME NEW g, IsGraph(g)
    PROVE  /\ KahnOrder(g) \in Seq(g.nodes)
           /\ Sorted(g, KahnOrder(g))
           /\ Orderable(g) \/ KahnQueue(g, KahnOrder(g)) = {}
<1> DEFINE m == Cardinality(g.nodes)
<1>1. m \in Nat
      BY NodesFinite
<1>2. PICK upTo : Rounds(g, upTo, m) /\ KahnOrder(g) = upTo[m]
      BY KahnRounds
<1> DEFINE T == {k \in 0 .. m : /\ Sorted(g, upTo[k])
                                /\ Len(upTo[k]) = k \/ KahnQueue(g, upTo[k]) = {}}
<1> HIDE DEF m
<1>3. 0 \in T
      BY <1>1, <1>2 DEF Rounds, Sorted
<1>4. ASSUME NEW k \in 0 .. m - 1, k \in T PROVE k + 1 \in T
  <2>1. k + 1 \in 1 .. m /\ (k + 1) - 1 = k /\ k + 1 \in 0 .. m /\ k \in 0 .. m
        BY <1>1
  <2>2. upTo[k + 1] = Kahn(g, upTo[k]) /\ upTo[k] \in Seq(g.nodes)
        BY <1>2, <2>1 DEF Rounds
  <2>3. Sorted(g, upTo[k]) /\ (Len(upTo[k]) = k \/ KahnQueue(g, upTo[k]) = {})
        BY <1>4
  <2>4. /\ Sorted(g, upTo[k + 1])
        /\ KahnQueue(g, upTo[k]) # {} => Len(upTo[k + 1]) = Len(upTo[k]) + 1
        /\ KahnQueue(g, upTo[k]) = {} => upTo[k + 1] = upTo[k]
        BY <2>2, <2>3, KahnSorts
  <2>5. Len(upTo[k + 1]) = k + 1 \/ KahnQueue(g, upTo[k + 1]) = {}
        BY <2>3, <2>4
  <2> QED
      BY <2>1, <2>4, <2>5
<1>5. m \in T
  <2>1. 0 .. m \subseteq T
    <3> HIDE DEF T
    <3> QED
        BY <1>1, <1>3, <1>4, Induction
  <2> QED
      BY <1>1, <2>1
<1> QED
    BY <1>1, <1>2, <1>5 DEF Rounds, Orderable, m

\* When it does not raise, every node is output.
LEMMA OrderIsComplete ==
    ASSUME NEW g, IsGraph(g), Orderable(g)
    PROVE  Elements(KahnOrder(g)) = g.nodes
<1> DEFINE order == KahnOrder(g)
           m == Cardinality(g.nodes)
<1>1. order \in Seq(g.nodes) /\ Sorted(g, order)
      BY KahnOrderSorted
<1>2. Len(order) = m /\ m \in Nat /\ IsFiniteSet(g.nodes)
      BY NodesFinite DEF Orderable
<1> HIDE DEF order, m
<1>3. order \in [1 .. m -> g.nodes]
      BY <1>1, <1>2
<1>4. order \in Injection(1 .. m, g.nodes)
      BY <1>1, <1>2, <1>3 DEF Sorted, Injection, IsInjective
<1>5. Cardinality(1 .. m) = m
      BY <1>2, FS_Interval
<1>6. order \in Surjection(1 .. m, g.nodes)
      BY <1>2, <1>4, <1>5, FS_Injection DEF m
<1>7. \A n \in g.nodes : \E i \in 1 .. m : order[i] = n
      BY <1>6 DEF Surjection
<1>8. Elements(order) = g.nodes
      BY <1>3, <1>7 DEF Elements
<1> QED
    BY <1>8 DEF order

\* It raises on no acyclic graph: otherwise every node left would have a predecessor left, and
\* following them back there would always be more nodes that depend on the one reached.
LEMMA AcyclicIsOrderable ==
    ASSUME NEW g, IsGraph(g), \A n \in g.nodes : n \notin Dependents(g, Successors(g, n))
    PROVE  Orderable(g)
<1> DEFINE m == Cardinality(g.nodes)
           Left == g.nodes \ Elements(KahnOrder(g))
           After(n) == Dependents(g, Successors(g, n))
           Rank(n) == m - Cardinality(After(n))
           Ranks == {Rank(n) : n \in Left}
<1>1. m \in Nat /\ IsFiniteSet(g.nodes)
      BY NodesFinite
<1>2. \A n \in g.nodes : Successors(g, n) \subseteq g.nodes /\ After(n) \subseteq g.nodes
      BY DependentsHold DEF Successors
<1>3. \A n \in g.nodes : IsFiniteSet(After(n)) /\ Cardinality(After(n)) \in Nat
                         /\ Cardinality(After(n)) <= m
      BY <1>1, <1>2, FS_Subset, FS_CardinalityType
<1> SUFFICES ASSUME ~Orderable(g) PROVE FALSE
    OBVIOUS
<1>4. KahnQueue(g, KahnOrder(g)) = {} /\ KahnOrder(g) \in Seq(g.nodes)
      BY KahnOrderSorted
<1>5. Left # {}
  <2> SUFFICES ASSUME Left = {} PROVE FALSE
      OBVIOUS
  <2> DEFINE order == KahnOrder(g)
             L == Len(order)
  <2>1. order \in [1 .. L -> g.nodes] /\ L \in Nat
        BY <1>4
  <2>2. order \in Surjection(1 .. L, g.nodes)
        BY <2>1 DEF Surjection, Elements
  <2>3. order \in Injection(1 .. L, g.nodes)
        BY <2>1, KahnOrderSorted DEF Sorted, Injection, IsInjective
  <2>4. Cardinality(1 .. L) = L
    <3> HIDE DEF L
    <3> QED
        BY <2>1, FS_Interval
  <2>5. L = m
        BY <1>1, <2>2, <2>3, <2>4, FS_Injection
  <2> QED
      BY <2>5 DEF Orderable
<1>6. Ranks # {} /\ Ranks \subseteq Nat
      BY <1>1, <1>3, <1>5
<1>7. PICK n \in Left : \A q \in Left : Rank(n) <= Rank(q)
  <2>1. PICK r \in Ranks : \A q \in Ranks : r <= q
    <3> HIDE DEF Ranks
    <3> QED
        BY <1>6, Least
  <2> QED
      BY <2>1
<1>8. PICK p \in Left : n \in Successors(g, p)
      BY <1>4, <1>7 DEF KahnQueue, Predecessors, Successors
<1>9. n \in After(p) /\ Successors(g, n) \subseteq After(p)
  <2>1. n \in After(p)
        BY <1>2, <1>8, DependentsHold
  <2> QED
      BY <1>2, <2>1, DependentsClosed
<1>10. After(n) \subseteq After(p)
  <2>1. \A q \in After(p) : Successors(g, q) \subseteq After(p)
        BY <1>2, DependentsClosed
  <2> HIDE DEF Left
  <2> QED
      BY <1>2, <1>9, <2>1, DependentsSmallest DEF Left
<1>11. After(n) # After(p)
       BY <1>9
<1>12. Cardinality(After(n)) < Cardinality(After(p))
       BY <1>3, <1>10, <1>11, FS_Subset
<1> QED
    BY <1>1, <1>3, <1>7, <1>12

\* It raises on every cyclic graph: what depends on a node's successors comes after it.
LEMMA OrderableIsAcyclic ==
    ASSUME NEW g, IsGraph(g), Orderable(g), NEW n \in g.nodes
    PROVE  n \notin Dependents(g, Successors(g, n))
<1> DEFINE order == KahnOrder(g)
           L == Len(order)
<1>1. order \in Seq(g.nodes) /\ Sorted(g, order)
      BY KahnOrderSorted
<1>2. L \in Nat /\ order \in [1 .. L -> g.nodes]
      BY <1>1
<1>3. \A q \in g.nodes : \E i \in 1 .. L : order[i] = q
      BY <1>2, OrderIsComplete DEF Elements
<1> HIDE DEF order, L
<1>4. PICK i \in 1 .. L : order[i] = n
      BY <1>3
<1> DEFINE Later == {order[j] : j \in {k \in 1 .. L : k > i}}
<1>5. ASSUME NEW j \in 1 .. L, j >= i, NEW s \in Successors(g, order[j]) PROVE s \in Later
  <2>1. PICK k \in 1 .. L : order[k] = s
        BY <1>3 DEF Successors
  <2>2. order[j] \in Predecessors(g, order[k])
        BY <1>2, <1>5, <2>1 DEF Successors, Predecessors
  <2>3. PICK l \in 1 .. k - 1 : order[l] = order[j]
        BY <1>1, <2>1, <2>2 DEF Sorted, L
  <2>4. l = j
        BY <1>1, <1>2, <2>3 DEF Sorted, L
  <2> QED
      BY <1>2, <1>5, <2>1, <2>3, <2>4
<1>6. Successors(g, n) \subseteq Later
      BY <1>2, <1>4, <1>5
<1>7. \A q \in Later : Successors(g, q) \subseteq Later
      BY <1>2, <1>5
<1>8. Dependents(g, Successors(g, n)) \subseteq Later
  <2> HIDE DEF Later
  <2>1. Successors(g, n) \subseteq g.nodes
        BY DEF Successors
  <2> QED
      BY <1>6, <1>7, <2>1, DependentsSmallest
<1>9. n \notin Later
      BY <1>1, <1>2, <1>4 DEF Sorted, L
<1> QED
    BY <1>8, <1>9
====
