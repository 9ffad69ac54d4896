---- MODULE MCServices ----
(* Small instances of Stores, Durable, Replay, CommandLine and NodeAttempts, which share no    *)
(* state: a behaviour is one of a single one of them.                                          *)
EXTENDS Stores, Durable, Replay, CommandLine, NodeAttempts

VARIABLE part

serviceVars == <<part, storeVars, durableVars, replayVars, lineVars, attemptVars>>

\* Files of one, two and no chunks; ChunkMax is 3, the overlap 1.
CONSTANTS one, two, none, t1, t2
MCLength == [f \in {one, two, none} |-> IF f = one THEN 3 ELSE IF f = two THEN 5 ELSE 0]

Threads(nodes1, nodes2) == [t \in {t1, t2} |-> IF t = t1 THEN nodes1 ELSE nodes2]
IngestNode(id, paths) == Node(id, Ingest(id, paths))
MCScript ==
    { Threads(IngestNode("a", <<one, one>>), Node("b", Query) \o IngestNode("c", <<two>>)),
      Threads(IngestNode("a", <<one, one>>), IngestNode("b", <<one>>)),
      Threads(IngestNode("a", <<none, two>>), IngestNode("b", <<one>>) \o Node("c", Query)) }

MCGraph == { <<{"a", "b"}>>, <<{"a"}, {"a"}>>, <<{"a"}, {"b"}>>, <<{"a", "b"}, {"a"}>> }

\* Retries above, at and below the upgrade threshold.
Setting(retries, upgrade) ==
    [maxNodeRetries |-> retries, maxStageRetries |-> 2, upgradeThreshold |-> upgrade,
     repeatedThreshold |-> 3, maxVerdictFixes |-> 1, autoReplan |-> FALSE]
MCConfig == {Setting(retries, upgrade) : retries \in 0 .. 3, upgrade \in 0 .. 3}

ServiceInit ==
    /\ part \in {"stores", "durable", "replay", "line", "node"}
    /\ StoreInit /\ DurableInit /\ ReplayInit /\ LineInit /\ AttemptInit
    /\ part # "stores" => todo = CHOOSE s \in Script : TRUE
    /\ part # "replay" => graphs = CHOOSE g \in Graph : TRUE
    /\ part # "node" => config = CHOOSE c \in Config : TRUE
    /\ part # "line" => ~resumed /\ terminal = "both"

StoresMove(t) ==
    part = "stores" /\ ThreadStep(t) /\ UNCHANGED <<part, durableVars, replayVars, lineVars, attemptVars>>
DurableMoves ==
    part = "durable" /\ DurableNext /\ UNCHANGED <<part, storeVars, replayVars, lineVars, attemptVars>>
ReplayMoves ==
    part = "replay" /\ ReplayNext /\ UNCHANGED <<part, storeVars, durableVars, lineVars, attemptVars>>
LineMoves(A) ==
    part = "line" /\ A /\ UNCHANGED <<part, storeVars, durableVars, replayVars, attemptVars>>
NodeMoves ==
    part = "node" /\ AttemptNext /\ UNCHANGED <<part, storeVars, durableVars, replayVars, lineVars>>

ServiceNext ==
    \/ \E t \in Thread : StoresMove(t)
    \/ DurableMoves
    \/ ReplayMoves
    \/ LineMoves(LineNext)
    \/ NodeMoves

\* Of the threads of the part that moves, and of the loop of a node's attempts.
ServiceFairness ==
    /\ \A t \in Thread : WF_serviceVars(StoresMove(t))
    /\ WF_serviceVars(LineMoves(MainStep))
    /\ WF_serviceVars(LineMoves(WorkerStep))
    /\ WF_serviceVars(LineMoves(ReaderStep))
    /\ WF_serviceVars(NodeMoves)

Spec == ServiceInit /\ [][ServiceNext]_serviceVars /\ ServiceFairness

TypeOK == StoreTypeOK /\ DurableTypeOK /\ ReplayTypeOK /\ LineTypeOK /\ AttemptTypeOK

\* Calls on the stores return, the session gets to a prompt or to its end, and a node has an
\* outcome.
CallsEnd ==
    /\ part = "stores" => CallsReturn
    /\ part = "line" => SessionEnds
    /\ part = "node" => NodeReturns
====
