---- MODULE Replay ----
(* Recording the answers of nodes in a run and giving them back in its strict replay:          *)
(* Orchestrator._execute and replay, trace/replay.py, and the replay paths of the model, code  *)
(* and tool nodes. A run is a series of executions of graphs; an execution that is paused is   *)
(* continued in a further call of _execute.                                                    *)
EXTENDS Naturals, Sequences, FiniteSets, SequencesExt

CONSTANTS
    Graph,          \* sequences of sets of replay-capable nodes, one set for each execution
    MaxAttempts     \* times a failing node is called in one execution of the run

ASSUME AttemptsAssumption == MaxAttempts \in Nat \ {0}
ASSUME GraphAssumption ==
    \A g \in Graph : /\ g # <<>> /\ g \in Seq(SUBSET UNION {g[i] : i \in DOMAIN g})
                     /\ \A i \in DOMAIN g : g[i] # {} /\ IsFiniteSet(g[i])

VARIABLES graphs, phase, turn, heard, unsaved, trace, broken, cursor, given

replayVars == <<graphs, phase, turn, heard, unsaved, trace, broken, cursor, given>>

ReplayNode == UNION {graphs[i] : i \in DOMAIN graphs}
NoAnswers == [n \in ReplayNode |-> <<>>]

ReplayInit ==
    /\ graphs \in Graph
    /\ phase = "live"                           \* live, replay, refused, ended
    /\ turn = 1                                 \* the execution under way
    /\ heard = [i \in DOMAIN graphs |-> NoAnswers]  \* answers of each execution of the run
    /\ unsaved = NoAnswers                      \* _recorded_responses of the nodes
    /\ trace = <<>>                             \* replay_data events
    /\ broken = FALSE                           \* some _execute did not come to its end
    /\ cursor = NoAnswers                       \* _replay_responses still ahead
    /\ given = [i \in DOMAIN graphs |-> NoAnswers]  \* answers of each execution of the replay

\* How an attempt comes out: completed, or failed for a reason that classify_failure takes to be
\* transient, persistent, or systemic or critical.
Outcome == {"completed", "transient", "persistent", "other"}

\* Mutant: an attempt too many.
MayBeCalledOnceMore(answers) ==
    Len(answers) <= MaxAttempts /\ (answers # <<>> => Last(answers).outcome = "transient")

\* An executor attempts a node again only after a transient failure.
MayBeCalled(answers) ==
    Len(answers) < MaxAttempts /\ (answers # <<>> => Last(answers).outcome = "transient")

Answered(n, outcome) == [turn |-> turn, node |-> n, attempt |-> Len(heard[turn][n]), outcome |-> outcome]

\* Mutant: failed answers are not recorded.
AnswerRecordedIfGood(n, outcome) ==
    /\ phase = "live" /\ n \in graphs[turn] /\ MayBeCalled(heard[turn][n])
    /\ heard' = [heard EXCEPT ![turn][n] = Append(@, Answered(n, outcome))]
    /\ unsaved' = IF outcome = "completed"
                  THEN [unsaved EXCEPT ![n] = Append(@, Answered(n, outcome))] ELSE unsaved
    /\ UNCHANGED <<graphs, phase, turn, trace, broken, cursor, given>>

\* A node answers and records the answer, the failed ones too.
Answer(n, outcome) ==
    /\ phase = "live" /\ n \in graphs[turn] /\ MayBeCalled(heard[turn][n])
    /\ heard' = [heard EXCEPT ![turn][n] = Append(@, Answered(n, outcome))]
    /\ unsaved' = [unsaved EXCEPT ![n] = Append(@, Answered(n, outcome))]
    /\ UNCHANGED <<graphs, phase, turn, trace, broken, cursor, given>>

\* An execution may end when no node called is left to be called again; nodes of branches not
\* selected, behind a failed one, or without an API key are not called.
MayEnd == \A n \in graphs[turn] : heard[turn][n] = <<>> \/ ~MayBeCalled(heard[turn][n])

ReplayData ==
    LET nodes == SetToSeq({n \in ReplayNode : unsaved[n] # <<>>})
    IN  [i \in DOMAIN nodes |-> [node |-> nodes[i], responses |-> unsaved[nodes[i]]]]

NextTurn ==
    IF turn < Len(graphs) THEN turn' = turn + 1 /\ UNCHANGED phase
    ELSE turn' = 1 /\ phase' = "replay"

\* The end of _execute writes what was recorded; the next has fresh nodes.
EndExecute ==
    /\ phase = "live" /\ MayEnd
    /\ trace' = trace \o ReplayData
    /\ unsaved' = NoAnswers
    /\ NextTurn
    /\ UNCHANGED <<graphs, heard, broken, cursor, given>>

\* A pause between batches: _execute returns, and a resume calls it for the rest of the graph.
PauseExecute ==
    /\ phase = "live" /\ unsaved # NoAnswers /\ MayEnd
    /\ trace' = trace \o ReplayData
    /\ unsaved' = NoAnswers
    /\ UNCHANGED <<graphs, phase, turn, heard, broken, cursor, given>>

\* A crash, or a deadlock error of the executor: nothing of this call reaches the trace.
BreakExecute ==
    /\ phase = "live"
    /\ unsaved' = NoAnswers
    /\ broken' = TRUE
    /\ NextTurn
    /\ UNCHANGED <<graphs, heard, trace, cursor, given>>

-----------------------------------------------------------------------------
\* ReplayProvider.__init__: the responses of all executions of a node, one after the other.
Provided(n) ==
    FlattenSeq([i \in DOMAIN trace |-> IF trace[i].node = n THEN trace[i].responses ELSE <<>>])

Idle == \A n \in ReplayNode : cursor[n] = <<>> /\ given[turn][n] = <<>>

\* inject, once for each execution: strict, so every node of the graph must have been recorded,
\* and from the first response on.
Inject ==
    /\ phase = "replay" /\ Idle
    /\ IF \E n \in graphs[turn] : Provided(n) = <<>>
       THEN phase' = "refused" /\ UNCHANGED cursor
       ELSE /\ cursor' = [n \in ReplayNode |->
                             IF n \in graphs[turn] THEN Provided(n) ELSE <<>>]
            /\ UNCHANGED phase
    /\ UNCHANGED <<graphs, turn, heard, unsaved, trace, broken, given>>

Exhausted(n) == [turn |-> 0, node |-> n, attempt |-> 0, outcome |-> "persistent"]

\* A response tells that an attempt failed, not why: the replayed failure counts as persistent,
\* whatever it was in the run, and is not attempted again. The answers of a node come out again if
\* they are one, completed or a persistent failure.
Plain(answers) ==
    answers # <<>> => Len(answers) = 1 /\ answers[1].outcome \in {"completed", "persistent"}

\* As long as the answers come out as in the run, the executor calls the nodes that it called then.
Differs ==
    broken \/ \E n \in graphs[turn] :
        given[turn][n] # <<>> /\ ~(given[turn][n] = heard[turn][n] /\ Plain(heard[turn][n]))
CalledThen(n) == heard[turn][n] # <<>>

\* A node that the execution calls takes its next response, or fails when there is none.
Repeat(n) ==
    /\ phase = "replay" /\ ~Idle
    /\ n \in graphs[turn] /\ given[turn][n] = <<>>
    /\ CalledThen(n) \/ Differs
    /\ LET response == IF cursor[n] = <<>> THEN Exhausted(n) ELSE Head(cursor[n])
       IN  given' = [given EXCEPT ![turn][n] = <<response>>]
    /\ cursor' = IF cursor[n] = <<>> THEN cursor ELSE [cursor EXCEPT ![n] = Tail(@)]
    /\ UNCHANGED <<graphs, phase, turn, heard, unsaved, trace, broken>>

Reproduced(i) == \A n \in graphs[i] : given[i][n] = heard[i][n] /\ Plain(heard[i][n])

\* The replay is followed for as long as its executions come out as those of the run.
EndRepeat ==
    /\ phase = "replay" /\ ~Idle
    /\ \A n \in graphs[turn] : given[turn][n] # <<>> \/ ~CalledThen(n) \/ Differs
    /\ cursor' = NoAnswers
    /\ IF turn < Len(graphs) /\ Reproduced(turn)
       THEN turn' = turn + 1 /\ UNCHANGED phase
       ELSE phase' = "ended" /\ UNCHANGED turn
    /\ UNCHANGED <<graphs, heard, unsaved, trace, broken, given>>

ReplayNext ==
    \/ \E n \in ReplayNode : Repeat(n) \/ \E outcome \in Outcome : Answer(n, outcome)
    \/ EndExecute \/ PauseExecute \/ BreakExecute
    \/ Inject \/ EndRepeat

ReplaySpec == ReplayInit /\ [][ReplayNext]_replayVars

-----------------------------------------------------------------------------
ReplayTypeOK ==
    /\ phase \in {"live", "replay", "refused", "ended"}
    /\ turn \in DOMAIN graphs
    /\ broken \in BOOLEAN
    /\ \A n \in ReplayNode : Len(cursor[n]) <= Len(graphs) * MaxAttempts
    /\ \A i \in DOMAIN graphs : \A n \in ReplayNode :
          Len(heard[i][n]) <= MaxAttempts /\ Len(given[i][n]) <= 1

\* No call of _execute was cut off, and no node is part of two executions.
Unmixed ==
    ~broken /\ \A i, j \in DOMAIN graphs : i # j => graphs[i] \intersect graphs[j] = {}

\* What a strict replay can follow to its end: besides, each node of a graph was called, and no
\* failure was attempted again or of another class than the replayed one.
Replayable ==
    Unmixed /\ \A i \in DOMAIN graphs : \A n \in graphs[i] : heard[i][n] # <<>> /\ Plain(heard[i][n])

\* A replay gives a node nothing but what the same node answered in the run, so that it never runs
\* out of responses, and refuses only a run in which a node was not called or not recorded. Of a
\* run without mixed or cut executions, pauses included, it gives each node its first answer of the
\* same execution; and if these are all its answers, the whole run comes out again (inject,
\* set_replay_responses, classify_failure).
ReplaySame ==
    /\ \A i \in DOMAIN graphs : \A n \in ReplayNode :
          ToSet(given[i][n]) \subseteq UNION {ToSet(heard[j][n]) : j \in DOMAIN graphs}
    /\ phase = "refused" => broken \/ \E i \in DOMAIN graphs : \E n \in graphs[i] : heard[i][n] = <<>>
    /\ Unmixed => \A i \in DOMAIN graphs : \A n \in graphs[i] :
                      given[i][n] = <<>> \/ given[i][n] = <<heard[i][n][1]>>
    /\ Replayable /\ phase = "ended" => \A i \in DOMAIN graphs : Reproduced(i)
====
