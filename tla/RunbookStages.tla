---- MODULE RunbookStages ----
(* Orchestrator._run_runbook of neuronium_agent/core/orchestrator.py: the stages of a runbook, *)
(* each COMMIT, EXECUTE, CONTROL, ADAPT, with local fixes, recovery decisions and a checkpoint *)
(* at every phase boundary; a crash between any two of its durable writes; and what control    *)
(* commands and resume_run make of the latest checkpoint afterwards. Commands given while the  *)
(* stages run are module RunControl.                                                           *)
EXTENDS Recovery, AgentState

CONSTANTS
    Node,           \* node ids
    None,           \* Python's None
    Runbooks,       \* the runbooks a run may select: sequences of stages
    CriticAnswer,   \* what a critic may answer, of AnyAnswer below
    MaxCrashes,     \* bound of the model: crashes of the process
    MaxCommands     \* bound of the model: control commands

\* A verdict that passes; PASS without evidence; a negative verdict without and with gaps or
\* suggestions; a JSON object that is no verdict; a verdict with an extra field, PASS and
\* evidence included; no JSON at all; a JSON array.
AnyAnswer == {"pass", "bare", "fail", "hint", "odd", "extra", "text", "list"}

\* ActionGraphStage with its StageSuccessGate.
IsStage(s) ==
    /\ s.required \subseteq Node
    /\ s.critic \in Node \union {None}
    /\ s.exit \in BOOLEAN          \* exit_run_on_success
    /\ s.proceed \in BOOLEAN       \* proceed_to_next_stage_on_fail
    /\ s.plan \in {"static", "builder", "dynamic"}

ASSUME NoneAssumption == None \notin Node \union AnyAnswer \union RunState
ASSUME AnswerAssumption == CriticAnswer \subseteq AnyAnswer
ASSUME RunbookAssumption ==
    \A r \in Runbooks : Len(r) \in Nat \ {0} /\ \A i \in 1 .. Len(r) : IsStage(r[i])
ASSUME BoundAssumption == MaxCrashes \in Nat /\ MaxCommands \in Nat

VARIABLES
    config, runbook,  \* fixed for the run
    db,               \* runs.state in the index store
    cp,               \* the latest checkpoint whose boundary is in PHASE_BOUNDARIES, or None
    mem,              \* AgentState.run_state in memory; None once the process is gone
    pc,               \* where _run_runbook is
    ctx,              \* resume_ctx: the checkpoint resumed from, or None
    stage,            \* stage_index + 1
    results,          \* the results of the stage; None if it was not executed in this session
    skipControl, snapshot, verdict, retries, history, fixes,   \* the stage's local variables
    executions,       \* history: executions of this plan of the stage in this session
    truth,            \* history: what the last execution of each stage deserved
    crashes, commands

vars == <<config, runbook, db, cp, mem, pc, ctx, stage, results, skipControl, snapshot, verdict,
          retries, history, fixes, executions, truth, crashes, commands>>

fixed == <<config, runbook>>
durable == <<db, cp>>
local == <<results, skipControl, snapshot, verdict, retries, history, fixes, executions>>
bounds == <<crashes, commands>>

This == runbook[stage]

----
(* Results, gate and snapshot *)

Results(c) ==
    [status : [Node -> FinalStatus(c) \union {"MISSING"}], answer : CriticAnswer \union {None}]

\* What the required nodes and the critic of a stage can come to: a skipped node has no result,
\* and only a critic that COMPLETED answers.
Outcomes(s) ==
    {o \in Results(config) :
        /\ \A n \in Node \ (s.required \union {s.critic}) : o.status[n] = "MISSING"
        /\ o.answer # None <=> s.critic # None /\ o.status[s.critic] = "COMPLETED"}

RequiredOk(s, o) == \A n \in s.required : o.status[n] = "COMPLETED"
Answered(s, o) == o.status[s.critic] = "COMPLETED"

\* _extract_verdict: "hint" has gaps or suggestions to retry with. Whatever is no verdict
\* becomes UNCERTAIN with a gap, and so does PASS without evidence.
ExtractVerdict(s, o) ==
    IF ~Answered(s, o) THEN "hint"
    ELSE IF o.answer \in {"pass", "fail"} THEN o.answer
    ELSE "hint"

Snapshots == [requiredOk : BOOLEAN, critic : {None, "pass", "bare", "fail", "hint", "odd"}]

\* Mutant: a critic node that completed is taken to have passed.
GateSnapshotOfNode(s, o) ==
    [requiredOk |-> RequiredOk(s, o),
     critic |-> IF s.critic = None THEN None ELSE IF Answered(s, o) THEN "pass" ELSE "hint"]

\* _build_gate_snapshot copies the fields without validating them. A JSON array has no fields:
\* the AttributeError is not caught there.
Snapshottable(s, o) == s.critic # None /\ Answered(s, o) => o.answer # "list"

GateSnapshot(s, o) ==
    [requiredOk |-> RequiredOk(s, o),
     critic |-> IF s.critic = None THEN None
                ELSE IF ~Answered(s, o) THEN "hint"
                ELSE IF o.answer = "extra" THEN "pass"
                ELSE IF o.answer = "text" THEN "fail"
                ELSE o.answer]

\* Mutant: the rebuilt verdict is not looked at again.
RebuiltVerdictAsIs(snap) == snap.critic

\* The verdict rebuilt from a snapshot; pydantic rejects one that is no verdict.
Rebuildable(snap) == snap.critic # "odd"
RebuiltVerdict(snap) == IF snap.critic = "bare" THEN "fail" ELSE snap.critic

\* What the gate is to find out, from the results themselves. An answer with an extra field is
\* UNCERTAIN where the results are read (the schema forbids it) and PASS where the snapshot is,
\* which copies the fields it knows (line 1920): "extra" is a stage to which that may happen,
\* and EnterStage turns it into "reread" when it does.
Merit(s, o) ==
    IF ~RequiredOk(s, o) THEN "failed"
    ELSE IF s.critic = None \/ ExtractVerdict(s, o) = "pass" THEN "passed"
    ELSE IF Answered(s, o) /\ o.answer = "extra" THEN "extra"
    ELSE "failed"

Merits == {"unknown", "passed", "failed", "extra", "reread"}

\* Mutant: what cannot be evaluated has not failed.
EvaluateGateLenient(s, o, v, snap) ==
    /\ IF o # None THEN RequiredOk(s, o) ELSE snap # None => snap.requiredOk
    /\ s.critic = None \/ IF v # None THEN v = "pass" ELSE snap # None => snap.critic = "pass"

\* _evaluate_gate
EvaluateGate(s, o, v, snap) ==
    /\ IF o # None THEN RequiredOk(s, o) ELSE snap # None /\ snap.requiredOk
    /\ s.critic = None \/ IF v # None THEN v = "pass" ELSE snap # None /\ snap.critic = "pass"

----
(* Checkpoints and run state *)

\* A checkpoint: its boundary, the run state in its agent_state, and of its resume_context the
\* stage (the first one if it has no stage_index), stage_retry_count, gate_snapshot, planned_graph.
Checkpoint(boundary, st, s, r, snap, planned) ==
    [boundary |-> boundary, state |-> st, stage |-> s, retries |-> r, snapshot |-> snap,
     planned |-> planned]

Checkpoints ==
    [boundary : {"after_commit", "after_execute", "after_control", "paused", "final"},
     state : RunState, stage : Nat, retries : Nat, snapshot : Snapshots \union {None},
     planned : BOOLEAN]

ASSUME RecordAssumption ==
    None \notin Snapshots \union Checkpoints /\ \A c \in Config : None \notin Results(c)

\* Mutant: the checkpoint names the stage by its iteration, which is one more than its index.
RecordPhaseIteration(boundary, r, snap, planned) ==
    cp' = IF stage <= 2
          THEN Checkpoint(boundary, mem,
                          IF stage < Len(runbook) THEN stage + 1 ELSE stage, r, snap, planned)
          ELSE cp

\* PHASE_BOUNDARIES lists the boundaries of iterations 1 and 2 only: later ones are recorded, but
\* get_latest_phase_boundary_checkpoint passes over them.
RecordPhase(boundary, r, snap, planned) ==
    cp' = IF stage <= 2 THEN Checkpoint(boundary, mem, stage, r, snap, planned) ELSE cp

\* transition_to followed by update_run_state.
MoveTo(st) == mem' = st /\ db' = st

\* _run_runbook returns or raises: its locals are gone.
Leave ==
    /\ pc' = "idle" /\ ctx' = None /\ stage' = 1
    /\ results' = None /\ skipControl' = FALSE /\ snapshot' = None /\ verdict' = None
    /\ retries' = 0 /\ history' = <<>> /\ fixes' = 0 /\ executions' = 0

\* Its exception handler: the run is FAILED, and no checkpoint says so.
Raise ==
    /\ MoveTo("FAILED") /\ Leave
    /\ UNCHANGED <<fixed, cp, truth, bounds>>

Init ==
    /\ config \in Config /\ runbook \in Runbooks
    /\ db = "PENDING" /\ cp = None /\ mem = "PENDING"
    /\ pc = "begin" /\ ctx = None /\ stage = 1
    /\ results = None /\ skipControl = FALSE /\ snapshot = None /\ verdict = None
    /\ retries = 0 /\ history = <<>> /\ fixes = 0 /\ executions = 0
    /\ truth = [i \in 1 .. Len(runbook) |-> "unknown"]
    /\ crashes = 0 /\ commands = 0

----
(* One pass of _run_runbook *)

\* The LLM is not configured, or the runbook is not registered.
Preflight == pc = "begin" /\ Raise

Begin ==
    /\ pc = "begin"
    /\ IF ctx = None THEN MoveTo("RUNNING") ELSE UNCHANGED <<mem, db>>
    /\ stage' = IF ctx = None THEN 1 ELSE ctx.stage
    /\ pc' = "stage"
    /\ UNCHANGED <<fixed, cp, ctx, local, truth, bounds>>

Resuming == ctx # None /\ ctx.stage = stage
SkipExecute == Resuming /\ ctx.boundary \in {"after_execute", "after_control"}

\* A planned stage resumed past its COMMIT needs the graph planned then.
PlanLost == SkipExecute /\ This.plan # "static" /\ ~ctx.planned

ResumeWithoutPlan == pc = "stage" /\ PlanLost /\ Raise

EnterStage ==
    /\ pc = "stage" /\ ~PlanLost
    /\ results' = None
    /\ skipControl' = (Resuming /\ ctx.boundary = "after_control")
    /\ snapshot' = IF SkipExecute THEN ctx.snapshot ELSE None
    /\ verdict' = None
    /\ retries' = IF Resuming THEN ctx.retries ELSE 0
    /\ history' = <<>> /\ fixes' = 0 /\ executions' = 0
    /\ truth' = IF snapshot' # None /\ truth[stage] = "extra"
                THEN [truth EXCEPT ![stage] = "reread"] ELSE truth
    /\ pc' = IF SkipExecute THEN "control" ELSE "commit"
    /\ UNCHANGED <<fixed, durable, mem, ctx, stage, bounds>>

\* COMMIT: the planner or the graph builder gives the graph, asks the user, or raises.
Commit ==
    /\ pc = "commit"
    /\ RecordPhase("after_commit", 0, None, This.plan # "static")
    /\ pc' = "execute"
    /\ UNCHANGED <<fixed, db, mem, ctx, stage, local, truth, bounds>>

PlanFails == pc \in {"commit", "replan"} /\ This.plan # "static" /\ Raise

PlannerAsks ==
    /\ pc \in {"commit", "replan"} /\ This.plan = "dynamic"
    /\ MoveTo("PAUSED")
    /\ pc' = "asking"
    /\ UNCHANGED <<fixed, cp, ctx, stage, local, truth, bounds>>

\* EXECUTE: _execute runs the graph (module DagExecutor); then snapshot and checkpoint.
Execute ==
    /\ pc = "execute"
    /\ results' \in Outcomes(This)
    /\ truth' = [truth EXCEPT ![stage] = Merit(This, results')]
    /\ executions' = executions + 1
    /\ pc' = "executed"
    /\ UNCHANGED <<fixed, durable, mem, ctx, stage, skipControl, snapshot, verdict, retries,
                   history, fixes, bounds>>

\* Neither graph nor configuration is sure to work: a deadlock of the executor, results of a
\* checkpoint that do not validate, an adapter that cannot be configured.
ExecuteFails == pc = "execute" /\ Raise

RecordExecution ==
    /\ pc = "executed" /\ Snapshottable(This, results)
    /\ snapshot' = GateSnapshot(This, results)
    /\ RecordPhase("after_execute", retries, snapshot', This.plan = "dynamic")
    /\ pc' = "control"
    /\ UNCHANGED <<fixed, db, mem, ctx, stage, results, skipControl, verdict, retries, history,
                   fixes, truth, executions, bounds>>

SnapshotFails == pc = "executed" /\ ~Snapshottable(This, results) /\ Raise

\* CONTROL: the verdict, from the results or else from the snapshot.
FromSnapshot == results = None /\ This.critic # None /\ snapshot # None

Control ==
    /\ pc = "control" /\ ~skipControl /\ (FromSnapshot => Rebuildable(snapshot))
    /\ verdict' = IF This.critic = None THEN None
                  ELSE IF results # None THEN ExtractVerdict(This, results)
                  ELSE IF snapshot # None THEN RebuiltVerdict(snapshot)
                  ELSE None
    /\ RecordPhase("after_control", retries, None, This.plan = "dynamic")
    /\ pc' = "adapt"
    /\ UNCHANGED <<fixed, db, mem, ctx, stage, results, skipControl, snapshot, retries, history,
                   fixes, truth, executions, bounds>>

RebuildFails ==
    pc = "control" /\ ~skipControl /\ FromSnapshot /\ ~Rebuildable(snapshot) /\ Raise

SkipControl ==
    /\ pc = "control" /\ skipControl
    /\ pc' = "adapt"
    /\ UNCHANGED <<fixed, durable, mem, ctx, stage, local, truth, bounds>>

----
(* ADAPT *)

Passed == EvaluateGate(This, results, verdict, snapshot)
Stays == ~Passed /\ ~This.proceed

\* Mutant: the stage index is not advanced.
NextStageForgets ==
    /\ pc = "adapt" /\ stage < Len(runbook)
    /\ IF Passed THEN ~This.exit ELSE This.proceed
    /\ pc' = "stage"
    /\ UNCHANGED <<fixed, durable, mem, ctx, stage, local, truth, bounds>>

NextStage ==
    /\ pc = "adapt" /\ stage < Len(runbook)
    /\ IF Passed THEN ~This.exit ELSE This.proceed
    /\ stage' = stage + 1
    /\ pc' = "stage"
    /\ UNCHANGED <<fixed, durable, mem, ctx, local, truth, bounds>>

\* exit_run_on_success, or the loop over the stages is through.
Complete ==
    /\ pc = "adapt"
    /\ (Passed /\ This.exit) \/ (~Stays /\ stage = Len(runbook))
    /\ MoveTo("COMPLETED")
    /\ pc' = "final"
    /\ UNCHANGED <<fixed, cp, ctx, stage, local, truth, bounds>>

CriticFailed == This.critic # None /\ verdict # "pass"

Fixable ==
    CriticFailed /\ verdict = "hint" /\ results # None /\ fixes < config.maxVerdictFixes

\* The stage is executed again with the critic's gaps and suggestions as inputs.
LocalFix ==
    /\ pc = "adapt" /\ Stays /\ Fixable
    /\ fixes' = fixes + 1
    /\ skipControl' = FALSE
    /\ pc' = "execute"
    /\ UNCHANGED <<fixed, durable, mem, ctx, stage, results, snapshot, verdict, retries, history,
                   truth, executions, bounds>>

FailedNodes ==
    IF results = None THEN {}
    ELSE {n \in This.required : results.status[n] \notin {"COMPLETED", "MISSING"}}

Decision ==
    DecideRecovery(FailedNodes, IF results = None THEN <<>> ELSE results.status, CriticFailed,
                   retries, history, This.plan = "dynamic", config)

Decides(action) == pc = "adapt" /\ Stays /\ ~Fixable /\ Decision = action

FailRun ==
    /\ Decides("FAIL")
    /\ MoveTo("FAILED")
    /\ pc' = "final"
    /\ UNCHANGED <<fixed, cp, ctx, stage, local, truth, bounds>>

Escalate ==
    /\ Decides("ESCALATE")
    /\ MoveTo("PAUSED")
    /\ pc' = "escalating"
    /\ UNCHANGED <<fixed, cp, ctx, stage, local, truth, bounds>>

\* The planner is asked for another graph. (Without one decide_recovery never answers REPLAN.)
Replan ==
    /\ Decides("REPLAN")
    /\ pc' = "replan"
    /\ UNCHANGED <<fixed, durable, mem, ctx, stage, local, truth, bounds>>

Replanned ==
    /\ pc = "replan"
    /\ results' = None /\ skipControl' = FALSE /\ executions' = 0
    /\ pc' = "execute"
    /\ UNCHANGED <<fixed, durable, mem, ctx, stage, snapshot, verdict, retries, history, fixes,
                   truth, bounds>>

RetryStage ==
    /\ Decides("RETRY_STAGE")
    /\ history' = Append(history, FailedNodes)
    /\ retries' = retries + 1
    /\ skipControl' = FALSE
    /\ pc' = "execute"
    /\ UNCHANGED <<fixed, durable, mem, ctx, stage, results, snapshot, verdict, fixes, truth,
                   executions, bounds>>

\* The checkpoint that follows the change of run state.
WriteFinal ==
    /\ pc = "final"
    /\ cp' = Checkpoint("final", mem, 1, 0, None, FALSE)
    /\ pc' = "finalize"
    /\ UNCHANGED <<fixed, db, mem, ctx, stage, local, truth, bounds>>

WriteEscalation ==
    /\ pc = "escalating"
    /\ cp' = Checkpoint("paused", mem, stage, retries, None, FALSE)
    /\ pc' = "finalize"
    /\ UNCHANGED <<fixed, db, mem, ctx, stage, local, truth, bounds>>

WriteQuestions ==
    /\ pc = "asking"
    /\ cp' = Checkpoint("paused", mem, stage, 0, None, FALSE)
    /\ Leave
    /\ UNCHANGED <<fixed, db, mem, truth, bounds>>

\* _finalize_run stores and renders the results. If it raises, the handler makes a run FAILED
\* that its checkpoint calls COMPLETED or PAUSED.
Finalize ==
    /\ pc = "finalize"
    /\ Leave
    /\ UNCHANGED <<fixed, durable, mem, truth, bounds>>

FinalizeFails == pc = "finalize" /\ results # None /\ Raise

Worker ==
    \/ Preflight \/ Begin \/ ResumeWithoutPlan \/ EnterStage
    \/ Commit \/ PlanFails \/ PlannerAsks
    \/ Execute \/ ExecuteFails \/ RecordExecution \/ SnapshotFails
    \/ Control \/ RebuildFails \/ SkipControl
    \/ NextStage \/ Complete \/ LocalFix \/ FailRun \/ Escalate \/ Replan \/ Replanned \/ RetryStage
    \/ WriteFinal \/ WriteEscalation \/ WriteQuestions \/ Finalize \/ FinalizeFails

----
(* Between two passes: the process ends, commands are applied, the run is resumed *)

\* Killed while running, or gone after _run_runbook returned.
Crash ==
    /\ mem # None
    /\ pc # "idle" => crashes < MaxCrashes
    /\ crashes' = IF pc = "idle" THEN crashes ELSE crashes + 1
    /\ mem' = None
    /\ Leave
    /\ UNCHANGED <<fixed, durable, truth, commands>>

\* apply_control reads the state in memory, or else that of the checkpoint: never the store's.
Known == IF mem # None THEN mem ELSE IF cp # None THEN cp.state ELSE None

\* A process started only for the command forgets the state again.
Apply(to) ==
    /\ pc = "idle" /\ commands < MaxCommands
    /\ Known # None /\ CanTransition(Known, to)
    /\ db' = to
    /\ mem' = IF mem = None THEN None ELSE to
    /\ commands' = commands + 1
    /\ UNCHANGED <<fixed, pc, ctx, stage, local, truth, crashes>>

\* The checkpoint of a command on a paused run names no stage.
BarePaused == cp' = Checkpoint("paused", "PAUSED", 1, 0, None, FALSE)

PauseIdle == Apply("PAUSED") /\ BarePaused
Continue == Apply("RUNNING") /\ cp' = cp
StopIdle == Apply("CANCELLED") /\ cp' = cp

Revise ==
    /\ pc = "idle" /\ commands < MaxCommands
    /\ Known = "PAUSED" /\ BarePaused
    /\ commands' = commands + 1
    /\ UNCHANGED <<fixed, db, mem, pc, ctx, stage, local, truth, crashes>>

\* resume_run
Resume ==
    /\ pc = "idle" /\ db = "RUNNING" /\ cp # None
    /\ mem' = "RUNNING" /\ ctx' = cp
    /\ pc' = "begin"
    /\ UNCHANGED <<fixed, durable, stage, local, truth, bounds>>

Next == Worker \/ Crash \/ PauseIdle \/ Continue \/ StopIdle \/ Revise \/ Resume

Spec == Init /\ [][Next]_vars

\* The thread that runs _run_runbook keeps running until its process ends.
FairSpec == Spec /\ WF_vars(Worker)

----
\* A checkpoint names a stage of the runbook.
IsCheckpoint(c) == c = None \/ (c \in Checkpoints /\ c.stage \in 1 .. Len(runbook))

\* What the gate looks at are results of this very stage.
ResultsOfStage ==
    /\ pc = "executed" => results # None
    /\ pc \in {"executed", "control", "adapt"} /\ results # None => results \in Outcomes(This)

\* The type of every variable; a worker inside _run_runbook has its run state in memory.
TypeOK ==
    /\ config \in Config /\ runbook \in Runbooks
    /\ db \in RunState /\ mem \in RunState \union {None}
    /\ mem = None => pc = "idle"
    /\ IsCheckpoint(cp) /\ IsCheckpoint(ctx)
    /\ stage \in 1 .. Len(runbook)
    /\ skipControl \in BOOLEAN /\ snapshot \in Snapshots \union {None}
    /\ results \in Results(config) \union {None} /\ ResultsOfStage
    /\ verdict \in {None, "pass", "hint", "fail"}
    /\ retries \in Nat /\ fixes \in Nat /\ executions \in Nat
    /\ history \in Seq(SUBSET Node)
    /\ truth \in [1 .. Len(runbook) -> Merits]

\* What the gate of a stage is to answer: the last execution deserved it, or its critic's extra
\* field was lost when the stage was resumed from a snapshot.
Passes(i) == truth[i] \in {"passed", "reread"}
Settled(i) == Passes(i) \/ (truth[i] \in {"failed", "extra"} /\ runbook[i].proceed)

\* A run is COMPLETED only after executing its stages in order, each with results its gate passes
\* or with leave to proceed, up to the last one or to one that passed and exits the run: whatever
\* crashed, was escalated or resumed from a checkpoint on the way (lines 1101-1150, 1421-1423).
\* One exception is known and named: a stage resumed from a snapshot may owe its pass to a
\* critic's answer that the live gate rejects for an extra field ("reread", line 1920).
CompletedThroughGates ==
    db = "COMPLETED" =>
        \E k \in 1 .. Len(runbook) :
            /\ \A i \in 1 .. k : Settled(i)
            /\ k = Len(runbook) \/ (runbook[k].exit /\ Passes(k))

\* Neither the worker nor the checkpoint it could be resumed from is ever past a stage that has
\* not been executed and settled (lines 698-703), settled by a reread answer included.
StagesInOrder ==
    /\ pc \notin {"idle", "begin"} => \A i \in 1 .. stage - 1 : Settled(i)
    /\ cp # None => \A i \in 1 .. cp.stage - 1 : Settled(i)

\* If CONTROL was still to come at the checkpoint, a gate evaluated from its snapshot decides as
\* it would have on the results (lines 1057, 1063-1070 and 1954-1980) for every answer but one: a
\* PASS with evidence and an extra field fails the live gate and passes the resumed one.
SnapshotDecidesAlike == pc = "adapt" /\ ~skipControl => (Passed <=> Passes(stage))

\* In one session a plan of a stage is executed at most once, plus once per stage retry and per
\* local fix, the retries made before a resume counting too (lines 785-789, 1186 and 1417).
SessionBounded ==
    /\ retries <= config.maxStageRetries /\ fixes <= config.maxVerdictFixes
    /\ executions <= 1 + retries + fixes

\* A stage is retried only under a setting that lets a node end TRANSIENT: max_node_retries below
\* retry_count_upgrade_threshold, which the defaults (3 and 2) are not (policy.py, lines 93-99).
RetryNeedsHeadroom ==
    retries > 0 => config.maxNodeRetries < config.upgradeThreshold

\* What the gate makes of a snapshot.
SnapshotPasses(s, snap) == snap.requiredOk /\ (s.critic # None => snap.critic = "pass")

\* A resume has set ctx and has not yet entered the stage it names.
Reentering == ctx # None /\ (pc = "begin" \/ (pc = "stage" /\ ctx.stage = stage))

\* A snapshot is kept after EXECUTE only, and passes if and only if the stage deserved it or
\* answered with an extra field.
CheckpointSound ==
    cp # None =>
        /\ cp.snapshot # None <=> cp.boundary = "after_execute"
        /\ cp.snapshot # None => cp.stage <= 2
        /\ cp.boundary \in {"after_execute", "after_control"} => truth[cp.stage] # "unknown"
        /\ cp.snapshot # None =>
             (SnapshotPasses(runbook[cp.stage], cp.snapshot) <=> truth[cp.stage] # "failed")

\* The worker is at or past the checkpoint, and about to execute only what no snapshot vouches for.
PositionSound ==
    /\ pc \notin {"idle", "begin"} =>
         /\ cp # None => cp.stage <= stage
         /\ ctx # None => ctx.stage <= stage
    /\ pc = "begin" /\ ctx = None => cp = None
    /\ Reentering => ctx = cp
    /\ (pc \in {"execute", "adapt", "replan"} \/ (pc = "control" /\ skipControl)) =>
           (cp # None /\ cp.stage = stage => cp.snapshot = None)
    /\ db = "COMPLETED" => pc \in {"final", "finalize", "idle"}

\* What the gate is about to decide by agrees with what the stage deserved.
EvidenceSound ==
    /\ pc \in {"commit", "execute", "executed"} => ~skipControl
    /\ pc = "control" /\ skipControl => verdict = None
    /\ pc \in {"executed", "control", "adapt"} =>
         /\ truth[stage] # "unknown"
         /\ results # None =>
              /\ ~skipControl
              /\ truth[stage] = Merit(This, results)
         /\ results = None /\ ~skipControl => snapshot # None
         /\ results = None /\ snapshot # None =>
              (SnapshotPasses(This, snapshot) <=> Passes(stage))
    /\ pc = "adapt" =>
         IF results # None
         THEN verdict = IF This.critic = None THEN None ELSE ExtractVerdict(This, results)
         ELSE verdict = IF This.critic = None \/ skipControl THEN None ELSE RebuiltVerdict(snapshot)

\* The inductive invariant behind CompletedThroughGates, StagesInOrder and SnapshotDecidesAlike.
Progress ==
    /\ CompletedThroughGates /\ StagesInOrder
    /\ CheckpointSound /\ PositionSound /\ EvidenceSound

\* The retries a checkpoint keeps.
WithinBudget(c) ==
    c # None =>
        /\ c.retries <= config.maxStageRetries
        /\ c.retries > 0 => config.maxNodeRetries < config.upgradeThreshold

\* The one behind SessionBounded and RetryNeedsHeadroom: what a checkpoint keeps of the retries,
\* and how many executions they have paid for so far.
Budgets ==
    /\ SessionBounded /\ RetryNeedsHeadroom
    /\ pc = "commit" => executions = 0
    /\ pc = "execute" => executions <= retries + fixes
    /\ WithinBudget(cp) /\ WithinBudget(ctx)

\* Without automatic replanning _run_runbook returns, whatever its nodes come to.
RunRests == ~config.autoReplan => [](pc # "idle" => <>(pc = "idle"))

\* A gate that passed before a crash passes after it, from either checkpoint.
ResumeDecidesAlike == pc = "adapt" => (Passed <=> Passes(stage))

\* state.py, lines 80-82: no transition leaves COMPLETED, FAILED or CANCELLED.
TerminalIsFinal == [][(db \in Terminal) => (db' = db)]_vars
====
