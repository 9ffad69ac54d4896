---- MODULE RunbookStagesProofs ----
(* Proofs about RunbookStages, for every set of runbooks and settings, with any number of     *)
(* crashes and commands: stages are left only settled, a COMPLETED run passed its gates, and   *)
(* the retry budgets hold.                                                                     *)
EXTENDS RunbookStages, TLAPS

\* The constants as the proofs need them.
LEMMA Constants ==
    /\ \A r \in Runbooks : Len(r) \in Nat \ {0} /\ \A i \in 1 .. Len(r) : IsStage(r[i])
    /\ \A c \in Config : IsConfig(c)
    /\ None \notin Node /\ None \notin AnyAnswer /\ None \notin RunState
    /\ CriticAnswer \subseteq AnyAnswer
    /\ None \notin Snapshots /\ None \notin Checkpoints /\ \A c \in Config : None \notin Results(c)
BY RecordAssumption, NoneAssumption, AnswerAssumption, RunbookAssumption, ConfigAssumption

\* The worker's stage is one of the runbook.
LEMMA ThisIsStage == ASSUME TypeOK PROVE IsStage(This)
BY Constants DEF TypeOK, This

\* What an execution of a stage comes to.
LEMMA OutcomeParts ==
    ASSUME NEW s, IsStage(s), NEW o \in Outcomes(s)
    PROVE  /\ o.status \in [Node -> FinalStatus(config) \union {"MISSING"}]
           /\ s.critic # None /\ o.status[s.critic] = "COMPLETED" => o.answer \in CriticAnswer
BY DEF Outcomes, Results

\* A snapshot is of its type, and passes if and only if the stage deserves it or its critic's
\* answer has a field too many.
LEMMA SnapshotTrue ==
    ASSUME NEW s, IsStage(s), NEW o \in Outcomes(s), Snapshottable(s, o)
    PROVE  /\ GateSnapshot(s, o) \in Snapshots
           /\ SnapshotPasses(s, GateSnapshot(s, o)) <=> Merit(s, o) # "failed"
           /\ Merit(s, o) \in {"passed", "failed", "extra"}
<1>1. s.critic # None /\ Answered(s, o) => o.answer \in CriticAnswer /\ o.answer \in AnyAnswer
      BY OutcomeParts, Constants DEF Answered
<1>2. None # "pass"
      BY Constants DEF AnyAnswer
<1> QED
    BY <1>1, <1>2
    DEF Snapshottable, GateSnapshot, Snapshots, SnapshotPasses, Merit, RequiredOk,
        ExtractVerdict, AnyAnswer

\* The run starts in its types.
LEMMA InitType == Init => TypeOK
<1> SUFFICES ASSUME Init PROVE TypeOK
    OBVIOUS
<1>1. stage \in 1 .. Len(runbook)
      BY Constants DEF Init
<1>2. <<>> \in Seq(SUBSET Node)
      OBVIOUS
<1>3. truth \in [1 .. Len(runbook) -> Merits]
      BY DEF Init, Merits
<1>4. mem # None /\ mem \in RunState
      BY Constants DEF Init, RunState
<1> QED
    BY <1>1, <1>2, <1>3, <1>4 DEF Init, TypeOK, RunState, IsCheckpoint, ResultsOfStage

\* The return of _run_runbook resets the locals.
LEMMA LeaveType ==
    ASSUME TypeOK, Leave, UNCHANGED <<config, runbook, truth>>, db' \in RunState,
           mem' \in RunState \union {None}, IsCheckpoint(cp)'
    PROVE  TypeOK'
<1>1. history' \in Seq(SUBSET Node)
      <2>1. <<>> \in Seq(SUBSET Node)
            OBVIOUS
      <2> QED
          BY <2>1 DEF Leave
<1>2. stage' \in 1 .. Len(runbook)'
      BY Constants DEF TypeOK, Leave
<1>3. IsCheckpoint(ctx)'
      BY DEF Leave, IsCheckpoint
<1> QED
    BY <1>1, <1>2, <1>3 DEF TypeOK, Leave, ResultsOfStage

\* A checkpoint stays one while the runbook does.
LEMMA KeepsCheckpoint ==
    ASSUME UNCHANGED runbook
    PROVE  /\ UNCHANGED cp /\ IsCheckpoint(cp) => IsCheckpoint(cp)'
           /\ UNCHANGED ctx /\ IsCheckpoint(ctx) => IsCheckpoint(ctx)'
BY DEF IsCheckpoint

LEMMA RaiseType == ASSUME TypeOK, Raise PROVE TypeOK'
<1>1. IsCheckpoint(cp)'
      BY DEF Raise, fixed, TypeOK, IsCheckpoint
<1> QED
    BY <1>1, LeaveType DEF Raise, MoveTo, RunState, fixed

\* What RecordPhase writes.
LEMMA RecordType ==
    ASSUME TypeOK, UNCHANGED runbook, mem # None,
           NEW b \in {"after_commit", "after_execute", "after_control"},
           NEW r \in Nat, NEW snap \in Snapshots \union {None}, NEW planned \in BOOLEAN,
           RecordPhase(b, r, snap, planned)
    PROVE  IsCheckpoint(cp)'
BY DEF TypeOK, RecordPhase, Checkpoint, Checkpoints, IsCheckpoint

\* While the worker stays at its stage, so do the outcomes it can have.
LEMMA SameStage ==
    ASSUME UNCHANGED <<config, runbook, stage>>
    PROVE  This' = This /\ Outcomes(This)' = Outcomes(This)
BY DEF This, Outcomes, Results

\* A step of the worker keeps the types.
LEMMA WorkerType == ASSUME TypeOK, Worker PROVE TypeOK'
<1>1. CASE \/ Preflight \/ ResumeWithoutPlan \/ PlanFails \/ ExecuteFails \/ SnapshotFails
           \/ RebuildFails \/ FinalizeFails
      BY <1>1, RaiseType
      DEF Preflight, ResumeWithoutPlan, PlanFails, ExecuteFails, SnapshotFails, RebuildFails,
          FinalizeFails
<1>2. CASE Begin
      <2>1. stage' \in 1 .. Len(runbook)'
            BY <1>2, Constants DEF Begin, TypeOK, ResultsOfStage, IsCheckpoint, fixed
      <2> QED
          BY <1>2, <2>1, Constants
          DEF Begin, MoveTo, TypeOK, ResultsOfStage, IsCheckpoint, RunState, fixed, local, bounds
<1>3. CASE EnterStage
      <2>1. retries' \in Nat /\ snapshot' \in Snapshots \union {None}
            BY <1>3
            DEF EnterStage, Resuming, SkipExecute, TypeOK, ResultsOfStage, IsCheckpoint, Checkpoints
      <2>2. history' \in Seq(SUBSET Node)
            <3>1. <<>> \in Seq(SUBSET Node)
                  OBVIOUS
            <3> QED
                BY <1>3, <3>1 DEF EnterStage
      <2>3. skipControl' \in BOOLEAN
            BY <1>3 DEF EnterStage
      <2>4. truth' \in [1 .. Len(runbook) -> Merits]
            BY <1>3 DEF EnterStage, TypeOK, Merits
      <2> QED
          BY <1>3, <2>1, <2>2, <2>3, <2>4
          DEF EnterStage, TypeOK, ResultsOfStage, IsCheckpoint, fixed, durable, bounds
<1>4. CASE Commit
      <2>1. IsCheckpoint(cp)'
            BY <1>4, RecordType DEF Commit, TypeOK, fixed
      <2> QED
          BY <1>4, <2>1 DEF Commit, TypeOK, ResultsOfStage, IsCheckpoint, fixed, local, bounds
<1>5. CASE PlannerAsks \/ Complete \/ FailRun \/ Escalate
      BY <1>5, Constants
      DEF PlannerAsks, Complete, FailRun, Escalate, Decides, MoveTo, TypeOK, ResultsOfStage,
          IsCheckpoint, RunState, fixed, local, bounds
<1>6. CASE Execute
      <2>1. results' \in Outcomes(This) /\ results' \in Results(config)
            BY <1>6 DEF Execute, Outcomes
      <2>3. results' # None
            BY <2>1, Constants DEF TypeOK
      <2>2. truth' \in [1 .. Len(runbook) -> Merits]
            BY <1>6 DEF Execute, TypeOK, Merit, Merits
      <2> QED
          BY <1>6, <2>1, <2>2, <2>3, SameStage
          DEF Execute, TypeOK, ResultsOfStage, IsCheckpoint, fixed, durable, bounds
<1>7. CASE RecordExecution
      <2>1. snapshot' \in Snapshots
            <3>1. IsStage(This) /\ results \in Outcomes(This)
                  BY <1>7, ThisIsStage DEF RecordExecution, TypeOK, ResultsOfStage
            <3> QED
                BY <1>7, <3>1, SnapshotTrue DEF RecordExecution
      <2>2. IsCheckpoint(cp)'
            BY <1>7, <2>1, RecordType DEF RecordExecution, TypeOK, fixed
      <2> QED
          BY <1>7, <2>1, <2>2, SameStage
          DEF RecordExecution, TypeOK, ResultsOfStage, IsCheckpoint, fixed, bounds
<1>8. CASE Control
      <2>1. verdict' \in {None, "pass", "hint", "fail"}
            BY <1>8
            DEF Control, FromSnapshot, Rebuildable, RebuiltVerdict, ExtractVerdict, Snapshots,
                TypeOK
      <2>2. IsCheckpoint(cp)'
            BY <1>8, RecordType DEF Control, TypeOK, fixed
      <2> QED
          BY <1>8, <2>1, <2>2, SameStage
          DEF Control, TypeOK, ResultsOfStage, IsCheckpoint, fixed, bounds
<1>9. CASE SkipControl
      BY <1>9, SameStage
      DEF SkipControl, TypeOK, ResultsOfStage, IsCheckpoint, fixed, durable, local, bounds
<1>10. CASE NextStage
      <2>1. stage' \in 1 .. Len(runbook)
            BY <1>10, Constants DEF NextStage, TypeOK
      <2> QED
          BY <1>10, <2>1
          DEF NextStage, TypeOK, ResultsOfStage, IsCheckpoint, fixed, durable, local, bounds
<1>11. CASE LocalFix
      <2>1. fixes' \in Nat /\ mem' # None
            BY <1>11 DEF LocalFix, TypeOK
      <2> QED
          BY <1>11, <2>1 DEF LocalFix, TypeOK, ResultsOfStage, IsCheckpoint, fixed, durable, bounds
<1>12. CASE Replan
      BY <1>12
      DEF Replan, Decides, TypeOK, ResultsOfStage, IsCheckpoint, fixed, durable, local, bounds
<1>13. CASE Replanned
      BY <1>13 DEF Replanned, TypeOK, ResultsOfStage, IsCheckpoint, fixed, durable, bounds
<1>14. CASE RetryStage
      <2>1. FailedNodes \in SUBSET Node
            BY <1>14, ThisIsStage DEF FailedNodes, IsStage
      <2>2. history' \in Seq(SUBSET Node)
            BY <1>14, <2>1 DEF RetryStage, TypeOK
      <2>3. retries' \in Nat /\ mem' # None
            BY <1>14 DEF RetryStage, Decides, TypeOK
      <2> QED
          BY <1>14, <2>2, <2>3
          DEF RetryStage, Decides, TypeOK, ResultsOfStage, IsCheckpoint, fixed, durable, bounds
<1>15. CASE WriteFinal \/ WriteEscalation \/ WriteQuestions
      <2>1. mem \in RunState
            BY <1>15 DEF WriteFinal, WriteEscalation, WriteQuestions, TypeOK
      <2>2. /\ 1 \in 1 .. Len(runbook) /\ stage \in 1 .. Len(runbook)
            /\ stage \in Nat /\ retries \in Nat
            BY Constants DEF TypeOK
      <2>3. IsCheckpoint(cp)'
            <3>1. CASE WriteFinal
                  BY <3>1, <2>1, <2>2 DEF WriteFinal, Checkpoint, Checkpoints, IsCheckpoint, fixed
            <3>2. CASE WriteEscalation
                  BY <3>2, <2>1, <2>2
                  DEF WriteEscalation, Checkpoint, Checkpoints, IsCheckpoint, fixed
            <3>3. CASE WriteQuestions
                  BY <3>3, <2>1, <2>2
                  DEF WriteQuestions, Checkpoint, Checkpoints, IsCheckpoint, fixed
            <3> QED
                BY <1>15, <3>1, <3>2, <3>3
      <2>4. CASE WriteQuestions
            BY <2>1, <2>3, <2>4, LeaveType DEF WriteQuestions, TypeOK, fixed
      <2>5. CASE WriteFinal \/ WriteEscalation
            BY <2>1, <2>3, <2>5, KeepsCheckpoint, Constants
            DEF WriteFinal, WriteEscalation, TypeOK, ResultsOfStage, fixed, local, bounds
      <2> QED
          BY <1>15, <2>4, <2>5
<1>16. CASE Finalize
      BY <1>16, LeaveType, KeepsCheckpoint DEF Finalize, TypeOK, fixed, durable
<1> QED
    BY <1>1, <1>2, <1>3, <1>4, <1>5, <1>6, <1>7, <1>8, <1>9, <1>10, <1>11, <1>12,
       <1>13, <1>14, <1>15, <1>16 DEF Worker

\* So does a step between two passes.
LEMMA OtherType ==
    ASSUME TypeOK, Crash \/ PauseIdle \/ Continue \/ StopIdle \/ Revise \/ Resume
    PROVE  TypeOK'
<1>1. CASE Crash
      BY <1>1, KeepsCheckpoint, LeaveType DEF Crash, TypeOK, fixed, durable
<1>2. BarePaused /\ UNCHANGED runbook => IsCheckpoint(cp)'
      BY Constants DEF BarePaused, Checkpoint, Checkpoints, IsCheckpoint, TypeOK, RunState
<1>3. ASSUME NEW to \in RunState, Apply(to), IsCheckpoint(cp)'
      PROVE  TypeOK'
      BY <1>3, Constants DEF Apply, TypeOK, ResultsOfStage, IsCheckpoint, fixed, local
<1>4. CASE PauseIdle \/ Continue \/ StopIdle
      BY <1>2, <1>3, <1>4, KeepsCheckpoint
      DEF PauseIdle, Continue, StopIdle, RunState, Apply, fixed, TypeOK
<1>5. CASE Revise
      BY <1>2, <1>5 DEF Revise, TypeOK, ResultsOfStage, IsCheckpoint, fixed, local
<1>6. CASE Resume
      BY <1>6, Constants
      DEF Resume, TypeOK, ResultsOfStage, IsCheckpoint, RunState, fixed, durable, local, bounds
<1> QED
    BY <1>1, <1>4, <1>5, <1>6

\* Every step keeps the types.
LEMMA TypeStep == ASSUME TypeOK, [Next]_vars PROVE TypeOK'
<1>1. CASE UNCHANGED vars
      BY <1>1, SameStage DEF vars, TypeOK, ResultsOfStage, IsCheckpoint
<1> QED
    BY <1>1, WorkerType, OtherType DEF Next

\* The state of a run is always of the declared types, whatever is interrupted and resumed.
THEOREM Types == Spec => []TypeOK
BY InitType, TypeStep, PTL DEF Spec

----
(* The budgets *)

\* The settings of the run.
LEMMA Settings ==
    ASSUME TypeOK
    PROVE  /\ config.maxStageRetries \in Nat /\ config.maxVerdictFixes \in Nat
           /\ config.maxNodeRetries \in Nat /\ config.upgradeThreshold \in Nat
BY Constants DEF TypeOK, IsConfig

\* Only a stage with a TRANSIENT node is retried, and only within its budget.
LEMMA RetryDecided ==
    ASSUME TypeOK, Decision = "RETRY_STAGE"
    PROVE  /\ retries < config.maxStageRetries
           /\ config.maxNodeRetries < config.upgradeThreshold
<1> DEFINE kind == IF results = None THEN <<>> ELSE results.status
           kinds == {kind[n] : n \in FailedNodes}
                      \union (IF CriticFailed /\ FailedNodes = {} THEN {"PERSISTENT"} ELSE {})
<1>1. kinds = {"TRANSIENT"} /\ retries < config.maxStageRetries
      BY DEF Decision, DecideRecovery
<1>2. PICK n \in FailedNodes : kind[n] = "TRANSIENT"
      BY <1>1
<1>3. results # None /\ results.status[n] = "TRANSIENT"
      BY <1>2 DEF FailedNodes
<1>4. n \in Node
      BY <1>2, <1>3, ThisIsStage DEF FailedNodes, IsStage
<1>5. "TRANSIENT" \in FinalStatus(config) \union {"MISSING"}
      BY <1>3, <1>4 DEF TypeOK, Results
<1> QED
    BY <1>1, <1>5 DEF FinalStatus

LEMMA InitBudgets == Init => Budgets
<1> SUFFICES ASSUME Init PROVE Budgets
    OBVIOUS
<1>1. TypeOK
      BY InitType
<1> QED
    BY <1>1, Settings DEF Init, Budgets, SessionBounded, RetryNeedsHeadroom, WithinBudget

\* Leaving the loop gives the budgets back.
LEMMA LeaveBudgets ==
    ASSUME TypeOK, Budgets, Leave, UNCHANGED config, WithinBudget(cp)'
    PROVE  Budgets'
BY Settings DEF Leave, Budgets, SessionBounded, RetryNeedsHeadroom, WithinBudget

\* A checkpoint written now keeps at most the retries made.
LEMMA RecordBudget ==
    ASSUME TypeOK, Budgets, UNCHANGED config, NEW b, NEW r \in {0, retries}, NEW snap, NEW planned,
           RecordPhase(b, r, snap, planned)
    PROVE  WithinBudget(cp)'
BY Settings
DEF TypeOK, Budgets, SessionBounded, RetryNeedsHeadroom, WithinBudget, RecordPhase, Checkpoint

LEMMA WorkerBudgets == ASSUME TypeOK, Budgets, Worker PROVE Budgets'
<1> USE DEF fixed, durable, local, bounds
<1>1. CASE \/ Preflight \/ ResumeWithoutPlan \/ PlanFails \/ ExecuteFails \/ SnapshotFails
           \/ RebuildFails \/ FinalizeFails \/ Finalize
      BY <1>1, LeaveBudgets
      DEF Preflight, ResumeWithoutPlan, PlanFails, ExecuteFails, SnapshotFails, RebuildFails,
          FinalizeFails, Finalize, Raise, Budgets, WithinBudget
<1>2. CASE WriteFinal \/ WriteEscalation \/ WriteQuestions
      <2>1. WithinBudget(cp)' /\ UNCHANGED config
            BY <1>2, Settings
            DEF WriteFinal, WriteEscalation, WriteQuestions, Checkpoint, Budgets, SessionBounded,
                RetryNeedsHeadroom, WithinBudget, TypeOK
      <2>2. CASE WriteQuestions
            BY <2>1, <2>2, LeaveBudgets DEF WriteQuestions
      <2>3. CASE WriteFinal \/ WriteEscalation
            BY <2>1, <2>3
            DEF WriteFinal, WriteEscalation, Budgets, SessionBounded, RetryNeedsHeadroom,
                WithinBudget
      <2> QED
          BY <1>2, <2>2, <2>3
<1>3. CASE EnterStage
      BY <1>3, Settings
      DEF EnterStage, Resuming, SkipExecute, Budgets, SessionBounded, RetryNeedsHeadroom,
          WithinBudget, TypeOK, IsCheckpoint, Checkpoints
<1>4. CASE Commit \/ RecordExecution \/ Control
      <2>1. WithinBudget(cp)'
            BY <1>4, RecordBudget DEF Commit, RecordExecution, Control
      <2> QED
          BY <1>4, <2>1
          DEF Commit, RecordExecution, Control, Budgets, SessionBounded, RetryNeedsHeadroom,
              WithinBudget, TypeOK
<1>5. CASE Execute \/ Replanned \/ LocalFix
      <2>1. CASE Execute
            <3>1. /\ pc = "execute" /\ pc' = "executed" /\ executions' = executions + 1
                  /\ UNCHANGED <<config, cp, ctx, retries, fixes>>
                  BY <2>1 DEF Execute
            <3> QED
                BY <3>1, Settings
                DEF Budgets, SessionBounded, RetryNeedsHeadroom, WithinBudget, TypeOK
      <2>2. CASE Replanned \/ LocalFix
            BY <2>2, Settings
            DEF Replanned, LocalFix, Fixable, Budgets, SessionBounded, RetryNeedsHeadroom,
                WithinBudget, TypeOK
      <2> QED
          BY <1>5, <2>1, <2>2
<1>6. CASE RetryStage
      BY <1>6, Settings, RetryDecided
      DEF RetryStage, Decides, Budgets, SessionBounded, RetryNeedsHeadroom, WithinBudget, TypeOK
<1>7. CASE \/ Begin \/ PlannerAsks \/ SkipControl \/ NextStage \/ Complete \/ FailRun \/ Escalate
           \/ Replan
      BY <1>7
      DEF Begin, PlannerAsks, SkipControl, NextStage, Complete, FailRun, Escalate, Replan, Decides,
          Budgets, SessionBounded, RetryNeedsHeadroom, WithinBudget
<1> QED
    BY <1>1, <1>2, <1>3, <1>4, <1>5, <1>6, <1>7 DEF Worker

LEMMA BudgetStep == ASSUME TypeOK, Budgets, [Next]_vars PROVE Budgets'
<1> USE DEF fixed, durable, local, bounds
<1>1. CASE Crash
      BY <1>1, LeaveBudgets DEF Crash, Budgets, WithinBudget
<1>2. ASSUME UNCHANGED <<config, pc, ctx, retries, fixes, executions>>, BarePaused \/ cp' = cp
      PROVE  Budgets'
      BY <1>2, Settings
      DEF BarePaused, Checkpoint, Budgets, SessionBounded, RetryNeedsHeadroom, WithinBudget
<1>3. CASE PauseIdle \/ Continue \/ StopIdle \/ Revise
      BY <1>2, <1>3 DEF PauseIdle, Continue, StopIdle, Revise, Apply
<1>4. CASE Resume
      BY <1>4 DEF Resume, Budgets, SessionBounded, RetryNeedsHeadroom, WithinBudget
<1>5. CASE UNCHANGED vars
      BY <1>5 DEF vars, Budgets, SessionBounded, RetryNeedsHeadroom, WithinBudget
<1> QED
    BY <1>1, <1>3, <1>4, <1>5, WorkerBudgets DEF Next

\* The budgets are inductive together with the types.
THEOREM BudgetInvariance == Spec => [](TypeOK /\ Budgets)
<1>1. Init => TypeOK /\ Budgets
      BY InitType, InitBudgets
<1>2. TypeOK /\ Budgets /\ [Next]_vars => (TypeOK /\ Budgets)'
      BY TypeStep, BudgetStep
<1> QED
    BY <1>1, <1>2, PTL DEF Spec

\* In one session a plan of a stage is executed at most once plus once per retry and local fix.
THEOREM BoundedSessions == Spec => []SessionBounded
<1>1. TypeOK /\ Budgets => SessionBounded
      BY DEF Budgets
<1> QED
    BY <1>1, BudgetInvariance, PTL

\* Stages are retried only under settings that let a node end TRANSIENT.
THEOREM RetriesNeedHeadroom == Spec => []RetryNeedsHeadroom
<1>1. TypeOK /\ Budgets => RetryNeedsHeadroom
      BY DEF Budgets
<1> QED
    BY <1>1, BudgetInvariance, PTL

----
(* The order of the stages and their gates *)

\* What passes from one state to the next when neither the runbook nor the truth changes.
LEMMA KeepsSettled ==
    ASSUME UNCHANGED <<runbook, truth>>
    PROVE  /\ \A i : Settled(i)' <=> Settled(i)
           /\ \A i : Passes(i)' <=> Passes(i)
BY DEF Settled, Passes

LEMMA KeepsCompleted ==
    ASSUME CompletedThroughGates, db' # "COMPLETED" \/ UNCHANGED <<db, runbook, truth>>
    PROVE  CompletedThroughGates'
BY DEF CompletedThroughGates, Settled, Passes

\* A gate passes in ADAPT only if the last execution of the stage deserved it, or was reread.
LEMMA PassedTruly ==
    ASSUME TypeOK, EvidenceSound, pc = "adapt", Passed
    PROVE  Passes(stage)
<1>1. None # "pass"
      BY Constants DEF AnyAnswer
<1>2. CASE results # None
      <2>1. This.critic # None => verdict = "pass" /\ verdict = ExtractVerdict(This, results)
            <3>1. None \notin {"pass", "hint", "fail"}
                  BY Constants DEF AnyAnswer
            <3>2. ExtractVerdict(This, results) \in {"pass", "hint", "fail"}
                  BY DEF ExtractVerdict
            <3> QED
                BY <1>2, <3>1, <3>2 DEF EvidenceSound, Passed, EvaluateGate
      <2>2. Merit(This, results) = "passed"
            BY <1>2, <2>1 DEF Passed, EvaluateGate, Merit
      <2> QED
          BY <1>2, <2>2 DEF EvidenceSound, Passes
<1>3. CASE results = None
      <2>1. snapshot # None /\ snapshot.requiredOk
            BY <1>3 DEF Passed, EvaluateGate
      <2>2. This.critic # None => snapshot.critic = "pass"
            BY <1>1, <1>3 DEF Passed, EvaluateGate, EvidenceSound, RebuiltVerdict
      <2> QED
          BY <1>3, <2>1, <2>2 DEF SnapshotPasses, EvidenceSound
<1> QED
    BY <1>2, <1>3

\* A gate that looks at what CONTROL found in this session passes if the stage deserved it.
LEMMA DeservingPasses ==
    ASSUME TypeOK, EvidenceSound, pc = "adapt", ~skipControl, Passes(stage)
    PROVE  Passed
<1>1. CASE results # None
      <2>1. Merit(This, results) = "passed"
            BY <1>1 DEF EvidenceSound, Passes, Merit
      <2>2. This.critic # None => verdict = "pass"
            BY <1>1, <2>1 DEF EvidenceSound, Merit
      <2> QED
          BY <1>1, <2>1, <2>2, Constants DEF Passed, EvaluateGate, Merit, AnyAnswer
<1>2. CASE results = None
      <2>1. snapshot # None /\ SnapshotPasses(This, snapshot)
            BY <1>2 DEF EvidenceSound
      <2>2. This.critic # None => verdict = "pass"
            BY <1>2, <2>1 DEF EvidenceSound, SnapshotPasses, RebuiltVerdict
      <2> QED
          BY <1>2, <2>1, <2>2, Constants DEF Passed, EvaluateGate, SnapshotPasses, AnyAnswer
<1> QED
    BY <1>1, <1>2

\* The loop goes on only past a settled stage.
LEMMA GoesOnSettled ==
    ASSUME TypeOK, EvidenceSound, pc = "adapt", Passed \/ This.proceed
    PROVE  Settled(stage)
<1>1. truth[stage] \in Merits \ {"unknown"}
      BY DEF TypeOK, EvidenceSound
<1> QED
    BY <1>1, PassedTruly DEF Settled, Passes, This, Merits

LEMMA InitProgress == Init => Progress
<1> SUFFICES ASSUME Init PROVE Progress
    OBVIOUS
<1>1. CompletedThroughGates
      BY DEF Init, CompletedThroughGates
<1>2. StagesInOrder /\ CheckpointSound
      BY DEF Init, StagesInOrder, CheckpointSound
<1>3. PositionSound /\ EvidenceSound
      BY DEF Init, PositionSound, EvidenceSound, Reentering
<1> QED
    BY <1>1, <1>2, <1>3 DEF Progress

\* Outside the loop only the checkpoint and the state in the store count.
LEMMA LeaveProgress ==
    ASSUME TypeOK, Progress, Leave, UNCHANGED <<runbook, truth>>,
           db' # "COMPLETED" \/ db' = db,
           cp' = cp \/ (cp'.snapshot = None /\ cp'.stage \in {1, stage}
                          /\ cp'.boundary \in {"paused", "final"}),
           cp' = cp \/ pc \notin {"idle", "begin"}
    PROVE  Progress'
<1>1. CompletedThroughGates'
      BY KeepsCompleted DEF Progress
<1>2. StagesInOrder'
      BY KeepsSettled DEF Progress, StagesInOrder, Leave, TypeOK
<1>3. CheckpointSound'
      BY DEF Progress, CheckpointSound, Passes
<1>4. PositionSound' /\ EvidenceSound'
      BY DEF Leave, PositionSound, EvidenceSound, Reentering
<1> QED
    BY <1>1, <1>2, <1>3, <1>4 DEF Progress

\* The truth stays, but for an answer that is read again.
TruthKept ==
    \A i : /\ Settled(i) => Settled(i)'
           /\ Passes(i) => Passes(i)'
           /\ truth[i] = "unknown" <=> truth'[i] = "unknown"
           /\ truth[i] = "failed" <=> truth'[i] = "failed"

LEMMA SameTruth == ASSUME UNCHANGED <<runbook, truth>> PROVE TruthKept
BY KeepsSettled DEF TruthKept

\* A step inside the loop that neither executes nor touches the checkpoint.
LEMMA StepProgress ==
    ASSUME TypeOK, Progress, pc \notin {"idle", "begin"}, pc' \notin {"idle", "begin"},
           UNCHANGED <<config, runbook, cp, ctx>>, TruthKept,
           db' = db \/ db' # "COMPLETED", db' = "COMPLETED" => pc' = "final",
           \/ stage' = stage /\ pc' # "stage"
           \/ stage' = stage + 1 /\ Settled(stage) /\ pc' = "stage",
           (pc' \in {"execute", "adapt", "replan"} \/ (pc' = "control" /\ skipControl')) =>
               (cp # None /\ cp.stage = stage => cp.snapshot = None)
    PROVE  /\ CompletedThroughGates' /\ StagesInOrder' /\ CheckpointSound'
           /\ PositionSound'
<1>1. CompletedThroughGates'
      <2>1. db' = "COMPLETED" => db = "COMPLETED"
            OBVIOUS
      <2>2. CompletedThroughGates
            BY DEF Progress
      <2> QED
          BY <2>1, <2>2 DEF CompletedThroughGates, TruthKept, Settled, Passes
<1>2. StagesInOrder'
      BY DEF Progress, StagesInOrder, TypeOK, TruthKept
<1>3. CheckpointSound'
      BY DEF Progress, CheckpointSound, TruthKept
<1>4. PositionSound'
      BY DEF Progress, PositionSound, Reentering, TypeOK, IsCheckpoint
<1> QED
    BY <1>1, <1>2, <1>3, <1>4

\* A step that records a checkpoint of the stage it is at.
LEMMA RecordProgress ==
    ASSUME TypeOK, Progress, pc \in {"commit", "executed", "control"},
           pc' \in {"execute", "control", "adapt"}, pc' = "control" => ~skipControl',
           UNCHANGED <<config, runbook, truth, ctx, stage, db>>,
           NEW b \in {"after_commit", "after_execute", "after_control"}, NEW r, NEW planned,
           NEW snap, RecordPhase(b, r, snap, planned),
           b # "after_commit" => truth[stage] # "unknown",
           snap # None => /\ b = "after_execute" /\ pc' = "control"
                          /\ SnapshotPasses(This, snap) <=> truth[stage] # "failed",
           snap # None <=> b = "after_execute"
    PROVE  /\ CompletedThroughGates' /\ StagesInOrder' /\ CheckpointSound'
           /\ PositionSound'
<1>1. \/ cp' = cp /\ stage > 2
      \/ /\ cp'.stage = stage /\ cp'.boundary = b /\ cp'.snapshot = snap
         /\ stage <= 2
      BY DEF TypeOK, RecordPhase, Checkpoint
<1>2. CompletedThroughGates'
      BY KeepsCompleted DEF Progress
<1>3. StagesInOrder'
      BY <1>1, KeepsSettled DEF Progress, StagesInOrder, TypeOK
<1>4. CheckpointSound'
      BY <1>1 DEF Progress, CheckpointSound, Passes, This
<1>5. PositionSound'
      BY <1>1 DEF Progress, PositionSound, CheckpointSound, Reentering, TypeOK
<1> QED
    BY <1>2, <1>3, <1>4, <1>5

\* The worker keeps the order of the stages and their gates.
LEMMA WorkerProgress ==
    ASSUME TypeOK, TypeOK', Progress, Worker
    PROVE  Progress'
<1> USE DEF fixed, durable, local, bounds
<1>1. CASE \/ Preflight \/ ResumeWithoutPlan \/ PlanFails \/ ExecuteFails \/ SnapshotFails
           \/ RebuildFails \/ FinalizeFails \/ Finalize
      BY <1>1, LeaveProgress
      DEF Preflight, ResumeWithoutPlan, PlanFails, ExecuteFails, SnapshotFails, RebuildFails,
          FinalizeFails, Finalize, Raise, MoveTo
<1>2. CASE WriteFinal \/ WriteEscalation \/ WriteQuestions
      <2>1. /\ cp'.snapshot = None /\ cp'.stage \in {1, stage}
            /\ cp'.boundary \in {"paused", "final"}
            BY <1>2 DEF WriteFinal, WriteEscalation, WriteQuestions, Checkpoint
      <2>2. CASE WriteQuestions
            BY <2>1, <2>2, LeaveProgress DEF WriteQuestions
      <2>3. CASE WriteFinal \/ WriteEscalation
            <3>1. pc \notin {"idle", "begin"} /\ pc' = "finalize"
                  /\ UNCHANGED <<runbook, truth, db, ctx, stage>>
                  BY <2>3 DEF WriteFinal, WriteEscalation
            <3>2. CompletedThroughGates' /\ StagesInOrder'
                  BY <2>1, <3>1, KeepsCompleted, KeepsSettled DEF Progress, StagesInOrder, TypeOK
            <3>3. CheckpointSound' /\ EvidenceSound'
                  BY <2>1, <3>1 DEF CheckpointSound, EvidenceSound
            <3>4. PositionSound'
                  BY <2>1, <3>1 DEF Progress, PositionSound, Reentering, TypeOK
            <3> QED
                BY <3>2, <3>3, <3>4 DEF Progress
      <2> QED
          BY <1>2, <2>2, <2>3
<1>3. CASE Begin
      <2>1. ctx # None => ctx = cp
            BY <1>3 DEF Begin, Progress, PositionSound, Reentering
      <2>2. ctx = None => cp = None
            BY <1>3 DEF Begin, Progress, PositionSound
      <2>3. db # "COMPLETED" /\ db' # "COMPLETED"
            BY <1>3 DEF Begin, MoveTo, Progress, PositionSound
      <2>4. StagesInOrder'
            BY <1>3, <2>1, <2>2, KeepsSettled DEF Begin, Progress, StagesInOrder
      <2>5. CheckpointSound' /\ EvidenceSound'
            BY <1>3 DEF Begin, MoveTo, Progress, CheckpointSound, EvidenceSound, Passes
      <2>6. PositionSound'
            BY <1>3, <2>1, <2>2, <2>3
            DEF Begin, Progress, PositionSound, Reentering, TypeOK, IsCheckpoint
      <2> QED
          BY <1>3, <2>3, <2>4, <2>5, <2>6, KeepsCompleted DEF Progress, Begin
<1>4. CASE EnterStage
      <2>1. Resuming => ctx = cp /\ cp # None /\ cp.stage = stage
            BY <1>4 DEF EnterStage, Resuming, Progress, PositionSound, Reentering
      <2>2. /\ truth[stage] = "extra" /\ snapshot' # None => truth'[stage] = "reread"
            /\ ~(truth[stage] = "extra" /\ snapshot' # None) => truth'[stage] = truth[stage]
            /\ \A i : i # stage => truth'[i] = truth[i]
            BY <1>4 DEF EnterStage, TypeOK
      <2>3. SkipExecute =>
              /\ truth'[stage] # "unknown" /\ (~skipControl' => snapshot' # None)
              /\ snapshot' # None => (SnapshotPasses(This, snapshot') <=> truth[stage] # "failed")
            BY <1>4, <2>1, <2>2 DEF EnterStage, SkipExecute, Progress, CheckpointSound, This
      <2>5. EvidenceSound'
            <3>1. truth[stage] \in Merits
                  BY DEF TypeOK
            <3>2. SkipExecute /\ snapshot' # None =>
                    (SnapshotPasses(This, snapshot') <=> truth'[stage] \in {"passed", "reread"})
                  BY <2>2, <2>3, <3>1 DEF Merits
            <3> QED
                BY <1>4, <2>3, <3>2 DEF EnterStage, SkipExecute, EvidenceSound, This, Passes
      <2>6. TruthKept
            BY <1>4, <2>2 DEF EnterStage, TruthKept, Settled, Passes
      <2>4. skipControl' => cp.snapshot = None
            BY <1>4, <2>1 DEF EnterStage, Progress, CheckpointSound
      <2> QED
          <3>1. pc = "stage" /\ pc' \in {"control", "commit"} /\ (pc' = "commit" => ~skipControl')
                BY <1>4 DEF EnterStage, SkipExecute
          <3>2. UNCHANGED <<config, runbook, cp, ctx, db, stage>>
                BY <1>4 DEF EnterStage
          <3>3. db # "COMPLETED"
                BY <3>1 DEF Progress, PositionSound
          <3> QED
              BY <2>4, <2>5, <2>6, <3>1, <3>2, <3>3, StepProgress DEF Progress
<1>5. CASE Commit
      <2>1. EvidenceSound'
            BY <1>5 DEF Commit, Progress, EvidenceSound
      <2> QED
          BY <1>5, <2>1, RecordProgress DEF Commit, Progress
<1>6. CASE PlannerAsks \/ FailRun \/ Escalate
      <2>1. EvidenceSound'
            BY <1>6 DEF PlannerAsks, FailRun, Escalate, Decides, EvidenceSound
      <2>2. /\ pc \notin {"idle", "begin"} /\ pc' \in {"asking", "final", "escalating"}
            /\ db' # "COMPLETED" /\ UNCHANGED <<config, runbook, truth, cp, ctx, stage>>
            BY <1>6 DEF PlannerAsks, FailRun, Escalate, Decides, MoveTo
      <2> QED
          BY <2>1, <2>2, StepProgress, SameTruth DEF Progress
<1>7. CASE Execute
      <2>1. db # "COMPLETED"
            BY <1>7 DEF Execute, Progress, PositionSound
      <2>2. cp # None => cp.stage <= stage /\ (cp.stage = stage => cp.snapshot = None)
            BY <1>7 DEF Execute, Progress, PositionSound
      <2>3. /\ truth'[stage] = Merit(This, results') /\ truth'[stage] # "unknown"
            /\ \A i \in 1 .. Len(runbook) : i # stage => truth'[i] = truth[i]
            BY <1>7 DEF Execute, TypeOK, Merit
      <2>4. \A i \in 1 .. Len(runbook) : i < stage => (Settled(i)' <=> Settled(i))
            BY <1>7, <2>3 DEF Execute, Settled, Passes, TypeOK
      <2>5. StagesInOrder'
            BY <1>7, <2>2, <2>4 DEF Execute, Progress, StagesInOrder, TypeOK, IsCheckpoint
      <2>6. CheckpointSound'
            BY <1>7, <2>2, <2>3
            DEF Execute, Progress, CheckpointSound, TypeOK, IsCheckpoint, Passes
      <2>7. PositionSound'
            BY <1>7, <2>1 DEF Execute, Progress, PositionSound, Reentering
      <2>8. EvidenceSound'
            <3>1. ~skipControl /\ UNCHANGED <<runbook, stage, skipControl>> /\ pc' = "executed"
                  BY <1>7 DEF Execute, Progress, EvidenceSound
            <3>2. results' # None
                  BY <3>1 DEF TypeOK, ResultsOfStage
            <3> QED
                BY <2>3, <3>1, <3>2
                DEF EvidenceSound, Merit, RequiredOk, Answered, ExtractVerdict, This
      <2> QED
          BY <1>7, <2>1, <2>5, <2>6, <2>7, <2>8, KeepsCompleted DEF Execute, Progress
<1>8. CASE RecordExecution
      <2>1. IsStage(This) /\ results # None /\ results \in Outcomes(This)
            BY <1>8, ThisIsStage DEF RecordExecution, TypeOK, ResultsOfStage
      <2>2. /\ ~skipControl /\ truth[stage] # "unknown"
            /\ truth[stage] = Merit(This, results)
            BY <1>8, <2>1 DEF RecordExecution, Progress, EvidenceSound
      <2>3. (SnapshotPasses(This, snapshot') <=> truth[stage] # "failed") /\ snapshot' # None
            BY <1>8, <2>1, <2>2, SnapshotTrue, Constants DEF RecordExecution
      <2>4. EvidenceSound'
            BY <1>8, <2>1, <2>2 DEF RecordExecution, EvidenceSound, Passes, This
      <2> QED
          BY <1>8, <2>2, <2>3, <2>4, RecordProgress DEF RecordExecution, Progress
<1>9. CASE Control
      <2>1. truth[stage] # "unknown"
            BY <1>9 DEF Control, Progress, EvidenceSound
      <2>2. EvidenceSound'
            BY <1>9 DEF Control, Progress, EvidenceSound, Passes, This
      <2> QED
          BY <1>9, <2>1, <2>2, RecordProgress DEF Control, Progress
<1>10. CASE SkipControl
      <2>1. EvidenceSound'
            BY <1>10 DEF SkipControl, Progress, EvidenceSound, Passes, This
      <2>2. cp # None /\ cp.stage = stage => cp.snapshot = None
            BY <1>10 DEF SkipControl, Progress, PositionSound
      <2> QED
          BY <1>10, <2>1, <2>2, StepProgress, SameTruth DEF SkipControl, Progress, PositionSound
<1>11. CASE NextStage
      <2>1. Settled(stage)
            BY <1>11, GoesOnSettled DEF NextStage, Progress
      <2>2. EvidenceSound'
            BY <1>11 DEF NextStage, EvidenceSound
      <2> QED
          BY <1>11, <2>1, <2>2, StepProgress, SameTruth DEF NextStage, Progress, PositionSound
<1>12. CASE Complete
      <2>1. Settled(stage) /\ (stage = Len(runbook) \/ (runbook[stage].exit /\ Passes(stage)))
            BY <1>12, GoesOnSettled, PassedTruly DEF Complete, Stays, Progress, This
      <2>2. \A i \in 1 .. stage : Settled(i)
            BY <1>12, <2>1 DEF Complete, Progress, StagesInOrder, TypeOK
      <2>3. CompletedThroughGates'
            BY <1>12, <2>1, <2>2, KeepsSettled DEF Complete, CompletedThroughGates, TypeOK
      <2>4. StagesInOrder' /\ CheckpointSound' /\ EvidenceSound'
            BY <1>12, KeepsSettled
            DEF Complete, Progress, StagesInOrder, CheckpointSound, EvidenceSound, Passes
      <2>5. PositionSound'
            BY <1>12 DEF Complete, Progress, PositionSound, Reentering
      <2> QED
          BY <2>3, <2>4, <2>5 DEF Progress
<1>13. CASE LocalFix \/ Replan \/ Replanned \/ RetryStage
      <2>1. /\ pc \in {"adapt", "replan"} /\ pc' \in {"execute", "replan"}
            /\ pc' = "execute" => ~skipControl'
            /\ UNCHANGED <<config, runbook, truth, cp, ctx, stage, db>>
            BY <1>13 DEF LocalFix, Replan, Replanned, RetryStage, Decides
      <2>2. EvidenceSound'
            BY <2>1 DEF EvidenceSound
      <2>3. db # "COMPLETED" /\ (cp # None /\ cp.stage = stage => cp.snapshot = None)
            BY <2>1 DEF Progress, PositionSound
      <2> QED
          BY <2>1, <2>2, <2>3, StepProgress, SameTruth DEF Progress
<1> QED
    BY <1>1, <1>2, <1>3, <1>4, <1>5, <1>6, <1>7, <1>8, <1>9, <1>10, <1>11, <1>12, <1>13 DEF Worker

\* So do crashes, commands and resumes.
LEMMA ProgressStep ==
    ASSUME TypeOK, TypeOK', Progress, [Next]_vars
    PROVE  Progress'
<1> USE DEF fixed, durable, local, bounds
<1>1. CASE Crash
      BY <1>1, LeaveProgress DEF Crash
<1>2. ASSUME pc = "idle", UNCHANGED <<runbook, truth, pc>>, db' = db \/ db' # "COMPLETED",
             BarePaused \/ cp' = cp
      PROVE  Progress'
      <2>1. StagesInOrder'
            BY <1>2, KeepsSettled DEF BarePaused, Checkpoint, Progress, StagesInOrder
      <2>2. CheckpointSound'
            BY <1>2 DEF BarePaused, Checkpoint, Progress, CheckpointSound, Passes
      <2>3. PositionSound' /\ EvidenceSound'
            BY <1>2 DEF PositionSound, EvidenceSound, Reentering
      <2> QED
          BY <1>2, <2>1, <2>2, <2>3, KeepsCompleted DEF Progress
<1>3. CASE PauseIdle \/ Continue \/ StopIdle \/ Revise
      BY <1>2, <1>3 DEF PauseIdle, Continue, StopIdle, Revise, Apply
<1>4. CASE Resume
      <2>1. CompletedThroughGates' /\ StagesInOrder' /\ CheckpointSound'
            BY <1>4, KeepsCompleted, KeepsSettled
            DEF Resume, Progress, StagesInOrder, CheckpointSound, Passes
      <2>2. PositionSound' /\ EvidenceSound'
            BY <1>4 DEF Resume, PositionSound, EvidenceSound, Reentering
      <2> QED
          BY <2>1, <2>2 DEF Progress
<1>5. CASE UNCHANGED vars
      BY <1>5, KeepsCompleted, KeepsSettled
      DEF vars, Progress, StagesInOrder, CheckpointSound, PositionSound, EvidenceSound, Reentering,
          Passes, This, Outcomes, Results
<1> QED
    BY <1>1, <1>3, <1>4, <1>5, WorkerProgress DEF Next

\* The order of the stages and their gates is inductive together with the types.
THEOREM ProgressInvariance == Spec => [](TypeOK /\ Progress)
<1>1. Init => TypeOK /\ Progress
      BY InitType, InitProgress
<1>2. TypeOK /\ Progress /\ [Next]_vars => (TypeOK /\ Progress)'
      BY TypeStep, ProgressStep
<1> QED
    BY <1>1, <1>2, PTL DEF Spec

\* A run is COMPLETED only through stages executed in order, each with a gate that deserved to
\* pass or with leave to proceed: through any number of crashes, commands and resumes.
THEOREM CompletesThroughGates == Spec => []CompletedThroughGates
<1>1. TypeOK /\ Progress => CompletedThroughGates
      BY DEF Progress
<1> QED
    BY <1>1, ProgressInvariance, PTL

\* Neither the worker nor its checkpoint is ever past a stage that was not settled.
THEOREM OrdersStages == Spec => []StagesInOrder
<1>1. TypeOK /\ Progress => StagesInOrder
      BY DEF Progress
<1> QED
    BY <1>1, ProgressInvariance, PTL

\* A gate evaluated from a checkpoint's snapshot decides as it would have on the results.
THEOREM SnapshotsDecideAlike == Spec => []SnapshotDecidesAlike
<1>1. TypeOK /\ Progress => SnapshotDecidesAlike
      BY PassedTruly, DeservingPasses DEF Progress, SnapshotDecidesAlike
<1> QED
    BY <1>1, ProgressInvariance, PTL

====
