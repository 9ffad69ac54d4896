---- MODULE Recovery ----
(* The two pure decisions of neuronium_agent/recovery: what kind of failure a node's error is, *)
(* and what a failed quality gate leads to. An error text is abstracted to the set of phrase   *)
(* families that occur in it; none is a member of a family of its own.                         *)
EXTENDS Naturals, FiniteSets, Sequences

CONSTANT Config    \* the values of config.recovery that a run may be given

Kind == {"TRANSIENT", "PERSISTENT", "SYSTEMIC", "CRITICAL"}
Action == {"RETRY_STAGE", "ESCALATE", "FAIL", "REPLAN"}

\* RecoveryConfig, without the backoff base.
IsConfig(c) ==
    /\ c.maxNodeRetries \in Nat
    /\ c.maxStageRetries \in Nat
    /\ c.upgradeThreshold \in Nat
    /\ c.repeatedThreshold \in Nat
    /\ c.maxVerdictFixes \in Nat
    /\ c.autoReplan \in BOOLEAN

ASSUME ConfigAssumption == \A c \in Config : IsConfig(c)

\* Mutant: the upgrade comes after the phrase families instead of before them.
ClassifyTransientFirst(families, retries, threshold) ==
    IF "CRITICAL" \in families THEN "CRITICAL"
    ELSE IF "TRANSIENT" \in families THEN "TRANSIENT"
    ELSE IF retries >= threshold THEN "PERSISTENT"
    ELSE IF "PERSISTENT" \in families THEN "PERSISTENT"
    ELSE IF "SYSTEMIC" \in families THEN "SYSTEMIC"
    ELSE "PERSISTENT"

\* classify_failure: the first of its tests that applies.
ClassifyFailure(families, retries, threshold) ==
    IF "CRITICAL" \in families THEN "CRITICAL"
    ELSE IF retries >= threshold THEN "PERSISTENT"
    ELSE IF "TRANSIENT" \in families THEN "TRANSIENT"
    ELSE IF "PERSISTENT" \in families THEN "PERSISTENT"
    ELSE IF "SYSTEMIC" \in families THEN "SYSTEMIC"
    ELSE "PERSISTENT"

\* FailureClass.retryable
Retryable(kind) == kind = "TRANSIENT"

\* The outcome of a node: COMPLETED, or the kind of its failure class.
Status == Kind \union {"COMPLETED"}

\* The statuses a node can reach the quality gate with. A failure is still TRANSIENT there only
\* if the retries run out before the retry count upgrades it to PERSISTENT.
FinalStatus(c) ==
    {"COMPLETED", "CRITICAL", "PERSISTENT"}
        \union (IF c.upgradeThreshold > 0 THEN {"SYSTEMIC"} ELSE {})
        \union (IF c.maxNodeRetries < c.upgradeThreshold THEN {"TRANSIENT"} ELSE {})

\* How often node n failed the gate: in the attempts of the history and in this one.
Failures(n, history, failed) ==
    Cardinality({i \in DOMAIN history : n \in history[i]}) + (IF n \in failed THEN 1 ELSE 0)

\* Every node that ever failed in the stage is counted, not only those that failed now.
Repeated(history, failed, threshold) ==
    \E n \in failed \union UNION {history[i] : i \in DOMAIN history} :
        Failures(n, history, failed) >= threshold

\* Mutant: the retry budget of the stage is not consulted.
DecideWithoutBudget(failed, kind, criticFailed, stageRetries, history, planner, c) ==
    LET kinds == {kind[n] : n \in failed}
    IN  IF "CRITICAL" \in kinds THEN "FAIL"
        ELSE IF kinds = {"TRANSIENT"} THEN "RETRY_STAGE"
        ELSE "ESCALATE"

\* Mutant: a critic's rejection counts as a transient failure.
DecideCriticTransient(failed, kind, criticFailed, stageRetries, history, planner, c) ==
    LET kinds == {kind[n] : n \in failed}
                   \union (IF criticFailed /\ failed = {} THEN {"TRANSIENT"} ELSE {})
    IN  IF kinds = {"TRANSIENT"} /\ stageRetries < c.maxStageRetries THEN "RETRY_STAGE"
        ELSE IF kinds = {} \/ "CRITICAL" \in kinds THEN "FAIL"
        ELSE "ESCALATE"

\* decide_recovery. `failed` are the required nodes without a COMPLETED output, kind[n] their
\* failure class, `history` the failed sets of the attempts before this one.
DecideRecovery(failed, kind, criticFailed, stageRetries, history, planner, c) ==
    LET kinds == {kind[n] : n \in failed}
                   \union (IF criticFailed /\ failed = {} THEN {"PERSISTENT"} ELSE {})
        replans == c.autoReplan /\ planner
    IN  IF "CRITICAL" \in kinds THEN "FAIL"
        ELSE IF Repeated(history, failed, c.repeatedThreshold)
             THEN IF replans THEN "REPLAN" ELSE "ESCALATE"
        ELSE IF kinds = {} THEN "FAIL"
        ELSE IF kinds = {"TRANSIENT"} /\ stageRetries < c.maxStageRetries THEN "RETRY_STAGE"
        ELSE IF kinds = {"SYSTEMIC"} /\ replans THEN "REPLAN"
        ELSE "ESCALATE"
====
