---- MODULE NodeAttempts ----
(* DAGExecutor._execute_single of neuronium_agent/execution/executor.py: one node is executed, *)
(* its failure classified, and a transient one retried after a backoff (whose length is left   *)
(* out) until an attempt succeeds, fails for good, or exhausts the retries.                    *)
EXTENDS Recovery

VARIABLES
    config,   \* config.recovery, fixed for the run
    pc,       \* where _execute_single is
    attempt,  \* its `attempt`: the retry_count the node and the classifier are given
    outcome,  \* "COMPLETED", or the kind of the failure class of the last output
    errors    \* history: the phrase families in the error of each failed attempt

attemptVars == <<config, pc, attempt, outcome, errors>>

AttemptInit ==
    /\ config \in Config
    /\ pc = "attempt" /\ attempt = 0 /\ outcome = "COMPLETED" /\ errors = <<>>

----
\* Mutants: a retry whatever the class, no count kept.
RetryAnyFailure ==
    /\ pc = "failed" /\ attempt < config.maxNodeRetries
    /\ attempt' = attempt + 1
    /\ pc' = "attempt"
    /\ UNCHANGED <<config, outcome, errors>>

RetryForgetsToCount ==
    /\ pc = "failed"
    /\ outcome # "CRITICAL" /\ Retryable(outcome) /\ attempt < config.maxNodeRetries
    /\ pc' = "attempt"
    /\ UNCHANGED <<config, attempt, outcome, errors>>

----
\* The registry has no implementation for the node: a failure is returned at once, of any class,
\* since its text has the node's id in it. The orchestrator's registry has one for every node.
NoImplementation ==
    /\ pc = "attempt" /\ attempt = 0
    /\ \E families \in SUBSET Kind :
         /\ "PERSISTENT" \in families
         /\ outcome' = ClassifyFailure(families, 0, config.upgradeThreshold)
         /\ errors' = <<families>>
    /\ pc' = "missing"
    /\ UNCHANGED <<config, attempt>>

Succeed ==
    /\ pc = "attempt"
    /\ outcome' = "COMPLETED"
    /\ pc' = "returned"
    /\ UNCHANGED <<config, attempt, errors>>

\* The node fails or raises, with some error text.
FailAttempt ==
    /\ pc = "attempt"
    /\ \E families \in SUBSET Kind :
         /\ outcome' = ClassifyFailure(families, attempt, config.upgradeThreshold)
         /\ errors' = Append(errors, families)
    /\ pc' = "failed"
    /\ UNCHANGED <<config, attempt>>

GiveUp ==
    /\ pc = "failed"
    /\ outcome = "CRITICAL" \/ ~Retryable(outcome) \/ attempt >= config.maxNodeRetries
    /\ pc' = "returned"
    /\ UNCHANGED <<config, attempt, outcome, errors>>

\* time.sleep(delay), then the next attempt.
Retry ==
    /\ pc = "failed"
    /\ outcome # "CRITICAL" /\ Retryable(outcome) /\ attempt < config.maxNodeRetries
    /\ attempt' = attempt + 1
    /\ pc' = "attempt"
    /\ UNCHANGED <<config, outcome, errors>>

AttemptNext == NoImplementation \/ Succeed \/ FailAttempt \/ GiveUp \/ Retry

AttemptSpec == AttemptInit /\ [][AttemptNext]_attemptVars

\* node_impl.execute returns or raises, and time.sleep ends.
FairAttempts == AttemptSpec /\ WF_attemptVars(AttemptNext)

----
\* The type of every variable.
AttemptTypeOK ==
    /\ config \in Config
    /\ pc \in {"attempt", "failed", "returned", "missing"}
    /\ attempt \in Nat
    /\ outcome \in Status
    /\ errors \in Seq(SUBSET Kind)

\* What the gate is given of a node with an implementation is one of those: with the defaults
\* (three retries, upgrade at two) no node is TRANSIENT there (executor.py 365-369 with
\* classifier.py 53-58).
ReturnsFinalStatus == pc = "returned" => outcome \in FinalStatus(config)

\* Only transient failures are followed by another attempt: nothing critical is run twice, nor
\* anything once its retry count upgrades its class (lines 337-369).
OnlyTransientRetried ==
    \A i \in 1 .. attempt :
        /\ "TRANSIENT" \in errors[i]
        /\ "CRITICAL" \notin errors[i]
        /\ i <= config.upgradeThreshold

\* One attempt, then at most max_node_retries more, and no more than the upgrade threshold.
AttemptsBounded ==
    /\ Len(errors) <= attempt + 1
    /\ attempt <= config.maxNodeRetries
    /\ attempt <= config.upgradeThreshold

\* The loop ends, whatever the errors are.
NodeReturns == <>(pc \in {"returned", "missing"})

\* The inductive invariant: the errors so far, and the class of the last one.
Attempts ==
    /\ Len(errors) \in {attempt, attempt + 1}
    /\ pc = "attempt" => Len(errors) = attempt
    /\ pc = "failed" =>
         /\ Len(errors) = attempt + 1
         /\ outcome = ClassifyFailure(errors[attempt + 1], attempt, config.upgradeThreshold)
    /\ AttemptsBounded /\ OnlyTransientRetried /\ ReturnsFinalStatus
====
