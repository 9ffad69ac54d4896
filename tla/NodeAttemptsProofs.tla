---- MODULE NodeAttemptsProofs ----
(* Proofs about NodeAttempts, for every setting of the retries and every sequence of errors.   *)
EXTENDS NodeAttempts, TLAPS

AttemptInv == AttemptTypeOK /\ Attempts

\* The classifier answers with one of the four kinds, TRANSIENT only below the threshold and
\* only for an error that reads transient and not critical.
LEMMA ClassifierAnswers ==
    ASSUME NEW families \in SUBSET Kind, NEW retries \in Nat, NEW threshold \in Nat
    PROVE  /\ ClassifyFailure(families, retries, threshold) \in Kind
           /\ ClassifyFailure(families, retries, threshold) = "TRANSIENT" =>
                /\ "TRANSIENT" \in families /\ "CRITICAL" \notin families
                /\ retries < threshold
           /\ ClassifyFailure(families, retries, threshold) = "SYSTEMIC" => retries < threshold
BY DEF ClassifyFailure, Kind

\* The thresholds are natural numbers.
LEMMA ConfigParts ==
    ASSUME NEW c \in Config
    PROVE  c.maxNodeRetries \in Nat /\ c.upgradeThreshold \in Nat
BY ConfigAssumption DEF IsConfig

\* The loop starts with no attempt behind it.
LEMMA InitAttempts == AttemptInit => AttemptInv
<1> SUFFICES ASSUME AttemptInit PROVE AttemptInv
    OBVIOUS
<1>1. config.maxNodeRetries \in Nat /\ config.upgradeThreshold \in Nat
      BY ConfigParts DEF AttemptInit
<1> QED
    BY <1>1 DEF AttemptInit, AttemptInv, AttemptTypeOK, Attempts, AttemptsBounded, OnlyTransientRetried,
                ReturnsFinalStatus, Status, Kind

\* Every step of the loop keeps the invariant.
LEMMA NextAttempts == AttemptInv /\ [AttemptNext]_attemptVars => AttemptInv'
<1> SUFFICES ASSUME AttemptInv, [AttemptNext]_attemptVars PROVE AttemptInv'
    OBVIOUS
<1> USE DEF AttemptInv, AttemptTypeOK, Attempts
<1>1. config.maxNodeRetries \in Nat /\ config.upgradeThreshold \in Nat
      BY ConfigParts
<1>2. CASE NoImplementation
  <2>1. PICK families \in SUBSET Kind :
            /\ outcome' = ClassifyFailure(families, 0, config.upgradeThreshold)
            /\ errors' = <<families>>
        BY <1>2 DEF NoImplementation
  <2>2. outcome' \in Kind
        BY <1>1, <2>1, ClassifierAnswers
  <2>3. errors' \in Seq(SUBSET Kind) /\ Len(errors') = 1
        BY <2>1
  <2> QED
      BY <1>1, <1>2, <2>2, <2>3 DEF NoImplementation, AttemptsBounded, OnlyTransientRetried,
         ReturnsFinalStatus, Status
<1>3. CASE Succeed
      BY <1>1, <1>3 DEF Succeed, AttemptsBounded, OnlyTransientRetried, ReturnsFinalStatus,
         FinalStatus, Status, Kind
<1>4. CASE FailAttempt
  <2>1. PICK families \in SUBSET Kind :
            /\ outcome' = ClassifyFailure(families, attempt, config.upgradeThreshold)
            /\ errors' = Append(errors, families)
        BY <1>4 DEF FailAttempt
  <2>2. outcome' \in Kind
        BY <1>1, <2>1, ClassifierAnswers
  <2>3. /\ errors' \in Seq(SUBSET Kind) /\ Len(errors') = attempt + 1
        /\ errors'[attempt + 1] = families
        /\ \A i \in 1 .. attempt : errors'[i] = errors[i]
        BY <1>4, <2>1 DEF FailAttempt
  <2> QED
      BY <1>1, <1>4, <2>1, <2>2, <2>3 DEF FailAttempt, AttemptsBounded, OnlyTransientRetried,
         ReturnsFinalStatus, Status
<1>5. CASE GiveUp
  <2>1. /\ errors[attempt + 1] \in SUBSET Kind
        /\ outcome = ClassifyFailure(errors[attempt + 1], attempt, config.upgradeThreshold)
        BY <1>5 DEF GiveUp
  <2>2. /\ outcome \in Kind
        /\ outcome = "TRANSIENT" => attempt < config.upgradeThreshold
        /\ outcome = "SYSTEMIC" => attempt < config.upgradeThreshold
        BY <1>1, <2>1, ClassifierAnswers
  <2>3. outcome = "TRANSIENT" => attempt >= config.maxNodeRetries
        BY <1>5 DEF GiveUp, Retryable
  <2>4. outcome \in FinalStatus(config)
        BY <1>1, <2>2, <2>3 DEF FinalStatus, Kind
  <2> QED
      BY <1>1, <1>5, <2>4 DEF GiveUp, AttemptsBounded, OnlyTransientRetried, ReturnsFinalStatus
<1>6. CASE Retry
  <2>1. /\ errors[attempt + 1] \in SUBSET Kind
        /\ ClassifyFailure(errors[attempt + 1], attempt, config.upgradeThreshold) = "TRANSIENT"
        BY <1>6 DEF Retry, Retryable
  <2>2. /\ "TRANSIENT" \in errors[attempt + 1] /\ "CRITICAL" \notin errors[attempt + 1]
        /\ attempt < config.upgradeThreshold
        BY <1>1, <2>1, ClassifierAnswers
  <2> QED
      BY <1>1, <1>6, <2>2 DEF Retry, AttemptsBounded, OnlyTransientRetried, ReturnsFinalStatus
<1>7. CASE UNCHANGED attemptVars
      BY <1>7 DEF attemptVars, AttemptsBounded, OnlyTransientRetried, ReturnsFinalStatus
<1> QED
    BY <1>2, <1>3, <1>4, <1>5, <1>6, <1>7 DEF AttemptNext

\* The invariant holds in every state of the retry loop.
THEOREM AttemptInvariance == AttemptSpec => [](AttemptTypeOK /\ Attempts)
<1>1. AttemptInv /\ [AttemptNext]_attemptVars => AttemptInv'
      BY NextAttempts
<1>2. AttemptSpec => []AttemptInv
      BY InitAttempts, <1>1, PTL DEF AttemptSpec
<1> QED
    BY <1>2, PTL DEF AttemptInv

\* The state, the attempt, the status and the errors of a node keep their types (_execute_single).
THEOREM AttemptTypes == AttemptSpec => []AttemptTypeOK
BY AttemptInvariance, PTL

\* What a node hands to the quality gate: TRANSIENT only when max_node_retries is below
\* retry_count_upgrade_threshold, SYSTEMIC only when that threshold is not zero.
THEOREM FinalStatusReturned == AttemptSpec => []ReturnsFinalStatus
BY AttemptInvariance, PTL DEF Attempts

\* A failure that is critical, or not transient, is the last one.
THEOREM OnlyTransientFailuresRetried == AttemptSpec => []OnlyTransientRetried
BY AttemptInvariance, PTL DEF Attempts
====
