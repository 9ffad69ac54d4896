---- MODULE MCRunbookStages ----
(* The shipped runbooks in outline, and two that a user could register: autofix (exit or fix), *)
(* a dynamically planned stage, two required nodes without a critic, and three stages.         *)
EXTENDS RunbookStages

Stage(required, critic, exit, proceed, plan) ==
    [required |-> required, critic |-> critic, exit |-> exit, proceed |-> proceed, plan |-> plan]

Plain(plan) == Stage({"a"}, None, FALSE, FALSE, plan)

MCRunbooks ==
    { <<Stage({"a"}, "k", TRUE, TRUE, "static"), Stage({"a"}, "k", FALSE, FALSE, "builder")>>,
      <<Stage({"a"}, "k", FALSE, FALSE, "dynamic")>>,
      <<Stage({"a", "k"}, None, FALSE, FALSE, "static")>>,
      <<Plain("builder"), Plain("static"), Plain("static")>> }

Setting(nodeRetries, stageRetries, repeated, fixTries, auto) ==
    [maxNodeRetries |-> nodeRetries, maxStageRetries |-> stageRetries, upgradeThreshold |-> 2,
     repeatedThreshold |-> repeated, maxVerdictFixes |-> fixTries, autoReplan |-> auto]

\* The defaults; nodes that end TRANSIENT, with a failure that repeats; automatic replanning.
MCConfig == {Setting(3, 2, 3, 1, FALSE), Setting(1, 2, 2, 0, FALSE), Setting(1, 1, 1, 1, TRUE)}
====
