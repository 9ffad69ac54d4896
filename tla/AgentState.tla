---- MODULE AgentState ----
(* The life cycle of a run, RunState and AgentState.transition_to of                           *)
(* neuronium_agent/core/state.py, as the orchestrator modules use it.                          *)

RunState == {"PENDING", "RUNNING", "PAUSED", "COMPLETED", "FAILED", "CANCELLED"}
Terminal == {"COMPLETED", "FAILED", "CANCELLED"}

\* AgentState.transition_to raises ValueError unless this holds.
CanTransition(from, to) ==
    \/ from = "PENDING" /\ to \in {"RUNNING", "FAILED", "CANCELLED"}
    \/ from = "RUNNING" /\ to \in {"PAUSED", "COMPLETED", "FAILED", "CANCELLED"}
    \/ from = "PAUSED" /\ to \in {"RUNNING", "CANCELLED"}
====
