---- MODULE MCRunControl ----
(* Instances of RunControl: one process, restarted after a crash or an exit, or two at once.   *)
EXTENDS RunControl

CONSTANTS p1, p2

Bounds(who, gates, c, r, k) ==
    [processes |-> who, gates |-> gates, commands |-> c, resumes |-> r, crashes |-> k]

MCLimits ==
    { Bounds({p1}, {"pass", "fail", "escalate"}, 2, 2, 1),
      Bounds({p1, p2}, {"pass", "escalate"}, 1, 1, 1) }
OnePause == {Bounds({p1}, {"pass"}, 1, 0, 0)}
PauseAndContinue == {Bounds({p1}, {"pass"}, 2, 1, 0)}
====
