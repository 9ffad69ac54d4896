---- MODULE RunControl ----
(* One run under control commands: in each process of the program a worker thread inside       *)
(* Orchestrator._run_runbook and a controller thread inside apply_control, both of             *)
(* neuronium_agent/core/orchestrator.py. They share the AgentState and the interrupt request   *)
(* of their process, and with other processes only the index store. A step is what one thread  *)
(* does up to its next write of something shared. A stage is a number of batches of nodes and  *)
(* a gate; what the batches are and what the gate decides by is DagExecutor and RunbookStages. *)
EXTENDS AgentState, Naturals, FiniteSets

CONSTANTS
    Process,        \* the processes that load the run; each has one worker, one controller
    Starter,        \* the process whose worker runs start
    None,           \* Python's None
    Stages, Batches,    \* stages of the runbook, batches of each stage
    Commands,       \* commands that may be given: "pause", "continue", "stop", "stopNow", "revise"
    Limits          \* bounds of the model, one for each behaviour: the processes that act, what
                    \* gates lead to, the number of commands, resumes and crashes

ASSUME ProcessAssumption == Starter \in Process /\ None \notin Process \union RunState \union Commands
ASSUME SizeAssumption == Stages \in Nat \ {0} /\ Batches \in Nat \ {0}
ASSUME CommandsAssumption == Commands \subseteq {"pause", "continue", "stop", "stopNow", "revise"}
ASSUME LimitsAssumption ==
    Limits \subseteq [processes : SUBSET Process, gates : SUBSET {"pass", "fail", "escalate"},
                     commands : Nat, resumes : Nat, crashes : Nat]

VARIABLES
    db,         \* runs.state in the index store
    cp,         \* the latest checkpoint with a boundary of PHASE_BOUNDARIES, or None
    mem,        \* run_state of the AgentState each process holds; None without one
    irq,        \* _interrupt_requests of each process: the command, or None
    pc,         \* where each worker is
    ctx,        \* the checkpoint each worker resumes from, or None
    stage,      \* stage_index + 1 of each worker
    done,       \* batches of that stage whose results the worker holds
    goal,       \* of a worker that leaves: the interrupt it found, then the run state it records
    cpc,        \* where each controller is
    cmd,        \* its command
    executed,   \* history: the batches executed, <<stage, batch>>
    late,       \* history: batches begun since an interrupt request the worker can still see
    limits, commands, resumes, crashes

worker == <<pc, ctx, stage, done, goal>>
controller == <<cpc, cmd>>
store == <<db, cp>>
bounds == <<limits, commands, resumes, crashes>>
vars == <<store, mem, irq, worker, controller, executed, late, bounds>>

Batch == (1 .. Stages) \X (1 .. Batches)

Boundary == {"after_commit", "after_execute", "after_control", "paused", "paused_mid_execute",
             "cancelled_mid_execute", "final"}

\* A checkpoint: of its agent_state the run state, of its resume_context the boundary, the stage
\* (the first if it has no stage_index) and how many batches completed_node_results covers.
Checkpoint(boundary, st, s, d) == [boundary |-> boundary, state |-> st, stage |-> s, done |-> d]

\* The checkpoint of a command names no stage, and unless the run is PAUSED its boundary is none
\* that a resume looks for.
RecordCommand(st) == cp' = IF st = "PAUSED" THEN Checkpoint("paused", st, 1, 0) ELSE cp

Goto(p, place) == pc' = [pc EXCEPT ![p] = place]
SetMem(p, st) == mem' = [mem EXCEPT ![p] = st]

Init ==
    /\ db = "PENDING" /\ cp = None
    /\ mem = [p \in Process |-> IF p = Starter THEN "PENDING" ELSE None]
    /\ irq = [p \in Process |-> None]
    /\ pc = [p \in Process |-> IF p = Starter THEN "pop" ELSE "idle"]
    /\ ctx = [p \in Process |-> None]
    /\ stage = [p \in Process |-> 1] /\ done = [p \in Process |-> 0]
    /\ goal = [p \in Process |-> None]
    /\ cpc = [p \in Process |-> "idle"] /\ cmd = [p \in Process |-> None]
    /\ executed = {} /\ late = [p \in Process |-> 0]
    /\ limits \in Limits /\ commands = 0 /\ resumes = 0 /\ crashes = 0

----
(* The worker *)

\* transition_to, then `next`; its ValueError goes to the handler, which forces FAILED.
Transition(p, to, next) ==
    IF CanTransition(mem[p], to)
    THEN SetMem(p, to) /\ Goto(p, next) /\ goal' = [goal EXCEPT ![p] = to]
    ELSE SetMem(p, "FAILED") /\ Goto(p, "raised") /\ goal' = [goal EXCEPT ![p] = "FAILED"]

\* A request made before _run_runbook is forgotten here.
Pop(p) ==
    /\ pc[p] = "pop"
    /\ irq' = [irq EXCEPT ![p] = None]
    /\ Goto(p, IF ctx[p] = None THEN "begin" ELSE "resume")
    /\ UNCHANGED <<store, mem, ctx, stage, done, goal, controller, executed, late, bounds>>

Begin(p) ==
    /\ pc[p] = "begin"
    /\ Transition(p, "RUNNING", "begun")
    /\ UNCHANGED <<store, irq, ctx, stage, done, controller, executed, late, bounds>>

Begun(p) ==
    /\ pc[p] = "begun"
    /\ db' = "RUNNING"
    /\ Goto(p, "commit")
    /\ UNCHANGED <<cp, mem, irq, ctx, stage, done, goal, controller, executed, late, bounds>>

\* Mutants: a batch too many is skipped; a pause in mid-execution resumes after the execution.
ReenterOneLate(p) ==
    /\ pc[p] = "resume"
    /\ stage' = [stage EXCEPT ![p] = ctx[p].stage]
    /\ done' = [done EXCEPT ![p] = ctx[p].done + 1]
    /\ Goto(p, IF ctx[p].boundary = "paused_mid_execute" THEN "run" ELSE "commit")
    /\ UNCHANGED <<store, mem, irq, ctx, goal, controller, executed, late, bounds>>

ReenterPastExecute(p) ==
    /\ pc[p] = "resume"
    /\ stage' = [stage EXCEPT ![p] = ctx[p].stage]
    /\ done' = [done EXCEPT ![p] = ctx[p].done]
    /\ Goto(p, CASE ctx[p].boundary \in {"after_execute", "paused_mid_execute"} -> "control"
                 [] ctx[p].boundary = "after_control" -> "gate"
                 [] OTHER -> "commit")
    /\ UNCHANGED <<store, mem, irq, ctx, goal, controller, executed, late, bounds>>

\* Which phases of the stage a resume skips.
Reenter(p) ==
    /\ pc[p] = "resume"
    /\ stage' = [stage EXCEPT ![p] = ctx[p].stage]
    /\ done' = [done EXCEPT ![p] = ctx[p].done]
    /\ Goto(p, CASE ctx[p].boundary = "after_execute" -> "control"
                 [] ctx[p].boundary = "after_control" -> "gate"
                 [] ctx[p].boundary = "paused_mid_execute" -> "run"
                 [] OTHER -> "commit")
    /\ UNCHANGED <<store, mem, irq, ctx, goal, controller, executed, late, bounds>>

\* Only the boundaries of the first two iterations are in PHASE_BOUNDARIES.
RecordPhase(p, boundary, d) ==
    cp' = IF stage[p] <= 2 THEN Checkpoint(boundary, mem[p], stage[p], d) ELSE cp

Commit(p) ==
    /\ pc[p] = "commit"
    /\ RecordPhase(p, "after_commit", 0)
    /\ done' = [done EXCEPT ![p] = 0]
    /\ Goto(p, "run")
    /\ UNCHANGED <<db, mem, irq, ctx, stage, goal, controller, executed, late, bounds>>

RunBatch(p) ==
    /\ pc[p] = "run" /\ done[p] < Batches
    /\ done' = [done EXCEPT ![p] = done[p] + 1]
    /\ executed' = executed \union {<<stage[p], done[p] + 1>>}
    /\ late' = [late EXCEPT ![p] = IF irq[p] = None THEN 0 ELSE late[p] + 1]
    /\ Goto(p, "check")
    /\ UNCHANGED <<store, mem, irq, ctx, stage, goal, controller, bounds>>

\* Resumed with nothing pending.
NothingPending(p) ==
    /\ pc[p] = "run" /\ done[p] = Batches
    /\ Goto(p, "ran")
    /\ UNCHANGED <<store, mem, irq, ctx, stage, done, goal, controller, executed, late, bounds>>

\* Mutant: interrupts are looked for only when nothing is pending.
CheckAtEnd(p) ==
    /\ pc[p] = "check"
    /\ Goto(p, IF done[p] < Batches THEN "run" ELSE IF irq[p] # None THEN "interrupted" ELSE "ran")
    /\ goal' = [goal EXCEPT ![p] = irq[p]]
    /\ UNCHANGED <<store, mem, irq, ctx, stage, done, controller, executed, late, bounds>>

\* interrupt_check after every batch, the last one included.
Check(p) ==
    /\ pc[p] = "check"
    /\ Goto(p, IF irq[p] # None THEN "interrupted" ELSE IF done[p] < Batches THEN "run" ELSE "ran")
    /\ goal' = [goal EXCEPT ![p] = irq[p]]
    /\ UNCHANGED <<store, mem, irq, ctx, stage, done, controller, executed, late, bounds>>

\* Mutant: the next batch is among the completed ones.
InterruptedOneMore(p) ==
    /\ pc[p] = "interrupted"
    /\ cp' = Checkpoint("paused_mid_execute", mem[p], stage[p], done[p] + 1)
    /\ Goto(p, "halt")
    /\ UNCHANGED <<db, mem, irq, ctx, stage, done, goal, controller, executed, late, bounds>>

\* The request is the one found at the check, even if another has replaced it since.
Interrupted(p) ==
    /\ pc[p] = "interrupted"
    /\ cp' = IF goal[p] = "stopNow"
             THEN Checkpoint("cancelled_mid_execute", mem[p], stage[p], 0)
             ELSE Checkpoint("paused_mid_execute", mem[p], stage[p], done[p])
    /\ Goto(p, "halt")
    /\ UNCHANGED <<db, mem, irq, ctx, stage, done, goal, controller, executed, late, bounds>>

Halt(p) ==
    /\ pc[p] = "halt"
    /\ Transition(p, IF goal[p] = "pause" THEN "PAUSED" ELSE "CANCELLED", "halted")
    /\ UNCHANGED <<store, irq, ctx, stage, done, controller, executed, late, bounds>>

RecordExecution(p) ==
    /\ pc[p] = "ran"
    /\ RecordPhase(p, "after_execute", Batches)
    /\ Goto(p, "control")
    /\ UNCHANGED <<db, mem, irq, ctx, stage, done, goal, controller, executed, late, bounds>>

Control(p) ==
    /\ pc[p] = "control"
    /\ RecordPhase(p, "after_control", Batches)
    /\ Goto(p, "gate")
    /\ UNCHANGED <<db, mem, irq, ctx, stage, done, goal, controller, executed, late, bounds>>

\* Mutant: the stage index is not advanced.
NextStageForgets(p) ==
    /\ pc[p] = "gate" /\ "pass" \in limits.gates /\ stage[p] < Stages
    /\ done' = [done EXCEPT ![p] = 0]
    /\ Goto(p, "commit")
    /\ UNCHANGED <<store, mem, irq, ctx, stage, goal, controller, executed, late, bounds>>

NextStage(p) ==
    /\ pc[p] = "gate" /\ "pass" \in limits.gates /\ stage[p] < Stages
    /\ stage' = [stage EXCEPT ![p] = stage[p] + 1]
    /\ done' = [done EXCEPT ![p] = 0]
    /\ Goto(p, "commit")
    /\ UNCHANGED <<store, mem, irq, ctx, goal, controller, executed, late, bounds>>

Complete(p) ==
    /\ pc[p] = "gate" /\ "pass" \in limits.gates /\ stage[p] = Stages
    /\ Transition(p, "COMPLETED", "ending")
    /\ UNCHANGED <<store, irq, ctx, stage, done, controller, executed, late, bounds>>

FailRun(p) ==
    /\ pc[p] = "gate" /\ "fail" \in limits.gates
    /\ Transition(p, "FAILED", "ending")
    /\ UNCHANGED <<store, irq, ctx, stage, done, controller, executed, late, bounds>>

Escalate(p) ==
    /\ pc[p] = "gate" /\ "escalate" \in limits.gates
    /\ Transition(p, "PAUSED", "escalating")
    /\ UNCHANGED <<store, irq, ctx, stage, done, controller, executed, late, bounds>>

\* update_run_state, and what follows it: nothing after an exception, else a checkpoint.
Leaving(p, from, next) ==
    /\ pc[p] = from
    /\ db' = goal[p]
    /\ Goto(p, next)
    /\ UNCHANGED <<cp, mem, irq, ctx, stage, done, goal, controller, executed, late, bounds>>

StoreState(p) ==
    \/ Leaving(p, "halted", "haltRecord") \/ Leaving(p, "ending", "endRecord")
    \/ Leaving(p, "escalating", "escalateRecord") \/ Leaving(p, "raised", "leave")

RecordEnd(p) ==
    /\ \/ pc[p] = "haltRecord" /\ RecordCommand(mem[p]) /\ Goto(p, "unpop")
       \/ pc[p] = "endRecord" /\ cp' = Checkpoint("final", mem[p], 1, 0) /\ Goto(p, "leave")
       \/ /\ pc[p] = "escalateRecord"
          /\ cp' = Checkpoint("paused", mem[p], stage[p], 0) /\ Goto(p, "leave")
    /\ UNCHANGED <<db, mem, irq, ctx, stage, done, goal, controller, executed, late, bounds>>

\* An interrupted worker drops the request, and with it any that came since.
Unpop(p) ==
    /\ pc[p] = "unpop"
    /\ irq' = [irq EXCEPT ![p] = None]
    /\ Goto(p, "leave")
    /\ UNCHANGED <<store, mem, ctx, stage, done, goal, controller, executed, late, bounds>>

Return(p) ==
    /\ pc[p] = "leave"
    /\ Goto(p, "idle")
    /\ ctx' = [ctx EXCEPT ![p] = None] /\ goal' = [goal EXCEPT ![p] = None]
    /\ stage' = [stage EXCEPT ![p] = 1] /\ done' = [done EXCEPT ![p] = 0]
    /\ late' = [late EXCEPT ![p] = 0]
    /\ UNCHANGED <<store, mem, irq, controller, executed, bounds>>

Worker(p) ==
    \/ Pop(p) \/ Begin(p) \/ Begun(p) \/ Reenter(p) \/ Commit(p)
    \/ RunBatch(p) \/ NothingPending(p) \/ Check(p) \/ Interrupted(p) \/ Halt(p)
    \/ RecordExecution(p) \/ Control(p) \/ NextStage(p) \/ Complete(p) \/ FailRun(p) \/ Escalate(p)
    \/ StoreState(p) \/ RecordEnd(p) \/ Unpop(p) \/ Return(p)

----
(* The controller *)

\* apply_control works on the AgentState of its process, or else on that of the checkpoint.
Known(p) == IF mem[p] # None THEN mem[p] ELSE IF cp # None THEN cp.state ELSE None

Request(p, c) ==
    /\ cpc[p] = "idle" /\ Known(p) # None
    /\ p \in limits.processes /\ commands < limits.commands
    /\ SetMem(p, Known(p))
    /\ irq' = IF c \in {"pause", "stop", "stopNow"} THEN [irq EXCEPT ![p] = c] ELSE irq
    /\ late' = IF c \in {"pause", "stop", "stopNow"} THEN [late EXCEPT ![p] = 0] ELSE late
    /\ cmd' = [cmd EXCEPT ![p] = c]
    /\ cpc' = [cpc EXCEPT ![p] = IF c = "revise" THEN "record" ELSE "move"]
    /\ commands' = commands + 1
    /\ UNCHANGED <<store, worker, executed, limits, resumes, crashes>>

Target(c) == CASE c = "pause" -> "PAUSED" [] c = "continue" -> "RUNNING" [] OTHER -> "CANCELLED"

\* A ValueError is the caller's.
Move(p) ==
    /\ cpc[p] = "move"
    /\ IF CanTransition(mem[p], Target(cmd[p]))
       THEN SetMem(p, Target(cmd[p])) /\ cpc' = [cpc EXCEPT ![p] = "store"]
       ELSE UNCHANGED mem /\ cpc' = [cpc EXCEPT ![p] = "idle"]
    /\ UNCHANGED <<store, irq, worker, cmd, executed, late, bounds>>

Store(p) ==
    /\ cpc[p] = "store"
    /\ db' = Target(cmd[p])
    /\ cpc' = [cpc EXCEPT ![p] = "record"]
    /\ UNCHANGED <<cp, mem, irq, worker, cmd, executed, late, bounds>>

Record(p) ==
    /\ cpc[p] = "record"
    /\ RecordCommand(mem[p])
    /\ cpc' = [cpc EXCEPT ![p] = "idle"]
    /\ UNCHANGED <<db, mem, irq, worker, cmd, executed, late, bounds>>

Controller(p) == Move(p) \/ Store(p) \/ Record(p)

----
\* resume_run: nothing asks whether another process still runs the run.
Resume(p) ==
    /\ pc[p] = "idle" /\ cpc[p] = "idle"
    /\ p \in limits.processes /\ resumes < limits.resumes
    /\ db = "RUNNING" /\ cp # None
    /\ SetMem(p, "RUNNING") /\ ctx' = [ctx EXCEPT ![p] = cp]
    /\ Goto(p, "pop")
    /\ resumes' = resumes + 1
    /\ UNCHANGED <<store, irq, stage, done, goal, controller, executed, late, limits, commands, crashes>>

\* A process is killed, or exits once its threads are through.
Crash(p) ==
    /\ mem[p] # None
    /\ LET quiet == pc[p] = "idle" /\ cpc[p] = "idle"
       IN  /\ ~quiet => crashes < limits.crashes
           /\ crashes' = IF quiet THEN crashes ELSE crashes + 1
    /\ SetMem(p, None) /\ irq' = [irq EXCEPT ![p] = None]
    /\ Goto(p, "idle") /\ cpc' = [cpc EXCEPT ![p] = "idle"] /\ cmd' = [cmd EXCEPT ![p] = None]
    /\ ctx' = [ctx EXCEPT ![p] = None] /\ goal' = [goal EXCEPT ![p] = None]
    /\ stage' = [stage EXCEPT ![p] = 1] /\ done' = [done EXCEPT ![p] = 0]
    /\ late' = [late EXCEPT ![p] = 0]
    /\ UNCHANGED <<store, executed, limits, commands, resumes>>

Next ==
    \E p \in Process :
        \/ Worker(p) \/ Controller(p) \/ Resume(p) \/ Crash(p)
        \/ \E c \in Commands : Request(p, c)

Spec == Init /\ [][Next]_vars

\* The operating system runs every thread that can run.
FairSpec == Spec /\ \A p \in Process : WF_vars(Worker(p)) /\ WF_vars(Controller(p))

----
Place == {"idle", "pop", "begin", "begun", "resume", "commit", "run", "check", "interrupted", "halt",
          "ran", "control", "gate", "halted", "ending", "escalating", "raised", "haltRecord",
          "endRecord", "escalateRecord", "unpop", "leave"}

Checkpoints ==
    [boundary : Boundary, state : RunState, stage : 1 .. Stages, done : 0 .. Batches]

\* The type of every variable.
TypeOK ==
    /\ db \in RunState /\ mem \in [Process -> RunState \union {None}]
    /\ cp \in Checkpoints \union {None} /\ ctx \in [Process -> Checkpoints \union {None}]
    /\ pc \in [Process -> Place] /\ cpc \in [Process -> {"idle", "move", "store", "record"}]
    /\ stage \in [Process -> 1 .. Stages] /\ done \in [Process -> 0 .. Batches]
    /\ goal \in [Process -> RunState \union Commands \union {None}]
    /\ irq \in [Process -> Commands \union {None}] /\ cmd \in [Process -> Commands \union {None}]
    /\ executed \subseteq Batch /\ late \in [Process -> Nat]
    /\ limits \in Limits

\* Every batch up to batch d of stage s has been executed.
Backed(s, d) == \A b \in Batch : b[1] < s \/ (b[1] = s /\ b[2] <= d) => b \in executed

\* No checkpoint and no worker is ahead of what some process really executed (lines 698-729,
\* 897-908 and 929-932), however commands, crashes and several resumes interleave.
CheckpointNeverAhead ==
    /\ cp # None => Backed(cp.stage, cp.done)
    /\ \A p \in Process : Backed(stage[p], done[p])

\* The store says COMPLETED only if every batch of every stage was executed (line 1423).
CompletedRanEverything == db = "COMPLETED" => executed = Batch

\* A checkpoint is of something that happened; after EXECUTE, of the whole stage.
Sound(c) ==
    c # None =>
        /\ Backed(c.stage, c.done)
        /\ c.boundary \in {"after_execute", "after_control"} => c.done = Batches

\* The inductive invariant: where the workers are, what they resume from and what they record.
Positions ==
    /\ CheckpointNeverAhead /\ CompletedRanEverything
    /\ Sound(cp)
    /\ \A p \in Process :
         /\ Sound(ctx[p])
         /\ pc[p] # "idle" => mem[p] # None
         /\ pc[p] = "resume" => ctx[p] # None
         /\ pc[p] \in {"ran", "control", "gate"} => done[p] = Batches
         /\ pc[p] \in {"halted", "ending", "escalating", "raised"} => goal[p] \in RunState
         /\ goal[p] = "COMPLETED" => executed = Batch

\* From a pause or stop request on, a worker begins at most one more batch (executor.py, lines
\* 204-211), unless _run_runbook had yet to drop the request (line 664).
RequestHeeded == \A p \in Process : late[p] <= 1

\* Every pass of _run_runbook and every command comes to an end: however many there are, and
\* there are finitely many, the threads of all processes have nothing left to do again.
ThreadsReturn == []<>(\A p \in Process : pc[p] = "idle" /\ cpc[p] = "idle")

\* A run that is only paused and continued, and whose gates pass, does not fail.
PauseNeverFails == db # "FAILED"

\* A resume executes only what was pending: no batch twice.
OnlyPendingExecuted ==
    [][\A p \in Process :
         (pc[p] = "run" /\ pc'[p] = "check") => <<stage[p], done[p] + 1>> \notin executed]_vars
====
