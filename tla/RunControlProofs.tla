---- MODULE RunControlProofs ----
(* Proofs about RunControl, for any number of processes, stages and batches and any commands:  *)
(* no checkpoint is ahead of the execution, and a COMPLETED run executed everything.           *)
EXTENDS RunControl, TLAPS

Inv == TypeOK /\ Positions

\* The constants as the proofs need them.
LEMMA Constants ==
    /\ Starter \in Process /\ Stages \in Nat /\ Batches \in Nat /\ Stages >= 1 /\ Batches >= 1
    /\ None \notin RunState /\ None \notin Commands /\ "COMPLETED" \notin Commands
BY ProcessAssumption, SizeAssumption, CommandsAssumption

\* Nothing is needed at the start of the first stage, and nothing more at the start of the next
\* one than at the end of this one.
LEMMA BackedStarts ==
    /\ Backed(1, 0)
    /\ \A s \in 1 .. Stages : Backed(s, Batches) => Backed(s + 1, 0)
    /\ \A s \in 1 .. Stages, d \in 0 .. Batches : Backed(s, d) => Backed(s, 0)
BY Constants DEF Backed, Batch

\* At the end of the last stage everything has been executed.
LEMMA BackedAll ==
    ASSUME Backed(Stages, Batches), executed \subseteq Batch
    PROVE  executed = Batch
BY Constants DEF Backed, Batch

\* What was backed stays backed when more is executed.
LEMMA BackedStays ==
    ASSUME executed \subseteq executed', NEW s, NEW d, Backed(s, d)
    PROVE  Backed(s, d)'
BY DEF Backed

\* A checkpoint that was sound stays so when more is executed.
LEMMA SoundStays ==
    ASSUME executed \subseteq executed', NEW c, Sound(c)
    PROVE  Sound(c)'
BY DEF Sound, Backed

LEMMA InitInv == Init => Inv
<1> SUFFICES ASSUME Init PROVE Inv
    OBVIOUS
<1>1. TypeOK
      BY Constants DEF Init, TypeOK, RunState, Place, Batch
<1>2. Positions
      BY Constants, BackedStarts DEF Init, Positions, Sound, CheckpointNeverAhead,
         CompletedRanEverything, RunState
<1> QED
    BY <1>1, <1>2 DEF Inv

\* transition_to leaves mem, pc and goal in their types.
LEMMA TransitionType ==
    ASSUME TypeOK, NEW p \in Process, NEW to \in RunState, NEW next \in Place,
           Transition(p, to, next)
    PROVE  /\ mem' \in [Process -> RunState \union {None}]
           /\ pc' \in [Process -> Place]
           /\ goal' \in [Process -> RunState \union Commands \union {None}]
BY DEF TypeOK, Transition, SetMem, Goto, RunState, Place

\* A step of a worker keeps the types.
LEMMA WorkerType ==
    ASSUME TypeOK, Positions, NEW p \in Process, Worker(p)
    PROVE  TypeOK'
<1> USE Constants DEF TypeOK
<1>0. pc[p] # "idle" => mem[p] \in RunState
      BY DEF Positions
<1>1. CASE Pop(p)
      BY <1>1 DEF Pop, Goto, Place, store, controller, bounds
<1>2. CASE Begin(p) \/ Halt(p) \/ Complete(p) \/ FailRun(p) \/ Escalate(p)
  <2>1. /\ mem' \in [Process -> RunState \union {None}]
        /\ pc' \in [Process -> Place]
        /\ goal' \in [Process -> RunState \union Commands \union {None}]
    <3>1. {"RUNNING", "PAUSED", "CANCELLED", "COMPLETED", "FAILED"} \subseteq RunState
          BY DEF RunState
    <3>2. {"begun", "halted", "ending", "escalating"} \subseteq Place
          BY DEF Place
    <3>3. PICK to \in RunState, next \in Place : Transition(p, to, next)
          BY <1>2, <3>1, <3>2 DEF Begin, Halt, Complete, FailRun, Escalate
    <3> QED
        BY <3>3, TransitionType
  <2> QED
      BY <1>2, <2>1 DEF Begin, Halt, Complete, FailRun, Escalate, store, controller, bounds
<1>3. CASE Begun(p)
      BY <1>3 DEF Begun, Goto, Place, RunState, controller, bounds
<1>4. CASE Reenter(p)
  <2>1. ctx[p] \in Checkpoints
        BY <1>4 DEF Reenter, Positions
  <2>2. pc' \in [Process -> Place]
        BY <1>4 DEF Reenter, Goto, Place
  <2> QED
      BY <1>4, <2>1, <2>2 DEF Reenter, Checkpoints, store, controller, bounds
<1>5. CASE Commit(p)
      BY <1>0, <1>5 DEF Commit, Goto, RecordPhase, Checkpoint, Checkpoints, Boundary, Place,
         controller, bounds
<1>6. CASE RunBatch(p)
  <2>1. <<stage[p], done[p] + 1>> \in Batch
        BY <1>6 DEF RunBatch, Batch
  <2> QED
      BY <1>6, <2>1 DEF RunBatch, Goto, Place, store, controller, bounds
<1>7. CASE NothingPending(p)
      BY <1>7 DEF NothingPending, Goto, Place, store, controller, bounds
<1>8. CASE Check(p)
      BY <1>8 DEF Check, Goto, Place, store, controller, bounds
<1>9. CASE Interrupted(p)
      BY <1>0, <1>9 DEF Interrupted, Goto, Checkpoint, Checkpoints, Boundary, Place, controller,
         bounds
<1>10. CASE RecordExecution(p)
      BY <1>0, <1>10 DEF RecordExecution, Goto, RecordPhase, Checkpoint, Checkpoints, Boundary,
         Place, controller, bounds
<1>11. CASE Control(p)
      BY <1>0, <1>11 DEF Control, Goto, RecordPhase, Checkpoint, Checkpoints, Boundary, Place,
         controller, bounds
<1>12. CASE NextStage(p)
      BY <1>12 DEF NextStage, Goto, Place, store, controller, bounds
<1>13. CASE StoreState(p)
      BY <1>13 DEF StoreState, Leaving, Positions, Goto, Place, controller, bounds
<1>14. CASE RecordEnd(p)
      BY <1>0, <1>14 DEF RecordEnd, RecordCommand, Goto, Checkpoint, Checkpoints, Boundary,
         RunState, Place, controller, bounds
<1>15. CASE Unpop(p)
      BY <1>15 DEF Unpop, Goto, Place, store, controller, bounds
<1>16. CASE Return(p)
      BY <1>16 DEF Return, Goto, Place, store, controller, bounds
<1> QED
    BY <1>1, <1>2, <1>3, <1>4, <1>5, <1>6, <1>7, <1>8, <1>9, <1>10, <1>11, <1>12, <1>13, <1>14,
       <1>15, <1>16 DEF Worker

\* A step that is not a worker's keeps the types.
LEMMA OtherType ==
    ASSUME TypeOK, NEW p \in Process,
           Controller(p) \/ Resume(p) \/ Crash(p) \/ \E c \in Commands : Request(p, c)
    PROVE  TypeOK'
<1> USE Constants DEF TypeOK
<1>1. CASE Move(p)
      BY <1>1 DEF Move, Target, SetMem, RunState, store, worker, bounds
<1>2. CASE Store(p)
      BY <1>2 DEF Store, Target, RunState, worker, bounds
<1>3. CASE Record(p)
      BY <1>3 DEF Record, RecordCommand, Checkpoint, Checkpoints, Boundary, RunState, worker, bounds
<1>4. CASE Resume(p)
      BY <1>4 DEF Resume, SetMem, Goto, Place, RunState, store, controller
<1>5. CASE Crash(p)
      BY <1>5 DEF Crash, SetMem, Goto, Place, store
<1>6. CASE \E c \in Commands : Request(p, c)
  <2>1. PICK c \in Commands : Request(p, c)
        BY <1>6
  <2>2. Known(p) \in RunState
        BY <2>1 DEF Request, Known, Checkpoints
  <2> QED
      BY <2>1, <2>2 DEF Request, SetMem, store, worker
<1> QED
    BY <1>1, <1>2, <1>3, <1>4, <1>5, <1>6 DEF Controller

\* What transition_to and its handler leave of the invariant: the process keeps its AgentState, and
\* the worker records the state reached or FAILED.
LEMMA TransitionPositions ==
    ASSUME TypeOK, Positions, NEW p \in Process, NEW to \in RunState,
           NEW next \in {"begun", "halted", "ending", "escalating"},
           Transition(p, to, next), to = "COMPLETED" => executed = Batch,
           UNCHANGED <<store, ctx, stage, done, executed>>
    PROVE  Positions'
<1>1. /\ \A q \in Process : q # p => mem'[q] = mem[q] /\ pc'[q] = pc[q] /\ goal'[q] = goal[q]
      /\ mem'[p] \in RunState /\ pc'[p] \in {next, "raised"}
      /\ goal'[p] \in RunState /\ (goal'[p] = "COMPLETED" => to = "COMPLETED")
      BY DEF TypeOK, Transition, SetMem, Goto, RunState
<1> QED
    BY <1>1, Constants DEF Positions, CheckpointNeverAhead, CompletedRanEverything, Sound, Backed,
       store

\* A step of a worker keeps the positions sound.
LEMMA WorkerPositions ==
    ASSUME TypeOK, Positions, NEW p \in Process, Worker(p)
    PROVE  Positions'
<1> USE Constants
<1> DEFINE Here == /\ stage[p] \in 1 .. Stages /\ done[p] \in 0 .. Batches
                   /\ Backed(stage[p], done[p])
<1>0. Here
      BY DEF TypeOK, Positions, CheckpointNeverAhead
<1> USE DEF Positions, CheckpointNeverAhead, CompletedRanEverything
<1>1. CASE Pop(p)
      BY <1>1 DEF Pop, TypeOK, Goto, Sound, Backed, store, controller, bounds
<1>2. CASE Begin(p) \/ Halt(p) \/ Complete(p) \/ FailRun(p) \/ Escalate(p)
  <2>1. {"RUNNING", "PAUSED", "CANCELLED", "COMPLETED", "FAILED"} \subseteq RunState
        BY DEF RunState
  <2>2. Complete(p) => executed = Batch
    <3>1. Complete(p) => Backed(Stages, Batches)
          BY <1>0 DEF Complete
    <3> QED
        BY <3>1, BackedAll DEF TypeOK
  <2>3. PICK to \in RunState, next \in {"begun", "halted", "ending", "escalating"} :
            Transition(p, to, next) /\ (to = "COMPLETED" => executed = Batch)
        BY <1>2, <2>1, <2>2 DEF Begin, Halt, Complete, FailRun, Escalate
  <2>4. UNCHANGED <<store, ctx, stage, done, executed>>
        BY <1>2 DEF Begin, Halt, Complete, FailRun, Escalate
  <2> QED
      BY <2>3, <2>4, TransitionPositions
<1>3. CASE Begun(p)
      BY <1>3 DEF Begun, TypeOK, Goto, Sound, Backed, controller, bounds
<1>4. CASE Reenter(p)
  <2>1. /\ Backed(ctx[p].stage, ctx[p].done)
        /\ ctx[p].boundary \in {"after_execute", "after_control"} => ctx[p].done = Batches
        BY <1>4 DEF Reenter, Sound
  <2>2. /\ stage'[p] = ctx[p].stage /\ done'[p] = ctx[p].done
        /\ pc'[p] \in {"control", "gate"} => done'[p] = Batches
        /\ pc'[p] \in {"control", "gate", "run", "commit"}
        BY <1>4, <2>1 DEF Reenter, Goto, TypeOK
  <2> QED
      BY <1>4, <2>1, <2>2 DEF Reenter, TypeOK, Goto, Sound, Backed, store, controller, bounds
<1>5. CASE Commit(p)
  <2>1. Backed(stage[p], 0)
        BY <1>0, BackedStarts
  <2> QED
      BY <1>5, <2>1 DEF Commit, RecordPhase, Checkpoint, TypeOK, Goto, Sound, Backed, controller,
         bounds
<1>6. CASE RunBatch(p)
  <2>1. executed \subseteq executed' /\ executed' \subseteq Batch
    <3>1. <<stage[p], done[p] + 1>> \in Batch
          BY <1>0, <1>6 DEF RunBatch, Batch
    <3> QED
        BY <1>6, <3>1 DEF RunBatch, TypeOK
  <2>2. executed = Batch => executed' = Batch
        BY <2>1
  <2>3. /\ stage' = stage /\ done'[p] = done[p] + 1
        /\ \A q \in Process : q # p => done'[q] = done[q]
        BY <1>6 DEF RunBatch, TypeOK
  <2>4. Backed(stage[p], done[p])'
    <3>1. executed' = executed \union {<<stage[p], done[p] + 1>>}
          BY <1>6 DEF RunBatch
    <3>2. ASSUME NEW b \in Batch,
                 b[1] < stage[p] \/ (b[1] = stage[p] /\ b[2] <= done[p] + 1)
          PROVE  b \in executed'
      <4>1. CASE b[1] = stage[p] /\ b[2] = done[p] + 1
            BY <3>1, <4>1 DEF Batch
      <4>2. CASE b[1] < stage[p] \/ (b[1] = stage[p] /\ b[2] <= done[p])
            BY <1>0, <3>1, <4>2 DEF Backed
      <4> QED
          BY <1>0, <3>2, <4>1, <4>2 DEF Batch
    <3> QED
        BY <2>3, <3>2 DEF Backed
  <2>5. ASSUME NEW q \in Process PROVE Backed(stage[q], done[q])'
    <3>1. CASE q = p
          BY <2>4, <3>1
    <3>2. CASE q # p
      <4>1. Backed(stage[q], done[q]) /\ stage'[q] = stage[q] /\ done'[q] = done[q]
            BY <2>3, <3>2
      <4> QED
          BY <2>1, <4>1 DEF Backed
    <3> QED
        BY <3>1, <3>2
  <2>6. ASSUME NEW c, Sound(c) PROVE Sound(c)'
        BY <2>1, <2>6, SoundStays
  <2>7. Sound(cp)'
        BY <1>6, <2>6 DEF RunBatch, store, Sound, Backed
  <2>8. \A q \in Process : Sound(ctx[q])'
        BY <1>6, <2>6 DEF RunBatch, Sound, Backed
  <2>9. pc'[p] = "check" /\ \A q \in Process : q # p => pc'[q] = pc[q]
        BY <1>6 DEF RunBatch, Goto, TypeOK
  <2> QED
      BY <1>6, <2>1, <2>2, <2>3, <2>5, <2>7, <2>8, <2>9 DEF RunBatch, Sound, store
<1>7. CASE NothingPending(p)
      BY <1>7 DEF NothingPending, TypeOK, Goto, Sound, Backed, store, controller, bounds
<1>8. CASE Check(p)
  <2>1. done[p] < Batches \/ done[p] = Batches
        BY <1>0
  <2>2. irq[p] # "COMPLETED"
        BY DEF TypeOK, RunState
  <2> QED
      BY <1>8, <2>1, <2>2 DEF Check, TypeOK, Goto, Sound, Backed, store, controller, bounds
<1>9. CASE Interrupted(p)
  <2>1. Backed(stage[p], 0)
        BY <1>0, BackedStarts
  <2> QED
      BY <1>0, <1>9, <2>1 DEF Interrupted, Checkpoint, TypeOK, Goto, Sound, Backed, controller,
         bounds
<1>10. CASE RecordExecution(p)
      BY <1>0, <1>10 DEF RecordExecution, RecordPhase, Checkpoint, TypeOK, Goto, Sound, Backed,
         controller, bounds
<1>11. CASE Control(p)
      BY <1>0, <1>11 DEF Control, RecordPhase, Checkpoint, TypeOK, Goto, Sound, Backed, controller,
         bounds
<1>12. CASE NextStage(p)
  <2>1. Backed(stage[p] + 1, 0)
        BY <1>0, <1>12, BackedStarts DEF NextStage
  <2> QED
      BY <1>12, <2>1 DEF NextStage, TypeOK, Goto, Sound, Backed, store, controller, bounds
<1>13. CASE StoreState(p)
      BY <1>13 DEF StoreState, Leaving, TypeOK, Goto, Sound, Backed, controller, bounds
<1>14. CASE RecordEnd(p)
  <2>1. Backed(stage[p], 0) /\ Backed(1, 0)
        BY <1>0, BackedStarts
  <2>2. Sound(cp')
    <3>1. cp' = cp \/ cp' = Checkpoint("paused", "PAUSED", 1, 0)
             \/ cp' = Checkpoint("final", mem[p], 1, 0)
             \/ cp' = Checkpoint("paused", mem[p], stage[p], 0)
          BY <1>14 DEF RecordEnd, RecordCommand
    <3> QED
        BY <2>1, <3>1 DEF Checkpoint, Sound
  <2> QED
      BY <1>14, <2>2 DEF RecordEnd, TypeOK, Goto, Sound, Backed, controller, bounds
<1>15. CASE Unpop(p)
      BY <1>15 DEF Unpop, TypeOK, Goto, Sound, Backed, store, controller, bounds
<1>16. CASE Return(p)
      BY <1>16, BackedStarts DEF Return, TypeOK, Goto, Sound, Backed, RunState, store, controller
<1> QED
    BY <1>1, <1>2, <1>3, <1>4, <1>5, <1>6, <1>7, <1>8, <1>9, <1>10, <1>11, <1>12, <1>13, <1>14,
       <1>15, <1>16 DEF Worker

\* A step that is not a worker's keeps the positions sound.
LEMMA OtherPositions ==
    ASSUME TypeOK, Positions, NEW p \in Process,
           Controller(p) \/ Resume(p) \/ Crash(p) \/ \E c \in Commands : Request(p, c)
    PROVE  Positions'
<1> USE Constants DEF Positions, CheckpointNeverAhead, CompletedRanEverything
<1>1. CASE Move(p)
      BY <1>1 DEF Move, Target, SetMem, TypeOK, RunState, Sound, Backed, store, worker, bounds
<1>2. CASE Store(p)
      BY <1>2 DEF Store, Target, Sound, Backed, worker, bounds
<1>3. CASE Record(p)
      BY <1>3, BackedStarts DEF Record, RecordCommand, Checkpoint, Sound, Backed, worker, bounds
<1>4. CASE Resume(p)
      BY <1>4 DEF Resume, SetMem, Goto, TypeOK, RunState, Sound, Backed, store, controller
<1>5. CASE Crash(p)
      BY <1>5, BackedStarts DEF Crash, SetMem, Goto, TypeOK, RunState, Sound, Backed, store
<1>6. CASE \E c \in Commands : Request(p, c)
  <2>1. PICK c \in Commands : Request(p, c)
        BY <1>6
  <2> QED
      BY <2>1 DEF Request, SetMem, TypeOK, Sound, Backed, store, worker
<1> QED
    BY <1>1, <1>2, <1>3, <1>4, <1>5, <1>6 DEF Controller

\* Every step of every process keeps the invariant.
LEMMA NextInv == Inv /\ [Next]_vars => Inv'
<1> SUFFICES ASSUME Inv, [Next]_vars PROVE Inv'
    OBVIOUS
<1>1. CASE Next
      BY <1>1, WorkerType, OtherType, WorkerPositions, OtherPositions DEF Inv, Next
<1>2. CASE UNCHANGED vars
      BY <1>2 DEF vars, Inv, TypeOK, Positions, CheckpointNeverAhead, CompletedRanEverything, Sound,
         Backed, store, worker, controller, bounds
<1> QED
    BY <1>1, <1>2

\* The invariant holds in every state, whatever threads, processes, commands and crashes do.
THEOREM Invariance == Spec => [](TypeOK /\ Positions)
<1>1. Inv /\ [Next]_vars => Inv'
      BY NextInv
<1>2. Spec => []Inv
      BY InitInv, <1>1, PTL DEF Spec
<1> QED
    BY <1>2, PTL DEF Inv

\* No checkpoint and no worker is ever ahead of what was executed.
THEOREM NeverAhead == Spec => []CheckpointNeverAhead
BY Invariance, PTL DEF Positions

\* A run that is COMPLETED in the store has executed every batch of every stage.
THEOREM CompletedRuns == Spec => []CompletedRanEverything
BY Invariance, PTL DEF Positions

\* The types hold in every state.
THEOREM Types == Spec => []TypeOK
BY Invariance, PTL

-----------------------------------------------------------------------------
\* What a worker knows of the batches it began since a request: one at most, and then it is between
\* that batch and its end, with the request still there when it looks for it.
Heeding ==
    \A p \in Process :
        /\ late[p] \in {0, 1}
        /\ late[p] = 1 =>
             /\ pc[p] \in {"check", "interrupted", "halt", "halted", "raised", "haltRecord", "unpop",
                          "leave"}
             /\ pc[p] = "check" => irq[p] # None

\* A step of a worker keeps it: RunBatch counts the batch, Check finds the request, Return forgets.
LEMMA WorkerHeeds ==
    ASSUME TypeOK, Heeding, NEW p \in Process, Worker(p)
    PROVE  Heeding'
<1> USE DEF Heeding
<1>1. CASE RunBatch(p)
      BY <1>1 DEF RunBatch, Goto, TypeOK
<1>2. CASE Check(p)
      BY <1>2 DEF Check, Goto, TypeOK
<1>3. CASE Begin(p) \/ Halt(p) \/ Complete(p) \/ FailRun(p) \/ Escalate(p)
  <2>1. pc'[p] \in {"begun", "halted", "ending", "escalating", "raised"}
        BY <1>3 DEF Begin, Halt, Complete, FailRun, Escalate, Transition, Goto, TypeOK
  <2>2. pc[p] # "halt" => pc[p] \in {"begin", "gate"}
        BY <1>3 DEF Begin, Halt, Complete, FailRun, Escalate
  <2>3. pc[p] = "halt" => pc'[p] \in {"halted", "raised"}
        BY <1>3 DEF Begin, Halt, Complete, FailRun, Escalate, Transition, Goto, TypeOK
  <2>4. /\ late' = late /\ irq' = irq
        /\ \A q \in Process \ {p} : pc'[q] = pc[q]
        BY <1>3 DEF Begin, Halt, Complete, FailRun, Escalate, Transition, Goto, TypeOK
  <2> QED
      BY <2>1, <2>2, <2>3, <2>4
<1>4. CASE Pop(p) \/ Unpop(p)
      BY <1>4 DEF Pop, Unpop, Goto, TypeOK
<1>5. CASE StoreState(p) \/ RecordEnd(p)
      BY <1>5 DEF StoreState, Leaving, RecordEnd, Goto, TypeOK
<1>6. CASE Return(p)
      BY <1>6 DEF Return, Goto, TypeOK
<1>7. CASE Begun(p) \/ Reenter(p) \/ Commit(p) \/ NothingPending(p)
      BY <1>7 DEF Begun, Reenter, Commit, NothingPending, Goto, TypeOK
<1>8. CASE Interrupted(p) \/ RecordExecution(p) \/ Control(p) \/ NextStage(p)
      BY <1>8 DEF Interrupted, RecordExecution, Control, NextStage, Goto, TypeOK
<1> QED
    BY <1>1, <1>2, <1>3, <1>4, <1>5, <1>6, <1>7, <1>8 DEF Worker

\* So does every other step: a request starts the count anew, a crash ends the worker.
LEMMA OtherHeeds ==
    ASSUME TypeOK, Heeding, NEW p \in Process,
           Controller(p) \/ Resume(p) \/ Crash(p) \/ \E c \in Commands : Request(p, c)
    PROVE  Heeding'
<1> USE Constants DEF Heeding
<1>1. CASE Controller(p)
      BY <1>1 DEF Controller, Move, Store, Record, worker
<1>2. CASE Resume(p)
      BY <1>2 DEF Resume, Goto, TypeOK
<1>3. CASE Crash(p)
      BY <1>3 DEF Crash, Goto, TypeOK
<1>4. CASE \E c \in Commands : Request(p, c)
  <2>1. PICK c \in Commands : Request(p, c)
        BY <1>4
  <2> QED
      BY <2>1 DEF Request, TypeOK, worker
<1> QED
    BY <1>1, <1>2, <1>3, <1>4

\* A pause or stop is heeded within a batch: while the request stands the worker begins at most one
\* more, in any process, whatever replaces the request, crashes or is resumed (execute, lines
\* 204-211, and _run_runbook).
THEOREM HeedsRequests == Spec => []RequestHeeded
<1>1. Init => Heeding
      BY DEF Init, Heeding
<1>2. TypeOK /\ Heeding /\ [Next]_vars => Heeding'
  <2> SUFFICES ASSUME TypeOK, Heeding, [Next]_vars PROVE Heeding'
      OBVIOUS
  <2>1. CASE Next
        BY <2>1, WorkerHeeds, OtherHeeds DEF Next
  <2>2. CASE UNCHANGED vars
        BY <2>2 DEF vars, worker, Heeding
  <2> QED
      BY <2>1, <2>2
<1>3. Heeding => RequestHeeded
      BY DEF Heeding, RequestHeeded
<1> QED
    BY <1>1, <1>2, <1>3, Types, PTL DEF Spec
====
