# A verification development for neuronium

neuronium runs *runbooks*: sequences of stages, each a DAG of typed nodes (model calls, code,
decisions) followed by a quality gate and, if the gate fails, by a recovery decision. Runs can be
paused, stopped, revised, killed and resumed. This directory models that core in TLA+, checks the
models with TLC on small instances and proves the properties that matter most with TLAPS for every
instance. Line numbers are those of the files under `neuronium_agent/`.

## 1. The system

| Component | State it keeps | Operations | What makes it correct |
|---|---|---|---|
| Action graph (`planning/dag.py`) | nodes, edges, branches | `topological_order`, `predecessors`, `adjacency` | each node once, after its predecessors, ties by (priority, id); a cycle is refused |
| DAG executor (`execution/executor.py`) | `results`; per call `pending`, `completed`, `selected_branches` | `execute`, `_execute_batch` | a node at most once, only with its inputs settled, never in an unselected branch; results independent of batch size, thread order and pauses |
| Node retries (`executor.py`, `recovery/classifier.py`) | attempt count, last failure class | `_execute_single`, `classify_failure` | only transient failures retried, boundedly; the node has an outcome |
| Recovery policy (`recovery/policy.py`, `scope.py`) | none (pure) | `decide_recovery`, `compute_rollback_scope` | retry only within budgets; a rollback closed under dependence |
| Run life cycle (`core/state.py`) | `AgentState.run_state` | `transition_to` | terminal states are final |
| Runbook stages (`core/orchestrator.py`, `_run_runbook`) | stage index, results, verdict, retry counters, history | COMMIT, EXECUTE, CONTROL, ADAPT | COMPLETED only through every gate, in order; retries bounded; it returns |
| Checkpoints (`trace/checkpoints.py`) | events in the trace | build, latest, load, validate | never ahead of the execution; a resumed run decides like an uninterrupted one |
| Run control (`apply_control`, `resume_run`) | `_states`, `_interrupt_requests` | pause, continue, stop, replan, revise, escalate, resume | a request is heeded at the next batch; a pause loses nothing |
| Index store (`storage/*_store.py`) | tables runs, trace_events, artifacts, lineage, node_executions; one connection and its lock | upsert, update, append | the stored run state agrees with the checkpoint; no lock outlives its call |
| Trace recorder (`trace/recorder.py`) | the log in memory, its lock | `record` | the log and the stored trace agree |
| Command line (`cli/main.py`) | command queue, worker and input threads | interactive run and resume loops | commands in order and at most once, loops end |
| Queue worker (`queue/rq_runner.py`) | jobs in redis | enqueue, execute job | the handle finds the run |
| Replay (`trace/replay.py`, the replay paths of nodes) | responses recorded, responses still ahead | record, inject, replay | nothing but what was answered, in the same order |
| Planners (`planning/dynamic_planner.py`, `htn*.py`, `planner_*.py`, `operator_catalog.py`) | queue of subgoals, leaves, model calls | `plan` | bounded decomposition; every source is read; a valid graph, questions or an exception |
| Clarification (`planning/state_patch.py`, `missing_slots.py`, `_infer_runbook_metadata`) | metadata, patches in the trace, open questions | ask, answer, patch, infer | patches are all or nothing; only open fields are asked for; the newest answer counts |
| Memory (`memory/`, `tools/memory_tools.py`) | chunks and documents in a second connection | ingest, query | calls return, whatever the other connection does |
| Blob store, migrations (`storage/fs_cas.py`, `migrator.py`) | two files for each artifact; schema version | put, migrate | an artifact stored is whole and described; a start after a crash finds the database usable |
| Nodes, tools, critics, schemas, config, exporters | none of their own | single calls | outcomes only, for the rest of the system |

How they interact. The CLI (or a queue worker) starts a worker thread that stays inside
`Orchestrator._run_runbook` until the run rests. It calls `DAGExecutor.execute` for each stage; the
executor runs batches in a thread pool and polls `interrupt_check` between batches. A controller (the
CLI's main thread, or another process) calls `apply_control`, which shares the in-memory `AgentState`
and the interrupt dictionary with the worker of its own process and only the index store with other
processes. Whatever survives a process is the stored run state and the trace, whose checkpoint events
`resume_run` reads.

Before a `graph_builder` stage can execute, a planner makes its graph. It may ask the user first: the run
then pauses, the questions are in the checkpoint, the answers come as a `revise` command, and the resumed
run infers its metadata from all revise commands of the trace. Below all this are two SQLite connections
to one file (index and memory store) shared by the threads of the executor's pool, and a directory of
blobs shared by all processes.

What is hard in it: three writes (memory, store, checkpoint) for one change of state, with crashes and
other threads in between; bookkeeping rebuilt from partial results on resume; a gate decided from live
results in one execution and from a snapshot in another; checkpoints that shadow each other; retry
counters at four levels; a terminal read by one thread, a run worked on by another and a loop between
them; transactions that Python begins and nobody ends; scripts and files that are there before they are
complete. `PROJECT.json` lists each hazard at its line.

## 2. The modules

    NaturalRecursion       lemmas: induction, recursive functions
    ActionGraph            graphs, orders, branches            (pure)
      ActionGraphProofs    lemmas about its recursive functions
      Dataflow             what running a graph promises       (abstract specification)
      DagExecutor          execute(), batches, pool, pauses    -> implements Dataflow
        MCDagExecutor      the graphs TLC is given
        DagExecutorProofs
    Recovery               classify_failure, decide_recovery   (pure)
      NodeAttempts         _execute_single
        NodeAttemptsProofs
      RunbookStages        _run_runbook, resume_run, commands between passes (with AgentState)
        MCRunbookStages    the runbooks and settings TLC is given
        RunbookStagesProofs
    AgentState             run states and transition_to        (pure)
      RunControl           worker and controller threads of several processes
        MCRunControl, RunControlProofs
    PlannerInputs          metadata, missing fields, patches   (pure)
      HtnPlanner           one call of a planner backend
        Clarification      the calls of a run, its questions, answers and resumes
          MCClarification, ClarificationProofs
    Stores                 threads on two SQLite connections
    Durable                migrations and blobs under crashes, failed writes and overlaps
    Replay                 recording a run, strict replay of it
    CommandLine            the interactive session (with AgentState)
      MCServices           instances of these four and of NodeAttempts
        ServicesProofs

They are layers of one system, each abstracting the one below it to what it passes up. A node in
`DagExecutor` is a thread with an outcome chosen in advance; how that outcome comes about is
`NodeAttempts`, whose `FinalStatus` (proved: `FinalStatusReturned`) is exactly the set of outcomes that
`RunbookStages` lets an execution of a stage have. `RunbookStages` executes a stage in one step;
`RunControl` splits it into batches and every handler into its writes, and reduces the gate to its
three consequences. `HtnPlanner` and `Clarification` are what happens in `RunbookStages` when a dynamic
stage commits to a graph, up to that graph or to the pause. `CommandLine` drives the controller of
`RunControl` and takes from it that a run comes to rest (`RunRests`, `ThreadsReturn`), FAILED if a
command and the worker's own transition collide. `Stores` is what `RunControl` takes as one atomic write.

**ActionGraph / DagExecutor.** `pending`, `completed`, `selected`, `results` are the variables of
`execute`. `Plan` is lines 122-148, `SelectBatch`/`NothingReady` one turn of the loop up to the batch
or to the deadlock error, `StartNode`/`FinishNode` a pool thread, `CommitBatch` lines 185-202,
`PollProceeds`/`PollInterrupts` lines 204-211, `Resume` a new executor given the results of an
interrupted one; it is the user's, and no part of `Execute`. `oracle` fixes each node's answer, so that results can be compared with a reference;
`runs` counts executions and is read by properties only.

**Recovery / NodeAttempts.** An error text is the set of phrase families that occur in it (critical,
transient, persistent, systemic): `classify_failure` looks for nothing else, and its order of tests is
kept. One action per exit of the loop of `_execute_single`. The error of a node without an
implementation contains the node's id, hence any phrase (`NoImplementation`).

**RunbookStages.** The local variables of `_run_runbook` are variables; `db` is `runs.state`, `cp` the
latest checkpoint that `get_latest_phase_boundary_checkpoint` would return, `mem` the in-memory state.
Each phase of a stage is an action that ends with its checkpoint; a crash may come between any two
writes of store and trace. A critic's answer is one of eight kinds, as far as the live path
(`_extract_verdict`) and the snapshot path (`_build_gate_snapshot` and the rebuilt verdict) can tell
answers apart. `truth` records what the last execution of a stage deserved: "passed", "failed", or
"extra", a PASS with a field too many, which the live path rejects and the snapshot path does not see.
It becomes "reread" when a resume takes the snapshot instead. Each handler has its failing exit:
`ExecuteFails` (the executor's deadlock error, an artifact that cannot be written), `WriteEscalation` and
`WriteQuestions` may end in the exception handler, and so may `_finalize_run` after the run has been set
COMPLETED (`FinalizeFails`).

**RunControl.** A step is what a thread does up to its next write of something shared. `pc` walks the
worker through `_run_runbook`, `cpc` the controller through `apply_control`; both use the same `mem[p]`
without a lock, as the code does. `Request` is the first half of a command (interrupt request set),
`Move`, `Store`, `Record` the three writes that follow. Any process may resume the run as soon as the
store says RUNNING. `limits` holds the bounds of a behaviour: who acts, which answers of the gate, how
many commands, resumes and crashes.

**PlannerInputs / HtnPlanner / Clarification.** A value of the metadata is the set of its non-blank
strings, which keeps apart what the code treats differently: absent, blank and given. A list of URLs may
hold the element `Blank` besides, since `_context_kind` tests whether the list is empty, not what is in
it. Lists are lists: `doc_paths` given as one string, which `_resolve_inputs_tool_first` ignores (626), is
left out. `HtnPlanner` has
the locals of `plan()` as variables and one action for each nested graph it runs and for each subgoal it
takes off its queue; the model's replies (extraction, questions, method) and the file search are choices,
None if the nested node failed. Leaves and graph are those of `_expand_subgoal` and `_build_action_graph`,
and `Validate` is the check of `_plan_dynamic_graph`, the catalog's `assert_node_allowed` included. `Clarification` adds the run around it: `Pause` and
`Fail` are the branches of `_run_runbook`, `Resume` applies `_infer_runbook_metadata` to `patches`, the
revise commands in the trace, and `cli` is where the supervised loop stands. Another process may revise
or continue, and the process may end at any time.

**Stores.** A thread of the pool executes a list of calls. `Record`, `Lock`, `Fetch`, `Execute`, `Commit`
are the statements between two of which another thread may come: the recorder's lock, the connection's
lock, the SQL statement that takes SQLite's write lock, the commit. `txn` is the transaction of a
connection. SQLite and Python's `sqlite3` are modelled from how the code uses them, which a small
program confirmed: an INSERT that violates a primary key leaves the transaction Python began open, so
that the connection keeps the write lock (`Execute`); a statement that meets the lock of the other
connection fails after five seconds and leaves its own transaction begun (`TimeOut`); a SELECT in a begun
transaction fixes its snapshot, after which a write is refused at once if others have committed
(`Refuse`). `ignored` says that a duplicate was met. Two INSERTs of one identifier do occur when
`memory.ingest_files` is called with a path given twice: identifiers are made of path, content and the
time of the call, so that another call, even of the same file, has its own (`Ingest`).

**Durable.** Each process opens the database (`Open`, then `ApplyScript` and `RecordVersion` for each
migration, whose statements `executescript` commits one by one), then puts the same artifact: `OpenFile`
and `WriteBytes` for the blob, `OpenMeta` and `WriteMeta` for its `.meta.json`. `Crash` may come between
any two steps, and a write may fail without one (`PutFails`); both note where (`faultAt`). `overlapped`
notes that two processes were at it at once. Properties speak of both, so that they say exactly when the
disk can be left broken.

**Replay.** `Answer` is one attempt of a node with what it appends to `_recorded_responses`, followed by
another only if its failure was transient (`MayBeCalled`); `EndExecute`,
`PauseExecute` and `BreakExecute` the three ways `_execute` can end, of which the last writes no
`replay_data`. `Inject` and `Repeat` are `ReplayProvider` and the replay paths of the nodes: strict, and
with the whole list of responses for every execution of a node. A replayed failure comes without its
error text, which `classify_failure` takes for PERSISTENT, so a replay calls a node once in an execution.
As long as the answers come out as they did, it calls the nodes the run called (`Differs`).

**CommandLine.** `main`, `worker` and `reader` are the three threads of `_interactive_run_loop`, `stdin`
what is typed, `queue` the command queue, `terminal` which of the standard streams is one: without both
there is no input thread, without an input there is no prompt. `Publish` hands out the handle, in a
session that starts a run before the run begins, in one that resumes when it is over. `Rest` ends the run:
if a command has taken it out of RUNNING, the worker's own transition raises and the handler forces FAILED.
What the handler does not cover (an unknown runbook, a store) raises in the worker (`WorkerRaises`) and
then in the main thread. Every line is numbered, and `losses` collects what became of
those that did not become commands: dropped without a handle, refused by the run, swallowed by a reader
that was told to stop, left in the queue.

## 3. The runs

| Run | Instance | Shows |
|---|---|---|
| `dag_executor` | every digraph on 3 nodes with two priority orders; every acyclic graph on 4 nodes with a decision of one or two branches, or two nested decisions; batches of 2; one pause | bookkeeping, at-most-once, pruning, confluence against a reference, order, refinement of `Dataflow`, termination |
| `runbook_stages` | four runbooks (exit-or-fix, dynamic plan, two required nodes, three stages), three settings, all eight critic answers, one crash, two commands | completion only through gates, order, budgets, snapshots, rest |
| `run_control` | two stages of two batches, all commands; one process with all gates, two commands, two resumes and a crash, or two processes with one command, one resume and a crash | positions, requests heeded within a batch, checkpoints never ahead, COMPLETED means executed, threads return |
| `clarification` | one URL, two paths, one bare name; nine requests for both backends, tight limits among them; five extractions, one with a blank URL; two revise commands, one interrupt, another process | the plan reads every source, questions are about open fields, planning ends |
| `services` | `Stores`: two threads with one or two nodes each, files of no, one and two chunks, one path given twice. `Durable`: two processes, two migrations of which one is repeatable, two crashes or failed writes. `Replay`: one or two executions of one or two nodes, two attempts, four outcomes. `CommandLine`: three lines, two loops, started or resumed, three kinds of terminal. `NodeAttempts`: retries 0..3, upgrade threshold 0..3, every set of phrases for every attempt | trace and locks, disk after crashes, replays, commands, which failures are retried and which classes come out; calls, sessions and attempts end |
| `dag_deadlock`, `stages_after_control`, `stages_terminal`, `control_pause_fails`, `control_exact_point` | as above, with the commands that show it | disagreements 1 to 5 of section 5 |
| `newest_answer` | one request, two revise commands that set `doc_paths` | disagreement 6 |
| `resumed_commands` | `CommandLine`, two lines, two loops | disagreement 7 |

Why the bounds are enough. Four nodes hold every pattern of the executor's rules: a decision, its
target, the target's successor, and a bystander; batches of two make a batch smaller than the ready
set, equal to it and larger. Two stages are the shortest runbook with a stage to skip, three reach the
iterations that PHASE_BOUNDARIES does not list. Two batches put a pause before, between and after
batches. Two commands make pause and continue, or two contradictory ones. Two revise commands are an
answer and a correction of it, which is what the order of patches matters for. Two threads are one for
each connection, or both on one; a path given twice is the shortest way to a duplicate, and what follows
it, in the other thread and in the same, is in the scripts. Two processes can overlap, one can die and
come back, and two faults let both die in the same place, or one die where another could not write. Two executions of a node tell its first response from its next, two attempts a failed answer from a good one. Three lines are a
command, one that overtakes it and one left for the prompt; the second loop differs from the first in
its handle. Retries up to three with thresholds up to three meet every order of the two. The five parts
of `services` share no state, so `part` picks one for a whole behaviour, and in the same way `limits` picks
the bounds of one in `run_control`. The proofs of section 4 have no such bounds. `CHECK_DEADLOCK` is off
because all these systems stop: a run ends, and with its commands used up nothing more happens.

Fairness. `DagExecutor`: weak fairness of `execute` and of starting a queued node, none of pause
requests and resumes, which the user owes nobody, and none of the end of a node: a node in docker has no
timeout (`code_node.py` 217-236). `ExecuteReturns` therefore says that `execute` returns, raises or is
interrupted if no node runs for ever, and an interrupted run may rest.
`NodeAttempts`: of the loop. It takes for granted that an attempt returns or raises, and so do the runs
above it, which hold as far as that does. `RunbookStages`: of the worker thread only; crashes, commands
and resumes are never obliged to come. `RunControl`: of each worker and controller thread, none of the
user, of resumes or of crashes. `Clarification`: of the worker (planning, pause, failure) and of the
start; users need not answer, other processes need not come. `Stores`: of each pool thread. Its
`TimeOut` is guarded by `LeftBehind`: a statement and its commit take less than the five seconds another
connection waits, so that only a lock nobody will release is waited out. `CommandLine`: of the main,
worker and input thread; nobody has to type. `join(timeout=...)` outlasts the polling interval of the
thread joined. `ChunksAdvance` assumes that the overlap of chunks is smaller than a chunk: otherwise
`_chunk_text` (`tools/memory_tools.py`) never ends, and no setting rules that out.

One answer of a critic, `"extra"` (a PASS with evidence and a field too many), is read in two ways: live
it is UNCERTAIN and fails the gate, in a snapshot, which keeps only the known fields (`orchestrator.py`
1920), it passes. So a crash can turn a failing gate into a passing one. The run has that answer, and the
properties name it as their one exception: a stage whose answer was reread counts as passed
(`CompletedThroughGates`, `StagesInOrder`), a gate decides alike but for such a stage
(`SnapshotDecidesAlike`). What they show is that nothing else lets a gate pass that should not.

## 4. The proofs

Every invariant the passing runs check is also a theorem, for every value of the constants that the
`ASSUME`s of the modules admit, and no theorem assumes more. `PROJECT.json` lists the theorems with the
property each one states. The inductive invariants were checked with TLC on the runs' instances before they were proved.

*`NaturalRecursion`, `ActionGraphProofs`.* Induction is needed wherever the code loops, and the library's
induction theorems cannot be used as they take an operator. So it is stated over sets: a set with 0 and,
with each number below m, its successor, contains 0..m (`Induction`, by a least counterexample); from it
follows that recursive functions exist (`RecursionExists`). `ActionGraphProofs` uses both for the
recursive functions of `ActionGraph`: `Dependents` is the smallest set of nodes closed under edges
(`DependentsClosed`, `DependentsSmallest`); Kahn's loop emits a node only after its predecessors and
emits all of an acyclic graph (`KahnRounds`, `KahnOrderSorted`, `OrderIsComplete`); it fails exactly on
graphs with a cycle (`AcyclicIsOrderable`, `OrderableIsAcyclic`).

*`DagExecutorProofs`.* `Bookkeeping` with `TypeOK` is inductive: within a call, `pending` is the
complement of `completed`, `selected_branches` is a function of the results, whatever is completed has
a result or lies in an unselected branch (`LocalsAgree`); the batch consists of nodes that are ready
and still pending (`BatchSound`); and a node has run once iff it has a result or a thread
(`RunsCounted`). At-most-once is not inductive: `Plan` may only leave out nodes with results, and
`SelectBatch` may only draw pending ones, so both facts must be carried. `NoNodeTwice` and the
refinement `Implements` follow: a branch once unselected stays unselected (`UnselectedStable`), hence
completed predecessors are settled in the sense of `Dataflow`, a `StartNode` is its `Start`, a
`CommitBatch` its `Settle`, and every other step stutters. `PrunedNeverRuns` and `Confluent` need
`Settlement` besides: all ancestors of a node with a result are settled, no node with a result lies in
an unselected branch, and at the end all nodes are settled. A result then decides the same branches in
every schedule, and the results are those of a run in topological order, one node after the other; the
reference is unfolded by induction along that order. `OrderIsTopological` is `KahnOrderSorted`. Assumed:
the graphs are well formed, `MaxParallel` is at least one.

*`NodeAttemptsProofs`.* `Attempts` relates the history of errors, the count and the last class. From
it, `FinalStatusReturned`: a node returns TRANSIENT only if `max_node_retries` is below
`retry_count_upgrade_threshold`. With the defaults (3 and 2) it never does, so that `RETRY_STAGE`,
which wants only TRANSIENT failures, is never decided (`RetryNeedsHeadroom` in `runbook_stages`).

*`RunControlProofs`.* `CheckpointNeverAhead` needs more to be inductive: a worker may resume from a
checkpoint taken long ago, so what it resumes from must stay backed (`Sound(ctx[p])`); a worker past
EXECUTE must hold all batches of the stage; a worker about to store COMPLETED must have everything
behind it (`goal`). That conjunction is `Positions`. It holds for any number of processes, stages,
batches, commands, resumes and crashes; `executed` only grows, so `Backed` is stable
(`BackedStays`, `SoundStays`). `HeedsRequests` has an invariant of its own: a worker that began a batch
since the request is between that batch and its end, and the request is still there when it looks for it
(`Heeding`).

*`RunbookStagesProofs`.* Two inductive invariants besides the types. `Budgets`:
every checkpoint keeps no more retries than the settings allow, and at EXECUTE one execution is still
to be paid for; `RetryDecided` shows that `decide_recovery` answers RETRY_STAGE only for a TRANSIENT
node and below the budget. `Progress`: `CompletedThroughGates` and `StagesInOrder` are not inductive,
since a step from ADAPT to the next stage is right only if the gate was, and the gate may have looked at
a verdict rebuilt from a snapshot two crashes ago. So the invariant adds that a checkpoint's snapshot
passes if and only if its stage deserved to (`CheckpointSound`), that the worker is at or past its
checkpoint and never re-executes a stage whose snapshot is still to be used (`PositionSound`), and that
results, snapshot and verdict in hand agree with what the stage deserved (`EvidenceSound`). An answer
`"extra"` is a case of its own throughout: its snapshot passes, its results do not, and a stage is "reread"
from the step in which a resumed worker takes the one for the other. `PassedTruly` and `DeservingPasses`
then give `SnapshotsDecideAlike`. Assumed: None is no member of the other sets, and the runbooks are well
formed.

*`ClarificationProofs`.* `Clarity` is `Planning`, about the call of a planner, together with what the run
and the terminal hold. `Asking`: what is asked for has no value, and had one in the request only if
extraction, file search or URL erased it; so `QuestionsAreOpen` and `KnownFieldAskedOnlyIfErased`.
`Sources` carries the documents wanted through the queue: each subgoal needed has its leaves or has an
ancestor still on the queue (`Covered`), until the graph is that of all leaves; `WebReads` and
`DocumentsRead` follow its edges from the draft and the verdict back to every source, which is
`SourcesRead`. That a document is in `effective["doc_paths"]` is not enough: that value must be known not
to be None, of which nothing else is assumed, and the list of URLs must not be one of blanks, for which
`_context_kind` chooses the web (`ContextIs`). That metadata inferred from a trace are metadata rests on
induction over patches and over the operations of a patch (`ApplyIs`, `KeptIs`, `InferIs`).

*`ServicesProofs`* is about the four services, each for all values of its constants.

`Durable`: `WholeOrCrashed` for any number of processes, migrations, crashes and failed writes. `DurableInv`
adds that the recorded versions are 1..n and lie within the applied ones, and that whoever saw a version
had it recorded (`Schema`); that without a crash between statements and version and without an overlap,
one process at most is at the migrations and knows how far they are (`OneOpener`); and likewise for the
writers of the artifact, who describe it only when the blob is whole (`OneWriter`). Both exclusions are needed: that nobody fails to open follows only if
what is applied and not recorded belongs to the one process about to record it. Assumed: the number of
migrations is a natural number, the repeatable ones are among them.

`CommandLine`: lines move from `stdin` through the reader's hand and the queue to main and to `commands`,
and in `InOrder` all of these together are one increasing sequence; a step moves its head on, adds a new
line at its end or drops one (`Moves`). `LossesAccounted` keeps with each loss the reason
`CommandsHeard` wants, for which the handle must be known to main as soon as the worker published it in a
fresh run (`HandleKnown`), a run be taken out of the state its worker left it in by commands only
(`Begun`), and a reader be told to stop only when the worker is past its run (`StoppedLate`).

`Stores`: `Tracing` says what a thread's place in its call means for the locks: it holds the connection
it is at, its transaction is the one begun there, the recorder is held from `Record` to the end of the
write (`Locks`). Events not yet recorded are different from each other and from those in the log
(`Unique`); the event being written is the last one of the log (`LastRecorded`); so the rows stored are
the log without it and without those lost (`InLog`, `LogOrder`, `Complete`). Until a duplicate is ignored
no transaction is open but that of the statement under way (`Clean`), so nothing can fail. Assumed: a
call writes one row at most, events of a script are different, and an ingested chunk is followed by the
event that ends its node (`ScriptAssumption`), as the nodes and tools of `Stores` are made.

`Replay`: what the trace provides of a node and what is not saved yet are together `Recall`. Without a
break it contains whatever was heard and, if a node is part of one execution only, is exactly that, in
order (`Unbroken`): saving adds for each node what it recorded, however `SetToSeq` orders the nodes
(`SavesRecall`, by induction over the flattened trace). A node that has not answered yet in an execution
of the replay has all of that ahead, and there is something (`Ahead`); so its first answer there is the
first one heard, and if that was plain it was the only one (`Followed`). Hence `ReplaySame`. Assumed:
graphs are finite, none of their executions is empty, and nodes are attempted at least once.

`ServiceTypes` puts the five together: whichever is at work, all their invariants are kept.

How the models were made to be reasoned about. tlapm 1.4.5 expands no `SelectSeq` and no `RECURSIVE`
operator, so the models select by index sets (`Kept`, `StoredEvents`) and recur by functions.

Only model-checked: liveness (`ExecuteReturns`, `RunRests`, `ThreadsReturn`, `PlanningEnds`,
`CallsEnd`), which the prover does not reach as it needs fairness and ENABLED, and the seven
disagreements of the next section, which are counterexamples.

## 5. Where code and documents disagree

1. **The executor raises a deadlock on acyclic graphs** (`executor.py` 151-174; run `dag_deadlock`).
   Skipped nodes are counted as completed only after the ready set was computed.
2. **A stage that passed fails after a resume** (`orchestrator.py` 1084-1099 with 1056 and 1965; run
   `stages_after_control`). The checkpoint after CONTROL keeps no gate snapshot.
3. **Terminal states are left** (`orchestrator.py` 361-373; run `stages_terminal`). A command of
   another process believes the latest checkpoint, which knows nothing of a failure by exception. And a
   run set COMPLETED becomes FAILED if `_finalize_run` raises (1420-1441).
4. **A pause fails the run** (`orchestrator.py` 386-393 and 947; run `control_pause_fails`). Controller
   and worker both move the run to PAUSED, and the second one raises.
5. **The exact pause point is lost** (`orchestrator.py` 529-535; run `control_exact_point`). The
   checkpoint of the command hides the one of the pause.
6. **The oldest answer wins** (`orchestrator.py` 1546-1553; run `newest_answer`).
   `_infer_runbook_metadata` walks the trace backwards; its artifact ids are the newest ones, as they are
   taken only once, but each patch is applied on the way, so that a correction of an answer has no effect.
7. **A resumed session does not listen** (`cli/main.py` 373 and 432; run `resumed_commands`). The handle
   of `resume_run` is known only when the run is over; pause and stop typed until then are dropped,
   although the loop invites them.

Smaller ones, in the models but without a run: a resumed `graph_builder` stage past COMMIT always
fails; a critic's JSON array fails the run before its checkpoint; a revise on a paused run restarts it
at the first stage; automatic replanning has no limit.

The following have no run of their own; the properties are stated around them, and a reader should know:

- *An extra field passes after a crash*: see section 3 on `"extra"`.
- *A list of blank URLs drops the documents.* `htn_recursive_backend.py` 609-634 takes such a
  list for no URL and keeps the documents ("Do not mix URL with docs branch unless URL is absent", 631), but
  `_context_kind` (1212-1214) takes it for the web, with no document read (`SourcesRead`).
- *An answer can be erased.* The extraction's schema always has a list of documents, and an empty one
  replaces what the user gave (`KnownFieldAskedOnlyIfErased`).
- *A duplicate locks the file.* After an ignored duplicate the connection keeps SQLite's write lock until
  its next commit; writes of the other connection fail meanwhile, and after that possibly for good
  (`TraceKept` holds up to the first duplicate).
- *A crash in a migration, or two first starts at once,* may leave a database that no process can open
  (`OpenFailsOnlyIf`); a crash or a full disk while a blob is written leaves a short file that counts as
  stored (`PutWhole`, `ShortOnlyIf`); after it, an artifact whose `.meta.json`
  (`docs/architecture/STORAGE_SCHEMA_SPEC.md` 24) no later put makes up for (`PutDescribed`).
- *A strict replay repeats only simple runs* (`Replayable`), although `trace/replay.py` 1-5 promises every
  recorded response. A replayed failure has lost its error text and is not retried, so that a run in which
  a retry succeeded is FAILED in its replay; a node executed again gets its first response again, and a
  node never called makes the replay refuse.
- *A command that collides with the worker fails the run*, seen from the command line: a paused or
  stopped run ends FAILED (`Rest`; disagreement 4 is the case of the pause). A line left over in the
  terminal answers the prompt, where anything but q continues the run. The prompt acts on the status the
  worker saw last; a stop applied after that makes it stale, and Enter then raises (`ContinueAtPrompt`).

## 6. Not modelled, and the plan

The components marked `not_modelled` in `PROJECT.json`, with the reason. Contents are left out
throughout: prompts, node inputs and outputs, artifact bytes, wording of errors and events. Time is
left out: backoff lengths, timeouts as durations.

In the components modelled: the Postgres backends; curation of memory, ranking and filters of a query;
the older `htn_planner` path; the catalog's hash, which is compared for equality only; best-effort
replay, which nothing calls; subcommands that make one call each. `queue/rq_runner.py` hands out the job's
id where the run's belongs, a fact that needs no model.

In `CommandLine`: lines that are no command, which the input thread forgets (at the prompt such a line
continues the run as Enter does). `LoopsListen` is about a run at work, not about the moment before it.

Not covered by a property yet, with the reason at each in `PROJECT.json`: the crash between store and
checkpoint as a question of agreement; a critic that answers with an array, a plan lost by a resume, a
revise that starts over (they are modelled, and end as the code ends them); results kept across a resume
and passed to a retry; a pause found in the planner's own nested graph; optional failures that are not
rolled back; two recorders of one trace; writes after an ignored duplicate.

Next, in this order:

1. `Rollback`: `compute_rollback_scope` against a reachability reference, with `_finalize_run` and the
   deprecation of artifacts, and the closure of the scope as a theorem (`DependentsClosed` and
   `DependentsSmallest` are there); `MidExecute`: node results kept across a pause and given to a retry.
2. `RunLifecycle`, an abstract specification of a run (states, progress through stages) that
   `RunbookStages` and `RunControl` are shown to implement as far as they do.
3. Termination measures as action properties: each step of a worker, with nobody else moving, brings it
   nearer to its end. Of the liveness properties this is the part that a prover can check.
