---- MODULE CommandLine ----
(* The interactive session of neuronium_agent/cli/main.py, _interactive_run_loop: the main     *)
(* thread polls a queue while a worker thread runs or resumes the run, an input thread reads   *)
(* lines from the terminal. Lines are numbered as typed; losses has those that did not become  *)
(* commands of the run, or were refused by it, and when. Between loops the main thread reads.  *)
EXTENDS Naturals, Sequences, SequencesExt, AgentState

CONSTANTS
    MaxLines,   \* bound on lines typed
    MaxLoops    \* bound on loops of a session: the first and one for each Enter at the prompt

ASSUME LoopsAssumption == MaxLoops \in Nat \ {0}

VARIABLES terminal, resumed, loop, main, worker, handle, run, status, clarify, raised,
          typed, losses, stdin, reader, queue, stopping, commands

input == <<typed, losses, stdin, reader, queue, stopping, commands>>
session == <<terminal, resumed, loop, main, worker, handle, run, status, clarify, raised>>
lineVars == <<terminal, resumed, loop, main, worker, handle, run, status, clarify, raised,
              typed, losses, stdin, reader, queue, stopping, commands>>

NoLine == 0                     \* the reader holds none
\* The command a line is, or the end of the input. Lines that are neither, which the input thread
\* reads and forgets, are left out.
Line == {"pause", "stop", "end"}

\* The loop of start(), which hands out its handle early, not one of resume_run().
Started == ~resumed /\ loop = 1

LineInit ==
    /\ terminal \in {"both", "input", "none"}    \* which of stdin and stdout is one
    /\ resumed \in BOOLEAN      \* resume_trace_id given
    /\ loop = 1
    /\ main = "check"           \* check, get, close, prompt, returned, raised
    /\ worker = "creating"      \* creating, ready, running, rests, told, over
    /\ handle = FALSE           \* result_holder has the handle
    /\ run = (IF resumed THEN "RUNNING" ELSE "PENDING")    \* state of the run, in memory
    /\ status = "RUNNING"      \* what the worker saw of it last
    /\ clarify = FALSE          \* it paused for a clarification
    /\ raised = FALSE           \* the worker raised
    /\ typed = <<>>             \* [cmd, awaited]: awaited while a run with a handle is under way
    /\ losses = {}
    /\ stdin = <<>>
    /\ reader = [state |-> IF terminal = "both" THEN "polling" ELSE "off", line |-> NoLine]
    /\ queue = <<>>
    /\ stopping = FALSE         \* stop_input_event
    /\ commands = <<>>           \* lines that became commands of the run

Loss(i, what) == [line |-> i, what |-> what, worker |-> worker, loop |-> loop]
Loses(i, what) == losses' = losses \union {Loss(i, what)}

Type(cmd) ==
    /\ Len(typed) < MaxLines /\ main \notin {"returned", "raised"}
    /\ typed' = Append(typed, [cmd |-> cmd, awaited |-> worker \in {"ready", "running"} /\ Started])
    /\ stdin' = Append(stdin, Len(typed) + 1)
    /\ UNCHANGED <<session, losses, reader, queue, stopping, commands>>

-----------------------------------------------------------------------------
(* The input thread. *)

\* A line is read even if the loop ends while select waits; the thread ends with the input.
ReadLine ==
    /\ reader.state = "polling" /\ stdin # <<>>
    /\ stdin' = Tail(stdin)
    /\ reader' = IF typed[Head(stdin)].cmd = "end" THEN [state |-> "off", line |-> NoLine]
                 ELSE [state |-> "holds", line |-> Head(stdin)]
    /\ UNCHANGED <<session, typed, losses, queue, stopping, commands>>

PutLine ==
    /\ reader.state = "holds"
    /\ IF stopping
       THEN Loses(reader.line, "swallowed") /\ UNCHANGED queue
       ELSE queue' = Append(queue, reader.line) /\ UNCHANGED losses
    /\ reader' = [state |-> IF stopping THEN "off" ELSE "polling", line |-> NoLine]
    /\ UNCHANGED <<session, typed, stdin, stopping, commands>>

ReaderStops ==
    /\ reader.state = "polling" /\ stopping
    /\ reader' = [state |-> "off", line |-> NoLine]
    /\ UNCHANGED <<session, typed, losses, stdin, queue, stopping, commands>>

-----------------------------------------------------------------------------
(* The worker thread. *)

\* Mutant: the handle is handed out when start() returns.
PublishAtEnd ==
    /\ worker = "creating"
    /\ worker' = IF Started THEN "ready" ELSE "running"
    /\ UNCHANGED <<terminal, resumed, loop, main, handle, run, status, clarify, raised, input>>

\* start() hands out the handle before the run begins, resume_run() when it returns.
Publish ==
    /\ worker = "creating"
    /\ worker' = IF Started THEN "ready" ELSE "running"
    /\ handle' = Started
    /\ UNCHANGED <<terminal, resumed, loop, main, run, status, clarify, raised, input>>

\* The transition to RUNNING. Without a model, or after a stop, the run fails.
Begin ==
    /\ worker = "ready"
    /\ \/ run = "PENDING" /\ run' = "RUNNING" /\ worker' = "running"
       \/ run' = "FAILED" /\ worker' = "rests"
    /\ UNCHANGED <<terminal, resumed, loop, main, handle, status, clarify, raised, input>>

\* The run comes to rest. When a command has taken it out of RUNNING, the worker's own transition
\* raises, and the handler forces FAILED: also a paused or a cancelled run (RunControl has more).
Rest ==
    /\ worker = "running"
    /\ run' \in IF run = "RUNNING" THEN {"COMPLETED", "FAILED", "PAUSED"} ELSE {"FAILED"}
    /\ clarify' \in IF run' = "PAUSED" THEN BOOLEAN ELSE {FALSE}
    /\ handle' = TRUE
    /\ raised' = FALSE
    /\ worker' = "rests"
    /\ UNCHANGED <<terminal, resumed, loop, main, status, input>>

\* What is outside the handler raises: an unknown runbook, a checkpoint, a store.
WorkerRaises ==
    /\ worker \in {"creating", "ready", "running"}
    /\ run' \in {run, "FAILED"}
    /\ raised' = TRUE
    /\ worker' = "rests"
    /\ UNCHANGED <<terminal, resumed, loop, main, handle, status, clarify, input>>

\* result_holder["status"]
Tell ==
    /\ worker = "rests"
    /\ worker' = "told"
    /\ status' = IF raised THEN status ELSE run
    /\ UNCHANGED <<terminal, resumed, loop, main, handle, run, clarify, raised, input>>

WorkerDone ==
    /\ worker = "told"
    /\ worker' = "over"
    /\ UNCHANGED <<terminal, resumed, loop, main, handle, run, status, clarify, raised, input>>

-----------------------------------------------------------------------------
(* The main thread. *)

\* worker_done.is_set(), w2.is_alive()
Check ==
    /\ main = "check"
    /\ main' = IF worker = "over" THEN "close" ELSE "get"
    /\ stopping' = (worker = "over")
    /\ UNCHANGED <<terminal, resumed, loop, worker, handle, run, status, clarify, raised,
                   typed, losses, stdin, reader, queue, commands>>

NoCommand ==
    /\ main = "get" /\ queue = <<>>
    /\ main' = "check"
    /\ UNCHANGED <<terminal, resumed, loop, worker, handle, run, status, clarify, raised, input>>

\* Without a handle a command is taken off the queue and forgotten.
Drop ==
    /\ main = "get" /\ queue # <<>> /\ ~handle
    /\ queue' = Tail(queue)
    /\ Loses(Head(queue), "dropped")
    /\ main' = "check"
    /\ UNCHANGED <<terminal, resumed, loop, worker, handle, run, status, clarify, raised,
                   typed, stdin, reader, stopping, commands>>

Target(cmd) == IF cmd = "stop" THEN "CANCELLED" ELSE "PAUSED"

\* runner.control; the ValueError of a state that does not allow it ends the session.
Apply ==
    /\ main = "get" /\ queue # <<>> /\ handle
    /\ LET i == Head(queue)
           to == Target(typed[i].cmd)
           legal == CanTransition(run, to)
       IN  /\ commands' = Append(commands, i)
           /\ IF legal THEN UNCHANGED losses ELSE Loses(i, "refused")
           /\ run' = IF legal THEN to ELSE run
           /\ main' = IF legal THEN "check" ELSE "raised"
           /\ stopping' = (~legal /\ loop = 1)
    /\ queue' = Tail(queue)
    /\ UNCHANGED <<terminal, resumed, loop, worker, handle, status, clarify, raised, typed, stdin, reader>>

\* The joins of the input thread outlast its polling interval, so it is gone by then.
Close ==
    /\ main = "close" /\ reader.state = "off"
    /\ losses' = losses \union {Loss(i, "left") : i \in ToSet(queue)}
    /\ queue' = <<>>
    /\ main' = IF raised THEN "raised" ELSE IF status = "PAUSED" THEN "prompt" ELSE "returned"
    /\ UNCHANGED <<terminal, resumed, loop, worker, handle, run, status, clarify, raised,
                   typed, stdin, reader, stopping, commands>>

TakeAnswer == stdin # <<>> /\ stdin' = Tail(stdin) /\ UNCHANGED losses

\* The loop of clarifications (Clarification) ends with some state of the run.
Clarify ==
    /\ main = "prompt" /\ clarify
    /\ TakeAnswer /\ typed[Head(stdin)].cmd # "end"
    /\ run' \in IF CanTransition(run, "RUNNING") THEN {"COMPLETED", "FAILED", "PAUSED"} ELSE {run}
    /\ status' = run'
    /\ clarify' = FALSE
    /\ main' = IF run' = run /\ run # "PAUSED" THEN "raised"
               ELSE IF run' = "PAUSED" THEN "prompt" ELSE "returned"
    /\ UNCHANGED <<terminal, resumed, loop, worker, handle, raised, typed, reader, queue, stopping, commands>>

\* Without a terminal there is nobody to ask.
LeavePrompt ==
    /\ main = "prompt" /\ ~clarify /\ terminal = "none"
    /\ main' = "returned"
    /\ UNCHANGED <<terminal, resumed, loop, worker, handle, run, status, clarify, raised, input>>

\* The input ends: the pause stands, a clarification is aborted.
EndAtPrompt ==
    /\ main = "prompt" /\ (clarify \/ terminal # "none")
    /\ TakeAnswer /\ typed[Head(stdin)].cmd = "end"
    /\ main' = IF clarify THEN "raised" ELSE "returned"
    /\ UNCHANGED <<terminal, resumed, loop, worker, handle, run, status, clarify, raised,
                   typed, reader, queue, stopping, commands>>

\* q at the prompt
StopAtPrompt ==
    /\ main = "prompt" /\ ~clarify /\ terminal # "none"
    /\ TakeAnswer /\ typed[Head(stdin)].cmd = "stop"
    /\ IF CanTransition(run, "CANCELLED") THEN run' = "CANCELLED" /\ main' = "returned"
       ELSE main' = "raised" /\ UNCHANGED run
    /\ UNCHANGED <<terminal, resumed, loop, worker, handle, status, clarify, raised,
                   typed, reader, queue, stopping, commands>>

\* Enter: the run continues with a second worker, queue, event and input thread.
ContinueAtPrompt ==
    /\ main = "prompt" /\ ~clarify /\ terminal # "none" /\ loop < MaxLoops
    /\ TakeAnswer /\ typed[Head(stdin)].cmd = "pause"
    /\ IF CanTransition(run, "RUNNING")
       THEN /\ loop' = loop + 1
            /\ run' = "RUNNING"
            /\ main' = "check"
            /\ worker' = "creating"
            /\ handle' = FALSE
            /\ reader' = [state |-> "polling", line |-> NoLine]
            /\ stopping' = FALSE
       ELSE main' = "raised" /\ UNCHANGED <<loop, run, worker, handle, reader, stopping>>
    /\ UNCHANGED <<terminal, resumed, status, clarify, raised, typed, queue, commands>>

MainStep ==
    \/ Check \/ NoCommand \/ Drop \/ Apply \/ Close
    \/ Clarify \/ LeavePrompt \/ EndAtPrompt \/ StopAtPrompt \/ ContinueAtPrompt
WorkerStep == Publish \/ Begin \/ Rest \/ WorkerRaises \/ Tell \/ WorkerDone
ReaderStep == ReadLine \/ PutLine \/ ReaderStops

LineNext == MainStep \/ WorkerStep \/ ReaderStep \/ \E cmd \in Line : Type(cmd)
LineSpec ==
    /\ LineInit /\ [][LineNext]_lineVars
    /\ WF_lineVars(MainStep) /\ WF_lineVars(WorkerStep) /\ WF_lineVars(ReaderStep)

-----------------------------------------------------------------------------
WorkerState == {"creating", "ready", "running", "rests", "told", "over"}

LineTypeOK ==
    /\ terminal \in {"both", "input", "none"}
    /\ main \in {"check", "get", "close", "prompt", "returned", "raised"}
    /\ worker \in WorkerState
    /\ {run, status} \subseteq RunState
    /\ loop \in 1..MaxLoops
    /\ reader.state \in {"polling", "holds", "off"}
    /\ losses \subseteq [line : DOMAIN typed, what : {"dropped", "refused", "swallowed", "left"},
                         worker : WorkerState, loop : 1..MaxLoops]
    /\ ToSet(stdin) \union ToSet(queue) \union ToSet(commands) \subseteq DOMAIN typed

Refused == \E f \in losses : f.what = "refused"

\* Commands reach the run in the order typed and at most once. A line typed while a started run
\* is under way is not forgotten by its own loop: it becomes a command unless the run is at rest
\* first or refuses an earlier one; and a run at work refuses one only after it heard another.
\* Not so in a session that resumes, nor after Enter at the prompt: those loops forget what is
\* typed (LoopsListen), and are excepted here (_interactive_run_loop, _input_reader_loop).
CommandsHeard ==
    /\ \A i, j \in DOMAIN commands : i < j => commands[i] < commands[j]
    /\ \A f \in losses :
          /\ f.what = "dropped" => resumed \/ f.loop > 1 \/ ~typed[f.line].awaited
          /\ f.what \in {"swallowed", "left"} =>
                f.worker \notin {"creating", "ready", "running"} \/ Refused
          /\ f.what = "refused" =>
                /\ f.worker # "creating"
                /\ f.worker = "running" => \E c \in ToSet(commands) : c < f.line
          /\ f.line \in ToSet(commands) => f.what = "refused"

\* Every loop of a session accepts pause and stop: no command is forgotten while the run is under
\* way (the docstring of _interactive_run_loop, and what the loop tells the user).
LoopsListen == \A f \in losses : f.what = "dropped" => f.worker # "running"

\* However commands and the end of the run race, the session gets to a prompt or to its end, and
\* no thread waits for the other for ever.
SessionEnds == []<>(main \in {"prompt", "returned", "raised"})
====
