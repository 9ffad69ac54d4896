---- MODULE Clarification ----
(* A supervised run from its first planning to an accepted plan: the planner escalates, the     *)
(* orchestrator pauses, the terminal's loop (cli/main.py, _interactive_supervised_loop)         *)
(* continues the run, asks, revises and resumes; other processes may send revise and continue   *)
(* commands meanwhile. A resumed run plans again from the metadata of its checkpoint and of the *)
(* revise commands in its trace (core/orchestrator.py, _infer_runbook_metadata).                *)
EXTENDS HtnPlanner

CONSTANTS
    Answers,        \* what a user may enter at the questions, one function from slots to values
    Sentence,       \* replies of the model that turns a sentence into a patch
    Patch,          \* patches another process may send
    MaxRevisions, MaxInterrupts     \* bounds of the model

ASSUME PatchAssumption ==
    /\ Patch \subseteq Seq(PatchOperation)
    /\ \A reply \in Sentence : reply.sure \in BOOLEAN /\ reply.patch \in Seq(PatchOperation)
\* What is blank in an answer is left out before it is patched in.
ASSUME AnswersAssumption ==
    Answers \subseteq {m \in Metadata : m["urls"] = None \/ Blank \notin m["urls"]}
ASSUME BoundAssumption == {MaxRevisions, MaxInterrupts} \subseteq Nat

VARIABLES
    run,        \* runs.state
    cpMeta,     \* metadata of the latest phase-boundary checkpoint, or None
    context,    \* clarification request of the latest "paused" checkpoint: its questions, or {}
    patches,    \* the patches of the revise commands in the trace
    cli,        \* where the terminal's loop is; "gone" when it was interrupted
    asked,      \* the questions it read
    interrupts

runVars == <<run, cpMeta, context, patches, cli, asked, interrupts>>
vars == <<planVars, runVars>>

Init ==
    /\ request \in Request /\ pc = "idle"
    /\ Fresh(envelope, effective, missing, questions, queue, leaves, calls, graph)
    /\ run = "PENDING" /\ cpMeta = None /\ context = {} /\ patches = <<>>
    /\ cli = "planning" /\ asked = {} /\ interrupts = 0

----
(* The worker *)

Start ==
    /\ run = "PENDING"
    /\ run' = "RUNNING"
    /\ Call(request)
    /\ UNCHANGED <<cpMeta, context, patches, cli, asked, interrupts>>

Plan == PlanStep /\ UNCHANGED runVars

\* _pause_for_planner_escalation; the loop in the terminal goes on with the state it finds.
Pause ==
    /\ pc = "escalated" /\ run = "RUNNING"
    /\ run' = "PAUSED"
    /\ cpMeta' = request.meta
    /\ context' = questions
    /\ cli' = "loop"
    /\ Return
    /\ UNCHANGED <<patches, asked, interrupts>>

\* An exception of plan() or of the validation ends in FAILED.
Fail ==
    /\ pc = "raised" /\ run = "RUNNING"
    /\ run' = "FAILED"
    /\ UNCHANGED <<planVars, cpMeta, context, patches, cli, asked, interrupts>>

\* resume_run: what the trace tells replaces what the checkpoint tells.
ResumedMetadata == Overlay(cpMeta, InferMetadata(patches))

\* A resume, by the terminal's loop or by a new command, of a run that is RUNNING in the store.
Resume ==
    /\ cli \in {"resume", "gone"} /\ run = "RUNNING" /\ pc = "idle" /\ cpMeta # None
    /\ Call([request EXCEPT !.meta = ResumedMetadata])
    /\ cli' = "planning"
    /\ UNCHANGED <<run, cpMeta, context, patches, asked, interrupts>>

----
(* The terminal's loop, for a run that is PAUSED with a clarification request *)

\* The run is continued before the user is asked.
ContinueAndRead ==
    /\ cli = "loop" /\ run = "PAUSED" /\ context # {}
    /\ run' = "RUNNING"
    /\ asked' = context
    /\ cli' = "prompt"
    /\ UNCHANGED <<planVars, cpMeta, context, patches, interrupts>>

Record(patch) == Len(patches) < MaxRevisions /\ patches' = Append(patches, patch)

\* The user answers question by question; what is not asked is not answered.
AnswerQuestions(answers) ==
    /\ cli = "prompt"
    /\ Record(AnswersPatch([s \in Slot |-> IF s \in asked THEN answers[s] ELSE None]))
    /\ cli' = "resume" /\ asked' = {}
    /\ UNCHANGED <<planVars, run, cpMeta, context, interrupts>>

\* The user answers in one sentence, which a model turns into a patch.
AnswerInWords(reply) ==
    /\ cli = "prompt"
    /\ Record(ConvertedPatch(asked, reply))
    /\ cli' = "resume" /\ asked' = {}
    /\ UNCHANGED <<planVars, run, cpMeta, context, interrupts>>

\* Ctrl-C at a prompt, or the end of the process at any time.
Interrupt ==
    /\ cli # "gone" /\ run \in {"RUNNING", "PAUSED"} /\ pc # "planned"
    /\ interrupts < MaxInterrupts
    /\ cli' = "gone" /\ asked' = {}
    /\ Return
    /\ interrupts' = interrupts + 1
    /\ UNCHANGED <<run, cpMeta, context, patches>>

\* `run --mode supervised --trace-id`, which only looks at a run that is PAUSED.
Reattach ==
    /\ cli = "gone" /\ run = "PAUSED"
    /\ cli' = "loop"
    /\ UNCHANGED <<planVars, run, cpMeta, context, patches, asked, interrupts>>

----
(* Other processes: their state is that of the latest phase-boundary checkpoint, PAUSED once     *)
(* there is one, so their revise writes a "paused" checkpoint, without a clarification request.  *)

\* The trace is read by a resume only, so that a revise during a planning is one after it.
ReviseElsewhere(patch) ==
    /\ cpMeta # None /\ pc = "idle" /\ run \in {"RUNNING", "PAUSED"}
    /\ Record(NormalisePatch(patch))
    /\ context' = {}
    /\ UNCHANGED <<planVars, run, cpMeta, cli, asked, interrupts>>

ContinueElsewhere ==
    /\ run = "PAUSED"
    /\ cli = "gone" \/ context = {}    \* without a request the terminal's loop is over
    /\ run' = "RUNNING"
    /\ cli' = "gone"
    /\ UNCHANGED <<planVars, cpMeta, context, patches, asked, interrupts>>

Next ==
    \/ Start \/ Plan \/ Pause \/ Fail \/ Resume
    \/ ContinueAndRead
    \/ \E answers \in Answers : AnswerQuestions(answers)
    \/ \E reply \in Sentence \union {None} : AnswerInWords(reply)
    \/ Interrupt
    \/ Reattach
    \/ \E patch \in Patch : ReviseElsewhere(patch)
    \/ ContinueElsewhere

\* The worker's thread and the terminal's loop go on; a user need not answer.
Fairness == WF_vars(Start) /\ WF_vars(Plan) /\ WF_vars(Pause) /\ WF_vars(Fail)

Spec == Init /\ [][Next]_vars /\ Fairness

----
(* Properties *)

TypeOK ==
    /\ pc \in Busy \union {"idle", "planned", "escalated", "raised"}
    /\ request.meta \in Metadata /\ effective \in Metadata
    /\ envelope # None => IsEnvelope(envelope)
    /\ missing \subseteq Slot /\ questions \subseteq Slot /\ asked \subseteq Slot
    /\ \A i \in DOMAIN queue : queue[i].depth \in Nat
    /\ calls \in 0 .. request.options.calls
    /\ pc = "planned" => graph.edges \subseteq (DOMAIN graph.tools) \X (DOMAIN graph.tools)
    /\ run \in {"PENDING", "RUNNING", "PAUSED", "FAILED"}
    /\ cpMeta # None => cpMeta \in Metadata
    /\ context \subseteq Slot
    /\ patches \in Seq(Seq(PatchOperation))
    /\ cli \in {"planning", "loop", "prompt", "resume", "gone"}
    /\ interrupts \in 0 .. MaxInterrupts /\ Len(patches) <= MaxRevisions

\* A node of g waits for another, directly or not: it is in every set of nodes that has the other
\* and what waits for its members.
WaitsFor(g, n, m) ==
    \A S \in SUBSET DOMAIN g.tools :
        m \in S /\ (\A e \in g.edges : e[1] \in S => e[2] \in S) => n \in S

\* Every document named by the metadata or by the extraction is read before the draft and the
\* verdict of the plan, unless a URL takes its place, no file of that name was found, or there is
\* a list of blank URLs, for which the plan turns to the web (_context_kind); a URL is fetched
\* before them (_resolve_inputs_tool_first against _expand_subgoal and _build_action_graph, which
\* leaves out the dependencies it does not find).
SourcesRead ==
    pc = "planned" /\ request.backend = "htn_recursive_v0" =>
        LET wanted == WantedDocs(Overlay(request.meta, envelope.inputs), request.cand)
            readBefore(n) == (IF effective["urls"] = {Blank} THEN {}
                              ELSE {<<"read", d>> : d \in wanted \intersect Path}) \union
                             (IF Given(effective["url"]) THEN {Node("fetch_html")} ELSE {})
        IN  \A n \in {Node("draft_report"), Node("critic_report")} :
                \A r \in readBefore(n) : r \in DOMAIN graph.tools /\ WaitsFor(graph, n, r)

\* A run pauses with at least one question, and each of them is about a field that what the run
\* knows has no value for; the terminal's loop has nothing to do for a pause without questions.
QuestionsAreOpen ==
    pc \in {"persist", "escalated"} =>
        /\ questions # {}
        /\ \A s \in questions : ~Given(effective[s])

\* A field the run's metadata has a value for, an answer among them, is asked for only if the
\* extraction returned a blank in its place, or no document of that name was found, or a URL
\* made the documents unwanted.
KnownFieldAskedOnlyIfErased ==
    pc \in {"persist", "escalated"} =>
        \A s \in questions : Given(request.meta[s]) =>
            \/ envelope.inputs[s] # None /\ ~Given(envelope.inputs[s])
            \/ s = "doc_paths" /\ Overlay(request.meta, envelope.inputs)[s] \intersect Path = {}
            \/ s = "doc_paths" /\ Given(effective["url"])

\* The revise commands of the trace that mention a slot.
Mention(s) == {i \in DOMAIN patches : \E j \in DOMAIN patches[i] : patches[i][j].slot = s}

\* A resumed run plans with the newest value a user gave a field, if that command only adds: the
\* walk of _infer_runbook_metadata from the newest event back takes what is not set yet. It fails:
\* every revise command is applied, so that the oldest one is the last.
NewestAnswerWins ==
    [][Resume =>
        \A s \in Slot : Mention(s) # {} =>
            LET newest == patches[CHOOSE i \in Mention(s) : \A j \in Mention(s) : i >= j]
            IN  (\A j \in DOMAIN newest : newest[j].op = "add") =>
                    \E j \in DOMAIN newest :
                        newest[j].slot = s /\ request'.meta[s] = newest[j].value]_vars

\* Every call of the planner comes to an end: a plan, a clarification request or an exception.
PlanningEnds == pc \in Busy ~> pc \notin Busy
====
