---- MODULE HtnPlanner ----
(* One call of a planner backend: HtnRecursivePlannerBackend.plan and the one-shot              *)
(* LegacyDynamicPlannerBackend.plan, from the request to a graph the orchestrator accepts, a    *)
(* clarification request or an exception. The model reply, file search or tool result a step    *)
(* waits for is a choice, None when its node did not complete or its JSON did not parse.        *)
EXTENDS PlannerInputs

CONSTANTS
    Request,        \* the planner requests that can occur
    Reply,          \* the extraction envelopes the model may return
    ModelGraph      \* the graphs the model of the legacy backend may return

\* PlannerRequest: metadata; what the objective names (text.extract_entities, the file name
\* pattern); the spec: backend, allowed tools, dynamic extraction schema or not; its options.
IsRequest(r) ==
    r \in [meta : Metadata,
          cand : [url : SUBSET Url, docs : SUBSET Doc, file : SUBSET Word],
          backend : {"htn_recursive_v0", "legacy_dynamic_v1"},
          dynamic : BOOLEAN,
          tools : SUBSET STRING,
          options : [depth : Nat, frontier : Nat, nodes : Nat, calls : Nat]]

ASSUME RequestAssumption == \A r \in Request : IsRequest(r)
ASSUME ReplyAssumption == \A e \in Reply : IsEnvelope(e)

VARIABLES
    pc,         \* where plan() is; "idle", "planned", "escalated" and "raised" outside of it
    request,    \* its request
    envelope,   \* the extraction envelope
    effective,  \* effective_metadata
    missing,    \* missing_fields
    questions,  \* of the clarification request
    queue,      \* subgoals still to expand: kind and depth
    leaves,     \* leaf operators so far
    calls,      \* planner_calls
    graph       \* the action graph of the result, or None

planVars == <<pc, request, envelope, effective, missing, questions, queue, leaves, calls, graph>>

\* Where plan() still has a step to take.
Busy == {"extract", "resolve", "ask", "persist", "expand", "build", "one_shot", "validate"}

----
(* Leaf operators and the graph they make *)

Leaf(name, of, tool, deps) == [node |-> <<name, of>>, tool |-> tool, deps |-> deps]
Node(name) == <<name, None>>

\* Mutant: the merge waits for the last document only.
LeavesOfMergingOne(kind, meta) ==
    CASE kind = "read_docs" ->
            {Leaf("read", d, "fs.read_text", {}) : d \in meta["doc_paths"]} \union
            {Leaf("merge_docs", None, "aggregate", {<<"read", CHOOSE d \in meta["doc_paths"] : TRUE>>})}
      [] kind = "synthesize" -> {Leaf("draft_report", None, "model", {Node("merge_docs")})}
      [] kind = "verify" ->
            {Leaf("critic_report", None, "model", {Node("draft_report"), Node("merge_docs")})}
      [] OTHER -> {}

\* The leaf operators of a subgoal (_expand_subgoal).
LeavesOf(kind, meta) ==
    LET context == Context(meta) IN
    CASE kind = "collect_inputs" /\ context = "web" ->
            {Leaf("fetch_html", None, "web.fetch_html", {}),
             Leaf("extract_article", None, "web.extract_article", {Node("fetch_html")})}
      [] kind = "read_docs" ->
            {Leaf("read", d, "fs.read_text", {}) : d \in meta["doc_paths"]} \union
            {Leaf("merge_docs", None, "aggregate", {<<"read", d>> : d \in meta["doc_paths"]})}
      [] kind = "synthesize" /\ context = "file" ->
            {Leaf("write_file", None, "export.write_text", {}),
             Leaf("draft_report", None, "model", {Node("write_file")})}
      [] kind = "synthesize" /\ context = "web" ->
            {Leaf("draft_report", None, "model", {Node("extract_article")}),
             Leaf("export_user_output", None, "export.write_text",
                  {Node("draft_report"), Node("extract_article")})}
      [] kind = "synthesize" /\ context = "docs" ->
            {Leaf("draft_report", None, "model", {Node("merge_docs")})}
      [] kind = "synthesize" /\ context = "generic" ->
            {Leaf("draft_report", None, "model", {})}
      [] kind = "verify" ->
            {Leaf("critic_report", None, "model",
                  {Node("draft_report")} \union
                  (CASE context = "docs" -> {Node("merge_docs")}
                     [] context = "web" -> {Node("extract_article"), Node("fetch_html")}
                     [] OTHER -> {}))}
      [] OTHER -> {}

\* The subgoals of a subgoal.
ChildrenOf(kind, meta) ==
    CASE kind = "root" -> <<"collect_inputs", "synthesize", "verify">>
      [] kind = "collect_inputs" /\ Context(meta) = "docs" -> <<"read_docs">>
      [] OTHER -> <<>>

NodesOf(ls) == {l.node : l \in ls}

\* _build_action_graph; a dependency that is no node of the graph is left out.
GraphOf(ls) ==
    [tools |-> [n \in NodesOf(ls) |-> (CHOOSE l \in ls : l.node = n).tool],
     edges |-> UNION {{<<d, l.node>> : d \in l.deps \intersect NodesOf(ls)} : l \in ls},
     duplicate |-> FALSE]

\* topological_order() does not raise: every set of nodes has one that waits for none of them.
Acyclic(g) ==
    \A S \in (SUBSET DOMAIN g.tools) \ {{}} : \E n \in S : \A m \in S : <<m, n>> \notin g.edges

\* The tools and node types the operator catalog has contracts for.
CatalogTools ==
    {"fs.read_text", "fs.write_text", "fs.list_dir", "fs.glob", "web.fetch_html",
     "web.extract_article", "text.extract_entities", "artifact.put_json", "export.write_text",
     "memory.ingest_files", "memory.query"}
NodeTypes == {"model", "code", "decision", "aggregate"}

\* validate_planned_graph, with the node types of the runbooks: all of them are allowed. Without a
\* list of allowed tools any tool of the catalog is.
IsValid(g, allowed) ==
    /\ ~g.duplicate
    /\ \A n \in DOMAIN g.tools :
          g.tools[n] \in NodeTypes \union IF allowed = {} THEN CatalogTools
                                          ELSE allowed \intersect CatalogTools
    /\ g.edges \subseteq (DOMAIN g.tools) \X (DOMAIN g.tools)
    /\ Acyclic(g)

----
(* plan(), one step for each nested graph it runs or subgoal it expands *)

Fresh(e, m, fields, asks, q, ls, n, g) ==
    /\ e = None /\ m = Nothing /\ fields = {} /\ asks = {} /\ q = <<>> /\ ls = {} /\ n = 0 /\ g = None

\* The call, and its end when nobody reads the result: the locals of plan() are fresh, or gone.
NoLocals == Fresh(envelope', effective', missing', questions', queue', leaves', calls', graph')
Call(r) ==
    /\ request' = r
    /\ pc' = IF r.backend = "legacy_dynamic_v1" THEN "one_shot" ELSE "extract"
    /\ NoLocals
Return == pc' = "idle" /\ NoLocals /\ UNCHANGED request

\* _run_extraction_pipeline
Extract(reply) ==
    /\ pc = "extract"
    /\ envelope' = IF reply = None THEN FallbackEnvelope(request.meta, request.cand) ELSE reply
    /\ pc' = "resolve"
    /\ UNCHANGED <<request, effective, missing, questions, queue, leaves, calls, graph>>

\* _resolve_inputs_tool_first: the only candidate stands in for a source, names are searched for.
ResolvedMetadata(found) ==
    LET meta == Overlay(request.meta, envelope.inputs)
        urls == WantedUrls(meta, request.cand)
    IN  [meta EXCEPT
            !["urls"] = IF urls # {} THEN urls ELSE @,
            !["url"] = IF urls # {} THEN {CHOOSE u \in urls : TRUE} ELSE @,
            !["doc_paths"] = OrNone(Resolved(WantedDocs(meta, request.cand), found))]

Resolve(found) ==
    /\ pc = "resolve"
    /\ LET meta == Overlay(request.meta, envelope.inputs)
           docs == WantedDocs(meta, request.cand)
           lost == {b \in docs \intersect Basename : found[b] = None}
       IN  /\ effective' = ResolvedMetadata(found)
           /\ missing' = MissingFields(request, envelope, ResolvedMetadata(found), lost)
    /\ pc' = IF missing' # {} THEN "ask" ELSE "expand"
    /\ queue' = IF missing' # {} THEN <<>> ELSE <<[kind |-> "root", depth |-> 0]>>
    /\ UNCHANGED <<request, envelope, questions, leaves, calls, graph>>

\* _build_clarification_request
Ask(proposed) ==
    /\ pc = "ask"
    /\ questions' = Questions(missing, proposed)
    /\ pc' = "persist"
    /\ UNCHANGED <<request, envelope, effective, missing, queue, leaves, calls, graph>>

\* Mutant: the questions are made again when they could not be stored.
PersistAgain(completed) ==
    /\ pc = "persist"
    /\ pc' = IF completed THEN "escalated" ELSE "ask"
    /\ UNCHANGED <<request, envelope, effective, missing, questions, queue, leaves, calls, graph>>

\* _persist_clarification_request_artifact raises if its node did not complete.
Persist(completed) ==
    /\ pc = "persist"
    /\ pc' = IF completed THEN "escalated" ELSE "raised"
    /\ UNCHANGED <<request, envelope, effective, missing, questions, queue, leaves, calls, graph>>

\* Mutant: a call too many.
MayAskModelOnceMore(kind) == kind \in {"root", "synthesize"} /\ calls <= request.options.calls

\* _select_method: the model is asked about "root" and "synthesize" subgoals, while calls are
\* left; no answer of it counts as no call. Whatever method it names, the subgoal expands alike.
MayAskModel(kind) == kind \in {"root", "synthesize"} /\ calls < request.options.calls

WithinLimits == Len(queue) <= request.options.frontier /\ Head(queue).depth <= request.options.depth

\* One turn of the loop over the queue.
Expand(answered) ==
    /\ pc = "expand" /\ queue # <<>> /\ WithinLimits
    /\ answered => MayAskModel(Head(queue).kind)
    /\ calls' = IF answered THEN calls + 1 ELSE calls
    /\ LET kinds == ChildrenOf(Head(queue).kind, effective)
       IN  queue' = Tail(queue) \o
                    [i \in DOMAIN kinds |-> [kind |-> kinds[i], depth |-> Head(queue).depth + 1]]
    /\ leaves' = leaves \union LeavesOf(Head(queue).kind, effective)
    /\ pc' = IF Cardinality(NodesOf(leaves')) > request.options.nodes THEN "raised"
             ELSE IF queue' = <<>> THEN "build" ELSE "expand"
    /\ UNCHANGED <<request, envelope, effective, missing, questions, graph>>

ExceedLimit ==
    /\ pc = "expand" /\ queue # <<>> /\ ~WithinLimits
    /\ pc' = "raised"
    /\ UNCHANGED <<request, envelope, effective, missing, questions, queue, leaves, calls, graph>>

\* _build_action_graph raises without a leaf.
Build ==
    /\ pc = "build"
    /\ graph' = GraphOf(leaves)
    /\ pc' = IF leaves = {} THEN "raised" ELSE "validate"
    /\ UNCHANGED <<request, envelope, effective, missing, questions, queue, leaves, calls>>

\* LegacyDynamicPlannerBackend: what its one model call returns is the graph, if it parses and is
\* valid without a catalog.
OneShot(g) ==
    /\ pc = "one_shot"
    /\ graph' = g
    /\ pc' = IF g = None THEN "raised" ELSE "validate"
    /\ UNCHANGED <<request, envelope, effective, missing, questions, queue, leaves, calls>>

\* _plan_dynamic_graph accepts the result after its own validation.
Validate ==
    /\ pc = "validate"
    /\ pc' = IF IsValid(graph, request.tools) THEN "planned" ELSE "raised"
    /\ UNCHANGED <<request, envelope, effective, missing, questions, queue, leaves, calls, graph>>

PlanStep ==
    \/ \E reply \in Reply \union {None} : Extract(reply)
    \/ \E found \in [Basename -> Path \union {None}] : Resolve(found)
    \/ \E proposed \in SUBSET Slot : Ask(proposed)
    \/ \E completed \in BOOLEAN : Persist(completed)
    \/ \E answered \in BOOLEAN : Expand(answered)
    \/ ExceedLimit
    \/ Build
    \/ \E g \in ModelGraph \union {None} : OneShot(g)
    \/ Validate
====
