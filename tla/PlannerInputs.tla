---- MODULE PlannerInputs ----
(* What a plan is made from: the run's metadata, what the extraction model and the search for   *)
(* file names make of it, and the fields still missing (planning/htn_recursive_backend.py,      *)
(* planning/missing_slots.py, planning/state_patch.py). A value is the set of its non-blank     *)
(* strings: {} is a blank string or an empty list, None a null or a key that is not there. Of   *)
(* urls the code tells an empty list from one of blanks, which has the element Blank. Lists are *)
(* lists: documents given as one string, which resolving the inputs ignores, are left out.      *)
EXTENDS Naturals, Sequences, FiniteSets

CONSTANTS
    None,           \* Python's None
    Url, Path,      \* URLs, and document paths that are path-like
    Basename,       \* bare document names, which have to be searched for
    Word,           \* any other value
    Blank           \* a blank string in a list of URLs

Doc == Path \union Basename
Item == Url \union Doc \union Word \union {Blank}
Slot == {"url", "urls", "doc_paths", "source", "output_filename", "path", "html", "run_id"}
ItemsOf == [s \in Slot |-> CASE s = "url" -> Url [] s = "urls" -> Url \union {Blank}
                             [] s = "doc_paths" -> Doc [] OTHER -> Word]
Metadata == {m \in [Slot -> {None} \union SUBSET Item] :
                \A s \in Slot : m[s] = None \/ m[s] \subseteq ItemsOf[s]}

\* ExtractionEnvelope: the inputs and the critical ones of missing_fields.
IsEnvelope(e) == e.inputs \in Metadata /\ e.missing \subseteq Slot

ASSUME ValueAssumption == \A v \in SUBSET Item : v # None
ASSUME BlankAssumption == Blank \notin Url \union Doc \union Word
ASSUME NoneAssumption == None \notin Metadata

----
(* Metadata, candidates and missing fields *)

\* _metadata_has_value_for_key
Given(v) == v # None /\ v \ {Blank} # {}

Nothing == [s \in Slot |-> None]

\* A value of `over` that is not null replaces the value below it, a blank one included.
Overlay(meta, over) == [s \in Slot |-> IF over[s] # None THEN over[s] ELSE meta[s]]

\* _fallback_envelope, which does not look at the metadata's urls.
FallbackEnvelope(meta, cand) ==
    LET known == [s \in Slot |->
            IF s = "urls" /\ Given(meta["url"]) THEN meta["url"]
            ELSE IF s \in {"url", "doc_paths", "output_filename"} /\ Given(meta[s]) THEN meta[s]
            ELSE None]
        sourced == known["url"] # None \/ known["doc_paths"] # None
        byUrl == [known EXCEPT !["urls"] = IF ~sourced /\ cand.url # {} THEN cand.url ELSE @]
        byDoc == [byUrl EXCEPT !["doc_paths"] =
                    IF ~sourced /\ cand.url = {} /\ cand.docs # {} THEN cand.docs ELSE @]
    IN  [inputs |-> [byDoc EXCEPT !["output_filename"] =
                        IF @ = None /\ cand.file # {} THEN cand.file ELSE @],
         missing |-> IF ~sourced /\ cand.url = {} /\ cand.docs = {} THEN {"source"} ELSE {}]

\* The value of the slot, or the only candidate of its kind.
OrOnlyCandidate(v, candidates) ==
    IF Given(v) THEN v ELSE IF Cardinality(candidates) = 1 THEN candidates ELSE {}

\* The URLs of a request: those listed that are not blank, else the one URL.
WantedUrls(meta, cand) ==
    IF Given(meta["urls"]) THEN meta["urls"] \ {Blank} ELSE OrOnlyCandidate(meta["url"], cand.url)

\* The documents of a request without a URL; with one they are dropped.
WantedDocs(meta, cand) ==
    IF WantedUrls(meta, cand) # {} THEN {}
    ELSE OrOnlyCandidate(meta["doc_paths"], cand.docs)

\* _resolve_single_basename_with_glob gives `found`: exactly one match, else None.
Resolved(docs, found) ==
    (docs \intersect Path) \union {found[b] : b \in {b \in docs \intersect Basename : found[b] # None}}

OrNone(v) == IF v = {} THEN None ELSE v

\* The contracts of the operator catalog, as far as plans use them: required inputs of a tool.
ToolRequires ==
    [t \in {"fs.read_text", "web.fetch_html", "web.extract_article", "export.write_text"} |->
        CASE t = "fs.read_text" -> {"path"} [] t = "web.fetch_html" -> {"url"}
          [] t = "web.extract_article" -> {"url", "html"} [] OTHER -> {"run_id"}]

\* merge_input_schemas of the allowed tools; None without the flag or a tool.
DynamicSchema(r) ==
    IF r.dynamic /\ r.tools \intersect DOMAIN ToolRequires # {}
    THEN LET keys == UNION {ToolRequires[t] : t \in r.tools \intersect DOMAIN ToolRequires}
         IN  [required |-> keys, properties |-> keys]
    ELSE None

\* _build_runtime_input_schema
RuntimeSchema(env, meta, lost) ==
    LET asked == env.missing \union (IF lost # {} THEN {"doc_paths"} ELSE {})
        sourced == Given(meta["urls"]) \/ Given(meta["doc_paths"])
        required == IF sourced \/ asked \intersect {"url", "doc_paths", "source"} # {}
                    THEN asked ELSE asked \union {"source"}
    IN  [required |-> required, properties |-> required \union {s \in Slot : meta[s] # None}]

\* compute_missing_slots: a required key is missing if it is not there; a blank value is there.
MissingSlots(schema, meta) == {s \in schema.required : meta[s] = None}

\* Mutant: what the model reports missing is asked for even if the metadata has a value.
ReportedGapsUnchecked(env, schema, meta) == env.missing \intersect schema.properties

\* Critical gaps the model reports count if the schema has the key and the value is blank.
ReportedGaps(env, schema, meta) == {s \in env.missing \intersect schema.properties : ~Given(meta[s])}

\* _compute_missing_fields
MissingFields(r, env, meta, lost) ==
    LET schema == IF DynamicSchema(r) # None THEN DynamicSchema(r) ELSE RuntimeSchema(env, meta, lost)
        all == MissingSlots(schema, meta) \union ReportedGaps(env, schema, meta)
    IN  IF all \intersect {"url", "doc_paths"} # {} THEN all \ {"source"} ELSE all

\* Mutant: no fallback when the model's questions fit no missing field.
QuestionsNoFallback(fields, proposed) == proposed \intersect fields

\* Questions of the model about missing fields only; without any, one question for each.
Questions(fields, proposed) ==
    IF proposed \intersect fields # {} THEN proposed \intersect fields ELSE fields

\* _context_kind: a list of blank URLs counts, since it is not empty. Resolving the inputs leaves
\* no such list of documents.
Context(meta) ==
    IF meta["urls"] \notin {None, {}} \/ Given(meta["url"]) THEN "web"
    ELSE IF Given(meta["doc_paths"]) THEN "docs"
    ELSE IF Given(meta["output_filename"]) THEN "file"
    ELSE "generic"

----
(* Patches of the metadata: what a revise command does to it *)

\* PatchOperation
PatchOperation ==
    {o \in [op : {"add", "replace", "remove"}, slot : Slot,
            value : {None} \union SUBSET Item] :
        o.value = None \/ o.value \subseteq ItemsOf[o.slot]}

\* One operation on metadata m; None is a StatePatchError, which ends the patch.
ApplyOperation(m, o) ==
    CASE m = None -> None
      [] m # None /\ o.op = "add" -> [m EXCEPT ![o.slot] = o.value]
      [] m # None /\ o.op = "replace" ->
            IF m[o.slot] = None THEN None ELSE [m EXCEPT ![o.slot] = o.value]
      [] OTHER -> IF m[o.slot] = None THEN None ELSE [m EXCEPT ![o.slot] = None]

\* apply_patch: all of the operations in order, or none of them.
ApplyPatch(meta, patch) ==
    LET after[k \in 0 .. Len(patch)] ==
          IF k = 0 THEN meta ELSE ApplyOperation(after[k - 1], patch[k])
    IN  after[Len(patch)]

\* The operations of a patch at some of its places, in their order.
Kept(patch, places) ==
    LET upTo[k \in 0 .. Len(patch)] ==
          IF k = 0 THEN <<>>
          ELSE IF k \in places THEN Append(upTo[k - 1], patch[k]) ELSE upTo[k - 1]
    IN  upTo[Len(patch)]

\* _normalise_patch_ops: an operation that needs a value and has none is left out.
NormalisePatch(patch) ==
    Kept(patch, {i \in DOMAIN patch : patch[i].op = "remove" \/ patch[i].value # None})

SlotOrder == <<"url", "urls", "doc_paths", "source", "output_filename", "path", "html", "run_id">>

\* A URL is the list of URLs too, unless that is answered as well.
Told(answers) == [answers EXCEPT !["urls"] = IF Given(@) THEN @ ELSE answers["url"]]

\* _legacy_answers_to_patch: an "add" for every answer that is not blank.
AnswersPatch(answers) ==
    Kept([i \in 1 .. Len(SlotOrder) |->
             [op |-> "add", slot |-> SlotOrder[i], value |-> Told(answers)[SlotOrder[i]]]],
         {i \in 1 .. Len(SlotOrder) : Given(Told(answers)[SlotOrder[i]])})

\* _convert_nl_answer_to_patch: what the model makes of a sentence, empty unless it is sure.
ConvertedPatch(asked, reply) ==
    IF asked = {} \/ reply = None THEN <<>>
    ELSE IF ~reply.sure THEN <<>> ELSE NormalisePatch(reply.patch)

\* _infer_runbook_metadata: the patches of the run's revise commands, the newest applied first;
\* a patch that cannot be applied is skipped.
InferMetadata(patches) ==
    LET newest[k \in 0 .. Len(patches)] ==
          IF k = 0 THEN Nothing
          ELSE LET m == ApplyPatch(newest[k - 1], patches[Len(patches) - k + 1])
               IN  IF m = None THEN newest[k - 1] ELSE m
    IN  newest[Len(patches)]
====
