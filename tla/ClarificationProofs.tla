---- MODULE ClarificationProofs ----
(* Proofs about Clarification, for any requests, replies, answers and patches: what a plan      *)
(* reads and what a run asks for.                                                               *)
EXTENDS Clarification, NaturalRecursion

----
(* Metadata *)

\* The values of a slot are items.
LEMMA Items ==
    /\ ItemsOf["url"] = Url /\ ItemsOf["urls"] = Url \union {Blank} /\ ItemsOf["doc_paths"] = Doc
    /\ \A s \in Slot : ItemsOf[s] \subseteq Item
    /\ \A s \in Slot \ {"url", "urls", "doc_paths"} : ItemsOf[s] = Word
    /\ {"url", "urls", "doc_paths", "source", "output_filename"} \subseteq Slot
BY DEF ItemsOf, Slot, Item

\* None is no set of items, blank or not.
LEMMA NoneIsNoValue ==
    ASSUME NEW v \in SUBSET Item
    PROVE  v # None
BY ValueAssumption

\* Values that are not lists of URLs are given unless they are null or blank.
LEMMA GivenIs ==
    ASSUME NEW v, v = None \/ v \subseteq Url \/ v \subseteq Doc \/ v \subseteq Word
    PROVE  Given(v) <=> v # None /\ v # {}
<1>1. CASE v = None
      BY <1>1 DEF Given
<1>2. CASE v # None
  <2>1. v \ {Blank} = v
        BY <1>2, BlankAssumption
  <2> QED
      BY <2>1 DEF Given
<1> QED
    BY <1>1, <1>2

\* What metadata is: a function on the slots, each null or with values of its kind.
LEMMA MetadataIs ==
    ASSUME NEW m, DOMAIN m = Slot, m = [s \in Slot |-> m[s]],
           \A s \in Slot : m[s] = None \/ m[s] \subseteq ItemsOf[s]
    PROVE  m \in Metadata
<1>1. \A s \in Slot : m[s] \in {None} \union SUBSET Item
      BY Items
<1>2. m \in [Slot -> {None} \union SUBSET Item]
      BY <1>1
<1> QED
    BY <1>2 DEF Metadata

\* And conversely.
LEMMA MetadataHas ==
    ASSUME NEW m \in Metadata
    PROVE  /\ m \in [Slot -> {None} \union SUBSET Item]
           /\ \A s \in Slot : m[s] = None \/ m[s] \subseteq ItemsOf[s]
           /\ m # None
BY NoneAssumption DEF Metadata

LEMMA NothingTyped == Nothing \in Metadata /\ \A s \in Slot : Nothing[s] = None
BY MetadataIs DEF Nothing

\* A slot takes another value of its kind.
LEMMA Updated ==
    ASSUME NEW m \in Metadata, NEW s \in Slot, NEW v, v = None \/ v \subseteq ItemsOf[s]
    PROVE  /\ [m EXCEPT ![s] = v] \in Metadata
           /\ [m EXCEPT ![s] = v][s] = v
           /\ \A t \in Slot \ {s} : [m EXCEPT ![s] = v][t] = m[t]
<1> DEFINE n == [m EXCEPT ![s] = v]
<1>1. m \in [Slot -> {None} \union SUBSET Item] /\ \A t \in Slot : m[t] = None \/ m[t] \subseteq ItemsOf[t]
      BY MetadataHas
<1>2. DOMAIN n = Slot /\ n = [t \in Slot |-> n[t]] /\ n[s] = v /\ \A t \in Slot \ {s} : n[t] = m[t]
      BY <1>1
<1> HIDE DEF n
<1>3. n \in Metadata
      BY <1>1, <1>2, MetadataIs
<1> QED
    BY <1>2, <1>3 DEF n

\* The values of the overlay come from above or from below.
LEMMA Overlaid ==
    ASSUME NEW m \in Metadata, NEW o \in Metadata
    PROVE  /\ Overlay(m, o) \in Metadata
           /\ \A s \in Slot : Overlay(m, o)[s] = IF o[s] # None THEN o[s] ELSE m[s]
<1> DEFINE n == Overlay(m, o)
<1>1. n = [s \in Slot |-> IF o[s] # None THEN o[s] ELSE m[s]]
      BY DEF Overlay
<1>2. DOMAIN n = Slot /\ n = [s \in Slot |-> n[s]]
      /\ \A s \in Slot : n[s] = IF o[s] # None THEN o[s] ELSE m[s]
      BY <1>1
<1>3. \A s \in Slot : (m[s] = None \/ m[s] \subseteq ItemsOf[s]) /\ (o[s] = None \/ o[s] \subseteq ItemsOf[s])
      BY MetadataHas
<1> HIDE DEF n
<1>4. n \in Metadata
      BY <1>2, <1>3, MetadataIs
<1> QED
    BY <1>2, <1>4 DEF n

\* What the extraction falls back to is an envelope.
LEMMA FallbackTyped ==
    ASSUME NEW m \in Metadata, NEW cand \in [url : SUBSET Url, docs : SUBSET Doc, file : SUBSET Word]
    PROVE  IsEnvelope(FallbackEnvelope(m, cand))
<1> DEFINE known == [s \in Slot |->
                        IF s = "urls" /\ Given(m["url"]) THEN m["url"]
                        ELSE IF s \in {"url", "doc_paths", "output_filename"} /\ Given(m[s]) THEN m[s]
                        ELSE None]
           sourced == known["url"] # None \/ known["doc_paths"] # None
           urls == IF ~sourced /\ cand.url # {} THEN cand.url ELSE known["urls"]
           docs == IF ~sourced /\ cand.url = {} /\ cand.docs # {} THEN cand.docs ELSE known["doc_paths"]
           file == IF known["output_filename"] = None /\ cand.file # {} THEN cand.file
                   ELSE known["output_filename"]
           byUrl == [known EXCEPT !["urls"] = urls]
           byDoc == [byUrl EXCEPT !["doc_paths"] = docs]
           all == [byDoc EXCEPT !["output_filename"] = file]
<1>1. known \in Metadata
  <2>1. DOMAIN known = Slot /\ known = [s \in Slot |-> known[s]]
        OBVIOUS
  <2>2. \A s \in Slot : known[s] = None \/ known[s] \subseteq ItemsOf[s]
    <3>1. known["urls"] = None \/ known["urls"] \subseteq ItemsOf["urls"]
          BY MetadataHas, Items
    <3>2. \A s \in Slot \ {"urls"} : known[s] = None \/ known[s] \subseteq ItemsOf[s]
          BY MetadataHas
    <3> QED
        BY <3>1, <3>2
  <2> HIDE DEF known
  <2> QED
      BY <2>1, <2>2, MetadataIs
<1>2. /\ urls = None \/ urls \subseteq ItemsOf["urls"]
      /\ docs = None \/ docs \subseteq ItemsOf["doc_paths"]
      /\ file = None \/ file \subseteq ItemsOf["output_filename"]
      BY <1>1, MetadataHas, Items
<1>3. "urls" \in Slot /\ "doc_paths" \in Slot /\ "output_filename" \in Slot
      BY Items
<1> HIDE DEF known, urls, docs, file
<1>4. byUrl \in Metadata /\ byUrl["doc_paths"] = known["doc_paths"]
      /\ byUrl["output_filename"] = known["output_filename"]
      BY <1>1, <1>2, <1>3, Updated
<1> HIDE DEF byUrl
<1>5. byDoc \in Metadata /\ byDoc["output_filename"] = known["output_filename"]
      BY <1>2, <1>3, <1>4, Updated
<1> HIDE DEF byDoc
<1>6. all \in Metadata
      BY <1>2, <1>3, <1>5, Updated
<1>7. FallbackEnvelope(m, cand).inputs = all
  <2> DEFINE byUrl2 == [known EXCEPT !["urls"] = IF ~sourced /\ cand.url # {} THEN cand.url ELSE @]
             byDoc2 == [byUrl2 EXCEPT !["doc_paths"] =
                          IF ~sourced /\ cand.url = {} /\ cand.docs # {} THEN cand.docs ELSE @]
             all2 == [byDoc2 EXCEPT !["output_filename"] =
                          IF @ = None /\ cand.file # {} THEN cand.file ELSE @]
  <2>1. byUrl2 = byUrl
        BY DEF byUrl, urls
  <2>2. byDoc2 = byDoc
        BY <1>4, <2>1 DEF byDoc, docs
  <2>3. all2 = all
        BY <1>5, <2>2 DEF file
  <2>4. FallbackEnvelope(m, cand).inputs = all2
        BY DEF FallbackEnvelope, known
  <2> HIDE DEF all2
  <2> QED
      BY <2>3, <2>4
<1>8. FallbackEnvelope(m, cand).missing \subseteq Slot
      BY DEF FallbackEnvelope, Slot
<1> QED
    BY <1>6, <1>7, <1>8 DEF IsEnvelope

----
(* What a planner knows after the search for files, and what it asks for *)

\* What the request and the extraction tell together.
Known == Overlay(request.meta, envelope.inputs)

\* The given value, or else the candidates or nothing.
LEMMA OnlyCandidate ==
    ASSUME NEW v, NEW c
    PROVE  /\ Given(v) => OrOnlyCandidate(v, c) = v
           /\ ~Given(v) => OrOnlyCandidate(v, c) = c \/ OrOnlyCandidate(v, c) = {}
BY DEF OrOnlyCandidate

\* The URLs and the documents wanted: with a URL no documents are.
LEMMA Wanted ==
    ASSUME NEW m \in Metadata, NEW cand \in [url : SUBSET Url, docs : SUBSET Doc, file : SUBSET Word]
    PROVE  /\ WantedUrls(m, cand) \in SUBSET Url
           /\ WantedUrls(m, cand) = {} => ~Given(m["urls"]) /\ ~Given(m["url"])
           /\ WantedDocs(m, cand) \in SUBSET Doc
           /\ WantedUrls(m, cand) # {} => WantedDocs(m, cand) = {}
           /\ WantedUrls(m, cand) = {} /\ Given(m["doc_paths"]) => WantedDocs(m, cand) = m["doc_paths"]
<1>1. /\ m["url"] = None \/ m["url"] \in SUBSET Url
      /\ m["urls"] = None \/ m["urls"] \in SUBSET (Url \union {Blank})
      /\ m["doc_paths"] = None \/ m["doc_paths"] \in SUBSET Doc
      BY MetadataHas, Items
<1>2. cand.url \in SUBSET Url /\ cand.docs \in SUBSET Doc
      OBVIOUS
<1>3. /\ OrOnlyCandidate(m["url"], cand.url) \in SUBSET Url
      /\ OrOnlyCandidate(m["doc_paths"], cand.docs) \in SUBSET Doc
      BY <1>1, <1>2, OnlyCandidate DEF Given
<1>4. WantedUrls(m, cand) \in SUBSET Url
      BY <1>1, <1>3 DEF WantedUrls, Given
<1>5. ASSUME WantedUrls(m, cand) = {}
      PROVE  ~Given(m["urls"]) /\ ~Given(m["url"])
  <2>1. ~Given(m["urls"])
        BY <1>5 DEF WantedUrls, Given
  <2>2. OrOnlyCandidate(m["url"], cand.url) = {}
        BY <1>5, <2>1 DEF WantedUrls
  <2> QED
      BY <2>1, <2>2, OnlyCandidate DEF Given
<1> QED
    BY <1>3, <1>4, <1>5, OnlyCandidate DEF WantedDocs

\* The paths among the documents, and what the search finds, are documents that need no search.
LEMMA Found ==
    ASSUME NEW found \in [Basename -> Path \union {None}], NEW docs \in SUBSET Doc
    PROVE  /\ Resolved(docs, found) \in SUBSET Doc
           /\ docs \intersect Path \subseteq Resolved(docs, found)
BY DEF Resolved, Doc

\* What the planner knows afterwards.
LEMMA ResolvedIs ==
    ASSUME IsRequest(request), IsEnvelope(envelope), NEW found \in [Basename -> Path \union {None}]
    PROVE  /\ Known \in Metadata /\ ResolvedMetadata(found) \in Metadata
           /\ LET urls == WantedUrls(Known, request.cand)
              IN  /\ ResolvedMetadata(found)["urls"] = IF urls # {} THEN urls ELSE Known["urls"]
                  /\ ResolvedMetadata(found)["url"] =
                         IF urls # {} THEN {CHOOSE u \in urls : TRUE} ELSE Known["url"]
           /\ ResolvedMetadata(found)["doc_paths"] =
                  OrNone(Resolved(WantedDocs(Known, request.cand), found))
           /\ \A s \in Slot \ {"url", "urls", "doc_paths"} : ResolvedMetadata(found)[s] = Known[s]
<1> DEFINE wanted == WantedUrls(Known, request.cand)
           urls == IF wanted # {} THEN wanted ELSE Known["urls"]
           url == IF wanted # {} THEN {CHOOSE u \in wanted : TRUE} ELSE Known["url"]
           docs == OrNone(Resolved(WantedDocs(Known, request.cand), found))
           R == ResolvedMetadata(found)
<1>1. /\ request.meta \in Metadata /\ envelope.inputs \in Metadata
      /\ request.cand \in [url : SUBSET Url, docs : SUBSET Doc, file : SUBSET Word]
      BY DEF IsRequest, IsEnvelope
<1>2. Known \in Metadata
      BY <1>1, Overlaid DEF Known
<1>3. /\ url = None \/ url \subseteq ItemsOf["url"]
      /\ urls = None \/ urls \subseteq ItemsOf["urls"]
  <2>1. wanted \in SUBSET Url /\ "url" \in Slot /\ "urls" \in Slot
        BY <1>1, <1>2, Wanted, Items
  <2>2. /\ Known["url"] = None \/ Known["url"] \subseteq ItemsOf["url"]
        /\ Known["urls"] = None \/ Known["urls"] \subseteq ItemsOf["urls"]
        BY <1>2, <2>1, MetadataHas
  <2> HIDE DEF wanted
  <2> QED
      BY <2>1, <2>2, Items
<1>4. docs = None \/ docs \subseteq ItemsOf["doc_paths"]
      BY <1>1, <1>2, Wanted, Found, Items DEF OrNone
<1>5. R = [Known EXCEPT !["urls"] = urls, !["url"] = url, !["doc_paths"] = docs]
      BY DEF ResolvedMetadata, Known
<1>6. Known \in [Slot -> {None} \union SUBSET Item]
      BY <1>2, MetadataHas
<1> HIDE DEF urls, url, docs, R
<1>7. /\ DOMAIN R = Slot /\ R = [s \in Slot |-> R[s]]
      /\ R["urls"] = urls /\ R["url"] = url /\ R["doc_paths"] = docs
      /\ \A s \in Slot \ {"url", "urls", "doc_paths"} : R[s] = Known[s]
      BY <1>5, <1>6, Items
<1>8. \A s \in Slot : R[s] = None \/ R[s] \subseteq ItemsOf[s]
      BY <1>2, <1>3, <1>4, <1>7, MetadataHas
<1>9. R \in Metadata
      BY <1>7, <1>8, MetadataIs
<1> QED
    BY <1>2, <1>7, <1>9 DEF R, urls, url, docs

\* A missing field is a slot without a value.
LEMMA MissingOpen ==
    ASSUME IsRequest(request), IsEnvelope(envelope), NEW meta \in Metadata, NEW lost,
           NEW s \in MissingFields(request, envelope, meta, lost)
    PROVE  s \in Slot /\ ~Given(meta[s])
<1> DEFINE schema == IF DynamicSchema(request) # None THEN DynamicSchema(request)
                     ELSE RuntimeSchema(envelope, meta, lost)
<1>1. s \in MissingSlots(schema, meta) \/ s \in ReportedGaps(envelope, schema, meta)
      BY DEF MissingFields
<1>2. CASE s \in ReportedGaps(envelope, schema, meta)
      BY <1>2 DEF ReportedGaps, IsEnvelope
<1>3. CASE s \in MissingSlots(schema, meta)
  <2>1. meta[s] = None /\ s \in schema.required
        BY <1>3 DEF MissingSlots
  <2>2. RuntimeSchema(envelope, meta, lost).required \subseteq Slot
    <3>1. envelope.missing \subseteq Slot
          BY DEF IsEnvelope
    <3> QED
        BY <3>1 DEF RuntimeSchema, Slot
  <2>3. CASE DynamicSchema(request) = None
        BY <2>1, <2>2, <2>3 DEF Given
  <2>4. CASE DynamicSchema(request) # None
    <3>1. PICK t \in DOMAIN ToolRequires : s \in ToolRequires[t]
          BY <2>1, <2>4 DEF DynamicSchema
    <3>2. s \in Slot
          BY <3>1 DEF ToolRequires, Slot
    <3> QED
        BY <2>1, <3>2 DEF Given
  <2> QED
      BY <2>3, <2>4
<1> QED
    BY <1>1, <1>2, <1>3

\* Why a field the metadata has a value for may be without one for the planner.
ErasedFor(s, meta) ==
    \/ envelope.inputs[s] # None /\ ~Given(envelope.inputs[s])
    \/ s = "doc_paths" /\ Known[s] \intersect Path = {}
    \/ s = "doc_paths" /\ Given(meta["url"])

LEMMA Erased ==
    ASSUME IsRequest(request), IsEnvelope(envelope), NEW found \in [Basename -> Path \union {None}],
           NEW s \in Slot, ~Given(ResolvedMetadata(found)[s]), Given(request.meta[s])
    PROVE  ErasedFor(s, ResolvedMetadata(found))
<1> DEFINE R == ResolvedMetadata(found)
           urls == WantedUrls(Known, request.cand)
           first == CHOOSE u \in urls : TRUE
           wanted == WantedDocs(Known, request.cand)
<1>1. /\ request.meta \in Metadata /\ envelope.inputs \in Metadata
      /\ request.cand \in [url : SUBSET Url, docs : SUBSET Doc, file : SUBSET Word]
      BY DEF IsRequest, IsEnvelope
<1>2. Known[s] = IF envelope.inputs[s] # None THEN envelope.inputs[s] ELSE request.meta[s]
      BY <1>1, Overlaid DEF Known
<1>3. ~Given(Known[s]) => envelope.inputs[s] # None /\ ~Given(envelope.inputs[s])
      BY <1>2
<1>4. urls \in SUBSET Url /\ (urls = {} => ~Given(Known["urls"]) /\ ~Given(Known["url"]))
      BY <1>1, ResolvedIs, Wanted
<1>5. /\ R["urls"] = IF urls # {} THEN urls ELSE Known["urls"]
      /\ R["url"] = IF urls # {} THEN {first} ELSE Known["url"]
      /\ R["doc_paths"] = OrNone(Resolved(wanted, found))
      /\ \A t \in Slot \ {"url", "urls", "doc_paths"} : R[t] = Known[t]
      BY ResolvedIs
<1> HIDE DEF R, urls
<1>6. urls # {} => Given(R["urls"]) /\ Given(R["url"])
  <2> SUFFICES ASSUME urls # {} PROVE Given(R["urls"]) /\ Given(R["url"])
      OBVIOUS
  <2>1. first \in urls
        OBVIOUS
  <2>2. urls \in SUBSET Item /\ {first} \in SUBSET Item
        BY <1>4, <2>1 DEF Item
  <2>3. urls # None /\ {first} # None /\ urls \subseteq Url /\ {first} \subseteq Url /\ {first} # {}
        BY <1>4, <2>1, <2>2, NoneIsNoValue
  <2> HIDE DEF first
  <2> QED
      BY <1>5, <2>3, GivenIs
<1>7. CASE s \notin {"url", "urls", "doc_paths"}
      BY <1>3, <1>5, <1>7 DEF ErasedFor, R
<1>8. CASE s \in {"url", "urls"}
      BY <1>3, <1>4, <1>5, <1>6, <1>8 DEF ErasedFor, R
<1>9. CASE s = "doc_paths"
  <2>1. CASE urls # {}
        BY <1>6, <1>9, <2>1 DEF ErasedFor, R
  <2>2. CASE urls = {} /\ Given(Known[s])
    <3>1. wanted = Known[s] /\ wanted \in SUBSET Doc
          BY <1>1, <1>9, <2>2, ResolvedIs, Wanted DEF urls
    <3>2. Resolved(wanted, found) \in SUBSET Doc /\ wanted \intersect Path \subseteq Resolved(wanted, found)
          BY <3>1, Found
    <3>3. ~Given(OrNone(Resolved(wanted, found)))
          BY <1>5, <1>9 DEF R
    <3>4. Resolved(wanted, found) = {}
      <4> DEFINE v == Resolved(wanted, found)
      <4>1. v \in SUBSET Item /\ v \subseteq Doc
            BY <3>2 DEF Item
      <4> HIDE DEF v
      <4>2. v # None /\ (Given(v) <=> v # None /\ v # {})
            BY <4>1, NoneIsNoValue, GivenIs
      <4>3. ~Given(OrNone(v))
            BY <3>3 DEF v
      <4> QED
          BY <4>2, <4>3 DEF OrNone, v
    <3> QED
        BY <1>9, <3>1, <3>2, <3>4 DEF ErasedFor
  <2> QED
      BY <1>3, <2>1, <2>2 DEF ErasedFor
<1> QED
    BY <1>7, <1>8, <1>9

\* The questions are about missing fields, and there are some when fields are missing.
LEMMA QuestionsAsk ==
    ASSUME NEW fields, NEW proposed
    PROVE  /\ Questions(fields, proposed) \subseteq fields
           /\ fields # {} => Questions(fields, proposed) # {}
BY DEF Questions

\* A document named by the request or the extraction is still there after the search, if it has a
\* path, and then no URL is, blank ones apart.
LEMMA WantedStay ==
    ASSUME IsRequest(request), IsEnvelope(envelope), NEW found \in [Basename -> Path \union {None}],
           NEW d \in WantedDocs(Known, request.cand) \intersect Path
    PROVE  /\ ~Given(ResolvedMetadata(found)["url"])
           /\ ResolvedMetadata(found)["urls"] \in {None, {}, {Blank}}
           /\ Given(ResolvedMetadata(found)["doc_paths"]) /\ d \in ResolvedMetadata(found)["doc_paths"]
<1> DEFINE R == ResolvedMetadata(found)
           urls == WantedUrls(Known, request.cand)
           wanted == WantedDocs(Known, request.cand)
           docs == Resolved(wanted, found)
<1>1. request.cand \in [url : SUBSET Url, docs : SUBSET Doc, file : SUBSET Word]
      BY DEF IsRequest
<1>2. Known \in Metadata
      BY ResolvedIs
<1>3. /\ urls = {} /\ wanted \in SUBSET Doc
      /\ ~Given(Known["urls"]) /\ ~Given(Known["url"])
      BY <1>1, <1>2, Wanted
<1>4. R["url"] = Known["url"] /\ R["urls"] = Known["urls"] /\ R["doc_paths"] = OrNone(docs)
      BY <1>3, ResolvedIs
<1>5. Known["urls"] = None \/ Known["urls"] \subseteq Url \union {Blank}
      BY <1>2, MetadataHas, Items
<1>6. Known["urls"] \in {None, {}, {Blank}}
      BY <1>3, <1>5 DEF Given
<1>7. d \in docs /\ docs \in SUBSET Doc
      BY <1>3, Found
<1> HIDE DEF R, docs
<1>8. docs # None /\ R["doc_paths"] = docs
  <2>1. docs \in SUBSET Item
        BY <1>7 DEF Item
  <2> QED
      BY <1>4, <1>7, <2>1, NoneIsNoValue DEF OrNone
<1>9. Given(docs)
      BY <1>7, <1>8, GivenIs
<1> QED
    BY <1>3, <1>4, <1>6, <1>7, <1>8, <1>9 DEF R

----
(* Subgoals, leaves and the graph they make *)

Kind == {"root", "collect_inputs", "read_docs", "synthesize", "verify"}
Subgoals == Seq([kind : Kind, depth : Nat])

\* The kinds of the subgoals still to expand.
Kinds(q) == {q[i].kind : i \in DOMAIN q}

\* The subgoals whose expansion leads to that of a subgoal.
Ahead(kind) == {"root", kind} \union (IF kind = "read_docs" THEN {"collect_inputs"} ELSE {})

\* The subgoals a plan is made of.
Needed(meta) ==
    {"collect_inputs", "synthesize", "verify"} \union (IF Context(meta) = "docs" THEN {"read_docs"} ELSE {})

\* Each of them has its leaves, or is still ahead.
Covered(q, ls, meta) ==
    \A kind \in Needed(meta) : LeavesOf(kind, meta) \subseteq ls \/ Ahead(kind) \intersect Kinds(q) # {}

\* A URL decides for the web, else documents for documents, unless there is a list of blank URLs.
LEMMA ContextIs ==
    ASSUME NEW meta
    PROVE  /\ Given(meta["url"]) => Context(meta) = "web"
           /\ meta["urls"] \in {None, {}} /\ ~Given(meta["url"]) /\ Given(meta["doc_paths"]) =>
                  Context(meta) = "docs"
BY DEF Context

\* The subgoals a subgoal puts into the queue.
Opened(kind, meta, depth) ==
    LET kinds == ChildrenOf(kind, meta)
    IN  [i \in DOMAIN kinds |-> [kind |-> kinds[i], depth |-> depth]]

LEMMA OpenedIs ==
    ASSUME NEW kind \in Kind, NEW meta, NEW depth \in Nat
    PROVE  /\ Opened(kind, meta, depth) \in Subgoals
           /\ kind = "root" =>
                  {"collect_inputs", "synthesize", "verify"} \subseteq Kinds(Opened(kind, meta, depth))
           /\ kind = "collect_inputs" /\ Context(meta) = "docs" =>
                  "read_docs" \in Kinds(Opened(kind, meta, depth))
<1> DEFINE kinds == ChildrenOf(kind, meta)
           c == Opened(kind, meta, depth)
<1>1. CASE kind = "root"
  <2>1. kinds = <<"collect_inputs", "synthesize", "verify">>
        BY <1>1 DEF ChildrenOf
  <2>2. DOMAIN kinds = 1 .. 3 /\ kinds[1] = "collect_inputs" /\ kinds[2] = "synthesize" /\ kinds[3] = "verify"
        BY <2>1
  <2>3. c = [i \in 1 .. 3 |-> [kind |-> kinds[i], depth |-> depth]]
        BY <2>2 DEF Opened
  <2> HIDE DEF kinds, c
  <2>4. \A i \in 1 .. 3 : kinds[i] \in Kind
        BY <2>2 DEF Kind
  <2>5. /\ c \in Subgoals /\ DOMAIN c = 1 .. 3
        /\ c[1].kind = "collect_inputs" /\ c[2].kind = "synthesize" /\ c[3].kind = "verify"
        BY <2>2, <2>3, <2>4 DEF Subgoals
  <2>6. {"collect_inputs", "synthesize", "verify"} \subseteq Kinds(c)
        BY <2>5 DEF Kinds
  <2> QED
      BY <1>1, <2>5, <2>6 DEF c
<1>2. CASE kind = "collect_inputs" /\ Context(meta) = "docs"
  <2>1. kinds = <<"read_docs">>
        BY <1>2 DEF ChildrenOf
  <2>2. DOMAIN kinds = 1 .. 1 /\ kinds[1] = "read_docs"
        BY <2>1
  <2>3. c = [i \in 1 .. 1 |-> [kind |-> kinds[i], depth |-> depth]]
        BY <2>2 DEF Opened
  <2> HIDE DEF kinds, c
  <2>4. c \in Subgoals /\ DOMAIN c = 1 .. 1 /\ c[1].kind = "read_docs"
        BY <2>2, <2>3 DEF Subgoals, Kind
  <2>5. "read_docs" \in Kinds(c)
        BY <2>4 DEF Kinds
  <2> QED
      BY <1>2, <2>4, <2>5 DEF c
<1>3. CASE kind # "root" /\ ~(kind = "collect_inputs" /\ Context(meta) = "docs")
  <2>1. kinds = <<>>
        BY <1>3 DEF ChildrenOf
  <2>2. DOMAIN kinds = {}
        BY <2>1
  <2>3. c = [i \in 1 .. 0 |-> [kind |-> kinds[i], depth |-> depth]]
    <3>1. {} = 1 .. 0
          OBVIOUS
    <3> QED
        BY <2>2, <3>1 DEF Opened
  <2> HIDE DEF kinds, c
  <2>4. c \in Subgoals
        BY <2>3 DEF Subgoals
  <2> QED
      BY <1>3, <2>4 DEF c
<1> QED
    BY <1>1, <1>2, <1>3

\* The kinds in a queue when its head is replaced by what it opens at the end.
LEMMA QueueTurns ==
    ASSUME NEW q \in Subgoals, q # <<>>, NEW c \in Subgoals
    PROVE  /\ Tail(q) \o c \in Subgoals /\ Head(q) \in [kind : Kind, depth : Nat]
           /\ Kinds(q) \subseteq {Head(q).kind} \union Kinds(Tail(q) \o c)
           /\ Kinds(c) \subseteq Kinds(Tail(q) \o c)
<1> DEFINE E == [kind : Kind, depth : Nat]
           t == Tail(q)
           r == t \o c
           L == Len(q)
           M == Len(c)
<1>1. q \in Seq(E) /\ c \in Seq(E)
      BY DEF Subgoals
<1> HIDE DEF E
<1>2. /\ L \in Nat \ {0} /\ DOMAIN q = 1 .. L /\ q[1] = Head(q) /\ Head(q) \in E
      /\ t \in Seq(E) /\ Len(t) = L - 1 /\ \A i \in 1 .. L - 1 : t[i] = q[i + 1]
      BY <1>1
<1>3. M \in Nat /\ DOMAIN c = 1 .. M /\ Len(c) = M
      BY <1>1
<1> HIDE DEF t, L, M
<1>4. /\ r \in Seq(E) /\ DOMAIN r = 1 .. (L - 1) + M
      /\ \A i \in 1 .. L - 1 : r[i] = t[i]
      /\ \A i \in 1 .. M : r[(L - 1) + i] = c[i]
  <2>1. r \in Seq(E) /\ Len(r) = (L - 1) + M
        BY <1>1, <1>2, <1>3
  <2>2. \A i \in 1 .. L - 1 : r[i] = t[i]
        BY <1>1, <1>2, <1>3
  <2>3. \A i \in 1 .. M : r[(L - 1) + i] = c[i]
        BY <1>1, <1>2, <1>3
  <2> HIDE DEF r
  <2> QED
      BY <2>1, <2>2, <2>3
<1> HIDE DEF r
<1>5. \A i \in 1 .. L : i # 1 => i - 1 \in 1 .. L - 1 /\ i - 1 \in DOMAIN r /\ r[i - 1] = q[i]
      BY <1>2, <1>3, <1>4
<1>6. Kinds(q) \subseteq {Head(q).kind} \union Kinds(r)
      BY <1>2, <1>5 DEF Kinds
<1>7. \A i \in 1 .. M : (L - 1) + i \in DOMAIN r /\ r[(L - 1) + i] = c[i]
      BY <1>2, <1>3, <1>4
<1>8. Kinds(c) \subseteq Kinds(r)
      BY <1>3, <1>7 DEF Kinds
<1> QED
    BY <1>2, <1>4, <1>6, <1>8 DEF r, t, E, Subgoals

\* A turn of the loop leaves no subgoal of the plan out.
LEMMA ExpandCovers ==
    ASSUME NEW q \in Subgoals, q # <<>>, NEW ls, NEW meta, Covered(q, ls, meta)
    PROVE  LET r == Tail(q) \o Opened(Head(q).kind, meta, Head(q).depth + 1)
           IN  r \in Subgoals /\ Covered(r, ls \union LeavesOf(Head(q).kind, meta), meta)
<1> DEFINE h == Head(q).kind
           c == Opened(h, meta, Head(q).depth + 1)
           r == Tail(q) \o c
           ms == ls \union LeavesOf(h, meta)
<1>1. h \in Kind /\ Head(q).depth + 1 \in Nat
  <2>1. Head(q) \in [kind : Kind, depth : Nat]
    <3> DEFINE E == [kind : Kind, depth : Nat]
    <3>1. q \in Seq(E)
          BY DEF Subgoals
    <3> HIDE DEF E
    <3>2. Head(q) \in E
          BY <3>1
    <3> QED
        BY <3>2 DEF E
  <2> QED
      BY <2>1
<1>2. /\ c \in Subgoals
      /\ h = "root" => {"collect_inputs", "synthesize", "verify"} \subseteq Kinds(c)
      /\ h = "collect_inputs" /\ Context(meta) = "docs" => "read_docs" \in Kinds(c)
      BY <1>1, OpenedIs
<1> HIDE DEF c, h
<1>3. r \in Subgoals /\ Kinds(q) \subseteq {h} \union Kinds(r) /\ Kinds(c) \subseteq Kinds(r)
      BY <1>2, QueueTurns DEF h
<1>4. ASSUME NEW kind \in Needed(meta)
      PROVE  LeavesOf(kind, meta) \subseteq ms \/ Ahead(kind) \intersect Kinds(r) # {}
  <2>1. CASE LeavesOf(kind, meta) \subseteq ls
        BY <2>1
  <2>2. CASE Ahead(kind) \intersect Kinds(q) # {}
    <3>1. PICK a \in Ahead(kind) : a \in Kinds(q)
          BY <2>2
    <3>2. CASE a \in Kinds(r)
          BY <3>1, <3>2
    <3>3. CASE a = h /\ a = kind
          BY <3>3
    <3>4. CASE a = h /\ a # kind
      <4>1. CASE kind = "read_docs"
        <5>1. Context(meta) = "docs"
              BY <4>1 DEF Needed
        <5>2. "collect_inputs" \in Ahead(kind) /\ "read_docs" \in Ahead(kind)
              BY <4>1 DEF Ahead
        <5> QED
            BY <1>2, <1>3, <3>1, <3>4, <4>1, <5>1, <5>2 DEF Ahead
      <4>2. CASE kind # "read_docs"
        <5>1. a = "root" /\ kind \in {"collect_inputs", "synthesize", "verify"} /\ kind \in Ahead(kind)
              BY <3>1, <3>4, <4>2 DEF Ahead, Needed
        <5> QED
            BY <1>2, <1>3, <3>4, <5>1
      <4> QED
          BY <4>1, <4>2
    <3> QED
        BY <1>3, <3>1, <3>2, <3>3, <3>4
  <2> QED
      BY <2>1, <2>2 DEF Covered
<1> QED
    BY <1>3, <1>4 DEF Covered, c, h

\* A leaf follows those it depends on in the graph.
LEMMA Follows ==
    ASSUME NEW ls, NEW S, \A e \in GraphOf(ls).edges : e[1] \in S => e[2] \in S,
           NEW leaf \in ls, NEW d \in leaf.deps \intersect NodesOf(ls), d \in S
    PROVE  leaf.node \in S
<1>1. <<d, leaf.node>> \in GraphOf(ls).edges
      BY DEF GraphOf
<1>2. <<d, leaf.node>>[1] = d /\ <<d, leaf.node>>[2] = leaf.node
      OBVIOUS
<1> QED
    BY <1>1, <1>2

\* The fields of a leaf.
LEMMA LeafIs ==
    ASSUME NEW name, NEW of, NEW tool, NEW deps
    PROVE  Leaf(name, of, tool, deps).node = <<name, of>> /\ Leaf(name, of, tool, deps).deps = deps
BY DEF Leaf

\* The node of a leaf is a node of the graph.
LEMMA NodesHave ==
    ASSUME NEW ls, NEW leaf \in ls
    PROVE  leaf.node \in NodesOf(ls) /\ DOMAIN GraphOf(ls).tools = NodesOf(ls)
BY DEF NodesOf, GraphOf

\* What a leaf depends on, if it is a leaf of the graph, it waits for; and what that waits for.
LEMMA Waits ==
    ASSUME NEW ls, NEW leaf \in ls, NEW d \in leaf.deps \intersect NodesOf(ls), NEW m,
           WaitsFor(GraphOf(ls), d, m)
    PROVE  WaitsFor(GraphOf(ls), leaf.node, m)
<1> SUFFICES ASSUME NEW S \in SUBSET DOMAIN GraphOf(ls).tools, m \in S,
                    \A e \in GraphOf(ls).edges : e[1] \in S => e[2] \in S
             PROVE  leaf.node \in S
    BY DEF WaitsFor
<1>1. d \in S
      BY DEF WaitsFor
<1> QED
    BY <1>1, Follows

LEMMA WaitsItself == ASSUME NEW g, NEW m PROVE WaitsFor(g, m, m)
BY DEF WaitsFor

\* With a URL the report and its critique wait for the page to be fetched.
LEMMA WebReads ==
    ASSUME NEW ls, NEW meta, \A kind \in Needed(meta) : LeavesOf(kind, meta) \subseteq ls,
           Given(meta["url"]), NEW n \in {Node("draft_report"), Node("critic_report")}
    PROVE  Node("fetch_html") \in DOMAIN GraphOf(ls).tools /\ WaitsFor(GraphOf(ls), n, Node("fetch_html"))
<1> DEFINE fetch == Leaf("fetch_html", None, "web.fetch_html", {})
           extract == Leaf("extract_article", None, "web.extract_article", {Node("fetch_html")})
           draft == Leaf("draft_report", None, "model", {Node("extract_article")})
           critic == Leaf("critic_report", None, "model",
                          {Node("draft_report")} \union {Node("extract_article"), Node("fetch_html")})
<1>1. Context(meta) = "web"
      BY ContextIs
<1>2. /\ LeavesOf("collect_inputs", meta) \subseteq ls /\ LeavesOf("synthesize", meta) \subseteq ls
      /\ LeavesOf("verify", meta) \subseteq ls
      BY DEF Needed
<1>3. fetch \in ls /\ extract \in ls
      BY <1>1, <1>2 DEF LeavesOf
<1>4. draft \in ls
      BY <1>1, <1>2 DEF LeavesOf
<1>5. critic \in ls
      BY <1>1, <1>2 DEF LeavesOf
<1>6. /\ fetch.node = Node("fetch_html")
      /\ extract.node = Node("extract_article") /\ extract.deps = {Node("fetch_html")}
      /\ draft.node = Node("draft_report") /\ draft.deps = {Node("extract_article")}
      /\ critic.node = Node("critic_report") /\ Node("extract_article") \in critic.deps
      BY LeafIs DEF Node
<1> HIDE DEF fetch, extract, draft, critic
<1>7. /\ Node("fetch_html") \in NodesOf(ls) /\ Node("extract_article") \in NodesOf(ls)
      /\ DOMAIN GraphOf(ls).tools = NodesOf(ls)
      BY <1>3, <1>6, NodesHave
<1>8. WaitsFor(GraphOf(ls), Node("extract_article"), Node("fetch_html"))
  <2>1. Node("fetch_html") \in extract.deps \intersect NodesOf(ls)
        BY <1>6, <1>7
  <2>2. WaitsFor(GraphOf(ls), Node("fetch_html"), Node("fetch_html"))
        BY WaitsItself
  <2>3. WaitsFor(GraphOf(ls), extract.node, Node("fetch_html"))
        BY <1>3, <2>1, <2>2, Waits
  <2> QED
      BY <1>6, <2>3
<1>9. WaitsFor(GraphOf(ls), Node("draft_report"), Node("fetch_html"))
      BY <1>4, <1>6, <1>7, <1>8, Waits
<1>10. WaitsFor(GraphOf(ls), Node("critic_report"), Node("fetch_html"))
      BY <1>5, <1>6, <1>7, <1>8, Waits
<1> QED
    BY <1>7, <1>9, <1>10

\* With documents and no URL they wait for each document to be read.
LEMMA DocumentsRead ==
    ASSUME NEW ls, NEW meta, \A kind \in Needed(meta) : LeavesOf(kind, meta) \subseteq ls,
           meta["urls"] \in {None, {}}, ~Given(meta["url"]), Given(meta["doc_paths"]), NEW doc \in meta["doc_paths"],
           NEW n \in {Node("draft_report"), Node("critic_report")}
    PROVE  <<"read", doc>> \in DOMAIN GraphOf(ls).tools /\ WaitsFor(GraphOf(ls), n, <<"read", doc>>)
<1> DEFINE docs == {<<"read", d>> : d \in meta["doc_paths"]}
           read == Leaf("read", doc, "fs.read_text", {})
           merge == Leaf("merge_docs", None, "aggregate", docs)
           draft == Leaf("draft_report", None, "model", {Node("merge_docs")})
           critic == Leaf("critic_report", None, "model", {Node("draft_report")} \union {Node("merge_docs")})
<1>1. Context(meta) = "docs"
      BY ContextIs
<1>2. /\ LeavesOf("read_docs", meta) \subseteq ls /\ LeavesOf("synthesize", meta) \subseteq ls
      /\ LeavesOf("verify", meta) \subseteq ls
      BY <1>1 DEF Needed
<1>3. read \in ls /\ merge \in ls
      BY <1>2 DEF LeavesOf
<1>4. draft \in ls
      BY <1>1, <1>2 DEF LeavesOf
<1>5. critic \in ls
      BY <1>1, <1>2 DEF LeavesOf
<1>6. /\ read.node = <<"read", doc>> /\ <<"read", doc>> \in docs
      /\ merge.node = Node("merge_docs") /\ merge.deps = docs
      /\ draft.node = Node("draft_report") /\ draft.deps = {Node("merge_docs")}
      /\ critic.node = Node("critic_report") /\ Node("merge_docs") \in critic.deps
      BY LeafIs DEF Node
<1> HIDE DEF docs, read, merge, draft, critic
<1>7. /\ <<"read", doc>> \in NodesOf(ls) /\ Node("merge_docs") \in NodesOf(ls)
      /\ DOMAIN GraphOf(ls).tools = NodesOf(ls)
      BY <1>3, <1>6, NodesHave
<1>8. WaitsFor(GraphOf(ls), Node("merge_docs"), <<"read", doc>>)
  <2>1. <<"read", doc>> \in merge.deps \intersect NodesOf(ls)
        BY <1>6, <1>7
  <2>2. WaitsFor(GraphOf(ls), <<"read", doc>>, <<"read", doc>>)
        BY WaitsItself
  <2>3. WaitsFor(GraphOf(ls), merge.node, <<"read", doc>>)
        BY <1>3, <2>1, <2>2, Waits
  <2> QED
      BY <1>6, <2>3
<1>9. WaitsFor(GraphOf(ls), Node("draft_report"), <<"read", doc>>)
      BY <1>4, <1>6, <1>7, <1>8, Waits
<1>10. WaitsFor(GraphOf(ls), Node("critic_report"), <<"read", doc>>)
      BY <1>5, <1>6, <1>7, <1>8, Waits
<1> QED
    BY <1>7, <1>9, <1>10

----
(* The planner *)

\* The types of what a call of the planner keeps.
PlanTypes ==
    /\ pc \in Busy \union {"idle", "planned", "escalated", "raised"}
    /\ IsRequest(request) /\ effective \in Metadata
    /\ envelope # None => IsEnvelope(envelope)
    /\ pc \in {"resolve", "ask", "persist", "escalated", "expand", "build"} => IsEnvelope(envelope)
    /\ missing \subseteq Slot /\ questions \subseteq Slot
    /\ queue \in Subgoals
    /\ calls \in 0 .. request.options.calls
    /\ pc = "planned" => graph.edges \subseteq (DOMAIN graph.tools) \X (DOMAIN graph.tools)

\* What is asked for is missing, and known to the request only if it was erased.
Asking ==
    /\ pc \in {"ask", "persist", "escalated"} =>
           /\ missing # {}
           /\ \A s \in missing : ~Given(effective[s]) /\ (Given(request.meta[s]) => ErasedFor(s, effective))
    /\ pc \in {"persist", "escalated"} => questions # {} /\ questions \subseteq missing

\* The documents wanted stay known, the subgoals of a plan have their leaves or are still ahead,
\* and the graph is that of all the leaves.
Sources ==
    request.backend = "htn_recursive_v0" =>
        /\ pc # "one_shot"
        /\ pc \in {"expand", "build", "validate", "planned"} =>
               \A d \in WantedDocs(Known, request.cand) \intersect Path :
                   /\ ~Given(effective["url"]) /\ effective["urls"] \in {None, {}, {Blank}}
                   /\ Given(effective["doc_paths"]) /\ d \in effective["doc_paths"]
        /\ pc \in {"expand", "build"} => Covered(queue, leaves, effective)
        /\ pc = "build" => queue = <<>>
        /\ pc \in {"validate", "planned"} =>
               /\ graph = GraphOf(leaves)
               /\ \A kind \in Needed(effective) : LeavesOf(kind, effective) \subseteq leaves

Planning == PlanTypes /\ Asking /\ Sources

\* A call starts with a request, and with nothing else.
LEMMA CallPlanning ==
    ASSUME NEW r, IsRequest(r), Call(r)
    PROVE  Planning'
<1>1. /\ request' = r /\ effective' = Nothing /\ envelope' = None /\ missing' = {} /\ questions' = {}
      /\ queue' = <<>> /\ calls' = 0
      /\ pc' = IF r.backend = "legacy_dynamic_v1" THEN "one_shot" ELSE "extract"
      BY DEF Call, NoLocals, Fresh
<1>2. queue' \in Subgoals
      BY <1>1 DEF Subgoals
<1>3. calls' \in 0 .. request'.options.calls
      BY <1>1 DEF IsRequest
<1>4. PlanTypes'
      BY <1>1, <1>2, <1>3, NothingTyped DEF PlanTypes, Busy
<1> QED
    BY <1>1, <1>4 DEF Planning, Asking, Sources

\* Nobody reads the result: the request stays.
LEMMA ReturnPlanning ==
    ASSUME PlanTypes, Return
    PROVE  Planning'
<1>1. /\ request' = request /\ effective' = Nothing /\ envelope' = None /\ missing' = {}
      /\ questions' = {} /\ queue' = <<>> /\ calls' = 0 /\ pc' = "idle"
      BY DEF Return, NoLocals, Fresh
<1>2. queue' \in Subgoals
      BY <1>1 DEF Subgoals
<1>3. calls' \in 0 .. request'.options.calls
      BY <1>1 DEF IsRequest, PlanTypes
<1>4. PlanTypes'
      BY <1>1, <1>2, <1>3, NothingTyped DEF PlanTypes
<1> QED
    BY <1>1, <1>4 DEF Planning, Asking, Sources

LEMMA ExtractPlanning ==
    ASSUME Planning, NEW reply \in Reply \union {None}, Extract(reply)
    PROVE  Planning'
<1>1. IsEnvelope(envelope')
  <2>1. CASE reply = None
    <3>1. /\ request.meta \in Metadata
          /\ request.cand \in [url : SUBSET Url, docs : SUBSET Doc, file : SUBSET Word]
          BY DEF Planning, PlanTypes, IsRequest
    <3> QED
        BY <2>1, <3>1, FallbackTyped DEF Extract
  <2>2. CASE reply # None
        BY <2>2, ReplyAssumption DEF Extract
  <2> QED
      BY <2>1, <2>2
<1>2. pc' = "resolve" /\ UNCHANGED <<request, effective, missing, questions, queue, leaves, calls, graph>>
      BY DEF Extract
<1> QED
    BY <1>1, <1>2 DEF Planning, PlanTypes, Asking, Sources, Busy

LEMMA ResolvePlanning ==
    ASSUME Planning, NEW found \in [Basename -> Path \union {None}], Resolve(found)
    PROVE  Planning'
<1> DEFINE R == ResolvedMetadata(found)
<1>1. IsRequest(request) /\ IsEnvelope(envelope)
      BY DEF Planning, PlanTypes, Resolve
<1>2. /\ effective' = R /\ UNCHANGED <<request, envelope, questions, leaves, calls, graph>>
      /\ pc' = IF missing' # {} THEN "ask" ELSE "expand"
      /\ queue' = IF missing' # {} THEN <<>> ELSE <<[kind |-> "root", depth |-> 0]>>
      BY DEF Resolve
<1>3. PICK lost : missing' = MissingFields(request, envelope, R, lost)
      BY DEF Resolve
<1>4. R \in Metadata
      BY <1>1, ResolvedIs
<1>5. \A s \in missing' : s \in Slot /\ ~Given(R[s])
      BY <1>1, <1>3, <1>4, MissingOpen
<1>6. \A s \in missing' : Given(request.meta[s]) => ErasedFor(s, R)
      BY <1>1, <1>5, Erased
<1>7. \A d \in WantedDocs(Known, request.cand) \intersect Path :
          /\ ~Given(R["url"]) /\ R["urls"] \in {None, {}, {Blank}}
          /\ Given(R["doc_paths"]) /\ d \in R["doc_paths"]
      BY <1>1, WantedStay
<1>8. Known' = Known /\ \A s : ErasedFor(s, R) => ErasedFor(s, effective)'
      BY <1>2 DEF Known, ErasedFor
<1>9. queue' \in Subgoals /\ (missing' = {} => Covered(queue', leaves', effective'))
  <2>1. CASE missing' # {}
        BY <1>2, <2>1 DEF Subgoals
  <2>2. CASE missing' = {}
    <3> DEFINE e == [kind |-> "root", depth |-> 0]
    <3>1. queue' = <<e>> /\ e \in [kind : Kind, depth : Nat] /\ e.kind = "root"
          BY <1>2, <2>2 DEF Kind
    <3> HIDE DEF e
    <3>2. queue' \in Subgoals /\ DOMAIN queue' = 1 .. 1 /\ queue'[1] = e
          BY <3>1 DEF Subgoals
    <3>3. "root" \in Kinds(queue')
          BY <3>1, <3>2 DEF Kinds
    <3> QED
        BY <3>2, <3>3 DEF Covered, Ahead
  <2> QED
      BY <2>1, <2>2
<1> HIDE DEF R
<1>10. PlanTypes'
      BY <1>1, <1>2, <1>4, <1>5, <1>9 DEF Planning, PlanTypes, Busy
<1>11. Asking'
      BY <1>2, <1>5, <1>6, <1>8 DEF Asking
<1>12. Sources'
      BY <1>2, <1>7, <1>8, <1>9 DEF Sources
<1> QED
    BY <1>10, <1>11, <1>12 DEF Planning

LEMMA AskPlanning ==
    ASSUME Planning, NEW proposed \in SUBSET Slot, Ask(proposed)
    PROVE  Planning'
<1>1. /\ pc = "ask" /\ pc' = "persist" /\ questions' = Questions(missing, proposed)
      /\ UNCHANGED <<request, envelope, effective, missing, queue, leaves, calls, graph>>
      BY DEF Ask
<1>2. questions' # {} /\ questions' \subseteq missing
      BY <1>1, QuestionsAsk DEF Planning, Asking
<1> QED
    BY <1>1, <1>2 DEF Planning, PlanTypes, Asking, Sources, Busy, ErasedFor, Known

LEMMA PersistPlanning ==
    ASSUME Planning, NEW completed \in BOOLEAN, Persist(completed)
    PROVE  Planning'
<1>1. /\ pc = "persist" /\ pc' \in {"escalated", "raised"}
      /\ UNCHANGED <<request, envelope, effective, missing, questions, queue, leaves, calls, graph>>
      BY DEF Persist
<1> QED
    BY <1>1 DEF Planning, PlanTypes, Asking, Sources, Busy, ErasedFor, Known

LEMMA ExpandPlanning ==
    ASSUME Planning, NEW answered \in BOOLEAN, Expand(answered)
    PROVE  Planning'
<1> DEFINE h == Head(queue).kind
           r == Tail(queue) \o Opened(h, effective, Head(queue).depth + 1)
<1>1. /\ pc = "expand" /\ queue # <<>> /\ queue' = r
      /\ leaves' = leaves \union LeavesOf(h, effective)
      /\ pc' \in {"raised", "build", "expand"} /\ (pc' = "build" => queue' = <<>>)
      /\ UNCHANGED <<request, envelope, effective, missing, questions, graph>>
      BY DEF Expand, Opened
<1>2. calls' \in 0 .. request'.options.calls
  <2>1. calls \in 0 .. request.options.calls /\ request.options.calls \in Nat
        BY DEF Planning, PlanTypes, IsRequest
  <2>2. calls' = calls \/ (calls' = calls + 1 /\ calls < request.options.calls)
        BY DEF Expand, MayAskModel
  <2> QED
      BY <1>1, <2>1, <2>2
<1>3. queue' \in Subgoals
  <2>1. queue \in Subgoals /\ queue # <<>>
        BY <1>1 DEF Planning, PlanTypes
  <2>2. Head(queue) \in [kind : Kind, depth : Nat]
        BY <2>1, QueueTurns
  <2>3. Opened(h, effective, Head(queue).depth + 1) \in Subgoals
        BY <2>2, OpenedIs
  <2> HIDE DEF Expand
  <2> QED
      BY <1>1, <2>1, <2>3, QueueTurns
<1>4. request.backend = "htn_recursive_v0" => Covered(queue', leaves', effective')
  <2>1. request.backend = "htn_recursive_v0" => Covered(queue, leaves, effective)
        BY <1>1 DEF Planning, Sources
  <2>2. queue \in Subgoals /\ queue # <<>>
        BY <1>1 DEF Planning, PlanTypes
  <2> QED
      BY <1>1, <2>1, <2>2, ExpandCovers
<1> HIDE DEF h, r
<1>5. PlanTypes'
      BY <1>1, <1>2, <1>3 DEF Planning, PlanTypes, Busy
<1>6. Asking'
      BY <1>1 DEF Asking
<1>7. Sources'
      BY <1>1, <1>4 DEF Planning, Sources, Known
<1> QED
    BY <1>5, <1>6, <1>7 DEF Planning

LEMMA BuildPlanning ==
    ASSUME Planning, Build
    PROVE  Planning'
<1>1. /\ pc = "build" /\ graph' = GraphOf(leaves) /\ pc' \in {"raised", "validate"}
      /\ UNCHANGED <<request, envelope, effective, missing, questions, queue, leaves, calls>>
      BY DEF Build
<1>2. request.backend = "htn_recursive_v0" =>
          \A kind \in Needed(effective) : LeavesOf(kind, effective) \subseteq leaves
  <2>1. Kinds(<<>>) = {}
        BY DEF Kinds
  <2> QED
      BY <1>1, <2>1 DEF Planning, Sources, Covered
<1> QED
    BY <1>1, <1>2 DEF Planning, PlanTypes, Asking, Sources, Busy, Known

LEMMA ValidatePlanning ==
    ASSUME Planning, Validate
    PROVE  Planning'
<1>1. /\ pc = "validate" /\ pc' \in {"raised", "planned"}
      /\ pc' = "planned" => IsValid(graph, request.tools)
      /\ UNCHANGED <<request, envelope, effective, missing, questions, queue, leaves, calls, graph>>
      BY DEF Validate
<1>2. pc' = "planned" => graph.edges \subseteq (DOMAIN graph.tools) \X (DOMAIN graph.tools)
      BY <1>1 DEF IsValid
<1> QED
    BY <1>1, <1>2 DEF Planning, PlanTypes, Asking, Sources, Busy, Known

\* Every step of the planner keeps the invariant.
LEMMA PlanPlanning ==
    ASSUME Planning, PlanStep
    PROVE  Planning'
<1>1. CASE ExceedLimit
  <2>1. /\ pc' = "raised"
        /\ UNCHANGED <<request, envelope, effective, missing, questions, queue, leaves, calls, graph>>
        BY <1>1 DEF ExceedLimit
  <2> QED
      BY <2>1 DEF Planning, PlanTypes, Asking, Sources, Busy
<1>2. CASE \E g \in ModelGraph \union {None} : OneShot(g)
  <2>1. /\ pc = "one_shot" /\ pc' \in {"raised", "validate"}
        /\ UNCHANGED <<request, envelope, effective, missing, questions, queue, leaves, calls>>
        BY <1>2 DEF OneShot
  <2> QED
      BY <2>1 DEF Planning, PlanTypes, Asking, Sources, Busy
<1> QED
    BY <1>1, <1>2, ExtractPlanning, ResolvePlanning, AskPlanning, PersistPlanning, ExpandPlanning,
       BuildPlanning, ValidatePlanning DEF PlanStep

----
(* Patches *)

\* One operation gives metadata or None.
LEMMA OperationIs ==
    ASSUME NEW m \in {None} \union Metadata, NEW o \in PatchOperation
    PROVE  ApplyOperation(m, o) \in {None} \union Metadata
<1>1. o.slot \in Slot /\ (o.value = None \/ o.value \subseteq ItemsOf[o.slot])
      /\ o.op \in {"add", "replace", "remove"}
      BY DEF PatchOperation
<1>2. CASE m = None
      BY <1>2, NoneAssumption DEF ApplyOperation
<1>3. CASE m \in Metadata
  <2> DEFINE t == o.slot
             v == o.value
  <2>1. t \in Slot /\ (v = None \/ v \subseteq ItemsOf[t])
        BY <1>1
  <2>2. ApplyOperation(m, o) \in {[m EXCEPT ![t] = v], [m EXCEPT ![t] = None], None}
        BY <1>1 DEF ApplyOperation
  <2> HIDE DEF t, v
  <2>3. [m EXCEPT ![t] = v] \in Metadata /\ [m EXCEPT ![t] = None] \in Metadata
        BY <1>3, <2>1, Updated
  <2> QED
      BY <2>2, <2>3
<1> QED
    BY <1>2, <1>3

\* What patches do as they are applied, one operation after the other.
Applies(after, meta, patch) ==
    /\ after \in [0 .. Len(patch) -> {None} \union Metadata]
    /\ after[0] = meta
    /\ \A k \in 1 .. Len(patch) : after[k] = ApplyOperation(after[k - 1], patch[k])

\* The kept operations of a patch, place after place.
Keeps(upTo, patch) ==
    upTo \in [0 .. Len(patch) -> Seq(PatchOperation)]

\* The metadata as the patches of a trace are applied, the newest first.
OrSkip(meta, patch) == IF ApplyPatch(meta, patch) = None THEN meta ELSE ApplyPatch(meta, patch)

Infers(newest, trace) ==
    /\ newest \in [0 .. Len(trace) -> Metadata]
    /\ newest[0] = Nothing
    /\ \A k \in 1 .. Len(trace) : newest[k] = OrSkip(newest[k - 1], trace[Len(trace) - k + 1])

\* ApplyPatch is the last of the values after its operations.
LEMMA ApplyIs ==
    ASSUME NEW meta \in Metadata, NEW patch \in Seq(PatchOperation)
    PROVE  \E f : Applies(f, meta, patch) /\ ApplyPatch(meta, patch) = f[Len(patch)]
<1> DEFINE X == {None} \union Metadata
           m == Len(patch)
           Step(k, v) == ApplyOperation(v, patch[k])
           step == [kv \in Nat \X X |-> IF kv[1] \in 1 .. m THEN Step(kv[1], kv[2]) ELSE meta]
           Holds(f) == f = [k \in 0 .. m |-> IF k = 0 THEN meta ELSE Step(k, f[k - 1])]
<1>1. m \in Nat /\ meta \in X
      OBVIOUS
<1>2. ASSUME NEW k \in 1 .. m, NEW v \in X PROVE Step(k, v) \in X
  <2>1. patch[k] \in PatchOperation
        OBVIOUS
  <2> QED
      BY <2>1, OperationIs
<1>3. step \in [Nat \X X -> X]
  <2>1. meta \in X
        BY <1>1
  <2> HIDE DEF X, Step, m
  <2> QED
      BY <1>2, <2>1
<1>4. PICK f \in [0 .. m -> X] : Iterates(f, meta, step, m)
  <2> HIDE DEF X, step, m
  <2> QED
      BY <1>1, <1>3, RecursionExists
<1>5. Holds(f)
  <2>1. ASSUME NEW k \in 0 .. m PROVE f[k] = IF k = 0 THEN meta ELSE Step(k, f[k - 1])
    <3> HIDE DEF Step, m, X
    <3>1. CASE k = 0
      <4> HIDE DEF step
      <4> QED
          BY <1>4, <3>1 DEF Iterates
    <3>2. CASE k # 0
      <4>1. k \in 1 .. m /\ k - 1 \in 0 .. m
            BY <1>1, <3>2
      <4>2. f[k] = step[<<k, f[k - 1]>>]
        <5> HIDE DEF step
        <5> QED
            BY <1>4, <4>1 DEF Iterates
      <4>3. <<k, f[k - 1]>> \in Nat \X X
            BY <1>4, <4>1
      <4>4. step[<<k, f[k - 1]>>] = Step(k, f[k - 1])
            BY <4>1, <4>3
      <4> QED
          BY <3>2, <4>2, <4>4
    <3> QED
        BY <3>1, <3>2
  <2> HIDE DEF step, Step, X, m
  <2> QED
      BY <2>1
<1> DEFINE g == CHOOSE w : Holds(w)
<1>6. Holds(g)
  <2> HIDE DEF Holds
  <2> QED
      BY <1>5
<1>7. ApplyPatch(meta, patch) = g[m]
      BY DEF ApplyPatch
<1>8. g[0] = meta /\ \A k \in 1 .. m : g[k] = Step(k, g[k - 1])
  <2> HIDE DEF Step, m, g
  <2> QED
      BY <1>1, <1>6
<1>9. g \in [0 .. m -> X]
  <2> DEFINE T == {k \in 0 .. m : g[k] \in X}
  <2> HIDE DEF Step, m, X, g
  <2>1. 0 \in T
        BY <1>1, <1>8
  <2>2. \A k \in 0 .. m - 1 : k \in T => k + 1 \in T
    <3> SUFFICES ASSUME NEW k \in 0 .. m - 1, g[k] \in X PROVE k + 1 \in T
        OBVIOUS
    <3>1. k + 1 \in 1 .. m /\ (k + 1) - 1 = k
          BY <1>1
    <3>2. g[k + 1] = Step(k + 1, g[k])
          BY <1>8, <3>1
    <3> QED
        BY <1>2, <3>1, <3>2
  <2>3. 0 .. m \subseteq T
    <3> HIDE DEF T
    <3> QED
        BY <1>1, <2>1, <2>2, Induction
  <2>4. g = [k \in 0 .. m |-> g[k]]
        BY <1>6
  <2> QED
      BY <2>3, <2>4
<1> HIDE DEF g
<1> QED
    BY <1>7, <1>8, <1>9 DEF Applies

\* A patch gives metadata or None.
LEMMA PatchTyped ==
    ASSUME NEW meta \in Metadata, NEW patch \in Seq(PatchOperation)
    PROVE  ApplyPatch(meta, patch) \in {None} \union Metadata
<1>1. PICK f : Applies(f, meta, patch) /\ ApplyPatch(meta, patch) = f[Len(patch)]
      BY ApplyIs
<1>2. Len(patch) \in 0 .. Len(patch)
      OBVIOUS
<1> QED
    BY <1>1, <1>2 DEF Applies

\* Kept is the last of the sequences kept.
LEMMA KeptIs ==
    ASSUME NEW patch \in Seq(PatchOperation), NEW places, places \subseteq 1 .. Len(patch)
    PROVE  \E f : Keeps(f, patch) /\ Kept(patch, places) = f[Len(patch)]
<1> DEFINE X == Seq(PatchOperation)
           m == Len(patch)
           Step(k, v) == IF k \in places THEN Append(v, patch[k]) ELSE v
           step == [kv \in Nat \X X |-> IF kv[1] \in 1 .. m THEN Step(kv[1], kv[2]) ELSE <<>>]
           Holds(f) == f = [k \in 0 .. m |-> IF k = 0 THEN <<>> ELSE Step(k, f[k - 1])]
<1>1. m \in Nat /\ <<>> \in X
      OBVIOUS
<1>2. ASSUME NEW k \in 1 .. m, NEW v \in X PROVE Step(k, v) \in X
  <2>1. patch[k] \in PatchOperation
        OBVIOUS
  <2> QED
      BY <2>1
<1>3. step \in [Nat \X X -> X]
  <2>1. <<>> \in X
        BY <1>1
  <2> HIDE DEF X, Step, m
  <2> QED
      BY <1>2, <2>1
<1>4. PICK f \in [0 .. m -> X] : Iterates(f, <<>>, step, m)
  <2> HIDE DEF X, step, m
  <2> QED
      BY <1>1, <1>3, RecursionExists
<1>5. Holds(f)
  <2>1. ASSUME NEW k \in 0 .. m PROVE f[k] = IF k = 0 THEN <<>> ELSE Step(k, f[k - 1])
    <3> HIDE DEF Step, m, X
    <3>1. CASE k = 0
      <4> HIDE DEF step
      <4> QED
          BY <1>4, <3>1 DEF Iterates
    <3>2. CASE k # 0
      <4>1. k \in 1 .. m /\ k - 1 \in 0 .. m
            BY <1>1, <3>2
      <4>2. f[k] = step[<<k, f[k - 1]>>]
        <5> HIDE DEF step
        <5> QED
            BY <1>4, <4>1 DEF Iterates
      <4>3. <<k, f[k - 1]>> \in Nat \X X
            BY <1>4, <4>1
      <4>4. step[<<k, f[k - 1]>>] = Step(k, f[k - 1])
            BY <4>1, <4>3
      <4> QED
          BY <3>2, <4>2, <4>4
    <3> QED
        BY <3>1, <3>2
  <2> HIDE DEF step, Step, X, m
  <2> QED
      BY <2>1
<1> DEFINE g == CHOOSE w : Holds(w)
<1>6. Holds(g)
  <2> HIDE DEF Holds
  <2> QED
      BY <1>5
<1>7. Kept(patch, places) = g[m]
      BY DEF Kept
<1>8. g[0] = <<>> /\ \A k \in 1 .. m : g[k] = Step(k, g[k - 1])
  <2> HIDE DEF Step, m, g
  <2> QED
      BY <1>1, <1>6
<1>9. g \in [0 .. m -> X]
  <2> DEFINE T == {k \in 0 .. m : g[k] \in X}
  <2> HIDE DEF Step, m, X, g
  <2>1. 0 \in T
        BY <1>1, <1>8
  <2>2. \A k \in 0 .. m - 1 : k \in T => k + 1 \in T
    <3> SUFFICES ASSUME NEW k \in 0 .. m - 1, g[k] \in X PROVE k + 1 \in T
        OBVIOUS
    <3>1. k + 1 \in 1 .. m /\ (k + 1) - 1 = k
          BY <1>1
    <3>2. g[k + 1] = Step(k + 1, g[k])
          BY <1>8, <3>1
    <3> QED
        BY <1>2, <3>1, <3>2
  <2>3. 0 .. m \subseteq T
    <3> HIDE DEF T
    <3> QED
        BY <1>1, <2>1, <2>2, Induction
  <2>4. g = [k \in 0 .. m |-> g[k]]
        BY <1>6
  <2> QED
      BY <2>3, <2>4
<1> HIDE DEF g
<1> QED
    BY <1>7, <1>8, <1>9 DEF Keeps

\* What is kept of a patch is a patch.
LEMMA KeptTyped ==
    ASSUME NEW patch \in Seq(PatchOperation), NEW places, places \subseteq 1 .. Len(patch)
    PROVE  Kept(patch, places) \in Seq(PatchOperation)
<1>1. PICK f : Keeps(f, patch) /\ Kept(patch, places) = f[Len(patch)]
      BY KeptIs
<1>2. Len(patch) \in 0 .. Len(patch)
      OBVIOUS
<1> QED
    BY <1>1, <1>2 DEF Keeps

\* InferMetadata is the last of the values after the patches, the newest first.
LEMMA InferIs ==
    ASSUME NEW trace \in Seq(Seq(PatchOperation))
    PROVE  \E f : Infers(f, trace) /\ InferMetadata(trace) = f[Len(trace)]
<1> DEFINE X == Metadata
           m == Len(trace)
           Step(k, v) == OrSkip(v, trace[Len(trace) - k + 1])
           step == [kv \in Nat \X X |-> IF kv[1] \in 1 .. m THEN Step(kv[1], kv[2]) ELSE Nothing]
           Holds(f) == f = [k \in 0 .. m |-> IF k = 0 THEN Nothing ELSE Step(k, f[k - 1])]
<1>1. m \in Nat /\ Nothing \in X
      BY NothingTyped
<1>2. ASSUME NEW k \in 1 .. m, NEW v \in X PROVE Step(k, v) \in X
  <2>1. Len(trace) - k + 1 \in 1 .. Len(trace)
        OBVIOUS
  <2>2. trace[Len(trace) - k + 1] \in Seq(PatchOperation)
        BY <2>1
  <2> QED
      BY <2>2, PatchTyped DEF OrSkip
<1>3. step \in [Nat \X X -> X]
  <2>1. Nothing \in X
        BY <1>1
  <2> HIDE DEF X, Step, m
  <2> QED
      BY <1>2, <2>1
<1>4. PICK f \in [0 .. m -> X] : Iterates(f, Nothing, step, m)
  <2> HIDE DEF X, step, m
  <2> QED
      BY <1>1, <1>3, RecursionExists
<1>5. Holds(f)
  <2>1. ASSUME NEW k \in 0 .. m PROVE f[k] = IF k = 0 THEN Nothing ELSE Step(k, f[k - 1])
    <3> HIDE DEF Step, m, X
    <3>1. CASE k = 0
      <4> HIDE DEF step
      <4> QED
          BY <1>4, <3>1 DEF Iterates
    <3>2. CASE k # 0
      <4>1. k \in 1 .. m /\ k - 1 \in 0 .. m
            BY <1>1, <3>2
      <4>2. f[k] = step[<<k, f[k - 1]>>]
        <5> HIDE DEF step
        <5> QED
            BY <1>4, <4>1 DEF Iterates
      <4>3. <<k, f[k - 1]>> \in Nat \X X
        <5>1. k \in Nat /\ f[k - 1] \in X
              BY <1>1, <1>4, <4>1
        <5> QED
            BY <5>1
      <4>4. step[<<k, f[k - 1]>>] = Step(k, f[k - 1])
            BY <4>1, <4>3
      <4> QED
          BY <3>2, <4>2, <4>4
    <3> QED
        BY <3>1, <3>2
  <2> HIDE DEF step, Step, X, m
  <2> QED
      BY <2>1
<1> DEFINE g == CHOOSE w : Holds(w)
<1>6. Holds(g)
  <2> HIDE DEF Holds
  <2> QED
      BY <1>5
<1>7. InferMetadata(trace) = g[m]
      BY DEF InferMetadata, OrSkip
<1>8. g[0] = Nothing /\ \A k \in 1 .. m : g[k] = Step(k, g[k - 1])
  <2> HIDE DEF Step, m, g
  <2> QED
      BY <1>1, <1>6
<1>9. g \in [0 .. m -> X]
  <2> DEFINE T == {k \in 0 .. m : g[k] \in X}
  <2> HIDE DEF Step, m, X, g
  <2>1. 0 \in T
        BY <1>1, <1>8
  <2>2. \A k \in 0 .. m - 1 : k \in T => k + 1 \in T
    <3> SUFFICES ASSUME NEW k \in 0 .. m - 1, g[k] \in X PROVE k + 1 \in T
        OBVIOUS
    <3>1. k + 1 \in 1 .. m /\ (k + 1) - 1 = k
          BY <1>1
    <3>2. g[k + 1] = Step(k + 1, g[k])
          BY <1>8, <3>1
    <3> QED
        BY <1>2, <3>1, <3>2
  <2>3. 0 .. m \subseteq T
    <3> HIDE DEF T
    <3> QED
        BY <1>1, <2>1, <2>2, Induction
  <2>4. g = [k \in 0 .. m |-> g[k]]
        BY <1>6
  <2> QED
      BY <2>3, <2>4
<1> HIDE DEF g
<1> QED
    BY <1>7, <1>8, <1>9 DEF Infers

\* What the patches of a trace tell is metadata.
LEMMA Inferred ==
    ASSUME NEW trace \in Seq(Seq(PatchOperation))
    PROVE  InferMetadata(trace) \in Metadata
<1>1. PICK f : Infers(f, trace) /\ InferMetadata(trace) = f[Len(trace)]
      BY InferIs
<1>2. Len(trace) \in 0 .. Len(trace)
      OBVIOUS
<1> QED
    BY <1>1, <1>2 DEF Infers

----
(* The trace of the run: what is recorded are operations of a patch *)

LEMMA NormaliseTyped ==
    ASSUME NEW patch \in Seq(PatchOperation)
    PROVE  NormalisePatch(patch) \in Seq(PatchOperation)
<1> DEFINE places == {i \in DOMAIN patch : patch[i].op = "remove" \/ patch[i].value # None}
<1>1. places \subseteq 1 .. Len(patch)
      OBVIOUS
<1>2. NormalisePatch(patch) = Kept(patch, places)
      BY DEF NormalisePatch
<1> HIDE DEF places
<1> QED
    BY <1>1, <1>2, KeptTyped

\* A URL of an answer may stand in for the list.
LEMMA ToldTyped ==
    ASSUME NEW answers \in Metadata
    PROVE  Told(answers) \in Metadata
<1> DEFINE v == IF Given(answers["urls"]) THEN answers["urls"] ELSE answers["url"]
<1>1. "url" \in Slot /\ "urls" \in Slot
      BY Items
<1>2. v = None \/ v \subseteq ItemsOf["urls"]
      BY <1>1, MetadataHas, Items
<1>3. Told(answers) = [answers EXCEPT !["urls"] = v]
      BY DEF Told
<1> HIDE DEF v
<1>4. [answers EXCEPT !["urls"] = v] \in Metadata
      BY <1>1, <1>2, Updated
<1> QED
    BY <1>3, <1>4

LEMMA AnswersTyped ==
    ASSUME NEW answers \in Metadata
    PROVE  AnswersPatch(answers) \in Seq(PatchOperation)
<1> DEFINE n == Len(SlotOrder)
           told == Told(answers)
           Add(i) == [op |-> "add", slot |-> SlotOrder[i], value |-> told[SlotOrder[i]]]
           adds == [i \in 1 .. n |-> Add(i)]
           places == {i \in 1 .. n : Given(told[SlotOrder[i]])}
<1>1. n = 8 /\ \A i \in 1 .. n : SlotOrder[i] \in Slot
      BY DEF SlotOrder, Slot
<1>2. told \in Metadata
      BY ToldTyped
<1>3. AnswersPatch(answers) = Kept(adds, places)
      BY DEF AnswersPatch
<1> HIDE DEF told
<1>4. \A i \in 1 .. n : Add(i) \in PatchOperation
  <2> TAKE i \in 1 .. n
  <2> DEFINE s == SlotOrder[i]
  <2>1. s \in Slot
        BY <1>1
  <2> HIDE DEF s
  <2>2. told[s] \in {None} \union SUBSET Item /\ (told[s] = None \/ told[s] \subseteq ItemsOf[s])
        BY <1>2, <2>1, MetadataHas
  <2>3. [op |-> "add", slot |-> s, value |-> told[s]] \in PatchOperation
        BY <2>1, <2>2 DEF PatchOperation
  <2> QED
      BY <2>3 DEF s
<1> HIDE DEF Add
<1>5. adds \in Seq(PatchOperation) /\ Len(adds) = n
      BY <1>1, <1>4
<1>6. places \subseteq 1 .. Len(adds)
      BY <1>5
<1> HIDE DEF adds, places, n
<1> QED
    BY <1>3, <1>5, <1>6, KeptTyped

LEMMA WordsTyped ==
    ASSUME NEW reply \in Sentence \union {None}
    PROVE  ConvertedPatch(asked, reply) \in Seq(PatchOperation)
<1>1. <<>> \in Seq(PatchOperation)
      OBVIOUS
<1>2. CASE reply # None
  <2>1. reply.patch \in Seq(PatchOperation)
        BY <1>2, PatchAssumption
  <2> DEFINE p == reply.patch
  <2> HIDE DEF p
  <2>2. NormalisePatch(p) \in Seq(PatchOperation)
        BY <2>1, NormaliseTyped DEF p
  <2> QED
      BY <1>1, <2>2 DEF ConvertedPatch, p
<1>3. CASE reply = None
      BY <1>1, <1>3 DEF ConvertedPatch
<1> QED
    BY <1>2, <1>3

----
(* The run *)

RunTypes ==
    /\ run \in {"PENDING", "RUNNING", "PAUSED", "FAILED"}
    /\ cpMeta # None => cpMeta \in Metadata
    /\ context \subseteq Slot /\ asked \subseteq Slot
    /\ cli \in {"planning", "loop", "prompt", "resume", "gone"}
    /\ interrupts \in 0 .. MaxInterrupts

Trace == patches \in Seq(Seq(PatchOperation)) /\ Len(patches) <= MaxRevisions

\* The inductive invariant.
Clarity == Planning /\ RunTypes /\ Trace

LEMMA SamePlanning == ASSUME Planning, UNCHANGED planVars PROVE Planning'
<1>1. /\ pc' = pc /\ request' = request /\ envelope' = envelope /\ effective' = effective
      /\ missing' = missing /\ questions' = questions /\ queue' = queue /\ leaves' = leaves
      /\ calls' = calls /\ graph' = graph
      BY DEF planVars
<1> QED
    BY <1>1 DEF Planning, PlanTypes, Asking, Sources, Known, ErasedFor

LEMMA SameTrace == ASSUME Trace, UNCHANGED patches PROVE Trace'
BY DEF Trace

LEMMA RecordTrace ==
    ASSUME Trace, NEW patch \in Seq(PatchOperation), Record(patch)
    PROVE  Trace'
<1> DEFINE S == Seq(PatchOperation)
<1>1. /\ patches \in Seq(S) /\ patch \in S /\ patches' = Append(patches, patch)
      /\ Len(patches) < MaxRevisions /\ MaxRevisions \in Nat
      BY BoundAssumption DEF Trace, Record
<1> HIDE DEF S
<1>2. /\ patches' \in Seq(S) /\ Len(patches') = Len(patches) + 1 /\ Len(patches) \in Nat
      BY <1>1
<1>3. Len(patches') <= MaxRevisions
      BY <1>1, <1>2
<1> QED
    BY <1>2, <1>3 DEF Trace, S

LEMMA InitClarity == ASSUME Init PROVE Clarity
<1>1. /\ request \in Request /\ pc = "idle" /\ envelope = None /\ effective = Nothing /\ missing = {}
      /\ questions = {} /\ queue = <<>> /\ calls = 0
      BY DEF Init, Fresh
<1>2. IsRequest(request)
      BY <1>1, RequestAssumption
<1>3. calls \in 0 .. request.options.calls
      BY <1>1, <1>2 DEF IsRequest
<1>4. queue \in Subgoals
      BY <1>1 DEF Subgoals
<1>5. Planning
      BY <1>1, <1>2, <1>3, <1>4, NothingTyped DEF Planning, PlanTypes, Asking, Sources
<1>6. RunTypes
      BY BoundAssumption DEF Init, RunTypes
<1>7. Trace
      BY BoundAssumption DEF Init, Trace
<1> QED
    BY <1>5, <1>6, <1>7 DEF Clarity

\* What a resumed run plans with is metadata.
LEMMA ResumedTyped ==
    ASSUME Clarity, cpMeta # None
    PROVE  /\ ResumedMetadata \in Metadata /\ InferMetadata(patches) \in Metadata
           /\ IsRequest([request EXCEPT !.meta = ResumedMetadata])
           /\ [request EXCEPT !.meta = ResumedMetadata].meta = ResumedMetadata
<1>1. patches \in Seq(Seq(PatchOperation)) /\ cpMeta \in Metadata /\ IsRequest(request)
      BY DEF Clarity, Trace, RunTypes, Planning, PlanTypes
<1>3. InferMetadata(patches) \in Metadata
      BY <1>1, Inferred
<1>4. ResumedMetadata \in Metadata
      BY <1>1, <1>3, Overlaid DEF ResumedMetadata
<1>5. \A m \in Metadata : /\ IsRequest([request EXCEPT !.meta = m])
                          /\ [request EXCEPT !.meta = m].meta = m
      BY <1>1, Zenon DEF IsRequest
<1> QED
    BY <1>3, <1>4, <1>5

LEMMA StartClarity == ASSUME Clarity, Start PROVE Clarity'
<1>1. /\ run' = "RUNNING" /\ Call(request)
      /\ UNCHANGED <<cpMeta, context, patches, cli, asked, interrupts>>
      BY DEF Start
<1>2. IsRequest(request)
      BY DEF Clarity, Planning, PlanTypes
<1>3. Planning'
      BY <1>1, <1>2, CallPlanning
<1> QED
    BY <1>1, <1>3, SameTrace DEF Clarity, RunTypes

LEMMA PauseClarity == ASSUME Clarity, Pause PROVE Clarity'
<1>1. /\ run' = "PAUSED" /\ cpMeta' = request.meta /\ context' = questions /\ cli' = "loop" /\ Return
      /\ UNCHANGED <<patches, asked, interrupts>>
      BY DEF Pause
<1>2. request.meta \in Metadata /\ questions \subseteq Slot
      BY DEF Clarity, Planning, PlanTypes, IsRequest
<1>3. Planning'
      BY <1>1, ReturnPlanning DEF Clarity, Planning
<1> QED
    BY <1>1, <1>2, <1>3, SameTrace DEF Clarity, RunTypes

LEMMA ResumeClarity == ASSUME Clarity, Resume PROVE Clarity'
<1> DEFINE r == [request EXCEPT !.meta = ResumedMetadata]
<1>1. /\ cpMeta # None /\ Call(r) /\ cli' = "planning"
      /\ UNCHANGED <<run, cpMeta, context, patches, asked, interrupts>>
      BY DEF Resume
<1>2. IsRequest(r)
      BY <1>1, ResumedTyped
<1> HIDE DEF r
<1>3. Planning'
      BY <1>1, <1>2, CallPlanning
<1> QED
    BY <1>1, <1>3, SameTrace DEF Clarity, RunTypes

LEMMA InterruptClarity == ASSUME Clarity, Interrupt PROVE Clarity'
<1>1. /\ cli' = "gone" /\ asked' = {} /\ Return /\ interrupts < MaxInterrupts
      /\ interrupts' = interrupts + 1 /\ UNCHANGED <<run, cpMeta, context, patches>>
      BY DEF Interrupt
<1>2. Planning'
      BY <1>1, ReturnPlanning DEF Clarity, Planning
<1>3. interrupts' \in 0 .. MaxInterrupts
      BY <1>1, BoundAssumption DEF Clarity, RunTypes
<1> QED
    BY <1>1, <1>2, <1>3, SameTrace DEF Clarity, RunTypes

\* The answers are to the questions that were read.
LEMMA AnswersClarity ==
    ASSUME Clarity, NEW answers \in Answers, AnswerQuestions(answers)
    PROVE  Clarity'
<1> DEFINE given == [s \in Slot |-> IF s \in asked THEN answers[s] ELSE None]
<1>1. Record(AnswersPatch(given)) /\ cli' = "resume" /\ asked' = {}
      /\ UNCHANGED <<planVars, run, cpMeta, context, interrupts>>
      BY DEF AnswerQuestions
<1>2. DOMAIN given = Slot /\ given = [s \in Slot |-> given[s]]
      OBVIOUS
<1>3. \A s \in Slot : given[s] = None \/ given[s] \subseteq ItemsOf[s]
      BY AnswersAssumption, MetadataHas
<1> HIDE DEF given
<1>4. given \in Metadata
      BY <1>2, <1>3, MetadataIs
<1>5. AnswersPatch(given) \in Seq(PatchOperation)
      BY <1>4, AnswersTyped
<1>6. Trace'
      BY <1>1, <1>5, RecordTrace DEF Clarity
<1> QED
    BY <1>1, <1>6, SamePlanning DEF Clarity, RunTypes

LEMMA WordsClarity ==
    ASSUME Clarity, NEW reply \in Sentence \union {None}, AnswerInWords(reply)
    PROVE  Clarity'
<1>1. Record(ConvertedPatch(asked, reply)) /\ cli' = "resume" /\ asked' = {}
      /\ UNCHANGED <<planVars, run, cpMeta, context, interrupts>>
      BY DEF AnswerInWords
<1>2. Trace'
      BY <1>1, WordsTyped, RecordTrace DEF Clarity
<1> QED
    BY <1>1, <1>2, SamePlanning DEF Clarity, RunTypes

LEMMA ElsewhereClarity ==
    ASSUME Clarity, NEW patch \in Patch, ReviseElsewhere(patch)
    PROVE  Clarity'
<1>1. Record(NormalisePatch(patch)) /\ context' = {}
      /\ UNCHANGED <<planVars, run, cpMeta, cli, asked, interrupts>>
      BY DEF ReviseElsewhere
<1>2. NormalisePatch(patch) \in Seq(PatchOperation)
      BY PatchAssumption, NormaliseTyped
<1>3. Trace'
      BY <1>1, <1>2, RecordTrace DEF Clarity
<1> QED
    BY <1>1, <1>3, SamePlanning DEF Clarity, RunTypes

\* Every step of the run keeps the invariant.
LEMMA NextClarity == ASSUME Clarity, [Next]_vars PROVE Clarity'
<1>1. CASE Plan
  <2>1. PlanStep /\ UNCHANGED runVars
        BY <1>1 DEF Plan
  <2>2. Planning'
        BY <2>1, PlanPlanning DEF Clarity
  <2> QED
      BY <2>1, <2>2, SameTrace DEF Clarity, RunTypes, runVars
<1>2. CASE Fail
      BY <1>2, SamePlanning, SameTrace DEF Fail, Clarity, RunTypes
<1>3. CASE ContinueAndRead
      BY <1>3, SamePlanning, SameTrace DEF ContinueAndRead, Clarity, RunTypes
<1>4. CASE Reattach
      BY <1>4, SamePlanning, SameTrace DEF Reattach, Clarity, RunTypes
<1>5. CASE ContinueElsewhere
      BY <1>5, SamePlanning, SameTrace DEF ContinueElsewhere, Clarity, RunTypes
<1>6. CASE UNCHANGED vars
      BY <1>6, SamePlanning, SameTrace DEF vars, runVars, Clarity, RunTypes
<1> QED
    BY <1>1, <1>2, <1>3, <1>4, <1>5, <1>6, StartClarity, PauseClarity, ResumeClarity, InterruptClarity,
       AnswersClarity, WordsClarity, ElsewhereClarity DEF Next

\* The planner's invariant, the types and the trace hold in every run.
THEOREM Invariance == Spec => []Clarity
<1>1. Init => Clarity
      BY InitClarity
<1>2. Clarity /\ [Next]_vars => Clarity'
      BY NextClarity
<1> QED
    BY <1>1, <1>2, PTL DEF Spec

\* The variables of the planner, of the run and of the terminal keep their types.
THEOREM Types == Spec => []TypeOK
<1>1. Clarity => TypeOK
  <2> SUFFICES ASSUME Clarity PROVE TypeOK
      OBVIOUS
  <2>1. \A i \in DOMAIN queue : queue[i].depth \in Nat
    <3> DEFINE E == [kind : Kind, depth : Nat]
    <3>1. queue \in Seq(E) /\ \A e \in E : e.depth \in Nat
          BY DEF Clarity, Planning, PlanTypes, Subgoals
    <3> HIDE DEF E
    <3>2. \A i \in DOMAIN queue : queue[i] \in E
          BY <3>1
    <3> QED
        BY <3>1, <3>2
  <2>2. request.meta \in Metadata
        BY DEF Clarity, Planning, PlanTypes, IsRequest
  <2> QED
      BY <2>1, <2>2 DEF Clarity, Planning, PlanTypes, RunTypes, Trace, TypeOK
<1> QED
    BY <1>1, Invariance, PTL

\* A pause has a question, and each is about a field without a value (_build_clarification_request).
THEOREM OpenQuestions == Spec => []QuestionsAreOpen
<1>1. Clarity => QuestionsAreOpen
      BY DEF Clarity, Planning, Asking, QuestionsAreOpen
<1> QED
    BY <1>1, Invariance, PTL

\* A field the metadata has a value for is asked for only if that value was erased.
THEOREM ErasedQuestions == Spec => []KnownFieldAskedOnlyIfErased
<1>1. Clarity => KnownFieldAskedOnlyIfErased
      BY DEF Clarity, Planning, Asking, KnownFieldAskedOnlyIfErased, ErasedFor, Known
<1> QED
    BY <1>1, Invariance, PTL

\* The draft and the verdict of a plan wait for every document that is wanted, or for the URL.
THEOREM Reads == Spec => []SourcesRead
<1>1. Clarity => SourcesRead
  <2> SUFFICES ASSUME Clarity, pc = "planned", request.backend = "htn_recursive_v0",
                      NEW n \in {Node("draft_report"), Node("critic_report")}
               PROVE  /\ effective["urls"] # {Blank} =>
                             \A d \in WantedDocs(Known, request.cand) \intersect Path :
                                 <<"read", d>> \in DOMAIN graph.tools /\ WaitsFor(graph, n, <<"read", d>>)
                      /\ Given(effective["url"]) =>
                             Node("fetch_html") \in DOMAIN graph.tools /\ WaitsFor(graph, n, Node("fetch_html"))
      BY DEF SourcesRead, Known
  <2>1. /\ graph = GraphOf(leaves)
        /\ \A kind \in Needed(effective) : LeavesOf(kind, effective) \subseteq leaves
        /\ \A d \in WantedDocs(Known, request.cand) \intersect Path :
               /\ ~Given(effective["url"]) /\ effective["urls"] \in {None, {}, {Blank}}
               /\ Given(effective["doc_paths"]) /\ d \in effective["doc_paths"]
        BY DEF Clarity, Planning, Sources
  <2>2. Given(effective["url"]) =>
            Node("fetch_html") \in DOMAIN graph.tools /\ WaitsFor(graph, n, Node("fetch_html"))
        BY <2>1, WebReads
  <2>3. ASSUME effective["urls"] # {Blank}, NEW d \in WantedDocs(Known, request.cand) \intersect Path
        PROVE  <<"read", d>> \in DOMAIN graph.tools /\ WaitsFor(graph, n, <<"read", d>>)
    <3>1. /\ ~Given(effective["url"]) /\ effective["urls"] \in {None, {}}
          /\ Given(effective["doc_paths"]) /\ d \in effective["doc_paths"]
          BY <2>1, <2>3
    <3> QED
        BY <2>1, <3>1, DocumentsRead
  <2> QED
      BY <2>2, <2>3
<1> QED
    BY <1>1, Invariance, PTL
====
