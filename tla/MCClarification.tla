---- MODULE MCClarification ----
(* Small instance of Clarification: one URL, two paths, a bare name, requests of both backends. *)
EXTENDS Clarification

CONSTANTS u1, p1, p2, b1, w1

MCUrl == {u1}
MCPath == {p1, p2}
MCBasename == {b1}
MCWord == {w1}

Meta(url, docs, source, file) ==
    [Nothing EXCEPT !["url"] = url, !["doc_paths"] = docs, !["source"] = source,
                    !["output_filename"] = file]
SuperTools == {"fs.read_text", "web.fetch_html", "web.extract_article", "export.write_text"}
DemoTools == {"fs.read_text", "web.fetch_html", "web.extract_article"}
Wide == [depth |-> 4, frontier |-> 64, nodes |-> 64, calls |-> 1]
Req(meta, url, docs, backend, dynamic, tools, options) ==
    [meta |-> meta, cand |-> [url |-> url, docs |-> docs, file |-> {}], backend |-> backend,
     dynamic |-> dynamic, tools |-> tools, options |-> options]
Htn(meta, url, docs, tools) == Req(meta, url, docs, "htn_recursive_v0", FALSE, tools, Wide)

MCRequest ==
    { Htn(Nothing, {}, {}, SuperTools),
      Htn(Meta(None, {b1, p1}, None, {w1}), {}, {}, SuperTools),
      Htn(Nothing, {u1}, {}, DemoTools),
      Htn(Nothing, {}, {b1}, SuperTools),
      Req(Nothing, {}, {}, "htn_recursive_v0", TRUE, DemoTools, Wide),
      Req(Meta(None, {p1, p2}, None, None), {}, {}, "htn_recursive_v0", FALSE, SuperTools,
          [Wide EXCEPT !.depth = 1]),
      Req(Meta({u1}, None, None, None), {}, {}, "htn_recursive_v0", FALSE, SuperTools,
          [Wide EXCEPT !.nodes = 3]),
      Req(Nothing, {}, {}, "legacy_dynamic_v1", FALSE, DemoTools, Wide),
      Req(Nothing, {}, {}, "legacy_dynamic_v1", FALSE, {}, Wide) }

\* The schema of the extraction has urls and doc_paths as lists that are always there.
Env(url, urls, docs, source, gaps) ==
    [inputs |-> [Meta(url, docs, source, None) EXCEPT !["urls"] = urls], missing |-> gaps]
MCReply ==
    { Env(None, {}, {}, None, {}), Env(None, {}, {p1, b1}, None, {}),
      Env(None, {Blank}, {p1}, None, {"urls"}), Env({}, {}, {}, {}, {"url"}),
      Env({u1}, {}, {p1}, None, {"doc_paths"}) }

ModelNode(n) == <<n, None>>
MCModelGraph ==
    { [tools |-> [n \in {ModelNode("a"), ModelNode("b1")} |-> "model"],
       edges |-> E, duplicate |-> d] :
        E \in {{<<ModelNode("a"), ModelNode("b1")>>},
               {<<ModelNode("a"), ModelNode("b1")>>, <<ModelNode("b1"), ModelNode("a")>>},
               {<<ModelNode("a"), ModelNode("c")>>}},
        d \in BOOLEAN } \union
    { [tools |-> [n \in {ModelNode("a")} |-> tool], edges |-> {}, duplicate |-> FALSE] :
        tool \in {"fs.read_text", "fs.glob", "not.in.catalog"} }

MCAnswers ==
    { [Meta({u1}, {p2}, {w1}, {w1}) EXCEPT !["path"] = {w1}, !["html"] = {w1}],
      Meta({}, {b1}, {w1}, None) }

Op(op, slot, value) == [op |-> op, slot |-> slot, value |-> value]
MCSentence ==
    { [sure |-> FALSE, patch |-> <<>>],
      [sure |-> TRUE, patch |-> <<Op("replace", "source", {w1}), Op("add", "url", None)>>] }
MCPatch == { <<Op("remove", "doc_paths", None), Op("add", "url", {u1})>>,
             <<Op("add", "url", {}), Op("add", "urls", {Blank}), Op("add", "doc_paths", {p1})>> }

\* One request, whose documents another process names twice.
OneRequest == {Htn(Nothing, {}, {}, SuperTools)}
OneReply == {Env(None, {}, {}, None, {})}
TwoPatches == {<<Op("add", "doc_paths", {p1})>>, <<Op("add", "doc_paths", {p2})>>}
====
