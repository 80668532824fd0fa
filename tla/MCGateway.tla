----------------------------- MODULE MCGateway -----------------------------
(***************************************************************************)
(* The call pipeline with its response on small instances.  Fields: "id" is  *)
(* in the path, "x" and "y" are inside the field the body binds to, "mask"   *)
(* is the field mask.                                                      *)
(***************************************************************************)
EXTENDS CallPipeline

MCField == {"id", "x", "y", "mask"}
MCSubField == {"x", "y"}

Md(h, t) == [header |-> h, trailer |-> t]
MCServerMetadata == {Md({}, {}), Md({"h"}, {"t", "private"})}

Err(code, custom) == [code |-> code, custom |-> custom]
MCError == {Err(0, 0), Err(3, 0), Err(16, 0), Err(99, 0), Err(12, 405)}
TwoErrors == {Err(3, 0), Err(12, 405)}

Base ==
  [operation |-> TRUE, headers |-> TRUE, patch |-> FALSE, binding |-> "none", body |-> NoBytes,
   path |-> {}, query |-> {}, filter |-> {}, stream |-> FALSE]

\* The request half: every precedence of three sources, with a plain answer.
Patch(body) == [Base EXCEPT !.patch = TRUE, !.binding = "sub", !.body = body]
RequestCalls ==
  {[c EXCEPT !.path = p, !.query = q, !.filter = f] :
     c \in {Patch({"x"}), Patch({"x", "y"}), Patch({}), Patch(NoBytes),
            [Base EXCEPT !.binding = "all", !.body = {"id", "x", "mask"}],
            [Base EXCEPT !.body = {"x"}]},
     p \in {{}, {"id"}, {"id", "x"}},
     q \in {{}, {"id", "y"}, {"mask", "x"}},
     f \in {{}, {"id"}, {"id", "x", "y"}}}

\* The response half: one call of each kind.
ResponseCalls ==
  {Base, [Base EXCEPT !.operation = FALSE], [Base EXCEPT !.stream = TRUE]}

MalformedHeaders == {[Base EXCEPT !.headers = FALSE]}
QueryWithoutFilter == {[Base EXCEPT !.query = {"x"}, !.filter = NilFilter]}

MCCalls == RequestCalls \cup ResponseCalls \cup MalformedHeaders \cup QueryWithoutFilter
=============================================================================
