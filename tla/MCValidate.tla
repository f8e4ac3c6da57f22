----------------------------- MODULE MCValidate -----------------------------
(***************************************************************************)
(* Instances of Validate for TLC: one process over many projects of three  *)
(* actions, and two processes over a project of one.                       *)
(***************************************************************************)
EXTENDS Validate

CONSTANTS early, late,      \* processes
          main, extra       \* schemas

A == 1..3

\* The reads of three actions, with keys along and against their order.
Reads(edges) == [n \in A |-> {d \in A : <<n, d>> \in edges}]
Graphs == {Reads(edges) : edges \in
    {{<<2, 1>>, <<3, 2>>}, {<<1, 2>>, <<2, 3>>}, {<<2, 1>>, <<3, 1>>},
     {<<1, 2>>, <<1, 3>>}, {<<2, 1>>, <<2, 3>>, <<1, 3>>}, {<<1, 3>>, <<2, 3>>}}}

AtMostOne == {{}} \cup {{n} : n \in A}
AllTables == [n \in A |-> "table"]
Kinds == {AllTables} \cup {[AllTables EXCEPT ![n] = k] : n \in A, k \in Kind}

One == [actions |-> A, nodes |-> A, deps |-> Reads({<<2, 1>>, <<3, 2>>}), kind |-> AllTables,
        schema |-> [n \in A |-> main], broken |-> {}, unstubbable |-> {}, badOps |-> {},
        ddl |-> FALSE, keep |-> FALSE, runs |-> {early}]

\* At most one action is left out, wrong or without a stub.
Classified == {[One EXCEPT !.deps = deps, !.kind = kind, !.ddl = ddl,
                           !.nodes = IF odd = "out" THEN A \ n ELSE A,
                           !.broken = IF odd = "broken" THEN n ELSE {},
                           !.unstubbable = IF odd = "unstubbable" THEN n ELSE {},
                           !.badOps = IF odd = "badOps" THEN n ELSE {}] :
    deps \in Graphs, kind \in Kinds, n \in AtMostOne, ddl \in BOOLEAN,
    odd \in {"out", "broken", "unstubbable", "badOps"}}

\* Two schemas, dropped or kept.
Split == {[One EXCEPT !.schema[3] = extra, !.keep = keep, !.broken = {2}] : keep \in BOOLEAN}

\* Two processes at once.
Two == [One EXCEPT !.actions = {1}, !.nodes = {1}, !.deps = [n \in {1} |-> {}],
                   !.kind = [n \in {1} |-> "table"], !.schema = [n \in {1} |-> main],
                   !.runs = {early, late}]

MCProjects == Classified \cup Split \cup {Two}
=============================================================================
