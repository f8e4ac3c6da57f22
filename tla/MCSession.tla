------------------------------ MODULE MCSession ------------------------------
(***************************************************************************)
(* Small projects for Session: something that makes a relation "a",        *)
(* something that uses it, a third definition that collides with them or   *)
(* uses both; and one definition of each kind with each flaw.              *)
(***************************************************************************)
EXTENDS Session

A == Bare(<<"a">>)
B == Bare(<<"b">>)
SA == Target(Unset, <<"s">>, <<"a">>)
OtherA == Target(Unset, <<"o">>, <<"a">>)
To(target) == <<Ref(target, "unset")>>
Gated(target) == <<Ref(target, "yes")>>

D(kind, file, target) ==
    [kind |-> kind, source |-> "js", file |-> file, target |-> target, deps |-> << >>,
     reads |-> << >>, gate |-> FALSE, disabled |-> FALSE, output |-> FALSE, uniqueKeys |-> 0,
     rowConditions |-> FALSE, tags |-> {}, flaw |-> "none", call |-> "none",
     connection |-> "none", of |-> Nothing]

TableA == [D("table", "a", A) EXCEPT !.uniqueKeys = 1, !.tags = {"t"}]
Producers ==
    {TableA, [TableA EXCEPT !.source = "yaml", !.kind = "view", !.rowConditions = TRUE],
     [TableA EXCEPT !.kind = "incremental", !.uniqueKeys = 2],
     [TableA EXCEPT !.call = "schema"], [TableA EXCEPT !.call = "disabled"],
     [TableA EXCEPT !.uniqueKeys = 0, !.call = "type"],
     [TableA EXCEPT !.kind = "view", !.call = "type"],
     [TableA EXCEPT !.reads = To(B)], D("declaration", "a", A),
     [D("declaration", "a", A) EXCEPT !.connection = "pg"],
     [D("declaration", "a", A) EXCEPT !.connection = "bq"],
     [D("operations", "a", A) EXCEPT !.output = TRUE], D("operations", "a", A),
     D("import", "a", A),
     [TableA EXCEPT !.call = "assertions"], [TableA EXCEPT !.call = "tags"],
     [D("operations", "a", A) EXCEPT !.output = TRUE, !.call = "database"]}

Uses(kind) == [D(kind, "b", B) EXCEPT !.reads = To(A)]
OnA(kind) == [D(kind, "b", Bare(<<"p">>)) EXCEPT !.of = A]
Consumers ==
    {[Uses("view") EXCEPT !.gate = TRUE], [Uses("view") EXCEPT !.reads = To(SA), !.gate = TRUE],
     [Uses("table") EXCEPT !.deps = Gated(A)], [Uses("incremental") EXCEPT !.deps = Gated(A)],
     [Uses("table") EXCEPT !.reads = Gated(A), !.uniqueKeys = 1],
     [Uses("table") EXCEPT !.source = "yaml", !.reads = << >>, !.deps = To(A), !.gate = TRUE],
     [Uses("table") EXCEPT !.reads = To(B)], [Uses("view") EXCEPT !.reads = To(OtherA)],
     Uses("assertion"), [Uses("operations") EXCEPT !.output = TRUE], Uses("export"),
     [D("notebook", "b", B) EXCEPT !.deps = To(A)], [D("script", "b", B) EXCEPT !.deps = To(A)],
     Uses("dataPreparation"),
     [Uses("dataPreparation") EXCEPT !.source = "yaml", !.of = SA],
     OnA("rlsPolicy"), OnA("realtime"), OnA("vectorIndex"), OnA("test"),
     [Uses("view") EXCEPT !.call = "dependencies", !.of = A],
     [Uses("view") EXCEPT !.call = "gate"], [Uses("assertion") EXCEPT !.call = "schema"],
     [Uses("operations") EXCEPT !.call = "dependencies", !.of = SA],
     [D("wrapper", "b", B) EXCEPT !.reads = To(Target(Unset, <<"ext">>, <<"f">>))]}

Thirds ==
    {[D("view", "c", Bare(<<"c">>)) EXCEPT !.reads = To(B)], D("view", "c", OtherA),
     D("view", "c", A), [D("test", "c", Bare(<<"p">>)) EXCEPT !.of = B, !.reads = To(A)],
     [D("declaration", "c", Bare(<<"c">>)) EXCEPT !.connection = "pg"],
     [D("assertion", "c", Bare(<<"c">>)) EXCEPT !.reads = To(SA)],
     [D("export", "c", B) EXCEPT !.deps = Gated(SA)]}

Flawed ==
    {<<[D(kind, "a", A) EXCEPT !.flaw = flaw, !.uniqueKeys = 1, !.of = SA, !.source = source]>> :
        kind \in {"table", "incremental", "assertion", "notebook", "script", "export",
                  "rlsPolicy", "dataPreparation"},
        flaw \in {"unknownField", "partition", "strategy", "noTable", "loadMode", "language",
                  "location", "provider", "semicolon", "jit", "jitAndQuery", "sqlxFile",
                  "statements", "inputs"},
        source \in {"yaml", "sqlx"}}
    \cup {<<D("wrapper", "a", A)>>, <<[D("wrapper", "a", A) EXCEPT !.source = "yaml"]>>,
          <<[D("wrapper", "a", A) EXCEPT !.flaw = "provider"]>>}

YamlFirst(p) == \A i, j \in DOMAIN p : p[j].source = "yaml" /\ p[i].source # "yaml" => j < i

AllProjects ==
    {p \in {<<x, y>> : x \in Producers, y \in Consumers} \cup
           {<<x, y, z>> : x \in Producers,
                          y \in Consumers, z \in Thirds} \cup
           Flawed : YamlFirst(p)}

AllWords ==
    OwnNames \cup Messages \cup {"a", "b", "c", "d", "f", "o", "p", "q", "s", "t", "x", "added"}
        \cup {"bq", "main", "pg"}
        \cup {p[1].flaw : p \in Flawed}

Plain ==
    [database |-> Unset, schema |-> <<"s">>, assertionSchema |-> <<"q">>, prefix |-> Unset,
     schemaSuffix |-> Unset, databaseSuffix |-> Unset, builtinPrefix |-> Unset,
     disableAssertions |-> FALSE, includeTests |-> FALSE, varsAreStrings |-> TRUE,
     warehouse |-> "postgres", warehouseConnection |-> "main",
     connections |-> [pg |-> [platform |-> "postgres", mode |-> "unset"],
                      bq |-> [platform |-> "bigquery", mode |-> "runner-extract"]]]
Staged == [Plain EXCEPT !.database = <<"d">>, !.prefix = <<"p">>, !.schemaSuffix = <<"x">>,
                        !.databaseSuffix = <<"x">>, !.includeTests = TRUE,
                        !.disableAssertions = TRUE]

Suffixed == [Plain EXCEPT !.schemaSuffix = <<"x">>]

AllSettings == {Plain, Staged, Suffixed}
SuffixedOnly == {Suffixed}
PolicyProject == {<<TableA, OnA("rlsPolicy")>>}

Select(patterns, tags, deps, dependents) ==
    [patterns |-> patterns, tags |-> tags, includeDependencies |-> deps,
     includeDependents |-> dependents]
AllSelections ==
    {Everything, Select({<<"b">>}, {}, TRUE, FALSE), Select({<<"p", "b">>}, {}, TRUE, TRUE),
     Select({}, {"t"}, FALSE, TRUE), Select({<<"*", "a">>}, {}, FALSE, FALSE),
     Select({<<"a">>}, {}, FALSE, TRUE)}
OnlyA == {Select({<<"a">>}, {}, FALSE, FALSE)}
=============================================================================
