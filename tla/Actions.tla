------------------------------- MODULE Actions -------------------------------
(***************************************************************************)
(* The action classes of core/actions/*.ts: what a definition d of a       *)
(* project puts in the session under the settings c (its constructor), and *)
(* what it becomes in the graph (its compile()).                           *)
(*                                                                         *)
(* SQL is the relations it names.  d.reads are the ref()s of its query,    *)
(* d.flaw is what may be wrong with it.  An action is an object: the       *)
(* record below is its proto and what the builder keeps beside it.         *)
(***************************************************************************)
EXTENDS Targets

Datasets == {"table", "view", "incremental"}
Statements == {"operations", "rlsPolicy", "realtime", "vectorIndex", "wrapper", "foreignTable"}

\* What a file may define; a foreign table and an extract are made for others.
Definable == Datasets \cup (Statements \ {"foreignTable"})
                \cup {"assertion", "declaration", "test", "notebook", "dataPreparation", "export",
                      "import", "script"}
Kinds == Definable \cup {"foreignTable", "extract"}

\* What the compiler adds to a project's words.
OwnNames == {"moved", "elsewhere", "policy", "realtime", "idx", "ext", "srv",
             "assertions_uniqueKey_0", "assertions_uniqueKey_1", "assertions_rowConditions"}
Messages == {"none", "dots", "conflict", "unknownConnection", "warehouse", "mode", "noColumnTypes",
             "unresolved", "ambiguous", "noOutput", "noDataset", "noInput"}

ASSUME WordsAssumption == OwnNames \cup Messages \cup {"added"} \subseteq Words

BuilderCalls == {"none", "schema", "database", "tags", "disabled", "dependencies", "gate", "type",
                 "assertions"}

EveryDefinition ==
    [kind : Definable, source : {"yaml", "sqlx", "js"}, file : Words, target : EveryTarget,
     deps : Seq(EveryRef), reads : Seq(EveryRef), gate : BOOLEAN, disabled : BOOLEAN,
     output : BOOLEAN, uniqueKeys : 0..2, rowConditions : BOOLEAN, tags : SUBSET Words,
     flaw : Words, call : BuilderCalls, connection : Words, of : EveryTarget]

EveryAction ==
    [kind : Kinds, file : Words, target : EveryTarget, canonical : EveryTarget,
     deps : Seq(EveryRef), seen : SUBSET (EveryTarget \X {"yes", "no"}), reads : Seq(EveryRef),
     gate : BOOLEAN, disabled : BOOLEAN, output : BOOLEAN, tags : SUBSET Words,
     parent : EveryTarget, inline : BOOLEAN, flaw : Words, of : EveryTarget, broken : BOOLEAN,
     faults : SUBSET Words]

\* The parts of the compiled graph, in the order they are compiled.
Chunks == <<"tables", "operations", "assertions", "declarations", "tests", "notebooks",
            "dataPreparations", "exports", "imports", "extracts", "scripts">>

Chunk(kind) ==
    CASE kind \in Datasets        -> "tables"
      [] kind \in Statements      -> "operations"
      [] kind = "assertion"       -> "assertions"
      [] kind = "declaration"     -> "declarations"
      [] kind = "test"            -> "tests"
      [] kind = "notebook"        -> "notebooks"
      [] kind = "dataPreparation" -> "dataPreparations"
      [] kind = "export"          -> "exports"
      [] kind = "import"          -> "imports"
      [] kind = "extract"         -> "extracts"
      [] kind = "script"          -> "scripts"

-----------------------------------------------------------------------------
(* What is checked.  "reject": the constructor throws; "late": it throws   *)
(* after it has put inline assertions in the session; "report": an error   *)
(* is recorded and the action stays; "drop": compile() throws, and the     *)
(* action is not in the graph; "flag": compile() records an error.         *)

TableChecks       == [unknownField |-> "reject", iceberg |-> "reject", partition |-> "report"]
ViewChecks        == [unknownField |-> "reject", partition |-> "report"]
IncrementalChecks == [unknownField |-> "reject", iceberg |-> "reject"]
OperationChecks   == [unknownField |-> "reject"]
AssertionChecks   == [unknownField |-> "reject"]
DeclarationChecks == [unknownField |-> "reject", noName |-> "reject"]
PolicyChecks      == [noName |-> "reject", noTable |-> "reject"]
RealtimeChecks    == [noTable |-> "reject"]
IndexChecks       == [noName |-> "reject", noTable |-> "reject", noColumn |-> "reject"]
NotebookChecks    == [unknownField |-> "reject", noCells |-> "reject"]
PreparationChecks == [fileType |-> "reject"]
TestChecks        == [unknownField |-> "report"]
ScriptChecks      == [language |-> "report", noFile |-> "report", runtimeVersion |-> "report",
                      timeout |-> "report"]

\* onSchemaChange and incrementalStrategy; the strategy's requirements.
StrategyChecks    == [onSchemaChange |-> "late", strategy |-> "late", overwrite |-> "report",
                      mergeKey |-> "report", predicates |-> "report"]
LoadModeChecks    == [loadMode |-> "reject", loadColumn |-> "reject"]

\* The enums of postgres: {}, mysql: {} and supabase: {}; assertions: {}.
OptionChecks      == [method |-> "late", partitionKind |-> "late", supabase |-> "late",
                      uniqueKeyTwice |-> "report"]

\* compile(): .jitCode(), a query that ends in a semicolon, an Iceberg connection.
JitChecks         == [jit |-> "drop"]
QueryChecks       == [semicolon |-> "flag"]
BothChecks        == [jitAndQuery |-> "flag"]
IcebergChecks     == [connection |-> "drop", storageUri |-> "drop"]
ColumnChecks      == [columns |-> "flag"]
FileChecks        == [location |-> "flag", format |-> "flag", scheme |-> "flag"]
ProviderChecks    == [provider |-> "drop", handler |-> "drop"]

None == [none |-> "none"]

ConstructorChecks(kind) ==
    CASE kind = "table"           -> TableChecks @@ OptionChecks
      [] kind = "view"            -> ViewChecks @@ OptionChecks
      [] kind = "incremental"     -> IncrementalChecks @@ OptionChecks @@ StrategyChecks
      [] kind = "operations"      -> OperationChecks
      [] kind = "assertion"       -> AssertionChecks
      [] kind = "declaration"     -> DeclarationChecks
      [] kind = "rlsPolicy"       -> PolicyChecks
      [] kind = "realtime"        -> RealtimeChecks
      [] kind = "vectorIndex"     -> IndexChecks
      [] kind = "notebook"        -> NotebookChecks
      [] kind = "dataPreparation" -> PreparationChecks @@ LoadModeChecks
      [] kind = "test"            -> TestChecks
      [] kind = "script"          -> ScriptChecks
      [] kind \in {"export", "import"} -> OperationChecks
      [] OTHER                    -> None

CompileChecks(kind) ==
    CASE kind \in {"table", "incremental"} -> JitChecks @@ QueryChecks @@ IcebergChecks
      [] kind = "view"               -> JitChecks @@ QueryChecks
      [] kind = "assertion"          -> JitChecks @@ QueryChecks @@ BothChecks
      [] kind = "dataPreparation"    -> QueryChecks
      [] kind = "operations"         -> JitChecks @@ ColumnChecks
      [] kind \in {"export", "import"} -> FileChecks
      [] kind = "wrapper"            -> ProviderChecks
      [] OTHER                       -> None

EffectOf(checks, flaw) == IF flaw \in DOMAIN checks THEN checks[flaw] ELSE "none"
Fault(flaw, effects, checks) == IF EffectOf(checks, flaw) \in effects THEN {flaw} ELSE {}

-----------------------------------------------------------------------------
(* Building an action.                                                     *)

\* ActionBuilder's part: the proto of an action with this target.
Blank(d, c, target, defaultSchema) ==
    [kind |-> d.kind, file |-> d.file, target |-> ApplySessionToTarget(target, c, defaultSchema),
     canonical |-> ApplySessionToTarget(target, c, defaultSchema), deps |-> << >>, seen |-> {},
     reads |-> d.reads, gate |-> d.gate, disabled |-> d.disabled, output |-> d.output,
     tags |-> d.tags, parent |-> Bare(Unset), inline |-> FALSE, flaw |-> d.flaw, of |-> d.of,
     broken |-> FALSE, faults |-> IF InvalidTarget(target) THEN {"dots"} ELSE {}]

\* checkAssertionsForDependency(): the same relation may not be depended on both
\* with and without its assertions.
AddDependency(a, ref, c) ==
    LET asked    == IF ref.assertions # "unset" THEN ref.assertions
                    ELSE IF a.gate /\ a.kind # "dataPreparation" THEN "yes" ELSE "no"
        relation == ResolveTarget(c, TargetOf(ref))
        conflict == \E pair \in a.seen : pair[1] = relation /\ pair[2] # asked
    IN  IF conflict
        THEN [a EXCEPT !.faults = @ \cup {"conflict"},
                       !.broken = @ \/ a.kind \in {"incremental", "dataPreparation"}]
        ELSE [a EXCEPT !.deps = Append(@, [ref EXCEPT !.assertions = asked]),
                       !.seen = @ \cup {<<relation, asked>>}]

\* Assertions take no part in that, and are filed under the reference itself.
AddAssertionDependency(a, ref) == [a EXCEPT !.deps = Append(@, ref)]

Add(a, ref, c) == IF a.kind = "assertion" THEN AddAssertionDependency(a, ref)
                  ELSE AddDependency(a, ref, c)

AddDependencies(a, refs, c) ==
    LET with[n \in 0..Len(refs)] == IF n = 0 THEN a ELSE Add(with[n - 1], refs[n], c)
    IN  with[Len(refs)]

\* What a constructor leaves: actions pushed to the session, and whether it threw.
Pushed(actions) == [actions |-> actions, threw |-> FALSE]
Threw(actions)  == [actions |-> actions, threw |-> TRUE]

Construct(d, c, a, inline) ==
    LET effect == EffectOf(ConstructorChecks(d.kind), d.flaw) IN
    CASE effect = "reject" -> Threw(<< >>)
      [] effect = "late"   -> Threw(inline)
      [] effect = "report" -> Pushed(Append(inline, [a EXCEPT !.faults = @ \cup {d.flaw}]))
      [] OTHER             -> Pushed(Append(inline, a))

NewAssertion(d, c) ==
    LET a == AddDependencies(Blank(d, c, d.target, AssertionSchema(c)), d.deps, c)
    IN  Construct(d, c, [a EXCEPT !.disabled = @ \/ c.disableAssertions], << >>)

\* generateInlineAssertions(): the assertions of assertions: {} on a table. They
\* read the table, and are named for it.
InlineAssertions(d, c, table) ==
    LET names   == SubSeq(<< <<"assertions_uniqueKey_0">>, <<"assertions_uniqueKey_1">> >>,
                          1, d.uniqueKeys)
                       \o IF d.rowConditions THEN << <<"assertions_rowConditions">> >> ELSE << >>
        blank(i) == Blank([d EXCEPT !.kind = "assertion", !.reads = <<Ref(table.target, "unset")>>,
                                    !.gate = FALSE, !.flaw = "none"], c,
                          Bare(c.builtinPrefix \o table.target.schema \o table.target.name
                                   \o names[i]), AssertionSchema(c))
    IN  [i \in DOMAIN names |->
            [blank(i) EXCEPT !.parent = table.target, !.inline = TRUE,
                             !.disabled = table.disabled \/ c.disableAssertions]]

NewDataset(d, c, deps) ==
    LET a == AddDependencies(Blank(d, c, d.target, c.schema), deps, c)
    IN  Construct(d, c, a, IF d.call = "assertions" THEN << >> ELSE InlineAssertions(d, c, a))

\* Only Table passes the messages of an actions.yaml on as they are.
NewTable(d, c) ==
    NewDataset(d, c, [i \in DOMAIN d.deps |-> ResolvableAsTarget(d.deps[i], d.source = "yaml")])
NewView(d, c)             == NewDataset(d, c, d.deps)
NewIncrementalTable(d, c) == NewDataset(d, c, d.deps)

NewPlain(d, c) ==
    Construct(d, c, AddDependencies(Blank(d, c, d.target, c.schema), d.deps, c), << >>)
NewOperation(d, c)       == NewPlain(d, c)
NewDeclaration(d, c)     == NewPlain([d EXCEPT !.deps = << >>, !.disabled = FALSE], c)
NewExport(d, c)          == NewPlain([d EXCEPT !.gate = FALSE], c)
NewImport(d, c)          == NewPlain([d EXCEPT !.reads = << >>, !.gate = FALSE], c)
NewNotebook(d, c)        == NewPlain([d EXCEPT !.reads = << >>], c)
NewScript(d, c)          == NewPlain([d EXCEPT !.reads = << >>, !.gate = FALSE], c)

\* A data preparation's target is its final name at once, unless an actions.yaml
\* names the file and the file its destination.
NewDataPreparation(d, c) ==
    LET a == AddDependencies(Blank(d, c, d.target, c.schema), d.deps, c)
    IN  Construct(d, c, IF d.source = "yaml" /\ d.of # Bare(Unset) THEN a
                        ELSE [a EXCEPT !.target = FinalizeTarget(c, @)], << >>)

\* A policy, a publication or an index depends on its table, d.of.
NewOnTable(d, c, word) ==
    LET a == Blank(d, c, Bare(d.of.name \o word \o d.target.name), c.schema)
    IN  Construct(d, c, [a EXCEPT !.deps =
            <<Ref(ApplySessionToTarget(d.of, c, c.schema), "unset")>> \o d.deps], << >>)
NewRlsPolicy(d, c)           == NewOnTable(d, c, <<"policy">>)
NewRealtimePublication(d, c) == NewOnTable(d, c, <<"realtime">>)
NewVectorIndex(d, c)         == NewOnTable(d, c, <<"idx">>)

\* A test has its name beside the dataset that it tests, d.of.
NewTest(d, c) ==
    LET a == Blank(d, c, [d.of EXCEPT !.name = d.target.name], c.schema)
    IN  Construct(d, c, [a EXCEPT !.of = ApplySessionToTarget(d.of, c, c.schema)], << >>)

NewWrapper(d, c, server) ==
    [Blank(d, c, Bare(server), c.schema) EXCEPT !.kind = "wrapper", !.reads = << >>]

NewForeignTable(d, c, target, server) ==
    [Blank(d, c, target, c.schema) EXCEPT
        !.kind = "foreignTable", !.output = TRUE, !.of = target,
        !.reads = << >>, !.deps = <<Ref(Bare(server), "unset")>>]

NewExtract(d, c, schema) ==
    [Blank(d, c, [d.target EXCEPT !.database = Unset, !.schema = OrElse(@, schema)], c.schema)
        EXCEPT !.kind = "extract", !.reads = << >>]

-----------------------------------------------------------------------------
(* Session.declare(): a source.  One behind another connection becomes a   *)
(* stand-in for it: an extract, or a foreign table on the connection's     *)
(* server, which the first such declaration makes.  A declaration that     *)
(* cannot be given a stand-in is declared as it is, with an error.         *)

WithFaults(as, faults) == [i \in DOMAIN as |-> [as[i] EXCEPT !.faults = @ \cup faults]]

Declare(d, c, servers) ==
    LET plain(faults) == LET made == NewDeclaration(d, c) IN
                         [made EXCEPT !.actions = WithFaults(@, faults)]
        connection == c.connections[d.connection]
        mode       == IF connection.mode # "unset" THEN connection.mode
                      ELSE IF connection.platform = "mysql" THEN "runner-extract" ELSE "fdw"
        external   == <<d.connection, "ext">>
        server     == <<d.connection, "srv">>
        table      == NewForeignTable(d, c, Target(Unset, external, d.target.name), server)
    IN  IF plain({}).threw \/ d.connection \in {"none", c.warehouseConnection} THEN plain({})
        ELSE IF d.connection \notin DOMAIN c.connections THEN plain({"unknownConnection"})
        ELSE IF c.warehouse \notin {"postgres", "supabase"} THEN plain({"warehouse"})
        ELSE IF connection.platform = "mysql" /\ mode # "runner-extract" THEN plain({"mode"})
        ELSE IF mode = "runner-extract" /\ connection.platform \in {"bigquery", "mysql"}
        THEN Pushed(<<NewExtract(d, c, external)>>)
        ELSE IF d.flaw = "noColumnTypes" THEN plain({"noColumnTypes"})
        ELSE Pushed((IF d.connection \in servers THEN << >>
                     ELSE <<NewWrapper(d, c, server)>>) \o <<table>>)

\* wrapper(): a server, and the foreign tables it is given.
DeclareWrapper(d, c) ==
    Pushed(<<NewWrapper(d, c, d.target.name)>>
           \o [i \in DOMAIN d.reads |->
                 NewForeignTable(d, c, TargetOf(d.reads[i]), d.target.name)])

-----------------------------------------------------------------------------
(* Builder methods.  A .js file may call one, d.call, on what it has made; *)
(* the inline assertions that the constructor made come before their table. *)

Amend(a, d, c) ==
    CASE d.call = "schema"       -> [a EXCEPT !.target.schema = <<"moved">>]
      [] d.call = "database"     -> [a EXCEPT !.target.database = <<"elsewhere">>]
      [] d.call = "tags"         -> [a EXCEPT !.tags = @ \cup {"added"}]
      [] d.call = "disabled"     -> [a EXCEPT !.disabled = TRUE]
      [] d.call = "dependencies" -> AddDependencies(a, <<Ref(d.of, "yes")>>, c)
      [] d.call = "gate"         -> [a EXCEPT !.gate = TRUE]
      [] OTHER                   -> a

Amended(d, c, made) ==
    [made EXCEPT !.actions = [i \in DOMAIN @ |-> IF i = Len(@) THEN Amend(@[i], d, c) ELSE @[i]]]

\* Mutant: the assertions are not disabled with their table.
AmendedAlone(d, c, made) == Amended(d, c, made)

\* Its assertions are tagged and disabled with a table.  One that moves keeps their
\* names, and their queries read it where it is.
TakenAlong(assertion, d, table) ==
    [assertion EXCEPT !.reads = <<Ref(table.target, "unset")>>,
                      !.disabled = @ \/ d.call = "disabled",
                      !.tags = IF d.call = "tags" THEN @ \cup {"added"} ELSE @]

AmendedWithAssertions(d, c, made) ==
    LET n     == Len(made.actions)
        table == Amend(made.actions[n], d, c)
    IN  [made EXCEPT !.actions = [i \in 1..n |->
            IF i = n THEN table ELSE TakenAlong(@[i], d, table)]]

\* type(): the config is read again as another class's.  What was set on the
\* first object, its query with it, stays behind.
Retype(d, c, made) ==
    LET other == [d EXCEPT !.kind = IF d.kind = "view" THEN "table" ELSE "view", !.reads = << >>]
        again == IF other.kind = "view" THEN NewView(other, c) ELSE NewTable(other, c)
        kept  == IF again.threw THEN Len(made.actions) ELSE Len(made.actions) - 1
    IN  [again EXCEPT !.actions = SubSeq(made.actions, 1, kept) \o @]

CalledOnDataset(d, c, made) ==
    CASE d.call = "type"       -> Retype(d, c, made)
      [] d.call = "assertions" ->
            [made EXCEPT !.actions = @ \o InlineAssertions(d, c, @[Len(@)])]
      [] OTHER                 -> AmendedWithAssertions(d, c, made)

TableBuilder(d, c, made)           == CalledOnDataset(d, c, made)
ViewBuilder(d, c, made)            == CalledOnDataset(d, c, made)
IncrementalTableBuilder(d, c, made) == CalledOnDataset(d, c, made)
OperationBuilder(d, c, made)       == Amended(d, c, made)
AssertionBuilder(d, c, made)       == Amended(d, c, made)
ExportBuilder(d, c, made)          == Amended(d, c, made)
ImportBuilder(d, c, made)          == Amended(d, c, made)
NotebookBuilder(d, c, made)        == Amended(d, c, made)
ScriptBuilder(d, c, made)          == Amended(d, c, made)
DataPreparationBuilder(d, c, made) == Amended(d, c, made)

Called(d, c, made) ==
    IF made.threw \/ d.call = "none" THEN made
    ELSE CASE d.kind = "table"      -> TableBuilder(d, c, made)
      [] d.kind = "view"            -> ViewBuilder(d, c, made)
      [] d.kind = "incremental"     -> IncrementalTableBuilder(d, c, made)
      [] d.kind = "operations"      -> OperationBuilder(d, c, made)
      [] d.kind = "assertion"       -> AssertionBuilder(d, c, made)
      [] d.kind = "export"          -> ExportBuilder(d, c, made)
      [] d.kind = "import"          -> ImportBuilder(d, c, made)
      [] d.kind = "notebook"        -> NotebookBuilder(d, c, made)
      [] d.kind = "script"          -> ScriptBuilder(d, c, made)
      [] d.kind = "dataPreparation" -> DataPreparationBuilder(d, c, made)
      [] OTHER                      -> made

New(d, c, servers) ==
    Called(d, c,
        CASE d.kind = "table"           -> NewTable(d, c)
          [] d.kind = "view"            -> NewView(d, c)
          [] d.kind = "incremental"     -> NewIncrementalTable(d, c)
          [] d.kind = "operations"      -> NewOperation(d, c)
          [] d.kind = "assertion"       -> NewAssertion(d, c)
          [] d.kind = "declaration"     -> Declare(d, c, servers)
          [] d.kind = "wrapper"         -> DeclareWrapper(d, c)
          [] d.kind = "rlsPolicy"       -> NewRlsPolicy(d, c)
          [] d.kind = "realtime"        -> NewRealtimePublication(d, c)
          [] d.kind = "vectorIndex"     -> NewVectorIndex(d, c)
          [] d.kind = "export"          -> NewExport(d, c)
          [] d.kind = "import"          -> NewImport(d, c)
          [] d.kind = "notebook"        -> NewNotebook(d, c)
          [] d.kind = "dataPreparation" -> NewDataPreparation(d, c)
          [] d.kind = "script"          -> NewScript(d, c)
          [] d.kind = "test"            -> NewTest(d, c))

-----------------------------------------------------------------------------
(* Compiling an action, with all the session's actions known.              *)

Index(actions) == [i \in DOMAIN actions |-> [key |-> actions[i].target, value |-> i]]

\* Session.findActions(): of several, the one in the default database and schema.
FindActions(ref, actions, c) ==
    LET found      == Find(Index(actions), ref)
        Prefer(S, part, default) ==
            LET home == {i \in S : actions[i].target[part] = default}
            IN  IF ref[part] = Unset /\ default # Unset /\ home # {} THEN home ELSE S
        candidates == Prefer(Prefer(found, "database", c.database), "schema", c.schema)
    IN  IF Cardinality(found) > 1 /\ Cardinality(candidates) = 1 THEN candidates ELSE found

Nothing == Bare(Unset)

\* Mutant: a source is renamed like everything else.
ResolveRenamed(ref, actions, c) ==
    LET found == FindActions(ref, actions, c) IN
    IF Cardinality(found) # 1 THEN [text |-> Nothing, fault |-> "unresolved"]
    ELSE [text |-> ResolveTarget(c, FinalTarget(c, actions[CHOOSE i \in found : TRUE].target)),
          fault |-> "none"]

\* Session.resolve(): the relation that SQL text will name, or an error.
Resolve(ref, actions, c) ==
    LET found == FindActions(ref, actions, c)
        a     == actions[CHOOSE i \in found : TRUE]
    IN  IF found = {} THEN [text |-> Nothing, fault |-> "unresolved"]
        ELSE IF Cardinality(found) > 1 THEN [text |-> Nothing, fault |-> "ambiguous"]
        ELSE IF a.kind = "operations" /\ ~a.output
        THEN [text |-> Nothing, fault |-> "noOutput"]
        ELSE [text |-> ResolveTarget(c, IF a.kind = "declaration" THEN a.target
                                        ELSE FinalTarget(c, a.target)),
              fault |-> "none"]

\* What compile() returns: the action, the relations its ref()s name, those its
\* statements name by other means, and whether it is in the graph.
Compiled(a, texts, names, dropped) ==
    [action |-> a, texts |-> texts, names |-> names, dropped |-> dropped]

\* The context that a query is a function of: each ref() adds a dependency and is
\* replaced by a relation.
Context(a, actions, c) ==
    LET resolved == {Resolve(a.reads[i], actions, c) : i \in DOMAIN a.reads}
        asked    == AddDependencies(a, a.reads, c)
    IN  Compiled([asked EXCEPT !.faults = @ \cup ({r.fault : r \in resolved} \ {"none"})],
                 {r.text : r \in {x \in resolved : x.fault = "none"}}, {}, asked.broken)

TableContext(a, actions, c)            == Context(a, actions, c)
ViewContext(a, actions, c)             == Context(a, actions, c)
IncrementalTableContext(a, actions, c) == Context(a, actions, c)
OperationContext(a, actions, c)        == Context(a, actions, c)
AssertionContext(a, actions, c)        == Context(a, actions, c)
ExportContext(a, actions, c)           == Context(a, actions, c)
DataPreparationContext(a, actions, c)  == Context(a, actions, c)

\* compile(): the query is applied to its context and then checked; what is dropped
\* was not applied.
CompileQuery(a, applied) ==
    LET checks == CompileChecks(a.kind) IN
    IF EffectOf(checks, a.flaw) = "drop"
    THEN Compiled([a EXCEPT !.faults = @ \cup {a.flaw}], {}, {}, TRUE)
    ELSE [applied EXCEPT !.action.faults = @ \cup Fault(a.flaw, {"flag"}, checks)]

CompileTable(a, actions, c)            == CompileQuery(a, TableContext(a, actions, c))
CompileView(a, actions, c)             == CompileQuery(a, ViewContext(a, actions, c))
CompileIncrementalTable(a, actions, c) == CompileQuery(a, IncrementalTableContext(a, actions, c))
CompileOperation(a, actions, c)        == CompileQuery(a, OperationContext(a, actions, c))
CompileExport(a, actions, c)           == CompileQuery(a, ExportContext(a, actions, c))
CompileAssertion(a, actions, c) ==
    CompileQuery(a, AssertionContext(
        IF a.flaw = "jitAndQuery" THEN [a EXCEPT !.reads = << >>] ELSE a, actions, c))

\* Its tables are those it named when it was built.
CompileDataPreparation(a, actions, c) ==
    LET done == CompileQuery(a, DataPreparationContext(a, actions, c))
    IN  [done EXCEPT !.names = {FinalizeTarget(c, a.canonical)}]

\* A table of the default schema; the schema's suffix is not on it.
CompileOnTable(a, c) ==
    Compiled(a, {}, {ResolveTarget(c, FinalizeTarget(c, Bare(a.of.name)))}, FALSE)
CompileRlsPolicy(a, c)           == CompileOnTable(a, c)
CompileRealtimePublication(a, c) == CompileOnTable(a, c)
CompileVectorIndex(a, c)         == CompileOnTable(a, c)

\* The table that it was declared as.
CompileForeignTable(a, c) == Compiled(a, {}, {ResolveTarget(c, a.of)}, FALSE)

CompileWrapper(a) ==
    LET dropped == EffectOf(CompileChecks("wrapper"), a.flaw) = "drop"
    IN  Compiled([a EXCEPT !.faults = @ \cup IF dropped THEN {a.flaw} ELSE {}], {}, {}, dropped)

CompileImport(a) ==
    Compiled([a EXCEPT !.faults = @ \cup Fault(a.flaw, {"flag"}, CompileChecks("import"))],
             {}, {}, FALSE)

\* A test runs its dataset's query with an input, one of the test's own reads, in
\* place of each ref().
CompileTest(a, actions, c) ==
    LET found == Find(Index(actions), a.of)
        tested == actions[CHOOSE i \in found : TRUE]
        fault  == IF a.of.name = Unset THEN {"noDataset"}
                  ELSE IF Cardinality(found) > 1 THEN {"ambiguous"}
                  ELSE IF found = {} \/ tested.kind \notin Datasets THEN {"noDataset"}
                  ELSE IF \E i \in DOMAIN tested.reads :
                            ~ \E j \in DOMAIN a.reads :
                                TargetOf(tested.reads[i]) = TargetOf(a.reads[j])
                  THEN {"noInput"} ELSE {}
    IN  Compiled([a EXCEPT !.faults = @ \cup fault], {}, {}, FALSE)

\* Declarations, notebooks, scripts and extracts are what their constructors made.
CompileAsBuilt(a) == Compiled(a, {}, {}, a.broken)

Compile(a, actions, c) ==
    CASE a.kind = "table"           -> CompileTable(a, actions, c)
      [] a.kind = "view"            -> CompileView(a, actions, c)
      [] a.kind = "incremental"     -> CompileIncrementalTable(a, actions, c)
      [] a.kind = "operations"      -> CompileOperation(a, actions, c)
      [] a.kind = "assertion"       -> CompileAssertion(a, actions, c)
      [] a.kind = "export"          -> CompileExport(a, actions, c)
      [] a.kind = "import"          -> CompileImport(a)
      [] a.kind = "dataPreparation" -> CompileDataPreparation(a, actions, c)
      [] a.kind = "rlsPolicy"       -> CompileRlsPolicy(a, c)
      [] a.kind = "realtime"        -> CompileRealtimePublication(a, c)
      [] a.kind = "vectorIndex"     -> CompileVectorIndex(a, c)
      [] a.kind = "foreignTable"    -> CompileForeignTable(a, c)
      [] a.kind = "wrapper"         -> CompileWrapper(a)
      [] a.kind = "test"            -> CompileTest(a, actions, c)
      [] OTHER                      -> CompileAsBuilt(a)
=============================================================================
