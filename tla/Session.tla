------------------------------- MODULE Session -------------------------------
(***************************************************************************)
(* A compilation: core/main.ts loads the definitions of a project one by   *)
(* one into the session of core/session.ts, Session.compile() makes a      *)
(* graph of them pass by pass, and prune() of cli/api/commands/prune.ts    *)
(* selects the part of it that a run is for.                               *)
(***************************************************************************)
EXTENDS Actions

CONSTANTS
    Projects,   \* sequences of definitions, those of actions.yaml files first
    Settings,   \* workflow settings, with an environment's overrides
    Selections  \* what the command line asks to include; empty fields ask for nothing

ASSUME SessionAssumption ==
    /\ \A p \in Projects :
        /\ p \in Seq(EveryDefinition)
        /\ \A i, j \in DOMAIN p : p[j].source = "yaml" /\ p[i].source # "yaml" => j < i
    /\ \A c \in Settings :
        {c.database, c.schema, c.assertionSchema, c.prefix, c.schemaSuffix, c.databaseSuffix,
         c.builtinPrefix} \subseteq EveryName /\ c.disableAssertions \in BOOLEAN

VARIABLES
    project, settings, \* what is compiled
    phase,      \* the pass that is next; "done", or "threw": no graph
    loaded,     \* definitions loaded
    actions,    \* session.actions, session.tests when they have joined
    tests,      \* session.tests
    servers,    \* session.foreignServers
    queue,      \* the actions left to compile
    graph,      \* what the actions that compiled have become, by their index
    errors,     \* graphErrors: what is wrong, and in which definition
    targets,    \* the graph's targets
    selection,  \* the RunConfig that prune() is given
    selected    \* the names of the actions that prune() keeps

vars == <<project, settings, phase, loaded, actions, tests, servers, queue, graph, errors,
          targets, selection, selected>>

\* No selector: the whole graph.
Everything == [patterns |-> {}, tags |-> {}, includeDependencies |-> FALSE,
               includeDependents |-> FALSE]

Passes == <<"addTests", "qualify", "removeExtracts", "rename", "removeDuplicates", "checkTests",
            "checkCircularity", "done">>

EveryEntry ==
    [chunk : Range(Chunks), kind : Kinds, file : Words, target : EveryTarget,
     canonical : EveryTarget, deps : SUBSET (EveryRef \cup EveryTarget), parent : EveryTarget,
     inline : BOOLEAN, disabled : BOOLEAN, tags : SUBSET Words, texts : SUBSET EveryTarget,
     names : SUBSET EveryTarget]

TypeOK ==
    /\ project \in Seq(EveryDefinition) /\ settings \in Settings
    /\ phase \in {"load", "compile", "threw", "pruned"} \cup Range(Passes)
    /\ loaded \in 0..Len(project)
    /\ actions \in Seq(EveryAction) /\ tests \in Seq(EveryAction)
    /\ servers \subseteq {project[i].connection : i \in DOMAIN project}
    /\ queue \subseteq DOMAIN actions
    /\ DOMAIN graph \subseteq DOMAIN actions /\ graph \in [DOMAIN graph -> EveryEntry]
    /\ \A e \in errors : e.file \in {project[i].file : i \in DOMAIN project}
    /\ targets \subseteq {actions[i].target : i \in DOMAIN actions}
    /\ selection \in Selections \cup {Everything}
    /\ selected \subseteq {ReadableName(graph[i].target) : i \in DOMAIN graph}

Init ==
    /\ project \in Projects /\ settings \in Settings
    /\ phase = "load" /\ loaded = 0
    /\ actions = << >> /\ tests = << >> /\ servers = {} /\ queue = {} /\ graph = << >>
    /\ errors = {} /\ targets = {} /\ selection = Everything /\ selected = {}

-----------------------------------------------------------------------------
(* Loading.                                                                *)

Error(what, file) == [what |-> what, file |-> file]
FaultsOf(as) == UNION {{Error(w, as[i].file) : w \in as[i].faults} : i \in DOMAIN as}

\* sqlxAction(): what a .sqlx file says that its type does not allow.
SqlxErrors(d) ==
    {Error(w, d.file) : w \in
        (IF d.flaw = "statements" /\ d.kind # "operations" THEN {"statements"} ELSE {})
        \cup (IF d.flaw \in {"protected", "incrementalWhere"} /\ d.kind # "incremental"
              THEN {d.flaw} ELSE {})
        \cup (IF d.flaw = "inputs" /\ d.kind # "test" THEN {"inputs"} ELSE {})
        \cup (IF d.flaw \in {"preOperations", "postOperations"} /\ d.kind \notin Datasets
              THEN {d.flaw} ELSE {})}

\* An actions.yaml may not name a .sqlx file, nor define a wrapper.
RefusedInYaml(d) == d.source = "yaml" /\ (d.flaw = "sqlxFile" \/ d.kind = "wrapper")

\* A constructor that throws in an actions.yaml ends the compilation, unless it
\* is one of Supabase's actions; in another file it ends that file.
FatalInYaml(d, made) ==
    /\ d.source = "yaml" /\ made.threw
    /\ d.kind \notin {"rlsPolicy", "realtime", "vectorIndex"}

Load ==
    LET d    == project[loaded + 1]
        made == New(d, settings, servers)
    IN
    /\ phase = "load" /\ loaded < Len(project)
    /\ loaded' = loaded + 1
    /\ \/ /\ RefusedInYaml(d)
          /\ errors' = errors \cup {Error("refused", d.file)}
          /\ UNCHANGED <<phase, actions, tests, servers>>
       \/ /\ ~RefusedInYaml(d)
          /\ phase' = IF FatalInYaml(d, made) THEN "threw" ELSE phase
          /\ actions' = IF d.kind = "test" THEN actions ELSE actions \o made.actions
          /\ tests' = IF d.kind = "test" THEN tests \o made.actions ELSE tests
          /\ servers' = IF \E i \in DOMAIN made.actions : made.actions[i].kind = "foreignTable"
                           /\ d.kind = "declaration"
                        THEN servers \cup {d.connection} ELSE servers
          /\ errors' = errors \cup FaultsOf(made.actions)
                         \cup (IF d.source = "sqlx" THEN SqlxErrors(d) ELSE {})
                         \cup (IF made.threw THEN {Error(d.flaw, d.file)} ELSE {})
    /\ UNCHANGED <<project, settings, queue, graph, targets, selection, selected>>

-----------------------------------------------------------------------------
(* Session.compile(): the actions, chunk by chunk.                         *)

InChunkOrder(i, j) ==
    LET Place(k) == CHOOSE n \in DOMAIN Chunks : Chunks[n] = Chunk(actions[k].kind)
    IN  Place(i) < Place(j) \/ (Place(i) = Place(j) /\ i <= j)

StartCompile ==
    /\ phase = "load" /\ loaded = Len(project)
    /\ actions' = actions \o tests
    /\ queue' = DOMAIN actions'
    /\ phase' = IF settings.varsAreStrings THEN "compile" ELSE "threw"
    /\ UNCHANGED <<project, settings, loaded, tests, servers, graph, errors, targets, selection,
                   selected>>

\* Mutant: a view is not among the tables.
EntryOfKind(a, done) ==
    [chunk |-> a.kind \o "s", kind |-> a.kind, file |-> a.file, target |-> a.target,
     canonical |-> a.canonical, deps |-> Range(a.deps), parent |-> a.parent, inline |-> a.inline,
     disabled |-> a.disabled, tags |-> a.tags, texts |-> done.texts, names |-> done.names]

\* An action as the graph has it.
Entry(a, done) ==
    [chunk |-> Chunk(a.kind), kind |-> a.kind, file |-> a.file, target |-> a.target,
     canonical |-> a.canonical, deps |-> Range(a.deps), parent |-> a.parent, inline |-> a.inline,
     disabled |-> a.disabled, tags |-> a.tags, texts |-> done.texts, names |-> done.names]

\* compileGraphChunk(): an action that throws is left out.
CompileNext ==
    /\ phase = "compile"
    /\ \E i \in queue :
        LET done == Compile(actions[i], actions, settings) IN
        /\ \A j \in queue : InChunkOrder(i, j)
        /\ actions' = [actions EXCEPT ![i] = done.action]
        /\ graph' = IF done.dropped THEN graph
                    ELSE [j \in DOMAIN graph \cup {i} |->
                            IF j = i THEN Entry(done.action, done) ELSE graph[j]]
        /\ errors' = errors \cup FaultsOf(<<done.action>>)
        /\ queue' = queue \ {i}
    /\ UNCHANGED <<project, settings, phase, loaded, tests, servers, targets, selection, selected>>

EndChunks ==
    /\ phase = "compile" /\ queue = {}
    /\ phase' = Passes[1]
    /\ targets' = {actions[i].target : i \in DOMAIN actions}
    /\ UNCHANGED <<project, settings, loaded, actions, tests, servers, queue, graph, errors,
                   selection, selected>>

-----------------------------------------------------------------------------
(* The passes over the graph.                                              *)

Keep(S) == [i \in S |-> graph[i]]

PassWithout(name, newGraph, newErrors, goneTargets) ==
    /\ phase = name
    /\ phase' = Passes[1 + CHOOSE i \in DOMAIN Passes : Passes[i] = name]
    /\ graph' = newGraph
    /\ errors' = errors \cup newErrors
    /\ targets' = targets \ goneTargets
    /\ UNCHANGED <<project, settings, loaded, actions, tests, servers, queue, selection, selected>>

Pass(name, newGraph, newErrors) == PassWithout(name, newGraph, newErrors, {})

\* addTestsToCompiledGraph(): a table or a view waits for its tests.
TestsOf(a) == {t \in DOMAIN actions : actions[t].kind = "test"
                                      /\ Denotes(actions[t].of, a.target)}

AddTests ==
    LET tested == {i \in DOMAIN graph : TestsOf(graph[i]) # {}}
    IN  IF settings.includeTests
        THEN Pass("addTests",
                [i \in DOMAIN graph |-> IF i \in tested /\ graph[i].chunk = "tables"
                    THEN [graph[i] EXCEPT !.deps = @ \cup
                            {Ref(actions[t].target, "no") : t \in TestsOf(graph[i])}]
                    ELSE graph[i]],
                {Error("notTestable", graph[i].file) :
                    i \in {j \in tested : graph[j].kind \notin {"table", "view"}}})
        ELSE Pass("addTests", graph, {})

\* Mutant: the reference has to give the same parts.
AssertionsSpelled(ref) ==
    {i \in DOMAIN actions : actions[i].kind = "assertion"
        /\ \E k \in DOMAIN actions[i].deps : TargetOf(ref) = TargetOf(actions[i].deps[k])}

\* The assertions an action depends on by a reference that was spelled like this
\* one: actionAssertionMap.
AssertionsOf(ref) ==
    {i \in DOMAIN actions : actions[i].kind = "assertion"
        /\ \E k \in DOMAIN actions[i].deps : Denotes(ref, actions[i].deps[k])}

\* fullyQualifyDependencies()
Qualified(ref) ==
    LET found == FindActions(ref, actions, settings) IN
    IF Cardinality(found) # 1 THEN {}
    ELSE {actions[i].target : i \in found}
         \cup IF ref.assertions = "yes" THEN {actions[i].target : i \in AssertionsOf(ref)} ELSE {}

QualifyErrors(g) ==
    {Error(IF FindActions(ref, actions, settings) = {} THEN "missing" ELSE "ambiguous", g.file) :
        ref \in {r \in g.deps : Cardinality(FindActions(r, actions, settings)) # 1}}

FullyQualifyDependencies ==
    Pass("qualify",
         [i \in DOMAIN graph |-> IF graph[i].chunk = "declarations" THEN graph[i]
                                 ELSE [graph[i] EXCEPT !.deps = UNION {Qualified(r) : r \in @}]],
         UNION {QualifyErrors(graph[i]) : i \in DOMAIN graph})

\* Mutant: only a table or a view keeps an extract.
RemoveExtractsOfNoTable ==
    LET referenced == UNION {graph[i].deps : i \in {j \in DOMAIN graph : graph[j].chunk = "tables"}}
    IN  Pass("removeExtracts",
             Keep({i \in DOMAIN graph : graph[i].chunk = "extracts"
                                            => graph[i].target \in referenced}), {})

\* An extract that nothing depends on is not one.
RemoveUnreferencedExtracts ==
    LET referenced == UNION {graph[i].deps : i \in {j \in DOMAIN graph : graph[j].chunk # "extracts"}}
        gone       == {i \in DOMAIN graph : graph[i].chunk = "extracts"
                                              /\ graph[i].target \notin referenced}
    IN  PassWithout("removeExtracts", Keep(DOMAIN graph \ gone), {},
                    {graph[i].target : i \in gone})

\* alterActionName(): everything but the declarations gets its final name.
Renamed(target) ==
    IF \E i \in DOMAIN graph : graph[i].chunk # "declarations" /\ graph[i].target = target
    THEN FinalTarget(settings, target) ELSE target

\* Mutant: what waited for an action waits for its old name.
AlterOnlyTarget ==
    Pass("rename",
         [i \in DOMAIN graph |-> IF graph[i].chunk = "declarations" THEN graph[i]
                                 ELSE [graph[i] EXCEPT !.target = Renamed(@)]], {})

AlterActionName ==
    Pass("rename",
         [i \in DOMAIN graph |->
            IF graph[i].chunk = "declarations" THEN graph[i]
            ELSE [graph[i] EXCEPT !.target = Renamed(@), !.deps = {Renamed(t) : t \in @},
                                  !.parent = IF @ = Nothing THEN @ ELSE Renamed(@)]], {})

\* Two actions of the same name: neither is kept.
Deduplicated == {"tables", "assertions", "operations", "declarations", "notebooks",
                 "dataPreparations", "scripts"}

Duplicates ==
    {i \in DOMAIN graph : graph[i].chunk \in Deduplicated
        /\ \E j \in DOMAIN graph \ {i} : graph[j].chunk \in Deduplicated
              /\ \/ graph[i].target = graph[j].target
                 \/ graph[i].canonical = graph[j].canonical}

RemoveNonUniqueActions ==
    Pass("removeDuplicates", Keep(DOMAIN graph \ Duplicates),
         {Error("duplicate", graph[i].file) : i \in Duplicates})

CheckTestNameUniqueness ==
    LET testEntries == {i \in DOMAIN graph : graph[i].chunk = "tests"}
    IN  Pass("checkTests", graph,
             {Error("duplicateTest", graph[i].file) : i \in
                {k \in testEntries : \E j \in testEntries : j < k
                                     /\ graph[j].target.name = graph[k].target.name}})

\* S with all that the function next leads to from there.
Closure(S, next) ==
    LET after[n \in 0..Cardinality(DOMAIN next)] ==
            IF n = 0 THEN S
            ELSE LET T == after[n - 1] IN T \cup UNION {next[x] : x \in T \cap DOMAIN next}
    IN  after[Cardinality(DOMAIN next)]

\* Mutant: only an action that waits for itself.
CheckSelfReference ==
    Pass("checkCircularity", graph,
         {Error("circular", graph[i].file) :
            i \in {j \in DOMAIN graph : graph[j].target \in graph[j].deps}})

\* What the actions of a target wait for.
Successors ==
    [t \in {graph[i].target : i \in DOMAIN graph} |->
        UNION {graph[i].deps : i \in {j \in DOMAIN graph : graph[j].target = t}}]

\* An action is in a cycle when its dependencies lead back to it.
Circular == {i \in DOMAIN graph : graph[i].target \in Closure(graph[i].deps, Successors)}

CheckCircularity ==
    Pass("checkCircularity", graph, {Error("circular", graph[i].file) : i \in Circular})

-----------------------------------------------------------------------------
(* prune(): the actions that a selection is about.  A clean graph only.    *)

Prunable == {"tables", "operations", "assertions", "exports", "imports", "extracts", "scripts"}
PrunableActions == {i \in DOMAIN graph : graph[i].chunk \in Prunable}
Name(i) == ReadableName(graph[i].target)
AllNames == {Name(i) : i \in PrunableActions}
LastSegment(name) == LET dot == Max({i \in DOMAIN name : name[i] = "."})
                     IN  SubSeq(name, dot + 1, Len(name))

\* The first i words of a pattern match the first j of a name.
GlobMatches(pattern, name) ==
    LET matches[i \in 0..Len(pattern), j \in 0..Len(name)] ==
            IF i = 0 THEN j = 0
            ELSE IF pattern[i] = "*" THEN \E k \in 0..j : matches[i - 1, k]
            ELSE j > 0 /\ name[j] = pattern[i] /\ matches[i - 1, j - 1]
    IN  matches[Len(pattern), Len(name)]

\* matchPatterns(): a pattern with a dot is about the whole name, one without
\* about its last segment.
MatchPattern(pattern, names) ==
    LET Scope(name) == IF "." \in Range(pattern) THEN name ELSE LastSegment(name)
    IN  {name \in names : IF "*" \in Range(pattern) THEN GlobMatches(pattern, Scope(name))
                          ELSE Scope(name) = pattern}

\* A plain name may not be that of two actions.
AmbiguousPattern(pattern, names) ==
    /\ {".", "*"} \cap Range(pattern) = {}
    /\ Cardinality(MatchPattern(pattern, names)) > 1

NoSelector(sel) == sel.patterns = {} /\ sel.tags = {}

Matched(sel) ==
    {Name(i) : i \in {j \in PrunableActions : graph[j].tags \cap sel.tags # {}}}
        \cup UNION {MatchPattern(p, AllNames) : p \in sel.patterns}

\* Of several actions of a name, the last one's dependencies count.
LastOf(name) ==
    LET named == {j \in PrunableActions : Name(j) = name}
    IN  CHOOSE i \in named : \A j \in named : InChunkOrder(j, i)

Dependencies ==
    [name \in AllNames |->
        {ReadableName(t) : t \in graph[LastOf(name)].deps} \cap AllNames]

Dependents ==
    [name \in AllNames |->
        {Name(i) : i \in {j \in PrunableActions :
                            name \in {ReadableName(t) : t \in graph[j].deps}}}]

\* Mutant: one step of dependencies.
IncludedDirectly(sel) ==
    IF NoSelector(sel) THEN AllNames
    ELSE Matched(sel) \cup (IF sel.includeDependencies
                            THEN UNION {Dependencies[n] : n \in Matched(sel)} ELSE {})
                     \cup (IF sel.includeDependents
                            THEN UNION {Dependents[n] : n \in Matched(sel)} ELSE {})

IncludedActionNames(sel) ==
    LET upstream == IF sel.includeDependencies THEN Closure(Matched(sel), Dependencies)
                    ELSE Matched(sel)
    IN  IF NoSelector(sel) THEN AllNames
        ELSE IF sel.includeDependents THEN Closure(upstream, Dependents) ELSE upstream

Prune ==
    /\ phase = "done" /\ errors = {}
    /\ \E sel \in Selections :
        /\ selection' = sel
        /\ \/ /\ \E p \in sel.patterns : AmbiguousPattern(p, AllNames)
              /\ phase' = "threw"
              /\ UNCHANGED <<targets, selected>>
           \/ /\ ~ \E p \in sel.patterns : AmbiguousPattern(p, AllNames)
              /\ phase' = "pruned"
              /\ selected' = IncludedActionNames(sel)
              /\ targets' = {t \in targets : ReadableName(t) \in selected'}
    /\ UNCHANGED <<project, settings, loaded, actions, tests, servers, queue, graph, errors>>

-----------------------------------------------------------------------------
Next ==
    \/ Load \/ StartCompile \/ CompileNext \/ EndChunks
    \/ AddTests \/ FullyQualifyDependencies \/ RemoveUnreferencedExtracts \/ AlterActionName
    \/ RemoveNonUniqueActions \/ CheckTestNameUniqueness \/ CheckCircularity
    \/ Prune

Spec == Init /\ [][Next]_vars

-----------------------------------------------------------------------------
(* What a graph without errors promises.                                   *)

Clean == phase \in {"done", "pruned"} /\ errors = {}
InGraph(target) == {i \in DOMAIN graph : graph[i].target = target}

\* Every dependency of an action is in the graph, under the name that the
\* environment gives it, and is of one action.  (Exports, imports and extracts are
\* not looked at for duplicates: two with one name may both stay.)
EveryDependencyIsBuilt ==
    Clean => \A i \in DOMAIN graph : \A t \in graph[i].deps :
        /\ InGraph(t) # {}
        /\ Cardinality({j \in InGraph(t) : graph[j].chunk \in Deduplicated}) <= 1

\* The relations that an action's ref()s were replaced by are those of the actions
\* it waits for: renaming a graph and resolving its SQL agree on every name.
ReadsAreDependencies ==
    Clean => \A i \in DOMAIN graph :
        graph[i].texts \subseteq {ResolveTarget(settings, t) : t \in graph[i].deps}

\* No set of actions each wait for one of the others: the Runner can start.
CleanGraphIsAcyclic ==
    Clean => ~ \E S \in SUBSET DOMAIN graph : S # {} /\
        \A i \in S : \E j \in S : graph[j].target \in graph[i].deps

\* What a file defines is in the graph or in the errors: only extracts that no
\* action's dependency or reference finds are left out.
NothingIsLost ==
    Clean => \A i \in DOMAIN actions \ DOMAIN graph :
        /\ actions[i].kind = "extract"
        /\ \A j \in DOMAIN actions : \A k \in DOMAIN actions[j].deps :
              i \notin FindActions(actions[j].deps[k], actions, settings)

\* The assertions of a table's own config run after it, read it where it is, and
\* are disabled with it; whatever its builder calls moved or disabled.
InlineAssertionsGuardTheirTable ==
    Clean => \A i \in DOMAIN graph : graph[i].inline =>
        \E j \in DOMAIN graph :
            /\ graph[j].file = graph[i].file /\ graph[j].kind \in Datasets
            /\ graph[j].target \in graph[i].deps
            /\ graph[i].texts = {ResolveTarget(settings, graph[j].target)}
            /\ graph[j].disabled => graph[i].disabled

\* An action that depends on a relation together with its assertions waits for
\* every assertion of that relation's own config, however it spelled the relation.
GatesWaitForInlineAssertions ==
    Clean => \A a \in DOMAIN graph : \A k \in DOMAIN actions[a].deps :
        LET ref    == actions[a].deps[k]
            guards == {g \in DOMAIN graph : graph[g].inline
                        /\ \E t \in FindActions(ref, actions, settings) :
                              TargetOf(actions[g].reads[1]) = actions[t].target}
        IN  ref.assertions = "yes" =>
              \A g \in guards : graph[g].target \in graph[a].deps

\* A selection holds what was asked for, with everything it needs if that was
\* asked, and nothing that is not connected to it.
SelectionIsWhatWasAsked ==
    phase = "pruned" /\ ~NoSelector(selection) =>
        LET Connected == [name \in AllNames |->
                (IF selection.includeDependencies THEN Dependencies[name] ELSE {})
                \cup (IF selection.includeDependents THEN Dependents[name] ELSE {})]
        IN  /\ Matched(selection) \subseteq selected
            /\ selected \subseteq Closure(Matched(selection), Connected)
            /\ selection.includeDependencies /\ ~selection.includeDependents =>
                  \A i \in {LastOf(name) : name \in selected} :
                      \A t \in graph[i].deps : \A j \in InGraph(t) :
                          j \in PrunableActions => Name(j) \in selected
            /\ selection.includeDependents =>
                  \A i \in PrunableActions :
                      {ReadableName(t) : t \in graph[i].deps} \cap selected # {}
                        => Name(i) \in selected

\* Every relation that a compiled statement names is one that the graph has, under
\* its name in the environment.
StatementsNameTargets ==
    Clean => \A i \in DOMAIN graph :
        graph[i].names \subseteq {ResolveTarget(settings, graph[j].target) : j \in DOMAIN graph}
=============================================================================
