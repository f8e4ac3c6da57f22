---------------------------- MODULE ProjectFiles -----------------------------
(***************************************************************************)
(* The files a compilation sees: what copyProjectForStatelessInstall()     *)
(* takes into the temporary copy (cli/api/commands/compile_copy_filter.ts),*)
(* what the compiler lists and loads (cli/vm/compile.ts,                   *)
(* common/vm/module_resolver.ts), and the note about a module that was     *)
(* left out of the copy.                                                   *)
(*                                                                         *)
(* A path is a sequence of names: from the project root, or, where it      *)
(* starts with "/", from the root of the file system and outside the       *)
(* project.  A tree is                                                     *)
(*   kind      a function from the paths of its entries to "file", "dir"   *)
(*             or "link";                                                  *)
(*   to        the names a link's text goes through, ".." and a leading    *)
(*             "/" included;                                               *)
(*   at        where in the file system the project is;                    *)
(*   around    the directories outside it;                                 *)
(*   requires  the modules each file loads;                                *)
(*   ignore    the patterns of .gitignore, then of .sqlanvilignore, each   *)
(*             the set of paths it matches, and whether it negates.        *)
(* Links outside the project are replaced by what they lead to.  Files     *)
(* outside are left out: module_resolver.ts:178 refuses them.              *)
(***************************************************************************)
EXTENDS Integers, Sequences, FiniteSets

CONSTANTS MaxSymlinkHops,
          CopyDirectory     \* the temporary directory of the copy

Path         == Seq(STRING)
Root         == <<"/">>
IsOutside(p) == p # << >> /\ p[1] = "/"

ASSUME MaxSymlinkHopsAssumption == MaxSymlinkHops \in Nat \ {0}
ASSUME CopyDirectoryAssumption ==
    CopyDirectory \in Path \ {Root} /\ IsOutside(CopyDirectory)

Entries(t)   == DOMAIN t.kind
All(t)       == Entries(t) \cup {<< >>}
IsLink(t, p) == p \in Entries(t) /\ t.kind[p] = "link"
IsDir(t, p)  == p = << >> \/ (p \in Entries(t) /\ t.kind[p] = "dir")
Links(t)     == {p \in Entries(t) : IsLink(t, p)}
IsFile(t, p) == p \in Entries(t) /\ t.kind[p] = "file"

Parent(p)      == SubSeq(p, 1, Len(p) - 1)
Prefixes(p)    == {SubSeq(p, 1, i) : i \in 1 .. Len(p)}
Names(p)       == {p[i] : i \in 1 .. Len(p)}
Children(t, d) == {p \in Entries(t) : Len(p) = Len(d) + 1 /\ Parent(p) = d}
Nowhere        == <<"nowhere">>

Pattern == [matches : SUBSET Path, negated : BOOLEAN]

\* What is in a directory is in a tree only with the directory; no entry is
\* called Nowhere, and no link names the copy, whose name is drawn at random
\* (cli/api/commands/compile.ts:59).
IsTree(t) ==
    /\ {"kind", "to", "at", "around", "requires", "ignore"} \subseteq DOMAIN t
    /\ IsFiniteSet(Entries(t))
    /\ Entries(t) \subseteq Path \ {<< >>, Nowhere}
    /\ \A p \in Entries(t) : ~IsOutside(p) /\ IsDir(t, Parent(p))
    /\ \A p \in Links(t) : t.to[p] \in Path /\ CopyDirectory[Len(CopyDirectory)] \notin Names(t.to[p])
    /\ t.at \in Path \ {Root} /\ IsOutside(t.at)
    /\ t.around \subseteq Path /\ \A p \in t.around : IsOutside(p)
    /\ Prefixes(t.at) \ {t.at} \subseteq t.around
    /\ t.ignore \in Seq(Pattern)

-----------------------------------------------------------------------------
(* Links.                                                                  *)

\* Where names lead, and every entry and every place outside passed on the
\* way; Nowhere when they dangle or loop.
Dangling == [at |-> Nowhere, through |-> {}]

\* The directory above, and what has a name in a directory.
Up(t, p) == IF p = << >> THEN Parent(t.at) ELSE IF p = Root THEN Root ELSE Parent(p)
Down(t, p, name) == IF Append(p, name) = t.at THEN << >> ELSE Append(p, name)

Above(t, here, name) == IF name = "/" THEN Root ELSE Up(t, here.at)

\* Where an entry leads; led says where the links lead.
End(t, led, next) ==
    IF IsLink(t, next) THEN led[next]
    ELSE IF next \in All(t) \cup t.around THEN [at |-> next, through |-> {}]
    ELSE Dangling

\* One name further, as the operating system goes.
Further(t, led, here, name) ==
    IF here.at = Nowhere THEN here
    ELSE IF name \in {"/", ".."} THEN
        LET above == Above(t, here, name)
        IN [at |-> above, through |-> here.through \cup {p \in {above} : IsOutside(p)}]
    ELSE LET next == Down(t, here.at, name)
             end  == End(t, led, next)
         IN [at |-> end.at, through |-> here.through \cup {next} \cup end.through]

\* All the names, from a directory.
Walk(t, led, from, names) ==
    LET walk[i \in 0 .. Len(names)] ==
            IF i = 0 THEN [at |-> from, through |-> {}]
            ELSE Further(t, led, walk[i - 1], names[i])
    IN walk[Len(names)]

\* Where each link leads in so many hops.
Resolved(t) ==
    LET resolved[hops \in 0 .. MaxSymlinkHops] ==
            [link \in Links(t) |->
                IF hops = 0 THEN Dangling
                ELSE Walk(t, resolved[hops - 1], Parent(link), t.to[link])]
    IN resolved[MaxSymlinkHops]

ResolveSymlink(t, link) == Resolved(t)[link]

\* The links that do not leave the project on the way to where they lead.
Strays(place)  == \E p \in place.through : IsOutside(p)
LinksInside(t) == {link \in Links(t) : ~Strays(ResolveSymlink(t, link))}

\* What a path names once every link in it is followed.
RealPath(t, p) == Walk(t, Resolved(t), << >>, p).at

-----------------------------------------------------------------------------
(* The copy.                                                               *)

AlwaysIgnoredNames        == {".git", "node_modules"}
CompilationInputRootNames == {"definitions", "includes", "workflow_settings.yaml", ".npmrc"}

IsUnderCompilationInputRoot(p) ==
    /\ p # << >>
    /\ p[1] \in CompilationInputRootNames
    /\ ".git" \notin Names(Tail(p))

\* One step of the visit: into a directory, or to where one of the links
\* leads, if that is inside.
Visits(t, links, p) ==
    IF p \in links THEN {ResolveSymlink(t, p).at} \cap All(t)
    ELSE IF IsDir(t, p) THEN {c \in Children(t, p) : c[Len(c)] # ".git"}
    ELSE {}

Onward(t, links, before) == before \cup UNION {Visits(t, links, p) : p \in before}

\* Everything so reached from the given entries.
ReachedFrom(t, links, roots) ==
    LET reach[n \in 0 .. Cardinality(Entries(t)) + 1] ==
            IF n = 0 THEN roots ELSE Onward(t, links, reach[n - 1])
    IN reach[Cardinality(Entries(t)) + 1]

InputRoots(t) == {p \in Children(t, << >>) : p[1] \in CompilationInputRootNames}

CollectLinkTargets(t) ==
    LET visited == ReachedFrom(t, Links(t), InputRoots(t))
    IN UNION {Prefixes(p) : p \in {q \in visited : ~IsUnderCompilationInputRoot(q)}}

\* Required beyond the input roots: what links in them lead to and pass
\* through in the project, and the directories on the way.
CollectCompilationInputs(t) ==
    LET visited == ReachedFrom(t, Links(t), InputRoots(t))
        passed  == UNION {ResolveSymlink(t, p).through : p \in visited \cap Links(t)}
    IN UNION {Prefixes(p) : p \in {q \in passed : ~IsOutside(q)}
                                  \cup {q \in visited : ~IsUnderCompilationInputRoot(q)}}

\* The ignore library: the last pattern that matches decides, and nothing is
\* re-included below a directory that is ignored.
Ignores(t, p) ==
    \E q \in Prefixes(p) :
        \E i \in 1 .. Len(t.ignore) :
            /\ q \in t.ignore[i].matches /\ ~t.ignore[i].negated
            /\ \A j \in i + 1 .. Len(t.ignore) : q \notin t.ignore[j].matches

ProjectCopyFilter(t, inputs, p) ==
    \/ IsUnderCompilationInputRoot(p)
    \/ p \in inputs
    \/ Names(p) \cap AlwaysIgnoredNames = {} /\ ~Ignores(t, p)

\* The copy never descends into what the filter leaves out; links are copied
\* as links, and the project is now outside.
CopyProject(t) ==
    LET inputs == CollectCompilationInputs(t)
        copied == {p \in Entries(t) : \A q \in Prefixes(p) : ProjectCopyFilter(t, inputs, q)}
        beside == {t.at \o p : p \in {d \in All(t) : IsDir(t, d)}}
    IN [t EXCEPT !.kind   = [p \in copied |-> t.kind[p]],
                 !.at     = CopyDirectory,
                 !.around = @ \cup beside \cup (Prefixes(CopyDirectory) \ {CopyDirectory})]

-----------------------------------------------------------------------------
(* Compilation.                                                            *)

\* The files that createCoreExecutionRequest()'s glob finds in the directories
\* core compiles from.
CoreRoots(t) == Children(t, << >>) \cap {<<"definitions">>, <<"includes">>}
Listed(t)    == {p \in ReachedFrom(t, Links(t), CoreRoots(t)) : IsFile(t, p)}

Extensions == <<".js", ".json">>
WithExtension(p, ext) == Append(Parent(p), p[Len(p)] \o ext)

\* The first of the paths that is found, else Nowhere.
FirstOf(paths) ==
    LET found == {i \in 1 .. Len(paths) : paths[i] # Nowhere}
    IN IF found = {} THEN Nowhere ELSE paths[CHOOSE i \in found : \A j \in found : i <= j]

FirstFile(t, candidates) ==
    FirstOf([i \in 1 .. Len(candidates) |->
                IF IsFile(t, RealPath(t, candidates[i])) THEN candidates[i] ELSE Nowhere])

TryFile(t, p) ==
    FirstFile(t, <<p>> \o [i \in 1 .. Len(Extensions) |-> WithExtension(p, Extensions[i])])

TryDirectory(t, p) ==
    IF ~IsDir(t, RealPath(t, p)) THEN Nowhere
    ELSE FirstFile(t, [i \in 1 .. Len(Extensions) |-> Append(p, "index" \o Extensions[i])])

TryResolvePath(t, p) == FirstOf(<<TryFile(t, p), TryDirectory(t, p)>>)

\* The node_modules directories above a directory, the nearest first.
NodeModulePaths(d) == [i \in 1 .. Len(d) + 1 |-> SubSeq(d, 1, Len(d) + 1 - i) \o <<"node_modules">>]

FindInNodeModules(t, name, d) ==
    FirstOf([i \in 1 .. Len(d) + 1 |-> TryResolvePath(t, NodeModulePaths(d)[i] \o name)])

\* A module is a name, relative to the file that loads it or bare.
Resolve(t, module, from) ==
    IF module.relative THEN TryResolvePath(t, Parent(from) \o module.name)
    ELSE FirstOf(<<FindInNodeModules(t, module.name, Parent(from)),
                   TryResolvePath(t, module.name)>>)

\* The files that the listed ones load, one after the other.
Loaded(t) ==
    LET load[n \in Nat] ==
            IF n = 0 THEN Listed(t)
            ELSE LET before == load[n - 1]
                     found  == UNION {{Resolve(t, m, f) : m \in t.requires[f]} : f \in before}
                 IN before \cup {RealPath(t, p) : p \in found \ {Nowhere}}
    IN load[Cardinality(Entries(t))]

\* The modules whose absence the compiled graph reports.
CannotFind(t) ==
    UNION {{m \in t.requires[f] : Resolve(t, m, f) = Nowhere} : f \in Loaded(t)}

ExplainMissing(t, copy, module) ==
    {p \in Prefixes(module.name) :
        /\ ~module.relative
        /\ p \notin Entries(copy)
        /\ \A q \in Prefixes(p) \ {p} : q \in Entries(copy) /\ ~IsLink(copy, q)}

ExplainAll(t, copy, module) ==
    {p \in Prefixes(module.name) :
        /\ ~module.relative
        /\ p \notin Entries(copy)
        /\ p \in Entries(t)
        /\ p[Len(p)] \notin AlwaysIgnoredNames}

\* The path a note about a missing module names, if there is one: the first
\* that the copy lacks, unless it is behind a link, or lacking in the project,
\* or left out by the names no ignore file overrides.
ExplainExcludedModule(t, copy, module) ==
    {p \in Prefixes(module.name) :
        /\ ~module.relative
        /\ p \notin Entries(copy)
        /\ \A q \in Prefixes(p) \ {p} : q \in Entries(copy) /\ ~IsLink(copy, q)
        /\ p \in Entries(t)
        /\ p[Len(p)] \notin AlwaysIgnoredNames}
=============================================================================
