------------------------------ MODULE MCWorkers ------------------------------
(* Workers over projects with links, ignore files and missing modules, over *)
(* every type of JiT action, and over scripts.                              *)
EXTENDS Workers, TLC

Bare(name)   == [relative |-> FALSE, name |-> name]
Beside(name) == [relative |-> TRUE, name |-> name]
Ignoring(paths)   == [matches |-> paths, negated |-> FALSE]
Including(paths)  == [matches |-> paths, negated |-> TRUE]

Tree(dirs, files, to, requires, ignore) ==
    [kind     |-> [p \in dirs |-> "dir"] @@ [p \in files |-> "file"] @@
                  [p \in DOMAIN to |-> "link"],
     to       |-> to,
     at       |-> <<"/", "home", "proj">>,
     around   |-> {<<"/">>, <<"/", "home">>, <<"/", "tmp">>},
     requires |-> requires @@ [p \in files |-> {}],
     ignore   |-> ignore]

Definitions == <<"definitions">>
Lib         == <<"lib">>
A           == <<"definitions", "a.js">>
Helper      == <<"lib", "helper.js">>
NoLinks     == << >>

\* A definition that requires lib/helper, and lib ignored, re-included, or
\* only the file ignored.
WithLib(ignore) ==
    Tree({Definitions, Lib}, {A, Helper}, NoLinks,
         A :> {Bare(<<"lib", "helper">>), Bare(<<"lib", "helper.js">>), Beside(<<"b">>)}, ignore)

\* definitions/l leads over a link at the root to an ignored directory, which
\* has a link to a file in another ignored one.
Linked ==
    Tree({Definitions, <<"out">>, <<"more">>},
         {A, <<"out", "x.sqlx">>, <<"more", "y.sqlx">>},
         (<<"definitions", "l">> :> <<"..", "hop">>) @@ (<<"hop">> :> <<"out">>) @@
         (<<"out", "m">> :> <<"..", "more", "y.sqlx">>),
         A :> {Bare(<<"more", "y.sqlx">>), Bare(<<"definitions", "l", "z">>)},
         <<Ignoring({<<"out">>, <<"more">>, <<"hop">>})>>)

\* Links to nowhere, to themselves and to where they are; git's own files.
Tangled ==
    Tree({Definitions, <<"definitions", ".git">>, <<".git">>}, {A, <<"definitions", ".git", "f">>},
         (<<"definitions", "l">> :> <<"l">>) @@ (<<"definitions", "d">> :> <<"none">>) @@
         (<<"definitions", "up">> :> <<"..", "definitions">>) @@
         (<<"includes">> :> <<"definitions">>),
         A :> {Bare(<<"none">>), Bare(<<".git", "f">>)}, << >>)

\* A link into a nested node_modules, and a module beside what it leads to.
Nested ==
    Tree({Definitions, Lib, <<"lib", "node_modules">>, <<"lib", "node_modules", "p">>},
         {A, <<"lib", "node_modules", "p", "index.js">>, <<"lib", "node_modules", "q.js">>},
         <<"definitions", "p">> :> <<"..", "lib", "node_modules", "p">>,
         A :> {Bare(<<"lib", "node_modules", "q.js">>), Beside(<<"p">>)}, << >>)

\* A link to a file in an ignored directory, and a module beside that file.
Beneath ==
    Tree({Definitions, Lib}, {A, Helper, <<"lib", "x.sqlx">>},
         <<"definitions", "x">> :> <<"..", "lib", "x.sqlx">>,
         A :> {Bare(<<"lib", "helper.js">>)}, <<Ignoring({Lib})>>)

\* Links that leave the project and come back, or do not: by its name, from
\* the root, through a link at its root, and past a directory beside it.
Straying ==
    Tree({Definitions, Lib, <<"more">>}, {A, <<"lib", "x.sqlx">>, <<"more", "y.sqlx">>},
         (<<"definitions", "l">> :> <<"..", "..", "proj", "lib">>) @@
         (<<"definitions", "m">> :> <<"..", "hop">>) @@
         (<<"hop">> :> <<"/", "home", "proj", "more", "y.sqlx">>) @@
         (<<"definitions", "o">> :> <<"..", "..", "..", "..", "tmp">>),
         A :> {Bare(<<"definitions", "l", "x.sqlx">>), Bare(<<"hop">>)}, <<Ignoring({Lib})>>)

\* The same file behind a link that strays and one that does not.
Twofold ==
    Tree({Definitions, Lib}, {A, <<"lib", "x.sqlx">>},
         (<<"definitions", "l">> :> <<"/", "tmp", "..", "home", "proj", "lib">>) @@
         (<<"includes">> :> <<"lib">>),
         A :> {Beside(<<"l", "x.sqlx">>), Beside(<<"..", "..", "proj", "lib", "x.sqlx">>)},
         <<Ignoring({Lib})>>)

Trees ==
    {Straying, Twofold, Beneath, WithLib(<< >>), WithLib(<<Ignoring({Lib})>>), WithLib(<<Ignoring({Helper})>>),
     WithLib(<<Ignoring({Lib}), Including({Lib})>>),
     WithLib(<<Ignoring({Lib, Helper}), Including({Helper})>>), Linked, Tangled, Nested}

Core(bundle, major) == [bundle |-> bundle, major |-> major]
CompileJob(pinned, npm, tree, core) ==
    [kind |-> "compile", pinned |-> pinned, npm |-> npm, tree |-> tree, core |-> core]

AllJobs ==
    {CompileJob(TRUE, {}, tree, Core(TRUE, 1)) : tree \in Trees}
    \cup {CompileJob(pinned, npm, Linked, core) :
            pinned \in BOOLEAN, npm \in {{}, {"package.json"}, {"node_modules"}},
            core \in {Core(TRUE, 1), Core(TRUE, 2), Core(FALSE, 0)}}
    \cup {[kind |-> "jit", type |-> type, core |-> core] :
            type \in JitTypes, core \in {Core(TRUE, 1), Core(FALSE, 0)}}
    \cup {[kind |-> "script", runnable |-> runnable] : runnable \in BOOLEAN}

TemporaryDirectory == <<"/", "tmp", "tmp-1">>
CliOne == [major |-> 1, minor |-> 0, patch |-> 0]
=============================================================================
