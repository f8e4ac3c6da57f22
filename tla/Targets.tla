------------------------------- MODULE Targets -------------------------------
(***************************************************************************)
(* How the compiler names things: targets, references to them, the         *)
(* lookups by name, and the names an environment's prefix and suffixes     *)
(* make of them (core/utils.ts, core/targets.ts, core/actions/base.ts).    *)
(*                                                                         *)
(* A name is a sequence of Words; the empty sequence is an absent part.    *)
(* A reference is a target, with what it says of the assertions of what it *)
(* refers to.                                                              *)
(***************************************************************************)
EXTENDS Naturals, Sequences, FiniteSets, SequencesExt

CONSTANT Words  \* of names, files, tags and messages

Unset == << >>
Target(database, schema, name) == [database |-> database, schema |-> schema, name |-> name]
Bare(name) == Target(Unset, Unset, name)

EveryName   == Seq(Words)
EveryTarget == [database : EveryName, schema : EveryName, name : EveryName]
EveryRef    == [database : EveryName, schema : EveryName, name : EveryName,
                assertions : {"unset", "yes", "no"}]

\* The target of a reference; a reference to a target.
TargetOf(ref) == Target(ref.database, ref.schema, ref.name)
Ref(target, assertions) == [database |-> target.database, schema |-> target.schema,
                            name |-> target.name, assertions |-> assertions]

\* x, unless it is absent.
OrElse(x, default) == IF x = Unset THEN default ELSE x

-----------------------------------------------------------------------------
(* Spellings.                                                              *)

\* Only a config message says something of the assertions when it was not asked
\* to: a field that was never set reads FALSE.
ResolvableAsTarget(ref, isConfigMessage) ==
    IF isConfigMessage /\ ref.assertions = "unset" THEN [ref EXCEPT !.assertions = "no"] ELSE ref

-----------------------------------------------------------------------------
(* Names in the environment that the settings c describe.                  *)

\* The parts a target leaves out come from the settings.
ApplySessionToTarget(target, c, defaultSchema) ==
    Target(OrElse(target.database, c.database), OrElse(target.schema, defaultSchema), target.name)

AssertionSchema(c) == OrElse(c.assertionSchema, c.schema)

InvalidTarget(target) ==
    \E part \in {target.database, target.schema, target.name} : "." \in Range(part)

FinalizeName(c, name)         == c.prefix \o name
FinalizeSchema(c, schema)     == schema \o c.schemaSuffix
FinalizeDatabase(c, database) == IF database = Unset THEN Unset ELSE database \o c.databaseSuffix

\* Of an action's target, everywhere an action is renamed or read.
FinalTarget(c, target) ==
    Target(FinalizeDatabase(c, target.database), FinalizeSchema(c, target.schema),
           FinalizeName(c, target.name))

\* ActionBuilder's own: an absent schema stays absent.
FinalizeTarget(c, target) ==
    [FinalTarget(c, target) EXCEPT
        !.schema = IF target.schema = Unset THEN Unset ELSE FinalizeSchema(c, target.schema)]

\* The relation that SQL text names: the settings' own database and schema,
\* without a suffix, for the parts left out.
ResolveTarget(c, target) ==
    Target(OrElse(target.database, c.database), OrElse(target.schema, c.schema), target.name)

\* What a selection or a map of names knows a target by.
ReadableName(target) ==
    (IF target.database = Unset THEN << >> ELSE target.database \o <<".">>)
        \o target.schema \o <<".">> \o target.name

-----------------------------------------------------------------------------
(* Lookup.                                                                 *)

\* ResolvableMap.find(): the entries, a sequence of [key, value], whose key agrees
\* with every part the reference gives.
Denotes(ref, key) ==
    /\ ref.name = key.name
    /\ ref.schema # Unset => ref.schema = key.schema
    /\ ref.database # Unset => ref.database = key.database

Find(map, ref) == {map[i].value : i \in {j \in DOMAIN map : Denotes(ref, map[j].key)}}
=============================================================================
