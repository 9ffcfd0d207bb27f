------------------------------ MODULE InfoIndex ------------------------------
(***************************************************************************)
(* InfoService (crate info): everything the server knows across files.     *)
(* A file is indexed by clearing what it contributed and adding what it    *)
(* contributes now, under one write lock; every shared name is counted, so *)
(* that clearing a file drops exactly the names nobody else defines.       *)
(* What a file contributes is collected before the lock is taken, with the *)
(* ruleset the server had then; the ruleset may be replaced in between.    *)
(***************************************************************************)
EXTENDS TypeIndex, TLC

CONSTANTS
    BaseFiles,   \* the files of the base game
    Symbols,     \* raw spellings of variables, event targets and set values
    NoName,      \* what a variable without a base normalises to
    Normal,      \* spelling of a variable -> its canonical name, or NoName
    Texts,       \* texts a file may have
    Rulesets,    \* the rulesets that get loaded, each known by a version
    Content,     \* text -> ruleset -> what collecting finds
    EffectVars,  \* text -> ruleset -> variables defined by effects
    Uses,        \* text -> ruleset -> references found with the keys of a ruleset
    BaseGame,    \* the contributions the base game may have
    NoFile, NoKeys, Idle,
    Indexers,    \* tasks that index files
    MaxReloads   \* bound: how often the ruleset is replaced

Workspace == Files \ BaseFiles

ASSUME InfoIndexAssumption ==
    /\ BaseFiles \subseteq Files
    /\ IsFiniteSet(Symbols)
    /\ Normal \in [Symbols -> Symbols \cup {NoName}] /\ NoName \notin Symbols
    /\ \A text \in Texts : \A r \in Rulesets :
        /\ Content[text][r].instances \in [Types -> Seq(Names)]
        /\ Content[text][r].targets \subseteq Symbols /\ Content[text][r].scripts \subseteq Symbols
        /\ Uses[text][r] \in Seq([type : Types, name : Names])
        /\ Content[text][r].variables \in Seq([ns : STRING, name : Symbols])
        /\ EffectVars[text][r] \in Seq([ns : STRING, name : Symbols])
        /\ Content[text][r].values \in Seq(Symbols)
    /\ \A game \in BaseGame : game.instances \in [Types -> Seq([uri : BaseFiles, name : Names])]
    /\ NoFile \notin [text : Texts, rules : Rulesets, effects : Rulesets, keys : Rulesets]
    /\ NoKeys \notin Rulesets
    /\ Idle \notin [uri : Workspace, text : Texts, rules : Rulesets]
    /\ MaxReloads \in Nat

VARIABLES
    rules,     \* the ruleset guard: the version in force
    reloads,   \* how often it was replaced (bounded)
    info,      \* the InfoService value behind its lock
    base,      \* history: the base-game instances merged last
    baseUris,  \* vanilla_merged_uris
    job        \* per task: what it collected and has not installed yet

vars == <<rules, reloads, info, base, baseUris, job>>

-----------------------------------------------------------------------------
(* What a file contributes.  A FileInfo is known by what it was computed   *)
(* from: the text, the ruleset it was collected with, and the versions of  *)
(* the effects and of the reference keys the service held at that moment.  *)

Nothing == [instances |-> [t \in Types |-> <<>>], variables |-> <<>>,
            targets |-> {}, scripts |-> {}, values |-> <<>>, uses |-> <<>>]

ContributionOf(file) ==
    IF file = NoFile THEN Nothing
    ELSE LET found == Content[file.text][file.rules]
         IN [instances |-> found.instances,
             variables |-> found.variables \o EffectVars[file.text][file.effects],
             targets   |-> found.targets,
             scripts   |-> found.scripts,
             values    |-> found.values,
             uses      |-> Uses[file.text][file.keys]]

Occurrences(s, x) == Cardinality({i \in DOMAIN s : s[i] = x})
VariableNames(c) == [i \in DOMAIN c.variables |-> c.variables[i].name]

\* The variables by canonical name; @-constants have none.
CanonicalNames(c) ==
    [i \in DOMAIN c.variables |->
        IF c.variables[i].ns = "@" THEN NoName ELSE Normal[c.variables[i].name]]

\* Counting a definition once per occurrence, and taking it back.
Add(counts, s) == [x \in DOMAIN counts |-> counts[x] + Occurrences(s, x)]
Drop(counts, s) == [x \in DOMAIN counts |-> counts[x] - Occurrences(s, x)]
AddOnce(counts, names) == [x \in DOMAIN counts |-> counts[x] + IF x \in names THEN 1 ELSE 0]
DropOnce(counts, names) == [x \in DOMAIN counts |-> counts[x] - IF x \in names THEN 1 ELSE 0]

ZeroCounts == [x \in Symbols |-> 0]
ReferenceSites == [type : Types, uri : Files, name : Names]

EmptyInfo ==
    [files |-> [u \in Files |-> NoFile], types |-> EmptyIndex,
     variables |-> ZeroCounts, canonical |-> ZeroCounts, baseVariables |-> {},
     targets |-> ZeroCounts, scripts |-> ZeroCounts,
     values |-> ZeroCounts, valuesOf |-> [u \in Files |-> <<>>],
     refs |-> [t \in Types |-> <<>>], refTypes |-> [u \in Files |-> {}],
     effects |-> NoKeys, keys |-> NoKeys]

-----------------------------------------------------------------------------
(* The references, in buckets by the type they refer to.                   *)

MergeRefs(i, uri, uses) ==
    [i EXCEPT
        !.refs = [t \in Types |-> @[t] \o
            LET here == EntriesAt(uses, {k \in DOMAIN uses : uses[k].type = t})
            IN [k \in DOMAIN here |-> [uri |-> uri, name |-> here[k].name]]],
        !.refTypes[uri] = @ \cup {uses[k].type : k \in DOMAIN uses}]

\* Only the buckets the file is recorded under are looked at.
RemoveRefs(i, uri) ==
    [i EXCEPT
        !.refs = [t \in Types |->
            IF t \in i.refTypes[uri] THEN EntriesAt(@[t], PlacesOf(@[t], Files \ {uri})) ELSE @[t]],
        !.refTypes[uri] = {}]

\* Dynamic values replace what the same file contributed before.
RemoveValues(i, uri) ==
    [i EXCEPT !.values = Drop(@, i.valuesOf[uri]), !.valuesOf[uri] = <<>>]
MergeValues(i, uri, values) ==
    LET cleared == RemoveValues(i, uri)
    IN [cleared EXCEPT !.values = Add(@, values), !.valuesOf[uri] = values]

-----------------------------------------------------------------------------
(* InfoService                                                             *)

\* Forgetting a file: only a file that was indexed has anything to forget.
ClearFile(i, uri) ==
    LET c == ContributionOf(i.files[uri])
        untyped == [RemoveValues(i, uri) EXCEPT !.types = RemoveFile(@, uri)]
    IN IF i.files[uri] = NoFile THEN i
       ELSE [RemoveRefs(untyped, uri) EXCEPT
                !.files[uri] = NoFile,
                !.targets = DropOnce(@, c.targets),
                !.variables = Drop(@, VariableNames(c)),
                !.canonical = Drop(@, CanonicalNames(c)),
                !.scripts = DropOnce(@, c.scripts)]

\* Adding a file that is not in the index.  The keys that tell references
\* apart are computed once, from the ruleset this file was collected with.
IndexFile(i, uri, text, ruleset) ==
    LET keys == IF i.keys = NoKeys THEN ruleset ELSE i.keys
        file == [text |-> text, rules |-> ruleset, effects |-> i.effects, keys |-> keys]
        c == ContributionOf(file)
        valued == [MergeValues(i, uri, c.values) EXCEPT !.types = Merge(@, uri, c.instances)]
    IN [MergeRefs(valued, uri, c.uses) EXCEPT
            !.files[uri] = file,
            !.keys = keys,
            !.targets = AddOnce(@, c.targets),
            !.variables = Add(@, VariableNames(c)),
            !.canonical = Add(@, CanonicalNames(c)),
            !.scripts = AddOnce(@, c.scripts)]

\* A new ruleset brings new effects; the keys are to be computed afresh.
UpdateRulesetData(i, ruleset) == [i EXCEPT !.effects = ruleset, !.keys = NoKeys]

\* The symbols of a file that other files can see, by which the server tells
\* whether an edit can matter to them.
ExportsOf(file) ==
    LET c == ContributionOf(file)
    IN [instances |-> [t \in Types \ Subtypes |-> [n \in Names |-> Occurrences(c.instances[t], n)]],
        variables |-> [v \in {c.variables[k] : k \in DOMAIN c.variables} |-> Occurrences(c.variables, v)],
        targets   |-> c.targets]

-----------------------------------------------------------------------------
(* The server                                                              *)

Init ==
    /\ rules \in Rulesets /\ reloads = 0
    /\ info = UpdateRulesetData(EmptyInfo, rules)
    /\ base = [t \in Types |-> <<>>] /\ baseUris = {}
    /\ job = [p \in Indexers |-> Idle]

\* A validation, a scan or a watched change collects a file with the ruleset
\* it finds, holding no lock.
Collect(p, uri, text) ==
    /\ job[p] = Idle
    /\ job' = [job EXCEPT ![p] = [uri |-> uri, text |-> text, rules |-> rules]]
    /\ UNCHANGED <<rules, reloads, info, base, baseUris>>

\* Mutant of Install: the file is indexed on top of what it contributed.
Install_onTop(p) ==
    /\ job[p] # Idle
    /\ info' = IndexFile(info, job[p].uri, job[p].text, job[p].rules)
    /\ job' = [job EXCEPT ![p] = Idle]
    /\ UNCHANGED <<rules, reloads, base, baseUris>>

\* Under the write lock the file is cleared and indexed from what was collected.
Install(p) ==
    /\ job[p] # Idle
    /\ info' = IndexFile(ClearFile(info, job[p].uri), job[p].uri, job[p].text, job[p].rules)
    /\ job' = [job EXCEPT ![p] = Idle]
    /\ UNCHANGED <<rules, reloads, base, baseUris>>

\* A newer version of the document went first.
Overtaken(p) ==
    /\ job[p] # Idle
    /\ job' = [job EXCEPT ![p] = Idle]
    /\ UNCHANGED <<rules, reloads, info, base, baseUris>>

\* A file was deleted, or the prune of a scan did not find it.  A prune
\* clears its files one after the other under one guard; here each is a step.
Forget(uri) ==
    /\ info' = ClearFile(info, uri)
    /\ UNCHANGED <<rules, reloads, base, baseUris, job>>

\* set_ruleset: the ruleset and what the service derives from it are replaced
\* under the guard of the ruleset.
SetRuleset(ruleset) ==
    /\ reloads < MaxReloads
    /\ rules' = ruleset /\ reloads' = reloads + 1
    /\ info' = UpdateRulesetData(info, ruleset)
    /\ UNCHANGED <<base, baseUris, job>>

\* The base game was indexed, or loaded from its cache: the share merged
\* before is dropped in one pass, and the new one is added.
MergeVanilla(game) ==
    /\ info' = [info EXCEPT !.types = MergeBaseGame(RemoveFiles(@, baseUris), game.instances)]
    /\ base' = game.instances
    /\ baseUris' = UNION {{e.uri : e \in ToSet(game.instances[t])} : t \in Types}
    /\ UNCHANGED <<rules, reloads, job>>

\* The variables of the base game replace those installed before.
SetVanillaNames(game) ==
    /\ info' = [info EXCEPT !.baseVariables = {Normal[v] : v \in game.variables} \ {NoName}]
    /\ UNCHANGED <<rules, reloads, base, baseUris, job>>

\* Purging the caches drops the names; the instances wait for the next merge.
ClearVanillaState ==
    /\ info' = [info EXCEPT !.baseVariables = {}]
    /\ UNCHANGED <<rules, reloads, base, baseUris, job>>

Next ==
    \/ \E p \in Indexers : Install(p) \/ Overtaken(p)
    \/ \E p \in Indexers, uri \in Workspace, text \in Texts : Collect(p, uri, text)
    \/ \E uri \in Workspace : Forget(uri)
    \/ \E ruleset \in Rulesets : SetRuleset(ruleset)
    \/ \E game \in BaseGame : MergeVanilla(game) \/ SetVanillaNames(game)
    \/ ClearVanillaState

Spec == Init /\ [][Next]_vars

-----------------------------------------------------------------------------
(* Properties                                                              *)

\* Every count is a number and every file record one the code could have made.
TypeOK ==
    /\ rules \in Rulesets /\ reloads \in 0..MaxReloads
    /\ info.files \in [Files -> {NoFile} \cup
            [text : Texts, rules : Rulesets, effects : Rulesets, keys : Rulesets]]
    /\ info.variables \in [Symbols -> Nat] /\ info.canonical \in [Symbols -> Nat]
    /\ info.targets \in [Symbols -> Nat] /\ info.scripts \in [Symbols -> Nat]
    /\ info.values \in [Symbols -> Nat]
    /\ info.valuesOf \in [Files -> Seq(Symbols)]
    /\ info.effects \in Rulesets /\ info.keys \in Rulesets \cup {NoKeys}
    /\ baseUris \subseteq BaseFiles
    /\ job \in [Indexers -> {Idle} \cup [uri : Workspace, text : Texts, rules : Rulesets]]

\* The reverse map of TypeIndex (file_positions) is the inverse of its
\* vectors: after any order of swap_removes and bulk removals, the positions
\* recorded for a file are exactly those where its instances stand, each once.
PositionsFaithful ==
    \A u \in Files, t \in Types :
        LET recorded == info.types.positions[u][t]
        IN /\ IsInjective(recorded)
           /\ {recorded[k] : k \in DOMAIN recorded}
                = {i \in DOMAIN info.types.map[t] : info.types.map[t][i].uri = u}

\* What each file defines, by kind,
VariablesIn(i) == [u \in Files |-> VariableNames(ContributionOf(i.files[u]))]
CanonicalIn(i) == [u \in Files |-> CanonicalNames(ContributionOf(i.files[u]))]
ValuesIn(i) == [u \in Files |-> ContributionOf(i.files[u]).values]
TargetsIn(i) == [u \in Files |-> ContributionOf(i.files[u]).targets]
ScriptsIn(i) == [u \in Files |-> ContributionOf(i.files[u]).scripts]

\* and the places, or the files, where any of them defines x.
Places(defined, x) ==
    UNION {{u} \X {k \in DOMAIN defined[u] : defined[u][k] = x} : u \in Files}
Holders(defined, x) == {u \in Files : x \in defined[u]}

CountsExactIn(i) == \A x \in Symbols :
    /\ i.targets[x] = Cardinality(Holders(TargetsIn(i), x))
    /\ i.scripts[x] = Cardinality(Holders(ScriptsIn(i), x))
    /\ i.variables[x] = Cardinality(Places(VariablesIn(i), x))
    /\ i.canonical[x] = Cardinality(Places(CanonicalIn(i), x))
    /\ i.values[x] = Cardinality(Places(ValuesIn(i), x))

\* Every reference count of InfoService is the number of definitions there
\* are: clear_file takes back exactly what index_file added, whatever ruleset
\* was loaded in between, and a name goes with the last file that defines it.
CountsExact == CountsExactIn(info)

\* What the index answers to the validators and the editor.
AnswersOf ==
    [known      |-> [t \in Types |-> {n \in Names : HasInstance(info.types, t, n) /\ Lower[n] = n}],
     duplicated |-> [t \in Types |-> {n \in Names :
                        WorkspaceDefinitionCount(info.types, t, n) > 1 /\ Lower[n] = n}],
     anyType    |-> {n \in Names : IsAnyInstance(info.types, n) /\ Lower[n] = n},
     variables  |-> {x \in Symbols : info.canonical[x] > 0} \cup info.baseVariables,
     offered    |-> {x \in Symbols : info.variables[x] > 0},
     targets    |-> {x \in Symbols : info.targets[x] > 0},
     values     |-> {x \in Symbols : info.values[x] > 0},
     uses       |-> [u \in Files |-> UNION {{<<t, info.refs[t][i].name>> :
                        i \in {j \in DOMAIN info.refs[t] : info.refs[t][j].uri = u}} : t \in Types}],
     outline    |-> [u \in Files |-> [t \in Types \ Subtypes |-> [n \in Names |->
                        Occurrences(InstancesInFile(info.types, u)[t], n)]]]]

\* The index answers every question as a table of what each file contributes
\* now would: no order of indexing, forgetting, reloading and re-merging the
\* base game leaves a stale definition behind or drops one still made.
Table == INSTANCE DefinitionTable WITH
    mods <- [u \in Files |-> ContributionOf(info.files[u])],
    baseNames <- info.baseVariables,
    answers <- AnswersOf
AnswersFollowContents == Table!Spec

\* An export fingerprint that does not move means that no other file can see
\* a difference (export_fingerprint's promise, on which the sweep of the
\* dependents is skipped).  Outlines and uses are not asked of another file.
VisibleToOthers == [AnswersOf EXCEPT !.outline = <<>>, !.uses = <<>>, !.offered = {}]
FingerprintCoversAnswers ==
    [][\A p \in Indexers :
        Install(p) /\ ExportsOf(info'.files[job[p].uri]) = ExportsOf(info.files[job[p].uri])
            => VisibleToOthers' = VisibleToOthers]_vars

\* A file collected with the ruleset in force has its references told apart
\* by that ruleset too.
UsesFollowRules ==
    \A u \in Workspace :
        info.files[u] # NoFile /\ info.files[u].rules = rules => info.files[u].keys = rules
=============================================================================
