------------------------------ MODULE BaseGame ------------------------------
(***************************************************************************)
(* The base game a mod is checked against (vanilla_cache.rs, driver,        *)
(* scan/vanilla.rs): its folder is walked once for every pair of a version  *)
(* and a shape of the rules, and what the walk found is kept in a cache     *)
(* file that the command line and the editor share.  The game is updated    *)
(* and the rules change between the runs and while they work.               *)
(*                                                                         *)
(* A folder is [raw, version, seconds, name, scripts, mods, folders, defs,  *)
(* sets, members, tags, scripted, paths, loc]: what it says of itself, the  *)
(* folders in it and what the files in them define.  The hash of the rules  *)
(* is taken to be injective, and a file name keeps it as it is.             *)
(***************************************************************************)
EXTENDS Naturals, Sequences, FiniteSets, SequencesExt

CONSTANTS
    Files, Types, Subtypes, Names, Lower,   \* see TypeIndex; "own" and "<vanilla>" are files
    LocsScoped(_, _), LocsMerged(_, _, _), KeysMerged(_, _, _), KeysPerLang(_), ReadLoc(_, _),
                     \* BuildScoped, MergeFrom, MergeCachedKeys, PerLang of Localisation; reading its files
    Installs,        \* version -> the folder of the base game
    Rulesets,        \* name -> the rules
    Workspace,       \* the folder of the mod
    FoldSegment(_),  \* a segment of a path in lower case
    PlainChars,      \* characters a file name keeps
    KnownFolders,    \* names of folders that hold scripts themselves
    DefaultFolders,  \* the folders searched without rules
    Configs,         \* the command lines: [mode, base, langs, exact]
    Optional,        \* paths of files of the mod that come and go
    MaxUpdates, MaxStarts   \* bounds: changes of the game, the rules or the mod; runs and requests

VARIABLES
    install,  \* the version in the folder of the base game
    ruleset,  \* the rules on disk
    here,     \* paths of the mod's files
    disk,     \* cache files by name
    batch,    \* the run of the command line
    editor,   \* what the editor holds of the base game
    updates, starts, crossed

Index == INSTANCE TypeIndex
baseVars == <<install, ruleset, here, disk, batch, editor, updates, starts, crossed>>

-----------------------------------------------------------------------------
(* Paths of files (type_index.rs: FileIndex).                              *)

\* A map with an entry added or replaced.
Put(map, key, value) == [k \in DOMAIN map \cup {key} |-> IF k = key THEN value ELSE map[k]]

Fold(path) == [i \in DOMAIN path |-> FoldSegment(path[i])]
NoFiles(exact) == [files |-> {}, spelled |-> <<>>, exact |-> exact]
InsertPath(idx, path) ==
    [idx EXCEPT !.files = @ \cup {Fold(path)}, !.spelled = IF idx.exact THEN Put(@, Fold(path), path) ELSE @]
RemovePath(idx, path) ==
    [idx EXCEPT !.files = @ \ {Fold(path)},
                !.spelled = [p \in DOMAIN @ \ (IF idx.exact THEN {Fold(path)} ELSE {}) |-> @[p]]]
\* Of new paths that differ in case only, one gives the spelling.
AddPaths(idx, paths) ==
    LET folded == {Fold(p) : p \in paths}
    IN [idx EXCEPT !.files = @ \cup folded,
                   !.spelled = IF ~idx.exact THEN @
                               ELSE [f \in DOMAIN @ \cup folded |->
                                        IF f \in folded THEN CHOOSE p \in paths : Fold(p) = f ELSE idx.spelled[f]]]
AddRoot(idx, dir) == AddPaths(idx, dir.paths)
\* A reference may have doubled separators.
NormalPath(reference) == SelectSeq(reference, LAMBDA segment : segment # "")
HasFile(idx, reference) ==
    LET path == NormalPath(reference) IN
    IF idx.exact /\ Fold(path) \in DOMAIN idx.spelled THEN idx.spelled[Fold(path)] = path ELSE Fold(path) \in idx.files
OnDiskCase(idx, reference) ==
    LET path == NormalPath(reference) IN
    {idx.spelled[p] : p \in {p \in DOMAIN idx.spelled : p = Fold(path) /\ idx.spelled[p] # path}}
\* The mod's files and the base game's as one set; on one path the base game's spelling wins.
BuildFileIndex(own, base, exact) == AddPaths(AddPaths(NoFiles(exact), own), base)

-----------------------------------------------------------------------------
(* Walking a folder (driver: search_config_for, index_game_dir).           *)

SearchConfigFor(dir) == IF dir.name \in KnownFolders \/ dir.scripts THEN {"."} ELSE DefaultFolders
\* Folders the rules list replace the default, if one of them exists.
ApplyConfigFolders(dir, folders) ==
    IF folders \cap dir.folders # {} THEN folders ELSE SearchConfigFor(dir)
WorkspaceDiscoveryConfig(dir, folders) ==
    IF dir.mods /\ folders # {} THEN folders ELSE ApplyConfigFolders(dir, folders)

HasKey(type, def, key) ==
    /\ def.folder \in type.paths /\ (type.file = "" \/ type.file = def.file)
    /\ key = type.name \/ \E sub \in type.subs \cap def.subs : key = type.name \o "." \o sub
IndexFolder(dir, include, rules) ==
    LET read(x) == include = {"."} \/ x.folder \in include
        of(key) == Index!EntriesAt(dir.defs, {i \in DOMAIN dir.defs :
                       read(dir.defs[i]) /\ \E t \in rules.types : HasKey(t, dir.defs[i], key)})
        named(found, kinds) == {<<x.kind, x.name>> : x \in {x \in found : read(x) /\ x.kind \in kinds}}
    IN [instances |-> [key \in Types |-> [i \in DOMAIN of(key) |-> [uri |-> of(key)[i].file, name |-> of(key)[i].name]]],
        vars |-> {v[2] : v \in named(dir.sets, rules.effects)}, members |-> named(dir.members, rules.valueSets),
        tags |-> named(dir.tags, rules.enums), scripted |-> {x.name : x \in {x \in dir.scripted : read(x)}}]
IndexGameDir(dir, rules) == IndexFolder(dir, ApplyConfigFolders(dir, rules.folders), rules)

-----------------------------------------------------------------------------
(* Cache files (vanilla_cache.rs).                                         *)

\* What the launcher says comes first, then the time of the folder.
Fingerprint(dir) ==
    CASE dir.raw # <<>> -> <<"v">> \o dir.raw
      [] dir.raw = <<>> /\ dir.version # <<>> -> <<"ver-">> \o dir.version
      [] OTHER -> <<"mtime-", dir.seconds>>
\* What of the rules the cache depends on, according to its writer.
RulesetShapeHash(rules) ==
    [types |-> {[name |-> t.name, nameField |-> t.nameField, paths |-> t.paths, skip |-> t.skip, startsWith |-> t.startsWith,
                 perFile |-> t.perFile, prefix |-> t.prefix, filter |-> t.filter, unique |-> t.unique, subs |-> t.subs]
                  : t \in rules.types},
     folders |-> rules.folders]
CombinedFingerprint(dir, rules) == [install |-> Fingerprint(dir), rules |-> RulesetShapeHash(rules)]
CacheFileName(fingerprint) ==
    <<[i \in DOMAIN fingerprint.install |-> IF fingerprint.install[i] \in PlainChars THEN fingerprint.install[i] ELSE "_"],
      fingerprint.rules>>
Given == <<"given">>   \* the file a command line or a setting names

BuildVanillaCacheAux(dir, found) ==
    LET paths == AddRoot(NoFiles(TRUE), dir).spelled
    IN [loc |-> KeysPerLang(ReadLoc(dir.loc, {})), paths |-> {paths[p] : p \in DOMAIN paths},
        vars |-> found.vars, members |-> found.members, tags |-> found.tags, scripted |-> found.scripted]
\* "of" is not in the file: whose base game it holds.
WriteCache(fingerprint, dir, rules, of) ==
    LET found == IndexGameDir(dir, rules)
    IN [readable |-> TRUE, fingerprint |-> fingerprint, instances |-> found.instances,
        aux |-> BuildVanillaCacheAux(dir, found), of |-> of]
\* A file of another version of the program, or a damaged one, does not load.
LoadCache(name) == IF name \in DOMAIN disk /\ disk[name].readable THEN <<disk[name]>> ELSE <<>>
\* Mutant: the name of the file is trusted.
LoadFreshVanillaCache_byName(fingerprint) == LoadCache(CacheFileName(fingerprint))
\* Two fingerprints may have one file name: the file says which is its own.
LoadFreshVanillaCache(fingerprint) ==
    LET found == LoadCache(CacheFileName(fingerprint))
    IN IF found # <<>> /\ found[1].fingerprint = fingerprint THEN found ELSE <<>>
Saved(name, file) == disk' = Put(disk, name, file)

-----------------------------------------------------------------------------
(* The command line (driver: Session::load_with_parse_cache).              *)

OwnFiles(rules) == IndexFolder(Workspace, WorkspaceDiscoveryConfig(Workspace, rules.folders), rules)
NamesOf(instances) == [key \in Types |-> [i \in DOMAIN instances[key] |-> instances[key][i].name]]
\* Tags of complex enums are not collected from the mod's own files here.
OwnSession(config, rules) ==
    LET own == OwnFiles(rules)
    IN [index |-> Index!Merge(Index!EmptyIndex, "own", NamesOf(own.instances)), vars |-> own.vars, members |-> own.members,
        tags |-> {}, scripted |-> own.scripted, files |-> NoFiles(FALSE), complete |-> FALSE,
        loc |-> LocsScoped(ReadLoc(Workspace.loc, config.langs), config.langs)]
Allowed(langs, lang) == langs = {} \/ lang \in langs
TypedKeys(keys, langs) ==
    [i \in 1..Cardinality({l \in DOMAIN keys : Allowed(langs, l)}) |->
        LET lang == SetToSeq({l \in DOMAIN keys : Allowed(langs, l)})[i] IN [lang |-> lang, keys |-> keys[lang]]]
WithCache(session, config, file) ==
    [session EXCEPT
        !.index = Index!MergeBaseGame(@, file.instances), !.vars = @ \cup file.aux.vars,
        !.members = @ \cup file.aux.members, !.tags = @ \cup file.aux.tags, !.scripted = @ \cup file.aux.scripted,
        !.files = BuildFileIndex(here, file.aux.paths, config.exact), !.complete = TRUE,
        !.loc = KeysMerged(@, TypedKeys(file.aux.loc, config.langs), config.langs)]
\* Members of value sets and tags of complex enums of the walk are left behind.
WithInstall(session, config, dir, rules) ==
    LET found == IndexGameDir(dir, rules)
    IN [session EXCEPT
            !.index = Index!MergeFrom(@, "<vanilla>", NamesOf(found.instances), TRUE), !.vars = @ \cup found.vars,
            !.scripted = @ \cup found.scripted, !.files = BuildFileIndex(here, dir.paths, config.exact), !.complete = TRUE,
            !.loc = LocsMerged(@, LocsScoped(ReadLoc(dir.loc, config.langs), {}), config.langs)]

NoOf == [install |-> "none", rules |-> "none"]
Idle == [at |-> "idle"]
Now == [install |-> install, rules |-> ruleset]
Live(of) == CombinedFingerprint(Installs[of.install], Rulesets[of.rules])
Start == starts < MaxStarts /\ starts' = starts + 1

\* A run takes the cache file it was given as it is, a file of the cache's
\* folder only if it is fresh; without either it walks.
Begin(config) ==
    LET auto == config.base /\ config.mode = "auto"
        cached == CASE config.mode = "given" -> LoadCache(Given)
                    [] auto -> LoadFreshVanillaCache(Live(Now))
                    [] OTHER -> <<>>
        own == OwnSession(config, Rulesets[ruleset])
        run(at, session, of) == [at |-> at, config |-> config, session |-> session, of |-> of, rules |-> ruleset, here |-> here,
                                 cached |-> cached # <<>>]
    IN /\ batch.at \in {"idle", "done"} /\ Start
       /\ batch' = CASE cached # <<>> /\ config.mode = "given" -> run("rebuild", WithCache(own, config, cached[1]), cached[1].of)
                     [] cached # <<>> /\ config.mode # "given" -> run("done", WithCache(own, config, cached[1]), Now)
                     [] cached = <<>> /\ config.base -> run("walk", own, Now)
                     [] OTHER -> run("done", own, NoOf)
       /\ UNCHANGED <<install, ruleset, here, disk, editor, updates, crossed>>
\* The walk goes into the file of the fingerprint read before; writing may fail.
WalkInstall ==
    LET dir == Installs[install]
        rules == Rulesets[batch.rules]
        fingerprint == Live(batch.of)
    IN /\ batch.at = "walk"
       /\ batch' = [batch EXCEPT !.at = "done", !.session = WithInstall(@, batch.config, dir, rules), !.here = here]
       /\ \/ batch.config.mode \in {"auto", "refresh"}
             /\ Saved(CacheFileName(fingerprint), WriteCache(fingerprint, dir, rules, batch.of))
          \/ UNCHANGED disk
       /\ UNCHANGED <<install, ruleset, here, editor, updates, starts, crossed>>
\* A given file that is stale has served this run; it is written anew for the next.
RebuildGiven ==
    LET live == [install |-> install, rules |-> batch.rules]
    IN /\ batch.at = "rebuild"
       /\ batch' = [batch EXCEPT !.at = "done"]
       /\ \/ /\ batch.config.base /\ Live(batch.of) # Live(live)
             /\ Saved(Given, WriteCache(Live(live), Installs[install], Rulesets[batch.rules], live))
          \/ UNCHANGED disk
       /\ UNCHANGED <<install, ruleset, here, editor, updates, starts, crossed>>
CacheVanilla ==
    /\ Start /\ Saved(Given, WriteCache(Live(Now), Installs[install], Rulesets[ruleset], Now))
    /\ UNCHANGED <<install, ruleset, here, batch, editor, updates, crossed>>

-----------------------------------------------------------------------------
(* The editor (scan/vanilla.rs).                                           *)

NewEditor ==
    [at |-> "idle", staged |-> <<>>, locKeys |-> <<>>, paths |-> <<>>, varNames |-> <<>>, scriptedNames |-> <<>>,
     merged |-> FALSE, mergedUris |-> {},
     index |-> Index!Merge(Index!EmptyIndex, "own", NamesOf(OwnFiles(Rulesets[ruleset]).instances)),
     vars |-> {}, scripted |-> {}, members |-> {}, tags |-> {}, files |-> NoFiles(FALSE), complete |-> FALSE,
     of |-> NoOf, ownRules |-> ruleset, here |-> {}]

\* Values of enums and sets do not wait for the merge; none at all change nothing.
Stage(held, file, of) ==
    LET dynamic == file.aux.members \cup file.aux.tags # {}
    IN [held EXCEPT
            !.at = "idle", !.staged = <<file.instances>>, !.paths = <<file.aux.paths>>, !.of = of,
            !.locKeys = IF DOMAIN file.aux.loc = {} THEN @ ELSE <<file.aux.loc>>,
            !.varNames = <<file.aux.vars>>, !.scriptedNames = <<file.aux.scripted>>,
            !.members = IF dynamic THEN file.aux.members ELSE @, !.tags = IF dynamic THEN file.aux.tags ELSE @]
Clear(held) ==
    [held EXCEPT !.staged = <<>>, !.locKeys = <<>>, !.paths = <<>>, !.varNames = <<>>, !.scriptedNames = <<>>,
                 !.merged = FALSE, !.vars = {}, !.scripted = {}]
\* What is staged or merged already stays, unless the command asks for it anew.
EnsureVanillaIndex(held, force) ==
    LET fresh == IF force THEN <<>> ELSE LoadFreshVanillaCache(Live(Now))
    IN IF ~force /\ (held.staged # <<>> \/ held.merged) THEN held
       ELSE IF fresh # <<>> THEN Stage(held, fresh[1], Now)
       ELSE [held EXCEPT !.at = "walk", !.of = Now]

editorOnly == <<install, ruleset, here, batch, updates, crossed>>
StageGiven == /\ editor = NewEditor /\ LoadCache(Given) # <<>> /\ Start
              /\ editor' = Stage(editor, LoadCache(Given)[1], LoadCache(Given)[1].of)
              /\ UNCHANGED <<editorOnly, disk>>
Ensure == /\ editor.at = "idle" /\ Start
          /\ editor' = EnsureVanillaIndex(editor, FALSE) /\ editor' # editor
          /\ UNCHANGED <<editorOnly, disk>>
CacheVanillaCommand == /\ editor.at = "idle" /\ Start
                       /\ editor' = EnsureVanillaIndex(Clear(editor), TRUE)
                       /\ UNCHANGED <<editorOnly, disk>>
\* Files of other programs in the folder are left alone; a given file is elsewhere.
ClearAllCaches == /\ editor.at = "idle" /\ Start
                  /\ editor' = Clear(editor)
                  /\ disk' = [name \in DOMAIN disk \cap {Given} |-> disk[name]]
                  /\ UNCHANGED editorOnly
EditorWalk ==
    LET file == WriteCache(Live(editor.of), Installs[install], Rulesets[editor.of.rules], editor.of)
    IN /\ editor.at = "walk"
       /\ editor' = Stage(editor, file, editor.of)
       /\ Saved(CacheFileName(Live(editor.of)), file) \/ UNCHANGED disk
       /\ UNCHANGED <<editorOnly, starts>>
WalkPanics == /\ editor.at = "walk" /\ editor' = [editor EXCEPT !.at = "idle"]
              /\ UNCHANGED <<editorOnly, disk, starts>>

\* The files of the merge before go first, whatever game they are of.
MergeInstances(held) ==
    LET staged == held.staged[1]
    IN [held EXCEPT
            !.index = Index!MergeBaseGame(Index!RemoveFiles(@, held.mergedUris), staged),
            !.mergedUris = UNION {{staged[key][i].uri : i \in DOMAIN staged[key]} : key \in Types},
            !.staged = <<>>, !.merged = TRUE, !.complete = TRUE]
\* Every scan lists the files of the mod again.
MergePending(held) ==
    LET instances == IF held.staged = <<>> THEN held ELSE MergeInstances(held)
    IN [instances EXCEPT
            !.vars = IF held.varNames = <<>> THEN @ ELSE held.varNames[1],
            !.scripted = IF held.scriptedNames = <<>> THEN @ ELSE held.scriptedNames[1],
            !.files = IF held.paths = <<>> THEN @ ELSE BuildFileIndex(here, held.paths[1], FALSE),
            !.here = IF held.paths = <<>> THEN @ ELSE here]
Merge == /\ editor.at = "idle" /\ editor' = MergePending(editor) /\ editor' # editor
         /\ UNCHANGED <<editorOnly, disk, starts>>

-----------------------------------------------------------------------------
(* What happens meanwhile.                                                 *)

Fingerprinted == batch.at = "walk" \/ editor.at = "walk"
Update ==
    /\ updates < MaxUpdates /\ updates' = updates + 1
    /\ \E v \in DOMAIN Installs \ {install} : install' = v
    /\ crossed' = (crossed \/ Fingerprinted)
    /\ UNCHANGED <<ruleset, here, disk, batch, editor, starts>>
ChangeRules ==
    /\ updates < MaxUpdates /\ updates' = updates + 1
    /\ \E r \in DOMAIN Rulesets \ {ruleset} : ruleset' = r
    /\ UNCHANGED <<install, here, disk, batch, editor, starts, crossed>>
\* The editor is told of a file of the mod that came or went; an index without
\* any file stays empty.
FileEvent ==
    /\ updates < MaxUpdates /\ updates' = updates + 1 /\ editor.at = "idle"
    /\ \E p \in Optional :
          /\ here' = IF p \in here THEN here \ {p} ELSE here \cup {p}
          /\ editor' = IF editor.files.files = {} THEN editor
                       ELSE [editor EXCEPT !.files = IF p \in here THEN RemovePath(@, p) ELSE InsertPath(@, p),
                                           !.here = here']
    /\ UNCHANGED <<install, ruleset, disk, batch, starts, crossed>>

BaseInit ==
    /\ install \in DOMAIN Installs /\ ruleset \in DOMAIN Rulesets /\ here = Workspace.paths
    /\ disk = <<>> \/ disk = Put(<<>>, CacheFileName(Live(Now)), [readable |-> FALSE])
    /\ batch = Idle /\ editor = NewEditor /\ updates = 0 /\ starts = 0 /\ crossed = FALSE
BaseNext ==
    \/ \E config \in Configs : Begin(config)
    \/ WalkInstall \/ RebuildGiven \/ CacheVanilla
    \/ StageGiven \/ Ensure \/ CacheVanillaCommand \/ ClearAllCaches \/ EditorWalk \/ WalkPanics \/ Merge
    \/ Update \/ ChangeRules \/ FileEvent
BaseSpec == BaseInit /\ [][BaseNext]_baseVars

-----------------------------------------------------------------------------
(* What is assumed of the constants.                                       *)

Paths == UNION {Workspace.paths, Optional, UNION {Installs[v].paths : v \in DOMAIN Installs}}
KeysIn(perLang, lang) == IF lang \in DOMAIN perLang THEN perLang[lang] ELSE {}
AllKeys(dir) == KeysPerLang(ReadLoc(dir.loc, {}))

Defines(dir, files) ==
    /\ dir.defs \in Seq({dir.defs[i] : i \in DOMAIN dir.defs})
    /\ \A i \in DOMAIN dir.defs : dir.defs[i].file \in files /\ dir.defs[i].name \in Names

\* What Localisation does: reading gives the keys of the languages asked for,
\* and merging adds keys, each to those of its language.
Reads(loc, dir, langs) ==
    LET keys == AllKeys(dir) IN
    /\ IsFiniteSet(DOMAIN keys)
    /\ loc.perLang = [l \in {l \in DOMAIN keys : Allowed(langs, l)} |-> keys[l]]
    /\ ToSet(loc.langs) = DOMAIN loc.perLang
Adds(loc, before, keys) ==
    /\ DOMAIN loc.perLang = DOMAIN before.perLang \cup DOMAIN keys
    /\ \A l \in DOMAIN loc.perLang : loc.perLang[l] = KeysIn(before.perLang, l) \cup KeysIn(keys, l)
    /\ loc.union = UNION {loc.perLang[l] : l \in DOMAIN loc.perLang}
    /\ ToSet(loc.langs) = ToSet(before.langs) \cup DOMAIN keys
ByLanguage(typed) ==
    [l \in {typed[i].lang : i \in DOMAIN typed} |-> UNION {typed[i].keys : i \in {i \in DOMAIN typed : typed[i].lang = l}}]
LocMerges(langs, dir) ==
    LET own == LocsScoped(ReadLoc(Workspace.loc, langs), langs)
        other == LocsScoped(ReadLoc(dir.loc, langs), {})
        cached == TypedKeys(AllKeys(dir), langs)
    IN /\ Reads(own, Workspace, langs) /\ Reads(other, dir, langs)
       /\ Adds(LocsMerged(own, other, langs), own, other.perLang)
       /\ Adds(KeysMerged(own, cached, langs), own, ByLanguage(cached))

\* No two paths differ in case only, and no two versions have one fingerprint.
ASSUME GameAssumption ==
    /\ IsFiniteSet(Files) /\ IsFiniteSet(Types) /\ IsFiniteSet(Names) /\ Subtypes \subseteq Types
    /\ Lower \in [Names -> Names] /\ \A n \in Names : Lower[Lower[n]] = Lower[n]
    /\ {"own", "<vanilla>"} \subseteq Files
    /\ Defines(Workspace, Files) /\ \A v \in DOMAIN Installs : Defines(Installs[v], Files \ {"own"})
    /\ \A v, w \in DOMAIN Installs : Fingerprint(Installs[v]) = Fingerprint(Installs[w]) => v = w
    /\ \A p, q \in Paths : Fold(p) = Fold(q) => p = q
    /\ \A config \in Configs : /\ config.exact \in BOOLEAN
                               /\ \A v \in DOMAIN Installs : LocMerges(config.langs, Installs[v])

-----------------------------------------------------------------------------
(* Properties.                                                             *)

References == Paths \cup {Fold(p) : p \in Paths} \cup {<<"">> \o p : p \in Paths}
KnowsFiles(idx, paths) ==
    \A reference \in References :
        /\ HasFile(idx, reference) <=>
            \E p \in paths : IF idx.exact THEN p = NormalPath(reference) ELSE Fold(p) = Fold(NormalPath(reference))
        /\ idx.exact /\ ~HasFile(idx, reference) =>
            OnDiskCase(idx, reference) = {p \in paths : Fold(p) = Fold(NormalPath(reference))}
Spelled(found, key, n) == Cardinality({i \in DOMAIN found.instances[key] : Lower[found.instances[key][i].name] = n})
KnowsInstances(idx, own, base) ==
    \A n \in Names :
        /\ \A key \in Types : idx.refs[key][n] = [total |-> Spelled(own, key, n) + Spelled(base, key, n),
                                                  workspace |-> Spelled(own, key, n)]
        /\ Index!IsAnyInstance(idx, n) <=> \E key \in Types \ Subtypes : idx.refs[key][Lower[n]].total > 0
KnowsKeys(loc, langs, own, base) ==
    LET all == {l \in DOMAIN own \cup DOMAIN base : Allowed(langs, l)} IN
    /\ \A l \in all \cup DOMAIN loc.perLang : KeysIn(loc.perLang, l) = IF l \in all THEN KeysIn(own, l) \cup KeysIn(base, l) ELSE {}
    /\ loc.union = UNION {loc.perLang[l] : l \in DOMAIN loc.perLang} /\ ToSet(loc.langs) = all

RunKnows(dir, base) ==
    LET own == OwnFiles(Rulesets[batch.rules])
        session == batch.session
    IN /\ KnowsInstances(session.index, own, base) /\ session.complete
       /\ session.vars = own.vars \cup base.vars /\ session.scripted = own.scripted \cup base.scripted
       /\ batch.cached => session.members = own.members \cup base.members /\ session.tags = base.tags
       /\ KnowsFiles(session.files, batch.here \cup dir.paths)
       /\ KnowsKeys(session.loc, batch.config.langs, AllKeys(Workspace), AllKeys(dir))
EditorKnows(dir, base) ==
    /\ KnowsInstances(editor.index, OwnFiles(Rulesets[editor.ownRules]), base) /\ editor.complete
    /\ editor.vars = base.vars /\ editor.scripted = base.scripted
    /\ base.members \cup base.tags # {} => editor.members = base.members /\ editor.tags = base.tags
    /\ DOMAIN AllKeys(dir) # {} => editor.locKeys = <<AllKeys(dir)>>
    /\ (Optional \cap dir.paths) \subseteq editor.here => KnowsFiles(editor.files, editor.here \cup dir.paths)
\* What was indexed of `of`, with any rules of the same shape.
Known(of, Knows(_, _)) ==
    \E r \in DOMAIN Rulesets :
        /\ RulesetShapeHash(Rulesets[r]) = RulesetShapeHash(Rulesets[of.rules])
        /\ Knows(Installs[of.install], IndexGameDir(Installs[of.install], Rulesets[r]))

\* Whoever wrote the cache, and whatever the game, the rules and the files of
\* the mod were in between: a run and the editor know of the base game what a
\* walk of it, as it was when they asked, would have told them
\* (vanilla_cache.rs: combined_fingerprint; driver: load_fresh_vanilla_cache;
\* scan/vanilla.rs: merge_pending_vanilla_index).  Excepted are updates of the
\* game between its fingerprint and its walk, values that the editor keeps
\* because the new game has none, a file of the mod that hid one of the game
\* and was deleted, and what DynamicValuesKept is about.
KnowsTheInstall ==
    ~crossed =>
        /\ batch.at \in {"rebuild", "done"} /\ batch.of # NoOf => Known(batch.of, RunKnows)
        /\ editor.at = "idle" /\ editor.merged /\ editor.staged = <<>> => Known(editor.of, EditorKnows)

\* A run that walks the base game knows the values of sets it adds, as a run
\* that reads them from a cache does, which must not drop what the walk
\* collected (driver/src/lib.rs:606-608).
DynamicValuesKept ==
    batch.at = "done" /\ batch.of # NoOf /\ ~batch.cached /\ ~crossed =>
        LET rules == Rulesets[batch.rules] IN
        batch.session.members = OwnFiles(rules).members \cup IndexGameDir(Installs[batch.of.install], rules).members
=============================================================================
