----------------------------- MODULE MCLanguage -----------------------------
(* Finite instances of the language components: a probe is chosen, and the *)
(* component answers it, or, for the loader of rules, works at it.         *)
EXTENDS BaseGame, RuleLoader, TLC

\* What the components answer, beside those of BaseGame and RuleLoader.  As
\* constants they each count as one step in TLC's statistics; their values
\* are at the end of the module.
CONSTANTS TextRead(_), TextPlain(_), Judgement(_, _, _),                  \* validation
          PlacesAsked(_), PlacesAgree(_, _, _, _),                        \* positions in a file
          DisksAgree(_, _),                                               \* files on disk
          TextFixed(_), FixesMatch(_, _), KeyActions(_), ActionsStandAlone(_, _),   \* edits
          SampleOf(_)

VARIABLES part,      \* the component at work
          probe,     \* what it is asked
          answer     \* what it answered

Unasked == <<>>

-----------------------------------------------------------------------------
\* Parser: every short text, read with a limit on depth and without.
Deep == INSTANCE Parser WITH MaxClauseDepth <- 9
Flat == INSTANCE Parser WITH MaxClauseDepth <- 1
ParserProbes == BoundedSeq({"k", "=", "{", "}", "#", "q", "n"}, 5)

RECURSIVE Pruned(_, _)
Pruned(nodes, depth) ==
    LET value(v) == IF v[1] # "clause" THEN v
                    ELSE <<"clause", IF depth = 0 THEN <<>> ELSE Pruned(v[2], depth - 1)>>
    IN [i \in DOMAIN nodes |->
          CASE nodes[i][1] = "leaf" -> <<"leaf", nodes[i][2], value(nodes[i][3])>>
            [] nodes[i][1] = "value" -> <<"value", value(nodes[i][2])>>
            [] OTHER -> nodes[i]]
\* A clause that is too deep is skipped as far as reading it would have gone:
\* the rest of the file is read as without the limit (parser.rs: skip_clause).
\* Excepted are texts with a quote inside a word: only the skipping takes it
\* for the beginning of a string.
DepthLimitPrunes ==
    part = "parser" /\ answer # Unasked =>
        \/ \E i \in 1..(Len(probe) - 1) : probe[i] = "k" /\ probe[i + 1] = "q"
        \/ Pruned(answer[1].nodes, 1) = Flat!ParseString(probe).nodes

-----------------------------------------------------------------------------
\* Rule files: two files that define and use single aliases of each other.
Rules == INSTANCE RuleSets WITH
    Lower <- ("UP" :> "up"), NumberOf <- ("0" :> 0 @@ "1" :> 1), RangeEnds <- ("0..1" :> <<"0", "1">>),
    AliasParts <- ("effect:a" :> <<"effect", "a">>),
    MaxAliasDepth <- 2, MaxExpandedNodes <- 27

Use(alias) == [is |-> "single_alias_right", word |-> alias, children |-> <<>>]
Uses(aliases) == Rules!Clause([i \in DOMAIN aliases |-> Rules!Entry("", "slot", Use(aliases[i]))])
Alias(name, uses) == Rules!Entry("single_alias", name, Uses(uses))
RuleFile(children, size) ==
    [kind |-> "file", cwt |-> TRUE, readable |-> TRUE, size |-> size, folders |-> <<>>, children |-> children]
Bodies == {<<>>, <<"a">>, <<"b">>, <<"c">>, <<"d">>, <<"b", "c">>}
MCDirectories ==
    {<<RuleFile(<<Alias("a", ua), Alias("b", ub), Rules!Entry("", "root", Uses(<<"a", "b">>))>>, 1),
       [kind |-> "directory", entries |-> <<RuleFile(<<Alias("c", uc)>>, size)>>]>>
        : ua \in Bodies, ub \in Bodies, uc \in Bodies, size \in {1, 2}}

Line(form, name, word) == Rules!Entry(form, name, [is |-> "string", word |-> word, children |-> <<>>])
Block(form, name, children) == Rules!Entry(form, name, Rules!Clause(children))
BareWord(word) == Rules!Bare([is |-> "string", word |-> word, children |-> <<>>])
SampleTypes == Block("", "types", <<
    Rules!Directive("type_key_filter", Rules!Items(<<"a", "b">>)), Rules!Directive("starts_with", Rules!Word("s_")),
    Block("type", "ship", <<
        Line("", "path", "game/ships"), Line("", "path_strict", "yes"), Line("", "name_field", "id"),
        Line("", "skip_root_key", "x"), Rules!Unequal(Line("", "skip_root_key", "y")), Line("", "unique", "yes"),
        Block("", "skip_root_key", <<BareWord("any")>>),
        Rules!Directive("push_scope", Rules!Word("ship")), Rules!Directive("only_if_not", Rules!Items(<<"c">>)),
        Block("subtype", "big", <<Line("", "size", "big"), Line("", "type_key_field", "k")>>),
        Block("", "localisation", <<Rules!Directive("required", Rules!NoRhs), Line("", "name", "$_name"),
                                    Block("subtype", "big", <<Line("", "desc", "$_desc")>>)>>),
        Block("", "modifiers", <<Block("subtype", "small", <<Line("", "m", "$_m")>>)>>)>>)>>)
SampleEnums == Block("", "enums", <<
    Rules!Doc("colours"), Block("enum", "colour", <<BareWord("red"), BareWord("blue")>>),
    Block("complex_enum", "tag", <<Line("", "path", "game/tags"), Line("", "start_from_root", "yes"),
                                   Block("", "name", <<Line("", "id", "enum_name"), BareWord("enum_name")>>)>>)>>)
SampleSections == <<
    Block("", "modifiers", <<Line("", "speed", "fleet")>>),
    Block("", "modifier_categories", <<Block("", "fleet", <<Block("", "supported_scopes", <<BareWord("ship")>>)>>)>>),
    Block("", "scopes", <<Block("", "Ship", <<Block("", "aliases", <<BareWord("ship")>>)>>)>>),
    Block("", "localisation_commands", <<Line("", "GetName", "any")>>),
    Block("", "links", <<Block("", "owner", <<Line("", "output_scope", "country"), Line("", "from_data", "yes")>>),
                         Line("", "capital", "planet")>>),
    Block("", "values", <<Block("value", "flags", <<BareWord("f")>>)>>)>>
SampleAliases == <<
    Rules!Directive("scope", Rules!Items(<<"ship">>)), Rules!Directive("cardinality", Rules!RangeRhs("0", "inf", "~")),
    Rules!Directive("severity", Rules!Word("warning")),
    Block("alias", "effect:a", <<
        Rules!Directive("replace_scopes", Rules!Items(<<<<"this", 0, "ship">>, <<"from", 2, "ship">>>>)),
        Line("", "amount", "int"), Line("enum", "colour", "scalar"), BareWord("bool"),
        Rules!Entry("int", "0..1", [is |-> "variable_field", word |-> "0..1", children |-> <<>>]),
        Rules!Bare(Rules!Clause(<<Line("type", "ship", "scalar")>>)),
        Rules!Entry("", "tint", [is |-> "colour", word |-> "hsv", children |-> <<>>]),
        Line("alias_name", "effect", "alias_match_left")>>),
    Rules!Directive("cardinality", Rules!Word("x")), Line("", "ship", "scalar")>>
SampleRules ==
    LET file == <<SampleTypes, SampleEnums>> \o SampleSections \o SampleAliases
        rules == Rules!FillRuleset(file)
    IN [rules |-> rules, refs |-> Rules!CollectReferenceCandidates(file),
        indexed |-> Rules!Reindex(rules), at |-> Rules!CollectDefinitionPositions(file),
        broken |-> Rules!ValidateCommentDirectives(SelectSeq(file, LAMBDA c : c.kind = "comment"))]

\* (See RuleSets.)
LeftoversReported == part = "rules" /\ combined.done => Rules!NoLeftovers(combined)

-----------------------------------------------------------------------------
\* The index: blocks that set variables and blocks that add to value sets, in
\* each other; and a file with an instance of every kind of definition.
Collecting == INSTANCE Collect WITH Lower <- ("Set" :> "set")
Effects == {"set"}
ValueSets == [effects |-> ("set" :> "variable" @@ "add" :> "flags"),
              fields |-> ("add" :> <<[field |-> "flag", ns |-> "flags"]>>)]
Words == {Collecting!Leaf(k, Collecting!Text("w")) : k \in {"Set", "add", "flag"}}
Blocks(bodies) == {Collecting!Leaf(k, Collecting!Clause(b)) : k \in {"Set", "add", "else"}, b \in bodies}
Inner == Words \cup Blocks(BoundedSeq(Words, 2))
CollectProbes == {<<a>> : a \in Blocks({<<b>> : b \in Inner})} \cup {<<a, b>> : a \in Inner, b \in Words}

ShipPath == [paths |-> {<<"c", "/", "s">>}, strict |-> FALSE, file |-> "", extension |-> "txt"]
Ship == [name |-> "ship", path |-> ShipPath, perFile |-> FALSE, filter |-> {}, negate |-> FALSE,
         startsWith |-> "", keyPrefix |-> "", nameField |-> "id", subtypes |-> {"big"},
         skip |-> <<[is |-> "specific", key |-> "ships"]>>, primaryLoc |-> "title", requiredLoc |-> {"desc"}]
ShipRule == [kind |-> "node", left |-> <<"specific", "ship">>, right |-> <<"scalar", "">>,
             body |-> <<[kind |-> "leaf", left |-> <<"specific", "counter">>, right |-> <<"variable set", "variable">>,
                         body |-> <<>>]>>]
ShipLeaves == <<Collecting!Leaf("id", Collecting!Text("one")), Collecting!Leaf("counter", Collecting!Text("c1")),
                Collecting!Leaf("kind", Collecting!Text("light")), Collecting!Leaf("@k", Collecting!Number("3")),
                Collecting!Leaf("amount", Collecting!Number("2"))>>
ShipFile == [dir |-> <<"c", "/", "s">>, name |-> "x.txt", stem |-> "x", extension |-> "txt",
             root |-> <<Collecting!Leaf("ships", Collecting!Clause(<<Collecting!Leaf("s", Collecting!Clause(ShipLeaves))>>)),
                        Collecting!Leaf("flat", Collecting!Clause(ShipLeaves)), Collecting!LeafValue(Collecting!Text("bare"))>>]
IndexRules == [types |-> <<Ship, [Ship EXCEPT !.perFile = TRUE, !.name = "whole"]>>, prefixes |-> {}, effects |-> Effects,
               vs |-> ValueSets, locDirs |-> {<<"s">>},
               enums |-> <<[name |-> "ids", path |-> ShipPath, fromRoot |-> FALSE,
                            tree |-> <<[kind |-> "name value", key |-> "id"], [kind |-> "leaf", key |-> "enum_name"]>>],
                           [name |-> "tops", path |-> ShipPath, fromRoot |-> TRUE,
                            tree |-> <<[kind |-> "node", key |-> "enum_name"], [kind |-> "bare name", key |-> ""],
                                       [kind |-> "node", key |-> "ships",
                                        inner |-> <<[kind |-> "node", key |-> "enum_name"]>>]>>]>>]
SampleIndex ==
    [index |-> Collecting!IndexDiscoveredFiles(IndexRules, <<ShipFile>>),
     loc |-> Collecting!LocKeys(Ship, ShipLeaves),
     defined |-> Collecting!CollectDefinedVariablesFromRules(<<Ship>>, <<[name |-> "ship", rule |-> ShipRule]>>, {"@k"},
                     ShipFile, ShipFile.root),
     effects |-> Collecting!VariableDefiningEffects({[category |-> "effect", key |-> "Set", rule |-> ShipRule]}),
     uses |-> Collecting!CollectTypeRefUses(<<[key |-> "kind", type |-> "class", root |-> "ship"]>>, <<Ship>>, ShipFile,
                  ShipFile.root),
     element |-> [p \in 0..9 |-> Collecting!ElementAtPosition(<<Collecting!Placed(Collecting!Leaf("a", Collecting!Clause(
                     <<Collecting!Placed(Collecting!Leaf("b", Collecting!Text("w")), 3, 5)>>)), 1, 7)>>, p)]]

\* The batch pipeline's single walk finds the variables and the value set
\* members the editor's two walks find, in the same order (collect.rs:
\* collect_variables_and_value_sets against variables.rs and dynamic_values.rs).
FusedWalkAgrees ==
    part = "collect" /\ answer # Unasked =>
        answer[1] = Collecting!Both(Collecting!CollectSetVariables(Effects, probe),
                               Collecting!CollectValueSetMembers(ValueSets, probe))

-----------------------------------------------------------------------------
\* Scopes, texts and files to validate (see MCValidation).
Validation == INSTANCE MCValidation

\* A link that only the built-in tables have leads to the scope of the same
\* name, whatever numbers the configured scopes got and in whatever order the
\* tables were walked (scope_registry.rs: backfill_hardcoded).
DefaultLinksLead ==
    part = "scopes" /\ answer # Unasked =>
        Validation!Check!DefaultLinksLead(answer[1], Validation!Table, {probe.links[i].name : i \in DOMAIN probe.links})

\* Looking up all brackets without a partner at once reads a text as if every
\* bracket searched the rest of the text (loc_string.rs: unmatched_openers).
ShortcutReadsTheSame == part = "text" /\ answer # Unasked => answer[1] = TextPlain(probe)

\* Remembering what an alias gave changes neither the problems of a file nor
\* the instances it is recorded to use (ctx.rs: AliasMemo; alias.rs:
\* validate_alias_usage).
MemoKeepsErrors ==
    part = "validate" /\ answer # Unasked =>
        answer[1] = LET plain == Judgement(probe, 1000, 1000) IN [errors |-> plain.errors, uses |-> plain.uses]

\* However early the branches of a file run out, every instance the file would
\* have been recorded to use still counts as used (ctx.rs: exhaust; references.rs:
\* mark_all_used).
ExhaustionHidesNoUse ==
    part = "validate" /\ answer # Unasked =>
        \A n \in 0..12 : \A use \in answer[1].uses :
            use[2] \in Validation!Env.instances[use[1]] => use \in Judgement(probe, n, n \div 2).uses

\* The rules at a cursor and the hints at the blocks follow the descent of
\* validation: they have the scope in which it judges a command, where the
\* blocks around have one reading (position.rs: rules_at_pos,
\* scope_transitions).  The first column behind an empty block is excepted:
\* the cursor is still in the block there.
CursorAgrees ==
    part = "places" /\ answer # Unasked =>
        \A sink \in Validation!Plain(probe) : \A at \in {0, 1, 4} :
            (at = 0 => sink.from \notin Validation!AfterEmpty(probe)) => PlacesAgree(probe, answer[1], sink, at)

-----------------------------------------------------------------------------
\* Files on disk (see MCFiles).
Disk == INSTANCE MCFiles

\* What a scan finds below the folders it enters is what the editor does not
\* ignore when a file is opened, and the patterns mean what is documented of
\* them (file_manager.rs: is_ignored_path, walk_dir_generic).  Excepted are the
\* folders of the include list that are ignored themselves: the walk begins
\* inside them.
ScanAndEditorIgnoreAlike == part = "files" /\ answer # Unasked => DisksAgree(probe, answer[1])

-----------------------------------------------------------------------------
\* Edits of texts (see MCEdits).
Edits == INSTANCE MCEdits

\* The fixes that are kept make of a text on the command line what they make of
\* it in an editor, which counts in other units and makes them all at once
\* (fix.rs: plan_file_edits, apply_edits; payload.rs: fix_all_action).  Excepted
\* are two that begin at one place, which only an insertion lets happen, and
\* places behind a carriage return, which no token ends at.
FixesAgree == part = "edits" /\ answer # Unasked => FixesMatch(probe, answer[1])

\* Each action that creates keys can be applied alone: afterwards every key it
\* is for has its line in every language, a new file has its header once and
\* first, and no two actions create one file.  If a language needs a new file
\* for all keys or for none, every key has an action (create_loc_key.rs:
\* build_create_loc_key_batch).  Excepted are siblings whose recorded line the
\* file does not have any more.
KeyActionsStandAlone == part = "batch" /\ answer # Unasked => ActionsStandAlone(probe, answer[1])

-----------------------------------------------------------------------------
\* One sample each of the components no property here is about.
Samples == {"index", "rules", "scopes", "text", "hero", "places", "wrapped", "whole", "checks", "disk", "edits"}
mcVars == <<part, probe, answer, loadVars, baseVars>>
NoLoad == /\ directory = <<>> /\ found = <<>> /\ reserved = 0 /\ seen = <<>> /\ results = <<>> /\ combined = NotMerged
NoBase == /\ install = "" /\ ruleset = "" /\ here = {} /\ disk = <<>> /\ batch = Idle /\ editor = Idle
          /\ updates = 0 /\ starts = 0 /\ crossed = TRUE
MCInit ==
    /\ answer = Unasked
    /\ \/ part = "rules" /\ probe = "load" /\ LoadInit /\ NoBase
       \/ /\ part = "game" /\ probe = "game" /\ NoLoad
          /\ install = "first" /\ ruleset \in {"ships", "tags"} /\ BaseInit
       \/ /\ NoLoad /\ NoBase
          /\ \/ part = "parser" /\ probe \in ParserProbes
             \/ part = "collect" /\ probe \in CollectProbes
             \/ part = "sample" /\ probe \in Samples
             \/ part = "scopes" /\ probe \in Validation!ScopeProbes
             \/ part = "text" /\ probe \in Validation!TextProbes
             \/ part = "places" /\ probe \in Validation!PlaceProbes
             \/ part = "files" /\ probe \in Disk!Probes
             \/ part = "edits" /\ probe \in Edits!EditProbes
             \/ part = "batch" /\ probe \in Edits!BatchProbes
             \/ part = "validate" /\ probe \in Validation!ValidationProbes

AnswerParser == part = "parser" /\ answer' = <<Deep!ParseString(probe)>>
AnswerCollect ==
    part = "collect" /\ answer' = <<Collecting!CollectVariablesAndValueSets(Effects, ValueSets, probe)>>
AnswerScopes == part = "scopes" /\ answer' = <<Validation!BuildRegistry(probe)>>
AnswerText == part = "text" /\ answer' = <<TextRead(probe)>>
AnswerValidate ==
    part = "validate"
    /\ answer' = <<LET memo == Judgement(probe, 1000, 0) IN [errors |-> memo.errors, uses |-> memo.uses]>>
AnswerPlaces == part = "places" /\ answer' = <<PlacesAsked(probe)>>
AnswerFiles == part = "files" /\ answer' = <<Disk!Walked(probe)>>
AnswerEdits == part = "edits" /\ answer' = <<TextFixed(probe)>>
AnswerBatch == part = "batch" /\ answer' = <<KeyActions(probe)>>
AnswerSample == part = "sample" /\ answer' = <<SampleOf(probe)>>
Answer ==
    /\ answer = Unasked
    /\ AnswerParser \/ AnswerCollect \/ AnswerScopes \/ AnswerText \/ AnswerValidate \/ AnswerPlaces
       \/ AnswerFiles \/ AnswerEdits \/ AnswerBatch \/ AnswerSample
    /\ UNCHANGED <<part, probe, loadVars, baseVars>>
LoadRules == part = "rules" /\ LoadNext /\ UNCHANGED <<part, probe, answer, baseVars>>
UseBase == part = "game" /\ BaseNext /\ UNCHANGED <<part, probe, answer, loadVars>>
MCNext == Answer \/ LoadRules \/ UseBase
MCSpec == MCInit /\ [][MCNext]_mcVars

\* The base game alone.
GameInit == part = "game" /\ MCInit
GameSpec == GameInit /\ [][MCNext]_mcVars

-----------------------------------------------------------------------------
(* The values of the constants.                                            *)

MCTextRead(text) == LET read == Validation!ReadText(text) IN read
MCTextPlain(text) == LET read == Validation!ReadPlainly(text) IN read
MCJudgement(file, branches, memory) == LET judged == Validation!Validated(file, branches, memory) IN judged
MCPlacesAsked(file) == LET asked == Validation!Asked(file) IN asked
MCPlacesAgree(file, asked, sink, at) == LET agreed == Validation!Agreed(file, asked, sink, at) IN agreed
MCDisksAgree(config, walked) == LET agree == Disk!Agree(config, walked) IN agree
MCTextFixed(edits) == LET fixed == Edits!Fixed(edits) IN fixed
MCFixesMatch(edits, fixed) == LET agree == Edits!Agree(edits, fixed) IN agree
MCKeyActions(keys) == LET actions == Edits!Batch(keys) IN actions
MCActionsStandAlone(keys, actions) == LET alone == Edits!StandAlone(keys, actions) IN alone
MCSampleOf(name) ==
    LET sample ==
        CASE name = "index" -> SampleIndex
          [] name = "rules" -> SampleRules
          [] name = "scopes" -> Validation!SampleScopes
          [] name = "text" -> Validation!SampleText
          [] name = "hero" -> Validation!SampleHero
          [] name = "places" -> Validation!SamplePlaces
          [] name = "wrapped" -> Validation!SampleWrapped
          [] name = "whole" -> Validation!SampleWhole
          [] name = "checks" -> Validation!SampleChecks
          [] name = "disk" -> Disk!Sample
          [] name = "edits" -> Edits!Sample
    IN sample

LocSpelt == "english" :> "e" @@ "french" :> "l"
MCReadLoc(loc, langs) ==
    LET file(f) == Validation!LocFile(f.lang, <<Validation!Header(LocSpelt[f.lang])>> \o
                                              [i \in DOMAIN f.keys |-> <<f.keys[i], ":", "[", "o", "]">>], FALSE, 1, "utf8")
    IN Validation!Check!FromPaths([i \in DOMAIN loc |-> file(loc[i])], [bytes |-> 99], langs).files
MCLocsScoped(files, langs) == LET built == Validation!Check!BuildScoped(files, langs) IN built
MCLocsMerged(idx, other, langs) == LET merged == Validation!Check!MergeFrom(idx, other, langs) IN merged
MCKeysMerged(idx, cached, langs) == LET merged == Validation!Check!MergeCachedKeys(idx, cached, langs) IN merged
MCKeysPerLang(files) == LET keys == Validation!Check!PerLang(files) IN keys

\* The rule files and the base game.
MCRuleFilesIn(entries) == LET files == Rules!CollectCwtFiles(entries) IN files
MCReadOf(file) == LET result == Rules!Read(file) IN result
MCRefusedFor(why) == LET result == Rules!Refused(why) IN result
MCMergeResults(files) == LET loaded == Rules!Combine(files) IN loaded
MCLower == "a" :> "a" @@ "A" :> "a" @@ "b" :> "b" @@ "B" :> "b"
MCInstalls == Disk!BaseInstalls
MCRulesets == Disk!BaseRules
MCWorkspace == Disk!Mod
MCFoldSegment(name) == Disk!FoldName(name)
MCConfigs == Disk!BaseConfigs
MCOptional == Disk!BaseOptional
=============================================================================
