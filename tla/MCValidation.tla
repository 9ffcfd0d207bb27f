---------------------------- MODULE MCValidation ----------------------------
(* The validation of a file, on rules with two scopes, a block that may be  *)
(* read in either, and commands that are right in one of them.              *)
EXTENDS Naturals, Sequences, FiniteSets, SequencesExt, TLC

Chars == {"[", "]", "$", "|", ".", "?", "a", "A"}
Check == INSTANCE RulePosition WITH
    Lower <- ("A" :> "a" @@ "Ship" :> "ship" @@ "Country" :> "country" @@ "Planet" :> "planet" @@ "NOT" :> "not" @@ "OR" :> "or" @@ "AND" :> "and" @@ "Get" :> "get"),
    ScopeNumber <- ("0" :> 0 @@ "3" :> 3),
    IteratorWord <- (<<"every", "ship">> :> "every_ship"),
    Marked <- {"@k"},
    Parts <- ("owner.capital" :> [segments |-> <<"owner", "capital">>, prefix |-> ""]
              @@ "owner.nobody" :> [segments |-> <<"owner", "nobody">>, prefix |-> ""]
              @@ "ship:a" :> [segments |-> <<"ship:a">>, prefix |-> "ship"]),
    Shape <- ("0" :> {"integer", "digits", "zero"} @@ "3" :> {"integer", "digits"} @@ "2.5" :> {"decimal", "fraction"}
              @@ "@k" :> {"marked"} @@ "owner.capital" :> {"dotted"} @@ "owner.nobody" :> {"dotted"} @@ "capital" :> {"scope command"}
              @@ "ship:a" :> {"colon", "scope command"} @@ "GER" :> {"tag"} @@ "[x]" :> {"bracket"} @@ "$arg$" :> {"dollars"}
              @@ "GetName" :> {"get"} @@ "?v" :> {"question"} @@ "quoted" :> {"quoted"}),
    Distance <- (<<"kinf", "kind">> :> 1 @@ <<"re", "red">> :> 1),
    Letters <- {"a", "A"}, Digits <- {"0"}, Accents <- {"~"}, MaxValue <- 30,
    Spelt <- (<<"a">> :> "a" @@ <<"A">> :> "A" @@ <<"o">> :> "owner" @@ <<"e">> :> "l_english" @@ <<"l">> :> "l_french"
              @@ <<"g">> :> "GetName" @@ <<"?">> :> "?v")

\* A tree as it stands in a file, a line for each child and for the end of each
\* block: `from` is its line, `to` the line of what follows it.
RECURSIVE Numbered(_, _)
Numbered(children, start) ==
    LET add(acc, child) ==
            LET inner == Numbered(child.value.children, acc.next + 1)
                follows == IF child.value.is = "clause" THEN inner.next + 1 ELSE inner.next
                range == [start |-> [line |-> acc.next, col |-> 0], keyEnd |-> 2, end |-> [line |-> follows, col |-> 0]]
            IN [done |-> Append(acc.done, [child EXCEPT !.value.children = inner.done]
                                          @@ [from |-> acc.next, to |-> follows, range |-> range]), next |-> follows]
    IN FoldLeft(add, [done |-> <<>>, next |-> start], children)
Tree(children) == Numbered(children, 1).done

Field(key, word) == Check!Leaf(key, Check!Text(word))
Num(key, word) == Check!Leaf(key, Check!Number(word))
Bool(key, word) == Check!Leaf(key, [is |-> "bool", word |-> word, children |-> <<>>])
Block(key, children) == Check!Leaf(key, Check!Clause(children))
Bare(word) == Check!LeafValue(Check!Text(word))

-----------------------------------------------------------------------------
Opts == [Check!PlainOpts EXCEPT !.max = 9]
LeafRule(left, right, opts) == [kind |-> "leaf", left |-> left, right |-> right, body |-> <<>>, opts |-> opts]
NodeRule(left, body, opts) == [kind |-> "node", left |-> left, right |-> <<"scalar">>, body |-> body, opts |-> opts]
Of(key) == <<"specific", key>>
Effects == <<LeafRule(<<"alias", "effect">>, <<"alias", "effect">>, Opts)>>

Registry ==
    LET config == Check!FromConfig(
            <<[names |-> <<"Country", "country">>, parents |-> {}], [names |-> <<"Ship", "ship">>, parents |-> {}],
              [names |-> <<"Planet", "planet">>, parents |-> {"country"}]>>,
            <<[name |-> "owner", prefix |-> "", from |-> {"ship"}, to |-> "country"],
              [name |-> "capital", prefix |-> "", from |-> {"country"}, to |-> "planet"],
              [name |-> "ship", prefix |-> "ship", from |-> {}, to |-> "ship"]>>,
            Check!EmptyRegistry, <<>>)
    IN config

\* Two blocks of commands, of which `wrap` has two readings in different scopes;
\* `sink` belongs to ships, `pick` is a number or a technology.
Commands ==
    ("wrap" :> <<NodeRule(Of("wrap"), Effects, [Opts EXCEPT !.push = "country"]),
                 NodeRule(Of("wrap"), Effects, [Opts EXCEPT !.push = "ship"])>>
     @@ "sink" :> <<LeafRule(Of("sink"), <<"type", "ship">>, [Opts EXCEPT !.scopes = <<"ship">>])>>
     @@ "pick" :> <<LeafRule(Of("pick"), <<"int", 0, 9>>, Opts), LeafRule(Of("pick"), <<"type", "technology">>, Opts)>>)
Category(exact) == [exact |-> exact, patterns |-> <<>>, scopeField |-> <<>>]
AnyPath == [paths |-> {<<"e">>}, strict |-> FALSE, file |-> "", extension |-> ""]
Type(name) ==
    [name |-> name, path |-> [AnyPath EXCEPT !.paths = {}], skip |-> <<>>, filter |-> {}, negate |-> FALSE, startsWith |-> "",
     keyPrefix |-> "", subs |-> <<>>, perFile |-> FALSE, warningOnly |-> FALSE, unique |-> FALSE,
     shouldBeReferenced |-> FALSE, derived |-> {}, explicit |-> FALSE]
Event == [Type("event") EXCEPT !.path = AnyPath]
TheFile == [dir |-> <<"e">>, name |-> "f", extension |-> "txt", place |-> {}]
Env ==
    [types |-> <<Event, [Type("ship") EXCEPT !.shouldBeReferenced = TRUE]>>,
     roots |-> ("event" :> [rules |-> Effects, opts |-> Opts]),
     instances |-> ("ship" :> {"a", "b"} @@ "technology" :> {"a", "b"}),
     scopeLinks |-> {}, linkSets |-> {}, members |-> <<>>, enums |-> <<>>, valueSets |-> <<>>,
     aliases |-> ("effect" :> Category(Commands)), affixed |-> <<>>, core |-> <<>>,
     reg |-> Registry, game |-> "stellaris", complete |-> TRUE, limits |-> [branches |-> 100, armAfter |-> 100, memoEntries |-> 9, memoErrors |-> 9],
     checks |-> [scope |-> TRUE, variables |-> TRUE], builtins |-> {}, variables |-> {}, files |-> {}, file |-> TheFile,
     loc |-> <<>>, extraLoc |-> {}, locData |-> <<>>, scripts |-> <<>>, holes |-> <<>>, modifierKeys |-> <<>>,
     inFile |-> <<>>, defined |-> <<>>, eventScope |-> ("ship_event" :> "ship"), pretriggers |-> <<>>, killer |-> <<>>,
     derivedKey |-> <<>>, inName |-> <<>>]

Few == {Field("sink", "a"), Field("sink", "c"), Field("pick", "b"), Field("pick", "c")}
Wraps(bodies) == {Block("wrap", b) : b \in bodies}
Pairs(A, B) == {<<a, b>> : a \in A, b \in B}
Bodies ==
    LET shallow == Wraps(BoundedSeq(Few, 2))
    IN Pairs(Wraps(BoundedSeq(Few, 1)) \cup Few, Few) \cup Pairs(Wraps({<<f>> : f \in Few}), shallow)
       \cup {<<w>> : w \in Wraps({<<w>> : w \in shallow})}
ValidationProbes == {Tree(<<Block("event", <<w>>)>>) : w \in Wraps(Bodies)}

Validated(probe, branches, armAfter) ==
    Check!ValidatePrepared([Env EXCEPT !.limits.branches = branches, !.limits.armAfter = armAfter], probe)
-----------------------------------------------------------------------------
\* Files that meet every kind of rule, in a game with every kind of check.
Enums == ("colour" :> [values |-> {"red", "blue"}, constants |-> FALSE, authoritative |-> FALSE])
Paths == ("x" :> [path |-> "p/x", sibling |-> "p/x2", beside |-> "e/x"])
Variable == <<"variable", 0, 9, TRUE, FALSE>>
HeroRules ==
    <<LeafRule(Of("kind"), <<"enum", "colour">>, [Opts EXCEPT !.min = 1]),
      LeafRule(Of("flag"), <<"bool">>, [Opts EXCEPT !.default = <<TRUE>>]),
      LeafRule(Of("title"), <<"localisation", TRUE, FALSE>>, Opts), LeafRule(Of("desc"), <<"localisation", FALSE, TRUE>>, Opts),
      LeafRule(Of("icon"), <<"file", Paths>>, Opts), LeafRule(Of("amount"), Variable, Opts),
      LeafRule(Of("amount2"), <<"variable", 0, 9, FALSE, TRUE>>, Opts),
      LeafRule(Of("known"), <<"variable get", "variable">>, Opts), LeafRule(Of("target"), <<"scope", <<"planet">>>>, Opts),
      LeafRule(Of("weight"), <<"math">>, Opts), LeafRule(Of("once"), <<"percent">>, [Opts EXCEPT !.max = 1, !.severity = "error"]),
      LeafRule(Of("alone"), <<"scalar">>, [Opts EXCEPT !.onlyMatch = TRUE]),
      LeafRule(Of("here"), <<"date">>, [Opts EXCEPT !.scopes = <<"ship">>]),
      LeafRule(<<"ignore", Of("skip")>>, <<"scalar">>, Opts),
      NodeRule(Of("typed"), <<LeafRule(<<"type", "ship">>, <<"hex">>, Opts)>>, Opts), LeafRule(<<"alias", "modifier">>, <<"scalar">>, Opts),
      NodeRule(Of("block"), Effects, [Opts EXCEPT !.replace = <<[this |-> "ship", root |-> "ship", froms |-> <<"ship">>,
                                                                  prevs |-> <<>>]>>]),
      NodeRule(<<"alias", "effect">>, <<>>, Opts), LeafRule(<<"alias", "effect">>, <<"alias", "effect">>, Opts),
      [kind |-> "value", left |-> Of(""), right |-> <<"type", "ship">>, body |-> <<>>, opts |-> [Opts EXCEPT !.max = 1]],
      [kind |-> "value clause", left |-> Of(""), right |-> <<"scalar">>, body |-> Effects, opts |-> [Opts EXCEPT !.min = 1]],
      [kind |-> "subtype", left |-> Of(""), right |-> <<"scalar">>, opts |-> Opts, name |-> "big", positive |-> TRUE,
       body |-> <<LeafRule(Of("size"), <<"value scope">>, Opts)>>]>>
Big == [name |-> "big", rules |-> <<LeafRule(Of("flag"), <<"bool">>, [Opts EXCEPT !.min = 1])>>, filter |-> {}, keyField |-> "",
        onlyIfNot |-> {"tiny"}, push |-> "ship"]
Hero == [Type("hero") EXCEPT !.path = [AnyPath EXCEPT !.paths = {<<"h">>}], !.subs = <<Big>>, !.unique = TRUE,
                             !.warningOnly = TRUE, !.derived = {"$_d"}, !.shouldBeReferenced = TRUE]
Wrapped == [Event EXCEPT !.name = "wrapped", !.path = [AnyPath EXCEPT !.paths = {<<"w">>}],
                         !.skip = <<[is |-> "specific", key |-> "outer"], [is |-> "any"]>>]
SampleCommands ==
    [a \in {"owner.capital", "owner.nobody"} |-> <<NodeRule(Of(a), Effects, Opts)>>]
    @@ ("calc" :> <<LeafRule(Of("calc"), <<"math">>, Opts)>>
        @@ "loop" :> <<NodeRule(Of("loop"), <<LeafRule(Of("value"), <<"variable set", "variable">>, Opts),
                                             LeafRule(Of("get"), <<"variable get", "variable">>, Opts)>>, Opts)>>)
    @@ Commands
Pattern(kind, name, middle) == [kind |-> kind, name |-> name, middle |-> middle,
                                rule |-> LeafRule(Of(name), <<"scalar">>, Opts)]
Patterns == <<Pattern("type", "ship", "x_a" :> "a"), Pattern("enum", "colour", "x_red" :> "red"),
              Pattern("enum", "none", "x_none" :> "none"), Pattern("value", "flags", "x_f" :> "f"),
              Pattern("value", "gone", "x_gone" :> "gone")>>
Loc == [perLang |-> ("english" :> {<<"a">>}), union |-> {<<"a">>}, langs |-> <<"english", "french">>,
        entries |-> (<<"a">> :> [commands |-> <<<<"o", ".", "g">>>>, chains |-> <<<<[key |-> <<"g">>]>>>>])]
HeroEnv ==
    [Env EXCEPT !.types = <<Event, Hero, [Type("ship") EXCEPT !.shouldBeReferenced = TRUE], Wrapped>>,
                !.roots = ("hero" :> [rules |-> HeroRules, opts |-> Opts] @@ "wrapped" :> [rules |-> Effects, opts |-> Opts]) @@ @,
                !.enums = Enums, !.files = {"p/y"}, !.variables = {"v1"}, !.loc = <<Loc>>, !.valueSets = ("flags" :> {"f"}),
                !.locData = [reg |-> Registry, terminals |-> {"getname"}, variables |-> <<{}>>, scriptedLocs |-> <<{}>>],
                !.aliases = ("effect" :> [exact |-> SampleCommands, patterns |-> Patterns,
                                          scopeField |-> <<NodeRule(<<"scope", <<>>>>, Effects, Opts)>>]
                             @@ "modifier" :> Category("speed" :> <<LeafRule(Of("speed"), <<"float", 0, 9>>, Opts)>>)),
                !.modifierKeys = <<{"speed", "strength"}>>, !.file = [TheFile EXCEPT !.dir = <<"h">>],
                !.affixed = ("a" :> ("a_x" :> {"x"})), !.holes = ("$arg$" :> [names |-> <<"arg">>, texts |-> (<<"a">> :> "a" @@ <<"$">> :> "$arg$")]),
                !.scripts = <<"one" :> Tree(<<Field("sink", "$arg$"), Block("inline_script", <<Field("script", "two")>>)>>)
                              @@ "two" :> Tree(<<Field("inline_script", "one"), Block("inline_script", <<Field("script", "one")>>)>>)>>,
                !.inFile = <<[type |-> "hero", name |-> "a", at |-> 1]>>, !.defined = (<<"hero", "a">> :> 2)]
HeroBody ==
    <<Field("kind", "re"), Field("kinf", "red"), Bool("flag", "yes"), Field("title", "a"), Field("desc", "quoted"), Field("icon", "x"),
      Num("amount", "2.5"), Num("amount2", "0"), Field("amount", "v2"), Field("known", "v2"), Field("target", "ship"),
      Field("target", "owner.nobody"), Block("weight", <<Num("value", "3")>>), Field("once", "a"), Field("once", "b"),
      Field("alone", "x"), Field("here", "x"), Field("skip", "x"), Block("typed", <<Field("a", "x")>>), Bare("typed"), Num("speed", "0"), Num("strength", "0"),
      Block("block", <<Field("sink", "a"), Field("x_a", "b"), Field("x_red", "b"), Field("x_none", "b"), Field("x_f", "b"),
                       Field("x_gone", "b"), Block("ship:a", <<>>), Field("owner.nobody", "x"), Block("calc", <<Bare("x")>>),
                       Block("loop", <<Field("value", "w"), Field("get", "w"), Field("get", "v"), Field("get", "u")>>)>>),
      Block("owner.capital", <<>>), Bare("a"), Bare("b"), Check!LeafValue(Check!Clause(<<Field("sink", "b")>>)),
      Block("inline_script", <<Field("script", "one"), Field("arg", "a")>>), Field("inline_script", "x"), Bool("size", "no"),
      Field("@k", "x"), Block("other", <<>>), Check!Comment>>
SampleHero == Check!ValidatePrepared(HeroEnv, Tree(<<Block("a", HeroBody)>>))

\* Conditions, chains, events, technologies, designs and killers.
PlaceEnv(game, place) ==
    [HeroEnv EXCEPT !.game = game, !.file = [TheFile EXCEPT !.dir = <<"z">>, !.place = place], !.types = <<>>, !.inFile = <<>>,
                    !.pretriggers = ("pop" :> {"is_capital"} @@ "ship" :> {"is_ai"}),
                    !.instances = ("technology" :> {} @@ "section_template" :> {"s"} @@ "component_template" :> {"t"}
                                   @@ "on_action" :> {"destroy_k"} @@ "scripted_trigger" :> {"can_k"}),
                    !.killer = (<<"on_action", "k">> :> "destroy_k" @@ <<"scripted_trigger", "k">> :> "other")]
Always(word) == Bool("always", word)
Structures ==
    <<Block("ship_event", <<Block("trigger", <<Field("is_ai", "yes"), Block("is_ai", <<>>)>>),
                            Block("NOT", <<Field("a", "x"), Field("b", "x")>>),
                            Block("OR", <<Block("OR", <<Block("AND", <<Block("AND", <<>>)>>)>>)>>),
                            Block("AND", <<Num("value", "3"), Block("AND", <<>>)>>),
                            Block("if", <<Block("limit", <<>>)>>), Block("else", <<>>), Block("else", <<>>),
                            Block("if", <<Block("if", <<>>), Block("else", <<>>)>>), Block("else_if", <<Block("else", <<>>)>>)>>),
      Block("event", <<Block("trigger", <<Always("no")>>)>>), Block("allowed_civil_war", <<Always("no")>>),
      Block("set_empire_name", <<>>),
      Block("ship_design", <<Block("section", <<Field("template", "x")>>), Block("component", <<Field("template", "t")>>),
                             Block("section", <<Field("template", "default_construction_section")>>)>>),
      Block("tech", <<Field("area", "a"), Num("weight", "0"), Block("research_leader", <<Field("area", "b")>>),
                      Block("x", <<Block("research_leader", <<>>)>>)>>),
      Block("tech2", <<Block("category", <<Bare("x")>>), Block("weight_modifier", <<Num("factor", "0")>>)>>),
      Block("job", <<Block("possible", <<Field("is_capital", "yes")>>)>>),
      Block("killer", <<Field("type", "planet_killer"), Field("key", "k")>>)>>
SamplePlaces ==
    [g \in {"stellaris", "hoi4"} |->
        Check!ValidatePrepared(PlaceEnv(g, {"events", "common/technology", "common/pop_jobs", "common/component_templates"}),
                               Tree(Structures))]
WrappedEnv == [HeroEnv EXCEPT !.file = [TheFile EXCEPT !.dir = <<"w">>, !.place = {"scripted_effects"}]]
SampleWrapped ==
    Check!ValidatePrepared(WrappedEnv, Tree(<<Block("outer", <<Block("next", <<Block("last", <<Field("sink", "c")>>), Bare("x")>>),
                                                               Bare("y")>>)>>))
SampleWhole == Check!ValidatePrepared([WrappedEnv EXCEPT !.types = <<[Wrapped EXCEPT !.perFile = TRUE, !.skip = <<>>]>>],
                                      Tree(<<Field("sink", "c")>>))
Heroes == <<[type |-> "hero", name |-> "a", at |-> 1, requiredLoc |-> <<"loc">>]>>
SampleChecks ==
    [unused |-> Check!CheckUnusedInstances(HeroEnv, Heroes, {}),
     missing |-> Check!CheckMissingLocalisation([HeroEnv EXCEPT !.derivedKey = (<<"$_d", "a">> :> "a_d")], Heroes, {"loc"}),
     ignored |-> [l \in 0..4 |-> Check!InlineSuppressed(2 :> {"cw1"}, l, "cw1")],
     keys |-> Check!BuildModifierKeys([HeroEnv EXCEPT !.inName = ("m_<ship>" :> [type |-> "ship", named |-> ("a" :> "m_a" @@ "b" :> "m_b")])],
                  {"Ship", "m_<ship>"})]

-----------------------------------------------------------------------------
\* Places in files of commands: `step` leads to ships, `owner` from them, `fork`
\* has two readings in different scopes and `twin` two in one scope.
Places ==
    ("step" :> <<NodeRule(Of("step"), Effects, [Opts EXCEPT !.push = "ship"])>>
     @@ "twin" :> <<NodeRule(Of("twin"), Effects, [Opts EXCEPT !.push = "ship"]),
                    NodeRule(Of("twin"), HeroRules, [Opts EXCEPT !.push = "ship"])>>
     @@ "fork" :> Commands["wrap"] @@ "calc" :> SampleCommands["calc"] @@ "sink" :> Commands["sink"])
PlacesEnv ==
    [Env EXCEPT !.scopeLinks = {"owner"},
                !.aliases = ("effect" :> [Category(Places) EXCEPT !.scopeField = <<NodeRule(<<"scope", <<>>>>, Effects, Opts)>>])]
Sink == Field("sink", "a")
Holding(bodies) == {Block(k, b) : k \in {"step", "owner", "fork", "twin"}, b \in bodies}
PlaceProbes ==
    LET inner == Holding({<<>>, <<Sink>>})
    IN {Tree(<<Block("event", body)>>) : body \in Pairs(Holding({<<>>, <<Sink>>, <<Sink, Sink>>} \cup Pairs(inner, {Sink})), {Sink})
                                                  \cup Pairs({Sink}, Holding({<<w>> : w \in Holding(Pairs(inner, {Sink}))}))}
\* The commands of a tree around which every block has one reading.
RECURSIVE Plain(_)
Plain(children) ==
    LET of(ch) == CASE ch.key = "sink" -> {ch}
                    [] ch.key \in {"fork", "twin"} -> {}
                    [] OTHER -> Plain(ch.value.children)
    IN UNION {of(ch) : ch \in ToSet(children)}
\* Blocks that hold nothing keep the first column of what follows them.
IsEmptyBlock(ch) == Check!IsClause(ch) /\ ch.value.children = <<>>
RECURSIVE AfterEmpty(_)
AfterEmpty(children) ==
    UNION {IF IsEmptyBlock(ch) THEN {ch.range.end.line} ELSE AfterEmpty(ch.value.children) : ch \in ToSet(children)}
Window == [first |-> 1, last |-> 99, max |-> 99]
Asked(probe) ==
    [cursor |-> [at \in {0, 1, 4} |-> [sink \in Plain(probe) |->
                    Check!RulesAtPos(PlacesEnv, probe, [line |-> sink.from, col |-> at], FALSE).scope]],
     shown |-> Check!ScopeTransitions(PlacesEnv, probe, Window)]
\* The cursor, the hints and validation are of one mind about a command.
Agreed(probe, asked, sink, at) ==
    LET around == {t \in ToSet(asked.shown) : t.range.start.line < sink.from /\ sink.from < t.range.end.line}
        inmost == CHOOSE t \in around : \A u \in around : u.range.start.line <= t.range.start.line
        scope == asked.cursor[at][sink]
        current == Check!Current(scope[1])
        errors == Check!ValidatePrepared(PlacesEnv, probe).errors
    IN /\ scope # <<>>
       /\ current = IF around = {} THEN Check!Current(Check!InitialScope(PlacesEnv)) ELSE inmost.resolved
       /\ Check!ScopeMatchesRequired(Registry, current, <<"ship">>)
            <=> ~\E i \in DOMAIN errors : errors[i].code = "CW105" /\ errors[i].at = sink.from

-----------------------------------------------------------------------------
\* Scopes: what a configuration says of the scopes of the tables, in every
\* order the hash map of the tables may give.
Table == Check!FromHardcoded(
    <<[id |-> 2, scope |-> Check!Scope(<<"Country", "country">>, {})], [id |-> 3, scope |-> Check!Scope(<<"Ship", "ship">>, {2})],
      [id |-> 4, scope |-> Check!Scope(<<"Planet", "planet">>, {2, 3})]>>,
    <<[names |-> {"owner"}, from |-> {3, 4}, to |-> 2], [names |-> {"capital"}, from |-> {2}, to |-> 4],
      [names |-> {"flagship", "lead"}, from |-> {2}, to |-> 3]>>)
ConfigScope(names, parents) == [names |-> names, parents |-> parents]
Configured == {ConfigScope(<<"Ship", "ship">>, {"country"}), ConfigScope(<<"Country", "country">>, {}),
               ConfigScope(<<"World", "Planet">>, {}), ConfigScope(<<"Invalid">>, {}), ConfigScope(<<"x">>, {"ship", "nobody"})}
ConfigLink == [name |-> "owner", prefix |-> "", from |-> {"ship", "nobody"}, to |-> "country"]
ScopeProbes ==
    {[scopes |-> <<a>> \o b, links |-> l, order |-> o]
        : a \in Configured, b \in BoundedSeq(Configured, 1), l \in BoundedSeq({ConfigLink}, 1), o \in SetToSeqs({2, 3, 4})}
BuildRegistry(probe) == Check!FromConfig(probe.scopes, probe.links, Table, probe.order)

Stand(scopes) == [root |-> 100, scopes |-> scopes, from |-> <<101>>]
SampleScopes ==
    [built |-> Check!FromConfig(<<>>, <<>>, Table, <<2, 3, 4>>).links = Table.links,
     names |-> [id \in {0, 1, 100, 102, 999} |-> Check!NameOf(Registry, id)],
     moves |-> [w \in {"this", "ROOT", "root", "prev", "prevprev", "from", "root_from", "not", "owner", "@k", "any"} |->
                   Check!ChangeScope(Registry, Stand(<<101, 102>>), Check!Key(w)).result],
     replaced |-> {Check!ApplyReplaceScope(Registry, Stand(s), [this |-> "ship", root |-> r, froms |-> <<"3", "nobody">>, prevs |-> p])
                      : s \in {<<>>, <<101, 102>>}, r \in {"planet", "nobody"}, p \in {<<>>, <<"country">>}}]

-----------------------------------------------------------------------------
\* Texts of localisation, and the files they stand in.
TextProbes == BoundedSeq({"[", "]", "$", "|", ".", "a"}, 5)
ReadText(probe) == Check!ParseLocElements(probe)
ReadPlainly(probe) == Check!PlainElements(probe, 1, 0)

Header(c) == <<" ", c, ":">>
LocLines ==
    <<<<"#">>, Header("e"), <<>>, <<"a", ":", "0", " ", "\"", "[", "o", ".", "g", "]", "$", "A", "$", "\"", "#">>,
      <<"a", " ", ":", "a", "\"", "$", "a", "|", "a", "$">>, <<"a", "a">>, <<"b", "*", ":", " ", "~", "$", "?", "$">>,
      <<"A", ":", " ", "\"", "[", "o", "(", " ", "'", "a", "'", ",", "g", ".", "o", "(", "x", ")", "]", "[", "a", "(", "]", "\"">>,
      <<"o", ":", " ", "[", "?", ".", "g", "]", "[", "o", ".", "o", "]", "[", ".", "]", "[", "x", ".", "y", "]">>>>
CsvLines == <<<<"#">>, <<"a", ";", "x", ";", "y">>, <<";", "x">>, <<" ", "A", ";", ";", "x">>>>
LocFile(path, lines, csv, size, encoding) ==
    [path |-> path, stem |-> [name |-> path, lang |-> "english"], csv |-> csv, lines |-> lines, encoding |-> encoding,
     size |-> size, readable |-> TRUE]
LocFiles ==
    <<LocFile("p1", LocLines, FALSE, 3, "utf8"), LocFile("p2", <<Header("l"), <<"o", ":", " ", "[", "g", "]">>>>, FALSE, 2, "not utf8"),
      LocFile("p3", CsvLines, TRUE, 2, "utf8 without bom"), LocFile("p4", <<<<"#">>>>, FALSE, 1, "utf8"),
      LocFile("Languages", <<<<"x", ":">>>>, FALSE, 1, "utf8"), [LocFile("p5", <<>>, FALSE, 0, "utf8") EXCEPT !.readable = FALSE],
      LocFile("p6", LocLines, FALSE, 9, "utf8"), LocFile("p7", <<<<"x", ":">>>>, FALSE, 1, "utf8")>>
LocRead(langs) == Check!FromPaths(LocFiles, [bytes |-> 12], langs).files
LocNames == {<<"o">>, <<"g">>}
Entry(is, name, entries) ==
    [is |-> is, name |-> name, entries |-> entries, loc |-> TRUE, excluded |-> FALSE, excludedAtRoot |-> name = "gfx"]
LocFolder ==
    <<Entry("folder", "gfx", <<>>), Entry("file", "f1", <<>>),
      Entry("folder", "localisation", <<Entry("file", "f2", <<>>), Entry("symlink", "s", <<>>), Entry("folder", "gfx", <<Entry("file", "f3", <<>>)>>),
                                        Entry("file", "f4", <<>>)>>)>>
SampleText ==
    LET all == LocRead({})
        idx == Check!BuildScoped(all, {"english", "french"})
        data == HeroEnv.locData
        knowing == [data EXCEPT !.variables = <<>>, !.scriptedLocs = <<>>]
        chains == {<<"?v", "GetName">>, <<"owner", "?v", "x">>, <<"x", "owner">>, <<"capital">>, <<"x">>}
    IN [read |-> [langs \in {{}, {"english"}} |-> Check!FromPaths(LocFiles, [bytes |-> 12], langs)],
        walked |-> [n \in {1, 9} |-> Check!WalkFolder(LocFolder, [inLoc |-> FALSE, atRoot |-> TRUE], n, {"f4"}).files],
        index |-> [idx EXCEPT !.entries = DOMAIN @],
        merged |-> Check!MergeFrom(Check!MergeCachedKeys(Check!NoLocIndex, <<[lang |-> "french", keys |-> {<<"o">>}]>>, {}), idx, {}).perLang,
        synced |-> [k \in {<<"a">>, <<"o">>} |-> Check!MissingSyncedLanguages(idx, k)],
        project |-> Check!ValidateLocProject(all, {"english"}, idx.union, {}, LocNames),
        open |-> Check!ValidateParsedLocFiles(all, idx.union, {<<"a">>}, {}),
        commands |-> [d \in {data, knowing} |-> Check!ValidateLocProjectCommands(d, all, {})],
        chain |-> [c \in chains |-> Check!ValidateJominiChain(data, 101, c)],
        command |-> [c \in chains |-> Check!ValidateCommandString(data, 101, c)]]
=============================================================================
