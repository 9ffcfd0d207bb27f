------------------------------- MODULE RuleSets -------------------------------
(***************************************************************************)
(* Rules and the other sections of a rule file, and the ruleset the files  *)
(* of a directory make together (crate rules: field_parser, enums,         *)
(* scopes_links, fill_ruleset, ruleset_loader, config_validation,          *)
(* rules_types).  A field is spelled by a keyword, by a bracketed form     *)
(* form[name] or as a word; a value of the tree carries its form in `is`,  *)
(* a key in its first component.  Files are merged in the order they were  *)
(* found, post-processed, indexed, and checked for references to what      *)
(* nobody defines.                                                         *)
(***************************************************************************)
EXTENDS RuleConverter, PostProcess

CONSTANTS RangeEnds,      \* the names that are ranges, and the words at their ends
          AliasParts      \* alias name -> <<category, key>>, for the names with a colon

Limits == [int |-> <<-2147483647, Infinity>>, float |-> <<-1000000000, 1000000000>>]
End(word, limit) ==
    CASE word = "inf" -> limit[2] [] word = "-inf" -> limit[1] [] OTHER -> Parse(word, "malformed")

\* int[..] and float[..] take both ends or neither.
StrictRange(kind, name) ==
    LET ends == [i \in {1, 2} |-> End(RangeEnds[name][i], Limits[kind])]
    IN IF name \in DOMAIN RangeEnds /\ RangeEnds[name][1] \in DOMAIN NumberOf \cup {"inf", "-inf"}
            /\ RangeEnds[name][2] \in DOMAIN NumberOf \cup {"inf", "-inf"}
       THEN ends ELSE Limits[kind]
\* The variable and value forms take each end that is well formed.
LooseRange(kind, name) ==
    [i \in {1, 2} |->
        IF name \in DOMAIN RangeEnds /\ RangeEnds[name][i] \in DOMAIN NumberOf \cup {"inf", "-inf"}
        THEN End(RangeEnds[name][i], Limits[kind]) ELSE Limits[kind][i]]

Keywords ==
    [scalar |-> Scalar, bool |-> Field("value", "bool"), int |-> Field("int", Limits.int),
     float |-> Field("float", Limits.float), math_expr |-> Field("value", "math"),
     percentage_field |-> Field("value", "percent"), percent_field |-> Field("value", "percent"),
     date_field |-> Field("value", "date"), datetime_field |-> Field("value", "date and time"),
     localisation |-> Field("localisation", "key"), localisation_synced |-> Field("localisation", "synced"),
     localisation_inline |-> Field("localisation", "inline"), filepath |-> Field("file", NoWord),
     scope_field |-> Field("scope", "any"), variable_field |-> Field("variable", Limits.float),
     int_variable_field |-> Field("variable", Limits.int), value_field |-> Field("value marker", Limits.float),
     int_value_field |-> Field("value marker", Limits.int), ignore_field |-> Field("ignore marker", NoWord),
     ir_country_tag_field |-> Tag, colour_field |-> Field("colour", NoWord),
     color_field |-> Field("colour", NoWord)]

ParseNumericRange(form, name) == Field(form, StrictRange(form, name))
ParseNamedBracket(form, name) ==
    CASE form \in {"enum", "complex_enum"} -> Field("enum", name)
      [] form = "value" -> Field("variable get", name)
      [] form = "value_set" -> Field("variable set", name)
ParseScopeAliasBracket(form, name) ==
    CASE form \in {"scope", "event_target"} -> Field("scope", name)
      [] form = "scope_group" -> Field("scope", "any")
      [] form = "alias_keys_field" -> Field("alias keys", name)
      [] form \in {"alias_name", "alias_match_left"} -> Field("alias", name)
      [] form = "single_alias_right" -> Field("single alias", name)
ParseVariableValueRange(form, name) ==
    Field(IF form \in {"value_field", "int_value_field"} THEN "value marker" ELSE "variable",
          LooseRange(IF form \in {"int_variable_field", "int_value_field"} THEN "int" ELSE "float", name))
ParseMiscBracket(form, name) ==
    CASE form = "icon" -> Field("icon", name)
      [] form = "colour" -> Field("colour", NoWord)

\* The forms in the order they are tried: a keyword wins over everything.
FieldFromString(form, name) ==
    CASE form \in {"", "string"} /\ name \in DOMAIN Keywords -> Keywords[name]
      [] form = "filepath" -> Field("file", name)
      [] form \in {"int", "float"} -> ParseNumericRange(form, name)
      [] form \in {"enum", "complex_enum", "value", "value_set"} -> ParseNamedBracket(form, name)
      [] form \in {"scope", "event_target", "scope_group", "alias_keys_field", "alias_name",
                   "alias_match_left", "single_alias_right"} -> ParseScopeAliasBracket(form, name)
      [] form \in {"variable_field", "int_variable_field", "value_field", "int_value_field"} ->
             ParseVariableValueRange(form, name)
      [] form \in {"icon", "colour"} -> ParseMiscBracket(form, name)
      [] form = "<>" -> Field("type", name)
      [] OTHER -> Field("specific", name)

KeyField(key) == FieldFromString(key[1], key[2])
ValueField(value) == FieldFromString(value.is, value.word)

-----------------------------------------------------------------------------
(* Rules.                                                                  *)

\* A colour is three or four numbers, of whole or of broken parts.
ColourPart(kind, range) == LeafValueRule(Field(kind, range), "3..4")
BuildColourRules(name) ==
    (IF name = "hsv" THEN <<>> ELSE <<ColourPart("int", <<0, 255>>)>>)
        \o (IF name = "rgb" THEN <<>> ELSE <<ColourPart("float", <<0, 2>>)>>)

RECURSIVE ChildrenToRules(_)
ChildToRule(c, opts) ==
    CASE c.kind = "leaf" /\ c.key[1] = "subtype" ->
            SubtypeRule(ChildrenToRules(c.value.children), [opts EXCEPT !.comparison = FALSE])
      [] c.kind = "leaf" /\ c.key[1] # "subtype" /\ c.value.is = "clause" ->
            NodeRule(KeyField(c.key), ChildrenToRules(c.value.children), opts)
      [] c.kind = "leaf" /\ c.key[1] # "subtype" /\ c.value.is = "colour" ->
            NodeRule(KeyField(c.key), BuildColourRules(c.value.word), opts)
      [] c.kind = "value" /\ c.value.is = "clause" -> ValueClauseRule(ChildrenToRules(c.value.children), opts)
      [] c.kind = "value" /\ c.value.is # "clause" -> LeafValueRule(ValueField(c.value), opts)
      [] OTHER -> LeafRule(KeyField(c.key), ValueField(c.value), opts)
ChildrenToRules(children) ==
    LET kept == SelectSeq([i \in DOMAIN children |-> i], LAMBDA i : children[i].kind # "comment")
    IN [k \in DOMAIN kept |->
           ChildToRule(children[kept[k]],
                       OptionsFromComments(PrecomputeComments(children, kept[k]), children[kept[k]].op = "=="))]

\* At the root a clause keeps its key as it is spelled.
LeafToRule(c, opts) ==
    IF c.value.is = "clause"
    THEN NodeRule(Field("specific", c.key[2]), ChildrenToRules(c.value.children), opts)
    ELSE LeafRule(KeyField(c.key), ValueField(c.value), opts)

-----------------------------------------------------------------------------
(* Enumerations, values, modifiers, scopes and links.                      *)

ProcessEnumNode(name, c, above) ==
    [name |-> name, values |-> CollectLeafValues(c.value.children),
     description |-> IF Description(above) = <<>> THEN <<name>> ELSE Description(above)]

RECURSIVE BuildNameTree(_)
NameEntry(c) ==
    CASE c.kind = "leaf" /\ c.value.is = "clause" ->
            <<[kind |-> "node", key |-> c.key[2], inner |-> BuildNameTree(c.value.children)]>>
      [] c.kind = "leaf" /\ c.value.is # "clause" ->
            <<[kind |-> IF c.value.word \in {"enum_name", "this"} THEN "name value" ELSE "leaf",
               key |-> c.key[2], inner |-> <<>>]>>
      [] c.kind = "value" /\ c.value.word \in {"enum_name", "this"} ->
            <<[kind |-> "bare name", key |-> NoWord, inner |-> <<>>]>>
      [] OTHER -> <<>>
BuildNameTree(children) == FoldLeft(LAMBDA acc, c : acc \o NameEntry(c), <<>>, children)

ProcessComplexEnum(name, c, above) ==
    LET children == c.value.children
        said(key) == \E i \in DOMAIN children : children[i].kind = "leaf" /\ children[i].key = <<"", key>>
                                                  /\ children[i].value.word = "yes"
    IN [name |-> name, tree |-> BuildNameTree(LastBlock(children, "name")), paths |-> WordsOf(children, "path"),
        strict |-> said("path_strict"), fromRoot |-> said("start_from_root"),
        file |-> LastWord(children, "path_file", NoWord),
        extension |-> LastWord(children, "path_extension", NoWord)]

Pairs(children) ==
    LET hits == Indices(children, LAMBDA c : c.key[2] # NoWord)
    IN [k \in DOMAIN hits |-> <<children[hits[k]].key[2], children[hits[k]].value.word>>]
Entries(children) == Indices(children, LAMBDA c : IsBlock(c) /\ c.key[2] # NoWord)

ExtractModifierCategories(children) ==
    LET hits == Entries(children)
    IN [k \in DOMAIN hits |-> <<children[hits[k]].key[2],
                                ClauseValues(ChildrenOf(children[hits[k]]), "supported_scopes")>>]
ExtractScopeDefs(children) ==
    LET hits == Entries(children)
        body(k) == ChildrenOf(children[hits[k]])
    IN [k \in DOMAIN hits |-> [name |-> children[hits[k]].key[2], aliases |-> ClauseValues(body(k), "aliases"),
                               isSubscopeOf |-> ClauseValues(body(k), "is_subscope_of")]]
\* Type slots among the localisation commands are left out.
ExtractLocalisationCommands(children) ==
    {Fold(children[i].key[2]) : i \in {i \in DOMAIN children :
        children[i].kind = "leaf" /\ children[i].key[2] # NoWord /\ children[i].key[1] # "<>"}}
ScopeList(children, name) ==
    LET clause == ClauseValues(children, name)
    IN IF clause # <<>> THEN clause
       ELSE IF FirstWord(children, name) = NoWord THEN <<>> ELSE <<FirstWord(children, name)>>
\* A link without a block gives its name and nothing else.
ExtractLinks(children) ==
    LET hits == Entries(children)
        body(k) == ChildrenOf(children[hits[k]])
    IN [names |-> {Fold(p[1]) : p \in ToSet(Pairs(children))},
        links |-> [k \in DOMAIN hits |->
            [name |-> children[hits[k]].key[2], prefix |-> FirstWord(body(k), "prefix"),
             outputScope |-> FirstWord(body(k), "output_scope"), inputScopes |-> ScopeList(body(k), "input_scopes"),
             fromData |-> SameWord(FirstWord(body(k), "from_data"), "yes"),
             dataSource |-> WordsOf(body(k), "data_source")]]]

-----------------------------------------------------------------------------
(* One file.                                                               *)

\* The sections are recognised by their names; every other leaf of the root is
\* an alias, a single alias or the rules of a type.
Sections == {"types", "enums", "values", "modifiers", "modifier_categories", "links", "scopes",
             "localisation_commands"}
SectionsNamed(children, name) ==
    LET hits == Indices(children, LAMBDA c : c.key = <<"", name>> /\ IsBlock(c))
    IN [k \in DOMAIN hits |-> ChildrenOf(children[hits[k]])]
Section(children, name, Extract(_)) ==
    FoldLeft(LAMBDA acc, section : acc \o Extract(section), <<>>, SectionsNamed(children, name))

RootForm(key) == IF key[1] \in {"alias", "single_alias"} THEN key[1] ELSE "type"
ProcessRootLeaf(children, form) ==
    LET hits == Indices(children, LAMBDA c : RootForm(c.key) = form /\ ~(c.key[1] = "" /\ c.key[2] \in Sections))
        opts(i) == OptionsFromComments(PrecomputeComments(children, i), children[i].op = "==")
    IN [k \in DOMAIN hits |-> [name |-> children[hits[k]].key[2],
                               rule |-> LeafToRule(children[hits[k]], opts(hits[k]))]]

FillRuleset(children) ==
    [types |-> Section(children, "types", ExtractTypes),
     enums |-> Section(children, "enums", LAMBDA c : Extracted(c, "enum", ProcessEnumNode)),
     complexEnums |-> Section(children, "enums", LAMBDA c : Extracted(c, "complex_enum", ProcessComplexEnum)),
     values |-> Section(children, "values", LAMBDA c : Extracted(c, "value", ProcessEnumNode)),
     modifiers |-> Section(children, "modifiers", Pairs),
     categories |-> Section(children, "modifier_categories", ExtractModifierCategories),
     links |-> Section(children, "links", LAMBDA c : <<ExtractLinks(c)>>),
     scopes |-> Section(children, "scopes", ExtractScopeDefs),
     commands |-> Section(children, "localisation_commands", LAMBDA c : <<ExtractLocalisationCommands(c)>>),
     aliases |-> ProcessRootLeaf(children, "alias"),
     singleAliases |-> ProcessRootLeaf(children, "single_alias"),
     roots |-> ProcessRootLeaf(children, "type")]

-----------------------------------------------------------------------------
(* Finding the files.  An entry is a file, a link or a directory with its  *)
(* entries; the entries of a directory come sorted by name.                *)

RECURSIVE CollectCwtFiles(_)
CollectCwtFiles(entries) ==
    FoldLeft(LAMBDA acc, e : CASE e.kind = "directory" -> acc \o CollectCwtFiles(e.entries)
                               [] e.kind = "file" /\ e.cwt -> Append(acc, e)
                               [] OTHER -> acc, <<>>, entries)

-----------------------------------------------------------------------------
(* One file.                                                               *)

Refs == {"type", "enum", "single alias"}
FieldRef(field) == IF field[1] \in Refs THEN {field} ELSE {}

\* Keys and values that name a type, an enumeration or a single alias, wherever
\* they stand in the file.
RECURSIVE CollectReferenceCandidates(_)
CollectReferenceCandidates(children) ==
    UNION {LET c == children[i]
           IN CASE c.kind = "comment" -> {}
                [] c.kind # "comment" /\ c.value.is = "clause" ->
                       FieldRef(KeyField(c.key)) \cup CollectReferenceCandidates(c.value.children)
                [] OTHER -> FieldRef(KeyField(c.key)) \cup FieldRef(ValueField(c.value))
           : i \in DOMAIN children}

CollectDefinitionPositions(children) ==
    {c \in ToSet(children) : c.kind = "leaf" /\ c.key[1] = "single_alias"}

RuleSections == {"types", "enums", "complexEnums", "values", "modifiers", "categories", "links", "scopes", "commands",
                 "aliases", "singleAliases", "roots"}
NoRules == [section \in RuleSections |-> <<>>]
Read(file) ==
    IF file.folders # <<>>
    THEN [done |-> TRUE, accepted |-> TRUE, rules |-> NoRules, folders |-> file.folders, refs |-> {}, errors |-> <<>>]
    ELSE [done |-> TRUE, accepted |-> TRUE, rules |-> FillRuleset(file.children), folders |-> <<>>,
          refs |-> CollectReferenceCandidates(file.children),
          errors |-> ValidateCommentDirectives(SelectSeq(file.children, LAMBDA c : c.kind = "comment"))]
Refused(why) == [done |-> TRUE, accepted |-> FALSE, rules |-> NoRules, folders |-> <<>>, refs |-> {}, errors |-> <<why>>]

-----------------------------------------------------------------------------
(* Merging.                                                                *)

MergeRuleset(dst, src) == [section \in DOMAIN dst |-> dst[section] \o src[section]]
Concat(files, F(_)) == FoldLeft(LAMBDA acc, f : acc \o F(f), <<>>, files)

\* What the merged rules define, under the names references use.
IsDefined(merged, ref) ==
    CASE ref[1] = "type" -> \E i \in DOMAIN merged.types : merged.types[i].name = ref[2]
      [] ref[1] = "enum" -> \/ \E i \in DOMAIN merged.enums : merged.enums[i].name = ref[2]
                            \/ \E i \in DOMAIN merged.complexEnums : merged.complexEnums[i].name = ref[2]
      [] ref[1] = "single alias" -> \E i \in DOMAIN merged.singleAliases : merged.singleAliases[i].name = ref[2]

RulesOf(named) == [i \in DOMAIN named |-> named[i].rule]

\* The whole tail of a load: merge, expand, index, resolve.
Process(merged) ==
    PostProcessed([rules |-> RulesOf(merged.roots) \o RulesOf(merged.aliases), singleAliases |-> merged.singleAliases])
Outcome(files, merged, processed) ==
    [done |-> TRUE, sections |-> merged, rules |-> processed.rules, singles |-> processed.singles,
     folders |-> Concat(files, LAMBDA f : f.folders), fileErrors |-> Concat(files, LAMBDA f : f.errors),
     unexpanded |-> {e[1] : e \in processed.errors},
     undefined |-> {r \in UNION {f.refs : f \in ToSet(files)} : ~IsDefined(merged, r)}]
Combine(files) ==
    LET merged == FoldLeft(LAMBDA acc, f : MergeRuleset(acc, f.rules), NoRules, files)
    IN Outcome(files, merged, Process(merged))

-----------------------------------------------------------------------------
(* The indexes over a merged ruleset.                                      *)

LastNamed(defs, name) ==
    LET hits == {i \in DOMAIN defs : defs[i].name = name}
    IN IF hits = {} THEN 0 ELSE CHOOSE i \in hits : \A j \in hits : j <= i
FirstNamed(defs, name) == ByName(defs, name)

\* An alias answers to its name as it is spelled and in lower case.
AliasExact(aliases, category, key) ==
    {i \in DOMAIN aliases : aliases[i].name \in DOMAIN AliasParts
        /\ LET parts == AliasParts[aliases[i].name]
           IN <<category, key>> \in {parts, <<Fold(parts[1]), Fold(parts[2])>>}}
ScopeFieldAlias(aliases, category) ==
    LET hits == {i \in DOMAIN aliases : aliases[i].name \in DOMAIN AliasParts
                                        /\ AliasParts[aliases[i].name] = <<category, "scope_field">>}
    IN IF hits = {} THEN 0 ELSE CHOOSE i \in hits : \A j \in hits : j <= i

\* The first value set a rule declares, its own key before its value and its body.
RECURSIVE ValueSets(_), BindingFields(_)
SetOf(field) == IF field[1] = "variable set" THEN <<field[2]>> ELSE <<>>
ValueSets(rule) ==
    SetOf(rule.left) \o SetOf(rule.right) \o Concat(rule.body, LAMBDA r : ValueSets(r))

\* The fields of an effect's body whose values become members.
BindingFields(rule) ==
    (IF rule.kind = "leaf" /\ rule.left[1] = "specific" /\ rule.right[1] = "variable set"
     THEN <<[field |-> Fold(rule.left[2]), ns |-> rule.right[2]]>> ELSE <<>>)
    \o (IF rule.kind = "node" /\ rule.left[1] = "specific"
        THEN Concat(rule.body, LAMBDA r : IF r.kind = "value" /\ r.right[1] = "variable set"
                                          THEN <<[field |-> Fold(rule.left[2]), ns |-> r.right[2]]>> ELSE <<>>)
        ELSE <<>>)
    \o Concat(rule.body, LAMBDA r : BindingFields(r))

\* The leaves one level into a root rule whose value is a type.
TypeReferenceRules(roots) ==
    UNION {{<<Fold(r.left[2]), r.right[2], roots[i].name>> :
               r \in {r \in ToSet(roots[i].rule.body) :
                         r.kind = "leaf" /\ r.left[1] = "specific" /\ r.right[1] = "type"}}
           : i \in {i \in DOMAIN roots : roots[i].rule.kind = "node"}}

Reindex(merged) ==
    [typeByName |-> [n \in {merged.types[i].name : i \in DOMAIN merged.types} |-> LastNamed(merged.types, n)],
     enumByName |-> [n \in {merged.enums[i].name : i \in DOMAIN merged.enums} |-> LastNamed(merged.enums, n)],
     typeRules |-> [n \in {merged.roots[i].name : i \in DOMAIN merged.roots} |-> FirstNamed(merged.roots, n)],
     references |-> TypeReferenceRules(merged.roots),
     effects |-> [i \in DOMAIN merged.aliases |-> [sets |-> ValueSets(merged.aliases[i].rule),
                                                   fields |-> BindingFields(merged.aliases[i].rule)]]]

-----------------------------------------------------------------------------
(* Properties.                                                             *)

\* No reference to a single alias survives a load unnoticed: it is either
\* reported as undefined or as left unexpanded (post_process.rs: Expander;
\* config_validation.rs: resolve_reference_candidates).
NoLeftovers(loaded) ==
    \A ref \in UNION {ToSet(CollectRefs(r)) : r \in ToSet(loaded.rules) \cup ToSet(loaded.singles)} :
        ref \in loaded.unexpanded \/ Field("single alias", ref) \in loaded.undefined
=============================================================================
