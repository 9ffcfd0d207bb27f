--------------------------- MODULE TypeResolution ---------------------------
(***************************************************************************)
(* Which type of the rules a node of a script is an instance of, and which *)
(* rules then hold inside it (crate validation: resolve.rs, subtype.rs,    *)
(* rule_core/matching.rs, rule_core/suggest.rs).                           *)
(*                                                                         *)
(* A rule is [kind, left, right, body, opts]; a field is <<kind, ...>>.    *)
(* `env` is what a validation knows: the types of the ruleset, its rules   *)
(* by name, aliases, enumerations and value sets, and the index.           *)
(***************************************************************************)
EXTENDS Collect, GameScopes

-----------------------------------------------------------------------------
(* The type of a file and of a root key.                                   *)

NoType == [name |-> NoWord]
SkipsRootKey(td, key) == td.skip # <<>> /\ SkipRootKeyMatches(td.skip[1], key)
RulesByName(env, name) == IF name \in DOMAIN env.roots THEN env.roots[name].rules ELSE <<>>
TypeByName(env, name) ==
    LET hits == SelectSeq(env.types, LAMBDA td : td.name = name)
    IN IF hits = <<>> THEN NoType ELSE hits[Len(hits)]
TypeHasContent(td, rules) == rules # <<>> \/ \E i \in DOMAIN td.subs : td.subs[i].rules # <<>>

\* Types whose path the file matches, each with the length of the longest
\* pattern that does; a type bound to a file name outweighs every folder.
Weight(td, file) ==
    LET lengths == {Len(p) : p \in {p \in td.path.paths : DirMatchesPattern(file.dir, p, td.path.strict)}}
        bonus == IF td.path.file # NoWord THEN 1000 ELSE 0
    IN IF lengths = {} THEN 0 ELSE Max(lengths) + bonus
PathCandidates(env, file) ==
    LET fits(td) == /\ td.path.file # NoWord => file.name = td.path.file
                    /\ td.path.extension # NoWord => file.extension = td.path.extension
                    /\ Weight(td, file) > 0
    IN SelectSeq(env.types, fits)

\* The first candidate of the greatest weight: a filter that takes the key and
\* a level to skip that takes it weigh more than any path.
RootWeight(td, file, key) ==
    Weight(td, file)
    + (IF key # NoWord /\ SkipsRootKey(td, key) THEN 10000 ELSE 0)
    + (IF key # NoWord /\ td.skip = <<>> /\ td.filter # {} THEN 5000 ELSE 0)
TypeFromCandidates(candidates, file, key) ==
    LET fits == SelectSeq(candidates, LAMBDA td :
                    key # NoWord /\ td.skip = <<>> => TypeKeyFilterMatches(td, key))
        heaviest(i) == \A j \in DOMAIN fits :
            \/ RootWeight(fits[j], file, key) < RootWeight(fits[i], file, key)
            \/ RootWeight(fits[j], file, key) = RootWeight(fits[i], file, key) /\ i <= j
    IN IF fits = <<>> THEN NoType ELSE fits[CHOOSE i \in DOMAIN fits : heaviest(i)]

\* A type of the key's own name holds unless its extension keeps it out.
TypeForFile(env, file, name) ==
    LET named == TypeByName(env, name)
        placed == TypeFromCandidates(PathCandidates(env, file), file, name)
    IN CASE named # NoType /\ (named.path.extension = NoWord \/ file.extension = named.path.extension) -> named
         [] named = NoType \/ ~(named.path.extension = NoWord \/ file.extension = named.path.extension) -> placed

Entity(td, rules) == [is |-> "entity", type |-> td, rules |-> rules, skip |-> <<>>]
Wrapper(td, rules) == [is |-> "wrapper", type |-> td, rules |-> rules, skip |-> Tail(td.skip)]
Unresolved == [is |-> "none", type |-> NoType, rules |-> <<>>, skip |-> <<>>]

BestContentType(env, candidates, file, key) ==
    TypeFromCandidates(SelectSeq(candidates, LAMBDA td : TypeHasContent(td, RulesByName(env, td.name))), file, key)

ByPath(env, candidates, file, key, fallback) ==
    LET found == TypeFromCandidates(candidates, file, key)
        empty == found # NoType /\ ~TypeHasContent(found, RulesByName(env, found.name))
        td == IF empty THEN BestContentType(env, candidates, file, key) ELSE found
        rules == RulesByName(env, td.name)
    IN CASE found = NoType \/ (empty /\ ~fallback) \/ td = NoType -> Unresolved
         [] found # NoType /\ (empty => fallback) /\ td # NoType /\ SkipsRootKey(td, key) -> Wrapper(td, rules)
         [] found # NoType /\ (empty => fallback) /\ td # NoType /\ ~SkipsRootKey(td, key) ->
                IF td.skip # <<>> THEN Unresolved ELSE Entity(td, rules)

ResolveRootChild(env, candidates, file, key, fallback) ==
    LET td == TypeForFile(env, file, key)
        rules == RulesByName(env, td.name)
        usable == td # NoType /\ TypeHasContent(td, rules) /\ (td.skip = <<>> \/ SkipsRootKey(td, key))
    IN CASE usable /\ SkipsRootKey(td, key) -> Wrapper(td, rules)
         [] usable /\ ~SkipsRootKey(td, key) -> Entity(td, rules)
         [] ~usable -> ByPath(env, candidates, file, key, fallback)

\* Behind a wrapper: a type whose filter names the key, else the first that has
\* no filter, else the wrapper's own unless its filter keeps the key out.
GrandchildType(candidates, key) ==
    LET named == SelectSeq(candidates, LAMBDA td : td.filter # {} /\ TypeKeyFilterMatches(td, key))
        plain == SelectSeq(candidates, LAMBDA td : td.filter = {})
    IN CASE named # <<>> -> named[1]
         [] named = <<>> /\ plain # <<>> -> plain[1]
         [] named = <<>> /\ plain = <<>> -> NoType
RefineGrandchild(env, candidates, key, wrapper) ==
    LET td == GrandchildType(candidates, key)
        rules == RulesByName(env, td.name)
    IN CASE td # NoType -> IF TypeHasContent(td, rules) THEN Entity(td, rules) ELSE Unresolved
         [] td = NoType -> IF TypeKeyFilterMatches(wrapper.type, key) THEN Entity(wrapper.type, wrapper.rules) ELSE Unresolved

-----------------------------------------------------------------------------
(* Keys against the left sides of rules.                                   *)

InstanceOf(env, type, name) == type \in DOMAIN env.instances /\ Fold(name) \in env.instances[type]
AnyInstance(env, name) == \E type \in DOMAIN env.instances : InstanceOf(env, type, name)

\* Scope commands by their look, links of the rules, instances, and members of
\* the value sets that links take their data from.
ScopeKey(env, key) ==
    \/ Is(key, "scope command")
    \/ Fold(key) \in env.scopeLinks
    \/ AnyInstance(env, key)
    \/ \E set \in env.linkSets \cap DOMAIN env.members : Fold(key) \in env.members[set]

EnumTakes(env, enum, word) ==
    LET def == env.enums[enum] IN Fold(word) \in def.values \/ def.constants \/ def.authoritative

\* A pattern of an alias name says which middle part of which keys it reads.
ClassifyPattern(env, pattern, key) ==
    LET middle == pattern.middle[key]
    IN CASE key \notin DOMAIN pattern.middle -> "no"
         [] key \in DOMAIN pattern.middle /\ pattern.kind = "type" ->
                IF InstanceOf(env, pattern.name, middle) THEN "confident" ELSE "no"
         [] key \in DOMAIN pattern.middle /\ pattern.kind = "enum" ->
                IF pattern.name \notin DOMAIN env.enums THEN "permissive"
                ELSE IF env.enums[pattern.name].values = {} THEN "permissive"
                ELSE IF EnumTakes(env, pattern.name, middle) THEN "confident" ELSE "no"
         [] key \in DOMAIN pattern.middle /\ pattern.kind = "value" ->
                IF pattern.name \notin DOMAIN env.valueSets THEN "permissive"
                ELSE IF Fold(middle) \in env.valueSets[pattern.name] THEN "confident" ELSE "no"

NoCategory == [exact |-> <<>>, patterns |-> <<>>, scopeField |-> <<>>]
CategoryOf(env, category) == IF category \in DOMAIN env.aliases THEN env.aliases[category] ELSE NoCategory
ExactAliases(env, category, key) ==
    LET exact == CategoryOf(env, category).exact
    IN CASE key \in DOMAIN exact -> exact[key]
         [] key \notin DOMAIN exact /\ Fold(key) \in DOMAIN exact -> exact[Fold(key)]
         [] OTHER -> <<>>

AliasTakes(env, category, key) ==
    \/ ExactAliases(env, category, key) # <<>>
    \/ category \notin DOMAIN env.aliases
    \/ LET cat == CategoryOf(env, category)
       IN \/ \E i \in DOMAIN cat.patterns : ClassifyPattern(env, cat.patterns[i], key) # "no"
          \/ cat.scopeField # <<>> /\ ScopeKey(env, key)

Anything == {"type", "scope", "variable", "variable get", "variable set", "value scope", "localisation", "file",
             "icon", "alias keys", "scalar", "ignore marker"}
RECURSIVE FieldMatchesKey(_, _, _)
FieldMatchesKey(env, field, key) ==
    CASE field[1] = "specific" -> SameWord(field[2], key)
      [] field[1] = "alias" -> AliasTakes(env, field[2], key)
      [] field[1] = "single alias" -> field[2] = key
      [] field[1] = "ignore" -> FieldMatchesKey(env, field[2], key)
      [] field[1] = "enum" -> \/ field[2] \notin DOMAIN env.enums
                              \/ env.enums[field[2]].values = {}
                              \/ EnumTakes(env, field[2], key)
      [] field[1] = "int" -> Is(key, "integer")
      [] field[1] \in {"float", "percent"} -> Is(key, "integer") \/ Is(key, "decimal")
      [] field[1] \in {"date", "datetime"} -> Is(key, field[1])
      [] OTHER -> field[1] \in Anything

Keyed(rule) == rule.kind \in {"leaf", "node"}
RuleMatchesKey(env, rule, key) == Keyed(rule) /\ FieldMatchesKey(env, rule.left, key)

\* Rules that name the key keep all the others out.
MatchingCandidates(env, rules, key) ==
    LET hits == SelectSeq(rules, LAMBDA r : RuleMatchesKey(env, r, key))
        specific == SelectSeq(hits, LAMBDA r : r.left[1] = "specific")
    IN IF specific # <<>> THEN specific ELSE hits

\* Every way an alias may be read, with whether it is sure.
AliasOverloads(env, category, key) ==
    LET cat == CategoryOf(env, category)
        exact == ExactAliases(env, category, key)
        hits == SelectSeq(cat.patterns, LAMBDA p : ClassifyPattern(env, p, key) # "no")
        sure == [i \in DOMAIN exact |-> <<exact[i], TRUE>>]
        read == [i \in DOMAIN hits |-> <<hits[i].rule, ClassifyPattern(env, hits[i], key) = "confident">>]
        scope == IF cat.scopeField # <<>> /\ ScopeKey(env, key) THEN <<<<cat.scopeField[1], TRUE>>>> ELSE <<>>
        \* The same rule twice is one way, as sure as the surer of the two.
        push(acc, o) == LET same == {i \in DOMAIN acc : acc[i][1] = o[1]}
                        IN IF same = {} THEN Append(acc, o)
                           ELSE [acc EXCEPT ![CHOOSE i \in same : TRUE][2] = @ \/ o[2]]
    IN FoldLeft(push, <<>>, sure \o read \o scope)

\* The one candidate within two edits that no other ties; `Distance` is the
\* number of edits between two words, for those within two.
CONSTANT Distance
BestSuggestion(key, candidates) ==
    LET near == {c \in candidates : <<Fold(key), Fold(c)>> \in DOMAIN Distance}
        edits(c) == Distance[<<Fold(key), Fold(c)>>]
        best == {c \in near : \A d \in near : edits(c) <= edits(d)}
    IN IF Cardinality({Fold(c) : c \in best}) = 1 THEN CHOOSE c \in best : TRUE ELSE NoWord

-----------------------------------------------------------------------------
(* Values against the right sides of rules.                                *)

InRange(word, min, max) == Is(word, "integer") /\ ScopeNumber[word] >= min /\ ScopeNumber[word] <= max
Numeric(word) == Is(word, "integer") \/ Is(word, "decimal")
Runtime(word) == Is(word, "define") \/ Is(word, "dollars") \/ Is(word, "bracket")

\* A word of a value; `v.is` is string, number, bool or clause.
FieldMatchesValue(env, field, v) ==
    CASE v.is = "string" /\ Runtime(v.word) -> TRUE
      [] field[1] \in {"scalar", "math", "variable get", "variable set", "marker", "ignore marker", "ignore"} -> TRUE
      [] field[1] = "bool" -> v.is # "clause" /\ Fold(v.word) \in {"yes", "no"}
      [] field[1] = "int" -> v.is # "clause" /\ InRange(v.word, field[2], field[3])
      [] field[1] = "float" -> v.is # "clause" /\ (Is(v.word, "decimal") \/ InRange(v.word, field[2], field[3]))
      [] field[1] = "variable" -> /\ v.is # "clause"
                                  /\ Is(v.word, "integer") => InRange(v.word, field[2], field[3])
      [] field[1] = "enum" -> /\ v.is \in {"string", "number"}
                              /\ field[2] \in DOMAIN env.enums =>
                                    env.enums[field[2]].values = {} \/ EnumTakes(env, field[2], v.word)
      [] field[1] = "percent" -> v.is \in {"string", "number"} /\ (Numeric(v.word) \/ Is(v.word, "percent"))
      [] field[1] \in {"date", "datetime", "hex32", "hex"} -> v.is = "string" /\ Is(v.word, field[1])
      [] field[1] = "specific" -> v.is = "clause" \/ SameWord(v.word, field[2])
      [] field[1] \in {"type", "scope"} -> v.is = "number" \/ (v.is = "string" /\ v.word # NoWord)
      [] field[1] \in {"localisation", "alias", "single alias"} -> v.is \in {"string", "clause"}
      [] field[1] = "value scope" -> v.is \in {"string", "number"}
      [] field[1] \in {"file", "icon", "alias keys"} -> v.is = "string"
      [] OTHER -> FALSE

-----------------------------------------------------------------------------
(* Subtypes.                                                               *)

DefaultLiteral(field) == field[1] = "specific" /\ field[2] \in {"no", "false", "0"}
ActivatesOnPresence(field) == field[1] \notin {"type", "alias", "single alias", "ignore", "ignore marker"}

\* Rules are grouped by their key; each group has to be content with the leaves
\* of its key, and at least one has to speak for the subtype.
RECURSIVE SubtypeRulesMatch(_, _, _)
SubtypeRulesMatch(env, rules, children) ==
    LET keyed == SelectSeq(rules, LAMBDA r : Keyed(r) /\ r.left[1] = "specific")
        group(k) == {r \in ToSet(keyed) : r.left[2] = k}
        leaves(k) == SelectSeq(LeavesOf(children), LAMBDA l : SameWord(l.key, k))
        takes(r, l) ==
            IF IsClause(l) THEN r.kind = "node" /\ SubtypeRulesMatch(env, r.body, l.value.children)
            ELSE r.kind = "leaf" /\ FieldMatchesValue(env, r.right, l.value)
        speaks(r, l) ==
            takes(r, l) /\ (\/ r.kind = "node"
                            \/ ActivatesOnPresence(r.right)
                            \/ r.right[1] = "type" /\ InstanceOf(env, r.right[2], l.value.word))
        content(k) ==
            LET ls == ToSet(leaves(k)) IN
            /\ leaves(k) = <<>> \/ \E l \in ls : \E r \in group(k) : takes(r, l)
            /\ \A r \in group(k) : r.opts.min <= Len(leaves(k)) /\ Len(leaves(k)) <= r.opts.max
        active(k) ==
            \/ \E l \in ToSet(leaves(k)) : \E r \in group(k) : speaks(r, l)
            \/ leaves(k) = <<>> /\ \E r \in group(k) : r.kind = "leaf" /\ DefaultLiteral(r.right)
        keys == {r.left[2] : r \in ToSet(keyed)}
    IN keys = {} \/ ((\A k \in keys : content(k)) /\ (\E k \in keys : active(k)))

SubtypeMatches(env, sub, key, children) ==
    CASE sub.filter # {} -> \E f \in sub.filter : SameWord(f, key)
      [] sub.filter = {} /\ sub.keyField # NoWord ->
            \E i \in DOMAIN children : IsLeaf(children[i]) /\ SameWord(children[i].key, sub.keyField)
      [] sub.filter = {} /\ sub.keyField = NoWord -> SubtypeRulesMatch(env, sub.rules, children)

\* What the index records for an instance: every subtype of its own that matches.
SubtypeMembership(env, td, key, children) ==
    {td.subs[i].name : i \in {i \in DOMAIN td.subs : SubtypeMatches([env EXCEPT !.instances = <<>>], td.subs[i], key, children)}}
=============================================================================
