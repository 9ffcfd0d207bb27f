------------------------------- MODULE Collect -------------------------------
(***************************************************************************)
(* What one file contributes to the index (crate index: collect.rs,        *)
(* variables.rs, dynamic_values.rs, path_match.rs; info: references.rs,    *)
(* position.rs).  Everything is a walk over the syntax tree under the      *)
(* ruleset's declarations of types, effects, value sets and complex enums. *)
(***************************************************************************)
EXTENDS ScriptTree, FiniteSetsExt

-----------------------------------------------------------------------------
(* Paths.  A path is the sequence of its characters, lowercased.           *)

Slash == "/"
Segment(path, from, needle) ==
    /\ SubSeq(path, from, from + Len(needle) - 1) = needle
    /\ from = 1 \/ path[from - 1] = Slash
    /\ from + Len(needle) = Len(path) + 1 \/ path[from + Len(needle)] = Slash

\* The search for whole segments: find an occurrence, and look on one
\* character further when it is not bounded by slashes.
RECURSIVE SearchSegment(_, _, _)
SearchSegment(path, needle, start) ==
    LET hits == {p \in start..(Len(path) - Len(needle) + 1) :
                    SubSeq(path, p, p + Len(needle) - 1) = needle}
    IN hits # {} /\ (Segment(path, Min(hits), needle)
                     \/ (Min(hits) + 1 <= Len(path) /\ SearchSegment(path, needle, Min(hits) + 1)))
PathContainsSegment(path, needle) == needle = <<>> \/ SearchSegment(path, needle, 1)

\* A strict pattern has to end the directory, any other may stand anywhere in it.
DirMatchesPattern(dir, pattern, strict) ==
    IF strict
    THEN \/ dir = pattern
         \/ /\ Len(dir) > Len(pattern)
            /\ SubSeq(dir, Len(dir) - Len(pattern) + 1, Len(dir)) = pattern
            /\ dir[Len(dir) - Len(pattern)] = Slash
    ELSE PathContainsSegment(dir, pattern)

\* Where a file stands: its directory, its name, and the extension of its name.
CheckPathDir(options, file) ==
    /\ options.file # NoWord => file.name = options.file
    /\ options.extension # NoWord => file.extension = options.extension
    /\ \/ options.paths = {}
       \/ \E pattern \in options.paths : DirMatchesPattern(file.dir, pattern, options.strict)

-----------------------------------------------------------------------------
(* Instances of types.                                                     *)

StartsWith(prefixes, prefix, key) == prefix = NoWord \/ <<prefix, Fold(key)>> \in prefixes

SkipRootKeyMatches(skip, key) ==
    CASE skip.is = "any" -> TRUE
      [] skip.is = "specific" -> SameWord(skip.key, key)
      [] skip.is = "multiple" -> (\E k \in skip.keys : SameWord(k, key)) = skip.equals

TypeKeyFilterMatches(td, key) ==
    td.filter = {} \/ (\E k \in td.filter : SameWord(k, key)) # td.negate

\* The first leaf of that name whose value is a word: a clause has none.
FieldValue(field, children) ==
    LET hits == SelectSeq(children, LAMBDA c : IsLeaf(c) /\ SameWord(c.key, field) /\ c.value.word # NoWord)
    IN IF hits = <<>> THEN NoWord ELSE hits[1].value.word

InstanceName(td, key, children) ==
    IF td.nameField = NoWord THEN key ELSE FieldValue(td.nameField, children)

\* The clauses of one type below a root child, behind the keys to skip.
RECURSIVE InstancesBelow(_, _, _, _)
InstancesBelow(td, prefixes, skip, child) ==
    LET name == InstanceName(td, child.key, child.value.children)
        inner == child.value.children
    IN CASE ~IsClause(child) -> <<>>
         [] IsClause(child) /\ skip = <<>> ->
              IF TypeKeyFilterMatches(td, child.key) /\ StartsWith(prefixes, td.startsWith, child.key)
                   /\ StartsWith(prefixes, td.keyPrefix, child.key) /\ name # NoWord
              THEN <<[name |-> name, key |-> child.key, children |-> inner]>> ELSE <<>>
         [] IsClause(child) /\ skip # <<>> ->
              IF SkipRootKeyMatches(Head(skip), child.key)
              THEN FoldLeft(LAMBDA acc, c : acc \o InstancesBelow(td, prefixes, Tail(skip), c), <<>>, inner)
              ELSE <<>>

NodesOf(td, prefixes, root) ==
    FoldLeft(LAMBDA acc, c : acc \o InstancesBelow(td, prefixes, td.skip, c), <<>>, root)

\* A type of one instance per file is named by the file.
CollectTypeInstances(types, prefixes, file, root) ==
    [i \in DOMAIN types |->
        IF ~CheckPathDir(types[i].path, file) THEN <<>>
        ELSE IF types[i].perFile THEN <<file.stem>>
        ELSE LET nodes == NodesOf(types[i], prefixes, root) IN [k \in DOMAIN nodes |-> nodes[k].name]]

\* The nodes subtype classification looks at again.
InstanceNodes(types, prefixes, file, root) ==
    [i \in DOMAIN types |->
        IF types[i].perFile \/ types[i].subtypes = {} \/ ~CheckPathDir(types[i].path, file) THEN <<>>
        ELSE NodesOf(types[i], prefixes, root)]

\* Localisation keys an instance names itself: the primary one and the required ones.
LocKeys(td, children) ==
    [primary  |-> IF td.primaryLoc = NoWord THEN NoWord ELSE FieldValue(td.primaryLoc, children),
     required |-> {FieldValue(f, children) : f \in td.requiredLoc} \ {NoWord}]

\* Scripted localisations are known by their folder, whatever the ruleset says.
CollectScriptedLocNames(dirs, file, root) ==
    LET clauses == ClausesOf(root)
        names == [i \in DOMAIN clauses |-> FieldValue("name", clauses[i].value.children)]
    IN IF \E d \in dirs : PathContainsSegment(file.dir, d)
       THEN SelectSeq(names, LAMBDA n : n # NoWord) ELSE <<>>

-----------------------------------------------------------------------------
(* Variables that effects set, and members of value sets.                  *)

VariableKeys == {"var", "variable", "array"}
ValueKeys == {"value", "amount", "add"}
SkippedKeys == {"value", "tooltip", "var", "variable", "amount", "which"}
NameKeys == {"flag", "name", "token", "var", "variable"}
Among(key, words) == \E w \in words : SameWord(key, w)

\* Inside a set-variable block: the variables it names, or, when it names
\* none by a key, every key that is not one of the fixed ones.
SetVariables(children) ==
    LET leaves == LeavesOf(children)
        named == SelectSeq(leaves, LAMBDA l : Among(l.key, VariableKeys))
        explicit == SelectSeq(named, LAMBDA l : l.value.word # NoWord)
        implicit == SelectSeq(leaves, LAMBDA l : ~Among(l.key, SkippedKeys))
    IN IF named # <<>> THEN [i \in DOMAIN explicit |-> explicit[i].value.word]
       ELSE [i \in DOMAIN implicit |-> implicit[i].key]

SiblingValue(children) ==
    LET hits == SelectSeq(children,
                    LAMBDA c : IsLeaf(c) /\ Among(c.key, ValueKeys) /\ c.value.word # NoWord)
    IN IF hits = <<>> THEN NoWord ELSE hits[1].value.word

\* The namespace of a leaf's key, and what the leaf adds to value sets: its
\* own value, the bound fields of its block, or the first field that names.
Namespace(vs, key) == IF Fold(key) \in DOMAIN vs.effects THEN vs.effects[Fold(key)] ELSE NoWord

Bound(bindings, key) ==
    LET hits == SelectSeq(bindings, LAMBDA b : SameWord(b.field, key))
    IN IF hits = <<>> THEN NoWord ELSE hits[1].ns

Member(ns, value) == IF value.word = NoWord THEN <<>> ELSE <<[ns |-> ns, name |-> value.word]>>

ValueSetLeaf(vs, leaf) ==
    LET ns == Namespace(vs, leaf.key)
        strings == SelectSeq(LeavesOf(leaf.value.children), LAMBDA l : IsString(l.value))
        bindings == IF Fold(leaf.key) \in DOMAIN vs.fields THEN vs.fields[Fold(leaf.key)] ELSE <<>>
        bound == SelectSeq(strings, LAMBDA l : Bound(bindings, l.key) \notin {NoWord, "variable"})
        naming == SelectSeq(strings, LAMBDA l : Among(l.key, NameKeys))
    IN CASE ns \in {NoWord, "variable"} -> <<>>
         [] ns \notin {NoWord, "variable"} /\ IsString(leaf.value) -> Member(ns, leaf.value)
         [] ns \notin {NoWord, "variable"} /\ IsClause(leaf) /\ bindings # <<>> ->
              FoldLeft(LAMBDA acc, l : acc \o Member(Bound(bindings, l.key), l.value), <<>>, bound)
         [] ns \notin {NoWord, "variable"} /\ IsClause(leaf) /\ bindings = <<>> ->
              IF naming = <<>> THEN <<>> ELSE Member(ns, naming[1].value)
         [] OTHER -> <<>>

\* The two collectors as the editor runs them, each a walk of its own.
RECURSIVE CollectSetVariables(_, _)
CollectSetVariables(effects, children) ==
    LET clauses == ClausesOf(children)
        at(c) == (IF Fold(c.key) \in effects THEN SetVariables(c.value.children) ELSE <<>>)
                   \o CollectSetVariables(effects, c.value.children)
    IN FoldLeft(LAMBDA acc, c : acc \o at(c), <<>>, clauses)

RECURSIVE CollectValueSets(_, _)
CollectValueSets(vs, children) ==
    LET at(l) == ValueSetLeaf(vs, l) \o
                   IF IsClause(l) /\ Namespace(vs, l.key) # "variable"
                   THEN CollectValueSets(vs, l.value.children) ELSE <<>>
    IN FoldLeft(LAMBDA acc, l : acc \o at(l), <<>>, LeavesOf(children))
CollectValueSetMembers(vs, root) ==
    IF DOMAIN vs.effects = {} THEN <<>> ELSE CollectValueSets(vs, root)

Both(variables, members) == [variables |-> variables, members |-> members]
Join(a, b) == Both(a.variables \o b.variables, a.members \o b.members)

\* Mutant of Descend: the value sets are looked for inside variable blocks.
Descend_keepsActive(active, ns) == active

\* Below a block of the "variable" namespace the value sets are not looked for.
Descend(active, ns) == active /\ ns # "variable"

\* The same two in one walk, as the batch pipeline runs them.
RECURSIVE Walk(_, _, _, _)
Walk(effects, vs, active, children) ==
    LET ns(l) == IF active THEN Namespace(vs, l.key) ELSE NoWord
        own(l) == Both(IF IsClause(l) /\ Fold(l.key) \in effects
                       THEN SetVariables(l.value.children) ELSE <<>>,
                       IF active THEN ValueSetLeaf(vs, l) ELSE <<>>)
        inside(l) == IF IsClause(l) /\ (effects # {} \/ Descend(active, ns(l)))
                     THEN Walk(effects, vs, Descend(active, ns(l)), l.value.children)
                     ELSE Both(<<>>, <<>>)
    IN FoldLeft(LAMBDA acc, l : Join(acc, Join(own(l), inside(l))), Both(<<>>, <<>>), LeavesOf(children))
CollectVariablesAndValueSets(effects, vs, root) ==
    IF effects = {} /\ DOMAIN vs.effects = {} THEN Both(<<>>, <<>>)
    ELSE Walk(effects, vs, DOMAIN vs.effects # {}, root)

-----------------------------------------------------------------------------
(* Variables the rules of a type declare.  A rule is [kind, left, right,   *)
(* body] with fields <<kind, name>>, as the ruleset holds it.              *)

Defined(ns, name, value) == <<[ns |-> ns, name |-> name, value |-> value]>>
Sets(field) == field[1] = "variable set"
Specific(rule, key) == rule.left[1] = "specific" /\ SameWord(rule.left[2], key)
FlatMap(seq, F(_)) == FoldLeft(LAMBDA acc, e : acc \o F(e), <<>>, seq)

\* Every child is held against every rule of its level; a clause is entered
\* under each rule that takes it.
RECURSIVE ScanChildrenForVarset(_, _)
ScanChildrenForVarset(children, rules) ==
    LET clause(c, r) ==
            CASE r.kind = "node" /\ Sets(r.left) -> Defined(r.left[2], c.key, NoWord)
              [] r.kind = "node" /\ ~Sets(r.left) /\ (Specific(r, c.key) \/ r.left[1] # "specific") ->
                     ScanChildrenForVarset(c.value.children, r.body)
              [] OTHER -> <<>>
        leaf(c, r) ==
            CASE r.kind = "leaf" /\ Sets(r.left) -> Defined(r.left[2], c.key, c.value.word)
              [] r.kind = "leaf" /\ ~Sets(r.left) /\ Sets(r.right) /\ Specific(r, c.key) /\ c.value.word # NoWord ->
                     Defined(r.right[2], c.value.word, SiblingValue(children))
              [] OTHER -> <<>>
        bare(c, r) == IF r.kind = "value" /\ Sets(r.right) /\ c.value.word # NoWord
                      THEN Defined(r.right[2], c.value.word, NoWord) ELSE <<>>
        one(c, r) == CASE IsClause(c) -> clause(c, r)
                       [] ~IsClause(c) /\ IsLeaf(c) -> leaf(c, r)
                       [] c.kind = "value" -> bare(c, r)
                       [] OTHER -> <<>>
    IN FlatMap(children, LAMBDA c : FlatMap(rules, LAMBDA r : one(c, r)))

\* Constants are recognised by their sign, at any depth; `at` says which words have it.
RECURSIVE CollectAtVars(_, _)
CollectAtVars(at, children) ==
    FlatMap(LeavesOf(children), LAMBDA l :
        (IF l.key \in at THEN Defined("@", l.key, l.value.word) ELSE <<>>) \o CollectAtVars(at, l.value.children))

\* `roots` are the root rules as [name, rule]; only those of a type whose path
\* the file matches count.
CollectDefinedVariablesFromRules(types, roots, at, file, root) ==
    CollectAtVars(at, root) \o
    FlatMap(types, LAMBDA td :
        IF ~CheckPathDir(td.path, file) THEN <<>>
        ELSE FlatMap(SelectSeq(roots, LAMBDA r : r.name = td.name /\ r.rule.kind = "node"), LAMBDA r :
                 FlatMap(ClausesOf(root), LAMBDA c : ScanChildrenForVarset(c.value.children, r.rule.body))))

\* The effects and triggers whose body sets a variable or an array anywhere.
RECURSIVE DefinesVariable(_)
DefinesVariable(rule) ==
    \/ \E field \in {rule.left, rule.right} : Sets(field) /\ field[2] \in {"variable", "array"}
    \/ \E i \in DOMAIN rule.body : DefinesVariable(rule.body[i])
VariableDefiningEffects(aliases) ==
    {Fold(a.key) : a \in {a \in aliases : a.category \in {"effect", "trigger"} /\ DefinesVariable(a.rule)}}

-----------------------------------------------------------------------------
(* Members of complex enums.  A name tree is a sequence of entries: a node *)
(* to enter, a leaf whose value or whose key is a name, or bare names.     *)

KeyMatches(key, word) == key = "scalar" \/ SameWord(key, word)

RECURSIVE WalkNameTree(_, _)
WalkNameTree(tree, children) ==
    LET clauses == ClausesOf(children)
        plain == SelectSeq(LeavesOf(children), LAMBDA l : ~IsClause(l))
        keys(seq) == [i \in DOMAIN seq |-> seq[i].key]
        strings(seq) == LET s == SelectSeq(seq, LAMBDA c : IsString(c.value)) IN [i \in DOMAIN s |-> s[i].value.word]
        entry(e) ==
            CASE e.kind = "node" /\ e.key = "enum_name" -> keys(clauses)
              [] e.kind = "node" /\ e.key # "enum_name" ->
                     FlatMap(SelectSeq(clauses, LAMBDA c : KeyMatches(e.key, c.key)),
                             LAMBDA c : WalkNameTree(e.inner, c.value.children))
              [] e.kind = "name value" -> strings(SelectSeq(plain, LAMBDA l : KeyMatches(e.key, l.key)))
              [] e.kind = "leaf" -> IF e.key = "enum_name" THEN keys(plain) ELSE <<>>
              [] e.kind = "bare name" -> strings(SelectSeq(children, LAMBDA c : c.kind = "value"))
    IN FlatMap(tree, entry)

CollectComplexEnumValues(enums, file, root) ==
    FlatMap(enums, LAMBDA def :
        LET values == IF def.fromRoot THEN WalkNameTree(def.tree, root)
                      ELSE FlatMap(ClausesOf(root), LAMBDA c : WalkNameTree(def.tree, c.value.children))
        IN IF CheckPathDir(def.path, file) THEN [i \in DOMAIN values |-> [ns |-> def.name, name |-> values[i]]]
           ELSE <<>>)

-----------------------------------------------------------------------------
(* References to instances, and the element under a position.              *)

\* `refs` is the sequence of [key, type, root]; a root of NoWord holds in every
\* file, any other where the path of the type of that name does.
ClassifyTypeRefKey(refs, types, key, file) ==
    LET pathOf(name) == LET hits == SelectSeq(types, LAMBDA td : td.name = name) IN hits[Len(hits)].path
        hits == SelectSeq(refs, LAMBDA r :
                    /\ SameWord(r.key, key)
                    /\ \/ r.root = NoWord
                       \/ /\ \E i \in DOMAIN types : types[i].name = r.root
                          /\ CheckPathDir(pathOf(r.root), file))
    IN IF hits = <<>> THEN NoWord ELSE hits[1].type

RECURSIVE CollectTypeRefUses(_, _, _, _)
CollectTypeRefUses(refs, types, file, children) ==
    FlatMap(LeavesOf(children), LAMBDA l :
        LET type == ClassifyTypeRefKey(refs, types, l.key, file)
        IN (IF type # NoWord /\ IsString(l.value) /\ l.value.word # NoWord
            THEN <<[type |-> type, name |-> l.value.word]>> ELSE <<>>)
           \o CollectTypeRefUses(refs, types, file, l.value.children))

\* A child with the positions of its first and behind its last character.
Placed(child, from, to) == [kind |-> child.kind, key |-> child.key, value |-> child.value, from |-> from, to |-> to]
None == [kind |-> "none"]

\* The innermost of the first children that hold the position, both ends included.
RECURSIVE ElementAtPosition(_, _)
ElementAtPosition(children, pos) ==
    LET hits == SelectSeq(children, LAMBDA c : c.kind # "comment" /\ c.from <= pos /\ pos <= c.to)
        inner == ElementAtPosition(hits[1].value.children, pos)
    IN CASE hits = <<>> -> None
         [] hits # <<>> /\ IsClause(hits[1]) /\ inner # None -> inner
         [] OTHER -> hits[1]

-----------------------------------------------------------------------------
(* One file after the other, as the batch pipeline builds its index.       *)

IndexFile(rules, file) ==
    LET walked == CollectVariablesAndValueSets(rules.effects, rules.vs, file.root)
    IN [instances |-> CollectTypeInstances(rules.types, rules.prefixes, file, file.root),
        nodes |-> InstanceNodes(rules.types, rules.prefixes, file, file.root),
        variables |-> walked.variables,
        complexEnums |-> CollectComplexEnumValues(rules.enums, file, file.root),
        valueSets |-> walked.members,
        scriptedLocs |-> CollectScriptedLocNames(rules.locDirs, file, file.root)]
IndexDiscoveredFiles(rules, files) == [i \in DOMAIN files |-> IndexFile(rules, files[i])]
=============================================================================
