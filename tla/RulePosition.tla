---------------------------- MODULE RulePosition ----------------------------
(***************************************************************************)
(* What holds at a place of a file: the rules and the scope at a cursor,   *)
(* and the blocks that change the scope (crate validation, position.rs).   *)
(*                                                                         *)
(* A child has, beside its numbers, a range: the lines and columns of its  *)
(* start and its end, and the column its key ends at.  The parser ends a   *)
(* statement where the next word begins.                                   *)
(***************************************************************************)
EXTENDS Validators

InLines(cursor, range) ==
    /\ range.start.line <= cursor.line /\ cursor.line <= range.end.line
    /\ cursor.line = range.start.line => range.start.col <= cursor.col
    /\ cursor.line = range.end.line => cursor.col <= range.end.col
OnKey(cursor, leaf) == cursor.line = leaf.range.start.line /\ cursor.col <= leaf.range.keyEnd

\* The rules of the block around the cursor, those of the leaf under it, the leaf.
Nowhere == [rules |-> <<>>, values |-> <<>>, leaf |-> <<>>, scope |-> <<>>]
InBlock(c, rules) == [Nowhere EXCEPT !.rules = rules, !.scope = <<c.scope>>]
Unruled(c) == InBlock(c, <<>>)

IsAlias(rule) == Keyed(rule) /\ rule.left[1] = "alias"
OverloadRules(env, rule, key) ==
    LET overloads == AliasOverloads(env, rule.left[2], key) IN [i \in DOMAIN overloads |-> overloads[i][1]]
AliasCategoryForKey(env, rules, key) ==
    LET aliases == SelectSeq(MatchingCandidates(env, rules, key), IsAlias) IN IF aliases = <<>> THEN NoWord ELSE aliases[1].left[2]
ValueRulesForKey(env, rules, key) ==
    LET candidates == MatchingCandidates(env, rules, key)
    IN FlattenSeq([i \in DOMAIN candidates |-> IF IsAlias(candidates[i]) THEN OverloadRules(env, candidates[i], key)
                                               ELSE <<candidates[i]>>])
LeafContext(c, rules, leaf, value, inValue) ==
    [InBlock(c, rules) EXCEPT !.values = ValueRulesForKey(c.env, rules, leaf.key),
                              !.leaf = <<[key |-> leaf.key, value |-> value, inValue |-> inValue, at |-> leaf.range.start]>>]

ValueClauseBodies(rules) ==
    LET bare == SelectSeq(rules, LAMBDA r : r.kind = "value clause") IN FlattenSeq([i \in DOMAIN bare |-> bare[i].body])

-----------------------------------------------------------------------------
(* The cursor.                                                             *)

LastEnd(children) == Max({0} \cup {ch.range.end.line : ch \in {x \in ToSet(children) : x.kind # "comment"}})

\* Mutant of Catches: a block also has what its range runs on to.
Catches_absorbing(cursor, child) == child.kind # "comment" /\ InLines(cursor, child.range)

\* What follows a block, or a leaf, on a later line is not in it, though its
\* range goes on to the next word.  An empty block keeps it.
Catches(cursor, child) ==
    /\ child.kind # "comment"
    /\ InLines(cursor, child.range)
    /\ CASE child.kind = "value" -> TRUE
         [] IsClause(child) -> \/ OnKey(cursor, child) \/ LastEnd(child.value.children) = 0
                               \/ cursor.line <= LastEnd(child.value.children)
         [] OTHER -> cursor.line = child.range.start.line

\* The readings of a block: <<options, body, whether an alias gave it>>; an
\* alias gives its nodes.
BlockReadings(candidates, NodeForms(_)) ==
    LET of(rule) ==
            CASE IsAlias(rule) -> [i \in DOMAIN NodeForms(rule) |-> <<NodeForms(rule)[i].opts, NodeForms(rule)[i].body, TRUE>>]
              [] ~IsAlias(rule) /\ rule.kind = "node" -> <<<<rule.opts, rule.body, FALSE>>>>
              [] ~IsAlias(rule) /\ IsMath(rule) -> <<<<rule.opts, MathRules, FALSE>>>>
              [] OTHER -> <<>>
    IN FlattenSeq([i \in DOMAIN candidates |-> of(candidates[i])])
BodiesOf(readings) == FlattenSeq([i \in DOMAIN readings |-> readings[i][2]])

\* Of a block with more readings than one the rules are all of theirs, the scope
\* is the first's.
RECURSIVE DescendTo(_, _, _, _)
DescendTo(c, children, given, cursor) ==
    LET rules == FlattenNestedSubtypeRules(given)
        caught == SelectSeq(children, LAMBDA ch : Catches(cursor, ch))
        child == caught[1]
        nodes(rule) == SelectSeq(OverloadRules(c.env, rule, child.key), LAMBDA r : r.kind = "node")
        readings == BlockReadings(MatchingCandidates(c.env, rules, child.key), nodes)
        inner == BodiesOf(readings)
        entered == [c EXCEPT !.scope = EnterBlockScope(c.env, c.scope, child.key, readings[1][1], readings[1][3])]
        bare == ValueClauseBodies(rules)
    IN IF caught = <<>> THEN InBlock(c, rules)
       ELSE IF IsClause(child)
            THEN IF OnKey(cursor, child) THEN LeafContext(c, rules, child, NoWord, FALSE)
                 ELSE IF inner = <<>> THEN Unruled(c)
                 ELSE DescendTo(entered, child.value.children, inner, cursor)
       ELSE IF child.kind = "leaf" THEN LeafContext(c, rules, child, child.value.word, ~OnKey(cursor, child))
       ELSE IF child.value.is = "clause"
            THEN IF bare = <<>> THEN Unruled(c) ELSE DescendTo(c, child.value.children, bare, cursor)
       ELSE [InBlock(c, rules) EXCEPT
                !.values = SelectSeq(rules, LAMBDA r : r.kind = "value"),
                !.leaf = <<[key |-> NoWord, value |-> child.value.word, inValue |-> TRUE, at |-> child.range.start]>>]

\* For completion every subtype counts, whether it matches or not.
EnterEntity(c, td, children, inner, key, cursor, forCompletion) ==
    LET merged == MergedRules(c.env, td, children, inner, key, forCompletion)
    IN DescendTo([c EXCEPT !.scope = SeedRootScope(c.env, c.scope, td, merged.push, key)], children, merged.rules, cursor)

RECURSIVE DescendWrapper(_, _, _, _, _, _)
DescendWrapper(c, children, wrapper, key, cursor, forCompletion) ==
    LET candidates == SelectSeq(PathCandidates(c.env, c.env.file), LAMBDA td : SkipsRootKey(td, key))
        caught == SelectSeq(LeavesOf(children), LAMBDA ch : InLines(cursor, ch.range))
        child == caught[1]
        found == RefineGrandchild(c.env, candidates, child.key, wrapper)
    IN CASE caught = <<>> -> Nowhere
         [] caught # <<>> /\ (~IsClause(child) \/ OnKey(cursor, child)) -> Nowhere
         [] OTHER ->
              IF wrapper.skip # <<>>
              THEN IF SkipRootKeyMatches(wrapper.skip[1], child.key)
                   THEN DescendWrapper(c, child.value.children, [wrapper EXCEPT !.skip = Tail(@)], child.key, cursor, forCompletion)
                   ELSE Nowhere
              ELSE IF found = Unresolved THEN Nowhere
              ELSE EnterEntity(c, found.type, child.value.children, found.rules, child.key, cursor, forCompletion)

Start(env) == [env |-> env, scope |-> InitialScope(env), loops |-> <<>>, stack |-> <<>>]
\* A type without content takes a block here, where validation leaves it alone.
RulesAtPos(env, root, cursor, forCompletion) ==
    LET c == Start(env)
        candidates == PathCandidates(env, env.file)
        pathType == TypeFromCandidates(candidates, env.file, NoWord)
        rules == RulesByName(env, pathType.name)
        caught == SelectSeq(root, LAMBDA ch : ch.kind # "comment" /\ InLines(cursor, ch.range))
        child == caught[1]
        found == ResolveRootChild(env, candidates, env.file, child.key, TRUE)
    IN IF pathType # NoType /\ pathType.perFile
       THEN IF TypeHasContent(pathType, rules) THEN EnterEntity(c, pathType, root, rules, NoWord, cursor, forCompletion) ELSE Nowhere
       ELSE IF caught = <<>> THEN Nowhere
       ELSE IF ~IsClause(child) \/ OnKey(cursor, child) THEN Nowhere
       ELSE CASE found.is = "entity" -> EnterEntity(c, found.type, child.value.children, found.rules, child.key, cursor, forCompletion)
              [] found.is = "wrapper" -> DescendWrapper(c, child.value.children, found, child.key, cursor, forCompletion)
              [] OTHER -> Nowhere

-----------------------------------------------------------------------------
(* The blocks between two lines that change the scope, at most so many:    *)
(* acc is [out, left, exhausted, uses, stop], w is [first, last, max].     *)

Full(acc, w) == Len(acc.out) >= w.max
Shown(acc, w, range, ambient, resolved) ==
    IF w.first <= range.start.line /\ range.start.line <= w.last /\ resolved # ambient /\ ~Full(acc, w)
    THEN [acc EXCEPT !.out = Append(@, [range |-> range, ambient |-> ambient, resolved |-> resolved])] ELSE acc

\* What of an alias is sure, and whether the sure readings have one body.
SureNodes(env, rule, key) ==
    LET sure == SelectSeq(AliasOverloads(env, rule.left[2], key), LAMBDA o : o[2] /\ o[1].kind = "node")
    IN [i \in DOMAIN sure |-> sure[i][1]]
ReserveAll(env, acc, aliases, key, at) ==
    LET one(a, rule) ==
            LET branches == Len(AliasOverloads(env, rule.left[2], key))
            IN IF a.stop \/ branches <= 1 THEN a
               ELSE IF branches > a.left THEN [Reserve(env, a, branches, at) EXCEPT !.stop = TRUE]
               ELSE Reserve(env, a, branches, at)
    IN FoldLeft(one, acc, aliases)

\* Sure readings that differ in where they lead show nothing; that differ in
\* what they hold are not entered.
RECURSIVE CollectScopeChildren(_, _, _, _, _)
CollectScopeLeaf(c, acc, leaf, rules, w) ==
    LET candidates == MatchingCandidates(c.env, rules, leaf.key)
        aliases == SelectSeq(candidates, IsAlias)
        nodes(rule) == SureNodes(c.env, rule, leaf.key)
        readings == BlockReadings(candidates, nodes)
        next == BodiesOf(readings)
        reserved == ReserveAll(c.env, acc, aliases, leaf.key, leaf.from)
        entered == {EnterBlockScope(c.env, c.scope, leaf.key, r[1], r[3]) : r \in ToSet(readings)}
        resolved == CHOOSE s \in entered : TRUE
        form(node) == <<node.left, node.body>>
        ambiguous == \E i \in DOMAIN aliases : \E m, n \in ToSet(nodes(aliases[i])) : form(m) # form(n)
        shown == Shown(reserved, w, leaf.range, Current(c.scope), Current(resolved))
    IN CASE reserved.stop -> reserved
         [] ~reserved.stop /\ (\E i \in DOMAIN candidates : IsMath(candidates[i])) ->
              CollectScopeChildren(c, reserved, leaf.value.children, MathRules, w)
         [] OTHER ->
              IF Cardinality(entered) # 1 THEN reserved
              ELSE IF ambiguous \/ next = <<>> \/ leaf.range.end.line < w.first THEN shown
              ELSE CollectScopeChildren([c EXCEPT !.scope = resolved], shown, leaf.value.children, next, w)
CollectScopeChildren(c, start, children, given, w) ==
    LET rules == FlattenNestedSubtypeRules(given)
        bare == ValueClauseBodies(rules)
        one(acc, child) ==
            IF acc.stop \/ Full(acc, w) THEN acc
            ELSE CASE child.kind = "value" /\ child.value.is = "clause" /\ bare # <<>> ->
                        CollectScopeChildren(c, acc, child.value.children, bare, w)
                   [] child.kind = "leaf" /\ child.range.start.line > w.last -> [acc EXCEPT !.stop = TRUE]
                   [] IsClause(child) /\ child.range.start.line <= w.last -> CollectScopeLeaf(c, acc, child, rules, w)
                   [] OTHER -> acc
    IN [FoldLeft(one, start, children) EXCEPT !.stop = FALSE]

CollectEntityScope(c, acc, td, children, inner, key, range, w) ==
    LET merged == MergedRules(c.env, td, children, inner, key, FALSE)
        seeded == SeedRootScope(c.env, c.scope, td, merged.push, key)
        shown == IF range = <<>> THEN acc ELSE Shown(acc, w, range[1], Current(c.scope), Current(seeded))
        skipped == range # <<>> /\ (range[1].end.line < w.first \/ (merged.matched = {} /\ merged.rules = <<>>))
    IN IF skipped THEN acc ELSE CollectScopeChildren([c EXCEPT !.scope = seeded], shown, children, merged.rules, w)

RECURSIVE CollectWrapperScope(_, _, _, _, _, _)
CollectWrapperScope(c, start, children, wrapper, key, w) ==
    LET candidates == SelectSeq(PathCandidates(c.env, c.env.file), LAMBDA td : SkipsRootKey(td, key))
        one(acc, child) ==
            LET found == RefineGrandchild(c.env, candidates, child.key, wrapper)
            IN IF Full(acc, w) \/ child.range.end.line < w.first THEN acc
               ELSE IF wrapper.skip # <<>>
                    THEN IF SkipRootKeyMatches(wrapper.skip[1], child.key)
                         THEN CollectWrapperScope(c, acc, child.value.children, [wrapper EXCEPT !.skip = Tail(@)], child.key, w)
                         ELSE acc
               ELSE IF found = Unresolved THEN acc
               ELSE CollectEntityScope(c, acc, found.type, child.value.children, found.rules, child.key, <<child.range>>, w)
    IN FoldLeft(one, start, ClausesOf(children))

ScopeTransitions(env, root, w) ==
    LET c == Start(env)
        none == [out |-> <<>>, left |-> env.limits.branches, exhausted |-> <<>>, uses |-> {}, stop |-> FALSE]
        candidates == PathCandidates(env, env.file)
        pathType == TypeFromCandidates(candidates, env.file, NoWord)
        one(acc, b) ==
            LET found == ResolveRootChild(env, candidates, env.file, b.key, FALSE)
            IN CASE ~Full(acc, w) /\ found.is = "entity" ->
                      CollectEntityScope(c, acc, found.type, b.value.children, found.rules, b.key, <<b.range>>, w)
                 [] ~Full(acc, w) /\ found.is = "wrapper" -> CollectWrapperScope(c, acc, b.value.children, found, b.key, w)
                 [] OTHER -> acc
        walked == IF pathType # NoType /\ pathType.perFile
                  THEN CollectEntityScope(c, none, pathType, root, RulesByName(env, pathType.name), NoWord, <<>>, w)
                  ELSE FoldLeft(one, none, ClausesOf(root))
    IN IF w.max = 0 THEN <<>> ELSE walked.out
=============================================================================
