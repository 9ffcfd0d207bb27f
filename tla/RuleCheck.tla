------------------------------ MODULE RuleCheck ------------------------------
(***************************************************************************)
(* A file against the rules (crate validation: lib.rs, ctx.rs, scope.rs,   *)
(* loc_field.rs, inline_script.rs, references.rs, rule_core/).             *)
(*                                                                         *)
(* The context c of a walk is [env, scope, loops, stack]: what is known,   *)
(* the scope the walk stands in, the loop variables in force, the inline   *)
(* scripts it is in.  The state st it threads through is [errors, left,    *)
(* exhausted, memo, uses].                                                 *)
(***************************************************************************)
EXTENDS TypeResolution, Localisation

\* The catalogue of codes.
Warnings == {"CW100", "CW121", "CW221", "CW222", "CW230", "CW231", "CW235", "CW236", "CW239", "CW242", "CW246", "CW251",
             "CW264", "CW265", "CW268", "CW270", "CW271", "CW273", "CW275", "CW276", "CW277", "CW281", "CW603"}
Informations == {"CW107", "CW109", "CW120", "CW122", "CW223", "CW234", "CW237", "CW253", "CW258", "CW280", "CW282"}
SeverityOf(code) == CASE code \in Warnings -> "warning" [] code \in Informations -> "information"
                    [] code = "CW269" -> "hint" [] OTHER -> "error"
Problem(code, severity, at, about) == [code |-> code, severity |-> severity, at |-> at, about |-> about]
SayAs(st, code, severity, at, about) == [st EXCEPT !.errors = Append(@, Problem(code, severity, at, about))]
Say(st, code, at, about) == SayAs(st, code, SeverityOf(code), at, about)
SayWhen(st, condition, code, at, about) == IF condition THEN Say(st, code, at, about) ELSE st
Own(st, severity) == IF severity = NoWord THEN "warning" ELSE severity

\* A clause in place of a word.
WordOf(value) == IF value.is = "clause" THEN "{...}" ELSE value.word
Core(env, word) == IF word \in DOMAIN env.core THEN env.core[word] ELSE word

-----------------------------------------------------------------------------
(* The budget of alternatives, the uses of instances, the memo.            *)

Tracked(env, type) ==
    \/ env.game = "stellaris" /\ type = "technology"
    \/ \E i \in DOMAIN env.types : env.types[i].name = type /\ env.types[i].shouldBeReferenced
MarkUse(env, st, type, names) ==
    IF Tracked(env, type) THEN [st EXCEPT !.uses = @ \cup {<<type, Fold(n)>> : n \in names \ {NoWord}}] ELSE st
\* A reference with a prefix or a suffix is stripped of it, as it is, and with it.
Spellings(env, field, word) ==
    {word} \cup IF Len(field) > 2 /\ word \in DOMAIN env.affixed[field[3]] THEN env.affixed[field[3]][word] ELSE {}
MarkTypeFieldUse(env, st, field, word) == MarkUse(env, st, field[2], Spellings(env, field, word))

AllTracked(env) ==
    UNION {{<<type, n>> : n \in env.instances[type]} : type \in {t \in DOMAIN env.instances : Tracked(env, t)}}

\* Mutant of Exhaust: what was not looked at is not held for used.
Exhaust_silent(env, st, at) == [st EXCEPT !.exhausted = <<at>>]

\* The first time the budget is short, every tracked instance is marked as used:
\* the part of the file that will not be looked at might use it.
Exhaust(env, st, at) == [st EXCEPT !.exhausted = <<at>>, !.uses = @ \cup AllTracked(env)]
IsExhausted(st) == st.exhausted # <<>>
Reserve(env, st, branches, at) ==
    CASE branches <= st.left -> [st EXCEPT !.left = @ - branches]
      [] branches > st.left -> IF IsExhausted(st) THEN st ELSE Exhaust(env, st, at)

\* Mutant of MemoKey: where the walk stands is not part of the key.
MemoKey_anywhere(c, category, key, leaf) == <<category, key, leaf.from, leaf.to>>

MemoKey(c, category, key, leaf) == <<category, key, leaf.from, leaf.to, c.scope, c.loops>>
\* The memo is used once half of the budget is spent, and keeps short answers.
MemoArmed(env, st) == env.limits.branches - st.left >= env.limits.armAfter
MemoStore(env, st, key, errors) ==
    IF Cardinality(DOMAIN st.memo) >= env.limits.memoEntries \/ Len(errors) > env.limits.memoErrors THEN st
    ELSE [st EXCEPT !.memo = (key :> errors) @@ @]

-----------------------------------------------------------------------------
(* Scopes.                                                                 *)

ScopeMatchesRequired(reg, current, required) ==
    \/ required = <<>>
    \/ \E i \in DOMAIN required : Fold(required[i]) \in {"any", "all"}
    \/ current = AnyScope
    \/ \E i \in DOMAIN required : IdOf(reg, required[i]) # NoScope /\ IsSubscopeOrEq(reg, current, IdOf(reg, required[i]))

LooksLikeDataRef(word) == Is(word, "colon") \/ Is(word, "digits") \/ Is(word, "tag")
Moved(env, ctx, word) == ChangeScope(env.reg, ctx, Key(word)).ctx
PushNamedScope(env, ctx, push) ==
    IF IdOf(env.reg, push) # NoScope THEN PushScope(ctx, IdOf(env.reg, push)) ELSE Moved(env, ctx, push)
ApplyReplace(env, ctx, replace) ==
    IF replace = <<>> THEN ctx ELSE ApplyReplaceScope(env.reg, ctx, replace[1])

\* The scope inside a block: what its directives push, or where its key leads.
EnterBlockScope(env, ctx, key, opts, numericState) ==
    LET moved == Moved(env, ctx, key)
        still == Len(moved.scopes) = Len(ctx.scopes)
        state == IF numericState /\ env.game = "hoi4" /\ Is(key, "digits") THEN IdOf(env.reg, "state") ELSE NoScope
        anyOr(id) == IF id = NoScope THEN AnyScope ELSE id
        entered ==
            CASE Is(key, "colon") -> IF still THEN PushScope(moved, AnyScope) ELSE moved
              [] ~Is(key, "colon") /\ opts.push # NoWord -> PushNamedScope(env, ctx, opts.push)
              [] OTHER -> IF still /\ (LooksLikeDataRef(key) \/ AnyInstance(env, key))
                          THEN PushScope(moved, anyOr(state)) ELSE moved
    IN ApplyReplace(env, entered, opts.replace)

SeedFromPush(env, ctx, push) ==
    LET id == IdOf(env.reg, push)
    IN IF id = NoScope THEN Moved(env, ctx, push) ELSE [ctx EXCEPT !.root = id, !.scopes = <<id>>]
SeedRootScope(env, ctx, td, push, key) ==
    LET opts == IF td.name \in DOMAIN env.roots THEN env.roots[td.name].opts ELSE [push |-> NoWord, replace |-> <<>>]
        moved == Moved(env, ctx, key)
    IN CASE push # NoWord -> SeedFromPush(env, ctx, push)
         [] push = NoWord /\ opts.push # NoWord -> SeedFromPush(env, ctx, opts.push)
         [] push = NoWord /\ opts.push = NoWord /\ opts.replace # <<>> -> ApplyReplace(env, ctx, opts.replace)
         [] OTHER -> IF key = NoWord THEN ctx
                     ELSE IF Len(moved.scopes) = Len(ctx.scopes) /\ LooksLikeDataRef(key) THEN PushScope(moved, AnyScope)
                     ELSE moved

\* A scope named as a value.  Scopes the registry does not have are not checked.
ValidateScopeTarget(c, st, leaf, expected) ==
    LET word == WordOf(leaf.value)
        known == \A i \in DOMAIN expected :
                    Fold(expected[i]) \in {"any", "all"} \/ IdOf(c.env.reg, expected[i]) # NoScope
        result == ChangeScope(c.env.reg, c.scope, Key(word)).result
    IN IF word = NoWord \/ LooksLikeDataRef(word) \/ ~known THEN st
       ELSE CASE result[1] = "wrong" -> Say(st, "CW245", leaf.from, word)
              [] result[1] = "new" -> SayWhen(st, ~ScopeMatchesRequired(c.env.reg, result[2], expected),
                                              "CW243", leaf.from, word)
              [] result[1] = "not found" -> Say(st, "CW244", leaf.from, word)
              [] OTHER -> st

-----------------------------------------------------------------------------
(* Leaves that are no blocks.                                              *)

\* Where nothing is known of variables none is reported.
Unset(c, word) ==
    /\ c.env.checks.variables
    /\ word \notin c.env.builtins /\ Fold(word) \notin ToSet(c.loops)
    /\ c.env.variables # {} /\ Fold(word) \notin c.env.variables
Dynamic(word) == word = NoWord \/ Is(word, "marked") \/ Is(word, "bracket") \/ Is(word, "dollars")
CheckVariableGet(c, st, namespace, word, at) ==
    SayWhen(st, /\ namespace = "variable" /\ ~Dynamic(word) /\ ~Is(word, "colon")
                /\ Core(c.env, word) # NoWord /\ Unset(c, Core(c.env, word)), "CW246", at, Core(c.env, word))

ScopeKeywords == {"this", "root", "prev", "prevprev", "prevprevprev", "from", "fromfrom", "fromfromfrom", "fromfromfromfrom"}
ResolvesAsScopeKey(env, word) ==
    Fold(word) \in ScopeKeywords \cup DOMAIN env.reg.links \/ IdOf(env.reg, word) # NoScope
ValidateVariable(c, st, leaf, field) ==
    LET word == WordOf(leaf.value)
        core == Core(c.env, word)
        skipped == Is(word, "integer") \/ Dynamic(word) \/ Fold(word) \in {"yes", "no"}
        unset == ~Is(core, "dotted") /\ ~Is(core, "colon") /\ ~ResolvesAsScopeKey(c.env, core) /\ Unset(c, core)
    IN CASE skipped -> st
         [] ~skipped /\ Numeric(core) ->
                IF field[4] /\ Is(core, "fraction") THEN Say(st, "CW271", leaf.from, core)
                ELSE SayWhen(st, field[5] /\ Is(core, "fine"), "CW270", leaf.from, core)
         [] ~skipped /\ ~Numeric(core) -> SayWhen(st, unset, "CW246", leaf.from, core)

\* References are only judged by an index that is complete and has the type.
ValidateReference(c, st, leaf, field) ==
    LET word == WordOf(leaf.value)
        judged == /\ ~Is(field[2], "subtype") /\ c.env.complete
                  /\ field[2] \in DOMAIN c.env.instances /\ c.env.instances[field[2]] # {}
        known == \E w \in Spellings(c.env, field, word) : InstanceOf(c.env, field[2], w)
    IN IF word = NoWord \/ Is(word, "bracket") THEN st
       ELSE SayWhen(MarkTypeFieldUse(c.env, st, field, word), judged /\ ~known,
                    IF field[2] = "event" THEN "CW222" ELSE "CW500", leaf.from, word)

\* A texture may have the other of the two extensions; an asset may name a file
\* beside it.  field[2] gives the paths a word stands for.
ValidateFilepath(c, st, leaf, field) ==
    LET word == Core(c.env, WordOf(leaf.value))
        missing == /\ field[2][word].path \notin c.env.files
                   /\ field[2][word].sibling \notin c.env.files
                   /\ c.env.file.extension # "asset" \/ field[2][word].beside \notin c.env.files
        known == word \in DOMAIN field[2]
    IN IF c.env.files = {} \/ word = NoWord \/ Is(word, "dollars") \/ Is(word, "bracket") \/ Is(word, "angle") THEN st
       ELSE SayWhen(st, known /\ missing, "CW113", leaf.from, word)

\* A localisation field is <<kind, synced, inline>>.  A key that is typed in an
\* open file counts as there, though for no language.
Chars(word) == IF \E s \in DOMAIN Spelt : Spelt[s] = word THEN CHOOSE s \in DOMAIN Spelt : Spelt[s] = word ELSE <<"?">>
LocFieldProblems(c, leaf, field) ==
    LET word == Core(c.env, leaf.value.word)
        key == FoldChars(Chars(word))
        idx == c.env.loc[1]
        overlay == key \in c.env.extraLoc
        exists == key \in idx.union \/ overlay
        missing(lang) == Problem("CW100", "warning", leaf.from, <<word, lang>>)
        langs == MissingSyncedLanguages(idx, key)
        found == IF exists /\ key \in DOMAIN idx.entries
                 THEN ValidateLocCommands(c.env.locData, Current(c.scope), idx.entries[key]) ELSE <<>>
        inline == CASE Is(leaf.value.word, "quoted") -> IF exists THEN <<Problem("CW122", "information", leaf.from, word)>> ELSE <<>>
                    [] ~Is(leaf.value.word, "quoted") -> IF exists THEN <<>> ELSE <<missing("any")>>
        own == CASE field[3] -> inline
                 [] ~field[3] /\ field[2] /\ ~overlay -> [i \in DOMAIN langs |-> missing(langs[i])]
                 [] OTHER -> IF exists THEN <<>> ELSE <<missing("any")>>
        skipped == \/ IsClause(leaf) \/ word = NoWord \/ Is(word, "spaced") \/ Is(word, "bracket")
                   \/ Is(word, "dollars") \/ Is(word, "marked") \/ c.env.loc = <<>>
    IN IF skipped THEN <<>>
       ELSE own \o [i \in DOMAIN found |-> Problem(found[i].code, SeverityOf(found[i].code), leaf.from, word)]
-----------------------------------------------------------------------------
(* Calls of inline scripts.                                                *)

\* The arguments put in the place of their names; a name without an argument stays.
Filled(env, word, args) ==
    IF word \notin DOMAIN env.holes THEN word
    ELSE LET hole == env.holes[word]
         IN hole.texts[[i \in DOMAIN hole.names |->
                IF Fold(hole.names[i]) \in DOMAIN args THEN args[Fold(hole.names[i])] ELSE "$"]]
RECURSIVE CloneChildren(_, _, _)
CloneChildren(env, children, args) ==
    [i \in DOMAIN children |->
        LET child == children[i]
            value == [child.value EXCEPT !.word = Filled(env, @, args), !.children = CloneChildren(env, @, args)]
        IN [child EXCEPT !.key = Filled(env, @, args), !.value = value]]

MaxDepth == 5
Expand(c, call) ==
    LET leaves == LeavesOf(call.value.children)
        named == SelectSeq(leaves, LAMBDA l : SameWord(l.key, "script"))
        name == IF named = <<>> THEN NoWord ELSE Fold(WordOf(named[Len(named)].value))
        other == SelectSeq(leaves, LAMBDA l : ~SameWord(l.key, "script"))
        args == FoldLeft(LAMBDA acc, l : (Fold(l.key) :> WordOf(l.value)) @@ acc, <<>>, other)
        refused(why) == [failure |-> why, name |-> name, children |-> <<>>]
    IN CASE ~IsClause(call) -> refused("not a clause")
         [] IsClause(call) /\ name = NoWord -> refused("missing script")
         [] IsClause(call) /\ name # NoWord ->
              IF name \in ToSet(c.stack) THEN refused("cycle")
              ELSE IF Len(c.stack) >= MaxDepth THEN refused("too deep")
              ELSE IF name \notin DOMAIN c.env.scripts[1] THEN refused("unknown")
              ELSE [failure |-> NoWord, name |-> name, children |-> CloneChildren(c.env, c.env.scripts[1][name], args)]

-----------------------------------------------------------------------------
(* The rules of a block.                                                   *)

RECURSIVE FlattenNestedSubtypeRules(_)
FlattenNestedSubtypeRules(rules) ==
    FlattenSeq([i \in DOMAIN rules |-> IF rules[i].kind = "subtype" THEN FlattenNestedSubtypeRules(rules[i].body)
                                       ELSE <<rules[i]>>])

RuleKey(rule) == IF Keyed(rule) /\ rule.left[1] = "specific" THEN rule.left[2] ELSE NoWord
RuleKeys(rules) == {RuleKey(r) : r \in ToSet(rules)} \ {NoWord}
\* All the rules of one key count together: the most lenient of each bound.
Card(rules, key) ==
    LET own == {r \in ToSet(rules) : RuleKey(r) # NoWord /\ SameWord(RuleKey(r), key)}
    IN [min |-> Min({r.opts.min : r \in own}), max |-> Max({r.opts.max : r \in own}),
        strict |-> \A r \in own : r.opts.strict]

Math == <<"math">>
PlainOpts == [min |-> 0, max |-> 1000, strict |-> TRUE, scopes |-> <<>>, push |-> NoWord, replace |-> <<>>,
              onlyMatch |-> FALSE, default |-> <<>>, severity |-> NoWord]
PlainLeaf(left, right) == [kind |-> "leaf", left |-> left, right |-> right, body |-> <<>>, opts |-> PlainOpts]
MathRules == <<PlainLeaf(<<"specific", "value">>, Math), PlainLeaf(<<"specific", "tooltip">>, <<"scalar">>),
               PlainLeaf(<<"alias", "mathexpr">>, <<"alias", "mathexpr">>)>>
IsMath(rule) == rule.kind = "leaf" /\ rule.right = Math

\* The variables a loop sets for its body: the usual name and those it is given.
LoopVarDefault == [value |-> "v", index |-> "i", break |-> "break"]
CollectLoopVars(rules, children) ==
    LET loops == SelectSeq(rules, LAMBDA r : /\ r.kind = "leaf" /\ r.left[1] = "specific" /\ r.right[1] = "variable set"
                                             /\ r.left[2] \in DOMAIN LoopVarDefault)
        given(r) == SelectSeq(children, LAMBDA ch : IsLeaf(ch) /\ SameWord(ch.key, r.left[2]) /\ WordOf(ch.value) # NoWord)
        of(r) == <<LoopVarDefault[r.left[2]]>> \o [i \in DOMAIN given(r) |-> Fold(WordOf(given(r)[i].value))]
    IN FlattenSeq([i \in DOMAIN loops |-> of(loops[i])])

\* One reading after another: the first without a complaint is the one meant,
\* else the one with the fewest complaints.  One that is only legal beside
\* another does not end the search, and is complained of when it is the only.
CustomError(rule, leaf) ==
    IF ~rule.opts.onlyMatch THEN <<>>
    ELSE <<Problem("CW272", IF rule.opts.severity = NoWord THEN "error" ELSE rule.opts.severity, leaf.from, leaf.key)>>
Judged(acc, after, custom, short) ==
    IF short \/ (after.errors = <<>> /\ custom = <<>>) THEN [acc EXCEPT !.st = after, !.done = TRUE]
    ELSE IF after.errors = <<>> THEN [acc EXCEPT !.st = after, !.only = IF @ = <<>> THEN custom ELSE @]
    ELSE [acc EXCEPT !.st = after, !.best = IF @ # <<>> /\ Len(@) <= Len(after.errors) THEN @ ELSE after.errors]
PickBest(st, readings, TryOne(_, _), leaf, stops) ==
    LET short(s) == stops /\ IsExhausted(s)
        step(acc, rule) ==
            LET after == TryOne([acc.st EXCEPT !.errors = <<>>], rule)
            IN IF acc.done \/ short(acc.st) THEN [acc EXCEPT !.done = TRUE]
               ELSE Judged(acc, after, CustomError(rule, leaf), short(after))
        end == FoldLeft(step, [st |-> st, best |-> <<>>, only |-> <<>>, done |-> FALSE], readings)
        kept == CASE end.done -> <<>>
                  [] ~end.done /\ end.only # <<>> -> end.only
                  [] ~end.done /\ end.only = <<>> -> end.best
    IN [end.st EXCEPT !.errors = st.errors \o kept]

-----------------------------------------------------------------------------
(* The walk.                                                               *)

RECURSIVE ValidateChildren(_, _, _, _, _)

ValidateLeaf(c, st, leaf, rule) ==
    LET field == rule.right
        kind == field[1]
        target == IF kind = "scope" /\ c.env.checks.scope THEN ValidateScopeTarget(c, st, leaf, field[2]) ELSE st
        suggestion == IF kind = "enum" /\ field[2] \in DOMAIN c.env.enums
                      THEN BestSuggestion(WordOf(leaf.value), c.env.enums[field[2]].values) ELSE NoWord
    IN CASE kind = "math" -> IF IsClause(leaf) THEN ValidateChildren(c, st, leaf.value.children, MathRules, leaf.from) ELSE st
         [] kind = "localisation" -> [st EXCEPT !.errors = @ \o LocFieldProblems(c, leaf, field)]
         [] kind = "type" -> ValidateReference(c, st, leaf, field)
         [] kind = "file" -> ValidateFilepath(c, st, leaf, field)
         [] kind = "variable" -> IF leaf.value.is = "clause" THEN st ELSE ValidateVariable(c, st, leaf, field)
         [] kind = "variable get" -> CheckVariableGet(c, st, field[2], WordOf(leaf.value), leaf.from)
         [] OTHER -> SayWhen(target, ~FieldMatchesValue(c.env, field, leaf.value), "CW240", leaf.from, suggestion)

\* One reading of an alias: a rule for a word, or the rules for a block.
ValidateReading(c, st, category, leaf, rule) ==
    LET inner == [c EXCEPT !.scope = EnterBlockScope(c.env, c.scope, leaf.key, rule.opts, TRUE),
                           !.loops = @ \o CollectLoopVars(rule.body, leaf.value.children)]
    IN CASE rule.kind = "leaf" -> ValidateLeaf(c, st, leaf, rule)
         [] rule.kind = "node" -> IF IsClause(leaf) THEN ValidateChildren(inner, st, leaf.value.children, rule.body, leaf.from)
                                  ELSE Say(st, "CW267", leaf.from, category)

ScopeCode == [trigger |-> "CW104", effect |-> "CW105"]
AliasScopeProblems(c, category, leaf, overloads) ==
    LET sure == SelectSeq(overloads, LAMBDA o : o[2])
        fits == \E i \in DOMAIN sure : ScopeMatchesRequired(c.env.reg, Current(c.scope), sure[i][1].opts.scopes)
        code == IF category \in DOMAIN ScopeCode THEN ScopeCode[category] ELSE "CW106"
        command == /\ Is(leaf.key, "dotted") /\ ~LooksLikeDataRef(leaf.key)
                   /\ ChangeScope(c.env.reg, c.scope, Key(leaf.key)).result[1] = "not found"
        say(condition, which) == IF c.env.checks.scope /\ condition THEN <<Problem(which, "error", leaf.from, leaf.key)>> ELSE <<>>
    IN say(command, "CW248") \o say(category # "modifier" /\ sure # <<>> /\ ~fits, code)

ValidateAliasUncached(c, st, category, leaf) ==
    LET overloads == AliasOverloads(c.env, category, leaf.key)
        branches == IF Len(overloads) > 1 THEN Len(overloads) ELSE 0
        spent == Reserve(c.env, st, branches, leaf.from)
        scoped == [spent EXCEPT !.errors = @ \o AliasScopeProblems(c, category, leaf, overloads)]
        rules == [i \in DOMAIN overloads |-> overloads[i][1]]
        math == SelectSeq(rules, IsMath)
        reading(s, rule) == ValidateReading(c, s, category, leaf, rule)
    IN IF IsExhausted(st) \/ overloads = <<>> THEN st
       ELSE IF branches > st.left THEN spent
       ELSE IF IsClause(leaf) /\ math # <<>> THEN ValidateLeaf(c, scoped, leaf, math[1])
       ELSE PickBest(scoped, SelectSeq(rules, Keyed), reading, leaf, FALSE)

\* An answer that is remembered is given again, unless the budget ran out while
\* it was found.
ValidateAliasUsage(c, st, category, leaf) ==
    LET key == MemoKey(c, category, leaf.key, leaf)
        fresh == ValidateAliasUncached(c, [st EXCEPT !.errors = <<>>], category, leaf)
        stored == IF IsExhausted(fresh) THEN fresh ELSE MemoStore(c.env, fresh, key, fresh.errors)
    IN IF ~MemoArmed(c.env, st) THEN ValidateAliasUncached(c, st, category, leaf)
       ELSE IF key \in DOMAIN st.memo THEN [st EXCEPT !.errors = @ \o st.memo[key]]
       ELSE [stored EXCEPT !.errors = st.errors \o @]

IsDefault(rule, leaf) ==
    /\ rule.kind = "leaf" /\ rule.opts.default # <<>>
    /\ Fold(WordOf(leaf.value)) \in IF rule.opts.default[1] THEN {"yes", "true"} ELSE {"no", "false"}
ValidateLeafAgainstRule(c, st, leaf, rule) ==
    LET marked == IF rule.left[1] = "type" THEN MarkTypeFieldUse(c.env, st, rule.left, leaf.key) ELSE st
        scoped == SayWhen(marked, ~ScopeMatchesRequired(c.env.reg, Current(c.scope), rule.opts.scopes), "CW247", leaf.from, leaf.key)
        inner == [c EXCEPT !.scope = EnterBlockScope(c.env, c.scope, leaf.key, rule.opts, FALSE)]
        judged ==
            CASE rule.left[1] = "alias" -> ValidateAliasUsage(c, scoped, rule.left[2], leaf)
              [] rule.left[1] # "alias" /\ rule.kind = "leaf" -> ValidateLeaf(c, scoped, leaf, rule)
              [] rule.left[1] # "alias" /\ rule.kind = "node" ->
                   IF IsClause(leaf) THEN ValidateChildren(inner, scoped, leaf.value.children, rule.body, leaf.from)
                   ELSE Say(scoped, "CW267", leaf.from, leaf.key)
    IN IF IsExhausted(st) \/ rule.left[1] = "ignore" THEN st
       ELSE SayWhen(judged, IsDefault(rule, leaf), "CW282", leaf.from, leaf.key)

\* A field no rule is for: a modifier of the game is one, and a define.
IsModifier(env, key) == env.modifierKeys # <<>> /\ Fold(key) \in env.modifierKeys[1]
Zero(value) == value.is # "clause" /\ Is(value.word, "zero")
ValidateUnknown(c, st, leaf, rules) ==
    LET modifier == IsModifier(c.env, leaf.key)
        code == IF IsClause(leaf) THEN "CW262" ELSE "CW263"
    IN SayWhen(SayWhen(st, modifier /\ Zero(leaf.value), "CW235", leaf.from, leaf.key),
               ~modifier /\ ~Is(leaf.key, "marked"), code, leaf.from, BestSuggestion(leaf.key, RuleKeys(rules)))
ValidateKnown(c, st, leaf, candidates) ==
    LET modifiers == \A i \in DOMAIN candidates : candidates[i].left = <<"alias", "modifier">>
        zero == Zero(leaf.value) /\ modifiers /\ IsModifier(c.env, leaf.key)
        against(s, rule) == ValidateLeafAgainstRule(c, s, leaf, rule)
    IN PickBest(SayWhen(st, zero, "CW235", leaf.from, leaf.key), candidates, against, leaf, TRUE)

\* A bare value takes the first rule it is right for.
ValidateBare(c, st, child, rules) ==
    LET fits == SelectSeq(rules, LAMBDA r : r.kind = "value" /\ FieldMatchesValue(c.env, r.right, child.value))
        word == WordOf(child.value)
    IN CASE fits = <<>> -> Say(st, "CW264", child.from, word)
         [] fits # <<>> /\ fits[1].right[1] = "variable get" -> CheckVariableGet(c, st, fits[1].right[2], word, child.from)
         [] fits # <<>> /\ fits[1].right[1] = "type" -> MarkTypeFieldUse(c.env, st, fits[1].right, word)
         [] OTHER -> st
ValidateBareClause(c, st, child, rules) ==
    LET fits == SelectSeq(rules, LAMBDA r : r.kind = "value clause")
    IN IF fits = <<>> THEN Say(st, "CW265", child.from, NoWord)
       ELSE ValidateChildren(c, st, child.value.children, fits[1].body, child.from)

\* The walk counts what it sees: the fields, and for the rules of bare values
\* and bare blocks the values that fit.  What a called script holds stands in
\* the place of the call: it counts here, and its complaints are the call's.
Counts(c, child, rules) ==
    CASE child.kind = "value" ->
           {i \in DOMAIN rules : IF child.value.is = "clause" THEN rules[i].kind = "value clause"
                                 ELSE rules[i].kind = "value" /\ FieldMatchesValue(c.env, rules[i].right, child.value)}
      [] OTHER -> {}
Saw(acc, c, child, rules) ==
    [acc EXCEPT !.keys = IF IsLeaf(child) THEN Append(@, child) ELSE @,
                !.values = [i \in DOMAIN @ |-> @[i] + IF i \in Counts(c, child, rules) THEN 1 ELSE 0]]

RECURSIVE CountAndValidate(_, _, _, _)
ExpandCall(c, acc, leaf, rules) ==
    LET expanded == Expand(c, leaf)
        body == [c EXCEPT !.stack = Append(@, expanded.name)]
        before == [acc EXCEPT !.st.errors = <<>>, !.st.memo = <<>>]
        after == CountAndValidate(body, before, expanded.children, rules)
        placed == [i \in DOMAIN after.st.errors |-> [after.st.errors[i] EXCEPT !.at = leaf.from]]
    IN CASE c.env.scripts = <<>> -> acc
         [] c.env.scripts # <<>> /\ expanded.failure # NoWord -> [acc EXCEPT !.st = Say(@, "CW274", leaf.from, expanded.failure)]
         [] c.env.scripts # <<>> /\ expanded.failure = NoWord ->
              [after EXCEPT !.st.errors = acc.st.errors \o placed, !.st.memo = acc.st.memo,
                            !.keys = SubSeq(@, 1, Len(acc.keys))
                                     \o [i \in 1..(Len(@) - Len(acc.keys)) |-> [@[Len(acc.keys) + i] EXCEPT !.from = -1]]]
CountAndValidate(c, start, children, rules) ==
    LET one(acc, child) ==
            LET candidates == MatchingCandidates(c.env, rules, child.key)
                seen == Saw(acc, c, child, rules)
                math == \E i \in DOMAIN candidates : IsMath(candidates[i])
                after ==
                    CASE child.kind = "comment" -> seen.st
                      [] child.kind = "value" -> IF child.value.is = "clause" THEN ValidateBareClause(c, seen.st, child, rules)
                                                 ELSE ValidateBare(c, seen.st, child, rules)
                      [] child.kind = "leaf" ->
                           IF IsClause(child) /\ math THEN ValidateChildren(c, seen.st, child.value.children, MathRules, child.from)
                           ELSE IF candidates = <<>> THEN ValidateUnknown(c, seen.st, child, rules)
                           ELSE ValidateKnown(c, seen.st, child, candidates)
            IN IF IsExhausted(acc.st) THEN acc
               ELSE IF IsLeaf(child) /\ SameWord(child.key, "inline_script") THEN ExpandCall(c, acc, child, rules)
               ELSE [seen EXCEPT !.st = after]
    IN FoldLeft(one, start, children)

\* A field is judged at the first rule of its key, with that rule's severity.
\* Too many of a field are shown at the first, or at the block when it is only
\* in a called script.
CardinalityProblems(rules, acc, children, at) ==
    LET first(i) == RuleKey(rules[i]) # NoWord /\ ~\E j \in 1..(i - 1) : SameWord(RuleKey(rules[j]), RuleKey(rules[i]))
        keyed(i) == SelectSeq(acc.keys, LAMBDA l : SameWord(l.key, RuleKey(rules[i])))
        own(i) == SelectSeq(keyed(i), LAMBDA l : l.from >= 0)
        say(condition, i, where) ==
            IF condition THEN <<Problem("CW242", Own(acc.st, rules[i].opts.severity), where, i)>> ELSE <<>>
        bounds(i) == IF Keyed(rules[i]) THEN Card(rules, RuleKey(rules[i])) ELSE rules[i].opts
        count(i) == IF Keyed(rules[i]) THEN Len(keyed(i)) ELSE acc.values[i]
        place(i) == IF Keyed(rules[i]) /\ own(i) # <<>> THEN own(i)[1].from ELSE at
        of(i) == say(count(i) < bounds(i).min /\ bounds(i).strict, i, at) \o say(count(i) > bounds(i).max, i, place(i))
        judged(i) == rules[i].kind \in {"value", "value clause"} \/ first(i)
    IN FlattenSeq([i \in DOMAIN rules |-> IF judged(i) THEN of(i) ELSE <<>>])

ValidateChildren(c, st, children, given, at) ==
    LET rules == FlattenNestedSubtypeRules(given)
        acc == CountAndValidate(c, [st |-> st, keys |-> <<>>, values |-> [i \in DOMAIN rules |-> 0]], children, rules)
        placed == SelectSeq(children, LAMBDA ch : "from" \in DOMAIN ch)
        where == IF at = 0 /\ placed # <<>> THEN placed[1].from ELSE at
    IN IF IsExhausted(st) THEN st
       ELSE IF IsExhausted(acc.st) THEN acc.st
       ELSE [acc.st EXCEPT !.errors = @ \o CardinalityProblems(rules, acc, children, where)]

-----------------------------------------------------------------------------
(* An instance of a type.                                                  *)

ZeroMin(rules) == [i \in DOMAIN rules |-> [rules[i] EXCEPT !.opts.min = 0]]
\* The subtypes that match, without those another that matches keeps out.
MatchedSubtypes(env, td, key, children) ==
    LET matched == {i \in DOMAIN td.subs : SubtypeMatches(env, td.subs[i], key, children)}
        names == {td.subs[i].name : i \in matched}
        first(name) == td.subs[Min({i \in DOMAIN td.subs : td.subs[i].name = name})]
    IN {n \in names : first(n).onlyIfNot \cap names = {}}
FirstPushScope(td, matched) ==
    LET pushing == SelectSeq(td.subs, LAMBDA s : s.name \in matched /\ s.push # NoWord)
    IN IF pushing = <<>> THEN NoWord ELSE pushing[1].push

MergedRules(env, td, children, inner, key, union) ==
    LET matched == MatchedSubtypes(env, td, key, children)
        nested == \E i \in DOMAIN inner : inner[i].kind = "subtype"
        expand(rule) == IF rule.kind # "subtype" THEN <<rule>>
                        ELSE IF union \/ (rule.name \in matched) = rule.positive THEN ZeroMin(rule.body) ELSE <<>>
        own(sub) == IF union \/ (~nested /\ sub.name \in matched) THEN ZeroMin(sub.rules) ELSE <<>>
        rules == FlattenSeq([i \in DOMAIN inner |-> expand(inner[i])]) \o FlattenSeq([i \in DOMAIN td.subs |-> own(td.subs[i])])
    IN IF td.subs = <<>> THEN [rules |-> inner, matched |-> {}, push |-> NoWord]
       ELSE [rules |-> rules, matched |-> matched, push |-> FirstPushScope(td, matched)]

ValidateWithType(c, st, td, children, inner, key, at) ==
    LET merged == MergedRules(c.env, td, children, inner, key, FALSE)
        seeded == [c EXCEPT !.scope = SeedRootScope(c.env, c.scope, td, merged.push, key)]
        after == ValidateChildren(seeded, st, children, merged.rules, at)
        soften(p) == IF p.severity = "error" THEN [p EXCEPT !.severity = "warning"] ELSE p
        softened == [i \in DOMAIN after.errors |-> IF i > Len(st.errors) THEN soften(after.errors[i]) ELSE after.errors[i]]
    IN IF IsExhausted(st) \/ (td.subs # <<>> /\ merged.matched = {} /\ merged.rules = <<>>) THEN st
       ELSE IF td.warningOnly THEN [after EXCEPT !.errors = softened] ELSE after

\* Behind a level that is skipped a bare value is not expected, unless more
\* levels follow.
RECURSIVE ValidateGrandchildren(_, _, _, _, _)
ValidateGrandchildren(c, st, children, wrapper, key) ==
    LET candidates == SelectSeq(PathCandidates(c.env, c.env.file), LAMBDA td : SkipsRootKey(td, key))
        one(s, child) ==
            LET found == RefineGrandchild(c.env, candidates, child.key, wrapper)
            IN CASE IsExhausted(s) -> s
                 [] ~IsExhausted(s) /\ child.kind = "value" -> SayWhen(s, wrapper.skip = <<>>, "CW264", child.from, WordOf(child.value))
                 [] ~IsExhausted(s) /\ IsClause(child) ->
                      IF wrapper.skip # <<>>
                      THEN IF SkipRootKeyMatches(wrapper.skip[1], child.key)
                           THEN ValidateGrandchildren(c, s, child.value.children, [wrapper EXCEPT !.skip = Tail(@)], child.key)
                           ELSE s
                      ELSE IF found = Unresolved THEN s
                      ELSE ValidateWithType(c, s, found.type, child.value.children, found.rules, child.key, child.from)
                 [] OTHER -> s
    IN IF IsExhausted(st) THEN st ELSE FoldLeft(one, st, children)
=============================================================================
