----------------------------- MODULE Validators -----------------------------
(***************************************************************************)
(* What is said of a file beside its rules (crate validation: per_game/,   *)
(* references.rs, missing_loc.rs, inline_ignore.rs), and the validation of *)
(* a whole file (lib.rs).                                                  *)
(*                                                                         *)
(* Of the place of a file, `env.file.place` holds the names of folders the *)
(* checks look for.                                                        *)
(***************************************************************************)
EXTENDS RuleCheck

Noted(code, at, about) == Problem(code, SeverityOf(code), at, about)
NotedWhen(condition, code, at, about) == IF condition THEN <<Noted(code, at, about)>> ELSE <<>>
HasKey(child, key) == IsLeaf(child) /\ SameWord(child.key, key)
AnyKey(children, keys) == \E i \in DOMAIN children : \E k \in keys : HasKey(children[i], k)
BlocksNamed(children, keys) == SelectSeq(children, LAMBDA ch : IsClause(ch) /\ Fold(ch.key) \in keys)
OverBlocks(children, Of(_)) == LET blocks == ClausesOf(children) IN FlattenSeq([i \in DOMAIN blocks |-> Of(blocks[i])])

RECURSIVE WalkBlocks(_)
WalkBlocks(children) == OverBlocks(children, LAMBDA b : <<b>> \o WalkBlocks(b.value.children))

\* The value of the first leaf of a key; a block has none.
ChildScalar(children, key) ==
    LET named == SelectSeq(children, LAMBDA ch : HasKey(ch, key)) IN IF named = <<>> THEN NoWord ELSE named[1].value.word

-----------------------------------------------------------------------------
(* Every game: conditions, chains of if and else, events.                  *)

Conditions == {"not", "and", "or", "nor"}
Ifs == {"if", "else_if"}
Said(children) == SelectSeq(children, LAMBDA ch : ch.kind # "comment")
\* An `if` that holds nothing but its condition.
IsEmptyIf(children) == \A i \in DOMAIN children : children[i].kind = "comment" \/ (IsClause(children[i]) /\ HasKey(children[i], "limit"))
\* Whether what follows continues the chain, so that the link cannot be deleted.
ChainFollows(children, i) ==
    LET rest == Said(SubSeq(children, i + 1, Len(children)))
    IN rest # <<>> /\ \E k \in {"else_if", "else"} : HasKey(rest[1], k)

Inside(key) == CASE key \in {"or", "nor"} -> "or" [] key \in {"not", "count_triggers"} -> "neutral" [] OTHER -> "and"
RECURSIVE Structure(_, _)
Structure(children, parent) ==
    LET of(i) ==
            LET b == children[i]
                key == Fold(b.key)
                body == b.value.children
                \* An operator with a `value` is one of a calculation.
                math == key \in Conditions /\ AnyKey(body, {"value"})
                own == NotedWhen(key = "not" /\ Len(Said(body)) > 1, "CW223", b.from, key)
                       \o NotedWhen(key \in Ifs /\ IsEmptyIf(body), "CW121", b.from, IF ChainFollows(children, i) THEN NoWord ELSE "delete")
                       \o NotedWhen(key = "limit" /\ Said(body) = <<>>, "CW281", b.from, key)
                       \o NotedWhen(key \in {"and", "or"} /\ key = parent, "CW251", b.from, key)
            IN CASE ~IsClause(b) -> <<>>
                 [] IsClause(b) /\ math -> Structure(body, "neutral")
                 [] IsClause(b) /\ ~math -> own \o Structure(body, Inside(key))
    IN FlattenSeq([i \in DOMAIN children |-> of(i)])

IsEvent(env, key) == Fold(key) \in DOMAIN env.eventScope \cup {"event"}
AlwaysNo(child) == IsClause(child) /\ \E i \in DOMAIN child.value.children :
    HasKey(child.value.children[i], "always") /\ Fold(child.value.children[i].value.word) = "no"
Guarded(children) ==
    \/ AnyKey(children, {"mean_time_to_happen", "is_triggered_only", "fire_only_once", "base"})
    \/ \E i \in DOMAIN children : HasKey(children[i], "trigger") /\ AlwaysNo(children[i])
EventEveryTick(env, root) ==
    IF "events" \notin env.file.place THEN <<>>
    ELSE OverBlocks(root, LAMBDA b : NotedWhen(IsEvent(env, b.key) /\ ~Guarded(b.value.children), "CW107", b.from, b.key))

\* The first link of a chain in a block that no `if` goes before.
RECURSIVE IfElseOrder(_)
IfElseOrder(children) ==
    LET links(b) == BlocksNamed(b.value.children, Ifs \cup {"else"})
        before(b, i) == IF i = 1 THEN Fold(b.key) \in Ifs ELSE Fold(links(b)[i - 1].key) \in Ifs
        loose(b) == \E i \in DOMAIN links(b) : ~before(b, i) /\ Fold(links(b)[i].key) # "if"
        of(b) == NotedWhen(Fold(b.key) \notin {"limit", "modifier"} /\ loose(b), "CW238", b.from, b.key)
                 \o IfElseOrder(b.value.children)
    IN OverBlocks(children, of)

DuplicateTypeDefs(env) ==
    FlattenSeq([i \in DOMAIN env.inFile |->
        LET inst == env.inFile[i]
            td == TypeByName(env, inst.type)
        IN NotedWhen(td # NoType /\ td.unique /\ env.defined[<<inst.type, inst.name>>] >= 2, "CW261", inst.at, inst.name)])

-----------------------------------------------------------------------------
(* Hearts of Iron and Stellaris.                                           *)

RedundantDefaults(root) ==
    LET said(b) == Said(b.value.children)
        sole(b) == Len(said(b)) = 1 /\ HasKey(said(b)[1], "always") /\ said(b)[1].value.is = "bool"
                   /\ Fold(said(b)[1].value.word) = "no"
        blocks == WalkBlocks(root)
    IN FlattenSeq([i \in DOMAIN blocks |->
           NotedWhen(Fold(blocks[i].key) = "allowed_civil_war" /\ sole(blocks[i]), "CW280", blocks[i].from, blocks[i].key)])

\* Triggers that have a cheaper place are shown there.
FlagPretriggers(children, pretriggers) ==
    LET hits == SelectSeq(children, LAMBDA ch : IsLeaf(ch) /\ ~IsClause(ch) /\ Fold(ch.key) \in pretriggers)
    IN [i \in DOMAIN hits |-> Noted("CW120", hits[i].from, Fold(hits[i].key))]
InBlocks(children, key, scope, env) ==
    IF scope \notin DOMAIN env.pretriggers THEN <<>>
    ELSE OverBlocks(BlocksNamed(children, {key}), LAMBDA b : FlagPretriggers(b.value.children, env.pretriggers[scope]))
EventPretriggers(env, b) ==
    LET scope == IF Fold(b.key) \in DOMAIN env.eventScope THEN env.eventScope[Fold(b.key)] ELSE NoWord
    IN InBlocks(b.value.children, "trigger", IF scope = "pop_group" THEN "pop" ELSE scope, env)

HasCategory(children) ==
    \E i \in DOMAIN children :
        /\ HasKey(children[i], "category")
        /\ IF IsClause(children[i]) THEN \E j \in DOMAIN children[i].value.children : children[i].value.children[j].kind = "value"
           ELSE children[i].value.is = "string" /\ children[i].value.word # NoWord
Technology(b) ==
    LET area == ChildScalar(b.value.children, "area")
        leaders == SelectSeq(WalkBlocks(b.value.children), LAMBDA l : Fold(l.key) = "research_leader")
        own(l) == ChildScalar(l.value.children, "area")
        of(l) == NotedWhen(own(l) = NoWord, "CW108", l.from, NoWord)
                 \o NotedWhen(own(l) # NoWord /\ area # NoWord /\ ~SameWord(own(l), area), "CW109", l.from, own(l))
    IN NotedWhen(~HasCategory(b.value.children), "CW110", b.from, b.key)
       \o FlattenSeq([i \in DOMAIN leaders |-> of(leaders[i])])

\* References that the index alone can judge: only a complete one, and only
\* types it has anything of.
Unknown(env, type, name) == type \in DOMAIN env.instances /\ env.instances[type] # {} /\ ~InstanceOf(env, type, name)
PlanetKiller(env, b) ==
    LET key == ChildScalar(b.value.children, "key")
        killer == env.complete /\ SameWord(ChildScalar(b.value.children, "type"), "planet_killer") /\ key # NoWord
        needs(type) == NotedWhen(killer /\ Unknown(env, type, env.killer[<<type, key>>]), "CW250", b.from, key)
    IN needs("on_action") \o needs("scripted_trigger")

DefaultSections == {"default_colonization_section", "default_construction_section"}
ShipDesigns(env, root) ==
    LET part(b) ==
            LET section == Fold(b.key) = "section"
                template == ChildScalar(b.value.children, "template")
                type == IF section THEN "section_template" ELSE "component_template"
            IN NotedWhen(/\ template # NoWord /\ ~(section /\ Fold(template) \in DefaultSections)
                         /\ Unknown(env, type, template), IF section THEN "CW227" ELSE "CW229", b.from, template)
        of(b) == OverBlocks(BlocksNamed(b.value.children, {"section", "component"}), part)
    IN IF env.complete THEN OverBlocks(BlocksNamed(root, {"ship_design", "global_ship_design"}), of) ELSE <<>>

\* Names and chains of an older version of the game.
Outdated(root) ==
    LET blocks == WalkBlocks(root)
        of(b) ==
            LET key == Fold(b.key)
                hasElse == AnyKey(b.value.children, {"else"})
                hasIf == AnyKey(b.value.children, {"if"})
            IN NotedWhen(key \in {"set_empire_name", "set_planet_name"}, "CW253", b.from, key)
               \o NotedWhen(key \in Ifs /\ hasElse /\ ~hasIf, "CW236", b.from, key)
               \o NotedWhen(key = "if" /\ hasElse /\ hasIf, "CW237", b.from, key)
    IN FlattenSeq([i \in DOMAIN blocks |-> of(blocks[i])])

Stellaris(env, root) ==
    LET place == env.file.place
        of(b) == (IF "events" \in place /\ IsEvent(env, b.key) THEN EventPretriggers(env, b) ELSE <<>>)
                 \o (IF "common/technology" \in place THEN Technology(b) ELSE <<>>)
                 \o (IF "common/pop_jobs" \in place THEN InBlocks(b.value.children, "possible", "pop", env) ELSE <<>>)
                 \o (IF "common/component_templates" \in place THEN PlanetKiller(env, b) ELSE <<>>)
    IN OverBlocks(root, of) \o ShipDesigns(env, root) \o Outdated(root)

\* Technologies the game uses without a reference count as used.
Exempt(children) ==
    LET zero(chs, key) == \E i \in DOMAIN chs : HasKey(chs[i], key) /\ Zero(chs[i].value)
    IN \/ AnyKey(children, {"prereqfor_desc", "modifier", "feature_flags"})
       \/ zero(children, "weight")
       \/ \E i \in DOMAIN children : HasKey(children[i], "weight_modifier") /\ zero(children[i].value.children, "factor")
MarkExempt(env, st, root) ==
    LET exempt == SelectSeq(ClausesOf(root), LAMBDA b : Exempt(b.value.children))
    IN IF "common/technology" \in env.file.place
       THEN MarkUse(env, st, "technology", {exempt[i].key : i \in DOMAIN exempt}) ELSE st

RunGameValidators(env, st, root) ==
    LET all == DuplicateTypeDefs(env) \o Structure(root, "and") \o EventEveryTick(env, root) \o IfElseOrder(root)
        own == CASE env.game = "stellaris" -> Stellaris(env, root)
                 [] env.game = "hoi4" -> RedundantDefaults(root)
                 [] OTHER -> <<>>
        said == [st EXCEPT !.errors = @ \o all \o own]
    IN IF env.game = "stellaris" THEN MarkExempt(env, said, root) ELSE said

-----------------------------------------------------------------------------
(* A whole file.                                                           *)

ScopeAgnostic == {"scripted_effects", "scripted_triggers", "scripted_localisation", "collections", "dynamic_modifiers"}
InitialScope(env) ==
    LET country == IdOf(env.reg, "country")
    IN FromRegistry(IF env.file.place \cap ScopeAgnostic # {} THEN AnyScope ELSE IF country = NoScope THEN 100 ELSE country)
Fresh(env) == [errors |-> <<>>, left |-> env.limits.branches, exhausted |-> <<>>, memo |-> <<>>, uses |-> {}]

\* The file is one instance, or every block of its root is.  Nothing more is
\* looked at once the budget is spent, and that is said last.
ValidatePrepared(env, root) ==
    LET c == [env |-> env, scope |-> InitialScope(env), loops |-> <<>>, stack |-> <<>>]
        candidates == PathCandidates(env, env.file)
        pathType == TypeFromCandidates(candidates, env.file, NoWord)
        rules == RulesByName(env, pathType.name)
        whole == IF TypeHasContent(pathType, rules) THEN ValidateWithType(c, Fresh(env), pathType, root, rules, NoWord, 0)
                 ELSE Fresh(env)
        one(st, b) ==
            LET found == ResolveRootChild(env, candidates, env.file, b.key, FALSE)
            IN CASE IsExhausted(st) -> st
                 [] ~IsExhausted(st) /\ found.is = "entity" ->
                        ValidateWithType(c, st, found.type, b.value.children, found.rules, b.key, b.from)
                 [] ~IsExhausted(st) /\ found.is = "wrapper" -> ValidateGrandchildren(c, st, b.value.children, found, b.key)
                 [] OTHER -> st
        walked == IF pathType # NoType /\ pathType.perFile THEN whole ELSE FoldLeft(one, Fresh(env), ClausesOf(root))
    IN IF IsExhausted(walked) THEN Say(walked, "CW277", walked.exhausted[1], NoWord)
       ELSE RunGameValidators(env, walked, root)

-----------------------------------------------------------------------------
(* Checks of a workspace.                                                  *)

CheckUnusedInstances(env, instances, used) ==
    LET unused == SelectSeq(instances, LAMBDA inst : Tracked(env, inst.type) /\ <<inst.type, Fold(inst.name)>> \notin used)
        code(inst) == IF env.game = "stellaris" /\ inst.type = "technology" THEN "CW231" ELSE "CW239"
    IN [i \in DOMAIN unused |-> Noted(code(unused[i]), unused[i].at, unused[i].name)]

\* A type derives keys from the name of an instance; an instance has its own.
CheckMissingLocalisation(env, instances, exists) ==
    LET relevant == SelectSeq(env.types, LAMBDA td : (td.derived # {} \/ td.explicit) /\ CheckPathDir(td.path, env.file))
        keys(td, inst) == SetToSeq({env.derivedKey[<<d, inst.name>>] : d \in td.derived}) \o inst.requiredLoc
        missing(td, inst) == LET ks == SelectSeq(keys(td, inst), LAMBDA k : Fold(k) \notin exists)
                             IN [i \in DOMAIN ks |-> Noted("CW100", inst.at, ks[i])]
        own(td) == SelectSeq(instances, LAMBDA inst : inst.type = td.name)
        of(td) == FlattenSeq([i \in DOMAIN own(td) |-> missing(td, own(td)[i])])
    IN FlattenSeq([i \in DOMAIN relevant |-> of(relevant[i])])

\* A comment that ignores codes does so on its own line and on those beside it.
InlineSuppressed(ignored, line, code) ==
    line # 0 /\ \E l \in {line - 1, line, line + 1} \cap DOMAIN ignored : Fold(code) \in ignored[l]

\* A modifier with a type in its name stands for one of every instance;
\* `env.inName[m]` is that type and what its instances make of the name.
BuildModifierKeys(env, modifiers) ==
    LET of(m) == IF m \in DOMAIN env.inName
                 THEN {env.inName[m].named[n] : n \in env.instances[env.inName[m].type]} ELSE {Fold(m)}
    IN UNION {of(m) : m \in modifiers}
=============================================================================
