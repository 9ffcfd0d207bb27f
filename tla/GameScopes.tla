----------------------------- MODULE GameScopes -----------------------------
(***************************************************************************)
(* Scopes of a game and the links between them (crate game: scope_registry *)
(* and scope_engine).  A registry knows scopes by number and by name and   *)
(* the links that lead from one to another; a context is the stack of      *)
(* scopes a walk over a script stands in.                                  *)
(***************************************************************************)
EXTENDS ScriptTree, TLC

CONSTANTS ScopeNumber,   \* the words that are numbers, and their values
          IteratorWord,  \* <<iterator, name>> -> the word they make, for the names without a space
          Marked,        \* the words that begin with the mark of a variable, @
          Parts,         \* the words with dots or a colon -> their segments and prefix
          Shape          \* word -> the shapes its characters make, for the words that have any

Is(word, shape) == word \in DOMAIN Shape /\ shape \in Shape[word]

AnyScope == 0
Invalid == 1
NoScope == -1           \* what a lookup that finds nothing answers

Scope(names, parents) == [names |-> names, parents |-> parents]
Link(from, to) == [from |-> from, to |-> to]
EmptyRegistry == [byId |-> <<>>, byName |-> <<>>, links |-> <<>>, prefixes |-> <<>>]

IdOf(reg, name) ==
    CASE Fold(name) \in {"any", "all", "none"} -> AnyScope
      [] Fold(name) = "invalid" -> Invalid
      [] Fold(name) \in DOMAIN reg.byName -> reg.byName[Fold(name)]
      [] OTHER -> NoScope

\* A scope is called by its first alias, or by its name when it has none.
NameOf(reg, id) ==
    CASE id = AnyScope -> "any"
      [] id = Invalid -> "invalid"
      [] id \in DOMAIN reg.byId -> LET names == reg.byId[id].names IN names[IF Len(names) > 1 THEN 2 ELSE 1]
      [] OTHER -> NoWord

\* Everything above a scope.  The search remembers what it has seen, so that
\* scopes that are above each other do not keep it.
RECURSIVE Above(_, _)
Above(reg, found) ==
    LET next == found \cup UNION {reg.byId[s].parents : s \in found \cap DOMAIN reg.byId}
    IN IF next = found THEN found ELSE Above(reg, next)
IsSubscopeOrEq(reg, current, target) ==
    AnyScope \in {current, target} \/ target \in Above(reg, {current})

-----------------------------------------------------------------------------
(* Building a registry.                                                    *)

Enter(reg, id, names) ==
    [reg EXCEPT !.byName = [n \in {Fold(names[i]) : i \in DOMAIN names} |-> id] @@ @]
Define(reg, id, scope) == [Enter(reg, id, scope.names) EXCEPT !.byId = (id :> scope) @@ @]

\* The tables the program is built with: scopes with their numbers, and groups
\* of names of links, of which the last of a name stays.
FromHardcoded(defs, entries) ==
    LET reg == FoldLeft(LAMBDA r, d : Define(r, d.id, d.scope), EmptyRegistry, defs)
        load(r, e) == [r EXCEPT !.links = [n \in e.names |-> Link(e.from, e.to)] @@ @]
    IN FoldLeft(load, reg, entries)

\* Scopes of scopes.cwt are numbered from 100 on; the two that have a number
\* keep it and get no entry of their own.
ConfigId(input, next) ==
    LET called(word) == \E i \in DOMAIN input.names : Fold(input.names[i]) = word
    IN CASE called("invalid") -> Invalid
         [] ~called("invalid") /\ called("any") -> AnyScope
         [] OTHER -> next
ConfigScopes(inputs) ==
    LET add(acc, input) ==
            LET id == ConfigId(input, acc.next)
            IN IF id = acc.next
               THEN [reg |-> Define(acc.reg, id, Scope(input.names, {})), next |-> acc.next + 1]
               ELSE [acc EXCEPT !.reg = Enter(@, id, input.names)]
    IN FoldLeft(add, [reg |-> EmptyRegistry, next |-> 100], inputs)

\* Parents are looked up when all scopes have their numbers.
ResolveParents(reg, inputs) ==
    LET add(r, input) ==
            LET id == IdOf(r, input.names[1])
            IN IF id \notin DOMAIN r.byId THEN r
               ELSE [r EXCEPT !.byId[id].parents = {IdOf(r, p) : p \in input.parents} \ {NoScope}]
    IN FoldLeft(add, reg, inputs)

\* An input scope nobody knows stands for any; an output nobody knows for none.
ConfigLinks(reg, inputs) ==
    LET scopes(names) == {IF IdOf(reg, n) = NoScope THEN AnyScope ELSE IdOf(reg, n) : n \in names}
        add(r, li) ==
            LET link == Link(scopes(li.from), IF li.to = NoWord THEN NoScope ELSE IdOf(reg, li.to))
            IN IF li.prefix # NoWord THEN [r EXCEPT !.prefixes = Append(@, <<Fold(li.prefix), link>>)]
               ELSE [r EXCEPT !.links = (Fold(li.name) :> link) @@ @]
    IN FoldLeft(add, reg, inputs)

\* every_x, random_x, any_x and all_x lead to x unless a link of that name is there.
Iterators == {"every", "random", "any", "all"}
IteratorLinks(reg) ==
    LET named == {n \in DOMAIN reg.byName : reg.byName[n] \in DOMAIN reg.byId}
        pair(w) == CHOOSE p \in DOMAIN IteratorWord : IteratorWord[p] = w
        words == {IteratorWord[p] : p \in DOMAIN IteratorWord \cap (Iterators \X named)}
    IN [reg EXCEPT !.links = @ @@ [w \in words |-> Link({}, reg.byName[pair(w)[2]])]]

\* Each scope of the tables is one of the configured scopes that shares a name
\* with it, or gets the next number.  `order` is the order the hash map gives.
MapScopes(reg, hc, next, order) ==
    LET add(acc, hid) ==
            LET names == hc.byId[hid].names
                known == SelectSeq([i \in DOMAIN names |-> IdOf(acc.reg, names[i])], LAMBDA id : id # NoScope)
            IN IF known # <<>> THEN [acc EXCEPT !.to = (hid :> known[1]) @@ @]
               ELSE [reg |-> Define(acc.reg, acc.next, Scope(names, {})), next |-> acc.next + 1,
                     to |-> (hid :> acc.next) @@ acc.to]
    IN FoldLeft(add, [reg |-> reg, next |-> next, to |-> <<>>], order)

\* Mutant of Remap: the number of the table is taken for a number of the registry.
Remap_identity(to, id) == id

Remap(to, id) == IF id \in DOMAIN to THEN to[id] ELSE id
RemapLink(to, link) == Link({Remap(to, s) : s \in link.from}, Remap(to, link.to))

\* What the configuration leaves unsaid is filled in from the tables: parents of
\* scopes without any, links and prefixes of names it does not have.
BackfillHardcoded(reg, hc, next, order) ==
    LET mapped == MapScopes(reg, hc, next, order)
        giving(id) == SelectSeq(order, LAMBDA h : mapped.to[h] = id /\ hc.byId[h].parents # {})
        parents(id) == {Remap(mapped.to, p) : p \in hc.byId[giving(id)[1]].parents}
        prefixes == SelectSeq(hc.prefixes, LAMBDA p : \A i \in DOMAIN reg.prefixes : reg.prefixes[i][1] # p[1])
    IN IF DOMAIN hc.byId = {} THEN reg
       ELSE [byName |-> mapped.reg.byName,
             byId |-> [id \in DOMAIN mapped.reg.byId |->
                          IF mapped.reg.byId[id].parents = {} /\ giving(id) # <<>>
                          THEN [mapped.reg.byId[id] EXCEPT !.parents = parents(id)] ELSE mapped.reg.byId[id]],
             links |-> reg.links @@ [n \in DOMAIN hc.links |-> RemapLink(mapped.to, hc.links[n])],
             prefixes |-> reg.prefixes \o
                 [i \in DOMAIN prefixes |-> <<prefixes[i][1], RemapLink(mapped.to, prefixes[i][2])>>]]

FromConfig(scopes, links, hc, order) ==
    LET numbered == ConfigScopes(scopes)
        reg == IteratorLinks(ConfigLinks(ResolveParents(numbered.reg, scopes), links))
    IN IF scopes = <<>> THEN hc ELSE BackfillHardcoded(reg, hc, numbered.next, order)

-----------------------------------------------------------------------------
(* The stack.  A result is <<kind, ...>> and the context it leaves behind. *)

FromRegistry(root) == [root |-> root, scopes |-> <<root>>, from |-> <<>>]
Current(ctx) == IF ctx.scopes = <<>> THEN ctx.root ELSE ctx.scopes[Len(ctx.scopes)]
PushScope(ctx, scope) == [ctx EXCEPT !.scopes = Append(@, scope)]
GetFrom(ctx, i) == IF i \in 1..Len(ctx.from) THEN ctx.from[i] ELSE AnyScope

Answered(result, ctx) == [result |-> result, ctx |-> ctx]
NewScope(ctx, scope) == Answered(<<"new", scope>>, PushScope(ctx, scope))
Stay(ctx) == Answered(<<"new", Current(ctx)>>, ctx)
NotFound(ctx) == Answered(<<"not found">>, ctx)

\* What a directive of the rules replaces.  The scopes before replace the whole
\* stack below its top.
ApplyReplaceScope(reg, ctx, replace) ==
    LET resolve(n) == CASE IdOf(reg, n) # NoScope -> IdOf(reg, n)
                        [] n \in DOMAIN ScopeNumber -> ScopeNumber[n]
                        [] OTHER -> NoScope
        known(names) == SelectSeq([i \in DOMAIN names |-> resolve(names[i])], LAMBDA s : s # NoScope)
        this == resolve(replace.this)
        topped == IF this = NoScope \/ ctx.scopes = <<>> THEN ctx
                  ELSE [ctx EXCEPT !.scopes[Len(ctx.scopes)] = this]
    IN [root |-> IF resolve(replace.root) = NoScope THEN ctx.root ELSE resolve(replace.root),
        from |-> IF known(replace.froms) = <<>> THEN ctx.from ELSE known(replace.froms),
        scopes |-> IF known(replace.prevs) = <<>> THEN topped.scopes
                   ELSE Append(known(replace.prevs), Current(topped))]

\* The stack is left at the scope that many levels below, never empty.
ApplyPrev(ctx, hops) ==
    LET left == IF Len(ctx.scopes) > hops THEN Len(ctx.scopes) - hops ELSE 1
    IN Stay([ctx EXCEPT !.scopes = SubSeq(@, 1, left)])
ApplyFrom(ctx, i) == NewScope(ctx, GetFrom(ctx, i))

Prevs == "prev" :> 1 @@ "prevprev" :> 2 @@ "prevprevprev" :> 3 @@ "prevprevprevprev" :> 4
         @@ "prev_prev" :> 2 @@ "prev_prev_prev" :> 3 @@ "prev_prev_prev_prev" :> 4
Froms == "from" :> 1 @@ "fromfrom" :> 2 @@ "fromfromfrom" :> 3 @@ "fromfromfromfrom" :> 4
RootFroms == "root_from" :> 1 @@ "root_fromfrom" :> 2 @@ "root_fromfromfrom" :> 3
             @@ "root_fromfromfromfrom" :> 4
Blocks == {"and", "or", "not", "nor", "nand", "if", "else", "else_if", "hidden_effect", "hidden_trigger", "limit",
           "trigger_if", "trigger_else", "trigger_else_if"}
MetaKeywords == {"this", "self", "root"} \cup DOMAIN Prevs \cup DOMAIN Froms \cup DOMAIN RootFroms \cup Blocks
ResolveMetaKeyword(ctx, word) ==
    CASE word \in {"this", "self"} -> NewScope(ctx, Current(ctx))
      [] word = "root" -> NewScope(ctx, ctx.root)
      [] word \in DOMAIN Prevs -> ApplyPrev(ctx, Prevs[word])
      [] word \in DOMAIN Froms -> ApplyFrom(ctx, Froms[word])
      [] word \in DOMAIN RootFroms -> ApplyFrom(PushScope(ctx, ctx.root), RootFroms[word])
      [] word \in Blocks -> Stay(ctx)

\* A link without a target is a value; one that does not start at the scope the
\* walk stands in is the wrong one.
ResolveLink(reg, ctx, link) ==
    LET valid == Current(ctx) = AnyScope \/ link.from = {}
                 \/ \E s \in link.from : IsSubscopeOrEq(reg, Current(ctx), s)
    IN CASE valid /\ link.to # NoScope -> NewScope(ctx, link.to)
         [] valid /\ link.to = NoScope -> Answered(<<"value">>, ctx)
         [] ~valid -> Answered(<<"wrong", Current(ctx), link.from>>, ctx)

\* A key has the segments between its dots, and a prefix before a colon or none.
Key(word) == IF word \in DOMAIN Parts THEN Parts[word] ELSE [segments |-> <<word>>, prefix |-> NoWord]
ResolveSingle(reg, ctx, word) ==
    CASE word \in Marked -> Answered(<<"variable">>, PushScope(ctx, AnyScope))
      [] word \notin Marked /\ Fold(word) \in MetaKeywords -> ResolveMetaKeyword(ctx, Fold(word))
      [] Fold(word) \notin Marked \cup MetaKeywords /\ Fold(word) \in DOMAIN reg.links ->
             ResolveLink(reg, ctx, reg.links[Fold(word)])
      [] OTHER -> NotFound(ctx)

\* Segment after segment.  The first that leads nowhere ends it, and the scopes
\* pushed on the way stay on the stack.
RECURSIVE ChangeScopeDotted(_, _, _)
ChangeScopeDotted(reg, ctx, segments) ==
    LET step == ResolveSingle(reg, ctx, Head(segments))
    IN IF Len(segments) > 1 /\ step.result[1] = "new"
       THEN ChangeScopeDotted(reg, step.ctx, Tail(segments)) ELSE step

RuntimePrefixes == {"event_target", "parameter", "scope"}
ChangeScope(reg, ctx, key) ==
    LET links == SelectSeq(reg.prefixes, LAMBDA p : key.prefix # NoWord /\ p[1] = Fold(key.prefix))
        anywhere == Answered(<<"any">>, PushScope(ctx, AnyScope))
        runtime == Fold(key.prefix) \in RuntimePrefixes \/ (key.prefix = NoWord /\ key.segments[1] \in Marked)
    IN CASE links # <<>> -> IF links[1][2].to = NoScope THEN anywhere ELSE NewScope(ctx, links[1][2].to)
         [] links = <<>> /\ runtime -> anywhere
         [] links = <<>> /\ ~runtime -> ChangeScopeDotted(reg, ctx, key.segments)

-----------------------------------------------------------------------------
\* A link the configuration does not have leads to a scope of the same name as
\* in the tables the program is built with, whatever numbers the scopes of the
\* configuration got (scope_registry.rs: backfill_hardcoded).
DefaultLinksLead(reg, hc, configured) ==
    \A n \in DOMAIN hc.links \ configured :
        LET to == ChangeScope(reg, FromRegistry(AnyScope), Key(n)).result
            names(r, id) == {Fold(w) : w \in ToSet(r.byId[id].names)}
        IN to[1] = "new" /\ to[2] \in DOMAIN reg.byId
           /\ names(reg, to[2]) \cap names(hc, hc.links[n].to) # {}
=============================================================================
