---------------------------- MODULE RuleConverter ----------------------------
(***************************************************************************)
(* From a parsed rule file to a ruleset (crate rules, rules_converter).    *)
(*                                                                         *)
(* A child of a rule file is a comment, a leaf or a bare value.  A key is  *)
(* <<form, name>>: <<"type", "ship">> for type[ship], <<"", "path">> for a *)
(* plain key.  A comment is <<form, name>> too: "##" is a directive with   *)
(* its right side, "###" documentation, "#" anything else.  A right side   *)
(* has a word, and the items of a braced list or the two ends of a range.  *)
(***************************************************************************)
EXTENDS ScriptTree, TLC

CONSTANT NumberOf      \* the words that are numbers, and their values
Parse(word, default) == IF word \in DOMAIN NumberOf THEN NumberOf[word] ELSE default
Infinity == 2147483647

Word(w) == [word |-> w, items |-> <<>>, braced |-> FALSE, op |-> "="]
Items(seq) == [Word("{}") EXCEPT !.items = seq, !.braced = TRUE]
RangeRhs(min, max, hint) == [Word("..") EXCEPT !.items = <<min, max, hint>>]
NoRhs == Word(NoWord)
Directive(key, rhs) == [kind |-> "comment", key |-> <<"##", key>>, rhs |-> rhs]
Doc(text) == [kind |-> "comment", key |-> <<"###", text>>, rhs |-> NoRhs]
Entry(form, name, value) == [kind |-> "leaf", key |-> <<form, name>>, value |-> value, op |-> "="]
Unequal(entry) == [entry EXCEPT !.op = "<>"]
Bare(value) == [kind |-> "value", key |-> <<"", NoWord>>, value |-> value, op |-> "="]

\* The comments above a child: those since the last child that is none.
PrecomputeComments(children, i) ==
    LET before == {j \in 1..(i - 1) : children[j].kind # "comment"}
        last == CHOOSE j \in before \cup {0} : \A k \in before : k <= j
    IN IF children[i].kind = "comment" THEN <<>> ELSE SubSeq(children, last + 1, i - 1)

-----------------------------------------------------------------------------
(* Directives.                                                             *)

Directives(comments) == SelectSeq(comments, LAMBDA c : c.key[1] = "##")
HasDirective(comments, key) == \E i \in DOMAIN comments : comments[i].key = <<"##", key>>

\* The newest directive of a key, or no right side at all.
FindDirective(comments, key) ==
    LET hits == SelectSeq(comments, LAMBDA c : c.key = <<"##", key>>)
    IN IF hits = <<>> THEN NoRhs ELSE hits[Len(hits)].rhs

\* All of them in one pass over the comments.
CollectDirectives(comments) ==
    FoldLeft(LAMBDA map, c : (c.key[2] :> c.rhs) @@ map, <<>>, Directives(comments))
Get(map, key) == IF key \in DOMAIN map THEN map[key] ELSE NoRhs

Description(comments) ==
    LET docs == SelectSeq(comments, LAMBDA c : c.key[1] = "###") IN [i \in DOMAIN docs |-> docs[i].key[2]]

\* A list in braces, or the one word, or nothing.
ListOf(rhs) == IF rhs.braced THEN rhs.items ELSE IF rhs.word = NoWord THEN <<>> ELSE <<rhs.word>>

\* min..max, with ~ before a minimum that is a hint; anything else is 1..1.
IsRange(rhs) == rhs.word = ".."
CardinalityOf(rhs) ==
    IF ~IsRange(rhs) THEN [min |-> 1, max |-> 1, strict |-> TRUE]
    ELSE [min |-> Parse(rhs.items[1], 1), strict |-> rhs.items[3] # "~",
          max |-> IF rhs.items[2] = "inf" THEN Infinity ELSE Parse(rhs.items[2], 1)]
CardinalityMalformed(rhs) ==
    IsRange(rhs) /\ (rhs.items[1] \notin DOMAIN NumberOf
                     \/ (rhs.items[2] # "inf" /\ rhs.items[2] \notin DOMAIN NumberOf))

Severities == [error |-> "error", warning |-> "warning", info |-> "info", information |-> "info",
               hint |-> "hint"]
Severity(rhs) == IF rhs.word \in DOMAIN Severities THEN Severities[rhs.word] ELSE "none"

\* from, fromfrom, ... and prev, prevprev, ... fill their level; levels below
\* that nobody names are empty.
SetLevel(levels, n, scope) ==
    [i \in 1..(IF n > Len(levels) THEN n ELSE Len(levels)) |->
        IF i = n THEN scope ELSE IF i <= Len(levels) THEN levels[i] ELSE NoWord]
ReplaceScopes(comments) ==
    LET long == FindDirective(comments, "replace_scopes")
        rhs == IF long # NoRhs THEN long ELSE FindDirective(comments, "replace_scope")
        set(acc, p) == CASE p[1] = "this" -> [acc EXCEPT !.this = p[3]]
                         [] p[1] = "root" -> [acc EXCEPT !.root = p[3]]
                         [] p[1] = "from" -> [acc EXCEPT !.froms = SetLevel(@, p[2], p[3])]
                         [] p[1] = "prev" -> [acc EXCEPT !.prevs = SetLevel(@, p[2], p[3])]
                         [] OTHER -> acc
    IN FoldLeft(set, [this |-> NoWord, root |-> NoWord, froms |-> <<>>, prevs |-> <<>>], rhs.items)

OptionsFromComments(comments, comparison) ==
    LET map == CollectDirectives(comments)
        outgoing == Get(map, "outgoingReferenceLabel").word
        incoming == Get(map, "incomingReferenceLabel").word
    IN [cardinality |-> CardinalityOf(Get(map, "cardinality")), description |-> Description(comments),
        pushScope |-> Get(map, "push_scope").word, replaceScopes |-> ReplaceScopes(comments),
        severity |-> Severity(Get(map, "severity")), comparison |-> comparison,
        requiredScopes |-> ListOf(FindDirective(comments, "scope")),
        reference |-> IF outgoing # NoWord THEN <<"outgoing", outgoing>> ELSE <<"incoming", incoming>>,
        errorIfOnlyMatch |-> Get(map, "error_if_only_match").word,
        defaultBool |-> CASE Get(map, "default_bool").word \in {"yes", "true"} -> "yes"
                          [] Get(map, "default_bool").word \in {"no", "false"} -> "no"
                          [] OTHER -> NoWord]

\* The malformed directives of a whole file, wherever they stand.
ValidateCommentDirectives(comments) ==
    SelectSeq(Directives(comments),
        LAMBDA c : \/ c.key[2] = "cardinality" /\ CardinalityMalformed(c.rhs)
                   \/ c.key[2] = "severity" /\ c.rhs.word \notin DOMAIN Severities)

-----------------------------------------------------------------------------
(* Walks over the children of a block.                                     *)

Indices(children, P(_)) ==
    SelectSeq([i \in DOMAIN children |-> i], LAMBDA i : children[i].kind = "leaf" /\ P(children[i]))
Named(children, form, name) == Indices(children, LAMBDA c : c.key = <<form, name>>)
ChildrenOf(child) == child.value.children
IsBlock(child) == child.kind = "leaf" /\ child.value.is = "clause"

\* The last leaf of a name decides, an earlier one is overwritten.
LastWord(children, name, default) ==
    LET hits == Named(children, "", name)
    IN IF hits = <<>> THEN default ELSE children[hits[Len(hits)]].value.word
FirstWord(children, name) ==
    LET hits == Indices(children, LAMBDA c : c.key = <<"", name>> /\ ~IsBlock(c))
    IN IF hits = <<>> THEN NoWord ELSE children[hits[1]].value.word
WordsOf(children, name) ==
    LET hits == Indices(children, LAMBDA c : c.key = <<"", name>> /\ ~IsBlock(c))
    IN [k \in DOMAIN hits |-> children[hits[k]].value.word]

\* Bare values and keys of a clause, the empty ones left out.
CollectLeafValues(children) ==
    LET words == [i \in DOMAIN children |->
                     CASE children[i].kind = "leaf" -> children[i].key[2]
                       [] children[i].kind = "value" -> children[i].value.word
                       [] OTHER -> NoWord]
    IN SelectSeq(words, LAMBDA w : w # NoWord)
ClauseValues(children, name) ==
    LET hits == Named(children, "", name)
    IN IF hits = <<>> THEN <<>> ELSE CollectLeafValues(ChildrenOf(children[hits[1]]))

-----------------------------------------------------------------------------
(* Types and their subtypes.                                               *)

\* Localisation or modifier entries of a block.  A value with a $ names a
\* prefix and a suffix; here only whether it has one counts.
BlockEntries(children) ==
    LET hits == Indices(children, LAMBDA c : c.key[1] # "subtype")
        above(k) == PrecomputeComments(children, hits[k])
    IN [k \in DOMAIN hits |->
           [name |-> children[hits[k]].key[2], value |-> children[hits[k]].value.word,
            required |-> HasDirective(above(k), "required"), optional |-> HasDirective(above(k), "optional"),
            primary |-> HasDirective(above(k), "primary"), explicit |-> HasDirective(above(k), "explicit"),
            replaceScopes |-> ReplaceScopes(above(k))]]

SubtypeBlocks(children) ==
    LET hits == Indices(children, LAMBDA c : c.key[1] = "subtype" /\ IsBlock(c))
    IN [k \in DOMAIN hits |-> [name |-> children[hits[k]].key[2],
                               entries |-> BlockEntries(ChildrenOf(children[hits[k]]))]]

TypeKeyFilter(comments) ==
    LET rhs == FindDirective(comments, "type_key_filter")
    IN [keys |-> ListOf(rhs), negate |-> rhs.op = "<>"]

BuildSubtype(name, children, comments) ==
    [name |-> name, pushScope |-> FindDirective(comments, "push_scope").word,
     startsWith |-> FindDirective(comments, "starts_with").word,
     onlyIfNot |-> ListOf(FindDirective(comments, "only_if_not")),
     filter |-> TypeKeyFilter(comments).keys, keyField |-> FirstWord(children, "type_key_field"),
     rules |-> SelectSeq(children, LAMBDA c : c.key # <<"", "type_key_field">>),
     localisation |-> <<>>, modifiers |-> <<>>]

\* skip_root_key, one leaf after the other: a word is one level to skip; a
\* second word folds all of them into one level of alternatives.
SkipRootKey(children) ==
    LET hits == Named(children, "", "skip_root_key")
        keysOf(s) == IF s.is = "any" THEN {} ELSE s.keys
        leaf(out, c) ==
            CASE c.value.word = "any" -> Append(out, [is |-> "any", keys |-> {}, equals |-> TRUE])
              [] c.value.word # "any" /\ out = <<>> ->
                    <<[is |-> "specific", keys |-> {c.value.word}, equals |-> TRUE]>>
              [] OTHER -> <<[is |-> "multiple",
                             keys |-> UNION {keysOf(out[i]) : i \in DOMAIN out} \cup {c.value.word},
                             equals |-> IF out[1].is = "multiple" THEN out[1].equals ELSE c.op = "="]>>
        block(out, c) ==
            FoldLeft(LAMBDA o, v : IF v.kind # "value" \/ v.value.word = NoWord THEN o
                         ELSE Append(o, [is |-> IF v.value.word = "any" THEN "any" ELSE "specific",
                                         keys |-> {v.value.word} \ {"any"}, equals |-> TRUE]),
                     out, ChildrenOf(c))
    IN FoldLeft(LAMBDA out, i : IF IsBlock(children[i]) THEN block(out, children[i]) ELSE leaf(out, children[i]),
                <<>>, hits)

\* What blocks say of a subtype is added to the first subtype of that name.
Extend(subtypes, blocks, field) ==
    FoldLeft(LAMBDA subs, b :
        LET hits == {i \in DOMAIN subs : subs[i].name = b.name}
            first == CHOOSE i \in hits : \A j \in hits : i <= j
        IN IF hits = {} THEN subs ELSE [subs EXCEPT ![first][field] = @ \o b.entries], subtypes, blocks)

LastBlock(children, name) ==
    LET hits == Indices(children, LAMBDA c : c.key = <<"", name>> /\ IsBlock(c))
    IN IF hits = <<>> THEN <<>> ELSE ChildrenOf(children[hits[Len(hits)]])

\* The localisation and modifiers blocks are read after everything else.
AttachBlocks(children, subtypes) ==
    Extend(Extend(subtypes, SubtypeBlocks(LastBlock(children, "localisation")), "localisation"),
           SubtypeBlocks(LastBlock(children, "modifiers")), "modifiers")

\* What the directives above a type say, each overridden by an entry inside.
ProcessTypeNode(name, children, comments) ==
    LET yes(key) == IF FindDirective(comments, key).word = "yes" THEN "yes" ELSE "no"
        flag(key) == LastWord(children, key, yes(key)) = "yes"
        subs == Indices(children, LAMBDA c : c.key[1] = "subtype")
        subtypes == [k \in DOMAIN subs |-> BuildSubtype(children[subs[k]].key[2], ChildrenOf(children[subs[k]]),
                                                       PrecomputeComments(children, subs[k]))]
        paths == Named(children, "", "path")
    IN [name |-> name, nameField |-> LastWord(children, "name_field", NoWord),
        path |-> [paths |-> [k \in DOMAIN paths |-> children[paths[k]].value.word], strict |-> flag("path_strict"),
                  file |-> LastWord(children, "path_file", NoWord),
                  extension |-> LastWord(children, "path_extension", NoWord)],
        filter |-> TypeKeyFilter(comments), graph |-> ListOf(FindDirective(comments, "graph_related_types")),
        startsWith |-> LastWord(children, "starts_with", FindDirective(comments, "starts_with").word),
        keyPrefix |-> LastWord(children, "type_key_prefix", NoWord),
        perFile |-> flag("type_per_file"), unique |-> flag("unique"), used |-> flag("should_be_used"),
        warningOnly |-> LastWord(children, "severity", FindDirective(comments, "severity").word) = "warning",
        skip |-> SkipRootKey(children), localisation |-> BlockEntries(LastBlock(children, "localisation")),
        modifiers |-> BlockEntries(LastBlock(children, "modifiers")),
        subtypes |-> AttachBlocks(children, subtypes)]

Extracted(children, form, Make(_, _, _)) ==
    LET hits == Indices(children, LAMBDA c : c.key[1] = form)
    IN [k \in DOMAIN hits |-> Make(children[hits[k]].key[2], children[hits[k]],
                                   PrecomputeComments(children, hits[k]))]
ExtractTypes(children) ==
    Extracted(children, "type", LAMBDA n, c, above : ProcessTypeNode(n, ChildrenOf(c), above))
=============================================================================
