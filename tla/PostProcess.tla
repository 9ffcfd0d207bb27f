----------------------------- MODULE PostProcess -----------------------------
(***************************************************************************)
(* What happens to a ruleset once it is read (crate rules,                 *)
(* post_process.rs): references to single aliases are replaced by the      *)
(* bodies they name, and marker fields by the rules they stand for.        *)
(*                                                                         *)
(* A rule is a record.  A field is a tuple <<kind, name>>; the marker      *)
(* kinds are "value marker", "colour", "country tag" and "ignore marker".  *)
(* Sharing of bodies and the cache of bodies known to be clean are left    *)
(* out: they change the cost of the walks and not what they return.        *)
(***************************************************************************)
EXTENDS Naturals, Sequences, FiniteSets, SequencesExt

CONSTANTS MaxAliasDepth,      \* nesting of aliases that is resolved
          MaxExpandedNodes    \* rules the replacements may add

Field(kind, name) == <<kind, name>>
Scalar == Field("scalar", "")
LeafRule(left, right, opts) == [kind |-> "leaf", left |-> left, right |-> right, body |-> <<>>, opts |-> opts]
LeafValueRule(right, opts) == [LeafRule(Scalar, right, opts) EXCEPT !.kind = "value"]
NodeRule(left, body, opts) == [kind |-> "node", left |-> left, right |-> Scalar, body |-> body, opts |-> opts]
ValueClauseRule(body, opts) == [NodeRule(Scalar, body, opts) EXCEPT !.kind = "clause"]
SubtypeRule(body, opts) == [NodeRule(Scalar, body, opts) EXCEPT !.kind = "subtype"]

HasBody(rule) == rule.kind \in {"node", "clause", "subtype"}
IsSingleAliasRef(rule) == rule.kind = "leaf" /\ rule.right[1] = "single alias"

RECURSIVE CollectRefs(_), LogicalSize(_)
CollectRefs(rule) ==
    IF IsSingleAliasRef(rule) THEN <<rule.right[2]>>
    ELSE FoldLeft(LAMBDA acc, r : acc \o CollectRefs(r), <<>>, rule.body)
LogicalSize(rule) == FoldLeft(LAMBDA n, r : n + LogicalSize(r), 1, rule.body)

-----------------------------------------------------------------------------
(* The expander: defs is the sequence of [name, rule] as the files gave    *)
(* them, the first definition of a name counts.                            *)

ByName(defs, name) ==
    LET hits == SelectInSeq(defs, LAMBDA d : d.name = name) IN hits

NewExpander(defs) ==
    [names |-> defs, bodies |-> [i \in DOMAIN defs |-> defs[i].rule],
     state |-> [i \in DOMAIN defs |-> "pending"], size |-> [i \in DOMAIN defs |-> 0],
     remaining |-> MaxExpandedNodes, refused |-> {}]

Refuse(ex, name, reason) == [ex EXCEPT !.refused = @ \cup {<<name, reason>>}]

\* Mutant of Refusal: an alias that was too deep to resolve is taken as it is.
Refusal_notDepth(ex, idx) ==
    CASE ex.state[idx] = "in progress" -> "cycle"
      [] ex.state[idx] # "in progress" /\ ex.size[idx] > ex.remaining -> "budget"
      [] OTHER -> "none"

\* Why a reference to an alias stays a reference.
Refusal(ex, idx) ==
    CASE ex.state[idx] = "in progress" -> "cycle"
      [] ex.state[idx] = "pending" -> "depth"
      [] ex.state[idx] = "done" /\ ex.size[idx] > ex.remaining -> "budget"
      [] OTHER -> "none"

\* The expander after the question, and the body or nothing: a name without
\* a definition is no refusal.
TakeAlias(ex, name) ==
    LET idx == ByName(ex.names, name)
    IN CASE idx = 0 -> [ex |-> ex, taken |-> FALSE]
         [] idx # 0 /\ Refusal(ex, idx) # "none" ->
                [ex |-> Refuse(ex, name, Refusal(ex, idx)), taken |-> FALSE]
         [] OTHER -> [ex |-> [ex EXCEPT !.remaining = @ - ex.size[idx]], taken |-> TRUE,
                      rule |-> ex.bodies[idx]]

\* A reference takes over the value or the body of what it names and keeps its
\* own key and options.  Below a clause, an alias of another shape replaces the
\* whole rule; at the root it replaces nothing.
Reshape(ref, alias, nested) ==
    CASE alias.kind = "leaf" -> LeafRule(ref.left, alias.right, ref.opts)
      [] alias.kind = "node" -> NodeRule(ref.left, alias.body, ref.opts)
      [] OTHER -> IF nested THEN [alias EXCEPT !.opts = ref.opts] ELSE ref

RECURSIVE InlineRule(_, _, _)
InlineRule(ex, rule, nested) ==
    LET took == TakeAlias(ex, rule.right[2])
        inside == FoldLeft(LAMBDA acc, r :
                               LET one == InlineRule(acc.ex, r, TRUE)
                               IN [ex |-> one.ex, body |-> Append(acc.body, one.rule)],
                           [ex |-> ex, body |-> <<>>], rule.body)
    IN CASE IsSingleAliasRef(rule) ->
              [ex |-> took.ex, rule |-> IF took.taken THEN Reshape(rule, took.rule, nested) ELSE rule]
         [] HasBody(rule) -> [ex |-> inside.ex, rule |-> [rule EXCEPT !.body = inside.body]]
         [] OTHER -> [ex |-> ex, rule |-> rule]

\* An alias is resolved after the aliases it refers to.
RECURSIVE Resolve(_, _, _)
Resolve(ex, idx, depth) ==
    LET started == [ex EXCEPT !.state[idx] = "in progress"]
        deps == FoldLeft(LAMBDA e, name : IF ByName(e.names, name) = 0 THEN e
                                          ELSE Resolve(e, ByName(e.names, name), depth + 1),
                         started, CollectRefs(ex.bodies[idx]))
        inlined == InlineRule(deps, deps.bodies[idx], FALSE)
    IN IF ex.state[idx] # "pending" \/ depth >= MaxAliasDepth THEN ex
       ELSE [inlined.ex EXCEPT !.size[idx] = LogicalSize(inlined.rule),
                               !.bodies[idx] = inlined.rule, !.state[idx] = "done"]

\* The ruleset's rules in the order they are visited: root rules, aliases, and
\* the resolved single aliases themselves.
InlineAll(ex, rules) ==
    FoldLeft(LAMBDA acc, r : LET one == InlineRule(acc.ex, r, FALSE)
                             IN [ex |-> one.ex, rules |-> Append(acc.rules, one.rule)],
             [ex |-> ex, rules |-> <<>>], rules)

Resolved(defs) == FoldLeft(LAMBDA e, i : Resolve(e, i, 0), NewExpander(defs), [i \in DOMAIN defs |-> i])
InlineSingles(roots) ==
    LET again == InlineAll(roots.ex, roots.ex.bodies)
    IN [rules |-> roots.rules, singles |-> again.rules, refused |-> again.ex.refused]
ReplaceSingleAliases(rs) == InlineSingles(InlineAll(Resolved(rs.singleAliases), rs.rules))

-----------------------------------------------------------------------------
(* Markers.                                                                *)

RewriteVsmField(f) == IF f[1] = "value marker" THEN Field("value scope", f[2]) ELSE f
RECURSIVE RewriteVsm(_)
RewriteVsm(rule) ==
    [rule EXCEPT !.left = RewriteVsmField(@), !.right = RewriteVsmField(@),
                 !.body = [i \in DOMAIN @ |-> RewriteVsm(@[i])]]

Tag == Field("country tag", "")
Tags == <<Field("value", "country_tags"), Field("variable get", "dynamic_country_tag")>>
ThreeFloats == <<LeafValueRule(Field("value", "float"), "3..3")>>

\* A colour is a clause of three numbers; a country tag is either a member of
\* the enumeration or a dynamic tag, each a rule of its own.  The right side of
\* a leaf is looked at before its left side.
RECURSIVE ExpandColours(_)
ExpandColourRule(rule) ==
    CASE rule.kind = "leaf" /\ rule.right[1] = "colour" -> <<NodeRule(rule.left, ThreeFloats, rule.opts)>>
      [] rule.kind = "leaf" /\ rule.right = Tag -> [i \in {1, 2} |-> [rule EXCEPT !.right = Tags[i]]]
      [] rule.kind = "leaf" /\ rule.right # Tag /\ rule.left = Tag ->
            [i \in {1, 2} |-> [rule EXCEPT !.left = Tags[i]]]
      [] rule.kind = "node" /\ rule.left = Tag ->
            [i \in {1, 2} |-> [rule EXCEPT !.left = Tags[i], !.body = ExpandColours(@)]]
      [] OTHER -> <<[rule EXCEPT !.body = ExpandColours(@)]>>
ExpandColours(body) == FoldLeft(LAMBDA acc, r : acc \o ExpandColourRule(r), <<>>, body)

RECURSIVE ExpandIgnore(_)
ExpandIgnore(rule) ==
    IF rule.kind = "leaf" /\ rule.right[1] = "ignore marker"
    THEN NodeRule(Field("ignore", rule.left), <<>>, rule.opts)
    ELSE [rule EXCEPT !.body = [i \in DOMAIN @ |-> ExpandIgnore(@[i])]]

\* Only what stands in a body is expanded: a root rule keeps its own marker.
InBody(rule, F(_)) == [rule EXCEPT !.body = F(@)]
Finish(rule) ==
    InBody(InBody(rule, ExpandColours), LAMBDA b : [i \in DOMAIN b |-> ExpandIgnore(b[i])])

Finished(expanded) ==
    [rules |-> [i \in DOMAIN expanded.rules |-> Finish(expanded.rules[i])],
     singles |-> [i \in DOMAIN expanded.singles |-> Finish(expanded.singles[i])],
     errors |-> expanded.refused]
PostProcessed(rs) ==
    Finished(ReplaceSingleAliases(
        [rules |-> [i \in DOMAIN rs.rules |-> RewriteVsm(rs.rules[i])],
         singleAliases |-> [i \in DOMAIN rs.singleAliases |-> [rs.singleAliases[i] EXCEPT !.rule = RewriteVsm(@)]]]))
=============================================================================
