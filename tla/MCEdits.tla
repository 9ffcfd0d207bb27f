------------------------------- MODULE MCEdits -------------------------------
(* Edits of short texts, and batches of keys of localisation to create.     *)
EXTENDS Naturals, Sequences, FiniteSets, SequencesExt, TLC

Same(word) == word
E == INSTANCE TextEdits WITH Wide <- {"w"}, MaxColumn <- 3, Lower <- Same

-----------------------------------------------------------------------------
\* Two edits of one text, of two diagnostics.
SampleTexts == {<<>>, <<"a", "n", "w", "a">>, <<"w", "a", "r", "n">>, <<"w", "w", "n", "n">>, <<"n", "a", "r", "n", "w">>}
Places == {[line |-> 1, col |-> c] : c \in 0..2} \cup {[line |-> 2, col |-> c] : c \in 0..2} \cup {[line |-> 4, col |-> 1]}
Before(p, q) == p.line < q.line \/ (p.line = q.line /\ p.col <= q.col)
Ranges == {r \in Places \X Places : Before(r[1], r[2])}
Fixes == {E!Replace(r[1], r[2], <<"b">>) : r \in Ranges} \cup {E!Delete(r[1], r[2]) : r \in Ranges}
EditProbes == {[text |-> t, fixes |-> <<f, g>>, encoding |-> e] :
                 t \in SampleTexts, f \in Fixes, g \in {x \in Fixes : x.edits[1].new = <<>>}, e \in {"utf16", "utf32"}}

Diagnostics(probe) == [i \in DOMAIN probe.fixes |-> [code |-> "c", file |-> "f", fix |-> probe.fixes[i]]]
Fixed(probe) ==
    LET action == E!FixAllAction(Diagnostics(probe), probe.text, probe.encoding)
        plan == E!PlanFileEdits(probe.text, [i \in DOMAIN probe.fixes |-> [tag |-> i, edit |-> probe.fixes[i].edits[1]]])
    IN [plan |-> plan, action |-> action,
        command |-> E!FixCommand(Diagnostics(probe), {"c"}, [f \in {"f"} |-> probe.text], {"f"}, TRUE).texts["f"]]

Starts(probe, plan) == [i \in DOMAIN plan.kept |-> E!PosToByte(probe.text, plan.kept[i].from)]
\* No place is between a carriage return and its line feed.
WholeEnds(probe, edit) == \A pos \in {edit.from, edit.to} : \A n \in {E!PosToByte(probe.text, pos)} : n > 0 => probe.text[n] # "r"
Agree(probe, fixed) ==
    IF fixed.action = <<>> THEN fixed.command = probe.text
    ELSE IsInjective(Starts(probe, fixed.plan)) /\ (\A edit \in ToSet(fixed.plan.kept) : WholeEnds(probe, edit))
           => fixed.command = E!ClientApplies(probe.text, fixed.action[1].edits, probe.encoding)

-----------------------------------------------------------------------------
\* Three keys and two languages; a sibling of a key may have a line in a file.
Langs == <<"l1", "l2">>
Of(lang, editable) == [lang |-> lang, editable |-> editable]
LocTexts == {<<"l1", "n">>, <<"l1", "n", "k">>, <<"l1", "r", "n", "k", "r", "n">>}
BatchProbes ==
    {[siblings |-> <<s1, s2, s3>>, discovered |-> d, editable |-> e, text |-> t, line |-> l] :
        s1 \in {<<>>, <<"k">>}, s2 \in {<<>>, <<"k">>}, s3 \in {<<>>, <<"k">>, <<"m", "k">>},
        d \in {<<>>, <<"f">>, <<"f", "g">>, <<"g">>}, e \in BOOLEAN, t \in LocTexts, l \in 0..1}
\* The line of the sibling is one of the file.
Current(probe) == probe.line < Len(E!Lines(probe.text))
BatchFiles(probe) ==
    "f" :> Of("l1", probe.editable) @@ "g" :> Of("l2", TRUE) @@ "n1" :> Of("l1", TRUE) @@ "n2" :> Of("l2", TRUE)
BatchTexts(probe) == "f" :> probe.text @@ "g" :> <<"l2", "n">>
Keys == <<"x", "y", "z">>
Instances(probe) == [i \in 1..3 |-> [line |-> i, required |-> probe.siblings[i] \o <<Keys[i]>>]]
Candidates(probe) ==
    E!Candidates([i \in 1..3 |-> [key |-> Keys[i], siblings |-> E!SiblingLocKeysForDiagnostic(Instances(probe), i, Keys[i])]],
                 ToSet(Langs),
                 "k" :> [file |-> "f", line |-> probe.line], BatchFiles(probe), probe.discovered,
                 "l1" :> "n1" @@ "l2" :> "n2")
Batch(probe) == E!BuildCreateLocKeyBatch(Candidates(probe), Langs, BatchTexts(probe), "utf16")

\* The lines of a text with the place of a stub in it.
HasLine(text, line) == line \in ToSet(E!Lines(text))
Serves(probe, action, key) ==
    LET after == E!Perform(BatchTexts(probe), action.operations, "utf16") IN
    /\ after # E!Failed
    /\ \A lang \in ToSet(Langs) : \E f \in DOMAIN after : BatchFiles(probe)[f].lang = lang /\ HasLine(after[f], E!StubLine(key))
    /\ \A f \in DOMAIN after :
          IF f \in DOMAIN BatchTexts(probe)
            THEN \A line \in ToSet(E!Lines(BatchTexts(probe)[f])) : HasLine(after[f], line)
          ELSE /\ E!Lines(after[f])[1] = <<BatchFiles(probe)[f].lang>>
               /\ Cardinality({i \in DOMAIN after[f] : after[f][i] = BatchFiles(probe)[f].lang}) = 1
Created(action) == {op.file : op \in {o \in ToSet(action.operations) : o.is = "create"}}
\* A language has a file for every key, or for none.
Uniform(probe) ==
    \A lang \in ToSet(Langs) : \A i, j \in DOMAIN Candidates(probe) :
        Candidates(probe)[i].targets[lang].is = "new" <=> Candidates(probe)[j].targets[lang].is = "new"
StandAlone(probe, actions) == Current(probe) =>
    /\ \A n \in DOMAIN actions : \A i \in actions[n].serves : Serves(probe, actions[n], Candidates(probe)[i].key)
    /\ \A n, k \in DOMAIN actions : n # k => Created(actions[n]) \cap Created(actions[k]) = {}
    /\ Uniform(probe) => UNION {actions[n].serves : n \in DOMAIN actions} = DOMAIN Candidates(probe)

-----------------------------------------------------------------------------
\* One sample of the rest.
Settings(items) == [is |-> "object", at |-> "cwtools" :> [is |-> "object", at |-> "errors" :> [is |-> "object",
                      at |-> "ignore" :> [is |-> "list", items |-> items]]]]
Sample ==
    LET probe == [text |-> <<"w", "a", "n", "a">>, encoding |-> "utf16",
                  fixes |-> <<E!Delete([line |-> 1, col |-> 1], [line |-> 2, col |-> 1]), E!CreateLocKey("x")>>]
        diagnostics == Diagnostics(probe)
    IN [actions |-> E!CodeActionsFromDiagnostics(diagnostics, probe.text, "utf16"),
        spans |-> {E!FixableSpanEdits(diagnostics[i]) : i \in DOMAIN diagnostics},
        shown |-> E!FixCommand(SubSeq(diagnostics, 1, 2), {"c"}, "f" :> probe.text @@ "g" :> E!Unreadable, {}, FALSE),
        failing |-> E!FixCommand(SubSeq(diagnostics, 1, 2), {"c"}, "f" :> probe.text @@ "g" :> E!Unreadable, {}, TRUE),
        back |-> {E!LspPosToSource(probe.text, [line |-> l, col |-> c], e) : l \in 0..2, c \in 0..3, e \in {"utf16", "utf32"}},
        token |-> {E!KeyTokenEnd([line |-> 1, col |-> 2], n) : n \in {1, 2, 5}},
        asked |-> {E!CodeActions(only, diagnostics, probe.text, "utf32", <<>>, <<>>) :
                     only \in {{<<>>}, {<<"source">>}, {<<"quickfix">>}}},
        wants |-> {E!Wants(only, <<"source", "fixAll">>) : only \in {{<<>>}, {<<"source">>}, {<<"quickfix">>}}},
        ignored |-> {E!IgnoreCodeActions(diagnostics, {}, "root", existing) :
                       existing \in {E!Blank, Settings(<<>>), Settings(<<"c">>), [is |-> "list", items |-> <<>>]}}]
=============================================================================
