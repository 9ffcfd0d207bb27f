----------------------------- MODULE MCInfoIndex -----------------------------
(* A finite instance of InfoIndex: two workspace files and two of the base *)
(* game; one type with two spellings of one name, its subtype, and texts   *)
(* that share names, define one twice, or differ only inside a body.       *)
EXTENDS InfoIndex

CONSTANTS f1, f2, v1, v2

MCFiles == {f1, f2, v1, v2}
MCBaseFiles == {v1, v2}
MCTypes == {"event", "event.hidden"}
MCSubtypes == {"event.hidden"}
MCNames == {"a", "A", "b"}
MCLower == [n \in MCNames |-> IF n = "A" THEN "a" ELSE n]
MCSymbols == {"x", "root.x", "@x"}
MCNormal == [s \in MCSymbols |-> IF s = "@x" THEN NoName ELSE "x"]

\* Under the second ruleset, hidden events are told apart and set variables
\* and references to events are recognised.
Var(ns, name) == [ns |-> ns, name |-> name]
Found(events, hidden, variables, symbols, values) ==
    [instances |-> [t \in MCTypes |-> IF t = "event" THEN events ELSE hidden],
     variables |-> variables, targets |-> symbols, scripts |-> symbols, values |-> values]
MCTexts == {"twice", "body", "shared"}
MCRulesets == {1, 2}
MCContent == [text \in MCTexts |-> [r \in MCRulesets |->
    CASE text = "twice" -> Found(<<"a", "A">>, <<>>, <<Var("variable", "x"), Var("variable", "x")>>, {}, <<"x", "x">>)
      [] text = "body" -> Found(<<"a", "A">>, IF r = 2 THEN <<"A">> ELSE <<>>,
                                 <<Var("variable", "x"), Var("variable", "x")>>, {}, <<>>)
      [] text = "shared" -> Found(<<"b", "a">>, <<>>, <<Var("@", "@x"), Var("variable", "root.x")>>, {"x"}, <<"x">>)]]
MCEffectVars == [text \in MCTexts |-> [r \in MCRulesets |->
    IF r = 2 /\ text # "body" THEN <<Var("variable", "x")>> ELSE <<>>]]
MCUses == [text \in MCTexts |-> [r \in MCRulesets |->
    IF text = "shared" /\ r = 2 THEN <<[type |-> "event", name |-> "a"], [type |-> "event", name |-> "b"]>>
    ELSE <<>>]]
MCBaseGame ==
    {[instances |-> [t \in MCTypes |-> IF t = "event" THEN events ELSE <<>>], variables |-> names] :
        <<events, names>> \in
            {<<<<[uri |-> v1, name |-> "b"], [uri |-> v2, name |-> "A"], [uri |-> v1, name |-> "a"]>>, {"x"}>>,
             <<<<[uri |-> v2, name |-> "b"]>>, {}>>}}

\* The first ruleset is in force at the start.
MCInit == Init /\ rules = 1
MCSpec == MCInit /\ [][Next]_vars

\* Workspace files are interchangeable.
MCSymmetry == Permutations({f1, f2})
=============================================================================
