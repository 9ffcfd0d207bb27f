------------------------------- MODULE Parser -------------------------------
(***************************************************************************)
(* The recursive-descent parser of script files (crate parser, parser.rs). *)
(* The input is a sequence of character classes; a keyword the parser      *)
(* looks for as a whole (yes/no, rgb/hsv, the opening of @\[...]) is one   *)
(* symbol.  A position is an index into the input.                         *)
(*                                                                         *)
(*   k letter  d digit  ; only in values  ~ in nothing   < in operators    *)
(*   Y yes/no  C rgb/hsv  M opens metaprogramming  q quote  \ backslash    *)
(***************************************************************************)
EXTENDS Naturals, Sequences, FiniteSets, FiniteSetsExt

CONSTANT MaxClauseDepth     \* nesting the parser descends into

White == {" ", "n"}
Alphanumeric == {"k", "d", "Y", "C"}
KeyChar == Alphanumeric \cup {"<", "q", "]"}
ValueChar == Alphanumeric \cup {";", "<", "]", "\\", "M"}

At(in, p) == IF p <= Len(in) THEN in[p] ELSE "end"
EndOf(in) == Len(in) + 1

\* The first position from p on whose symbol is not in the class; p stops at the end.
Past(in, p, class) == Min({q \in p..EndOf(in) : At(in, q) \notin class})
SkipWhite(in, p) == Past(in, p, White)
LineEnd(in, p) == Min({q \in p..EndOf(in) : At(in, q) \in {"n", "end"}})
SkipComment(in, p) == IF At(in, p) = "#" THEN LineEnd(in, p) ELSE p

\* White space and comments, as many as there are.
RECURSIVE SkipBlank(_, _)
SkipBlank(in, p) ==
    LET w == SkipWhite(in, p)
    IN IF At(in, w) = "#" THEN SkipBlank(in, LineEnd(in, w)) ELSE w

\* From inside a quoted string: it ends behind the first quote that no
\* backslash precedes, or before the end of its line.
RECURSIVE ScanQuoted(_, _)
ScanQuoted(in, p) ==
    CASE At(in, p) \in {"n", "end"} -> [p |-> p, closed |-> FALSE]
      [] At(in, p) = "q" -> [p |-> p + 1, closed |-> TRUE]
      [] At(in, p) = "\\" /\ At(in, p + 1) \in {"q", "\\"} -> ScanQuoted(in, p + 2)
      [] OTHER -> ScanQuoted(in, p + 1)

\* The position behind an operator, or 0.
Operator(in, p) ==
    CASE At(in, p) \in {"=", "<"} /\ At(in, p + 1) = "=" -> p + 2
      [] At(in, p) \in {"=", "<"} -> p + 1
      [] OTHER -> 0

\* A parsed piece: what was found, where the parser stands, and the errors.
Found(node, p, errors) == [ok |-> TRUE, node |-> node, p |-> p, errors |-> errors]
None(p, errors) == [ok |-> FALSE, node |-> "none", p |-> p, errors |-> errors]

Key(in, p) ==
    LET quoted == ScanQuoted(in, p + 1)
        stop == Past(in, p, KeyChar)
    IN CASE At(in, p) = "q" -> Found(SubSeq(in, p, quoted.p - 1), SkipWhite(in, quoted.p),
                                     IF quoted.closed THEN <<>> ELSE <<"unclosed string">>)
         [] stop = p -> None(p, <<>>)
         [] OTHER -> Found(SubSeq(in, p, stop - 1), SkipWhite(in, stop), <<>>)

\* Mutant of Lexeme: a brace inside a comment counts.
Lexeme_noComments(in, p) == IF At(in, p) = "q" THEN ScanQuoted(in, p + 1).p ELSE p + 1

\* What the skipping of a clause passes over at once: a comment, a string, one character.
Lexeme(in, p) ==
    CASE At(in, p) = "#" -> LineEnd(in, p)
      [] At(in, p) = "q" -> ScanQuoted(in, p + 1).p
      [] OTHER -> p + 1

\* A clause too deep to descend into is skipped by counting braces.
RECURSIVE SkipClause(_, _, _)
SkipClause(in, p, open) ==
    CASE open = 0 -> [p |-> p, closed |-> TRUE]
      [] open > 0 /\ At(in, p) = "end" -> [p |-> p, closed |-> FALSE]
      [] open > 0 /\ At(in, p) = "{" -> SkipClause(in, p + 1, open + 1)
      [] open > 0 /\ At(in, p) = "}" -> SkipClause(in, p + 1, open - 1)
      [] OTHER -> SkipClause(in, Lexeme(in, p), open)

Unclosed(closed) == IF closed THEN <<>> ELSE <<"unclosed clause">>

\* A number is a run of digits that ends a token; anything else made of value
\* characters is a word.
NumberOrWord(in, p) ==
    LET digits == Past(in, p, {"d"})
        stop == Past(in, p, ValueChar)
    IN CASE digits > p /\ digits = stop -> Found(<<"number">>, digits, <<>>)
         [] stop > p -> Found(<<"word", SubSeq(in, p, stop - 1)>>, stop, <<>>)
         [] OTHER -> None(p, <<>>)

Metaprogramming(in, p) ==
    LET close == {q \in p..Len(in) : in[q] = "]"}
    IN IF close = {} THEN None(EndOf(in), <<"unclosed metaprogramming">>)
       ELSE Found(<<"word", SubSeq(in, p, Min(close))>>, Min(close) + 1, <<>>)

RECURSIVE Block(_, _, _, _), Value(_, _, _, _, _), Statement(_, _, _, _), Statements(_, _, _, _, _)

\* parse_clause, at the opening brace.
Block(in, p, depth, keep) ==
    LET skipped == SkipClause(in, p + 1, 1)
        body == Statements(in, p + 1, depth + 1, keep, [nodes |-> <<>>, errors |-> <<>>])
    IN CASE At(in, p) # "{" -> None(p, <<>>)
         [] depth >= MaxClauseDepth ->
                Found(<<"clause", <<>>>>, skipped.p, <<"too deep">> \o Unclosed(skipped.closed))
         [] OTHER -> Found(<<"clause", body.node>>, body.p, body.errors)

\* The statements of a clause, up to its brace or the end of the file.
Statements(in, p, depth, keep, acc) ==
    LET q == SkipWhite(in, p)
        s == Statement(in, q, depth, keep)
    IN CASE At(in, q) = "}" -> Found(acc.nodes, q + 1, acc.errors)
         [] At(in, q) = "end" -> Found(acc.nodes, q, acc.errors \o Unclosed(FALSE))
         [] OTHER -> Statements(in, s.p, depth, keep,
                        [nodes |-> acc.nodes \o s.node, errors |-> acc.errors \o s.errors])

\* parse_value: blank, then a clause, a string, a colour, a keyword, a
\* metaprogramming bracket, a number or a word.  A bare value does not report
\* a string that is left open.
Value(in, start, bare, depth, keep) ==
    LET p == SkipBlank(in, start)
        quoted == ScanQuoted(in, p + 1)
        sign == SkipWhite(in, p + 1)
        colour == Block(in, IF At(in, sign) = "=" THEN SkipWhite(in, sign + 1) ELSE sign, depth, keep)
        done(r) == IF r.ok THEN [r EXCEPT !.p = SkipWhite(in, r.p)] ELSE r
    IN CASE At(in, p) = "{" -> done(Block(in, p, depth, keep))
         [] At(in, p) = "q" -> done(Found(<<"string", SubSeq(in, p, quoted.p - 1)>>, quoted.p,
                                     IF quoted.closed \/ bare THEN <<>> ELSE <<"unclosed string">>))
         [] At(in, p) = "C" /\ At(in, p + 1) \notin Alphanumeric /\ colour.ok -> done(colour)
         [] At(in, p) = "Y" /\ At(in, p + 1) \notin ValueChar -> done(Found(<<"bool">>, p + 1, <<>>))
         [] At(in, p) = "M" -> done(Metaprogramming(in, p))
         [] OTHER -> done(NumberOrWord(in, p))

\* parse_statement: a comment; a key with an operator and a value; a key with
\* a clause; a bare value; or one character nothing begins with.
Statement(in, start, depth, keep) ==
    LET p == SkipWhite(in, start)
        key == Key(in, p)
        op == Operator(in, key.p)
        value == Value(in, SkipWhite(in, op), FALSE, depth, keep)
        block == Block(in, key.p, depth, keep)
        bare == Value(in, p, TRUE, depth, keep)
    IN CASE At(in, p) = "#" ->
                Found(IF keep THEN <<<<"comment">>>> ELSE <<>>, SkipComment(in, p), <<>>)
         [] At(in, p) # "#" /\ key.ok /\ op # 0 ->
                IF value.ok
                THEN Found(<<<<"leaf", key.node, value.node>>>>, value.p, key.errors \o value.errors)
                ELSE Found(<<<<"leaf", key.node, <<"word", <<>>>>>>>>, value.p,
                           key.errors \o value.errors \o <<"no value">>)
         [] At(in, p) # "#" /\ key.ok /\ op = 0 /\ At(in, key.p) = "{" ->
                Found(<<<<"leaf", key.node, block.node>>>>, SkipWhite(in, block.p), key.errors \o block.errors)
         [] At(in, p) # "#" /\ ~(key.ok /\ (op # 0 \/ At(in, key.p) = "{")) ->
                IF bare.ok THEN Found(<<<<"value", bare.node>>>>, bare.p, key.errors \o bare.errors)
                ELSE Found(<<>>, bare.p + 1, key.errors \o bare.errors)

\* parse_string: statements to the end of the file; a stray brace is passed over.
RECURSIVE FileFrom(_, _, _, _)
FileFrom(in, p, keep, acc) ==
    LET s == Statement(in, p, 0, keep)
    IN IF p > Len(in) THEN acc
       ELSE FileFrom(in, s.p, keep,
                [nodes |-> acc.nodes \o s.node, errors |-> acc.errors \o s.errors])
ParseFile(in, keep) == FileFrom(in, SkipWhite(in, 1), keep, [nodes |-> <<>>, errors |-> <<>>])

ParseString(in) == ParseFile(in, TRUE)
ParseStringWithoutComments(in) == ParseFile(in, FALSE)
=============================================================================
