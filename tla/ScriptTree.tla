----------------------------- MODULE ScriptTree -----------------------------
(***************************************************************************)
(* The syntax tree every part of the program walks (crate parser, ast.rs). *)
(* A tree is a sequence of children: leaves `key = value`, bare values and *)
(* comments; a value is a word, a number or a clause with children of its  *)
(* own.  The arena with its indices is left out: a child is its content.   *)
(***************************************************************************)
EXTENDS Naturals, Sequences, FiniteSets, SequencesExt

CONSTANT Lower      \* word -> its lowercased form, for the words that change
Fold(w) == IF w \in DOMAIN Lower THEN Lower[w] ELSE w
SameWord(v, w) == Fold(v) = Fold(w)

NoWord == ""

\* Values.  `word` is the text a value is interned as; a clause has none.
Text(w) == [is |-> "string", word |-> w, children |-> <<>>]
Number(w) == [is |-> "number", word |-> w, children |-> <<>>]
Clause(children) == [is |-> "clause", word |-> NoWord, children |-> children]

Leaf(key, value) == [kind |-> "leaf", key |-> key, value |-> value]
LeafValue(value) == [kind |-> "value", key |-> NoWord, value |-> value]
Comment == [kind |-> "comment", key |-> NoWord, value |-> Text(NoWord)]

IsLeaf(child) == child.kind = "leaf"
IsString(value) == value.is = "string"
IsClause(child) == child.kind = "leaf" /\ child.value.is = "clause"

LeavesOf(children) == SelectSeq(children, IsLeaf)
ClausesOf(children) == SelectSeq(children, IsClause)

\* Every leaf and bare value of a tree in document order, children after parents.
RECURSIVE Nodes(_)
Nodes(children) ==
    FoldLeft(LAMBDA acc, c : acc \o <<c>> \o Nodes(c.value.children), <<>>, children)
=============================================================================
