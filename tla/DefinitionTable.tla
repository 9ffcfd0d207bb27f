--------------------------- MODULE DefinitionTable ---------------------------
(***************************************************************************)
(* What the incremental index promises, with no counter and no position in *)
(* it: a table of what each workspace file contributes now and what the    *)
(* base game contributed last, and the answers that follow from the table. *)
(* InfoIndex maintains the answers by reference counts and reverse maps.   *)
(***************************************************************************)
EXTENDS Naturals, FiniteSets

CONSTANTS Files, Types, Subtypes, Names, Lower, Normal, NoName

VARIABLES
    mods,       \* workspace file -> its present contribution
    base,       \* type -> the instances the base game contributed last
    baseNames,  \* the variables of the base game
    answers     \* what every question is answered

vars == <<mods, base, baseNames, answers>>

Fold(name) == Lower[name]

\* How many entries of a sequence satisfy a test on the entry.
Count(s, Test(_)) == Cardinality({i \in DOMAIN s : Test(s[i])})

DefinedBy(m, t, n) ==
    UNION {{u} \X {i \in DOMAIN m[u].instances[t] : Fold(m[u].instances[t][i]) = n} : u \in Files}
InBase(b, t, n) == \E i \in DOMAIN b[t] : Fold(b[t][i].name) = n

\* The answers a table gives: a name is known while anything defines it,
\* duplicated when the workspace alone defines it twice.
Answers(m, b, names) ==
    [known      |-> [t \in Types |-> {n \in Names : DefinedBy(m, t, n) # {} \/ InBase(b, t, n)}],
     duplicated |-> [t \in Types |-> {n \in Names : Cardinality(DefinedBy(m, t, n)) > 1}],
     anyType    |-> {n \in Names : \E t \in Types \ Subtypes :
                        DefinedBy(m, t, n) # {} \/ InBase(b, t, n)},
     variables  |-> (names \cup UNION {{Normal[m[u].variables[i].name] :
                        i \in {j \in DOMAIN m[u].variables : m[u].variables[j].ns # "@"}} : u \in Files})
                    \ {NoName},
     offered    |-> UNION {{m[u].variables[i].name : i \in DOMAIN m[u].variables} : u \in Files},
     targets    |-> UNION {m[u].targets : u \in Files},
     values     |-> UNION {{m[u].values[i] : i \in DOMAIN m[u].values} : u \in Files},
     uses       |-> [u \in Files |-> {<<m[u].uses[i].type, m[u].uses[i].name>> : i \in DOMAIN m[u].uses}],
     outline    |-> [u \in Files |-> [t \in Types \ Subtypes |-> [n \in Names |->
                        Count(m[u].instances[t], LAMBDA x : x = n)
                          + Count(b[t], LAMBDA e : e.uri = u /\ e.name = n)]]]]

\* The answers always are those of the table as it stands.
Answered == answers' = Answers(mods', base', baseNames')

\* One file is indexed, indexed again, or forgotten: nothing else moves.
Replace ==
    /\ \E u \in Files : \A v \in Files \ {u} : mods'[v] = mods[v]
    /\ UNCHANGED <<base, baseNames>>

\* The base game is indexed, or indexed again: its previous share goes at once.
Rebase == UNCHANGED <<mods, baseNames>>

\* The variables of the base game are installed or dropped.
Rename == UNCHANGED <<mods, base>>

Init == answers = Answers(mods, base, baseNames)
Next == Answered /\ (Replace \/ Rebase \/ Rename)
Spec == Init /\ [][Next]_vars
=============================================================================
