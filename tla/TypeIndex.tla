----------------------------- MODULE TypeIndex -----------------------------
(***************************************************************************)
(* The cross-file index of type instances (crate index, type_index.rs):    *)
(* which instance names each type has, how often, and at which positions   *)
(* of a type's vector a file's own instances stand.  A file is removed by   *)
(* swap_remove, so a removal moves instances of other files and repairs    *)
(* their recorded positions.  Everything here is an operator on a value of *)
(* the index; InfoIndex holds the value and decides when each is called.   *)
(***************************************************************************)
EXTENDS Naturals, Sequences, FiniteSets, SequencesExt

CONSTANTS
    Files,      \* uris of source files, of the workspace and of the base game
    Types,      \* type keys, subtype-qualified ones ("type.subtype") included
    Subtypes,   \* the subtype-qualified keys
    Names,      \* spellings of instance names
    Lower       \* spelling -> its lowercased form, itself a spelling

ASSUME TypeIndexAssumption ==
    /\ IsFiniteSet(Files) /\ IsFiniteSet(Types) /\ IsFiniteSet(Names)
    /\ Subtypes \subseteq Types
    /\ Lower \in [Names -> Names] /\ \A n \in Names : Lower[Lower[n]] = Lower[n]

\* One entry of a type's vector: the file it comes from and its name.
Instances == [uri : Files, name : Names]

\* How many definitions carry a name, and how many of them are the workspace's.
NoRefs == [total |-> 0, workspace |-> 0]

EmptyIndex ==
    [map        |-> [t \in Types |-> <<>>],
     positions  |-> [u \in Files |-> [t \in Types |-> <<>>]],
     nameCounts |-> [n \in Names |-> 0],
     refs       |-> [t \in Types |-> [n \in Names |-> NoRefs]],
     baseUris   |-> {}]

\* A count never goes below zero; a count of zero is an absent key.
Dec(count) == IF count = 0 THEN 0 ELSE count - 1

AddRefs(refs, count, base) ==
    [total     |-> refs.total + count,
     workspace |-> refs.workspace + IF base THEN 0 ELSE count]

\* Dropping the last definition of a name drops its entry, both counts at once.
ReleaseName(refs, base) ==
    IF Dec(refs.total) = 0 THEN NoRefs
    ELSE [total     |-> Dec(refs.total),
          workspace |-> IF base THEN refs.workspace ELSE Dec(refs.workspace)]

\* How many entries of a sequence of names fold to n.
Spelled(names, n) == Cardinality({i \in DOMAIN names : Lower[names[i]] = n})

\* Adding `count` definitions of each name to the counters, per type.
\* Subtype keys stay out of the count over all types.
Counted(index, perType, base) ==
    [index EXCEPT
        !.nameCounts = [n \in Names |-> @[n] + Cardinality(
            UNION {{<<t, i>> : i \in {j \in DOMAIN perType[t] : Lower[perType[t][j]] = n}}
                   : t \in Types \ Subtypes})],
        !.refs = [t \in Types |-> [n \in Names |->
            AddRefs(@[t][n], Spelled(perType[t], n), base)]]]

\* The instances a file contributes go to the end of each type's vector.
MergeFrom(index, uri, perType, base) ==
    [Counted(index, perType, base) EXCEPT
        !.map = [t \in Types |-> @[t] \o
            [i \in DOMAIN perType[t] |-> [uri |-> uri, name |-> perType[t][i]]]],
        !.positions[uri] = [t \in Types |-> @[t] \o
            [i \in DOMAIN perType[t] |-> Len(index.map[t]) + i]],
        !.baseUris = IF base THEN @ \cup {uri} ELSE @]

Merge(index, uri, perType) == MergeFrom(index, uri, perType, FALSE)

\* A finite set of numbers as a sequence, smallest first, and the entries of a
\* sequence that stand at such places.
InOrder(S) == [k \in 1..Cardinality(S) |-> CHOOSE i \in S : Cardinality({j \in S : j <= i}) = k]
EntriesAt(s, S) == [k \in 1..Cardinality(S) |-> s[InOrder(S)[k]]]
PlacesOf(v, uris) == {i \in DOMAIN v : v[i].uri \in uris}

\* Base-game instances, each under the file it comes from.
MergeBaseGame(index, perType) ==
    LET namesOf(t) == [i \in DOMAIN perType[t] |-> perType[t][i].name]
        places(u, t) == InOrder(PlacesOf(perType[t], {u}))
        placed(u, t) == [k \in DOMAIN places(u, t) |-> Len(index.map[t]) + places(u, t)[k]]
    IN [Counted(index, [t \in Types |-> namesOf(t)], TRUE) EXCEPT
            !.map = [t \in Types |-> @[t] \o perType[t]],
            !.positions = [u \in Files |-> [t \in Types |-> @[u][t] \o placed(u, t)]],
            !.baseUris = @ \cup UNION {{e.uri : e \in ToSet(perType[t])} : t \in Types}]

\* Mutant of SwapRemove: the moved instance keeps the position recorded before.
SwapRemove_unrepaired(index, t, p) ==
    LET v == index.map[t]
    IN [index EXCEPT !.map[t] = Front([v EXCEPT ![p] = v[Len(v)]])]

\* Taking position p out of type t: the last instance moves into the hole, and
\* the position its own file recorded for it is repaired.
SwapRemove(index, t, p) ==
    LET v == index.map[t]
        last == Len(v)
        shrunk == [index EXCEPT !.map[t] = Front([v EXCEPT ![p] = v[last]])]
    IN IF p = last THEN shrunk
       ELSE [shrunk EXCEPT !.positions[v[last].uri][t] =
                    [@ EXCEPT ![SelectInSeq(@, LAMBDA q : q = last)] = p]]

\* Mutant of ReleaseAt: subtype entries decrement the count they never contributed to.
ReleaseAt_countsSubtypes(index, t, p, base) ==
    LET n == Lower[index.map[t][p].name]
    IN [index EXCEPT !.nameCounts[n] = Dec(@), !.refs[t][n] = ReleaseName(@, base)]

\* Forgetting the counts of the instance at position p of type t.
ReleaseAt(index, t, p, base) ==
    LET n == Lower[index.map[t][p].name]
    IN [index EXCEPT
            !.nameCounts[n] = IF t \in Subtypes THEN @ ELSE Dec(@),
            !.refs[t][n] = ReleaseName(@, base)]

\* Removing every instance of one file, type by type, the largest position
\* first.  A slot is a type and one of the positions the file recorded in it;
\* of some slots one with the smallest position of its type goes last.
Slots(own) == UNION {{t} \X DOMAIN own[t] : t \in Types}
GoesLast(own, slots) == CHOOSE s \in slots : \A r \in slots : r[1] = s[1] => own[s[1]][s[2]] <= own[s[1]][r[2]]
DropAt(index, t, p, base) == SwapRemove(ReleaseAt(index, t, p, base), t, p)

RemoveFile(index, uri) ==
    LET own == index.positions[uri]
        start == [index EXCEPT !.positions[uri] = [t \in Types |-> <<>>],
                               !.baseUris = @ \ {uri}]
        left == MapThenFoldSet(LAMBDA s, i : DropAt(i, s[1], own[s[1]][s[2]], uri \in index.baseUris), start,
                               LAMBDA s : s, LAMBDA slots : GoesLast(own, slots), Slots(own))
        emptied == {t \in Types : own[t] # <<>> /\ left.map[t] = <<>>}
    IN IF Slots(own) = {} THEN index
       ELSE [left EXCEPT !.refs = [t \in Types |-> IF t \in emptied THEN [n \in Names |-> NoRefs] ELSE @[t]]]

\* Removing many files in one pass: the vectors are filtered, and the
\* positions of every file that is left are recorded afresh.
RemoveFiles(index, uris) ==
    LET gone == UNION {{t} \X PlacesOf(index.map[t], uris) : t \in Types}
        released == MapThenFoldSet(LAMBDA s, i : ReleaseAt(i, s[1], s[2], index.map[s[1]][s[2]].uri \in index.baseUris),
                                   index, LAMBDA s : s, LAMBDA slots : CHOOSE s \in slots : TRUE, gone)
        kept == [t \in Types |-> EntriesAt(index.map[t], PlacesOf(index.map[t], Files \ uris))]
    IN IF uris = {} THEN index
       ELSE [released EXCEPT
                !.map = kept,
                !.positions = [u \in Files |-> [t \in Types |-> InOrder(PlacesOf(kept[t], {u}))]],
                !.baseUris = @ \ uris]

-----------------------------------------------------------------------------
(* The questions the validators and the editor ask. *)

HasInstance(index, t, name) == index.refs[t][Lower[name]].total > 0

WorkspaceDefinitionCount(index, t, name) == index.refs[t][Lower[name]].workspace

IsAnyInstance(index, name) == index.nameCounts[Lower[name]] > 0

\* What the outline of a file lists, with multiplicity: subtype keys would
\* list an instance again.
InstancesInFile(index, uri) ==
    [t \in Types \ Subtypes |->
        [i \in DOMAIN index.positions[uri][t] |->
            index.map[t][index.positions[uri][t][i]].name]]
=============================================================================
