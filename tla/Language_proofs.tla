---------------------------- MODULE Language_proofs ----------------------------
(***************************************************************************)
(* The loader of rule files keeps its budget and its order whatever files  *)
(* there are and however its workers interleave; and a run of the command  *)
(* line and the editor know the base game, whatever versions, rules, paths *)
(* and command lines there are and in whatever order they follow.          *)
(***************************************************************************)
EXTENDS BaseGame, RuleLoader, FiniteSetTheorems, TLAPS

-----------------------------------------------------------------------------
(* The loader: the bytes of some of the files                              *)

\* What the loader found has sizes, and what is read of it is accepted.
FoundFit ==
    /\ \E n \in Nat : DOMAIN found = 1..n
    /\ \A f \in DOMAIN found : /\ found[f].size \in Nat /\ found[f].readable \in BOOLEAN
                               /\ ReadOf(found[f]).done /\ ReadOf(found[f]).accepted

LEMMA LoadFinds ==
    ASSUME LoadInit
    PROVE  FoundFit
<1> DEFINE files == RuleFilesIn(directory)
           limit == IF Len(files) < MaxFiles THEN Len(files) ELSE MaxFiles
<1>1. directory \in Directories /\ found = SubSeq(files, 1, limit)
  BY DEF LoadInit, WithinFileBudget
<1>2. files \in Seq({files[f] : f \in DOMAIN files})
  BY <1>1, LoaderAssumption
<1>3. /\ MaxFiles \in Nat
      /\ \A f \in DOMAIN files : /\ files[f].size \in Nat /\ files[f].readable \in BOOLEAN
                                 /\ ReadOf(files[f]).done /\ ReadOf(files[f]).accepted
  BY <1>1, LoaderAssumption
<1> HIDE DEF files
<1>4. Len(files) \in Nat /\ DOMAIN files = 1..Len(files)
  BY <1>2
<1>5. limit \in 0..Len(files)
  BY <1>3, <1>4
<1> HIDE DEF limit
<1>6. DOMAIN found = 1..limit /\ \A f \in 1..limit : found[f] = files[f]
  BY <1>1, <1>2, <1>4, <1>5
<1>7. limit \in Nat /\ \A f \in 1..limit : f \in DOMAIN files
  BY <1>4, <1>5
<1> QED
  BY <1>3, <1>6, <1>7 DEF FoundFit

\* The bytes of one file.
Bytes(f) == {f} \X (1..found[f].size)

LEMMA BytesCount ==
    ASSUME FoundFit, NEW f \in DOMAIN found
    PROVE  IsFiniteSet(Bytes(f)) /\ Cardinality(Bytes(f)) = found[f].size
<1>1. found[f].size \in Nat
  BY DEF FoundFit
<1>2. IsFiniteSet(1..found[f].size) /\ Cardinality(1..found[f].size) = found[f].size
  BY <1>1, FS_Interval
<1>3. IsFiniteSet({f}) /\ Cardinality({f}) = 1
  BY FS_Singleton
<1>4. IsFiniteSet({f} \X (1..found[f].size)) /\ Cardinality({f} \X (1..found[f].size)) = 1 * found[f].size
  BY <1>2, <1>3, FS_Product
<1> QED
  BY <1>1, <1>4 DEF Bytes

LEMMA SizeOf == \A S : Size(S) = Cardinality(UNION {Bytes(f) : f \in S})
  BY DEF Size, Bytes

\* Some files have finitely many bytes, and one file more has its own besides.
LEMMA SizeFinite ==
    ASSUME FoundFit, NEW S \in SUBSET DOMAIN found
    PROVE  IsFiniteSet(UNION {Bytes(f) : f \in S}) /\ Size(S) \in Nat
<1>1. IsFiniteSet(DOMAIN found)
  BY FS_Interval DEF FoundFit
<1>2. IsFiniteSet(S)
  BY <1>1, FS_Subset
<1>3. IsFiniteSet({Bytes(f) : f \in S})
  <2> DEFINE bytes == [f \in S |-> Bytes(f)]
             all == {Bytes(f) : f \in S}
  <2>1. bytes \in Surjection(S, all)
    BY DEF Surjection
  <2> HIDE DEF bytes, all
  <2>2. IsFiniteSet(all)
    BY <1>2, <2>1, FS_Surjection
  <2> QED
    BY <2>2 DEF all
<1>4. \A b \in {Bytes(f) : f \in S} : IsFiniteSet(b)
  BY BytesCount
<1>5. IsFiniteSet(UNION {Bytes(f) : f \in S})
  BY <1>3, <1>4, FS_UNION
<1> QED
  BY <1>5, SizeOf, FS_CardinalityType

LEMMA SizeGrows ==
    ASSUME FoundFit, NEW S \in SUBSET DOMAIN found, NEW f \in DOMAIN found, f \notin S
    PROVE  Size(S \cup {f}) = Size(S) + found[f].size
<1> DEFINE before == UNION {Bytes(g) : g \in S}
           after == UNION {Bytes(g) : g \in S \cup {f}}
<1>1. after = before \cup Bytes(f)
  OBVIOUS
<1>2. before \cap Bytes(f) = {}
  BY DEF Bytes
<1>3. IsFiniteSet(before) /\ Size(S) = Cardinality(before) /\ Size(S \cup {f}) = Cardinality(after)
  BY SizeFinite, SizeOf
<1>4. IsFiniteSet(Bytes(f)) /\ Cardinality(Bytes(f)) = found[f].size
  BY BytesCount
<1> HIDE DEF before, after
<1>5. Cardinality(before \cup Bytes(f)) = Cardinality(before) + Cardinality(Bytes(f)) - Cardinality(before \cap Bytes(f))
  BY <1>3, <1>4, FS_Union
<1>6. Cardinality(before \cap Bytes(f)) = 0
  BY <1>2, FS_EmptySet
<1>7. Cardinality(before) \in Nat /\ Cardinality(Bytes(f)) \in Nat
  BY <1>3, <1>4, FS_CardinalityType
<1> QED
  BY <1>1, <1>3, <1>4, <1>5, <1>6, <1>7

LEMMA SizeMonotone ==
    ASSUME FoundFit, NEW T \in SUBSET DOMAIN found, NEW S \in SUBSET T
    PROVE  Size(S) <= Size(T)
<1>1. IsFiniteSet(UNION {Bytes(f) : f \in T})
  BY SizeFinite
<1>2. UNION {Bytes(f) : f \in S} \subseteq UNION {Bytes(f) : f \in T}
  OBVIOUS
<1>3. Cardinality(UNION {Bytes(f) : f \in S}) <= Cardinality(UNION {Bytes(f) : f \in T})
  BY <1>1, <1>2, FS_Subset
<1> QED
  BY <1>3, SizeOf

-----------------------------------------------------------------------------
(* The loader: what the workers have reserved                              *)

Readable == {f \in DOMAIN found : found[f].readable}

\* A file is pending, or read, or refused: one that can be read only when all
\* that can be read are too many.
Results ==
    /\ results = [f \in DOMAIN found |-> results[f]]
    /\ \A f \in DOMAIN found :
          \/ results[f] = Pending
          \/ results[f] = OneByOne[f]
          \/ results[f] = RefusedFor("budget") /\ Size(Readable) > MaxBytes

\* The counter is what the accepted files have, and what was read of it before
\* was no more.
Counted ==
    /\ reserved = Size(Accepted) /\ reserved <= MaxBytes
    /\ seen = [f \in DOMAIN found |-> seen[f]]
    /\ \A f \in DOMAIN found : seen[f] = Unread \/ (seen[f] \in Nat /\ seen[f] <= reserved)

Merged == \/ combined = NotMerged
          \/ combined = MergeResults(results) /\ \A f \in DOMAIN found : results[f].done

LoadInv == FoundFit /\ Results /\ Counted /\ Merged

\* Which files are accepted: those that can be read and are.
LEMMA Outcomes ==
    ASSUME FoundFit, NEW f \in DOMAIN found
    PROVE  /\ ~Pending.done
           /\ RefusedFor("budget").done /\ ~RefusedFor("budget").accepted
           /\ OneByOne[f].done /\ (OneByOne[f].accepted <=> found[f].readable)
           /\ found[f].readable => OneByOne[f] = ReadOf(found[f])
           /\ ~found[f].readable => OneByOne[f] = RefusedFor("read error")
  BY LoaderAssumption DEF FoundFit, Pending, OneByOne

LEMMA LoadStarts == LoadInit => LoadInv
<1> SUFFICES ASSUME LoadInit PROVE LoadInv
  OBVIOUS
<1>1. FoundFit
  BY LoadFinds
<1>2. results = [f \in DOMAIN found |-> Pending] /\ seen = [f \in DOMAIN found |-> Unread]
      /\ reserved = 0 /\ combined = NotMerged
  BY DEF LoadInit
<1>3. Accepted = {}
  BY <1>2 DEF Accepted, Pending
<1>4. Size({}) = 0
  <2>1. UNION {Bytes(f) : f \in {}} = {}
    OBVIOUS
  <2> QED
    BY <2>1, SizeOf, FS_EmptySet
<1>5. Results
  BY <1>2 DEF Results
<1>6. Counted
  <2>1. MaxBytes \in Nat
    BY LoaderAssumption
  <2>2. \A f \in DOMAIN found : seen[f] = Unread
    BY <1>2
  <2>3. seen = [f \in DOMAIN found |-> seen[f]]
    BY <1>2
  <2> QED
    BY <1>2, <1>3, <1>4, <2>1, <2>2, <2>3 DEF Counted
<1> QED
  BY <1>1, <1>2, <1>5, <1>6 DEF LoadInv, Merged

\* What a step leaves that records no result.
LEMMA NoResult ==
    ASSUME FoundFit, Results, UNCHANGED <<found, results>>
    PROVE  FoundFit' /\ Results' /\ Accepted' = Accepted /\ Size(Accepted)' = Size(Accepted)
<1>1. FoundFit' /\ Readable' = Readable /\ Size(Readable)' = Size(Readable) /\ OneByOne' = OneByOne
  BY DEF FoundFit, Readable, Size, OneByOne
<1>2. Accepted' = Accepted /\ Size(Accepted)' = Size(Accepted)
  BY DEF Accepted, Size
<1>3. Results'
  BY <1>1 DEF Results
<1> QED
  BY <1>1, <1>2, <1>3

\* A worker that records the result of its file.
LEMMA ResultKeeps ==
    ASSUME LoadInv, NEW f \in DOMAIN found, ~results[f].done, UNCHANGED <<directory, found, combined>>,
           NEW result, results' = [results EXCEPT ![f] = result],
           \/ result = OneByOne[f]
           \/ result = RefusedFor("budget") /\ Size(Readable) > MaxBytes
    PROVE  /\ FoundFit' /\ Results' /\ Merged'
           /\ Accepted' = IF result = OneByOne[f] /\ found[f].readable THEN Accepted \cup {f} ELSE Accepted
           /\ f \notin Accepted /\ Accepted \subseteq Readable
<1>1. FoundFit /\ Results /\ Merged
  BY DEF LoadInv
<1>2. FoundFit' /\ Readable' = Readable /\ Size(Readable)' = Size(Readable) /\ OneByOne' = OneByOne
  BY <1>1 DEF FoundFit, Readable, Size, OneByOne
<1>3. /\ results' = [g \in DOMAIN found |-> results'[g]]
      /\ results'[f] = result /\ \A g \in DOMAIN found \ {f} : results'[g] = results[g]
  BY <1>1 DEF Results
<1>4. Results'
  <2>1. \A g \in DOMAIN found :
          \/ results'[g] = Pending
          \/ results'[g] = OneByOne[g]
          \/ results'[g] = RefusedFor("budget") /\ Size(Readable) > MaxBytes
    BY <1>1, <1>3 DEF Results
  <2> QED
    BY <1>2, <1>3, <2>1 DEF Results
<1>5. Merged'
  BY <1>1 DEF Merged
<1>6. \A g \in DOMAIN found : g \in Accepted <=> results[g].done /\ results[g].accepted
  BY DEF Accepted
<1>7. \A g \in DOMAIN found : g \in Accepted' <=> results'[g].done /\ results'[g].accepted
  BY DEF Accepted
<1>8. Accepted \subseteq DOMAIN found /\ Accepted' \subseteq DOMAIN found
  BY DEF Accepted
<1>9. f \notin Accepted
  BY <1>6
<1>10. \A g \in Accepted : found[g].readable
  BY <1>1, <1>6, <1>8, Outcomes DEF Results
<1>11. f \in Accepted' <=> result = OneByOne[f] /\ found[f].readable
  BY <1>1, <1>3, <1>7, Outcomes
<1> QED
  BY <1>2, <1>3, <1>4, <1>5, <1>6, <1>7, <1>8, <1>9, <1>10, <1>11 DEF Readable

LEMMA ReserveKeeps ==
    ASSUME LoadInv, NEW f \in DOMAIN found, TryReserve(f)
    PROVE  LoadInv'
<1>1. FoundFit /\ Results /\ Counted /\ Merged
  BY DEF LoadInv
<1>2. /\ ~results[f].done /\ found[f].readable /\ seen[f] \in Nat /\ seen[f] <= reserved
      /\ found[f].size \in Nat /\ MaxBytes \in Nat
  BY <1>1, LoaderAssumption DEF TryReserve, Counted, FoundFit
<1>3. Accepted \in SUBSET DOMAIN found /\ reserved = Size(Accepted) /\ reserved \in Nat
  BY <1>1, SizeFinite DEF Accepted, Counted
<1>4. CASE seen[f] + found[f].size > MaxBytes
  <2>1. results' = [results EXCEPT ![f] = RefusedFor("budget")] /\ UNCHANGED <<reserved, seen, directory, found, combined>>
    BY <1>4 DEF TryReserve
  <2>2. Accepted \cup {f} \subseteq Readable /\ f \notin Accepted
    <3>1. f \notin Accepted
      BY <1>2 DEF Accepted
    <3>2. \A g \in Accepted : found[g].readable
      BY <1>1, Outcomes DEF Results, Accepted
    <3> QED
      BY <1>2, <3>1, <3>2 DEF Readable, Accepted
  <2>3. Size(Accepted \cup {f}) = reserved + found[f].size
    BY <1>1, <1>3, <2>2, SizeGrows
  <2>4. Readable \in SUBSET DOMAIN found
    BY DEF Readable
  <2>5. Size(Accepted \cup {f}) <= Size(Readable) /\ Size(Readable) \in Nat
    BY <1>1, <2>2, <2>4, SizeMonotone, SizeFinite
  <2>6. Size(Readable) > MaxBytes
    BY <1>2, <1>3, <1>4, <2>3, <2>5
  <2>7. RefusedFor("budget") # OneByOne[f]
    BY <1>1, <1>2, Outcomes
  <2>8. FoundFit' /\ Results' /\ Merged' /\ Accepted' = Accepted
    BY <1>2, <2>1, <2>6, <2>7, ResultKeeps
  <2>9. Counted'
    BY <1>1, <2>1, <2>8 DEF Counted, Size
  <2> QED
    BY <2>8, <2>9 DEF LoadInv
<1>5. CASE ~(seen[f] + found[f].size > MaxBytes) /\ reserved = seen[f]
  <2>1. /\ results' = [results EXCEPT ![f] = ReadOf(found[f])] /\ reserved' = reserved + found[f].size
        /\ UNCHANGED <<seen, directory, found, combined>>
    BY <1>5 DEF TryReserve
  <2>2. OneByOne[f] = ReadOf(found[f])
    BY <1>1, <1>2, Outcomes
  <2>3. FoundFit' /\ Results' /\ Merged' /\ Accepted' = Accepted \cup {f} /\ f \notin Accepted
    BY <1>2, <2>1, <2>2, ResultKeeps
  <2>4. Size(Accepted \cup {f}) = reserved + found[f].size
    BY <1>1, <1>3, <2>3, SizeGrows
  <2>5. Size(Accepted)' = Size(Accepted \cup {f})
    BY <2>1, <2>3 DEF Size
  <2>6. \A g \in DOMAIN found : seen[g] = Unread \/ (seen[g] \in Nat /\ seen[g] <= reserved')
    BY <1>1, <1>2, <1>3, <2>1 DEF Counted
  <2>7. Counted'
    BY <1>1, <1>2, <1>3, <1>5, <2>1, <2>4, <2>5, <2>6 DEF Counted
  <2> QED
    BY <2>3, <2>7 DEF LoadInv
<1>6. CASE ~(seen[f] + found[f].size > MaxBytes) /\ reserved # seen[f]
  <2>1. seen' = [seen EXCEPT ![f] = reserved] /\ UNCHANGED <<reserved, results, directory, found, combined>>
    BY <1>6 DEF TryReserve
  <2>2. FoundFit' /\ Results' /\ Accepted' = Accepted /\ Size(Accepted)' = Size(Accepted)
    BY <1>1, <2>1, NoResult
  <2>3. Counted'
    BY <1>1, <1>3, <2>1, <2>2 DEF Counted
  <2>4. Merged'
    BY <1>1, <2>1 DEF Merged
  <2> QED
    BY <2>2, <2>3, <2>4 DEF LoadInv
<1> QED
  BY <1>4, <1>5, <1>6

LEMMA LoadKeeps == LoadInv /\ [LoadNext]_loadVars => LoadInv'
<1> SUFFICES ASSUME LoadInv, [LoadNext]_loadVars PROVE LoadInv'
  OBVIOUS
<1>1. FoundFit /\ Results /\ Counted /\ Merged
  BY DEF LoadInv
<1>2. ASSUME NEW f \in DOMAIN found, LoadCounter(f) PROVE LoadInv'
  <2>1. seen' = [seen EXCEPT ![f] = reserved] /\ UNCHANGED <<reserved, results, directory, found, combined>>
    BY <1>2 DEF LoadCounter
  <2>2. FoundFit' /\ Results' /\ Accepted' = Accepted /\ Size(Accepted)' = Size(Accepted)
    BY <1>1, <2>1, NoResult
  <2>3. Accepted \in SUBSET DOMAIN found /\ reserved \in Nat
    BY <1>1, SizeFinite DEF Accepted, Counted
  <2>4. Counted'
    BY <1>1, <2>1, <2>2, <2>3 DEF Counted
  <2>5. Merged'
    BY <1>1, <2>1 DEF Merged
  <2> QED
    BY <2>2, <2>4, <2>5 DEF LoadInv
<1>3. ASSUME NEW f \in DOMAIN found, FileUnreadable(f) PROVE LoadInv'
  <2>1. /\ ~results[f].done /\ ~found[f].readable /\ results' = [results EXCEPT ![f] = RefusedFor("read error")]
        /\ UNCHANGED <<reserved, seen, directory, found, combined>>
    BY <1>3 DEF FileUnreadable
  <2>2. OneByOne[f] = RefusedFor("read error")
    BY <1>1, <2>1, Outcomes
  <2>3. FoundFit' /\ Results' /\ Merged' /\ Accepted' = Accepted
    BY <2>1, <2>2, ResultKeeps
  <2>4. Counted'
    BY <1>1, <2>1, <2>3 DEF Counted, Size
  <2> QED
    BY <2>3, <2>4 DEF LoadInv
<1>4. CASE LoadRuleset
  <2>1. /\ \A f \in DOMAIN found : results[f].done
        /\ combined' = MergeResults(results) /\ UNCHANGED <<directory, found, reserved, seen, results>>
    BY <1>4 DEF LoadRuleset
  <2>2. FoundFit' /\ Results' /\ Accepted' = Accepted /\ Size(Accepted)' = Size(Accepted)
    BY <1>1, <2>1, NoResult
  <2>3. Counted'
    BY <1>1, <2>1, <2>2 DEF Counted
  <2>4. Merged'
    BY <2>1 DEF Merged
  <2> QED
    BY <2>2, <2>3, <2>4 DEF LoadInv
<1>5. CASE UNCHANGED loadVars
  <2>1. UNCHANGED <<directory, found, reserved, seen, results, combined>>
    BY <1>5 DEF loadVars
  <2>2. FoundFit' /\ Results' /\ Accepted' = Accepted /\ Size(Accepted)' = Size(Accepted)
    BY <1>1, <2>1, NoResult
  <2>3. Counted'
    BY <1>1, <2>1, <2>2 DEF Counted
  <2>4. Merged'
    BY <1>1, <2>1 DEF Merged
  <2> QED
    BY <2>2, <2>3, <2>4 DEF LoadInv
<1> QED
  BY <1>2, <1>3, <1>4, <1>5, ReserveKeeps DEF LoadNext

\* However the workers interleave, they never take more bytes than the budget
\* has, and when all files fit in it the outcome is that of loading them one
\* after the other.
THEOREM LoadKeepsBudgetHolds == LoadSpec => []LoadKeepsBudget
<1>1. LoadInv => LoadKeepsBudget
  <2> SUFFICES ASSUME LoadInv PROVE LoadKeepsBudget
    OBVIOUS
  <2>1. FoundFit /\ Results /\ Counted /\ Merged
    BY DEF LoadInv
  <2>2. Size(Accepted) <= MaxBytes
    BY <2>1 DEF Counted
  <2>3. ASSUME combined.done, Size(Readable) <= MaxBytes PROVE combined = MergeResults(OneByOne)
    <3>1. combined # NotMerged
      BY <2>3 DEF NotMerged
    <3>2. combined = MergeResults(results) /\ \A f \in DOMAIN found : results[f].done
      BY <2>1, <3>1 DEF Merged
    <3>3. Readable \in SUBSET DOMAIN found
      BY DEF Readable
    <3>4. ~(Size(Readable) > MaxBytes)
      <4>1. Size(Readable) \in Nat
        BY <2>1, <3>3, SizeFinite
      <4>2. MaxBytes \in Nat
        BY LoaderAssumption
      <4> QED
        BY <2>3, <4>1, <4>2
    <3>5. \A f \in DOMAIN found : results[f] = OneByOne[f]
      BY <2>1, <3>2, <3>4, Outcomes DEF Results
    <3>6. results = OneByOne
      BY <2>1, <3>5 DEF Results, OneByOne
    <3> QED
      BY <3>2, <3>6
  <2> QED
    BY <2>2, <2>3 DEF LoadKeepsBudget, Readable
<1> QED
  BY <1>1, LoadStarts, LoadKeeps, PTL DEF LoadSpec

-----------------------------------------------------------------------------
(* The base game: the index of a run and of the editor                     *)

\* What InfoIndex_proofs has of the index holds of this one: every file but the
\* mod's is one of the base game.
Info == INSTANCE InfoIndex_proofs WITH
    BaseFiles <- Files \ {"own"}, Symbols <- {}, NoName <- "none", Normal <- [s \in {} |-> s], Texts <- {},
    Rulesets <- {}, Content <- {}, EffectVars <- {}, Uses <- {}, BaseGame <- {}, NoFile <- "none", NoKeys <- "none",
    Idle <- "none", Indexers <- {}, MaxReloads <- 0, rules <- 0, reloads <- 0, info <- 0, base <- 0, baseUris <- 0, job <- 0

LEMMA SameFinite == \A S : Info!IsFiniteSet(S) <=> IsFiniteSet(S)
  BY DEF Info!IsFiniteSet, IsFiniteSet
LEMMA SameCount == \A S : Info!Cardinality(S) = Cardinality(S)
  BY SMTT(40) DEF Info!Cardinality, Cardinality
LEMMA TypesAssumed == Info!TypeIndexAssumption
  BY SameFinite, GameAssumption DEF Info!TypeIndexAssumption
LEMMA InfoAssumed == Info!InfoIndexAssumption
  BY SameFinite, FS_EmptySet DEF Info!InfoIndexAssumption, Info!Workspace

LEMMA SameEmpty == Index!EmptyIndex = Info!EmptyIndex
  BY DEF Index!EmptyIndex, Info!EmptyIndex, Index!NoRefs, Info!NoRefs
LEMMA SameMergeFrom == \A x, u, p, b : Index!MergeFrom(x, u, p, b) = Info!MergeFrom(x, u, p, b)
  BY DEF Index!MergeFrom, Info!MergeFrom, Index!Counted, Info!Counted, Index!Spelled, Info!Spelled, Index!AddRefs, Info!AddRefs,
         Index!Cardinality, Info!Cardinality
LEMMA SameMerge == \A x, u, p : Index!Merge(x, u, p) = Info!Merge(x, u, p)
  BY SameMergeFrom DEF Index!Merge, Info!Merge
LEMMA SameRemoveFiles == \A x, us : Index!RemoveFiles(x, us) = Info!RemoveFiles(x, us)
  BY DEF Index!RemoveFiles, Info!RemoveFiles, Index!ReleaseAt, Info!ReleaseAt, Index!ReleaseName, Info!ReleaseName,
         Index!Dec, Info!Dec, Index!NoRefs, Info!NoRefs, Index!PlacesOf, Info!PlacesOf, Index!EntriesAt, Info!EntriesAt,
         Index!InOrder, Info!InOrder, Index!Cardinality, Info!Cardinality, Index!MapThenFoldSet, Info!MapThenFoldSet
LEMMA SameMergeBaseGame == \A x, p : Index!MergeBaseGame(x, p) = Info!MergeBaseGame(x, p)
  BY DEF Index!MergeBaseGame, Info!MergeBaseGame, Index!Counted, Info!Counted, Index!Spelled, Info!Spelled,
         Index!AddRefs, Info!AddRefs, Index!PlacesOf, Info!PlacesOf, Index!EntriesAt, Info!EntriesAt,
         Index!InOrder, Info!InOrder, Index!Cardinality, Info!Cardinality, Index!ToSet, Info!ToSet
LEMMA SameEntriesAt == \A s, S : Index!EntriesAt(s, S) = Info!EntriesAt(s, S)
  BY DEF Index!EntriesAt, Info!EntriesAt, Index!InOrder, Info!InOrder, Index!Cardinality, Info!Cardinality
LEMMA SameAnyInstance == \A x, n : Index!IsAnyInstance(x, n) <=> Info!IsAnyInstance(x, n)
  BY DEF Index!IsAnyInstance, Info!IsAnyInstance

\* A folder that is walked gives instances of its own files.
InFolder(b, files) == b \in Info!Vectors /\ \A t \in Types : \A i \in DOMAIN b[t] : b[t][i].uri \in files

\* The definitions at some places of a folder as instances.
AsInstances(q) == [i \in DOMAIN q |-> [uri |-> q[i].file, name |-> q[i].name]]
InFiles(v, files) == v \in Seq(Info!Instances) /\ \A i \in DOMAIN v : v[i].uri \in files
LEMMA DefinitionsFit ==
    ASSUME NEW files \in SUBSET Files, NEW dir, Defines(dir, files), NEW K \in SUBSET DOMAIN dir.defs
    PROVE  InFiles(AsInstances(Index!EntriesAt(dir.defs, K)), files)
<1> DEFINE d == dir.defs
           D == {d[i] : i \in DOMAIN d}
           q == Index!EntriesAt(d, K)
<1>1. d \in Seq(D) /\ \A i \in DOMAIN d : d[i].file \in files /\ d[i].name \in Names
  BY DEF Defines
<1>2. q = Info!EntriesAt(d, K)
  BY SameEntriesAt
<1>3. \A e \in D : e.file \in files /\ e.name \in Names
  BY <1>1
<1> HIDE DEF D
<1>4. K \in SUBSET DOMAIN d
  OBVIOUS
<1> HIDE DEF d, q
<1>5. q \in Seq(D)
  BY <1>1, <1>2, <1>4, TypesAssumed, InfoAssumed, Info!EntriesType
<1>6. DOMAIN q = 1..Len(q) /\ Len(q) \in Nat /\ \A i \in DOMAIN q : q[i] \in D
  BY <1>5
<1>7. \A i \in DOMAIN q : [uri |-> q[i].file, name |-> q[i].name] \in Info!Instances
  BY <1>3, <1>6 DEF Info!Instances
<1>8. InFiles(AsInstances(q), files)
  BY <1>3, <1>6, <1>7 DEF InFiles, AsInstances
<1> QED
  BY <1>8 DEF d, q

LEMMA FolderFits ==
    ASSUME NEW files \in SUBSET Files, NEW dir, Defines(dir, files), NEW include, NEW rules
    PROVE  InFolder(IndexFolder(dir, include, rules).instances, files)
<1> DEFINE b == IndexFolder(dir, include, rules).instances
           K(key) == {i \in DOMAIN dir.defs : (include = {"."} \/ dir.defs[i].folder \in include)
                                              /\ \E t \in rules.types : HasKey(t, dir.defs[i], key)}
           q(key) == Index!EntriesAt(dir.defs, K(key))
<1>1. b = [key \in Types |-> AsInstances(q(key))]
  BY DEF IndexFolder, AsInstances
<1>2. ASSUME NEW t \in Types PROVE b[t] \in Seq(Info!Instances) /\ \A i \in DOMAIN b[t] : b[t][i].uri \in files
  <2>1. b[t] = AsInstances(Index!EntriesAt(dir.defs, K(t)))
    BY <1>1
  <2>2. K(t) \in SUBSET DOMAIN dir.defs
    OBVIOUS
  <2> HIDE DEF b, K
  <2>3. InFiles(b[t], files)
    BY <2>1, <2>2, DefinitionsFit
  <2> QED
    BY <2>3 DEF InFiles
<1>3. b = [t \in Types |-> b[t]]
  BY <1>1
<1> HIDE DEF b
<1>4. b \in Info!Vectors
  BY <1>2, <1>3 DEF Info!Vectors
<1> QED
  BY <1>2, <1>4 DEF InFolder, b

\* The names in them.
LEMMA NamesFit ==
    ASSUME NEW b \in Info!Vectors
    PROVE  NamesOf(b) \in [Types -> Seq(Names)]
<1>1. ASSUME NEW t \in Types PROVE [i \in DOMAIN b[t] |-> b[t][i].name] \in Seq(Names)
  <2> DEFINE v == b[t]
  <2>1. v \in Seq(Info!Instances)
    BY DEF Info!Vectors
  <2> HIDE DEF v
  <2>e. DOMAIN v = 1..Len(v) /\ Len(v) \in Nat /\ \A i \in DOMAIN v : v[i] \in Info!Instances
    BY <2>1
  <2>2. DOMAIN v = 1..Len(v) /\ Len(v) \in Nat /\ \A i \in DOMAIN v : v[i].name \in Names
    BY <2>e DEF Info!Instances
  <2>3. [i \in DOMAIN v |-> v[i].name] \in Seq(Names)
    BY <2>2
  <2> QED
    BY <2>3 DEF v
<1> QED
  BY <1>1 DEF NamesOf

\* Files under one name have the names of the files.
Under(u, walked) == Info!VectorsOf(u, NamesOf(walked.instances))
LEMMA UnderNames ==
    ASSUME NEW walked, NEW u, NEW t \in Types, NEW n
    PROVE  /\ Info!SpelledIn(Under(u, walked), t, n) = Spelled(walked, t, n)
           /\ Info!SpelledIn(walked.instances, t, n) = Spelled(walked, t, n)
<1> DEFINE b == walked.instances
           v == Under(u, walked)
<1>1. DOMAIN v[t] = DOMAIN b[t] /\ \A i \in DOMAIN b[t] : v[t][i].name = b[t][i].name
  BY DEF Under, Info!VectorsOf, NamesOf
<1> HIDE DEF v
<1>2. {i \in DOMAIN v[t] : Lower[v[t][i].name] = n} = {i \in DOMAIN b[t] : Lower[b[t][i].name] = n}
  BY <1>1
<1>3. Info!SpelledIn(v, t, n) = Cardinality({i \in DOMAIN v[t] : Lower[v[t][i].name] = n})
  BY SameCount DEF Info!SpelledIn
<1>4. Info!SpelledIn(b, t, n) = Cardinality({i \in DOMAIN b[t] : Lower[b[t][i].name] = n})
  BY SameCount DEF Info!SpelledIn
<1> QED
  BY <1>2, <1>3, <1>4 DEF Spelled, v

\* The mod's own index,
OwnVectors(rules) == Under("own", OwnFiles(rules))
LEMMA OwnFits ==
    ASSUME NEW rules
    PROVE  NamesOf(OwnFiles(rules).instances) \in [Types -> Seq(Names)]
<1>1. InFolder(OwnFiles(rules).instances, Files)
  BY FolderFits, GameAssumption DEF OwnFiles
<1> QED
  BY <1>1, NamesFit DEF InFolder

LEMMA OwnIndexed ==
    ASSUME NEW rules
    PROVE  Info!Holding(Index!Merge(Index!EmptyIndex, "own", NamesOf(OwnFiles(rules).instances)),
                        OwnVectors(rules), Info!NoVectors)
<1> DEFINE per == NamesOf(OwnFiles(rules).instances)
           y == Index!Merge(Index!EmptyIndex, "own", per)
           u == "own"
<1>1. per \in [Types -> Seq(Names)] /\ u \in Files /\ u \notin Files \ {"own"}
  BY OwnFits, GameAssumption
<1>2. y = Info!Merge(Info!EmptyIndex, u, per)
  BY SameMerge, SameEmpty
<1>3. OwnVectors(rules) = Info!VectorsOf(u, per)
  BY DEF OwnVectors, Under
<1> HIDE DEF per, y, u
<1>4. Info!Holding(y, Info!VectorsOf(u, per), Info!NoVectors)
  BY <1>1, <1>2, TypesAssumed, InfoAssumed, Info!OwnHeld
<1> QED
  BY <1>3, <1>4 DEF y, u, per

\* the index with a version of the base game in the place of another,
LEMMA GameFits ==
    ASSUME NEW v \in DOMAIN Installs, NEW rules
    PROVE  /\ Info!OfBase(IndexGameDir(Installs[v], rules).instances)
           /\ NamesOf(IndexGameDir(Installs[v], rules).instances) \in [Types -> Seq(Names)]
<1>1. InFolder(IndexGameDir(Installs[v], rules).instances, Files \ {"own"})
  BY FolderFits, GameAssumption DEF IndexGameDir
<1> QED
  BY <1>1, NamesFit DEF InFolder, Info!OfBase

LEMMA GameIndexed ==
    ASSUME NEW x, NEW own, NEW v \in DOMAIN Installs, NEW rules, NEW per, per = IndexGameDir(Installs[v], rules).instances
    PROVE  /\ Info!Holding(x, own, Info!NoVectors) => Info!Holding(Index!MergeBaseGame(x, per), own, per)
           /\ \A b : Info!Holding(x, own, b) => Info!Holding(Index!MergeBaseGame(Index!RemoveFiles(x, Info!UrisOf(b)), per), own, per)
<1>1. Info!OfBase(per)
  BY GameFits
<1>2. ASSUME Info!Holding(x, own, Info!NoVectors)
      PROVE  Info!Holding(Index!MergeBaseGame(x, per), own, per)
  <2> DEFINE z == Index!MergeBaseGame(x, per)
  <2>1. z = Info!MergeBaseGame(x, per)
    BY SameMergeBaseGame
  <2> HIDE DEF z
  <2>2. Info!Holding(z, own, per)
    BY <1>1, <1>2, <2>1, TypesAssumed, InfoAssumed, Info!BaseHeld
  <2> QED
    BY <2>2 DEF z
<1>3. ASSUME NEW b, Info!Holding(x, own, b)
      PROVE  Info!Holding(Index!MergeBaseGame(Index!RemoveFiles(x, Info!UrisOf(b)), per), own, per)
  <2> DEFINE z == Index!MergeBaseGame(Index!RemoveFiles(x, Info!UrisOf(b)), per)
  <2>1. z = Info!MergeBaseGame(Info!RemoveFiles(x, Info!UrisOf(b)), per)
    BY SameMergeBaseGame, SameRemoveFiles
  <2> HIDE DEF z
  <2>2. Info!Holding(z, own, per)
    BY <1>1, <1>3, <2>1, TypesAssumed, InfoAssumed, Info!BaseReplaced
  <2> QED
    BY <2>2 DEF z
<1> QED
  BY <1>2, <1>3

\* and what they know.
LEMMA TellsKnows ==
    ASSUME NEW x, NEW rules, NEW walked, NEW b, \A t \in Types, n \in Names : Info!SpelledIn(b, t, n) = Spelled(walked, t, n),
           \A n \in Names : Info!Tells(x, OwnVectors(rules), b, n)
    PROVE  KnowsInstances(x, OwnFiles(rules), walked)
<1> DEFINE own == OwnFiles(rules)
           v == OwnVectors(rules)
<1>1. ASSUME NEW n \in Names
      PROVE  /\ \A key \in Types : x.refs[key][n] = [total |-> Spelled(own, key, n) + Spelled(walked, key, n),
                                                     workspace |-> Spelled(own, key, n)]
             /\ Index!IsAnyInstance(x, n) <=> \E key \in Types \ Subtypes : x.refs[key][Lower[n]].total > 0
  <2>1. /\ \A t \in Types : x.refs[t][n] = [total |-> Info!SpelledIn(v, t, n) + Info!SpelledIn(b, t, n),
                                            workspace |-> Info!SpelledIn(v, t, n)]
        /\ Info!IsAnyInstance(x, n) <=> \E t \in Types \ Subtypes : x.refs[t][Lower[n]].total > 0
    BY DEF Info!Tells
  <2>2. \A t \in Types : Info!SpelledIn(v, t, n) = Spelled(own, t, n)
    BY UnderNames DEF OwnVectors
  <2> HIDE DEF own, v
  <2>3. \A t \in Types : x.refs[t][n] = [total |-> Spelled(own, t, n) + Spelled(walked, t, n), workspace |-> Spelled(own, t, n)]
    BY <2>1, <2>2
  <2> QED
    BY <2>1, <2>3, SameAnyInstance
<1> HIDE DEF own
<1>2. KnowsInstances(x, own, walked)
  BY <1>1 DEF KnowsInstances
<1> QED
  BY <1>2 DEF own

LEMMA HoldingKnows ==
    ASSUME NEW x, NEW rules, NEW walked, Info!Holding(x, OwnVectors(rules), walked.instances)
    PROVE  KnowsInstances(x, OwnFiles(rules), walked)
<1> DEFINE b == walked.instances
           v == OwnVectors(rules)
<1>1. \A t \in Types, n \in Names : Info!SpelledIn(b, t, n) = Spelled(walked, t, n)
  BY UnderNames
<1>2. Info!CountsBut(x, x.map, {}) /\ Info!Together(x.map, v, b)
  BY DEF Info!Holding
<1>3. \A n \in Names : Info!Tells(x, v, b, n)
  <2> TAKE n \in Names
  <2> HIDE DEF b, v
  <2> DEFINE map == x.map
  <2>1. Info!CountsBut(x, map, {}) /\ Info!Together(map, v, b)
    BY <1>2
  <2> HIDE DEF map
  <2> QED
    BY <2>1, TypesAssumed, InfoAssumed, Info!TogetherTells
<1> QED
  BY <1>1, <1>3, TellsKnows

LEMMA WalkKnows ==
    ASSUME NEW x, NEW rules, Info!Holding(x, OwnVectors(rules), Info!NoVectors), NEW v \in DOMAIN Installs,
           NEW walked, walked = IndexGameDir(Installs[v], rules)
    PROVE  KnowsInstances(Index!MergeFrom(x, "<vanilla>", NamesOf(walked.instances), TRUE), OwnFiles(rules), walked)
<1> DEFINE per == NamesOf(walked.instances)
           u == "<vanilla>"
           y == Index!MergeFrom(x, u, per, TRUE)
           own == OwnVectors(rules)
<1>1. per \in [Types -> Seq(Names)] /\ u \in Files \ {"own"}
  BY GameFits, GameAssumption
<1>2. y = Info!MergeFrom(x, u, per, TRUE)
  BY SameMergeFrom
<1>3. Under(u, walked) = Info!VectorsOf(u, per)
  BY DEF Under
<1>4. \A n \in Names : Info!Tells(y, own, Info!VectorsOf(u, per), n)
  <2> TAKE n \in Names
  <2> HIDE DEF per, y, u, own
  <2> QED
    BY <1>1, <1>2, TypesAssumed, InfoAssumed, Info!FolderTold DEF own
<1>5. \A t \in Types, n \in Names : Info!SpelledIn(Under(u, walked), t, n) = Spelled(walked, t, n)
  BY UnderNames
<1> QED
  BY <1>3, <1>4, <1>5, TellsKnows

-----------------------------------------------------------------------------
(* The base game: the files                                                *)

Folded(paths) == {Fold(p) : p \in paths}
IsFileIndex(idx) == idx = [f \in {"files", "spelled", "exact"} |-> idx[f]] /\ idx.exact \in BOOLEAN

\* What adding paths makes of an index.
WithPaths(y, idx, paths) ==
    /\ IsFileIndex(y) /\ y.exact = idx.exact /\ y.files = idx.files \cup Folded(paths)
    /\ idx.exact => /\ DOMAIN y.spelled = DOMAIN idx.spelled \cup Folded(paths)
                    /\ \A p \in paths : y.spelled[Fold(p)] = p
                    /\ \A f \in DOMAIN idx.spelled \ Folded(paths) : y.spelled[f] = idx.spelled[f]
LEMMA PathsAdded ==
    ASSUME NEW idx, IsFileIndex(idx), NEW paths \in SUBSET Paths
    PROVE  WithPaths(AddPaths(idx, paths), idx, paths)
<1> DEFINE y == AddPaths(idx, paths)
           over == [f \in DOMAIN idx.spelled \cup Folded(paths) |->
                       IF f \in Folded(paths) THEN CHOOSE p \in paths : Fold(p) = f ELSE idx.spelled[f]]
           spelled == IF ~idx.exact THEN idx.spelled ELSE over
<1>1. y = [idx EXCEPT !.files = idx.files \cup Folded(paths), !.spelled = spelled]
  BY DEF AddPaths, Folded
<1>2. \A p \in paths : over[Fold(p)] = p
  <2> TAKE p \in paths
  <2> DEFINE q == CHOOSE q \in paths : Fold(q) = Fold(p)
  <2>1. q \in paths /\ Fold(q) = Fold(p)
    OBVIOUS
  <2>2. Fold(p) \in Folded(paths)
    BY DEF Folded
  <2>3. over[Fold(p)] = q
    BY <2>2
  <2> HIDE DEF q
  <2>4. q = p
    BY <2>1, GameAssumption
  <2> QED
    BY <2>3, <2>4
<1>3. DOMAIN over = DOMAIN idx.spelled \cup Folded(paths) /\ \A f \in DOMAIN idx.spelled \ Folded(paths) : over[f] = idx.spelled[f]
  OBVIOUS
<1> HIDE DEF over
<1>5. y.files = idx.files \cup Folded(paths) /\ y.exact = idx.exact /\ y.spelled = spelled
      /\ y = [f \in {"files", "spelled", "exact"} |-> y[f]]
  <2> HIDE DEF spelled, y
  <2> QED
    BY <1>1 DEF IsFileIndex
<1>6. IsFileIndex(y)
  <2> HIDE DEF y
  <2> QED
    BY <1>5 DEF IsFileIndex
<1>7. ASSUME idx.exact
      PROVE  /\ DOMAIN y.spelled = DOMAIN idx.spelled \cup Folded(paths)
             /\ \A p \in paths : y.spelled[Fold(p)] = p
             /\ \A f \in DOMAIN idx.spelled \ Folded(paths) : y.spelled[f] = idx.spelled[f]
  <2>1. y.spelled = over
    BY <1>5, <1>7
  <2> HIDE DEF y, over
  <2> QED
    BY <1>2, <1>3, <2>1
<1> HIDE DEF y
<1>8. WithPaths(y, idx, paths)
  BY <1>5, <1>6, <1>7 DEF WithPaths
<1> QED
  BY <1>8 DEF y

LEMMA NoFilesIndex ==
    ASSUME NEW exact \in BOOLEAN
    PROVE  /\ IsFileIndex(NoFiles(exact)) /\ NoFiles(exact).exact = exact /\ NoFiles(exact).files = {}
           /\ DOMAIN NoFiles(exact).spelled = {}
<1> DEFINE none == <<>>
           idx == [files |-> {}, spelled |-> none, exact |-> exact]
<1>1. DOMAIN none = {}
  OBVIOUS
<1> HIDE DEF none
<1>2. idx = [f \in {"files", "spelled", "exact"} |-> idx[f]] /\ idx.exact = exact /\ idx.files = {} /\ idx.spelled = none
  OBVIOUS
<1>3. NoFiles(exact) = idx
  BY DEF NoFiles, none
<1> HIDE DEF idx
<1> QED
  BY <1>1, <1>2, <1>3 DEF IsFileIndex

\* The paths in a cache are those of the folder.
LEMMA CachedPaths ==
    ASSUME NEW dir, dir.paths \in SUBSET Paths, NEW walked
    PROVE  BuildVanillaCacheAux(dir, walked).paths = dir.paths
<1> DEFINE y == AddRoot(NoFiles(TRUE), dir)
           s == y.spelled
<1>1. /\ IsFileIndex(NoFiles(TRUE)) /\ NoFiles(TRUE).exact = TRUE /\ DOMAIN NoFiles(TRUE).spelled = {}
  BY NoFilesIndex
<1>2. y = AddPaths(NoFiles(TRUE), dir.paths)
  BY DEF AddRoot
<1> HIDE DEF y
<1>3. DOMAIN s = Folded(dir.paths) /\ \A p \in dir.paths : s[Fold(p)] = p
  <2> DEFINE x == NoFiles(TRUE)
  <2>1. IsFileIndex(x) /\ x.exact /\ DOMAIN x.spelled = {} /\ y = AddPaths(x, dir.paths)
    BY <1>1, <1>2
  <2> HIDE DEF x
  <2>2. WithPaths(y, x, dir.paths)
    BY <2>1, PathsAdded
  <2> QED
    BY <2>1, <2>2 DEF WithPaths
<1>4. BuildVanillaCacheAux(dir, walked).paths = {s[p] : p \in DOMAIN s}
  BY DEF BuildVanillaCacheAux, y
<1> HIDE DEF s
<1> QED
  BY <1>3, <1>4 DEF Folded

\* The index of the mod's files and the base game's knows both.
HasPaths(z, paths, exact) ==
    /\ IsFileIndex(z) /\ z.exact = exact /\ z.files = Folded(paths)
    /\ exact => DOMAIN z.spelled = z.files /\ \A p \in paths : z.spelled[Fold(p)] = p
LEMMA FilesKnown ==
    ASSUME NEW own \in SUBSET Paths, NEW others \in SUBSET Paths, NEW exact \in BOOLEAN,
           NEW z, z = BuildFileIndex(own, others, exact)
    PROVE  HasPaths(z, own \cup others, exact)
<1> DEFINE x == NoFiles(exact)
           y == AddPaths(x, own)
<1>1. IsFileIndex(x) /\ x.exact = exact /\ x.files = {} /\ DOMAIN x.spelled = {}
  BY NoFilesIndex
<1>2. z = AddPaths(y, others)
  BY DEF BuildFileIndex
<1> HIDE DEF x
<1>3. /\ IsFileIndex(y) /\ y.exact = exact /\ y.files = Folded(own)
      /\ exact => DOMAIN y.spelled = Folded(own) /\ \A p \in own : y.spelled[Fold(p)] = p
  <2>1. WithPaths(y, x, own)
    BY <1>1, PathsAdded
  <2> HIDE DEF y
  <2> QED
    BY <1>1, <2>1 DEF WithPaths
<1> HIDE DEF y
<1>4. /\ IsFileIndex(z) /\ z.exact = y.exact /\ z.files = y.files \cup Folded(others)
      /\ z.exact => /\ DOMAIN z.spelled = DOMAIN y.spelled \cup Folded(others)
                    /\ \A p \in others : z.spelled[Fold(p)] = p
                    /\ \A f \in DOMAIN y.spelled \ Folded(others) : z.spelled[f] = y.spelled[f]
  <2>1. WithPaths(z, y, others)
    BY <1>2, <1>3, PathsAdded
  <2> QED
    BY <1>3, <2>1 DEF WithPaths
<1>5. Folded(own \cup others) = Folded(own) \cup Folded(others)
  BY DEF Folded
<1>6. ASSUME exact, NEW p \in own PROVE z.spelled[Fold(p)] = p
  <2>1. Fold(p) \in Folded(own)
    BY DEF Folded
  <2>2. CASE Fold(p) \in Folded(others)
    <3>1. PICK q \in others : Fold(q) = Fold(p)
      BY <2>2 DEF Folded
    <3>2. q = p
      BY <3>1, GameAssumption
    <3> QED
      BY <1>3, <1>4, <1>6, <3>2
  <2>3. CASE Fold(p) \notin Folded(others)
    BY <1>3, <1>4, <1>6, <2>1, <2>3
  <2> QED
    BY <2>2, <2>3
<1>7. ASSUME exact PROVE DOMAIN z.spelled = z.files /\ \A p \in own \cup others : z.spelled[Fold(p)] = p
  <2>1. \A p \in own : z.spelled[Fold(p)] = p
    BY <1>6, <1>7
  <2>2. \A p \in others : z.spelled[Fold(p)] = p
    BY <1>3, <1>4, <1>7
  <2>3. DOMAIN z.spelled = z.files
    BY <1>3, <1>4, <1>7
  <2> QED
    BY <2>1, <2>2, <2>3
<1>8. z.files = Folded(own \cup others) /\ IsFileIndex(z) /\ z.exact = exact
  BY <1>3, <1>4, <1>5
<1> QED
  BY <1>7, <1>8 DEF HasPaths

LEMMA IndexedKnown ==
    ASSUME NEW own \in SUBSET Paths, NEW others \in SUBSET Paths, NEW exact \in BOOLEAN
    PROVE  KnowsFiles(BuildFileIndex(own, others, exact), own \cup others)
<1> DEFINE z == BuildFileIndex(own, others, exact)
           paths == own \cup others
<1>1. /\ z.exact = exact /\ z.files = Folded(paths)
      /\ exact => DOMAIN z.spelled = z.files /\ \A p \in paths : z.spelled[Fold(p)] = p
  <2> HIDE DEF z
  <2>1. HasPaths(z, paths, exact)
    BY FilesKnown DEF z
  <2> QED
    BY <2>1 DEF HasPaths
<1> HIDE DEF z, paths
<1>2. \A f : f \in Folded(paths) <=> \E p \in paths : Fold(p) = f
  BY DEF Folded
<1>3. ASSUME NEW path
      PROVE  /\ exact => ((IF Fold(path) \in DOMAIN z.spelled THEN z.spelled[Fold(path)] = path ELSE Fold(path) \in z.files)
                            <=> path \in paths)
             /\ exact /\ path \notin paths
                  => {z.spelled[p] : p \in {p \in DOMAIN z.spelled : p = Fold(path) /\ z.spelled[p] # path}}
                       = {p \in paths : Fold(p) = Fold(path)}
  <2>1. CASE ~exact
    BY <2>1
  <2>2. CASE exact
    <3>1. DOMAIN z.spelled = Folded(paths) /\ \A p \in paths : z.spelled[Fold(p)] = p
      BY <1>1, <2>2
    <3>2. Fold(path) \in DOMAIN z.spelled => z.spelled[Fold(path)] \in paths /\ Fold(z.spelled[Fold(path)]) = Fold(path)
      BY <1>2, <3>1
    <3>3. path \in paths => Fold(path) \in DOMAIN z.spelled /\ z.spelled[Fold(path)] = path
      BY <1>2, <3>1
    <3>4. ASSUME path \notin paths
          PROVE  {z.spelled[p] : p \in {p \in DOMAIN z.spelled : p = Fold(path) /\ z.spelled[p] # path}}
                   = {p \in paths : Fold(p) = Fold(path)}
      <4> DEFINE L == {z.spelled[p] : p \in {p \in DOMAIN z.spelled : p = Fold(path) /\ z.spelled[p] # path}}
                 R == {p \in paths : Fold(p) = Fold(path)}
      <4>1. ASSUME NEW e \in L PROVE e \in R
        BY <3>2, <4>1
      <4>2. ASSUME NEW e \in R PROVE e \in L
        <5>1. e \in paths /\ Fold(e) = Fold(path) /\ e # path
          BY <3>4, <4>2
        <5>2. Fold(path) \in DOMAIN z.spelled /\ z.spelled[Fold(path)] = e
          BY <1>2, <3>1, <5>1
        <5> QED
          BY <5>1, <5>2
      <4> QED
        BY <4>1, <4>2
    <3>5. (IF Fold(path) \in DOMAIN z.spelled THEN z.spelled[Fold(path)] = path ELSE Fold(path) \in z.files)
            <=> path \in paths
      BY <1>1, <3>1, <3>2, <3>3
    <3> QED
      BY <3>4, <3>5
  <2> QED
    BY <2>1, <2>2
<1>4. ASSUME NEW reference
      PROVE  /\ HasFile(z, reference) <=>
                  \E p \in paths : IF z.exact THEN p = NormalPath(reference) ELSE Fold(p) = Fold(NormalPath(reference))
             /\ z.exact /\ ~HasFile(z, reference) =>
                  OnDiskCase(z, reference) = {p \in paths : Fold(p) = Fold(NormalPath(reference))}
  <2> DEFINE path == NormalPath(reference)
  <2>1. HasFile(z, reference) <=> IF z.exact /\ Fold(path) \in DOMAIN z.spelled THEN z.spelled[Fold(path)] = path
                                  ELSE Fold(path) \in z.files
    BY DEF HasFile
  <2>2. OnDiskCase(z, reference) = {z.spelled[p] : p \in {p \in DOMAIN z.spelled : p = Fold(path) /\ z.spelled[p] # path}}
    BY DEF OnDiskCase
  <2> HIDE DEF path
  <2>3. CASE exact
    <3>1. HasFile(z, reference) <=> path \in paths
      BY <1>1, <1>3, <2>1, <2>3
    <3>2. ~HasFile(z, reference) => OnDiskCase(z, reference) = {p \in paths : Fold(p) = Fold(path)}
      BY <1>3, <2>2, <2>3, <3>1
    <3> QED
      BY <1>1, <2>3, <3>1, <3>2 DEF path
  <2>4. CASE ~exact
    <3>1. HasFile(z, reference) <=> \E p \in paths : Fold(p) = Fold(path)
      BY <1>1, <1>2, <2>1, <2>4
    <3> QED
      BY <1>1, <2>4, <3>1 DEF path
  <2> QED
    BY <2>3, <2>4
<1>5. KnowsFiles(z, paths)
  BY <1>4 DEF KnowsFiles
<1> QED
  BY <1>5 DEF z, paths

\* An index without spellings has to have the paths only.
LEMMA LooselyKnown ==
    ASSUME NEW idx, ~idx.exact, NEW paths, idx.files = Folded(paths)
    PROVE  KnowsFiles(idx, paths)
<1>1. ASSUME NEW reference
      PROVE  HasFile(idx, reference) <=> \E p \in paths : Fold(p) = Fold(NormalPath(reference))
  <2>1. HasFile(idx, reference) <=> Fold(NormalPath(reference)) \in idx.files
    BY DEF HasFile
  <2> QED
    BY <2>1 DEF Folded
<1> QED
  BY <1>1 DEF KnowsFiles

-----------------------------------------------------------------------------
(* The base game: the keys                                                 *)

\* The elements of a finite set as a sequence.
LEMMA ListsAll ==
    ASSUME NEW S, IsFiniteSet(S), NEW s, s = SetToSeq(S)
    PROVE  /\ \A i \in 1..Cardinality(S) : s[i] \in S
           /\ \A e \in S : \E i \in 1..Cardinality(S) : s[i] = e
           /\ \A i, j \in 1..Cardinality(S) : s[i] = s[j] => i = j
<1> DEFINE n == Cardinality(S)
<1>1. n \in Nat /\ ExistsBijection(1..n, S)
  BY FS_CardinalityType
<1>2. \E f \in [1..n -> S] : IsInjective(f)
  <2>1. PICK f \in Bijection(1..n, S) : TRUE
    BY <1>1 DEF ExistsBijection
  <2>2. f \in [1..n -> S] /\ \A i, j \in 1..n : f[i] = f[j] => i = j
    BY <2>1 DEF Bijection, Injection, IsInjective
  <2> QED
    BY <2>2 DEF IsInjective
<1>3. s \in [1..n -> S] /\ \A i, j \in 1..n : s[i] = s[j] => i = j
  <2>1. s \in [1..n -> S] /\ IsInjective(s)
    BY <1>2 DEF SetToSeq
  <2> HIDE DEF n
  <2> QED
    BY <2>1 DEF IsInjective
<1>4. IsFiniteSet(1..n) /\ Cardinality(1..n) = n
  BY <1>1, FS_Interval
<1>5. ASSUME NEW e \in S, \A i \in 1..n : s[i] # e PROVE FALSE
  <2>1. IsFiniteSet(S \ {e}) /\ Cardinality(S \ {e}) = n - 1
    BY FS_RemoveElement
  <2>2. s \in [1..n -> S \ {e}]
    BY <1>3, <1>5
  <2> HIDE DEF n
  <2>3. \E i, j \in 1..n : i # j /\ s[i] = s[j]
    BY <1>1, <1>4, <2>1, <2>2, FS_PigeonHole
  <2> QED
    BY <1>3, <2>3
<1> HIDE DEF n
<1> QED
  BY <1>3, <1>5 DEF n

\* The keys of the languages asked for.
KeysAsked(keys, langs) == [l \in {l \in DOMAIN keys : Allowed(langs, l)} |-> keys[l]]

\* The keys a cache has, by language, are those that were read.
LEMMA CachedByLanguage ==
    ASSUME NEW keys, IsFiniteSet(DOMAIN keys), NEW langs
    PROVE  ByLanguage(TypedKeys(keys, langs)) = KeysAsked(keys, langs)
<1> DEFINE S == {l \in DOMAIN keys : Allowed(langs, l)}
           s == SetToSeq(S)
           typed == TypedKeys(keys, langs)
           n == Cardinality(S)
<1>1. IsFiniteSet(S)
  BY FS_Subset
<1>2. DOMAIN typed = 1..n /\ \A i \in 1..n : typed[i].lang = s[i] /\ typed[i].keys = keys[s[i]]
  BY DEF TypedKeys
<1>3. /\ \A i \in 1..n : s[i] \in S
      /\ \A e \in S : \E i \in 1..n : s[i] = e
      /\ \A i, j \in 1..n : s[i] = s[j] => i = j
  <2> HIDE DEF S
  <2> QED
    BY <1>1, ListsAll
<1> HIDE DEF typed, n, s, S
<1>4. {typed[i].lang : i \in DOMAIN typed} = S
  BY <1>2, <1>3
<1>5. ASSUME NEW l \in S
      PROVE  UNION {typed[i].keys : i \in {i \in DOMAIN typed : typed[i].lang = l}} = keys[l]
  <2>1. PICK i \in 1..n : s[i] = l
    BY <1>3
  <2>2. {j \in DOMAIN typed : typed[j].lang = l} = {i}
    BY <1>2, <1>3, <2>1
  <2>3. {typed[j].keys : j \in {j \in DOMAIN typed : typed[j].lang = l}} = {typed[i].keys}
    BY <2>2
  <2> QED
    BY <1>2, <2>1, <2>3
<1>6. ByLanguage(typed) = [l \in S |-> keys[l]]
  BY <1>4, <1>5 DEF ByLanguage
<1> QED
  BY <1>6 DEF KeysAsked, S, typed

\* Keys added to those the mod's files have in the languages asked for.
LEMMA AddedKnown ==
    ASSUME NEW loc, NEW own, NEW langs, NEW keys, NEW all, Reads(own, Workspace, langs), Adds(loc, own, keys),
           keys = KeysAsked(all, langs)
    PROVE  KnowsKeys(loc, langs, AllKeys(Workspace), all)
<1> DEFINE mod == AllKeys(Workspace)
           both == {l \in DOMAIN mod \cup DOMAIN all : Allowed(langs, l)}
<1>1. own.perLang = [l \in {l \in DOMAIN mod : Allowed(langs, l)} |-> mod[l]] /\ ToSet(own.langs) = DOMAIN own.perLang
  BY DEF Reads
<1> HIDE DEF mod
<1>2. DOMAIN own.perLang = {l \in DOMAIN mod : Allowed(langs, l)} /\ DOMAIN keys = {l \in DOMAIN all : Allowed(langs, l)}
  BY <1>1 DEF KeysAsked
<1>3. \A l \in both : KeysIn(own.perLang, l) = KeysIn(mod, l) /\ KeysIn(keys, l) = KeysIn(all, l)
  BY <1>1, <1>2 DEF KeysIn, KeysAsked
<1>4. DOMAIN loc.perLang = both
  BY <1>2 DEF Adds
<1>5. \A l \in both : KeysIn(loc.perLang, l) = KeysIn(mod, l) \cup KeysIn(all, l)
  BY <1>3, <1>4 DEF Adds, KeysIn
<1>6. loc.union = UNION {loc.perLang[l] : l \in DOMAIN loc.perLang} /\ ToSet(loc.langs) = both
  BY <1>1, <1>2 DEF Adds
<1> QED
  BY <1>4, <1>5, <1>6 DEF KnowsKeys, mod

\* A run knows the keys of both, from a cache and from a walk.
LEMMA KeysKnown ==
    ASSUME NEW config \in Configs, NEW v \in DOMAIN Installs,
           NEW langs, langs = config.langs, NEW own, own = LocsScoped(ReadLoc(Workspace.loc, langs), langs)
    PROVE  /\ KnowsKeys(KeysMerged(own, TypedKeys(AllKeys(Installs[v]), langs), langs), langs,
                        AllKeys(Workspace), AllKeys(Installs[v]))
           /\ KnowsKeys(LocsMerged(own, LocsScoped(ReadLoc(Installs[v].loc, langs), {}), langs), langs,
                        AllKeys(Workspace), AllKeys(Installs[v]))
<1> DEFINE dir == Installs[v]
           other == LocsScoped(ReadLoc(dir.loc, langs), {})
           all == AllKeys(dir)
           cached == TypedKeys(all, langs)
           fresh == KeysAsked(all, langs)
<1>1. LocMerges(langs, dir)
  BY GameAssumption
<1>2. /\ Reads(own, Workspace, langs) /\ Reads(other, dir, langs)
      /\ Adds(LocsMerged(own, other, langs), own, other.perLang)
      /\ Adds(KeysMerged(own, cached, langs), own, ByLanguage(cached))
  BY <1>1 DEF LocMerges
<1>3. IsFiniteSet(DOMAIN all) /\ other.perLang = fresh
  BY <1>2 DEF Reads, KeysAsked
<1>4. ByLanguage(cached) = fresh
  <2> HIDE DEF all
  <2> QED
    BY <1>3, CachedByLanguage
<1>5. KnowsKeys(KeysMerged(own, cached, langs), langs, AllKeys(Workspace), all)
  <2> HIDE DEF cached, all
  <2> QED
    BY <1>2, <1>4, AddedKnown
<1>6. KnowsKeys(LocsMerged(own, other, langs), langs, AllKeys(Workspace), all)
  <2> HIDE DEF other, all
  <2> QED
    BY <1>2, <1>3, AddedKnown
<1> QED
  BY <1>5, <1>6

-----------------------------------------------------------------------------
(* The base game: cache files                                              *)

\* A version of the base game with rules it was indexed under.
Versions == [install : DOMAIN Installs, rules : DOMAIN Rulesets]
SameGame(o, of) ==
    /\ o \in Versions /\ of \in Versions /\ o.install = of.install
    /\ RulesetShapeHash(Rulesets[o.rules]) = RulesetShapeHash(Rulesets[of.rules])
GameOf(o) == Installs[o.install]
WalkOf(o) == IndexGameDir(Installs[o.install], Rulesets[o.rules])

\* What a file holds that was written for such a version.
Copies(file, o) ==
    /\ file.fingerprint = Live(o) /\ file.of = o /\ file.instances = WalkOf(o).instances
    /\ file.aux.vars = WalkOf(o).vars /\ file.aux.scripted = WalkOf(o).scripted
    /\ file.aux.members = WalkOf(o).members /\ file.aux.tags = WalkOf(o).tags
    /\ file.aux.paths = GameOf(o).paths /\ file.aux.loc = AllKeys(GameOf(o))
LEMMA GamePaths ==
    ASSUME NEW o \in Versions
    PROVE  GameOf(o).paths \in SUBSET Paths
  BY DEF Versions, GameOf, Paths

LEMMA WrittenCopies ==
    ASSUME NEW o \in Versions
    PROVE  Copies(WriteCache(Live(o), Installs[o.install], Rulesets[o.rules], o), o)
<1> DEFINE dir == GameOf(o)
           walked == WalkOf(o)
           aux == BuildVanillaCacheAux(dir, walked)
           fingerprint == Live(o)
           file == [readable |-> TRUE, fingerprint |-> fingerprint, instances |-> walked.instances, aux |-> aux, of |-> o]
<1>1. WriteCache(fingerprint, Installs[o.install], Rulesets[o.rules], o) = file
  BY DEF WriteCache, WalkOf, GameOf
<1>2. aux.paths = dir.paths
  BY GamePaths, CachedPaths
<1>3. /\ aux.loc = AllKeys(dir) /\ aux.vars = walked.vars /\ aux.members = walked.members /\ aux.tags = walked.tags
      /\ aux.scripted = walked.scripted
  BY DEF BuildVanillaCacheAux, AllKeys
<1> HIDE DEF aux, walked, dir, fingerprint
<1>4. /\ file.fingerprint = fingerprint /\ file.of = o /\ file.instances = walked.instances /\ file.aux = aux
  OBVIOUS
<1> HIDE DEF file
<1>5. Copies(file, o)
  BY <1>2, <1>3, <1>4 DEF Copies, dir, walked, fingerprint
<1> QED
  BY <1>1, <1>5 DEF fingerprint

\* Every cache file that loads is one that was written.
DiskInv == \A name \in DOMAIN disk : disk[name].readable => \E o \in Versions : Copies(disk[name], o)

LEMMA LoadedCopies ==
    ASSUME DiskInv, NEW name, LoadCache(name) # <<>>
    PROVE  \E o \in Versions : Copies(LoadCache(name)[1], o)
<1>1. name \in DOMAIN disk /\ disk[name].readable
  BY DEF LoadCache
<1>2. LoadCache(name)[1] = disk[name]
  BY <1>1 DEF LoadCache
<1> QED
  BY <1>1, <1>2 DEF DiskInv

\* Two versions of one fingerprint are one version, with rules of one shape.
LEMMA FreshCopies ==
    ASSUME DiskInv, NEW of \in Versions, NEW fresh, fresh = LoadFreshVanillaCache(Live(of)), fresh # <<>>
    PROVE  \E o \in Versions : SameGame(o, of) /\ Copies(fresh[1], o)
<1> DEFINE file == LoadCache(CacheFileName(Live(of)))
<1>1. fresh = file /\ file # <<>> /\ file[1].fingerprint = Live(of)
  BY DEF LoadFreshVanillaCache
<1>2. PICK o \in Versions : Copies(file[1], o)
  BY <1>1, LoadedCopies
<1>3. Live(o) = Live(of)
  BY <1>1, <1>2 DEF Copies
<1>4. /\ Fingerprint(Installs[o.install]) = Fingerprint(Installs[of.install])
      /\ RulesetShapeHash(Rulesets[o.rules]) = RulesetShapeHash(Rulesets[of.rules])
  BY <1>3 DEF Live, CombinedFingerprint
<1>5. o.install \in DOMAIN Installs /\ of.install \in DOMAIN Installs
  BY DEF Versions
<1>6. o.install = of.install
  BY <1>4, <1>5, GameAssumption
<1>7. SameGame(o, of)
  BY <1>4, <1>6 DEF SameGame
<1> QED
  BY <1>1, <1>2, <1>7

\* Writing a file keeps it so,
LEMMA SavedKeeps ==
    ASSUME DiskInv, NEW name, NEW o \in Versions,
           Saved(name, WriteCache(Live(o), Installs[o.install], Rulesets[o.rules], o))
    PROVE  DiskInv'
<1> DEFINE file == WriteCache(Live(o), Installs[o.install], Rulesets[o.rules], o)
<1>1. Copies(file, o)
  BY WrittenCopies
<1>2. disk' = Put(disk, name, file)
  BY DEF Saved
<1> HIDE DEF file
<1>3. DOMAIN disk' = DOMAIN disk \cup {name} /\ \A k \in DOMAIN disk' : disk'[k] = IF k = name THEN file ELSE disk[k]
  BY <1>2 DEF Put
<1>4. ASSUME NEW k \in DOMAIN disk', disk'[k].readable
      PROVE  \E w \in Versions : Copies(disk'[k], w)
  <2>1. CASE k = name
    BY <1>1, <1>3, <2>1
  <2>2. CASE k # name
    BY <1>3, <1>4, <2>2 DEF DiskInv
  <2> QED
    BY <2>1, <2>2
<1> QED
  BY <1>4 DEF DiskInv

\* and so does leaving the files alone or removing some.
LEMMA DiskStays ==
    ASSUME DiskInv, DOMAIN disk' \subseteq DOMAIN disk, \A name \in DOMAIN disk' : disk'[name] = disk[name]
    PROVE  DiskInv'
  BY DEF DiskInv

-----------------------------------------------------------------------------
(* The base game: the command line                                         *)

\* What a run knows of a version of the base game.
SessionKnows(session, config, rules, held, cached, o) ==
    LET own == OwnFiles(rules)
        base == WalkOf(o)
    IN /\ KnowsInstances(session.index, own, base) /\ session.complete
       /\ session.vars = own.vars \cup base.vars /\ session.scripted = own.scripted \cup base.scripted
       /\ cached => session.members = own.members \cup base.members /\ session.tags = base.tags
       /\ KnowsFiles(session.files, held \cup GameOf(o).paths)
       /\ KnowsKeys(session.loc, config.langs, AllKeys(Workspace), AllKeys(GameOf(o)))

SessionFields == {"index", "vars", "members", "tags", "scripted", "files", "complete", "loc"}
OwnIndex(rules) == Index!Merge(Index!EmptyIndex, "own", NamesOf(OwnFiles(rules).instances))
OwnLoc(config) == LocsScoped(ReadLoc(Workspace.loc, config.langs), config.langs)
LEMMA OwnSessionIs ==
    ASSUME NEW config, NEW rules, NEW s, s = OwnSession(config, rules)
    PROVE  /\ s = [f \in SessionFields |-> s[f]]
           /\ s.index = OwnIndex(rules) /\ s.vars = OwnFiles(rules).vars /\ s.members = OwnFiles(rules).members
           /\ s.tags = {} /\ s.scripted = OwnFiles(rules).scripted /\ s.loc = OwnLoc(config)
<1> DEFINE own == OwnFiles(rules)
           index == OwnIndex(rules)
           vars == own.vars
           members == own.members
           scripted == own.scripted
           loc == OwnLoc(config)
           files == NoFiles(FALSE)
           tags == {}
           session == [index |-> index, vars |-> vars, members |-> members, tags |-> tags, scripted |-> scripted,
                       files |-> files, complete |-> FALSE, loc |-> loc]
<1>1. s = session
  BY DEF OwnSession, OwnIndex, OwnLoc
<1> HIDE DEF own, index, vars, members, scripted, loc, files, tags
<1>2. session = [f \in SessionFields |-> session[f]]
  BY DEF SessionFields
<1>3. /\ session.index = index /\ session.vars = vars /\ session.members = members
      /\ session.tags = tags /\ session.scripted = scripted /\ session.loc = loc
  OBVIOUS
<1> HIDE DEF session
<1> QED
  BY <1>1, <1>2, <1>3 DEF own, index, vars, members, scripted, loc, tags

\* A run that reads a cache knows the version the cache was written for.
LEMMA CacheServes ==
    ASSUME here \in SUBSET Paths, NEW config \in Configs, NEW rules, NEW o \in Versions, NEW file, Copies(file, o),
           NEW s, s = WithCache(OwnSession(config, rules), config, file)
    PROVE  SessionKnows(s, config, rules, here, TRUE, o)
<1> DEFINE session == OwnSession(config, rules)
           own == OwnFiles(rules)
           base == WalkOf(o)
           langs == config.langs
           index == Index!MergeBaseGame(session.index, file.instances)
           vars == session.vars \cup file.aux.vars
           members == session.members \cup file.aux.members
           tags == session.tags \cup file.aux.tags
           scripted == session.scripted \cup file.aux.scripted
           files == BuildFileIndex(here, file.aux.paths, config.exact)
           loc == KeysMerged(session.loc, TypedKeys(file.aux.loc, langs), langs)
<1>1. s = [session EXCEPT !.index = index, !.vars = vars, !.members = members, !.tags = tags, !.scripted = scripted,
                          !.files = files, !.complete = TRUE, !.loc = loc]
  BY DEF WithCache
<1>2. /\ session = [f \in SessionFields |-> session[f]]
      /\ session.index = OwnIndex(rules) /\ session.vars = own.vars /\ session.members = own.members
      /\ session.tags = {} /\ session.scripted = own.scripted /\ session.loc = OwnLoc(config)
  <2> HIDE DEF session, own
  <2> QED
    BY OwnSessionIs DEF session, own
<1> HIDE DEF session
<1>3. Info!Holding(session.index, OwnVectors(rules), Info!NoVectors)
  BY <1>2, OwnIndexed DEF OwnIndex
<1>4. Info!Holding(index, OwnVectors(rules), base.instances)
  <2>1. file.instances = IndexGameDir(Installs[o.install], Rulesets[o.rules]).instances /\ o.install \in DOMAIN Installs
    BY DEF Copies, WalkOf, Versions
  <2> DEFINE per == file.instances
             old == session.index
             v == o.install
             kept == Rulesets[o.rules]
  <2>2. v \in DOMAIN Installs /\ per = IndexGameDir(Installs[v], kept).instances
    BY <2>1
  <2>3. Info!Holding(old, OwnVectors(rules), Info!NoVectors)
    BY <1>3
  <2> HIDE DEF per, old, v, kept
  <2>4. Info!Holding(Index!MergeBaseGame(old, per), OwnVectors(rules), per)
    BY <2>2, <2>3, GameIndexed
  <2> QED
    BY <2>4 DEF per, old, Copies
<1>5. KnowsInstances(index, own, base)
  <2> HIDE DEF index, base
  <2> QED
    BY <1>4, HoldingKnows
<1>6. KnowsFiles(files, here \cup GameOf(o).paths)
  <2>1. file.aux.paths = GameOf(o).paths /\ GameOf(o).paths \in SUBSET Paths /\ config.exact \in BOOLEAN
    BY GamePaths, GameAssumption DEF Copies
  <2> QED
    BY <2>1, IndexedKnown
<1>7. KnowsKeys(loc, langs, AllKeys(Workspace), AllKeys(GameOf(o)))
  <2> DEFINE v == o.install
             mod == OwnLoc(config)
  <2>1. v \in DOMAIN Installs /\ mod = LocsScoped(ReadLoc(Workspace.loc, langs), langs)
    BY DEF Versions, OwnLoc
  <2>2. loc = KeysMerged(mod, TypedKeys(AllKeys(Installs[v]), langs), langs)
    BY <1>2 DEF Copies, GameOf
  <2> HIDE DEF v, mod, loc, langs
  <2>3. langs = config.langs
    BY DEF langs
  <2>4. KnowsKeys(loc, langs, AllKeys(Workspace), AllKeys(Installs[v]))
    BY <2>1, <2>2, <2>3, KeysKnown
  <2> QED
    BY <2>4 DEF v, GameOf
<1>8. /\ vars = own.vars \cup base.vars /\ scripted = own.scripted \cup base.scripted
      /\ members = own.members \cup base.members /\ tags = base.tags
  BY <1>2 DEF Copies
<1> HIDE DEF index, vars, members, tags, scripted, files, loc, own, base, langs
<1>9. /\ s.index = index /\ s.vars = vars /\ s.members = members /\ s.tags = tags /\ s.scripted = scripted
      /\ s.files = files /\ s.complete /\ s.loc = loc
  BY <1>1, <1>2 DEF SessionFields
<1> QED
  BY <1>5, <1>6, <1>7, <1>8, <1>9 DEF SessionKnows, own, base, langs

\* A run that walks knows the version it walked.
LEMMA WalkServes ==
    ASSUME here \in SUBSET Paths, NEW config \in Configs, NEW o \in Versions, NEW rules, rules = Rulesets[o.rules],
           NEW s, s = WithInstall(OwnSession(config, rules), config, Installs[o.install], rules)
    PROVE  SessionKnows(s, config, rules, here, FALSE, o)
<1> DEFINE session == OwnSession(config, rules)
           dir == Installs[o.install]
           own == OwnFiles(rules)
           base == IndexGameDir(dir, rules)
           langs == config.langs
           index == Index!MergeFrom(session.index, "<vanilla>", NamesOf(base.instances), TRUE)
           vars == session.vars \cup base.vars
           scripted == session.scripted \cup base.scripted
           files == BuildFileIndex(here, dir.paths, config.exact)
           loc == LocsMerged(session.loc, LocsScoped(ReadLoc(dir.loc, langs), {}), langs)
<1>1. s = [session EXCEPT !.index = index, !.vars = vars, !.scripted = scripted, !.files = files, !.complete = TRUE, !.loc = loc]
  BY DEF WithInstall
<1>2. /\ session = [f \in SessionFields |-> session[f]]
      /\ session.index = OwnIndex(rules) /\ session.vars = own.vars /\ session.members = own.members
      /\ session.tags = {} /\ session.scripted = own.scripted /\ session.loc = OwnLoc(config)
  <2> HIDE DEF session, own
  <2> QED
    BY OwnSessionIs DEF session, own
<1> HIDE DEF session
<1>3. Info!Holding(session.index, OwnVectors(rules), Info!NoVectors)
  BY <1>2, OwnIndexed DEF OwnIndex
<1>4. KnowsInstances(index, own, base)
  <2> DEFINE old == session.index
             v == o.install
  <2>1. v \in DOMAIN Installs /\ base = IndexGameDir(Installs[v], rules) /\ Info!Holding(old, OwnVectors(rules), Info!NoVectors)
    BY <1>3 DEF Versions
  <2> HIDE DEF old, v, base
  <2>2. KnowsInstances(Index!MergeFrom(old, "<vanilla>", NamesOf(base.instances), TRUE), OwnFiles(rules), base)
    BY <2>1, WalkKnows
  <2> QED
    BY <2>2 DEF old
<1>5. KnowsFiles(files, here \cup dir.paths)
  <2>1. dir.paths \in SUBSET Paths /\ config.exact \in BOOLEAN
    BY GamePaths, GameAssumption DEF GameOf
  <2> QED
    BY <2>1, IndexedKnown
<1>6. KnowsKeys(loc, langs, AllKeys(Workspace), AllKeys(dir))
  <2> DEFINE v == o.install
             mod == OwnLoc(config)
  <2>1. v \in DOMAIN Installs /\ mod = LocsScoped(ReadLoc(Workspace.loc, langs), langs)
    BY DEF Versions, OwnLoc
  <2>2. loc = LocsMerged(mod, LocsScoped(ReadLoc(Installs[v].loc, langs), {}), langs)
    BY <1>2
  <2> HIDE DEF v, mod, loc, langs
  <2>3. langs = config.langs
    BY DEF langs
  <2>4. KnowsKeys(loc, langs, AllKeys(Workspace), AllKeys(Installs[v]))
    BY <2>1, <2>2, <2>3, KeysKnown
  <2> QED
    BY <2>4 DEF v
<1>7. vars = own.vars \cup base.vars /\ scripted = own.scripted \cup base.scripted
  BY <1>2
<1>8. base = WalkOf(o) /\ dir = GameOf(o)
  BY DEF WalkOf, GameOf
<1> HIDE DEF index, vars, scripted, files, loc, own, base, langs, dir
<1>9. s.index = index /\ s.vars = vars /\ s.scripted = scripted /\ s.files = files /\ s.complete /\ s.loc = loc
  BY <1>1, <1>2 DEF SessionFields
<1>10. own = OwnFiles(rules) /\ langs = config.langs
  BY DEF own, langs
<1> QED
  BY <1>4, <1>5, <1>6, <1>7, <1>8, <1>9, <1>10 DEF SessionKnows

\* The state of a run: it walks the version it has read the fingerprint of, and
\* once it has a base game it knows it.
RunFields == {"at", "config", "session", "of", "rules", "here", "cached"}
RunServed(run) ==
    \E o \in Versions : SameGame(o, run.of) /\ SessionKnows(run.session, run.config, Rulesets[run.rules], run.here, run.cached, o)
RunInv(run) ==
    run.at # "idle" =>
        /\ run = [f \in RunFields |-> run[f]] /\ run.config \in Configs /\ run.rules \in DOMAIN Rulesets
        /\ run.at \in {"walk", "rebuild", "done"}
        /\ run.at = "walk" => /\ run.of \in Versions /\ run.of.rules = run.rules /\ run.cached = FALSE
                              /\ run.session = OwnSession(run.config, Rulesets[run.rules])
        /\ run.at # "walk" /\ run.of # NoOf => RunServed(run)
BatchInv == RunInv(batch) /\ (batch.at = "walk" => batch.of.install = install)

\* What the environment keeps true of itself.
Settled ==
    /\ install \in DOMAIN Installs /\ ruleset \in DOMAIN Rulesets /\ here \in SUBSET (Workspace.paths \cup Optional)
    /\ crossed \in BOOLEAN
LEMMA SettledPaths ==
    ASSUME Settled
    PROVE  here \in SUBSET Paths /\ Now \in Versions
  BY DEF Settled, Paths, Now, Versions

LEMMA RunIs ==
    ASSUME NEW at, NEW config, NEW session, NEW of, NEW rules, NEW held, NEW cached \in BOOLEAN, NEW run,
           run = [at |-> at, config |-> config, session |-> session, of |-> of, rules |-> rules, here |-> held, cached |-> cached]
    PROVE  /\ run = [f \in RunFields |-> run[f]]
           /\ run.at = at /\ run.config = config /\ run.session = session /\ run.of = of /\ run.rules = rules
           /\ run.here = held /\ run.cached = cached
  BY DEF RunFields

LEMMA BeginKeeps ==
    ASSUME Settled, DiskInv, NEW config \in Configs, Begin(config)
    PROVE  BatchInv'
<1> DEFINE auto == config.base /\ config.mode = "auto"
           cached == CASE config.mode = "given" -> LoadCache(Given)
                       [] auto -> LoadFreshVanillaCache(Live(Now))
                       [] OTHER -> <<>>
           rules == Rulesets[ruleset]
           own == OwnSession(config, rules)
           run(at, session, of, flag) ==
             [at |-> at, config |-> config, session |-> session, of |-> of, rules |-> ruleset, here |-> here, cached |-> flag]
<1>1. /\ here \in SUBSET Paths /\ Now \in Versions /\ ruleset \in DOMAIN Rulesets
      /\ Now.install = install /\ Now.rules = ruleset
  BY SettledPaths DEF Settled, Now
<1>2. /\ batch' = CASE cached # <<>> /\ config.mode = "given"
                          -> run("rebuild", WithCache(own, config, cached[1]), cached[1].of, cached # <<>>)
                    [] cached # <<>> /\ config.mode # "given" -> run("done", WithCache(own, config, cached[1]), Now, cached # <<>>)
                    [] cached = <<>> /\ config.base -> run("walk", own, Now, cached # <<>>)
                    [] OTHER -> run("done", own, NoOf, cached # <<>>)
      /\ install' = install
  BY DEF Begin
<1>3. CASE cached # <<>>
  <2> DEFINE file == cached[1]
             s == WithCache(own, config, file)
             of == IF config.mode = "given" THEN file.of ELSE Now
             at == IF config.mode = "given" THEN "rebuild" ELSE "done"
  <2>1. \E o \in Versions : SameGame(o, of) /\ Copies(file, o)
    <3>1. CASE config.mode = "given"
      <4>1. cached = LoadCache(Given)
        BY <3>1
      <4>2. PICK o \in Versions : Copies(file, o)
        BY <1>3, <4>1, LoadedCopies
      <4>3. of = o
        BY <3>1, <4>2 DEF Copies
      <4>4. SameGame(o, of)
        BY <4>3 DEF SameGame
      <4> QED
        BY <4>2, <4>4
    <3>2. CASE config.mode # "given"
      <4>1. cached = LoadFreshVanillaCache(Live(Now))
        BY <1>3, <3>2
      <4> HIDE DEF cached
      <4>2. \E o \in Versions : SameGame(o, Now) /\ Copies(file, o)
        BY <1>1, <1>3, <4>1, FreshCopies
      <4> QED
        BY <3>2, <4>2
    <3> QED
      BY <3>1, <3>2
  <2>2. PICK o \in Versions : SameGame(o, of) /\ Copies(file, o)
    BY <2>1
  <2>3. batch' = run(at, s, of, cached # <<>>)
    BY <1>2, <1>3
  <2>4. batch' = run(at, s, of, TRUE)
    BY <1>3, <2>3
  <2> HIDE DEF cached, own
  <2>5. SessionKnows(s, config, rules, here, TRUE, o)
    <3> HIDE DEF s, rules, file
    <3> QED
      BY <1>1, <2>2, CacheServes DEF s, own
  <2>6. at \in {"rebuild", "done"}
    OBVIOUS
  <2> HIDE DEF file, s, of, at
  <2>7. /\ batch' = [f \in RunFields |-> batch'[f]]
        /\ batch'.at = at /\ batch'.config = config /\ batch'.session = s /\ batch'.of = of /\ batch'.rules = ruleset
        /\ batch'.here = here /\ batch'.cached = TRUE
    <3>1. PICK flag \in BOOLEAN : flag = TRUE
      OBVIOUS
    <3>2. batch' = run(at, s, of, flag)
      BY <2>4, <3>1
    <3>3. /\ batch' = [f \in RunFields |-> batch'[f]]
          /\ batch'.at = at /\ batch'.config = config /\ batch'.session = s /\ batch'.of = of /\ batch'.rules = ruleset
          /\ batch'.here = here /\ batch'.cached = flag
      BY <3>2, RunIs
    <3> QED
      BY <3>1, <3>3
  <2>8. RunServed(batch')
    BY <2>2, <2>5, <2>7 DEF RunServed, rules
  <2>9. RunInv(batch') /\ batch'.at # "walk"
    BY <1>1, <2>6, <2>7, <2>8 DEF RunInv
  <2> QED
    BY <2>9 DEF BatchInv
<1>4. CASE cached = <<>>
  <2> DEFINE at == IF config.base THEN "walk" ELSE "done"
             of == IF config.base THEN Now ELSE NoOf
  <2>1. batch' = run(at, own, of, cached # <<>>)
    BY <1>2, <1>4
  <2>2. batch' = run(at, own, of, FALSE)
    BY <1>4, <2>1
  <2>3. /\ at = "walk" => of = Now
        /\ at # "walk" => of = NoOf
        /\ at \in {"walk", "done"}
    OBVIOUS
  <2> HIDE DEF cached, own, at, of
  <2>4. /\ batch' = [f \in RunFields |-> batch'[f]]
        /\ batch'.at = at /\ batch'.config = config /\ batch'.session = own /\ batch'.of = of /\ batch'.rules = ruleset
        /\ batch'.here = here /\ batch'.cached = FALSE
    <3>1. PICK flag \in BOOLEAN : flag = FALSE
      OBVIOUS
    <3>2. batch' = run(at, own, of, flag)
      BY <2>2, <3>1
    <3> QED
      BY <3>1, <3>2, RunIs
  <2>5. RunInv(batch')
    BY <1>1, <2>3, <2>4 DEF RunInv, own, rules
  <2>6. batch'.at = "walk" => batch'.of.install = install'
    BY <1>1, <1>2, <2>3, <2>4
  <2> QED
    BY <2>5, <2>6 DEF BatchInv
<1> QED
  BY <1>3, <1>4

LEMMA WalkKeeps ==
    ASSUME Settled, DiskInv, BatchInv, WalkInstall
    PROVE  DiskInv' /\ BatchInv'
<1> DEFINE of == batch.of
           rules == Rulesets[batch.rules]
           config == batch.config
           s == WithInstall(batch.session, config, Installs[install], rules)
<1>1. /\ batch = [f \in RunFields |-> batch[f]] /\ config \in Configs /\ batch.rules \in DOMAIN Rulesets
      /\ of \in Versions /\ of.rules = batch.rules /\ of.install = install /\ batch.cached = FALSE
      /\ batch.session = OwnSession(config, rules) /\ batch.at = "walk"
  BY DEF BatchInv, RunInv, WalkInstall
<1>2. /\ batch' = [batch EXCEPT !.at = "done", !.session = s, !.here = here]
      /\ \/ Saved(CacheFileName(Live(of)), WriteCache(Live(of), Installs[install], rules, of))
         \/ disk' = disk
  BY DEF WalkInstall
<1>3. SessionKnows(s, config, rules, here, FALSE, of)
  <2>1. rules = Rulesets[of.rules] /\ s = WithInstall(OwnSession(config, rules), config, Installs[of.install], rules)
    BY <1>1
  <2> HIDE DEF rules, s, of, config
  <2> QED
    BY <1>1, <2>1, SettledPaths, WalkServes
<1>4. DiskInv'
  <2>1. CASE disk' = disk
    BY <2>1 DEF DiskInv
  <2>2. CASE Saved(CacheFileName(Live(of)), WriteCache(Live(of), Installs[install], rules, of))
    <3> DEFINE name == CacheFileName(Live(of))
    <3>1. Saved(name, WriteCache(Live(of), Installs[of.install], Rulesets[of.rules], of))
      BY <1>1, <2>2
    <3> HIDE DEF name, of
    <3> QED
      BY <1>1, <3>1, SavedKeeps
  <2> QED
    BY <1>2, <2>1, <2>2
<1> HIDE DEF s
<1>5. /\ batch' = [f \in RunFields |-> batch'[f]]
      /\ batch'.at = "done" /\ batch'.session = s /\ batch'.here = here
      /\ batch'.config = config /\ batch'.of = of /\ batch'.rules = batch.rules /\ batch'.cached = FALSE
  BY <1>1, <1>2 DEF RunFields
<1>6. SameGame(of, of)
  BY <1>1 DEF SameGame
<1> HIDE DEF of, config
<1>7. RunServed(batch')
  BY <1>1, <1>3, <1>5, <1>6 DEF RunServed
<1>8. RunInv(batch') /\ batch'.at # "walk"
  BY <1>1, <1>5, <1>7 DEF RunInv
<1> QED
  BY <1>4, <1>8 DEF BatchInv

LEMMA RebuildKeeps ==
    ASSUME Settled, DiskInv, BatchInv, RebuildGiven
    PROVE  DiskInv' /\ BatchInv'
<1> DEFINE live == [install |-> install, rules |-> batch.rules]
<1>1. /\ batch = [f \in RunFields |-> batch[f]] /\ batch.at = "rebuild" /\ batch.rules \in DOMAIN Rulesets
      /\ batch.of # NoOf => RunServed(batch)
  BY DEF BatchInv, RunInv, RebuildGiven
<1>2. batch' = [batch EXCEPT !.at = "done"]
  BY DEF RebuildGiven
<1>3. live \in Versions /\ live.install = install /\ live.rules = batch.rules
  BY <1>1 DEF Versions, Settled
<1>4. DiskInv'
  <2>1. CASE disk' = disk
    BY <2>1 DEF DiskInv
  <2>2. CASE Saved(Given, WriteCache(Live(live), Installs[install], Rulesets[batch.rules], live))
    <3>1. Saved(Given, WriteCache(Live(live), Installs[live.install], Rulesets[live.rules], live))
      BY <1>3, <2>2
    <3> HIDE DEF live
    <3> QED
      BY <1>3, <3>1, SavedKeeps
  <2> QED
    BY <2>1, <2>2 DEF RebuildGiven
<1> HIDE DEF live
<1>5. /\ batch' = [f \in RunFields |-> batch'[f]] /\ batch'.at = "done"
      /\ \A f \in RunFields \ {"at"} : batch'[f] = batch[f]
  BY <1>1, <1>2 DEF RunFields
<1>6. batch'.session = batch.session /\ batch'.here = batch.here /\ batch'.config = batch.config /\ batch'.of = batch.of
      /\ batch'.rules = batch.rules /\ batch'.cached = batch.cached
  BY <1>5 DEF RunFields
<1>7. batch'.of # NoOf => RunServed(batch')
  BY <1>1, <1>6 DEF RunServed
<1>8. RunInv(batch') /\ batch'.at # "walk"
  BY <1>1, <1>5, <1>6, <1>7 DEF RunInv, BatchInv
<1> QED
  BY <1>4, <1>8 DEF BatchInv

LEMMA CacheKeeps ==
    ASSUME Settled, DiskInv, CacheVanilla
    PROVE  DiskInv'
<1> DEFINE o == Now
<1>1. o \in Versions /\ o.install = install /\ o.rules = ruleset
  BY SettledPaths DEF Now
<1>2. Saved(Given, WriteCache(Live(o), Installs[o.install], Rulesets[o.rules], o))
  BY <1>1 DEF CacheVanilla
<1> HIDE DEF o
<1> QED
  BY <1>1, <1>2, SavedKeeps

-----------------------------------------------------------------------------
(* The base game: the editor                                               *)

\* The index holds the mod's own instances and those of the base game b, whose
\* files the editor has noted.
IndexHeld(held, b) ==
    held.mergedUris = Info!UrisOf(b) /\ Info!Holding(held.index, OwnVectors(Rulesets[held.ownRules]), b)
\* What is staged or merged is what a cache file says of a version.
StagedOf(held, o) ==
    /\ held.staged # <<>> => held.staged = <<WalkOf(o).instances>>
    /\ held.paths = <<GameOf(o).paths>> /\ held.varNames = <<WalkOf(o).vars>> /\ held.scriptedNames = <<WalkOf(o).scripted>>
    /\ DOMAIN AllKeys(GameOf(o)) # {} => held.locKeys = <<AllKeys(GameOf(o))>>
    /\ WalkOf(o).members \cup WalkOf(o).tags # {} => held.members = WalkOf(o).members /\ held.tags = WalkOf(o).tags
\* Files of the mod that came and went may have taken one of the game with them.
FilesOf(held, o) ==
    /\ Folded(held.here \cup (GameOf(o).paths \ Optional)) \subseteq held.files.files
    /\ held.files.files \subseteq Folded(held.here \cup GameOf(o).paths)
MergedOf(held, o, b) ==
    /\ held.vars = WalkOf(o).vars /\ held.scripted = WalkOf(o).scripted /\ held.complete = TRUE
    /\ b = WalkOf(o).instances /\ FilesOf(held, o)

EditorFields == {"at", "staged", "locKeys", "paths", "varNames", "scriptedNames", "merged", "mergedUris", "index", "vars",
                 "scripted", "members", "tags", "files", "complete", "of", "ownRules", "here"}
EditorShape(held) ==
    /\ held = [f \in EditorFields |-> held[f]] /\ IsFileIndex(held.files) /\ held.files.exact = FALSE
    /\ held.ownRules \in DOMAIN Rulesets /\ held.at \in {"idle", "walk"} /\ held.merged \in BOOLEAN
    /\ held.here \in SUBSET Paths
    /\ held.at = "walk" => held.of \in Versions /\ held.staged = <<>> /\ held.merged = FALSE
    /\ held.staged # <<>> => held.merged = FALSE
    /\ held.staged = <<>> /\ held.merged = FALSE => held.paths = <<>>
ServedBy(held, o, b) == SameGame(o, held.of) /\ StagedOf(held, o) /\ (held.merged = TRUE => MergedOf(held, o, b))
EditorServed(held) ==
    \E b : /\ IndexHeld(held, b)
           /\ held.staged # <<>> \/ held.merged = TRUE => \E o \in Versions : ServedBy(held, o, b)
EditorInv ==
    /\ EditorShape(editor) /\ EditorServed(editor)
    /\ editor.at = "walk" => editor.of.install = install
    /\ editor.files.files # {} => editor.here = here

LEMMA SameUris ==
    ASSUME NEW b
    PROVE  Info!UrisOf(b) = UNION {{b[key][i].uri : i \in DOMAIN b[key]} : key \in Types}
<1> DEFINE L(key) == {e.uri : e \in Info!ToSet(b[key])}
           R(key) == {b[key][i].uri : i \in DOMAIN b[key]}
<1>1. ASSUME NEW key PROVE L(key) = R(key)
  <2> DEFINE v == b[key]
             all == Info!ToSet(v)
             uris == {v[i].uri : i \in DOMAIN v}
  <2>1. all = {v[i] : i \in DOMAIN v}
    BY DEF Info!ToSet
  <2> HIDE DEF v, all
  <2>2. \A e \in all : e.uri \in uris
    BY <2>1
  <2>3. \A u \in uris : \E e \in all : e.uri = u
    BY <2>1
  <2>4. {e.uri : e \in all} = uris
    <3> HIDE DEF uris
    <3> QED
      BY <2>2, <2>3
  <2> QED
    BY <2>4 DEF v, all
<1>2. Info!UrisOf(b) = UNION {L(key) : key \in Types}
  BY DEF Info!UrisOf
<1> HIDE DEF L, R
<1>3. UNION {L(key) : key \in Types} = UNION {R(key) : key \in Types}
  BY <1>1
<1> QED
  BY <1>2, <1>3 DEF R

LEMMA NewEditorIs ==
    ASSUME Settled, NEW held, held = NewEditor
    PROVE  /\ EditorShape(held) /\ EditorServed(held) /\ held.at = "idle" /\ held.staged = <<>> /\ held.merged = FALSE
           /\ held.files.files = {}
<1> DEFINE index == OwnIndex(Rulesets[ruleset])
           files == NoFiles(FALSE)
           of == NoOf
           none == <<>>
           nothing == {}
           off == FALSE
           rules == ruleset
           new == [at |-> "idle", staged |-> none, locKeys |-> none, paths |-> none, varNames |-> none, scriptedNames |-> none,
                   merged |-> off, mergedUris |-> nothing, index |-> index, vars |-> nothing, scripted |-> nothing,
                   members |-> nothing, tags |-> nothing, files |-> files, complete |-> off, of |-> of, ownRules |-> rules,
                   here |-> nothing]
<1>1. held = new
  BY DEF NewEditor, OwnIndex
<1>2. IsFileIndex(files) /\ files.exact = FALSE /\ files.files = {}
  <2>1. PICK exact \in BOOLEAN : exact = FALSE
    OBVIOUS
  <2>2. files = NoFiles(exact)
    BY <2>1
  <2> HIDE DEF files
  <2> QED
    BY <2>1, <2>2, NoFilesIndex
<1> HIDE DEF index, files, of, none, nothing, off, rules
<1>3. new = [f \in EditorFields |-> new[f]]
  BY DEF EditorFields
<1>4. /\ new.at = "idle" /\ new.staged = none /\ new.merged = off /\ new.files = files /\ new.ownRules = rules
      /\ new.here = nothing /\ new.paths = none /\ new.mergedUris = nothing /\ new.index = index
  OBVIOUS
<1> HIDE DEF new
<1>5. rules \in DOMAIN Rulesets
  BY DEF Settled, rules
<1>6. EditorShape(held)
  BY <1>1, <1>2, <1>3, <1>4, <1>5 DEF EditorShape, off, none, nothing
<1>7. Info!Holding(index, OwnVectors(Rulesets[rules]), Info!NoVectors)
  BY OwnIndexed DEF index, OwnIndex, rules
<1>8. nothing = Info!UrisOf(Info!NoVectors)
  BY TypesAssumed, InfoAssumed, Info!NothingAmounts DEF nothing
<1>9. IndexHeld(held, Info!NoVectors)
  BY <1>1, <1>4, <1>7, <1>8 DEF IndexHeld
<1>10. held.staged = <<>> /\ held.merged = FALSE
  BY <1>1, <1>4 DEF none, off
<1>11. EditorServed(held)
  BY <1>9, <1>10 DEF EditorServed
<1> QED
  BY <1>1, <1>2, <1>4, <1>6, <1>10, <1>11

\* What a step leaves: a sound editor that has the files it had.
Sound(held) == EditorShape(held) /\ EditorServed(held)
Unmerged(held) == held.merged = FALSE
SoundAs(new, held) == Sound(new) /\ new.files = held.files /\ new.here = held.here

\* Staging a cache file of a version,
LEMMA StageKeeps ==
    ASSUME NEW held, Sound(held), Unmerged(held),
           NEW file, NEW o \in Versions, NEW of, Copies(file, o), SameGame(o, of), NEW new, new = Stage(held, file, of)
    PROVE  SoundAs(new, held) /\ new.at = "idle"
<1> USE DEF Sound, SoundAs, Unmerged
<1> DEFINE dynamic == file.aux.members \cup file.aux.tags # {}
           staged == <<file.instances>>
           paths == <<file.aux.paths>>
           locKeys == IF DOMAIN file.aux.loc = {} THEN held.locKeys ELSE <<file.aux.loc>>
           varNames == <<file.aux.vars>>
           scriptedNames == <<file.aux.scripted>>
           members == IF dynamic THEN file.aux.members ELSE held.members
           tags == IF dynamic THEN file.aux.tags ELSE held.tags
<1>1. new = [held EXCEPT !.at = "idle", !.staged = staged, !.paths = paths, !.of = of, !.locKeys = locKeys,
                         !.varNames = varNames, !.scriptedNames = scriptedNames, !.members = members, !.tags = tags]
  BY DEF Stage
<1>2. /\ staged = <<WalkOf(o).instances>> /\ staged # <<>>
      /\ paths = <<GameOf(o).paths>> /\ varNames = <<WalkOf(o).vars>> /\ scriptedNames = <<WalkOf(o).scripted>>
  BY DEF Copies
<1>3. DOMAIN AllKeys(GameOf(o)) # {} => locKeys = <<AllKeys(GameOf(o))>>
  BY DEF Copies
<1>4. WalkOf(o).members \cup WalkOf(o).tags # {} => members = WalkOf(o).members /\ tags = WalkOf(o).tags
  BY DEF Copies
<1>5. held = [f \in EditorFields |-> held[f]]
  BY DEF EditorShape
<1> HIDE DEF staged, paths, locKeys, varNames, scriptedNames, members, tags
<1>6. new = [f \in EditorFields |-> new[f]]
  BY <1>1, <1>5 DEF EditorFields
<1>7. /\ new.at = "idle" /\ new.staged = staged /\ new.paths = paths /\ new.of = of /\ new.locKeys = locKeys
      /\ new.varNames = varNames /\ new.scriptedNames = scriptedNames /\ new.members = members /\ new.tags = tags
  BY <1>1, <1>5 DEF EditorFields
<1>8. /\ new.merged = held.merged /\ new.mergedUris = held.mergedUris /\ new.index = held.index /\ new.files = held.files
      /\ new.ownRules = held.ownRules /\ new.here = held.here
  BY <1>1, <1>5 DEF EditorFields
<1>9. EditorShape(new)
  BY <1>2, <1>6, <1>7, <1>8 DEF EditorShape
<1>10. PICK b : IndexHeld(held, b)
  BY DEF EditorServed
<1>11. IndexHeld(new, b)
  BY <1>8, <1>10 DEF IndexHeld
<1>12. StagedOf(new, o)
  BY <1>2, <1>3, <1>4, <1>7 DEF StagedOf
<1>13. ServedBy(new, o, b)
  BY <1>7, <1>8, <1>12 DEF ServedBy
<1>14. EditorServed(new)
  BY <1>11, <1>13 DEF EditorServed
<1> QED
  BY <1>7, <1>8, <1>9, <1>14

\* dropping what is staged and merged,
LEMMA ClearKeeps ==
    ASSUME NEW held, Sound(held), held.at = "idle", NEW new, new = Clear(held)
    PROVE  SoundAs(new, held) /\ new.at = "idle" /\ new.staged = <<>> /\ Unmerged(new)
<1> USE DEF Sound, SoundAs, Unmerged
<1> DEFINE none == <<>>
           nothing == {}
           off == FALSE
<1>1. new = [held EXCEPT !.staged = none, !.locKeys = none, !.paths = none, !.varNames = none, !.scriptedNames = none,
                         !.merged = off, !.vars = nothing, !.scripted = nothing]
  BY DEF Clear
<1>2. held = [f \in EditorFields |-> held[f]]
  BY DEF EditorShape
<1> HIDE DEF none, nothing, off
<1>3. new = [f \in EditorFields |-> new[f]]
  BY <1>1, <1>2 DEF EditorFields
<1>4. /\ new.staged = none /\ new.paths = none /\ new.merged = off
  BY <1>1, <1>2 DEF EditorFields
<1>5. /\ new.at = held.at /\ new.mergedUris = held.mergedUris /\ new.index = held.index /\ new.files = held.files
      /\ new.ownRules = held.ownRules /\ new.here = held.here
  BY <1>1, <1>2 DEF EditorFields
<1>6. EditorShape(new)
  BY <1>3, <1>4, <1>5 DEF EditorShape, none, off
<1>7. PICK b : IndexHeld(held, b)
  BY DEF EditorServed
<1>8. IndexHeld(new, b)
  BY <1>5, <1>7 DEF IndexHeld
<1>9. new.staged = <<>> /\ new.merged = FALSE
  BY <1>4 DEF none, off
<1>10. EditorServed(new)
  BY <1>8, <1>9 DEF EditorServed
<1> QED
  BY <1>5, <1>6, <1>9, <1>10

\* beginning to walk a version,
Walking(held, of) == [held EXCEPT !.at = "walk", !.of = of]
LEMMA WalkBegins ==
    ASSUME NEW held, Sound(held), held.staged = <<>>, Unmerged(held), NEW of \in Versions, NEW new, new = Walking(held, of)
    PROVE  SoundAs(new, held) /\ new.of = of
<1> USE DEF Sound, SoundAs, Unmerged, Walking
<1>1. held = [f \in EditorFields |-> held[f]]
  BY DEF EditorShape
<1>2. new = [f \in EditorFields |-> new[f]]
  BY <1>1 DEF EditorFields
<1>3. new.at = "walk" /\ new.of = of
  BY <1>1 DEF EditorFields
<1>4. /\ new.staged = held.staged /\ new.merged = held.merged /\ new.paths = held.paths
      /\ new.mergedUris = held.mergedUris /\ new.index = held.index /\ new.files = held.files
      /\ new.ownRules = held.ownRules /\ new.here = held.here
  BY <1>1 DEF EditorFields
<1>5. EditorShape(new)
  BY <1>2, <1>3, <1>4 DEF EditorShape
<1>6. PICK b : IndexHeld(held, b)
  BY DEF EditorServed
<1>7. IndexHeld(new, b)
  BY <1>4, <1>6 DEF IndexHeld
<1>8. EditorServed(new)
  BY <1>4, <1>7 DEF EditorServed
<1> QED
  BY <1>3, <1>4, <1>5, <1>8

\* and a walk that came to nothing.
LEMMA PanicKeeps ==
    ASSUME NEW held, Sound(held), held.at = "walk", NEW new, new = [held EXCEPT !.at = "idle"]
    PROVE  SoundAs(new, held) /\ new.at = "idle"
<1> USE DEF Sound, SoundAs
<1>1. held = [f \in EditorFields |-> held[f]] /\ held.staged = <<>> /\ held.merged = FALSE
  BY DEF EditorShape
<1>2. new = [f \in EditorFields |-> new[f]] /\ new.at = "idle"
  BY <1>1 DEF EditorFields
<1>3. /\ new.staged = held.staged /\ new.merged = held.merged /\ new.paths = held.paths
      /\ new.mergedUris = held.mergedUris /\ new.index = held.index /\ new.files = held.files
      /\ new.ownRules = held.ownRules /\ new.here = held.here
  BY <1>1 DEF EditorFields
<1>4. EditorShape(new)
  BY <1>2, <1>3 DEF EditorShape
<1>5. PICK b : IndexHeld(held, b)
  BY DEF EditorServed
<1>6. IndexHeld(new, b)
  BY <1>3, <1>5 DEF IndexHeld
<1>7. EditorServed(new)
  BY <1>1, <1>3, <1>6 DEF EditorServed
<1> QED
  BY <1>2, <1>3, <1>4, <1>7

\* A scan merges what is staged, and then takes over the rest.
Between(held) ==
    /\ held = [f \in EditorFields |-> held[f]] /\ IsFileIndex(held.files) /\ held.files.exact = FALSE
    /\ held.ownRules \in DOMAIN Rulesets /\ held.at = "idle" /\ held.merged \in BOOLEAN /\ held.here \in SUBSET Paths
    /\ held.staged = <<>> /\ (held.merged = FALSE => held.paths = <<>>)
    /\ \E b : /\ IndexHeld(held, b)
              /\ held.merged = TRUE =>
                   \E o \in Versions : SameGame(o, held.of) /\ StagedOf(held, o) /\ b = WalkOf(o).instances /\ held.complete = TRUE

LEMMA InstancesMerged ==
    ASSUME NEW held, EditorShape(held), EditorServed(held), held.at = "idle", held.staged # <<>>,
           NEW new, new = MergeInstances(held)
    PROVE  Between(new) /\ new.files = held.files /\ new.here = held.here
<1>1. PICK b : IndexHeld(held, b) /\ \E o \in Versions : ServedBy(held, o, b)
  BY DEF EditorServed
<1>2. PICK o \in Versions : ServedBy(held, o, b)
  BY <1>1
<1> DEFINE per == WalkOf(o).instances
           uris == UNION {{held.staged[1][key][i].uri : i \in DOMAIN held.staged[1][key]} : key \in Types}
           index == Index!MergeBaseGame(Index!RemoveFiles(held.index, held.mergedUris), held.staged[1])
           none == <<>>
           on == TRUE
<1>3. new = [held EXCEPT !.index = index, !.mergedUris = uris, !.staged = none, !.merged = on, !.complete = on]
  BY DEF MergeInstances
<1>4. held.staged[1] = per
  BY <1>2 DEF ServedBy, StagedOf
<1>5. uris = Info!UrisOf(per)
  <2>1. uris = UNION {{per[key][i].uri : i \in DOMAIN per[key]} : key \in Types}
    BY <1>4
  <2> HIDE DEF per, uris
  <2> QED
    BY <2>1, SameUris
<1>6. Info!Holding(index, OwnVectors(Rulesets[held.ownRules]), per)
  <2> DEFINE old == held.index
             own == OwnVectors(Rulesets[held.ownRules])
             v == o.install
             kept == Rulesets[o.rules]
  <2>1. v \in DOMAIN Installs /\ per = IndexGameDir(Installs[v], kept).instances
    BY DEF WalkOf, Versions
  <2>2. index = Index!MergeBaseGame(Index!RemoveFiles(old, Info!UrisOf(b)), per)
    BY <1>1, <1>4 DEF IndexHeld
  <2>3. Info!Holding(old, own, b)
    BY <1>1 DEF IndexHeld
  <2> HIDE DEF per, old, own, v, kept, index
  <2>4. Info!Holding(Index!MergeBaseGame(Index!RemoveFiles(old, Info!UrisOf(b)), per), own, per)
    BY <2>1, <2>3, GameIndexed
  <2> QED
    BY <2>2, <2>4 DEF own
<1>7. held = [f \in EditorFields |-> held[f]]
  BY DEF EditorShape
<1> HIDE DEF per, uris, index, none, on
<1>8. new = [f \in EditorFields |-> new[f]]
  BY <1>3, <1>7 DEF EditorFields
<1>9. new.index = index /\ new.mergedUris = uris /\ new.staged = none /\ new.merged = on /\ new.complete = on
  BY <1>3, <1>7 DEF EditorFields
<1>10. /\ new.at = held.at /\ new.paths = held.paths /\ new.varNames = held.varNames /\ new.scriptedNames = held.scriptedNames
       /\ new.locKeys = held.locKeys /\ new.members = held.members /\ new.tags = held.tags /\ new.files = held.files
       /\ new.of = held.of /\ new.ownRules = held.ownRules /\ new.here = held.here
  BY <1>3, <1>7 DEF EditorFields
<1>11. IndexHeld(new, per)
  BY <1>5, <1>6, <1>9, <1>10 DEF IndexHeld
<1>12. new.staged = <<>> /\ new.merged = TRUE /\ new.complete = TRUE
  BY <1>9 DEF none, on
<1>13. SameGame(o, new.of) /\ StagedOf(new, o)
  BY <1>2, <1>10, <1>12 DEF ServedBy, StagedOf
<1>14. \E c : /\ IndexHeld(new, c)
              /\ new.merged = TRUE =>
                   \E w \in Versions : SameGame(w, new.of) /\ StagedOf(new, w) /\ c = WalkOf(w).instances /\ new.complete = TRUE
  BY <1>11, <1>12, <1>13 DEF per
<1>15. Between(new)
  BY <1>8, <1>10, <1>12, <1>14 DEF Between, EditorShape
<1> QED
  BY <1>10, <1>15

LEMMA NothingStaged ==
    ASSUME NEW held, EditorShape(held), EditorServed(held), held.at = "idle", held.staged = <<>>
    PROVE  Between(held)
<1>1. PICK b : IndexHeld(held, b) /\ (held.merged = TRUE => \E o \in Versions : ServedBy(held, o, b))
  BY DEF EditorServed
<1>2. held.merged = TRUE =>
        \E o \in Versions : SameGame(o, held.of) /\ StagedOf(held, o) /\ b = WalkOf(o).instances /\ held.complete = TRUE
  BY <1>1 DEF ServedBy, MergedOf
<1> QED
  BY <1>1, <1>2 DEF Between, EditorShape

LEMMA MergeKeeps ==
    ASSUME Settled, NEW held, EditorShape(held), EditorServed(held), held.at = "idle",
           held.files.files # {} => held.here = here, NEW new, new = MergePending(held)
    PROVE  EditorShape(new) /\ EditorServed(new) /\ new.at = "idle" /\ (new.files.files # {} => new.here = here)
<1> DEFINE mid == IF held.staged = <<>> THEN held ELSE MergeInstances(held)
           vars == IF held.varNames = <<>> THEN mid.vars ELSE held.varNames[1]
           scripted == IF held.scriptedNames = <<>> THEN mid.scripted ELSE held.scriptedNames[1]
           files == IF held.paths = <<>> THEN mid.files ELSE BuildFileIndex(here, held.paths[1], FALSE)
           at == IF held.paths = <<>> THEN mid.here ELSE here
<1>1. new = [mid EXCEPT !.vars = vars, !.scripted = scripted, !.files = files, !.here = at]
  BY DEF MergePending
<1>2. Between(mid) /\ mid.files = held.files /\ mid.here = held.here
  BY InstancesMerged, NothingStaged
<1>3. mid.paths = held.paths /\ mid.varNames = held.varNames /\ mid.scriptedNames = held.scriptedNames
  <2>1. CASE held.staged = <<>>
    BY <2>1
  <2>2. CASE held.staged # <<>>
    <3>1. held = [f \in EditorFields |-> held[f]]
      BY DEF EditorShape
    <3> QED
      BY <2>2, <3>1 DEF MergeInstances, EditorFields
  <2> QED
    BY <2>1, <2>2
<1>4. mid = [f \in EditorFields |-> mid[f]]
  BY <1>2 DEF Between
<1> HIDE DEF mid
<1>5. PICK b : /\ IndexHeld(mid, b)
               /\ mid.merged = TRUE =>
                    \E o \in Versions : SameGame(o, mid.of) /\ StagedOf(mid, o) /\ b = WalkOf(o).instances /\ mid.complete = TRUE
  BY <1>2 DEF Between
<1>6. IsFileIndex(files) /\ files.exact = FALSE /\ at \in SUBSET Paths /\ (files.files # {} => at = here)
  <2>1. CASE held.paths = <<>>
    BY <1>2, <2>1 DEF Between
  <2>2. CASE held.paths # <<>>
    <3>1. mid.merged = TRUE
      BY <1>2, <1>3, <2>2 DEF Between
    <3>2. PICK o \in Versions : StagedOf(mid, o)
      BY <1>5, <3>1
    <3>3. held.paths[1] = GameOf(o).paths /\ GameOf(o).paths \in SUBSET Paths /\ here \in SUBSET Paths
      BY <1>3, <3>2, GamePaths, SettledPaths DEF StagedOf
    <3>4. PICK exact \in BOOLEAN : exact = FALSE
      OBVIOUS
    <3>5. files = BuildFileIndex(here, GameOf(o).paths, exact) /\ at = here
      BY <2>2, <3>3, <3>4
    <3> DEFINE game == GameOf(o).paths
    <3>6. game \in SUBSET Paths /\ here \in SUBSET Paths /\ files = BuildFileIndex(here, game, exact)
      BY <3>3, <3>5
    <3> HIDE DEF files, at, game
    <3>7. HasPaths(files, here \cup game, exact)
      BY <3>6, FilesKnown
    <3>8. IsFileIndex(files) /\ files.exact = exact
      BY <3>7 DEF HasPaths
    <3> QED
      BY <3>3, <3>4, <3>5, <3>8
  <2> QED
    BY <2>1, <2>2
<1>7. ASSUME mid.merged = TRUE, NEW o \in Versions, StagedOf(mid, o)
      PROVE  vars = WalkOf(o).vars /\ scripted = WalkOf(o).scripted /\ files.files = Folded(at \cup GameOf(o).paths)
  <2>1. /\ held.paths = <<GameOf(o).paths>> /\ held.varNames = <<WalkOf(o).vars>>
        /\ held.scriptedNames = <<WalkOf(o).scripted>>
    BY <1>3, <1>7 DEF StagedOf
  <2>2. vars = WalkOf(o).vars /\ scripted = WalkOf(o).scripted /\ at = here
    BY <2>1
  <2>3. PICK exact \in BOOLEAN : exact = FALSE
    OBVIOUS
  <2> DEFINE game == GameOf(o).paths
  <2>4. files = BuildFileIndex(here, game, FALSE)
    BY <2>1
  <2>5. game \in SUBSET Paths /\ here \in SUBSET Paths
    BY GamePaths, SettledPaths
  <2> HIDE DEF files, at, vars, scripted, game
  <2>6. files = BuildFileIndex(here, game, exact)
    BY <2>3, <2>4
  <2>7. HasPaths(files, here \cup game, exact)
    BY <2>5, <2>6, FilesKnown
  <2>8. files.files = Folded(here \cup game)
    BY <2>7 DEF HasPaths
  <2> QED
    BY <2>2, <2>8 DEF game
<1> HIDE DEF vars, scripted, files, at
<1>8. new = [f \in EditorFields |-> new[f]]
  BY <1>1, <1>4 DEF EditorFields
<1>9. new.vars = vars /\ new.scripted = scripted /\ new.files = files /\ new.here = at
  BY <1>1, <1>4 DEF EditorFields
<1>10. /\ new.at = mid.at /\ new.staged = mid.staged /\ new.paths = mid.paths /\ new.varNames = mid.varNames
       /\ new.scriptedNames = mid.scriptedNames /\ new.locKeys = mid.locKeys /\ new.members = mid.members /\ new.tags = mid.tags
       /\ new.merged = mid.merged /\ new.mergedUris = mid.mergedUris /\ new.index = mid.index /\ new.complete = mid.complete
       /\ new.of = mid.of /\ new.ownRules = mid.ownRules
  BY <1>1, <1>4 DEF EditorFields
<1>11. EditorShape(new)
  BY <1>2, <1>6, <1>8, <1>9, <1>10 DEF EditorShape, Between
<1>12. IndexHeld(new, b)
  BY <1>5, <1>10 DEF IndexHeld
<1>13. ASSUME new.merged = TRUE
       PROVE  \E o \in Versions : ServedBy(new, o, b)
  <2>1. PICK o \in Versions : SameGame(o, mid.of) /\ StagedOf(mid, o) /\ b = WalkOf(o).instances /\ mid.complete = TRUE
    BY <1>5, <1>10, <1>13
  <2>2. vars = WalkOf(o).vars /\ scripted = WalkOf(o).scripted /\ files.files = Folded(at \cup GameOf(o).paths)
    BY <1>7, <1>10, <1>13, <2>1
  <2>3. StagedOf(new, o)
    BY <1>10, <2>1 DEF StagedOf
  <2>4. FilesOf(new, o)
    <3>1. Folded(at \cup (GameOf(o).paths \ Optional)) \subseteq Folded(at \cup GameOf(o).paths)
      BY DEF Folded
    <3> QED
      BY <1>9, <2>2, <3>1 DEF FilesOf
  <2>5. MergedOf(new, o, b)
    BY <1>9, <1>10, <2>1, <2>2, <2>4 DEF MergedOf
  <2> QED
    BY <1>10, <2>1, <2>3, <2>5 DEF ServedBy
<1>14. new.staged = <<>> /\ new.at = "idle"
  BY <1>2, <1>10 DEF Between
<1>15. EditorServed(new)
  BY <1>12, <1>13, <1>14 DEF EditorServed
<1> QED
  BY <1>6, <1>9, <1>11, <1>14, <1>15

\* A file of the mod that comes or goes.
LEMMA PathComes ==
    ASSUME NEW idx, IsFileIndex(idx), idx.exact = FALSE, NEW p
    PROVE  /\ IsFileIndex(InsertPath(idx, p)) /\ InsertPath(idx, p).exact = FALSE
           /\ InsertPath(idx, p).files = idx.files \cup {Fold(p)}
           /\ IsFileIndex(RemovePath(idx, p)) /\ RemovePath(idx, p).exact = FALSE
           /\ RemovePath(idx, p).files = idx.files \ {Fold(p)}
<1>1. idx = [f \in {"files", "spelled", "exact"} |-> idx[f]]
  BY DEF IsFileIndex
<1>2. ASSUME NEW files, NEW spelled, NEW new, new = [idx EXCEPT !.files = files, !.spelled = spelled]
      PROVE  IsFileIndex(new) /\ new.exact = FALSE /\ new.files = files
  BY <1>1, <1>2 DEF IsFileIndex
<1> DEFINE more == idx.files \cup {Fold(p)}
           less == idx.files \ {Fold(p)}
           put == IF idx.exact THEN Put(idx.spelled, Fold(p), p) ELSE idx.spelled
           inserted == InsertPath(idx, p)
           removed == RemovePath(idx, p)
           left == [q \in DOMAIN idx.spelled \ (IF idx.exact THEN {Fold(p)} ELSE {}) |-> idx.spelled[q]]
<1>4. inserted = [idx EXCEPT !.files = more, !.spelled = put]
  BY DEF InsertPath
<1>5. removed = [idx EXCEPT !.files = less, !.spelled = left]
  BY DEF RemovePath
<1> HIDE DEF more, less, put, left, inserted, removed
<1>6. IsFileIndex(inserted) /\ inserted.exact = FALSE /\ inserted.files = more
  BY <1>2, <1>4
<1>7. IsFileIndex(removed) /\ removed.exact = FALSE /\ removed.files = less
  BY <1>2, <1>5
<1> QED
  BY <1>6, <1>7 DEF more, less, inserted, removed

Toggled(paths, p) == IF p \in paths THEN paths \ {p} ELSE paths \cup {p}
Told(held, paths, p, there) ==
    [held EXCEPT !.files = IF p \in paths THEN RemovePath(held.files, p) ELSE InsertPath(held.files, p), !.here = there]
LEMMA FileEventKeeps ==
    ASSUME Settled, NEW held, Sound(held), held.at = "idle", held.here = here,
           NEW p \in Optional, NEW there, there = Toggled(here, p), there \in SUBSET Paths,
           NEW new, new = Told(held, here, p, there)
    PROVE  Sound(new) /\ new.at = "idle" /\ new.here = there
<1> USE DEF Toggled, Told, Sound
<1> DEFINE files == IF p \in here THEN RemovePath(held.files, p) ELSE InsertPath(held.files, p)
<1>1. held = [f \in EditorFields |-> held[f]] /\ IsFileIndex(held.files) /\ held.files.exact = FALSE
  BY DEF EditorShape
<1>2. /\ IsFileIndex(files) /\ files.exact = FALSE
      /\ files.files = IF p \in here THEN held.files.files \ {Fold(p)} ELSE held.files.files \cup {Fold(p)}
  <2> DEFINE idx == held.files
  <2>1. IsFileIndex(idx) /\ idx.exact = FALSE
    BY <1>1
  <2>2. files = IF p \in here THEN RemovePath(idx, p) ELSE InsertPath(idx, p)
    OBVIOUS
  <2> HIDE DEF idx, files
  <2> QED
    BY <2>1, <2>2, PathComes DEF idx
<1>3. new = [held EXCEPT !.files = files, !.here = there]
  OBVIOUS
<1> HIDE DEF files
<1>4. new = [f \in EditorFields |-> new[f]]
  BY <1>1, <1>3 DEF EditorFields
<1>5. new.files = files /\ new.here = there
  BY <1>1, <1>3 DEF EditorFields
<1>6. /\ new.at = held.at /\ new.staged = held.staged /\ new.paths = held.paths /\ new.varNames = held.varNames
      /\ new.scriptedNames = held.scriptedNames /\ new.locKeys = held.locKeys /\ new.members = held.members
      /\ new.tags = held.tags /\ new.merged = held.merged /\ new.mergedUris = held.mergedUris /\ new.index = held.index
      /\ new.complete = held.complete /\ new.of = held.of /\ new.ownRules = held.ownRules
      /\ new.vars = held.vars /\ new.scripted = held.scripted
  BY <1>1, <1>3 DEF EditorFields
<1>7. EditorShape(new)
  BY <1>2, <1>4, <1>5, <1>6 DEF EditorShape
<1>8. PICK b : IndexHeld(held, b) /\ (held.staged # <<>> \/ held.merged = TRUE => \E o \in Versions : ServedBy(held, o, b))
  BY DEF EditorServed
<1>9. IndexHeld(new, b)
  BY <1>6, <1>8 DEF IndexHeld
<1>10. ASSUME NEW o \in Versions, FilesOf(held, o) PROVE FilesOf(new, o)
  <2> DEFINE game == GameOf(o).paths
  <2>1. game \in SUBSET Paths /\ here \in SUBSET Paths /\ p \in Paths
    BY GamePaths, SettledPaths DEF Paths
  <2>2. /\ Folded(here \cup (game \ Optional)) \subseteq held.files.files
        /\ held.files.files \subseteq Folded(here \cup game)
    BY <1>10 DEF FilesOf
  <2> HIDE DEF game
  <2>3. \A q \in Paths : Fold(q) = Fold(p) => q = p
    BY <2>1, GameAssumption
  <2>4. CASE p \in here
    <3>1. files.files = held.files.files \ {Fold(p)} /\ there = here \ {p}
      BY <1>2, <2>4
    <3>2. Folded(there \cup (game \ Optional)) \subseteq files.files
      <4>1. ASSUME NEW q \in there \cup (game \ Optional) PROVE Fold(q) \in files.files
        <5>1. q \in here \cup (game \ Optional) /\ q # p /\ q \in Paths
          BY <2>1, <3>1, <4>1
        <5>2. Fold(q) \in held.files.files
          BY <2>2, <5>1 DEF Folded
        <5> QED
          BY <2>3, <3>1, <5>1, <5>2
      <4> QED
        BY <4>1 DEF Folded
    <3>3. files.files \subseteq Folded(there \cup game)
      <4>1. ASSUME NEW f \in files.files PROVE f \in Folded(there \cup game)
        <5>1. f # Fold(p) /\ f \in Folded(here \cup game)
          BY <2>2, <3>1, <4>1
        <5>2. PICK q \in here \cup game : f = Fold(q)
          BY <5>1 DEF Folded
        <5>3. q \in there \cup game
          BY <3>1, <5>1, <5>2
        <5> QED
          BY <5>2, <5>3 DEF Folded
      <4> QED
        BY <4>1
    <3> QED
      BY <1>5, <3>2, <3>3 DEF FilesOf, game
  <2>5. CASE p \notin here
    <3>1. files.files = held.files.files \cup {Fold(p)} /\ there = here \cup {p}
      BY <1>2, <2>5
    <3>2. Folded(there \cup (game \ Optional)) \subseteq files.files
      <4>1. ASSUME NEW q \in there \cup (game \ Optional) PROVE Fold(q) \in files.files
        <5>1. q = p \/ q \in here \cup (game \ Optional)
          BY <3>1
        <5> QED
          BY <2>2, <3>1, <5>1 DEF Folded
      <4> QED
        BY <4>1 DEF Folded
    <3>3. files.files \subseteq Folded(there \cup game)
      BY <2>2, <3>1 DEF Folded
    <3> QED
      BY <1>5, <3>2, <3>3 DEF FilesOf, game
  <2> QED
    BY <2>4, <2>5
<1>11. ASSUME NEW o \in Versions, ServedBy(held, o, b) PROVE ServedBy(new, o, b)
  <2>1. SameGame(o, new.of) /\ StagedOf(new, o)
    BY <1>6, <1>11 DEF ServedBy, StagedOf
  <2>2. ASSUME new.merged = TRUE PROVE MergedOf(new, o, b)
    <3>1. MergedOf(held, o, b)
      BY <1>6, <1>11, <2>2 DEF ServedBy
    <3>2. FilesOf(new, o)
      BY <1>10, <3>1 DEF MergedOf
    <3> QED
      BY <1>6, <3>1, <3>2 DEF MergedOf
  <2> QED
    BY <2>1, <2>2 DEF ServedBy
<1>12. EditorServed(new)
  BY <1>6, <1>8, <1>9, <1>11 DEF EditorServed
<1> QED
  BY <1>5, <1>6, <1>7, <1>12

-----------------------------------------------------------------------------
(* The base game: all steps                                                *)

GameInv == Settled /\ (crossed = FALSE => DiskInv /\ BatchInv /\ EditorInv)

LEMMA EditorSet ==
    ASSUME EditorInv, SoundAs(editor', editor), editor'.at = "walk" => editor'.of.install = install', here' = here
    PROVE  EditorInv'
  BY DEF EditorInv, SoundAs, Sound
LEMMA EditorStays ==
    ASSUME EditorInv, editor' = editor, here' = here, install' = install \/ editor.at # "walk"
    PROVE  EditorInv'
  BY DEF EditorInv
LEMMA BatchStays ==
    ASSUME BatchInv, batch' = batch, install' = install \/ batch.at # "walk"
    PROVE  BatchInv'
  BY DEF BatchInv

LEMMA StageGivenKeeps ==
    ASSUME Settled, DiskInv, EditorInv, StageGiven
    PROVE  EditorInv'
<1> DEFINE file == LoadCache(Given)[1]
           of == file.of
<1>1. editor = NewEditor /\ LoadCache(Given) # <<>> /\ editor' = Stage(editor, file, of) /\ here' = here
  BY DEF StageGiven, editorOnly
<1>2. PICK o \in Versions : Copies(file, o)
  BY <1>1, LoadedCopies
<1>3. of = o
  BY <1>2 DEF Copies
<1>4. SameGame(o, of)
  BY <1>3 DEF SameGame
<1>5. Unmerged(editor)
  BY <1>1, NewEditorIs DEF Unmerged
<1>6. Sound(editor)
  BY DEF EditorInv, Sound
<1> HIDE DEF file, of
<1>7. SoundAs(editor', editor) /\ editor'.at = "idle"
  BY <1>1, <1>2, <1>4, <1>5, <1>6, StageKeeps
<1> QED
  BY <1>1, <1>7, EditorSet

LEMMA EnsureKeeps ==
    ASSUME Settled, DiskInv, EditorInv, Ensure
    PROVE  EditorInv'
<1> DEFINE fresh == LoadFreshVanillaCache(Live(Now))
           file == fresh[1]
           of == Now
           busy == editor.staged # <<>> \/ editor.merged
<1>1. /\ editor' = IF busy THEN editor ELSE IF fresh # <<>> THEN Stage(editor, file, of) ELSE Walking(editor, of)
      /\ here' = here /\ install' = install
  <2>1. editor' = EnsureVanillaIndex(editor, FALSE) /\ here' = here /\ install' = install
    BY DEF Ensure, editorOnly
  <2>2. EnsureVanillaIndex(editor, FALSE) =
          IF busy THEN editor ELSE IF fresh # <<>> THEN Stage(editor, file, of) ELSE Walking(editor, of)
    BY DEF EnsureVanillaIndex, Walking
  <2> HIDE DEF busy, fresh
  <2> QED
    BY <2>1, <2>2
<1>2. Sound(editor) /\ editor.merged \in BOOLEAN
  BY DEF EditorInv, EditorShape, Sound
<1>3. of \in Versions /\ of.install = install
  BY SettledPaths DEF Now
<1>4. CASE busy
  <2> HIDE DEF busy, fresh
  <2>1. editor' = editor
    BY <1>1, <1>4
  <2> QED
    BY <1>1, <2>1, EditorStays
<1>5. CASE ~busy /\ fresh # <<>>
  <2>0. Unmerged(editor)
    BY <1>2, <1>5 DEF Unmerged
  <2>1. editor' = Stage(editor, file, of)
    <3> HIDE DEF busy, fresh, file, of
    <3> QED
      BY <1>1, <1>5
  <2>2. \E o \in Versions : SameGame(o, of) /\ Copies(file, o)
    <3>1. fresh = LoadFreshVanillaCache(Live(of))
      OBVIOUS
    <3> HIDE DEF fresh, of
    <3> QED
      BY <1>3, <1>5, <3>1, FreshCopies
  <2>3. PICK o \in Versions : SameGame(o, of) /\ Copies(file, o)
    BY <2>2
  <2> HIDE DEF file, of
  <2>4. SoundAs(editor', editor) /\ editor'.at = "idle"
    BY <1>2, <2>0, <2>1, <2>3, StageKeeps
  <2> QED
    BY <1>1, <2>4, EditorSet
<1>6. CASE ~busy /\ fresh = <<>>
  <2>0. editor.staged = <<>> /\ Unmerged(editor)
    BY <1>2, <1>6 DEF Unmerged
  <2>1. editor' = Walking(editor, of)
    <3> HIDE DEF busy, fresh, of
    <3> QED
      BY <1>1, <1>6
  <2> HIDE DEF of
  <2>2. SoundAs(editor', editor) /\ editor'.of = of
    BY <1>2, <1>3, <2>0, <2>1, WalkBegins
  <2> QED
    BY <1>1, <1>3, <2>2, EditorSet
<1> QED
  BY <1>4, <1>5, <1>6

LEMMA CommandKeeps ==
    ASSUME Settled, EditorInv, CacheVanillaCommand
    PROVE  EditorInv'
<1> DEFINE mid == Clear(editor)
           of == Now
<1>1. editor' = Walking(mid, of) /\ here' = here /\ install' = install /\ editor.at = "idle"
  <2>1. editor' = EnsureVanillaIndex(mid, TRUE) /\ here' = here /\ install' = install /\ editor.at = "idle"
    BY DEF CacheVanillaCommand, editorOnly
  <2> HIDE DEF mid
  <2>2. EnsureVanillaIndex(mid, TRUE) = Walking(mid, of)
    BY DEF EnsureVanillaIndex, Walking
  <2> QED
    BY <2>1, <2>2
<1>2. Sound(editor)
  BY DEF EditorInv, Sound
<1>3. of \in Versions /\ of.install = install
  BY SettledPaths DEF Now
<1>4. SoundAs(mid, editor) /\ mid.staged = <<>> /\ Unmerged(mid)
  BY <1>1, <1>2, ClearKeeps
<1> HIDE DEF mid, of
<1>5. Sound(mid)
  BY <1>4 DEF SoundAs
<1>6. SoundAs(editor', mid) /\ editor'.of = of
  BY <1>1, <1>3, <1>4, <1>5, WalkBegins
<1>7. SoundAs(editor', editor)
  BY <1>4, <1>6 DEF SoundAs
<1> QED
  BY <1>1, <1>3, <1>6, <1>7, EditorSet

LEMMA ClearCachesKeeps ==
    ASSUME DiskInv, EditorInv, ClearAllCaches
    PROVE  DiskInv' /\ EditorInv'
<1>1. /\ editor.at = "idle" /\ editor' = Clear(editor) /\ here' = here
      /\ disk' = [name \in DOMAIN disk \cap {Given} |-> disk[name]]
  BY DEF ClearAllCaches, editorOnly
<1>2. Sound(editor)
  BY DEF EditorInv, Sound
<1>3. SoundAs(editor', editor) /\ editor'.at = "idle"
  BY <1>1, <1>2, ClearKeeps
<1>4. DOMAIN disk' \subseteq DOMAIN disk /\ \A name \in DOMAIN disk' : disk'[name] = disk[name]
  BY <1>1
<1> QED
  BY <1>1, <1>3, <1>4, EditorSet, DiskStays

LEMMA EditorWalkKeeps ==
    ASSUME Settled, DiskInv, EditorInv, EditorWalk
    PROVE  DiskInv' /\ EditorInv'
<1> DEFINE of == editor.of
           file == WriteCache(Live(of), Installs[of.install], Rulesets[of.rules], of)
           name == CacheFileName(Live(of))
<1>1. Sound(editor) /\ editor.at = "walk" /\ of \in Versions /\ of.install = install /\ Unmerged(editor)
  BY DEF EditorInv, EditorShape, EditorWalk, Sound, Unmerged
<1>2. /\ editor' = Stage(editor, file, of) /\ here' = here
      /\ Saved(name, file) \/ disk' = disk
  BY <1>1 DEF EditorWalk, editorOnly
<1>3. Copies(file, of) /\ SameGame(of, of)
  <2>1. SameGame(of, of)
    BY <1>1 DEF SameGame
  <2> HIDE DEF of
  <2> QED
    BY <1>1, <2>1, WrittenCopies
<1>4. DiskInv'
  <2>1. CASE disk' = disk
    BY <2>1 DEF DiskInv
  <2>2. CASE Saved(name, file)
    <3> HIDE DEF name, of
    <3> QED
      BY <1>1, <2>2, SavedKeeps
  <2> QED
    BY <1>2, <2>1, <2>2
<1> HIDE DEF file, of
<1>5. SoundAs(editor', editor) /\ editor'.at = "idle"
  BY <1>1, <1>2, <1>3, StageKeeps
<1> QED
  BY <1>2, <1>4, <1>5, EditorSet

LEMMA PanicsKeeps ==
    ASSUME EditorInv, WalkPanics
    PROVE  EditorInv'
<1>1. editor.at = "walk" /\ editor' = [editor EXCEPT !.at = "idle"] /\ here' = here
  BY DEF WalkPanics, editorOnly
<1>2. Sound(editor)
  BY DEF EditorInv, Sound
<1>3. SoundAs(editor', editor) /\ editor'.at = "idle"
  BY <1>1, <1>2, PanicKeeps
<1> QED
  BY <1>1, <1>3, EditorSet

LEMMA MergeStepKeeps ==
    ASSUME Settled, EditorInv, Merge
    PROVE  EditorInv'
<1>1. editor.at = "idle" /\ editor' = MergePending(editor) /\ here' = here
  BY DEF Merge, editorOnly
<1>2. EditorShape(editor) /\ EditorServed(editor) /\ (editor.files.files # {} => editor.here = here)
  BY DEF EditorInv
<1>3. /\ EditorShape(editor') /\ EditorServed(editor') /\ editor'.at = "idle"
      /\ (editor'.files.files # {} => editor'.here = here)
  BY <1>1, <1>2, MergeKeeps
<1> QED
  BY <1>1, <1>3 DEF EditorInv

LEMMA FileStepKeeps ==
    ASSUME Settled, EditorInv, FileEvent
    PROVE  EditorInv'
<1>1. PICK p \in Optional :
        /\ here' = IF p \in here THEN here \ {p} ELSE here \cup {p}
        /\ editor' = IF editor.files.files = {} THEN editor
                     ELSE [editor EXCEPT !.files = IF p \in here THEN RemovePath(@, p) ELSE InsertPath(@, p), !.here = here']
  BY DEF FileEvent
<1>2. EditorShape(editor) /\ EditorServed(editor) /\ (editor.files.files # {} => editor.here = here) /\ editor.at = "idle"
  BY DEF EditorInv, FileEvent
<1>3. CASE editor.files.files = {}
  BY <1>1, <1>2, <1>3 DEF EditorInv
<1>4. CASE editor.files.files # {}
  <2> DEFINE there == here'
  <2>1. there \in SUBSET Paths
    BY <1>1 DEF Settled, Paths
  <2>2. editor' = Told(editor, here, p, there)
    BY <1>1, <1>4 DEF Told
  <2>3. there = Toggled(here, p)
    BY <1>1 DEF Toggled
  <2>s. Sound(editor)
    BY <1>2 DEF Sound
  <2> HIDE DEF there
  <2>4. Sound(editor') /\ editor'.at = "idle" /\ editor'.here = there
    BY <1>2, <1>4, <2>1, <2>2, <2>3, <2>s, FileEventKeeps
  <2> QED
    BY <2>4 DEF EditorInv, Sound, there
<1> QED
  BY <1>3, <1>4

LEMMA SettledKept ==
    ASSUME Settled, BaseNext
    PROVE  Settled' /\ (crossed' = FALSE => crossed = FALSE)
<1> USE DEF Settled
<1>1. CASE UNCHANGED <<install, ruleset, here, crossed>>
  BY <1>1
<1>2. ASSUME NEW config \in Configs, Begin(config) PROVE UNCHANGED <<install, ruleset, here, crossed>>
  BY <1>2 DEF Begin
<1>3. CASE WalkInstall
  BY <1>1, <1>3 DEF WalkInstall
<1>4. CASE RebuildGiven
  BY <1>1, <1>4 DEF RebuildGiven
<1>5. CASE CacheVanilla
  BY <1>1, <1>5 DEF CacheVanilla
<1>6. CASE StageGiven \/ Ensure \/ CacheVanillaCommand \/ ClearAllCaches \/ EditorWalk \/ WalkPanics \/ Merge
  BY <1>1, <1>6 DEF StageGiven, Ensure, CacheVanillaCommand, ClearAllCaches, EditorWalk, WalkPanics, Merge, editorOnly
<1>7. CASE Update
  <2>1. install' \in DOMAIN Installs /\ ruleset' = ruleset /\ here' = here /\ crossed' = (crossed \/ Fingerprinted)
    BY <1>7 DEF Update
  <2> QED
    BY <2>1 DEF Fingerprinted
<1>8. CASE ChangeRules
  BY <1>8 DEF ChangeRules
<1>9. CASE FileEvent
  <2>1. PICK p \in Optional : here' = IF p \in here THEN here \ {p} ELSE here \cup {p}
    BY <1>9 DEF FileEvent
  <2>2. UNCHANGED <<install, ruleset, crossed>>
    BY <1>9 DEF FileEvent
  <2> QED
    BY <2>1, <2>2
<1> QED
  BY <1>1, <1>2, <1>3, <1>4, <1>5, <1>6, <1>7, <1>8, <1>9 DEF BaseNext

LEMMA GameStarts ==
    ASSUME BaseInit
    PROVE  GameInv
<1>1. Settled
  BY DEF BaseInit, Settled
<1>2. DiskInv
  <2>1. CASE disk = <<>>
    BY <2>1 DEF DiskInv
  <2>2. CASE disk = Put(<<>>, CacheFileName(Live(Now)), [readable |-> FALSE])
    <3> DEFINE none == <<>>
               name == CacheFileName(Live(Now))
               file == [readable |-> FALSE]
    <3>1. DOMAIN none = {} /\ file.readable = FALSE
      OBVIOUS
    <3>2. disk = Put(none, name, file)
      BY <2>2
    <3> HIDE DEF none, name, file
    <3>3. \A k \in DOMAIN disk : disk[k] = file
      BY <3>1, <3>2 DEF Put
    <3> QED
      BY <3>1, <3>3 DEF DiskInv
  <2> QED
    BY <2>1, <2>2 DEF BaseInit
<1>3. BatchInv
  BY DEF BaseInit, Idle, BatchInv, RunInv
<1>4. EditorInv
  <2>1. editor = NewEditor
    BY DEF BaseInit
  <2>2. EditorShape(editor) /\ EditorServed(editor) /\ editor.at = "idle" /\ editor.files.files = {}
    BY <1>1, <2>1, NewEditorIs
  <2> QED
    BY <2>2 DEF EditorInv
<1> QED
  BY <1>1, <1>2, <1>3, <1>4 DEF GameInv

LEMMA GameKept ==
    ASSUME GameInv, [BaseNext]_baseVars
    PROVE  GameInv'
<1>1. CASE UNCHANGED baseVars
  <2>1. /\ install' = install /\ ruleset' = ruleset /\ here' = here /\ disk' = disk /\ batch' = batch /\ editor' = editor
        /\ crossed' = crossed
    BY <1>1 DEF baseVars
  <2>2. Settled'
    BY <2>1 DEF Settled, GameInv
  <2>3. ASSUME crossed' = FALSE PROVE DiskInv' /\ BatchInv' /\ EditorInv'
    <3>1. DiskInv /\ BatchInv /\ EditorInv
      BY <2>1, <2>3 DEF GameInv
    <3>2. DiskInv'
      BY <2>1, <3>1 DEF DiskInv
    <3> QED
      BY <2>1, <3>1, <3>2, BatchStays, EditorStays
  <2> QED
    BY <2>2, <2>3 DEF GameInv
<1>2. CASE BaseNext
  <2>1. Settled /\ Settled' /\ (crossed' = FALSE => crossed = FALSE)
    BY <1>2, SettledKept DEF GameInv
  <2>2. ASSUME crossed' = FALSE PROVE DiskInv' /\ BatchInv' /\ EditorInv'
    <3>1. DiskInv /\ BatchInv /\ EditorInv
      BY <2>1, <2>2 DEF GameInv
    <3>2. ASSUME NEW config \in Configs, Begin(config) PROVE DiskInv' /\ BatchInv' /\ EditorInv'
      <4>1. UNCHANGED <<install, here, disk, editor>>
        BY <3>2 DEF Begin
      <4>2. DiskInv'
        BY <3>1, <4>1 DEF DiskInv
      <4> QED
        BY <2>1, <3>1, <3>2, <4>1, <4>2, BeginKeeps, EditorStays
    <3>3. CASE WalkInstall
      <4>1. UNCHANGED <<install, here, editor>>
        BY <3>3 DEF WalkInstall
      <4> QED
        BY <2>1, <3>1, <3>3, <4>1, WalkKeeps, EditorStays
    <3>4. CASE RebuildGiven
      <4>1. UNCHANGED <<install, here, editor>>
        BY <3>4 DEF RebuildGiven
      <4> QED
        BY <2>1, <3>1, <3>4, <4>1, RebuildKeeps, EditorStays
    <3>5. CASE CacheVanilla
      <4>1. UNCHANGED <<install, here, batch, editor>>
        BY <3>5 DEF CacheVanilla
      <4> QED
        BY <2>1, <3>1, <3>5, <4>1, CacheKeeps, BatchStays, EditorStays
    <3>6. CASE StageGiven
      <4>1. UNCHANGED <<install, batch, disk>>
        BY <3>6 DEF StageGiven, editorOnly
      <4>2. DiskInv'
        BY <3>1, <4>1 DEF DiskInv
      <4> QED
        BY <2>1, <3>1, <3>6, <4>1, <4>2, StageGivenKeeps, BatchStays
    <3>7. CASE Ensure
      <4>1. UNCHANGED <<install, batch, disk>>
        BY <3>7 DEF Ensure, editorOnly
      <4>2. DiskInv'
        BY <3>1, <4>1 DEF DiskInv
      <4> QED
        BY <2>1, <3>1, <3>7, <4>1, <4>2, EnsureKeeps, BatchStays
    <3>8. CASE CacheVanillaCommand
      <4>1. UNCHANGED <<install, batch, disk>>
        BY <3>8 DEF CacheVanillaCommand, editorOnly
      <4>2. DiskInv'
        BY <3>1, <4>1 DEF DiskInv
      <4> QED
        BY <2>1, <3>1, <3>8, <4>1, <4>2, CommandKeeps, BatchStays
    <3>9. CASE ClearAllCaches
      <4>1. UNCHANGED <<install, batch>>
        BY <3>9 DEF ClearAllCaches, editorOnly
      <4> QED
        BY <3>1, <3>9, <4>1, ClearCachesKeeps, BatchStays
    <3>10. CASE EditorWalk
      <4>1. UNCHANGED <<install, batch>>
        BY <3>10 DEF EditorWalk, editorOnly
      <4> QED
        BY <2>1, <3>1, <3>10, <4>1, EditorWalkKeeps, BatchStays
    <3>11. CASE WalkPanics
      <4>1. UNCHANGED <<install, batch, disk>>
        BY <3>11 DEF WalkPanics, editorOnly
      <4>2. DiskInv'
        BY <3>1, <4>1 DEF DiskInv
      <4> QED
        BY <3>1, <3>11, <4>1, <4>2, PanicsKeeps, BatchStays
    <3>12. CASE Merge
      <4>1. UNCHANGED <<install, batch, disk>>
        BY <3>12 DEF Merge, editorOnly
      <4>2. DiskInv'
        BY <3>1, <4>1 DEF DiskInv
      <4> QED
        BY <2>1, <3>1, <3>12, <4>1, <4>2, MergeStepKeeps, BatchStays
    <3>13. CASE Update
      <4>1. /\ UNCHANGED <<here, disk, batch, editor>>
            /\ crossed' = (crossed \/ Fingerprinted)
        BY <3>13 DEF Update
      <4>2. batch.at # "walk" /\ editor.at # "walk"
        BY <2>2, <4>1 DEF Fingerprinted
      <4>3. DiskInv'
        BY <3>1, <4>1 DEF DiskInv
      <4> QED
        BY <3>1, <4>1, <4>2, <4>3, BatchStays, EditorStays
    <3>14. CASE ChangeRules
      <4>1. UNCHANGED <<install, here, disk, batch, editor>>
        BY <3>14 DEF ChangeRules
      <4>2. DiskInv'
        BY <3>1, <4>1 DEF DiskInv
      <4> QED
        BY <3>1, <4>1, <4>2, BatchStays, EditorStays
    <3>15. CASE FileEvent
      <4>1. UNCHANGED <<install, batch, disk>>
        BY <3>15 DEF FileEvent
      <4>2. DiskInv'
        BY <3>1, <4>1 DEF DiskInv
      <4> QED
        BY <2>1, <3>1, <3>15, <4>1, <4>2, FileStepKeeps, BatchStays
    <3> QED
      BY <1>2, <3>2, <3>3, <3>4, <3>5, <3>6, <3>7, <3>8, <3>9, <3>10, <3>11, <3>12, <3>13, <3>14, <3>15 DEF BaseNext
  <2> QED
    BY <2>1, <2>2 DEF GameInv
<1> QED
  BY <1>1, <1>2

\* A run that has a base game knows it, and so does the editor.
LEMMA RunKnowing ==
    ASSUME RunServed(batch)
    PROVE  Known(batch.of, RunKnows)
<1>1. PICK o \in Versions :
        /\ SameGame(o, batch.of)
        /\ SessionKnows(batch.session, batch.config, Rulesets[batch.rules], batch.here, batch.cached, o)
  BY DEF RunServed
<1>2. /\ o.rules \in DOMAIN Rulesets /\ RulesetShapeHash(Rulesets[o.rules]) = RulesetShapeHash(Rulesets[batch.of.rules])
      /\ Installs[batch.of.install] = GameOf(o) /\ IndexGameDir(Installs[batch.of.install], Rulesets[o.rules]) = WalkOf(o)
  BY <1>1 DEF SameGame, GameOf, WalkOf, Versions
<1>3. RunKnows(GameOf(o), WalkOf(o))
  BY <1>1 DEF SessionKnows, RunKnows
<1> QED
  BY <1>2, <1>3 DEF Known

LEMMA EditorKnowing ==
    ASSUME EditorServed(editor), EditorShape(editor), editor.merged = TRUE
    PROVE  Known(editor.of, EditorKnows)
<1>1. PICK b : IndexHeld(editor, b) /\ \E o \in Versions : ServedBy(editor, o, b)
  BY DEF EditorServed
<1>2. PICK o \in Versions : ServedBy(editor, o, b)
  BY <1>1
<1>3. /\ o.rules \in DOMAIN Rulesets /\ RulesetShapeHash(Rulesets[o.rules]) = RulesetShapeHash(Rulesets[editor.of.rules])
      /\ Installs[editor.of.install] = GameOf(o) /\ IndexGameDir(Installs[editor.of.install], Rulesets[o.rules]) = WalkOf(o)
  BY <1>2 DEF ServedBy, SameGame, GameOf, WalkOf, Versions
<1> DEFINE base == WalkOf(o)
           dir == GameOf(o)
           rules == Rulesets[editor.ownRules]
<1>4. StagedOf(editor, o) /\ MergedOf(editor, o, b)
  BY <1>2 DEF ServedBy
<1>5. KnowsInstances(editor.index, OwnFiles(rules), base)
  <2>1. Info!Holding(editor.index, OwnVectors(rules), base.instances)
    BY <1>1, <1>4 DEF IndexHeld, MergedOf
  <2> HIDE DEF base, rules
  <2> QED
    BY <2>1, HoldingKnows
<1>6. editor.complete /\ editor.vars = base.vars /\ editor.scripted = base.scripted
  BY <1>4 DEF MergedOf
<1>7. /\ base.members \cup base.tags # {} => editor.members = base.members /\ editor.tags = base.tags
      /\ DOMAIN AllKeys(dir) # {} => editor.locKeys = <<AllKeys(dir)>>
  BY <1>4 DEF StagedOf
<1>8. ASSUME (Optional \cap dir.paths) \subseteq editor.here
      PROVE  KnowsFiles(editor.files, editor.here \cup dir.paths)
  <2>1. editor.files.files = Folded(editor.here \cup dir.paths)
    <3>1. editor.here \cup (dir.paths \ Optional) = editor.here \cup dir.paths
      BY <1>8
    <3> QED
      BY <1>4, <3>1 DEF MergedOf, FilesOf
  <2>2. ~editor.files.exact
    BY DEF EditorShape
  <2> QED
    BY <2>1, <2>2, LooselyKnown
<1>9. EditorKnows(dir, base)
  BY <1>5, <1>6, <1>7, <1>8 DEF EditorKnows
<1> QED
  BY <1>3, <1>9 DEF Known

LEMMA GameKnown ==
    ASSUME GameInv
    PROVE  KnowsTheInstall
<1>1. ASSUME ~crossed PROVE BatchInv /\ EditorInv
  BY <1>1 DEF GameInv, Settled
<1>2. ASSUME ~crossed, batch.at \in {"rebuild", "done"}, batch.of # NoOf PROVE Known(batch.of, RunKnows)
  <2>1. RunServed(batch)
    BY <1>1, <1>2 DEF BatchInv, RunInv
  <2> QED
    BY <2>1, RunKnowing
<1>3. ASSUME ~crossed, editor.merged PROVE Known(editor.of, EditorKnows)
  <2>1. EditorServed(editor) /\ EditorShape(editor) /\ editor.merged = TRUE
    BY <1>1, <1>3 DEF EditorInv, EditorShape
  <2> QED
    BY <2>1, EditorKnowing
<1> QED
  BY <1>2, <1>3 DEF KnowsTheInstall

\* The property of BaseGame for any number of versions, rules, files and runs
\* (vanilla_cache.rs: combined_fingerprint; driver: load_fresh_vanilla_cache;
\* scan/vanilla.rs: merge_pending_vanilla_index): whoever wrote the cache and
\* whatever changed in between, a run and the editor know the base game as a
\* walk of it, when they asked, would have told them.
THEOREM KnowsTheInstallHolds == BaseSpec => []KnowsTheInstall
<1>1. BaseInit => GameInv
  BY GameStarts
<1>2. GameInv /\ [BaseNext]_baseVars => GameInv'
  BY GameKept
<1>3. GameInv => KnowsTheInstall
  BY GameKnown
<1> QED
  BY <1>1, <1>2, <1>3, PTL DEF BaseSpec
=============================================================================
