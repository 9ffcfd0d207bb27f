--------------------------- MODULE Services_proofs ---------------------------
(***************************************************************************)
(* The services that run side by side are right for every set of files,    *)
(* texts, commands, handlers and every bound.  Each has an invariant of    *)
(* its own that its steps keep; a step of another leaves it alone.         *)
(***************************************************************************)
EXTENDS MCServices, FiniteSetTheorems, TLAPS

-----------------------------------------------------------------------------
(* Recorded type uses                                                      *)

\* What was read under a revision is the present union, unless the revision
\* has advanced since or is about to.
FitsUnion(r, names) == r <= revision /\ (r = revision => Unannounced \/ names = Union)

CacheFits == merged.filled => FitsUnion(merged.revision, merged.names)
ReadersFit == \A t \in Threads :
    /\ thread[t].at \in {"look", "merge", "fill"} => thread[t].revision <= revision
    /\ thread[t].at = "fill" => FitsUnion(thread[t].revision, thread[t].names)

\* Only a thread that has changed a record carries names.
Carriers == {"bump", "scanBump", "queue", "revalidate"}
NoOtherCarries == \A t \in Threads : thread[t].at \notin Carriers => thread[t].changed = {}

UsesInv == TypeOK /\ CacheFits /\ ReadersFit /\ NoOtherCarries /\ ChangesQueued

\* The invariant holds in the initial state: nothing is recorded or cached.
LEMMA UsesStart == Init => UsesInv
<1>1. SUFFICES ASSUME Init PROVE UsesInv
  OBVIOUS
<1>2. Union = {}
  BY <1>1 DEF Init, Union
<1> QED
  BY <1>1, <1>2 DEF Init, UsesInv, TypeOK, CacheFits, ReadersFit, NoOtherCarries, ChangesQueued,
     Idle, None, ThreadStates, Stages, Carriers

\* A change of one file's record changes the union by the names reported at most.
LEMMA UnionMoves ==
    ASSUME TypeOK, NEW u \in Uris, NEW names \in SUBSET Names,
           uses' = [uses EXCEPT ![u] = names], NEW n,
           (n \in Union) # (n \in Union')
    PROVE  n \in ChangedNames(uses[u], names)
<1>1. \A v \in Uris \ {u} : uses'[v] = uses[v]
  BY DEF TypeOK
<1>2. uses'[u] = names
  BY DEF TypeOK
<1>3. n \in Union <=> \E v \in Uris : n \in uses[v]
  BY DEF Union
<1>4. n \in Union' <=> \E v \in Uris : n \in uses'[v]
  BY DEF Union
<1> QED
  BY <1>1, <1>2, <1>3, <1>4 DEF ChangedNames

\* One thread stores a record: its own state carries the change.
LEMMA StorePreserves ==
    ASSUME UsesInv, NEW t \in Threads, NEW u \in Uris, NEW names \in SUBSET Names,
           NEW merges \in BOOLEAN, thread[t].at = "idle", Store(t, u, names, merges)
    PROVE  UsesInv'
<1> DEFINE changed == ChangedNames(uses[u], names)
           next == IF names # uses[u] THEN "bump" ELSE IF merges THEN "load" ELSE "idle"
<1>0. changed \subseteq Names
  BY DEF UsesInv, TypeOK, ChangedNames
<1>1. /\ thread'[t] = [Idle EXCEPT !.at = next, !.changed = changed, !.merges = merges]
      /\ \A s \in Threads \ {t} : thread'[s] = thread[s]
      /\ DOMAIN thread' = Threads /\ thread' = [s \in Threads |-> thread'[s]]
  BY DEF UsesInv, TypeOK, Store
<1>2. /\ thread'[t].at = next /\ thread'[t].changed = changed
      /\ thread'[t] \in ThreadStates
  <2>1. next \in Stages
    BY DEF Stages
  <2>2. thread'[t] = [at |-> next, changed |-> changed, revision |-> 0, names |-> {}, merges |-> merges]
    BY <1>1 DEF Idle
  <2> HIDE DEF next, changed
  <2> QED
    BY <1>0, <2>1, <2>2 DEF ThreadStates
<1>3. TypeOK'
  BY <1>0, <1>1, <1>2 DEF UsesInv, TypeOK, Store
<1>4. Unannounced => Unannounced'
  BY <1>1 DEF Unannounced
<1>5. Unannounced' \/ Union' = Union
  <2>1. CASE names # uses[u]
    BY <2>1, <1>2 DEF Unannounced
  <2>2. CASE names = uses[u]
    <3>1. uses' = uses
      BY <2>2 DEF Store, UsesInv, TypeOK
    <3> QED
      BY <3>1 DEF Union
  <2> QED
    BY <2>1, <2>2
<1>6. \A r, ns : FitsUnion(r, ns) => FitsUnion(r, ns)'
  BY <1>4, <1>5 DEF FitsUnion, Store
<1>7. CacheFits'
  BY <1>6 DEF UsesInv, CacheFits, Store
<1>8. ReadersFit'
  BY <1>1, <1>2, <1>6 DEF UsesInv, ReadersFit, Store
<1>9. NoOtherCarries'
  BY <1>1, <1>2 DEF UsesInv, NoOtherCarries, Carriers, ChangedNames
<1>10. ChangesQueued'
  <2> SUFFICES ASSUME NEW n \in Names, (n \in Union') # (n \in told)
               PROVE  n \in pending \/ \E s \in Threads : n \in thread'[s].changed
    BY DEF ChangesQueued, Store
  <2>1. CASE (n \in Union) # (n \in Union')
    BY <2>1, <1>2, UnionMoves DEF UsesInv, Store
  <2>2. CASE (n \in Union) = (n \in Union')
    <3>1. n \in pending \/ \E s \in Threads : n \in thread[s].changed
      BY <2>2 DEF UsesInv, ChangesQueued
    <3>2. thread[t].changed = {}
      BY DEF UsesInv, NoOtherCarries, Carriers
    <3> QED
      BY <3>1, <3>2, <1>1
  <2> QED
    BY <2>1, <2>2
<1> QED
  BY <1>3, <1>7, <1>8, <1>9, <1>10 DEF UsesInv

\* The scan replaces many records at once; it carries every name until it has
\* validated the open documents.
LEMMA ScanPreserves ==
    ASSUME UsesInv, NEW t \in Threads, NEW those \in SUBSET Uris, ScanUses(t, those)
    PROVE  UsesInv'
<1>1. /\ thread'[t] = [thread[t] EXCEPT !.at = "scanBump", !.changed = Names]
      /\ \A s \in Threads \ {t} : thread'[s] = thread[s]
      /\ DOMAIN thread' = Threads /\ thread' = [s \in Threads |-> thread'[s]]
  BY DEF UsesInv, TypeOK, ScanUses
<1>2. /\ thread'[t].at = "scanBump" /\ thread'[t].changed = Names
      /\ thread'[t] \in ThreadStates
  BY <1>1 DEF UsesInv, TypeOK, ThreadStates, Stages
<1>3. uses' \in [Uris -> SUBSET Names]
  <2>1. PICK found \in [those -> SUBSET Names] :
            uses' = [u \in Uris |-> IF u \in those THEN found[u] ELSE uses[u]]
    BY DEF ScanUses
  <2> QED
    BY <2>1 DEF UsesInv, TypeOK
<1>4. TypeOK'
  BY <1>1, <1>2, <1>3 DEF UsesInv, TypeOK, ScanUses
<1>5. Unannounced'
  BY <1>2 DEF Unannounced
<1>6. \A r, ns : FitsUnion(r, ns) => FitsUnion(r, ns)'
  BY <1>5 DEF FitsUnion, ScanUses
<1>7. CacheFits'
  BY <1>6 DEF UsesInv, CacheFits, ScanUses
<1>8. ReadersFit'
  BY <1>1, <1>2, <1>6 DEF UsesInv, ReadersFit, ScanUses
<1>9. NoOtherCarries'
  BY <1>1, <1>2 DEF UsesInv, NoOtherCarries, Carriers
<1>10. ChangesQueued'
  BY <1>2 DEF ChangesQueued
<1> QED
  BY <1>4, <1>7, <1>8, <1>9, <1>10 DEF UsesInv

\* The counter advances: no older revision is the present one.
LEMMA BumpPreserves ==
    ASSUME UsesInv, NEW t \in Threads, Bump(t)
    PROVE  UsesInv'
<1>1. /\ thread'[t] = [thread[t] EXCEPT !.at = IF @ = "bump" THEN "queue" ELSE "revalidate"]
      /\ \A s \in Threads \ {t} : thread'[s] = thread[s]
      /\ DOMAIN thread' = Threads /\ thread' = [s \in Threads |-> thread'[s]]
  BY DEF UsesInv, TypeOK, Bump
<1>2. /\ thread'[t].at \in {"queue", "revalidate"}
      /\ thread'[t].changed = thread[t].changed
      /\ thread'[t] \in ThreadStates
  BY <1>1 DEF UsesInv, TypeOK, ThreadStates, Stages
<1>3. TypeOK'
  BY <1>1, <1>2 DEF UsesInv, TypeOK, Bump
<1>4. revision \in Nat /\ revision' = revision + 1
  BY DEF UsesInv, TypeOK, Bump
<1>5. \A ns : \A r \in Nat : r <= revision => FitsUnion(r, ns)'
  BY <1>4 DEF FitsUnion
<1>6. CacheFits'
  BY <1>5 DEF UsesInv, CacheFits, TypeOK, FitsUnion, Bump
<1>7. ReadersFit'
  <2>1. ASSUME NEW s \in Threads, thread'[s].at \in {"look", "merge", "fill"}
        PROVE  thread'[s] = thread[s] /\ thread[s].revision \in Nat /\ thread[s].revision <= revision
    BY <2>1, <1>1, <1>2 DEF UsesInv, ReadersFit, TypeOK, ThreadStates
  <2>2. ASSUME NEW s \in Threads, thread'[s].at \in {"look", "merge", "fill"}
        PROVE  thread'[s].revision <= revision' /\ FitsUnion(thread[s].revision, thread[s].names)'
    BY <2>1, <2>2, <1>4, <1>5
  <2>3. ASSUME NEW s \in Threads, thread'[s].at = "fill"
        PROVE  FitsUnion(thread[s].revision, thread[s].names)' /\ thread'[s] = thread[s]
    BY <2>1, <2>2, <2>3
  <2> QED
    BY <2>2, <2>3 DEF ReadersFit, FitsUnion
<1>8. NoOtherCarries'
  BY <1>1, <1>2 DEF UsesInv, NoOtherCarries, Carriers
<1>9. ChangesQueued'
  BY <1>1, <1>2 DEF UsesInv, ChangesQueued, Bump, Union
<1> QED
  BY <1>3, <1>6, <1>7, <1>8, <1>9 DEF UsesInv

\* The steps that leave the records and the counter alone.
LEMMA OtherPreserves ==
    ASSUME UsesInv, NEW t \in Threads,
           \/ QueueNames(t) \/ RevalidateAll(t)
           \/ LoadRevision(t) \/ LookUp(t) \/ Merge(t) \/ Fill(t)
    PROVE  UsesInv'
<1>1. /\ uses' = uses /\ revision' = revision /\ Union' = Union
      /\ DOMAIN thread' = Threads /\ thread' = [s \in Threads |-> thread'[s]]
      /\ \A s \in Threads \ {t} : thread'[s] = thread[s]
  BY DEF UsesInv, TypeOK, QueueNames, RevalidateAll, LoadRevision, LookUp, Merge, Fill, Union
<1>2. \/ thread[t].at = "queue" /\ thread'[t] = [Idle EXCEPT !.at = "load"]
      \/ thread[t].at \in {"queue", "revalidate", "look", "fill"} /\ thread'[t] = Idle
      \/ /\ thread[t].at = "load"
         /\ thread'[t] = [thread[t] EXCEPT !.at = "look", !.revision = revision]
      \/ thread[t].at = "look" /\ thread'[t] = [thread[t] EXCEPT !.at = "merge"]
      \/ thread[t].at = "merge" /\ thread'[t] = [thread[t] EXCEPT !.at = "fill", !.names = Union]
  <2>1. CASE QueueNames(t)
    BY <2>1 DEF QueueNames, UsesInv, TypeOK
  <2>2. CASE RevalidateAll(t) \/ Fill(t)
    BY <2>2 DEF RevalidateAll, Fill, UsesInv, TypeOK
  <2>3. CASE LoadRevision(t)
    BY <2>3 DEF LoadRevision, UsesInv, TypeOK
  <2>4. CASE LookUp(t)
    BY <2>4 DEF LookUp, UsesInv, TypeOK
  <2>5. CASE Merge(t)
    BY <2>5 DEF Merge, UsesInv, TypeOK
  <2> QED
    BY <2>1, <2>2, <2>3, <2>4, <2>5
<1>3. Union \subseteq Names /\ revision \in Nat /\ thread[t] \in ThreadStates
  BY DEF UsesInv, TypeOK, Union
<1>4. /\ thread[t].at \notin {"bump", "scanBump"} /\ thread'[t].at \notin {"bump", "scanBump"}
      /\ thread'[t] \in ThreadStates
      /\ thread'[t].at \in {"look", "merge", "fill"} =>
            \/ thread'[t].revision = revision
            \/ thread'[t].revision = thread[t].revision /\ thread[t].at \in {"look", "merge"}
      /\ thread'[t].at = "fill" => thread'[t].names = Union
      /\ thread'[t].at \in {"idle", "load", "look", "merge", "fill"}
      /\ \/ thread'[t].changed = {}
         \/ thread'[t].changed = thread[t].changed /\ thread[t].at \in {"load", "look", "merge"}
  <2>1. CASE thread[t].at = "queue" /\ thread'[t] = [Idle EXCEPT !.at = "load"]
    <3>1. thread'[t] = [at |-> "load", changed |-> {}, revision |-> 0, names |-> {}, merges |-> FALSE]
      BY <2>1 DEF Idle
    <3>2. thread[t].at = "queue"
      BY <2>1
    <3>3. thread'[t].at = "load" /\ thread'[t].changed = {}
      BY <3>1
    <3>4. thread'[t] \in ThreadStates
      BY <3>1 DEF ThreadStates, Stages
    <3> QED
      BY <3>2, <3>3, <3>4
  <2>2. CASE thread[t].at \in {"queue", "revalidate", "look", "fill"} /\ thread'[t] = Idle
    <3>1. thread'[t] = [at |-> "idle", changed |-> {}, revision |-> 0, names |-> {}, merges |-> FALSE]
      BY <2>2 DEF Idle
    <3>2. thread[t].at \in {"queue", "revalidate", "look", "fill"}
      BY <2>2
    <3>3. thread'[t].at = "idle" /\ thread'[t].changed = {}
      BY <3>1
    <3>4. thread'[t] \in ThreadStates
      BY <3>1 DEF ThreadStates, Stages
    <3> QED
      BY <3>2, <3>3, <3>4
  <2>3. CASE thread[t].at = "load" /\ thread'[t] = [thread[t] EXCEPT !.at = "look", !.revision = revision]
    <3>1. thread'[t] = [at |-> "look", changed |-> thread[t].changed, revision |-> revision,
                        names |-> thread[t].names, merges |-> thread[t].merges]
      BY <1>3, <2>3 DEF ThreadStates
    <3>2. thread[t].at = "load"
      BY <2>3
    <3>3. /\ thread[t].changed \in SUBSET Names /\ thread[t].revision \in Nat
          /\ thread[t].names \in SUBSET Names /\ thread[t].merges \in BOOLEAN
      BY <1>3 DEF ThreadStates
    <3>4. thread'[t] \in ThreadStates
      BY <1>3, <3>1, <3>3 DEF ThreadStates, Stages
    <3>5. thread'[t].changed = thread[t].changed
      BY <3>1
    <3> QED
      BY <3>1, <3>2, <3>4, <3>5
  <2>4. CASE thread[t].at = "look" /\ thread'[t] = [thread[t] EXCEPT !.at = "merge"]
    <3>1. thread'[t] = [at |-> "merge", changed |-> thread[t].changed, revision |-> thread[t].revision,
                        names |-> thread[t].names, merges |-> thread[t].merges]
      BY <1>3, <2>4 DEF ThreadStates
    <3>2. thread[t].at = "look"
      BY <2>4
    <3>3. /\ thread[t].changed \in SUBSET Names /\ thread[t].revision \in Nat
          /\ thread[t].names \in SUBSET Names /\ thread[t].merges \in BOOLEAN
      BY <1>3 DEF ThreadStates
    <3>4. thread'[t] \in ThreadStates
      BY <1>3, <3>1, <3>3 DEF ThreadStates, Stages
    <3>5. thread'[t].changed = thread[t].changed
      BY <3>1
    <3> QED
      BY <3>1, <3>2, <3>4, <3>5
  <2>5. CASE thread[t].at = "merge" /\ thread'[t] = [thread[t] EXCEPT !.at = "fill", !.names = Union]
    <3>1. thread'[t] = [at |-> "fill", changed |-> thread[t].changed, revision |-> thread[t].revision,
                        names |-> Union, merges |-> thread[t].merges]
      BY <1>3, <2>5 DEF ThreadStates
    <3>2. thread[t].at = "merge"
      BY <2>5
    <3>3. /\ thread[t].changed \in SUBSET Names /\ thread[t].revision \in Nat
          /\ thread[t].names \in SUBSET Names /\ thread[t].merges \in BOOLEAN
      BY <1>3 DEF ThreadStates
    <3>4. thread'[t] \in ThreadStates
      BY <1>3, <3>1, <3>3 DEF ThreadStates, Stages
    <3>5. thread'[t].changed = thread[t].changed
      BY <3>1
    <3> QED
      BY <3>1, <3>2, <3>4, <3>5
  <2> QED
    BY <1>2, <2>1, <2>2, <2>3, <2>4, <2>5
<1>5. Unannounced' <=> Unannounced
  BY <1>1, <1>4 DEF Unannounced
<1>6. \A r, ns : FitsUnion(r, ns)' <=> FitsUnion(r, ns)
  BY <1>1, <1>5 DEF FitsUnion
<1>7. merged' \in [revision : Nat, names : SUBSET Names, filled : BOOLEAN] /\ pending' \subseteq Names /\ told' \subseteq Names
  <2>1. CASE QueueNames(t) \/ RevalidateAll(t) \/ LoadRevision(t) \/ LookUp(t) \/ Merge(t)
    BY <2>1, <1>3 DEF UsesInv, TypeOK, ThreadStates, QueueNames, RevalidateAll, LoadRevision, LookUp, Merge
  <2>2. CASE Fill(t)
    BY <2>2, <1>3 DEF UsesInv, TypeOK, ThreadStates, Fill
  <2> QED
    BY <2>1, <2>2
<1>8. TypeOK'
  BY <1>1, <1>4, <1>7 DEF UsesInv, TypeOK
<1>9. CacheFits'
  <2>1. CASE Fill(t)
    <3>1. FitsUnion(thread[t].revision, thread[t].names)
      BY <2>1 DEF Fill, UsesInv, ReadersFit
    <3> QED
      BY <2>1, <3>1, <1>6 DEF Fill, CacheFits
  <2>2. CASE QueueNames(t) \/ RevalidateAll(t) \/ LoadRevision(t) \/ LookUp(t) \/ Merge(t)
    BY <2>2, <1>6 DEF UsesInv, CacheFits, QueueNames, RevalidateAll, LoadRevision, LookUp, Merge
  <2> QED
    BY <2>1, <2>2
<1>10. ReadersFit'
  <2>1. ASSUME NEW s \in Threads \ {t}
        PROVE  /\ thread'[s].at \in {"look", "merge", "fill"} => thread'[s].revision <= revision
               /\ thread'[s].at = "fill" => FitsUnion(thread'[s].revision, thread'[s].names)
    BY <1>1 DEF UsesInv, ReadersFit
  <2>2. thread'[t].at \in {"look", "merge", "fill"} => thread'[t].revision <= revision
    BY <1>3, <1>4 DEF UsesInv, ReadersFit
  <2>3. thread'[t].at = "fill" => FitsUnion(thread'[t].revision, thread'[t].names)
    BY <2>2, <1>4 DEF FitsUnion
  <2> QED
    BY <2>1, <2>2, <2>3, <1>1, <1>6 DEF ReadersFit
<1>12. NoOtherCarries'
  BY <1>1, <1>4 DEF UsesInv, NoOtherCarries, Carriers
<1>13. ChangesQueued'
  <2>1. CASE RevalidateAll(t)
    BY <2>1, <1>1 DEF ChangesQueued, RevalidateAll
  <2>2. CASE QueueNames(t)
    <3> SUFFICES ASSUME NEW n \in Names, (n \in Union) # (n \in told)
                 PROVE  n \in pending' \/ \E s \in Threads : n \in thread'[s].changed
      BY <2>2, <1>1 DEF ChangesQueued, QueueNames
    <3>1. n \in pending \/ \E s \in Threads : n \in thread[s].changed
      BY DEF UsesInv, ChangesQueued
    <3> QED
      BY <3>1, <2>2, <1>1 DEF QueueNames
  <2>3. CASE LoadRevision(t) \/ LookUp(t) \/ Merge(t) \/ Fill(t)
    <3>1. thread[t].changed = {}
      BY <2>3 DEF UsesInv, NoOtherCarries, Carriers, LoadRevision, LookUp, Merge, Fill
    <3>2. pending' = pending /\ told' = told
      BY <2>3 DEF LoadRevision, LookUp, Merge, Fill
    <3> QED
      BY <3>1, <3>2, <1>1 DEF UsesInv, ChangesQueued
  <2> QED
    BY <2>1, <2>2, <2>3
<1> QED
  BY <1>8, <1>9, <1>10, <1>12, <1>13 DEF UsesInv

\* A drain tells the documents of the queued names.
LEMMA DrainPreserves == UsesInv /\ Drain => UsesInv'
<1> SUFFICES ASSUME UsesInv, Drain PROVE UsesInv'
  OBVIOUS
<1>1. Union' = Union /\ (Unannounced' <=> Unannounced)
  BY DEF Drain, Union, Unannounced
<1>2. Union \subseteq Names
  BY DEF UsesInv, TypeOK, Union
<1>3. TypeOK'
  BY <1>2 DEF UsesInv, TypeOK, Drain
<1>4. CacheFits' /\ ReadersFit' /\ NoOtherCarries'
  BY <1>1 DEF UsesInv, CacheFits, ReadersFit, NoOtherCarries, FitsUnion, Drain
<1>5. ChangesQueued'
  BY <1>1 DEF UsesInv, ChangesQueued, Drain
<1> QED
  BY <1>3, <1>4, <1>5 DEF UsesInv

\* The invariant is inductive.
LEMMA NextUses == UsesInv /\ [Next]_vars => UsesInv'
<1> SUFFICES ASSUME UsesInv, [Next]_vars PROVE UsesInv'
  OBVIOUS
<1>1. CASE Drain
  BY <1>1, DrainPreserves
<1>2. ASSUME NEW t \in Threads, Step(t) PROVE UsesInv'
  <2>1. CASE \E u \in Uris : RefreshTypeUses(t, u) \/ RemoveUses(t, u)
    BY <2>1, StorePreserves DEF RefreshTypeUses, RemoveUses
  <2>2. CASE \E those \in SUBSET Uris : ScanUses(t, those)
    BY <2>2, ScanPreserves
  <2>3. CASE Bump(t)
    BY <2>3, BumpPreserves
  <2>4. CASE QueueNames(t) \/ RevalidateAll(t) \/ LoadRevision(t) \/ LookUp(t) \/ Merge(t) \/ Fill(t)
    BY <2>4, OtherPreserves
  <2> QED
    BY <1>2, <2>1, <2>2, <2>3, <2>4 DEF Step
<1>3. CASE UNCHANGED vars
  BY <1>3 DEF vars, UsesInv, TypeOK, CacheFits, ReadersFit, NoOtherCarries, ChangesQueued, FitsUnion,
     Unannounced, Union
<1> QED
  BY <1>1, <1>2, <1>3 DEF Next

\* Every behaviour keeps the invariant.
LEMMA UsesKept == Spec => []UsesInv
  BY UsesStart, NextUses, PTL DEF Spec

-----------------------------------------------------------------------------
\* merged_type_uses serves the union of what the files record now, unless a
\* thread is between its change of a record and the advance of the revision.
THEOREM CachedUnionIsCurrent == Spec => []MergedCoherent
<1>1. UsesInv => MergedCoherent
  BY DEF UsesInv, CacheFits, FitsUnion, MergedCoherent
<1> QED
  BY <1>1, UsesKept, PTL

\* Every change of a name's use reaches the queue of the sweep, or a scan that
\* validates all open documents.
THEOREM ChangesReachSweep == Spec => []ChangesQueued
<1>1. UsesInv => ChangesQueued
  BY DEF UsesInv
<1> QED
  BY <1>1, UsesKept, PTL

\* The type invariant.
THEOREM UsesTypeCorrect == Spec => []TypeOK
<1>1. UsesInv => TypeOK
  BY DEF UsesInv
<1> QED
  BY <1>1, UsesKept, PTL

-----------------------------------------------------------------------------
(* Progress                                                                *)

StreamOf(begins, ends) == [begins |-> begins, ends |-> ends]

\* What the client was sent for a command follows from where the command is.
StreamFits(c) ==
    /\ stage[c] \in {"idle", "beginning"} => stream[c] = StreamOf(0, 0) /\ c \notin closing
    /\ stage[c] \in {"running", "ending"} => stream[c] = StreamOf(1, 0) /\ c \notin closing
    /\ stage[c] = "over" =>
        \/ stream[c] = StreamOf(1, 0)
        \/ c \notin closing /\ stream[c] \in {StreamOf(0, 0), StreamOf(1, 1)}

StreamInv == /\ stage \in [Uris -> Notices!Stages]
             /\ stream \in [Uris -> [begins : Nat, ends : Nat]]
             /\ \A c \in Uris : StreamFits(c)

\* A step of one command leaves the others where they are.
LEMMA CommandKeeps ==
    ASSUME StreamInv, NEW c \in Uris, Notices!CommandStep(c)
    PROVE  StreamInv'
<1>1. \A d \in Uris \ {c} : stage'[d] = stage[d] /\ stream'[d] = stream[d] /\ (d \in closing' <=> d \in closing)
  BY DEF StreamInv, Notices!CommandStep, Notices!Begin, Notices!SendBegin, Notices!StartPhase,
     Notices!Sample, Notices!Report, Notices!StopPhase, Notices!Finish, Notices!SendEnd,
     Notices!DropCommand, Notices!SendAbandonedEnd, Notices!CancelToken
<1>2. stage' \in [Uris -> Notices!Stages] /\ stream' \in [Uris -> [begins : Nat, ends : Nat]]
  BY DEF StreamInv, Notices!Stages, Notices!CommandStep, Notices!Begin, Notices!SendBegin, Notices!StartPhase,
     Notices!Sample, Notices!Report, Notices!StopPhase, Notices!Finish, Notices!SendEnd,
     Notices!DropCommand, Notices!SendAbandonedEnd, Notices!CancelToken
<1>3. StreamFits(c)'
  BY DEF StreamInv, StreamFits, StreamOf, Notices!Stages, Notices!CommandStep, Notices!Begin, Notices!SendBegin, Notices!StartPhase,
     Notices!Sample, Notices!Report, Notices!StopPhase, Notices!Finish, Notices!SendEnd, Notices!Abandoned,
     Notices!DropCommand, Notices!SendAbandonedEnd, Notices!CancelToken
<1> QED
  BY <1>1, <1>2, <1>3 DEF StreamInv, StreamFits

\* The indicator and its drivers touch no stream, and the drivers no command.
LEMMA NextStreams == ASSUME StreamInv, Notices!Next PROVE StreamInv'
<1>1. CASE \E c \in Uris : Notices!CommandStep(c)
  BY <1>1, CommandKeeps
<1>2. CASE UNCHANGED Notices!streamVars
  BY <1>2 DEF Notices!streamVars, StreamInv, StreamFits
<1> QED
  BY <1>1, <1>2 DEF Notices!Next

\* Whatever commands run, are cancelled and are dropped at whichever await, a
\* progress stream is ended at most once and after its begin, and is open while
\* its command runs or its End is on the way.
THEOREM StreamsPairedHolds == MCSpec => []StreamsPaired
<1>1. MCInit => StreamInv
  BY DEF MCInit, Notices!Init, Notices!Stages, StreamInv, StreamFits, StreamOf
<1>2. StreamInv /\ [MCNext]_mcVars => StreamInv'
  <2>1. ASSUME StreamInv, UNCHANGED progressVars PROVE StreamInv'
    BY <2>1 DEF progressVars, StreamInv, StreamFits
  <2>2. QED
    BY <2>1, NextStreams DEF MCNext, mcVars
<1>3. StreamInv => StreamsPaired
  <2>1. SUFFICES ASSUME StreamInv, NEW c \in Uris
                 PROVE  /\ stream[c].ends <= stream[c].begins /\ stream[c].begins <= 1
                        /\ stage[c] = "running" => stream[c] = [begins |-> 1, ends |-> 0]
                        /\ c \in closing => stream[c] = [begins |-> 1, ends |-> 0]
    BY DEF StreamsPaired, Notices!StreamsPaired
  <2>2. QED
    BY <2>1 DEF StreamInv, StreamFits, StreamOf, Notices!Stages
<1> QED
  BY <1>1, <1>2, <1>3, PTL DEF MCSpec

\* The indicator: what was opened is closed, or shows.
BarInv == /\ bar \in BOOLEAN /\ opened \in Nat /\ closed \in Nat
          /\ bar => opened = closed + 1
          /\ ~bar => opened = closed
          /\ driver \in [Threads -> {"idle", "open", "over"}]
          /\ (\A d \in Threads : driver[d] = "over") => ~bar

LEMMA NextBar == ASSUME BarInv, Notices!Next PROVE BarInv'
<1>1. CASE UNCHANGED Notices!barVars
  BY <1>1 DEF Notices!barVars, BarInv
<1>2. ASSUME NEW d \in Threads, Notices!DriverStep(d) PROVE BarInv'
  <2>1. CASE UNCHANGED <<bar, opened, closed>> /\ Notices!NothingToShow(d)
    BY <2>1 DEF BarInv, Notices!NothingToShow
  <2>2. CASE Notices!LoadingBar(TRUE) /\ driver'[d] = "open" /\ driver' \in [Threads -> {"idle", "open", "over"}]
    BY <2>2 DEF BarInv, Notices!LoadingBar, Notices!Silent
  <2>3. CASE Notices!LoadingBar(FALSE) /\ driver' \in [Threads -> {"idle", "open", "over"}]
    <3>1. bar' = FALSE /\ (IF bar THEN closed' = closed + 1 ELSE closed' = closed) /\ opened' = opened
      BY <2>3 DEF Notices!LoadingBar, Notices!Silent
    <3>2. ~bar' /\ bar' \in BOOLEAN
      BY <3>1
    <3>3. opened' = closed' /\ closed' \in Nat
      BY <3>1 DEF BarInv
    <3>4. QED
      BY <2>3, <3>1, <3>2, <3>3 DEF BarInv
  <2>4. CASE Notices!NothingToShow(d)
    BY <2>1, <2>4 DEF Notices!NothingToShow
  <2>5. CASE Notices!Open(d) \/ Notices!Phase(d)
    BY <2>2, <2>5 DEF BarInv, Notices!Open, Notices!Phase
  <2>6. CASE Notices!Clear(d) \/ Notices!Close(d)
    <3>1. Notices!LoadingBar(FALSE) /\ driver' \in [Threads -> {"idle", "open", "over"}]
      BY <2>6 DEF BarInv, Notices!Clear, Notices!Close
    <3>2. QED
      BY <2>3, <3>1
  <2> QED
    BY <1>2, <2>4, <2>5, <2>6 DEF Notices!DriverStep
<1> QED
  BY <1>1, <1>2 DEF Notices!Next

\* Whatever scans and commands share the loading indicator, and however often it
\* is cleared, it is closed once for each time it was opened, and the last one
\* that ends leaves it closed.
THEOREM ClosesMatchOpensHolds == MCSpec => []ClosesMatchOpens
<1>1. MCInit => BarInv
  <2>1. MCInit => Notices!Init
    BY DEF MCInit
  <2>2. Notices!Init => BarInv
    <3>1. SUFFICES ASSUME Notices!Init PROVE BarInv
      OBVIOUS
    <3>2. bar = FALSE
      BY <3>1 DEF Notices!Init
    <3>3. ~bar /\ bar \in BOOLEAN
      BY <3>2
    <3>4. QED
      BY <3>1, <3>3 DEF Notices!Init, BarInv
  <2>3. QED
    BY <2>1, <2>2
<1>2. BarInv /\ [MCNext]_mcVars => BarInv'
  <2>1. ASSUME BarInv, UNCHANGED progressVars PROVE BarInv'
    BY <2>1 DEF progressVars, BarInv
  <2>2. QED
    BY <2>1, NextBar DEF MCNext, mcVars
<1>3. BarInv => ClosesMatchOpens
  BY DEF BarInv, ClosesMatchOpens, Notices!ClosesMatchOpens
<1> QED
  BY <1>1, <1>2, <1>3, PTL DEF MCSpec

-----------------------------------------------------------------------------
(* The scan against open documents                                         *)

\* The types of the documents and their validations; a scan is a record of its fields.
TextOrNone == Texts \union {Absent}
DocTypes == [open : BOOLEAN, text : TextOrNone, version : Nat, ast : TextOrNone, astVersion : Nat]
JobTypes == [at : {"none", "due", "validated"}, text : TextOrNone, version : Nat]
ScanShape(s) == s = [at |-> s.at, found |-> s.found, open |-> s.open, parsed |-> s.parsed,
                     todo |-> s.todo, budget |-> s.budget, published |-> s.published,
                     quiet |-> s.quiet, sig |-> s.sig, docs |-> s.docs]
ScanTyped == /\ doc \in [Uris -> DocTypes]
             /\ job \in [Uris -> JobTypes]
             /\ shown = [f \in Uris |-> shown[f]]
             /\ ScanShape(scan)
             /\ clock \in Nat

\* Only open documents are validated, and for the text they have.
JobsFit == \A f \in Uris :
    /\ job[f].at = "none" => job[f] = Workspace!NoJob
    /\ job[f] # Workspace!NoJob => doc[f].open /\ job[f].text = doc[f].text

\* Versions are fresh: what was open under a version had the text of that version.
VersionsFresh == \A f \in Uris :
    /\ doc[f].version <= clock
    /\ doc[f].open => doc[f].version > 0
SnapshotFits == scan.at = "revalidate" => \A f \in Uris :
    /\ scan.docs[f].version \in Nat /\ scan.docs[f].version <= clock
    /\ doc[f].open /\ doc[f].version = scan.docs[f].version => doc[f].text = scan.docs[f].text

\* An open document that is not being validated shows its own text, once the
\* pass over the open documents has come to it.
BufferShown == \A f \in Uris :
    doc[f].open /\ job[f] = Workspace!NoJob =>
        \/ shown[f] = doc[f].text
        \/ scan.at = "none" /\ cut
        \/ scan.at = "revalidate" /\ f \in scan.todo /\ doc[f].version = scan.docs[f].version
        \/ scan.at \notin {"none", "revalidate"}

\* What a scan indexes was closed when it looked.
TodoClosed == scan.at = "index" => scan.todo \cap scan.open = {}

ScanInv == /\ ScanTyped /\ JobsFit /\ VersionsFresh /\ SnapshotFits /\ BufferShown
           /\ TodoClosed /\ Workspace!ShownAreTracked

LEMMA ScanInit == Workspace!Init => ScanInv
<1>1. SUFFICES ASSUME Workspace!Init PROVE ScanInv
  OBVIOUS
<1>2. ScanTyped
  BY <1>1 DEF Workspace!Init, Workspace!Closed, Workspace!NoJob, Workspace!NoScan, ScanTyped, DocTypes, JobTypes, TextOrNone, ScanShape
<1>3. JobsFit /\ VersionsFresh /\ SnapshotFits /\ BufferShown /\ TodoClosed /\ Workspace!ShownAreTracked
  BY <1>1 DEF Workspace!Init, Workspace!Closed, Workspace!NoJob, Workspace!NoScan, JobsFit, VersionsFresh, SnapshotFits,
     BufferShown, TodoClosed, Workspace!ShownAreTracked
<1> QED
  BY <1>2, <1>3 DEF ScanInv

\* What the steps of one document do to it; they leave the others alone.
LEMMA DocumentEffect ==
    ASSUME ScanTyped, NEW f \in Uris,
           Workspace!DidOpen(f) \/ Workspace!DidChange(f) \/ Workspace!Validate(f)
             \/ Workspace!Publish(f) \/ Workspace!DidClose(f)
    PROVE  /\ ScanTyped'
           /\ \A g \in Uris \ {f} : doc'[g] = doc[g] /\ job'[g] = job[g] /\ shown'[g] = shown[g]
           /\ UNCHANGED <<scan, tracked, cut>>
           /\ \/ /\ doc'[f].open /\ clock' = clock + 1 /\ doc'[f].version = clock'
                 /\ job'[f].at = "due" /\ job'[f].text = doc'[f].text
              \/ /\ job[f].at = "due" /\ job'[f].at = "validated" /\ job'[f].text = job[f].text
                 /\ UNCHANGED <<doc, shown, clock>>
              \/ /\ job[f].at = "validated" /\ job'[f] = Workspace!NoJob /\ shown'[f] = job[f].text
                 /\ UNCHANGED clock /\ doc'[f].open = doc[f].open
                 /\ doc'[f].text = doc[f].text /\ doc'[f].version = doc[f].version
              \/ /\ doc'[f] = Workspace!Closed /\ job'[f] = Workspace!NoJob /\ shown'[f] = Absent
                 /\ UNCHANGED clock
<1>1. CASE Workspace!DidOpen(f) \/ Workspace!DidChange(f)
  <2>1. PICK text \in Texts : Workspace!SetText(f, text)
    BY <1>1 DEF Workspace!DidOpen, Workspace!DidChange
  <2>2. /\ clock' = clock + 1 /\ clock' \in Nat
        /\ UNCHANGED <<shown, scan, tracked, cut>>
    BY <2>1 DEF ScanTyped, Workspace!SetText, Workspace!docVars
  <2>3. /\ doc' \in [Uris -> DocTypes]
        /\ \A g \in Uris \ {f} : doc'[g] = doc[g]
        /\ doc'[f].open /\ doc'[f].version = clock' /\ doc'[f].text = text
    <3>1. doc[f] \in DocTypes /\ text \in TextOrNone
      BY DEF ScanTyped, TextOrNone
    <3>2. doc' = [doc EXCEPT ![f].open = TRUE, ![f].text = text, ![f].version = clock + 1]
      BY <2>1 DEF Workspace!SetText
    <3> DEFINE one == [doc EXCEPT ![f].open = TRUE]
               two == [one EXCEPT ![f].text = text]
    <3>3. doc' = [two EXCEPT ![f].version = clock']
      BY <2>2, <3>2
    <3>4. one \in [Uris -> DocTypes] /\ one[f].open /\ \A g \in Uris \ {f} : one[g] = doc[g]
      BY <3>1 DEF ScanTyped, DocTypes
    <3> HIDE DEF one
    <3>5. two \in [Uris -> DocTypes] /\ two[f].open /\ two[f].text = text /\ \A g \in Uris \ {f} : two[g] = doc[g]
      BY <3>1, <3>4 DEF DocTypes
    <3> HIDE DEF two
    <3>6. QED
      BY <2>2, <3>3, <3>5 DEF DocTypes
  <2>4. /\ job' \in [Uris -> JobTypes]
        /\ \A g \in Uris \ {f} : job'[g] = job[g]
        /\ job'[f].at = "due" /\ job'[f].text = text
    BY <2>1, <2>2 DEF ScanTyped, JobTypes, TextOrNone, Workspace!SetText
  <2>5. QED
    BY <2>2, <2>3, <2>4 DEF ScanTyped
<1>2. CASE Workspace!Validate(f)
  BY <1>2 DEF ScanTyped, JobTypes, Workspace!Validate, Workspace!docVars
<1>3. CASE Workspace!Publish(f)
  <2>1. /\ job[f].at = "validated" /\ job' = [job EXCEPT ![f] = Workspace!NoJob]
        /\ doc' = [doc EXCEPT ![f].ast = job[f].text, ![f].astVersion = job[f].version]
        /\ shown' = [shown EXCEPT ![f] = job[f].text] /\ UNCHANGED <<clock, scan, tracked, cut>>
    BY <1>3 DEF Workspace!Publish, Workspace!docVars
  <2>2. /\ doc[f] \in DocTypes /\ job[f].text \in TextOrNone /\ job[f].version \in Nat
        /\ f \in DOMAIN doc /\ f \in DOMAIN job /\ f \in DOMAIN shown
    BY DEF ScanTyped, JobTypes
  <2>3. /\ doc' \in [Uris -> DocTypes] /\ \A g \in Uris \ {f} : doc'[g] = doc[g]
        /\ doc'[f].open = doc[f].open /\ doc'[f].text = doc[f].text /\ doc'[f].version = doc[f].version
    <3> DEFINE one == [doc EXCEPT ![f].ast = job[f].text]
    <3>1. doc' = [one EXCEPT ![f].astVersion = job[f].version]
      BY <2>1, <2>2
    <3>2. /\ one \in [Uris -> DocTypes] /\ \A g \in Uris \ {f} : one[g] = doc[g]
          /\ one[f].open = doc[f].open /\ one[f].text = doc[f].text /\ one[f].version = doc[f].version
      BY <2>2 DEF ScanTyped, DocTypes
    <3> HIDE DEF one
    <3> QED
      BY <2>2, <3>1, <3>2 DEF DocTypes
  <2>4. /\ job' \in [Uris -> JobTypes] /\ job'[f] = Workspace!NoJob
        /\ \A g \in Uris \ {f} : job'[g] = job[g]
    <3>1. Workspace!NoJob \in JobTypes
      BY DEF Workspace!NoJob, JobTypes, TextOrNone
    <3> QED
      BY <2>1, <2>2, <3>1 DEF ScanTyped
  <2>5. /\ shown' = [g \in Uris |-> shown'[g]] /\ shown'[f] = job[f].text
        /\ \A g \in Uris \ {f} : shown'[g] = shown[g]
    BY <2>1, <2>2 DEF ScanTyped
  <2> QED
    BY <2>1, <2>3, <2>4, <2>5 DEF ScanTyped, ScanShape
<1>4. CASE Workspace!DidClose(f)
  <2>1. Workspace!Closed \in DocTypes /\ Workspace!NoJob \in JobTypes
    BY DEF Workspace!Closed, Workspace!NoJob, DocTypes, JobTypes, TextOrNone
  <2>2. /\ doc' = [doc EXCEPT ![f] = Workspace!Closed] /\ job' = [job EXCEPT ![f] = Workspace!NoJob]
        /\ shown' = [shown EXCEPT ![f] = Absent] /\ UNCHANGED <<clock, scan, tracked, cut>>
    BY <1>4 DEF Workspace!DidClose, Workspace!docVars
  <2> QED
    BY <2>1, <2>2 DEF ScanTyped, ScanShape
<1> QED
  BY <1>1, <1>2, <1>3, <1>4

\* Opening, editing, validating and closing keep the invariant.
LEMMA DocumentKeeps ==
    ASSUME ScanInv, NEW f \in Uris,
           Workspace!DidOpen(f) \/ Workspace!DidChange(f) \/ Workspace!Validate(f)
             \/ Workspace!Publish(f) \/ Workspace!DidClose(f)
    PROVE  ScanInv'
<1>1. /\ ScanTyped /\ ScanTyped' /\ UNCHANGED <<scan, tracked, cut>>
      /\ \A g \in Uris \ {f} : doc'[g] = doc[g] /\ job'[g] = job[g] /\ shown'[g] = shown[g]
  BY DocumentEffect DEF ScanInv
<1>2. clock <= clock' /\ clock \in Nat /\ clock' \in Nat
  BY <1>1, DocumentEffect DEF ScanTyped
<1>3. doc[f] \in DocTypes /\ job[f] \in JobTypes /\ doc'[f] \in DocTypes /\ job'[f] \in JobTypes
  BY <1>1 DEF ScanTyped
<1>4. JobsFit'
  <2>1. JobsFit
    BY DEF ScanInv
  <2>2. /\ job'[f].at = "none" => job'[f] = Workspace!NoJob
        /\ job'[f] # Workspace!NoJob => doc'[f].open /\ job'[f].text = doc'[f].text
    BY <1>3, <2>1, DocumentEffect DEF ScanInv, JobsFit, JobTypes, Workspace!NoJob
  <2>3. QED
    BY <1>1, <2>1, <2>2 DEF JobsFit
<1>5. VersionsFresh'
  <2>1. VersionsFresh
    BY DEF ScanInv
  <2>2. doc'[f].version <= clock' /\ (doc'[f].open => doc'[f].version > 0)
    BY <1>2, <1>3, <2>1, DocumentEffect DEF ScanInv, VersionsFresh, DocTypes, Workspace!Closed
  <2>3. \A g \in Uris : doc[g].version \in Nat
    BY <1>1 DEF ScanTyped, DocTypes
  <2>4. QED
    BY <1>1, <1>2, <2>1, <2>2, <2>3 DEF VersionsFresh
<1>6. SnapshotFits'
  <2>1. SUFFICES ASSUME scan.at = "revalidate", NEW g \in Uris
                 PROVE  /\ scan.docs[g].version \in Nat /\ scan.docs[g].version <= clock'
                        /\ doc'[g].open /\ doc'[g].version = scan.docs[g].version => doc'[g].text = scan.docs[g].text
    BY <1>1 DEF SnapshotFits
  <2>2. /\ scan.docs[g].version \in Nat /\ scan.docs[g].version <= clock
        /\ doc[g].open /\ doc[g].version = scan.docs[g].version => doc[g].text = scan.docs[g].text
    BY <2>1 DEF ScanInv, SnapshotFits
  <2>3. CASE g = f
    BY <1>2, <1>3, <2>2, <2>3, DocumentEffect DEF ScanInv, Workspace!Closed
  <2>4. CASE g # f
    BY <1>1, <1>2, <2>2, <2>4
  <2>5. QED
    BY <2>3, <2>4
<1>7. BufferShown'
  <2>1. SUFFICES ASSUME NEW g \in Uris, doc'[g].open, job'[g] = Workspace!NoJob
                 PROVE  \/ shown'[g] = doc'[g].text
                        \/ scan.at = "none" /\ cut
                        \/ scan.at = "revalidate" /\ g \in scan.todo /\ doc'[g].version = scan.docs[g].version
                        \/ scan.at \notin {"none", "revalidate"}
    BY <1>1 DEF BufferShown
  <2>2. CASE g = f
    <3>1. job[f].at = "validated" => job[f].text = doc[f].text
      BY DEF ScanInv, JobsFit, Workspace!NoJob
    <3>2. QED
      BY <2>1, <2>2, <3>1, DocumentEffect DEF ScanInv, Workspace!NoJob, Workspace!Closed
  <2>3. CASE g # f
    BY <1>1, <2>1, <2>3 DEF ScanInv, BufferShown
  <2>4. QED
    BY <2>2, <2>3
<1>8. TodoClosed'
  BY <1>1 DEF ScanInv, TodoClosed
<1>9. Workspace!ShownAreTracked'
  <2>1. SUFFICES ASSUME NEW g \in Uris, ~doc'[g].open, shown'[g] # Absent PROVE g \in tracked
    BY <1>1 DEF Workspace!ShownAreTracked
  <2>2. CASE g = f
    <3>1. job[f].at \in {"due", "validated"} => doc[f].open
      BY DEF ScanInv, JobsFit, Workspace!NoJob
    <3>2. QED
      BY <2>1, <2>2, <3>1, DocumentEffect DEF ScanInv, Workspace!ShownAreTracked, Workspace!Closed
  <2>3. CASE g # f
    BY <1>1, <2>1, <2>3 DEF ScanInv, Workspace!ShownAreTracked
  <2>4. QED
    BY <2>2, <2>3
<1> QED
  BY <1>1, <1>4, <1>5, <1>6, <1>7, <1>8, <1>9 DEF ScanInv

\* A step of the scan leaves the documents and their validations alone.
ScanStep(f) == \/ Workspace!IndexFile(f) \/ Workspace!PublishClosed(f) \/ Workspace!Revalidate(f)
ScanStage == \/ Workspace!StartScan \/ Workspace!SnapshotOpen \/ Workspace!ParseFiles \/ Workspace!Prune
             \/ Workspace!ClearStale \/ Workspace!SnapshotDocs \/ Workspace!EndScan \/ Workspace!CancelScan

LEMMA ScanEffect ==
    ASSUME ScanTyped, ScanStage \/ \E f \in Uris : ScanStep(f)
    PROVE  UNCHANGED <<doc, job, clock>> /\ ScanTyped'
<1>1. UNCHANGED <<doc, job, clock>>
  BY DEF ScanStep, ScanStage, Workspace!IndexFile, Workspace!PublishClosed, Workspace!Revalidate, Workspace!StartScan,
     Workspace!SnapshotOpen, Workspace!ParseFiles, Workspace!Prune, Workspace!ClearStale, Workspace!SnapshotDocs,
     Workspace!EndScan, Workspace!CancelScan, Workspace!scanVars
<1>2. shown' = [g \in Uris |-> shown'[g]]
  BY DEF ScanTyped, ScanStep, ScanStage, Workspace!IndexFile, Workspace!PublishClosed, Workspace!Revalidate, Workspace!StartScan,
     Workspace!SnapshotOpen, Workspace!ParseFiles, Workspace!Prune, Workspace!ClearStale, Workspace!SnapshotDocs,
     Workspace!EndScan, Workspace!CancelScan
<1>3. ScanShape(scan')
  BY DEF ScanTyped, ScanShape, ScanStep, ScanStage, Workspace!NoScan, Workspace!IndexFile, Workspace!PublishClosed, Workspace!Revalidate, Workspace!StartScan,
     Workspace!SnapshotOpen, Workspace!ParseFiles, Workspace!Prune, Workspace!ClearStale, Workspace!SnapshotDocs,
     Workspace!EndScan, Workspace!CancelScan
<1> QED
  BY <1>1, <1>2, <1>3 DEF ScanTyped, ScanShape

\* Where each step takes the scan.
LEMMA ScanMoves ==
    ASSUME ScanTyped
    PROVE  /\ Workspace!StartScan =>
                \/ scan' = scan /\ UNCHANGED <<shown, cut>>
                \/ scan'.at = "parse"
           /\ Workspace!SnapshotOpen => scan'.at = "read"
           /\ Workspace!ParseFiles =>
                scan'.at = "index" /\ scan'.todo = scan.found \ scan.open /\ scan'.open = scan.open
           /\ Workspace!Prune => scan'.at = "publish"
           /\ Workspace!ClearStale => scan'.at = "snapshot"
           /\ Workspace!SnapshotDocs => scan'.at = "revalidate"
           /\ Workspace!EndScan => scan'.at = "none"
           /\ Workspace!CancelScan => scan'.at = "none" /\ cut' = TRUE
           /\ \A f \in Uris :
                /\ Workspace!IndexFile(f) =>
                     scan.at = "index" /\ scan'.at = "index" /\ scan'.open = scan.open /\ scan'.todo \subseteq scan.todo
                /\ Workspace!PublishClosed(f) => scan'.at = "publish"
                /\ Workspace!Revalidate(f) => scan'.at = "revalidate"
<1>1. Workspace!StartScan => (scan' = scan /\ UNCHANGED <<shown, cut>>) \/ scan'.at = "parse"
  BY DEF Workspace!StartScan, Workspace!NoScan
<1>2. Workspace!SnapshotOpen => scan'.at = "read"
  BY DEF ScanTyped, ScanShape, Workspace!SnapshotOpen
<1>3. Workspace!ParseFiles =>
        scan'.at = "index" /\ scan'.todo = scan.found \ scan.open /\ scan'.open = scan.open
  BY DEF ScanTyped, ScanShape, Workspace!ParseFiles
<1>4. Workspace!Prune => scan'.at = "publish"
  BY DEF ScanTyped, ScanShape, Workspace!Prune
<1>5. Workspace!ClearStale => scan'.at = "snapshot"
  BY DEF ScanTyped, ScanShape, Workspace!ClearStale
<1>6. Workspace!SnapshotDocs => scan'.at = "revalidate"
  BY DEF ScanTyped, ScanShape, Workspace!SnapshotDocs
<1>7. /\ Workspace!EndScan => scan'.at = "none"
      /\ Workspace!CancelScan => scan'.at = "none" /\ cut' = TRUE
  BY DEF Workspace!EndScan, Workspace!CancelScan, Workspace!NoScan
<1>8. ASSUME NEW f \in Uris
      PROVE  /\ Workspace!IndexFile(f) =>
                  scan.at = "index" /\ scan'.at = "index" /\ scan'.open = scan.open /\ scan'.todo \subseteq scan.todo
             /\ Workspace!PublishClosed(f) => scan'.at = "publish"
             /\ Workspace!Revalidate(f) => scan'.at = "revalidate"
  BY DEF ScanTyped, ScanShape, Workspace!IndexFile, Workspace!PublishClosed, Workspace!Revalidate
<1> QED
  BY <1>1, <1>2, <1>3, <1>4, <1>5, <1>6, <1>7, <1>8

\* What a scan may do before it has taken its snapshot of the documents: it
\* publishes what it tracks, and clears.
LEMMA ScanPublishes ==
    ASSUME ScanInv, ScanStage \/ \E f \in Uris : ScanStep(f)
    PROVE  Workspace!ShownAreTracked'
<1>1. UNCHANGED <<doc, job, clock>> /\ ScanTyped
  BY ScanEffect DEF ScanInv
<1>2. \A g \in Uris : shown'[g] # Absent /\ ~doc[g].open =>
                      (shown'[g] = shown[g] /\ (g \in tracked => g \in tracked')) \/ g \in tracked'
  <2>1. CASE ScanStage
    BY <1>1, <2>1 DEF ScanTyped, ScanStage, Workspace!StartScan,
       Workspace!SnapshotOpen, Workspace!ParseFiles, Workspace!Prune, Workspace!ClearStale, Workspace!SnapshotDocs,
       Workspace!EndScan, Workspace!CancelScan
  <2>2. ASSUME NEW f \in Uris, Workspace!IndexFile(f) \/ Workspace!PublishClosed(f)
        PROVE  \A g \in Uris : shown'[g] # Absent =>
                                  (shown'[g] = shown[g] /\ (g \in tracked => g \in tracked')) \/ g \in tracked'
    BY <1>1, <2>2 DEF ScanTyped, Workspace!IndexFile, Workspace!PublishClosed
  <2>3. ASSUME NEW f \in Uris, Workspace!Revalidate(f)
        PROVE  \A g \in Uris : ~doc[g].open => shown'[g] = shown[g] /\ tracked' = tracked
    BY <1>1, <2>3 DEF ScanTyped, Workspace!Revalidate, Workspace!Current
  <2>4. QED
    BY <2>1, <2>2, <2>3 DEF ScanStep
<1>3. QED
  BY <1>1, <1>2 DEF ScanInv, Workspace!ShownAreTracked

\* The snapshot of the documents is what they are, and stays behind them.
LEMMA ScanSnapshots ==
    ASSUME ScanInv, ScanStage \/ \E f \in Uris : ScanStep(f)
    PROVE  SnapshotFits'
<1>1. UNCHANGED <<doc, job, clock>> /\ ScanTyped
  BY ScanEffect DEF ScanInv
<1>2. CASE Workspace!SnapshotDocs
  BY <1>1, <1>2 DEF ScanInv, ScanTyped, ScanShape, DocTypes, SnapshotFits, VersionsFresh, Workspace!SnapshotDocs
<1>3. ASSUME NEW f \in Uris, Workspace!Revalidate(f) PROVE SnapshotFits'
  BY <1>1, <1>3 DEF ScanInv, ScanTyped, ScanShape, SnapshotFits, Workspace!Revalidate
<1>4. CASE (ScanStage /\ ~Workspace!SnapshotDocs) \/ \E f \in Uris : Workspace!IndexFile(f) \/ Workspace!PublishClosed(f)
  <2>1. scan'.at # "revalidate" \/ scan' = scan
    BY <1>1, <1>4, ScanMoves DEF ScanStage
  <2>2. QED
    BY <1>1, <2>1 DEF ScanInv, SnapshotFits
<1>5. QED
  BY <1>2, <1>3, <1>4 DEF ScanStep

\* The pass over the open documents repairs what the scan showed before it.
LEMMA ScanRepairs ==
    ASSUME ScanInv, ScanStage \/ \E f \in Uris : ScanStep(f)
    PROVE  BufferShown'
<1>1. UNCHANGED <<doc, job, clock>> /\ ScanTyped /\ BufferShown
  BY ScanEffect DEF ScanInv
<1>2. CASE Workspace!SnapshotDocs
  BY <1>1, <1>2 DEF ScanTyped, ScanShape, BufferShown, Workspace!SnapshotDocs, Workspace!OpenUris
<1>3. ASSUME NEW f \in Uris, Workspace!Revalidate(f) PROVE BufferShown'
  <2>1. /\ scan.at = "revalidate" /\ scan'.at = "revalidate" /\ scan'.docs = scan.docs
        /\ f \in scan.todo /\ scan'.todo = scan.todo \ {f}
        /\ \A g \in Uris \ {f} : shown'[g] = shown[g]
        /\ shown'[f] = IF Workspace!Current(f) THEN scan.docs[f].text ELSE shown[f]
    BY <1>1, <1>3 DEF ScanTyped, ScanShape, Workspace!Revalidate
  <2>2. \A g \in Uris \ {f} : g \in scan.todo => g \in scan'.todo
    BY <2>1
  <2>3. Workspace!Current(f) => shown'[f] = doc[f].text
    BY <2>1 DEF ScanInv, SnapshotFits, Workspace!Current
  <2>4. doc[f].open /\ ~Workspace!Current(f) => doc[f].version # scan.docs[f].version /\ shown'[f] = shown[f]
    BY <2>1 DEF Workspace!Current
  <2>5. QED
    BY <1>1, <2>1, <2>2, <2>3, <2>4 DEF BufferShown
<1>4. CASE Workspace!EndScan
  <2>1. scan.at = "revalidate" /\ scan.todo = {} /\ UNCHANGED shown
    BY <1>4 DEF Workspace!EndScan
  <2>2. QED
    BY <1>1, <2>1 DEF BufferShown
<1>5. CASE \/ Workspace!StartScan \/ Workspace!SnapshotOpen \/ Workspace!ParseFiles \/ Workspace!Prune \/ Workspace!ClearStale
           \/ Workspace!CancelScan \/ \E f \in Uris : Workspace!IndexFile(f) \/ Workspace!PublishClosed(f)
  <2>1. \/ scan'.at \notin {"none", "revalidate"}
        \/ scan'.at = "none" /\ cut' = TRUE
        \/ scan' = scan /\ shown' = shown /\ cut' = cut
    BY <1>5, ScanMoves DEF ScanInv
  <2>2. QED
    BY <1>1, <2>1 DEF BufferShown
<1>6. QED
  BY <1>2, <1>3, <1>4, <1>5 DEF ScanStep, ScanStage

\* A scan indexes what was closed when it looked, and nothing else.
LEMMA ScanLooks ==
    ASSUME ScanInv, ScanStage \/ \E f \in Uris : ScanStep(f)
    PROVE  TodoClosed'
<1>1. ScanTyped /\ TodoClosed
  BY DEF ScanInv
<1>2. \/ scan'.at # "index"
      \/ scan'.at = "index" /\ scan'.todo = scan.found \ scan.open /\ scan'.open = scan.open
      \/ scan.at = "index" /\ scan'.open = scan.open /\ scan'.todo \subseteq scan.todo
      \/ scan' = scan
  BY <1>1, ScanMoves DEF ScanStep, ScanStage
<1>3. QED
  BY <1>1, <1>2 DEF TodoClosed

\* What the invariant speaks of: neither the disk, nor the index, nor the bounds.
scanSeen == <<doc, job, shown, tracked, scan, clock, cut>>

LEMMA ScanStutters == ASSUME ScanInv, UNCHANGED scanSeen PROVE ScanInv'
<1>1. ScanTyped' /\ JobsFit' /\ VersionsFresh' /\ SnapshotFits'
  BY DEF ScanInv, scanSeen, ScanTyped, ScanShape, JobsFit, VersionsFresh, SnapshotFits
<1>2. BufferShown' /\ TodoClosed' /\ Workspace!ShownAreTracked'
  BY DEF ScanInv, scanSeen, BufferShown, TodoClosed, Workspace!ShownAreTracked
<1>3. QED
  BY <1>1, <1>2 DEF ScanInv

LEMMA NextScan == ASSUME ScanInv, Workspace!Next PROVE ScanInv'
<1>1. CASE ScanStage \/ \E f \in Uris : ScanStep(f)
  <2>1. UNCHANGED <<doc, job, clock>> /\ ScanTyped'
    BY <1>1, ScanEffect DEF ScanInv
  <2>2. JobsFit' /\ VersionsFresh'
    BY <2>1 DEF ScanInv, JobsFit, VersionsFresh
  <2>3. QED
    BY <1>1, <2>1, <2>2, ScanPublishes, ScanSnapshots, ScanRepairs, ScanLooks DEF ScanInv
<1>2. ASSUME NEW f \in Uris,
             Workspace!DidOpen(f) \/ Workspace!DidChange(f) \/ Workspace!Validate(f)
               \/ Workspace!Publish(f) \/ Workspace!DidClose(f)
      PROVE  ScanInv'
  BY <1>2, DocumentKeeps
<1>3. CASE Workspace!ChangeSettings \/ \E f \in Uris : Workspace!WriteDisk(f)
  <2>1. UNCHANGED scanSeen
    BY <1>3 DEF scanSeen, Workspace!ChangeSettings, Workspace!WriteDisk
  <2>2. QED
    BY <2>1, ScanStutters
<1> QED
  BY <1>1, <1>2, <1>3 DEF Workspace!Next, Workspace!FileStep, ScanStep, ScanStage

LEMMA ScanCorrect == MCSpec => []ScanInv
<1>1. MCInit => ScanInv
  BY ScanInit DEF MCInit
<1>2. ScanInv /\ [MCNext]_mcVars => ScanInv'
  <2>1. [MCNext]_mcVars => Workspace!Next \/ UNCHANGED otherScanVars
    BY DEF MCNext, mcVars, scanVars
  <2>2. UNCHANGED otherScanVars => UNCHANGED scanSeen
    BY DEF otherScanVars, scanSeen
  <2>3. QED
    BY <2>1, <2>2, NextScan, ScanStutters
<1> QED
  BY <1>1, <1>2, PTL DEF MCSpec

\* Whatever is opened, edited, closed and saved while scans run, are cancelled
\* and spend their budget, diagnostics the client shows for a file no editor
\* holds are on the list of those a later scan takes off again.
THEOREM ShownAreTrackedHolds == MCSpec => []ShownAreTracked
<1>1. ScanInv => ShownAreTracked
  BY DEF ScanInv, ShownAreTracked
<1> QED
  BY <1>1, ScanCorrect, PTL

\* After a scan that ran to its end an open document that no validation is under
\* way for shows the diagnostics of its own text, whatever the scan published or
\* cleared for it before: it was edited since the pass looked, or the pass came to it.
THEOREM OpenShowBufferHolds == MCSpec => []OpenShowBuffer
<1>1. ScanInv => OpenShowBuffer
  BY DEF ScanInv, BufferShown, OpenShowBuffer, Workspace!OpenShowBuffer
<1> QED
  BY <1>1, ScanCorrect, PTL

\* The index entry of a document that was open when a scan looked stays the one
\* its buffer made while the document is open: neither pass and no prune replaces it.
THEOREM SnapshotKeptHolds == MCSpec => SnapshotKept
<1>1. ScanInv /\ [MCNext]_mcVars =>
        [\A f \in Uris : f \in scan.open /\ f \in indexed /\ doc'[f].open => f \in indexed']_Workspace!vars
  <2>1. SUFFICES ASSUME ScanInv, [MCNext]_mcVars, NEW f \in Uris,
                        f \in scan.open, f \in indexed, doc'[f].open
                 PROVE  f \in indexed'
    OBVIOUS
  <2>2. CASE indexed' = indexed
    BY <2>1, <2>2
  <2>3. CASE Workspace!Next
    <3>1. ASSUME NEW g \in Uris, Workspace!FileStep(g) PROVE f \in indexed'
      <4>1. CASE Workspace!DidClose(g)
        BY <2>1, <4>1 DEF ScanInv, ScanTyped, Workspace!DidClose, Workspace!Closed
      <4>2. CASE Workspace!IndexFile(g)
        BY <2>1, <4>2 DEF ScanInv, TodoClosed, Workspace!IndexFile
      <4>3. CASE Workspace!Validate(g) \/ Workspace!Revalidate(g)
        BY <2>1, <4>3 DEF Workspace!Validate, Workspace!Revalidate
      <4>4. CASE \/ Workspace!DidOpen(g) \/ Workspace!DidChange(g) \/ Workspace!Publish(g)
                 \/ Workspace!WriteDisk(g) \/ Workspace!PublishClosed(g)
        BY <2>1, <4>4 DEF Workspace!DidOpen, Workspace!DidChange, Workspace!SetText, Workspace!Publish, Workspace!WriteDisk, Workspace!PublishClosed
      <4>5. QED
        BY <3>1, <4>1, <4>2, <4>3, <4>4 DEF Workspace!FileStep
    <3>2. CASE Workspace!Prune
      BY <2>1, <3>2 DEF Workspace!Prune, Workspace!Stale
    <3>3. QED
      BY <2>1, <2>3, <3>1, <3>2 DEF Workspace!Next, Workspace!StartScan, Workspace!ChangeSettings,
         Workspace!SnapshotOpen, Workspace!ParseFiles, Workspace!ClearStale, Workspace!SnapshotDocs,
         Workspace!EndScan, Workspace!CancelScan
  <2>4. QED
    BY <2>1, <2>2, <2>3 DEF MCNext, mcVars, scanVars, otherScanVars
<1>2. QED
  BY <1>1, ScanCorrect, PTL DEF MCSpec, SnapshotKept, Workspace!SnapshotKept

-----------------------------------------------------------------------------
(* Edits of the workspace                                                  *)

VersionedTexts == [version : Nat, text : TextOrNone]
NoteTypes == [file : Uris, document : VersionedTexts]
PublishTypes == [file : Uris, version : Nat, text : TextOrNone]
FixTypes == [version : Nat, hash : TextOrNone, madeFor : TextOrNone]

\* Fixes and texts a command holds, of some of the files.
FixesTyped(fixes) == DOMAIN fixes \subseteq Uris /\ \A f \in DOMAIN fixes : fixes[f] \in FixTypes
TextsTyped(texts) == DOMAIN texts \subseteq Uris /\ \A f \in DOMAIN texts : texts[f] \in VersionedTexts

EditsTyped ==
    /\ disk \in [Uris -> TextOrNone]
    /\ buffer \in [Uris -> VersionedTexts] /\ known \in [Uris -> VersionedTexts]
    /\ issued \in [Uris -> Nat]
    /\ inbox \in Seq(NoteTypes) /\ publishes \subseteq PublishTypes
    /\ fixable \in [Uris -> FixTypes]
    /\ fixAll.at \in {"idle", "copied", "reading", "sent"}
    /\ fixAll.at \in {"copied", "reading"} => FixesTyped(fixAll.fixes)
    /\ fixAll.at = "reading" => TextsTyped(fixAll.texts)
    /\ \A edit \in sent : edit.by = "fixAll" => DOMAIN edit.files \subseteq Uris

\* A fix of a file that was not open is for the text that has its hash.
Hashed(fix) == fix.version = 0 => fix.hash = fix.madeFor
FixesHashed ==
    /\ \A f \in Uris : Hashed(fixable[f])
    /\ fixAll.at \in {"copied", "reading"} => \A f \in DOMAIN fixAll.fixes : Hashed(fixAll.fixes[f])

\* Wherever a version of a file is spoken of, and with which text.
InInbox(f, v, t) == \E i \in 1..Len(inbox) : inbox[i] = [file |-> f, document |-> [version |-> v, text |-> t]]
InFixAll(f, v, t) ==
    \/ /\ fixAll.at \in {"copied", "reading"} /\ f \in DOMAIN fixAll.fixes
       /\ fixAll.fixes[f].version = v /\ fixAll.fixes[f].madeFor = t
    \/ /\ fixAll.at = "reading" /\ f \in DOMAIN fixAll.texts
       /\ fixAll.texts[f].version = v /\ fixAll.texts[f].text = t
InSent(f, v, t) == \E edit \in sent : /\ edit.by = "fixAll" /\ f \in DOMAIN edit.files
                                     /\ edit.files[f].version = v /\ edit.files[f].madeFor = t
Spoken(f, v, t) ==
    \/ buffer[f].version = v /\ buffer[f].text = t
    \/ InInbox(f, v, t)
    \/ known[f].version = v /\ known[f].text = t
    \/ [file |-> f, version |-> v, text |-> t] \in publishes
    \/ fixable[f].version = v /\ fixable[f].madeFor = t
    \/ InFixAll(f, v, t)
    \/ InSent(f, v, t)

\* A version number stands for one text, wherever it has got to.
VersionsAgree ==
    \A f \in Uris, v \in Nat \ {0} : \A t : Spoken(f, v, t) =>
        /\ v <= issued[f]
        /\ \A u : Spoken(f, v, u) => u = t

EditInv == EditsTyped /\ FixesHashed /\ VersionsAgree

\* Nothing is said of a version that was not said before, but for a fresh one.
Repeats == \A f \in Uris, v \in Nat \ {0} : \A t : Spoken(f, v, t)' => Spoken(f, v, t)
Adds(g, text) == /\ issued'[g] = issued[g] + 1 /\ \A f \in Uris \ {g} : issued'[f] = issued[f]
                 /\ \A f \in Uris, v \in Nat \ {0} : \A t :
                        Spoken(f, v, t)' => Spoken(f, v, t) \/ (f = g /\ v = issued[g] + 1 /\ t = text)

LEMMA AgreementKept ==
    ASSUME EditsTyped, VersionsAgree, (Repeats /\ issued' = issued) \/ \E g \in Uris, text \in TextOrNone : Adds(g, text)
    PROVE  VersionsAgree'
<1>1. CASE Repeats /\ issued' = issued
  BY <1>1 DEF VersionsAgree, Repeats
<1>2. ASSUME NEW g \in Uris, NEW text \in TextOrNone, Adds(g, text) PROVE VersionsAgree'
  <2>1. SUFFICES ASSUME NEW f \in Uris, NEW v \in Nat \ {0}, NEW t, Spoken(f, v, t)',
                        NEW u, Spoken(f, v, u)'
                 PROVE  v <= issued'[f] /\ u = t
    BY DEF VersionsAgree
  <2>2. issued[f] \in Nat /\ issued'[f] \in Nat /\ issued[f] <= issued'[f]
    BY <1>2 DEF EditsTyped, Adds
  <2>3. Spoken(f, v, t) \/ (f = g /\ v = issued[g] + 1 /\ t = text)
    BY <1>2, <2>1 DEF Adds
  <2>4. Spoken(f, v, u) \/ (f = g /\ v = issued[g] + 1 /\ u = text)
    BY <1>2, <2>1 DEF Adds
  <2>5. \A w : Spoken(f, v, w) => v <= issued[f]
    BY DEF VersionsAgree
  <2>6. CASE Spoken(f, v, t) /\ Spoken(f, v, u)
    <3>1. v <= issued[f] /\ \A w : Spoken(f, v, w) => w = t
      BY <2>6 DEF VersionsAgree
    <3>2. QED
      BY <2>2, <2>6, <3>1
  <2>7. CASE f = g /\ v = issued[g] + 1
    <3>1. v = issued'[f] /\ ~(v <= issued[f])
      BY <1>2, <2>2, <2>7 DEF Adds
    <3>2. t = text /\ u = text
      BY <2>3, <2>4, <2>5, <3>1
    <3>3. QED
      BY <2>2, <3>1, <3>2
  <2>8. QED
    BY <2>3, <2>4, <2>6, <2>7
<1>3. QED
  BY <1>1, <1>2

\* What a notification adds, and what is left of the others.
LEMMA InboxGrows ==
    ASSUME inbox \in Seq(NoteTypes), NEW note \in NoteTypes, inbox' = Append(inbox, note)
    PROVE  /\ inbox' \in Seq(NoteTypes)
           /\ \A f, v, t : InInbox(f, v, t)' =>
                InInbox(f, v, t) \/ note = [file |-> f, document |-> [version |-> v, text |-> t]]
<1>1. inbox' \in Seq(NoteTypes) /\ Len(inbox) \in Nat /\ Len(inbox') = Len(inbox) + 1
      /\ inbox'[Len(inbox) + 1] = note /\ \A i \in 1..Len(inbox) : inbox'[i] = inbox[i]
  OBVIOUS
<1>2. \A i \in 1..Len(inbox') : i \in 1..Len(inbox) \/ i = Len(inbox) + 1
  BY <1>1
<1> QED
  BY <1>1, <1>2 DEF InInbox

LEMMA InboxShrinks ==
    ASSUME inbox \in Seq(NoteTypes), inbox # <<>>, inbox' = Tail(inbox)
    PROVE  /\ inbox' \in Seq(NoteTypes) /\ Head(inbox) \in NoteTypes
           /\ \A f, v, t : InInbox(f, v, t)' => InInbox(f, v, t)
           /\ \A f, v, t : Head(inbox) = [file |-> f, document |-> [version |-> v, text |-> t]] => InInbox(f, v, t)
<1>1. inbox' \in Seq(NoteTypes) /\ Len(inbox) \in Nat \ {0} /\ Len(inbox') = Len(inbox) - 1
      /\ Head(inbox) = inbox[1] /\ \A i \in 1..Len(inbox') : inbox'[i] = inbox[i + 1]
  OBVIOUS
<1>2. \A i \in 1..Len(inbox') : i + 1 \in 1..Len(inbox)
  BY <1>1
<1>3. 1 \in 1..Len(inbox) /\ Head(inbox) \in NoteTypes
  BY <1>1
<1> QED
  BY <1>1, <1>2, <1>3 DEF InInbox

\* The client: a text it did not show before has a version of its own.
ClientStep(f) == Edits!DidOpen(f) \/ Edits!DidChange(f) \/ Edits!DidClose(f) \/ Edits!WriteDisk(f)

LEMMA EditAdds ==
    ASSUME EditsTyped, NEW g \in Uris, NEW text \in TextOrNone, Edits!Edit(g, text), UNCHANGED <<disk, sent>>,
           UNCHANGED Edits!clientVars
    PROVE  EditsTyped' /\ Adds(g, text)
<1> DEFINE note == [file |-> g, document |-> [version |-> issued[g] + 1, text |-> text]]
<1>1. /\ issued' = [issued EXCEPT ![g] = @ + 1] /\ UNCHANGED <<known, publishes, fixable, fixAll, renaming>>
      /\ buffer' = [buffer EXCEPT ![g] = [version |-> issued[g] + 1, text |-> text]]
      /\ inbox' = Append(inbox, [file |-> g, document |-> buffer'[g]])
  BY DEF Edits!Edit, Edits!Notify, Edits!clientVars
<1>2. /\ issued' \in [Uris -> Nat] /\ issued'[g] = issued[g] + 1
      /\ \A f \in Uris \ {g} : issued'[f] = issued[f]
  BY <1>1 DEF EditsTyped
<1>3. issued[g] + 1 \in Nat /\ [version |-> issued[g] + 1, text |-> text] \in VersionedTexts
  BY DEF EditsTyped, VersionedTexts
<1>4. /\ buffer' \in [Uris -> VersionedTexts] /\ buffer'[g] = [version |-> issued[g] + 1, text |-> text]
      /\ \A f \in Uris \ {g} : buffer'[f] = buffer[f]
  BY <1>1, <1>3 DEF EditsTyped
<1>5. note \in NoteTypes /\ inbox' = Append(inbox, note)
  BY <1>1, <1>3, <1>4 DEF NoteTypes
<1> HIDE DEF note
<1>6. /\ inbox' \in Seq(NoteTypes)
      /\ \A f, v, t : InInbox(f, v, t)' =>
           InInbox(f, v, t) \/ note = [file |-> f, document |-> [version |-> v, text |-> t]]
  BY <1>5, InboxGrows DEF EditsTyped
<1>7. EditsTyped'
  BY <1>1, <1>2, <1>4, <1>6 DEF EditsTyped
<1>8. ASSUME NEW f \in Uris, NEW v \in Nat \ {0}, NEW t, Spoken(f, v, t)'
      PROVE  Spoken(f, v, t) \/ (f = g /\ v = issued[g] + 1 /\ t = text)
  <2>1. note = [file |-> f, document |-> [version |-> v, text |-> t]] => f = g /\ v = issued[g] + 1 /\ t = text
    BY DEF note
  <2>2. buffer'[f].version = v /\ buffer'[f].text = t =>
          (buffer[f].version = v /\ buffer[f].text = t) \/ (f = g /\ v = issued[g] + 1 /\ t = text)
    BY <1>4
  <2>3. InFixAll(f, v, t)' => InFixAll(f, v, t)
    BY <1>1 DEF InFixAll
  <2>4. InSent(f, v, t)' => InSent(f, v, t)
    BY DEF InSent
  <2>5. InInbox(f, v, t)' => InInbox(f, v, t) \/ (f = g /\ v = issued[g] + 1 /\ t = text)
    BY <1>6, <2>1
  <2>6. QED
    BY <1>1, <1>8, <2>2, <2>3, <2>4, <2>5 DEF Spoken
<1> QED
  BY <1>2, <1>7, <1>8 DEF Adds

LEMMA ClientKeeps ==
    ASSUME EditInv, NEW g \in Uris, ClientStep(g)
    PROVE  EditInv'
<1>1. EditsTyped /\ FixesHashed /\ VersionsAgree
  BY DEF EditInv
<1>2. UNCHANGED <<fixable, fixAll>>
  BY DEF ClientStep, Edits!DidOpen, Edits!DidChange, Edits!DidClose, Edits!WriteDisk, Edits!clientVars
<1>3. FixesHashed'
  BY <1>1, <1>2 DEF FixesHashed, Hashed
<1>4. CASE Edits!DidOpen(g) \/ Edits!DidChange(g)
  <2>1. PICK text \in TextOrNone : Edits!Edit(g, text)
    BY <1>1, <1>4 DEF EditsTyped, TextOrNone, Edits!DidOpen, Edits!DidChange
  <2>2. UNCHANGED <<disk, sent>> /\ UNCHANGED Edits!clientVars
    BY <1>4 DEF Edits!DidOpen, Edits!DidChange
  <2>3. EditsTyped' /\ Adds(g, text)
    BY <1>1, <2>1, <2>2, EditAdds
  <2>4. QED
    BY <1>1, <1>3, <2>3, AgreementKept DEF EditInv
<1>5. CASE Edits!WriteDisk(g)
  <2>1. /\ UNCHANGED <<buffer, issued, inbox, sent, known, publishes, fixable, fixAll>>
        /\ disk' \in [Uris -> TextOrNone]
    BY <1>1, <1>5 DEF EditsTyped, TextOrNone, Edits!WriteDisk, Edits!clientVars
  <2>2. EditsTyped'
    BY <1>1, <2>1 DEF EditsTyped
  <2>3. Repeats
    BY <2>1 DEF Repeats, Spoken, InInbox, InFixAll, InSent
  <2>4. QED
    BY <1>1, <1>3, <2>1, <2>2, <2>3, AgreementKept DEF EditInv
<1>6. CASE Edits!DidClose(g)
  <2> DEFINE note == [file |-> g, document |-> [version |-> 0, text |-> Absent]]
  <2>1. /\ UNCHANGED <<disk, issued, sent, known, publishes, fixable, fixAll>>
        /\ buffer' = [buffer EXCEPT ![g] = [version |-> 0, text |-> Absent]]
        /\ inbox' = Append(inbox, [file |-> g, document |-> buffer'[g]])
    BY <1>6 DEF Edits!DidClose, Edits!Notify, Edits!clientVars
  <2>2. [version |-> 0, text |-> Absent] \in VersionedTexts
    BY DEF VersionedTexts, TextOrNone
  <2>3. /\ buffer' \in [Uris -> VersionedTexts] /\ buffer'[g] = [version |-> 0, text |-> Absent]
        /\ \A f \in Uris \ {g} : buffer'[f] = buffer[f]
    BY <1>1, <2>1, <2>2 DEF EditsTyped
  <2>4. note \in NoteTypes /\ inbox' = Append(inbox, note)
    BY <2>1, <2>2, <2>3 DEF NoteTypes
  <2> HIDE DEF note
  <2>5. /\ inbox' \in Seq(NoteTypes)
        /\ \A f, v, t : InInbox(f, v, t)' =>
             InInbox(f, v, t) \/ note = [file |-> f, document |-> [version |-> v, text |-> t]]
    BY <1>1, <2>4, InboxGrows DEF EditsTyped
  <2>6. EditsTyped'
    BY <1>1, <2>1, <2>3, <2>5 DEF EditsTyped
  <2>7. ASSUME NEW f \in Uris, NEW v \in Nat \ {0}, NEW t, Spoken(f, v, t)'
        PROVE  Spoken(f, v, t)
    <3>1. note # [file |-> f, document |-> [version |-> v, text |-> t]]
      BY DEF note
    <3>2. buffer'[f].version = v /\ buffer'[f].text = t => buffer[f].version = v /\ buffer[f].text = t
      BY <2>3
    <3>3. /\ InFixAll(f, v, t)' => InFixAll(f, v, t)
          /\ InSent(f, v, t)' => InSent(f, v, t)
      BY <2>1 DEF InFixAll, InSent
    <3>4. InInbox(f, v, t)' => InInbox(f, v, t)
      BY <2>5, <3>1
    <3>5. QED
      BY <2>1, <2>7, <3>2, <3>3, <3>4 DEF Spoken
  <2>8. QED
    BY <1>1, <1>3, <2>1, <2>6, <2>7, AgreementKept DEF EditInv, Repeats
<1> QED
  BY <1>4, <1>5, <1>6 DEF ClientStep

\* The server's copy, validations and what they publish pass on what they got.
LEMMA ReceiveKeeps == ASSUME EditInv, Edits!Receive PROVE EditInv'
<1> DEFINE note == Head(inbox)
<1>1. EditsTyped /\ FixesHashed /\ VersionsAgree
  BY DEF EditInv
<1>2. /\ inbox # <<>> /\ inbox' = Tail(inbox)
      /\ known' = [known EXCEPT ![note.file] = note.document]
      /\ \/ publishes' = publishes \cup {[file |-> note.file, version |-> 0, text |-> Absent]}
         \/ publishes' = publishes
      /\ UNCHANGED <<disk, buffer, issued, fixable, fixAll, sent>>
  BY DEF Edits!Receive, Edits!otherVars
<1>3. /\ inbox' \in Seq(NoteTypes) /\ note \in NoteTypes
      /\ \A f, v, t : InInbox(f, v, t)' => InInbox(f, v, t)
      /\ \A f, v, t : note = [file |-> f, document |-> [version |-> v, text |-> t]] => InInbox(f, v, t)
  BY <1>1, <1>2, InboxShrinks DEF EditsTyped
<1> HIDE DEF note
<1>4. note.file \in Uris /\ note.document \in VersionedTexts
      /\ note = [file |-> note.file, document |-> [version |-> note.document.version, text |-> note.document.text]]
  BY <1>3 DEF NoteTypes, VersionedTexts
<1>5. known' \in [Uris -> VersionedTexts] /\ known'[note.file] = note.document
      /\ \A f \in Uris \ {note.file} : known'[f] = known[f]
  BY <1>1, <1>2, <1>4 DEF EditsTyped
<1>6. publishes' \subseteq PublishTypes
  BY <1>1, <1>2, <1>4 DEF EditsTyped, PublishTypes, TextOrNone
<1>7. EditsTyped' /\ FixesHashed'
  BY <1>1, <1>2, <1>3, <1>5, <1>6 DEF EditsTyped, FixesHashed, Hashed
<1>8. ASSUME NEW f \in Uris, NEW v \in Nat \ {0}, NEW t, Spoken(f, v, t)'
      PROVE  Spoken(f, v, t)
  <2>1. known'[f].version = v /\ known'[f].text = t =>
          InInbox(f, v, t) \/ (known[f].version = v /\ known[f].text = t)
    BY <1>3, <1>4, <1>5
  <2>2. [file |-> f, version |-> v, text |-> t] \in publishes' => [file |-> f, version |-> v, text |-> t] \in publishes
    BY <1>2
  <2>3. /\ InFixAll(f, v, t)' => InFixAll(f, v, t)
        /\ InSent(f, v, t)' => InSent(f, v, t)
    BY <1>2 DEF InFixAll, InSent
  <2>4. QED
    BY <1>2, <1>3, <1>8, <2>1, <2>2, <2>3 DEF Spoken
<1> QED
  BY <1>1, <1>2, <1>7, <1>8, AgreementKept DEF EditInv, Repeats

LEMMA ValidateKeeps == ASSUME EditInv, NEW g \in Uris, Edits!Validate(g) PROVE EditInv'
<1> DEFINE text == IF known[g] = Edits!Closed THEN disk[g] ELSE known[g].text
<1>1. EditsTyped /\ FixesHashed /\ VersionsAgree
  BY DEF EditInv
<1>2. /\ publishes' = publishes \cup {[file |-> g, version |-> known[g].version, text |-> text]}
      /\ UNCHANGED <<disk, buffer, issued, inbox, known, fixable, fixAll, sent>>
  BY DEF Edits!Validate, Edits!Version, Edits!otherVars
<1>3. text \in TextOrNone /\ known[g].version \in Nat /\ (known[g].version # 0 => text = known[g].text)
  BY <1>1 DEF EditsTyped, VersionedTexts, Edits!Closed
<1> HIDE DEF text
<1>4. EditsTyped' /\ FixesHashed'
  BY <1>1, <1>2, <1>3 DEF EditsTyped, FixesHashed, Hashed, PublishTypes
<1>5. ASSUME NEW f \in Uris, NEW v \in Nat \ {0}, NEW t, Spoken(f, v, t)'
      PROVE  Spoken(f, v, t)
  <2>1. [file |-> f, version |-> v, text |-> t] \in publishes' =>
          [file |-> f, version |-> v, text |-> t] \in publishes \/ (known[f].version = v /\ known[f].text = t)
    BY <1>2, <1>3
  <2>2. /\ InFixAll(f, v, t)' => InFixAll(f, v, t)
        /\ InSent(f, v, t)' => InSent(f, v, t)
        /\ InInbox(f, v, t)' => InInbox(f, v, t)
    BY <1>2 DEF InFixAll, InSent, InInbox
  <2>3. QED
    BY <1>2, <1>5, <2>1, <2>2 DEF Spoken
<1> QED
  BY <1>1, <1>2, <1>4, <1>5, AgreementKept DEF EditInv, Repeats

LEMMA PublishKeeps == ASSUME EditInv, NEW p \in publishes, Edits!PublishFiltered(p) PROVE EditInv'
<1>1. EditsTyped /\ FixesHashed /\ VersionsAgree
  BY DEF EditInv
<1>2. p \in PublishTypes /\ p = [file |-> p.file, version |-> p.version, text |-> p.text]
      /\ p.file \in Uris /\ p.version \in Nat /\ p.text \in TextOrNone
  BY <1>1 DEF EditsTyped, PublishTypes
<1>3. PICK found \in BOOLEAN : fixable' = [fixable EXCEPT ![p.file] = Edits!Store(p, found)]
  BY DEF Edits!PublishFiltered
<1>4. publishes' = publishes \ {p} /\ UNCHANGED <<disk, buffer, issued, inbox, known, fixAll, sent>>
  BY DEF Edits!PublishFiltered, Edits!otherVars
<1>5. /\ Edits!Store(p, found) \in FixTypes /\ Hashed(Edits!Store(p, found))
      /\ Edits!Store(p, found).version # 0 =>
            Edits!Store(p, found).version = p.version /\ Edits!Store(p, found).madeFor = p.text
  BY <1>2 DEF Edits!Store, Edits!NoFix, FixTypes, Hashed, TextOrNone
<1>6. /\ fixable' \in [Uris -> FixTypes] /\ fixable'[p.file] = Edits!Store(p, found)
      /\ \A f \in Uris \ {p.file} : fixable'[f] = fixable[f]
  BY <1>1, <1>2, <1>3, <1>5 DEF EditsTyped
<1>7. EditsTyped' /\ FixesHashed'
  <2>1. EditsTyped'
    BY <1>1, <1>4, <1>6 DEF EditsTyped
  <2>2. \A f \in Uris : Hashed(fixable'[f])
    BY <1>1, <1>5, <1>6 DEF FixesHashed
  <2>3. QED
    BY <1>1, <1>4, <2>1, <2>2 DEF FixesHashed, Hashed
<1>8. ASSUME NEW f \in Uris, NEW v \in Nat \ {0}, NEW t, Spoken(f, v, t)'
      PROVE  Spoken(f, v, t)
  <2>1. fixable'[f].version = v /\ fixable'[f].madeFor = t =>
          [file |-> f, version |-> v, text |-> t] \in publishes \/ (fixable[f].version = v /\ fixable[f].madeFor = t)
    BY <1>2, <1>5, <1>6
  <2>2. /\ InFixAll(f, v, t)' => InFixAll(f, v, t)
        /\ InSent(f, v, t)' => InSent(f, v, t)
        /\ InInbox(f, v, t)' => InInbox(f, v, t)
    BY <1>4 DEF InFixAll, InSent, InInbox
  <2>3. QED
    BY <1>4, <1>8, <2>1, <2>2 DEF Spoken
<1> QED
  BY <1>1, <1>4, <1>7, <1>8, AgreementKept DEF EditInv, Repeats

\* Fixes that were published, and texts the server has or has had, of files.
FixesBacked(fixes) == \A f \in DOMAIN fixes :
    Hashed(fixes[f]) /\ (fixes[f].version # 0 => Spoken(f, fixes[f].version, fixes[f].madeFor))
TextsBacked(texts) == \A f \in DOMAIN texts : texts[f].version # 0 => Spoken(f, texts[f].version, texts[f].text)

\* What is sent is a fix for the text that was read, stamped with its version.
LEMMA PlanKeeps ==
    ASSUME EditInv, NEW fixes, NEW texts, FixesTyped(fixes), TextsTyped(texts), DOMAIN fixes \subseteq DOMAIN texts,
           FixesBacked(fixes), TextsBacked(texts), Edits!Plan(fixes, texts), UNCHANGED Edits!fixVars
    PROVE  EditInv'
<1> DEFINE files == {f \in DOMAIN fixes : Edits!FixableEditsMatch(fixes[f], texts[f])}
           planned == [f \in files |-> Edits!FixesFor(fixes[f], texts[f])]
<1>1. EditsTyped /\ FixesHashed /\ VersionsAgree
  BY DEF EditInv
<1>2. /\ UNCHANGED <<disk, buffer, issued, inbox, known, publishes>>
      /\ fixAll'.at \in {"idle", "sent"}
      /\ sent' = sent \/ sent' = sent \cup {[by |-> "fixAll", files |-> planned]}
      /\ fixable' = [f \in Uris |->
            IF f \in DOMAIN fixes \ files /\ fixable[f] = fixes[f] THEN Edits!NoFix ELSE fixable[f]]
  BY DEF Edits!fixVars, Edits!Plan, Edits!Send, Edits!Idle
<1>3. Edits!NoFix \in FixTypes /\ Edits!NoFix.version = 0 /\ Hashed(Edits!NoFix)
  BY DEF Edits!NoFix, FixTypes, Hashed, TextOrNone
<1>4. ASSUME NEW f \in Uris
      PROVE  /\ fixable'[f] \in FixTypes /\ Hashed(fixable'[f])
             /\ fixable'[f].version # 0 => fixable'[f] = fixable[f]
  BY <1>1, <1>2, <1>3 DEF EditsTyped, FixesHashed
<1>5. EditsTyped' /\ FixesHashed'
  <2>1. fixable' \in [Uris -> FixTypes]
    BY <1>2, <1>4
  <2>2. DOMAIN planned \subseteq Uris
    BY DEF FixesTyped
  <2>3. \A edit \in sent' : edit.by = "fixAll" => DOMAIN edit.files \subseteq Uris
    <3> HIDE DEF planned
    <3>1. QED
      BY <1>1, <1>2, <2>2 DEF EditsTyped
  <2>4. EditsTyped'
    BY <1>1, <1>2, <2>1, <2>3 DEF EditsTyped
  <2>5. QED
    BY <1>2, <1>4, <2>4 DEF FixesHashed
<1>6. ASSUME NEW f \in DOMAIN planned, planned[f].version # 0
      PROVE  Spoken(f, planned[f].version, planned[f].madeFor)
  <2>1. f \in DOMAIN fixes /\ f \in DOMAIN texts /\ Edits!FixableEditsMatch(fixes[f], texts[f])
    BY <1>6
  <2>2. planned[f].version = texts[f].version /\ planned[f].madeFor = fixes[f].madeFor
    BY <1>6 DEF Edits!FixesFor, Edits!Stamp
  <2>3. fixes[f].version = 0 => fixes[f].madeFor = texts[f].text
    BY <2>1 DEF Edits!FixableEditsMatch, FixesBacked, Hashed
  <2>4. fixes[f].version # 0 => fixes[f].version = texts[f].version
    BY <2>1 DEF Edits!FixableEditsMatch
  <2>5. QED
    BY <1>6, <2>1, <2>2, <2>3, <2>4 DEF FixesBacked, TextsBacked
<1> HIDE DEF files, planned
<1>7. ASSUME NEW f \in Uris, NEW v \in Nat \ {0}, NEW t, Spoken(f, v, t)'
      PROVE  Spoken(f, v, t)
  <2>1. fixable'[f].version = v /\ fixable'[f].madeFor = t => fixable[f].version = v /\ fixable[f].madeFor = t
    BY <1>4
  <2>2. ~InFixAll(f, v, t)'
    BY <1>2 DEF InFixAll
  <2>3. InInbox(f, v, t)' => InInbox(f, v, t)
    BY <1>2 DEF InInbox
  <2>4. InSent(f, v, t)' => InSent(f, v, t) \/ (f \in DOMAIN planned /\ planned[f].version = v /\ planned[f].madeFor = t)
    BY <1>2 DEF InSent
  <2>5. QED
    BY <1>2, <1>6, <1>7, <2>1, <2>2, <2>3, <2>4 DEF Spoken
<1> QED
  BY <1>1, <1>2, <1>5, <1>7, AgreementKept DEF EditInv, Repeats

\* Texts of open files are those the server has.
LEMMA OpenTextsBacked ==
    ASSUME EditsTyped, NEW files \in SUBSET Uris
    PROVE  /\ DOMAIN Edits!OpenTexts(files) \subseteq files
           /\ \A f \in DOMAIN Edits!OpenTexts(files) : Edits!OpenTexts(files)[f] = known[f]
           /\ TextsTyped(Edits!OpenTexts(files)) /\ TextsBacked(Edits!OpenTexts(files))
  BY DEF EditsTyped, Edits!OpenTexts, TextsTyped, TextsBacked, Spoken

LEMMA CopyKeeps == ASSUME EditInv, Edits!CopyFixes PROVE EditInv'
<1> DEFINE files == {f \in Uris : fixable[f] # Edits!NoFix}
<1>1. EditsTyped /\ FixesHashed /\ VersionsAgree
  BY DEF EditInv
<1>2. /\ fixAll' = [at |-> "copied", fixes |-> [f \in files |-> fixable[f]]]
      /\ UNCHANGED <<disk, buffer, issued, inbox, known, publishes, fixable, sent>>
  BY DEF Edits!CopyFixes, Edits!fixVars
<1>3. /\ fixAll'.at = "copied" /\ DOMAIN fixAll'.fixes \subseteq Uris
      /\ \A f \in DOMAIN fixAll'.fixes : fixAll'.fixes[f] = fixable[f]
  BY <1>2
<1>4. EditsTyped' /\ FixesHashed'
  BY <1>1, <1>2, <1>3 DEF EditsTyped, FixesHashed, FixesTyped, Hashed
<1>5. ASSUME NEW f \in Uris, NEW v \in Nat \ {0}, NEW t, Spoken(f, v, t)'
      PROVE  Spoken(f, v, t)
  <2>1. InFixAll(f, v, t)' => fixable[f].version = v /\ fixable[f].madeFor = t
    BY <1>3 DEF InFixAll
  <2>2. /\ InSent(f, v, t)' => InSent(f, v, t)
        /\ InInbox(f, v, t)' => InInbox(f, v, t)
    BY <1>2 DEF InSent, InInbox
  <2>3. QED
    BY <1>2, <1>5, <2>1, <2>2 DEF Spoken
<1> QED
  BY <1>1, <1>2, <1>4, <1>5, AgreementKept DEF EditInv, Repeats

LEMMA ReadKeeps == ASSUME EditInv, Edits!ReadForFixes PROVE EditInv'
<1> DEFINE files == DOMAIN fixAll.fixes \cap Uris
           fixes == [f \in files |-> fixAll.fixes[f]]
           texts == Edits!OpenTexts(files)
<1>1. EditsTyped /\ FixesHashed /\ VersionsAgree
  BY DEF EditInv
<1>2. /\ fixAll.at = "copied" /\ UNCHANGED Edits!fixVars
      /\ \/ DOMAIN texts = files /\ Edits!Plan(fixes, texts)
         \/ fixAll' = [at |-> "reading", fixes |-> fixes, texts |-> texts] /\ UNCHANGED <<fixable, sent>>
  BY DEF Edits!ReadForFixes
<1>3. FixesTyped(fixAll.fixes) /\ \A f \in DOMAIN fixAll.fixes : Hashed(fixAll.fixes[f])
  BY <1>1, <1>2 DEF EditsTyped, FixesHashed
<1>4. /\ DOMAIN fixes = files /\ files \subseteq Uris /\ files \subseteq DOMAIN fixAll.fixes
      /\ \A f \in files : fixes[f] = fixAll.fixes[f]
  OBVIOUS
<1>5. FixesTyped(fixes) /\ FixesBacked(fixes)
  BY <1>2, <1>3, <1>4 DEF FixesTyped, FixesBacked, Spoken, InFixAll
<1>6. /\ DOMAIN texts \subseteq files /\ \A f \in DOMAIN texts : texts[f] = known[f]
      /\ TextsTyped(texts) /\ TextsBacked(texts)
  BY <1>1, <1>4, OpenTextsBacked
<1> HIDE DEF files, fixes, texts
<1>7. CASE DOMAIN texts = files /\ Edits!Plan(fixes, texts)
  BY <1>2, <1>4, <1>5, <1>6, <1>7, PlanKeeps
<1>8. CASE fixAll' = [at |-> "reading", fixes |-> fixes, texts |-> texts] /\ UNCHANGED <<fixable, sent>>
  <2>1. UNCHANGED <<disk, buffer, issued, inbox, known, publishes, fixable, sent>>
    BY <1>2, <1>8 DEF Edits!fixVars
  <2>2. fixAll'.at = "reading" /\ fixAll'.fixes = fixes /\ fixAll'.texts = texts
    BY <1>8
  <2>3. EditsTyped' /\ FixesHashed'
    BY <1>1, <1>5, <1>6, <2>1, <2>2 DEF EditsTyped, FixesHashed, FixesTyped, TextsTyped, FixesBacked, Hashed
  <2>4. ASSUME NEW f \in Uris, NEW v \in Nat \ {0}, NEW t, Spoken(f, v, t)'
        PROVE  Spoken(f, v, t)
    <3>1. InFixAll(f, v, t)' => Spoken(f, v, t)
      BY <1>5, <1>6, <2>2 DEF InFixAll, FixesBacked, TextsBacked
    <3>2. /\ InSent(f, v, t)' => InSent(f, v, t)
          /\ InInbox(f, v, t)' => InInbox(f, v, t)
      BY <2>1 DEF InSent, InInbox
    <3>3. QED
      BY <2>1, <2>4, <3>1, <3>2 DEF Spoken
  <2>5. QED
    BY <1>1, <2>1, <2>3, <2>4, AgreementKept DEF EditInv, Repeats
<1> QED
  BY <1>2, <1>7, <1>8

LEMMA PlanFixesKeeps == ASSUME EditInv, Edits!PlanFixes PROVE EditInv'
<1> DEFINE fixes == fixAll.fixes
           read == Edits!DiskTexts(DOMAIN fixes)
           texts == Edits!Merge(read, fixAll.texts)
<1>1. EditsTyped /\ FixesHashed /\ VersionsAgree
  BY DEF EditInv
<1>2. /\ fixAll.at = "reading" /\ UNCHANGED Edits!fixVars
      /\ Edits!Plan(fixes, texts)
  BY DEF Edits!PlanFixes
<1>3. FixesTyped(fixes) /\ FixesBacked(fixes) /\ TextsTyped(fixAll.texts)
  BY <1>1, <1>2 DEF EditsTyped, FixesHashed, FixesTyped, FixesBacked, Spoken, InFixAll
<1>4. /\ DOMAIN texts = DOMAIN fixes \cup DOMAIN fixAll.texts
      /\ \A f \in DOMAIN texts : texts[f] = IF f \in DOMAIN fixAll.texts THEN fixAll.texts[f]
                                         ELSE [version |-> 0, text |-> disk[f]]
  BY DEF Edits!DiskTexts, Edits!Merge
<1> HIDE DEF texts
<1>5. TextsTyped(texts)
  <2>1. ASSUME NEW f \in Uris PROVE [version |-> 0, text |-> disk[f]] \in VersionedTexts
    BY <1>1 DEF EditsTyped, VersionedTexts
  <2>2. QED
    BY <1>3, <1>4, <2>1 DEF FixesTyped, TextsTyped
<1>6. TextsBacked(texts)
  <2>1. ASSUME NEW f \in DOMAIN fixAll.texts PROVE Spoken(f, fixAll.texts[f].version, fixAll.texts[f].text)
    BY <1>2 DEF Spoken, InFixAll
  <2>2. ASSUME NEW f \in DOMAIN texts, texts[f].version # 0 PROVE Spoken(f, texts[f].version, texts[f].text)
    <3>1. f \in DOMAIN fixAll.texts
      <4>1. SUFFICES ASSUME f \notin DOMAIN fixAll.texts PROVE FALSE
        OBVIOUS
      <4>2. texts[f] = [version |-> 0, text |-> disk[f]]
        BY <1>4, <2>2, <4>1
      <4>3. QED
        BY <2>2, <4>2
    <3>2. texts[f] = fixAll.texts[f]
      BY <1>4, <2>2, <3>1
    <3>3. QED
      BY <2>1, <3>1, <3>2
  <2>3. QED
    BY <2>2 DEF TextsBacked
<1> HIDE DEF fixes, texts
<1>7. QED
  BY <1>2, <1>3, <1>4, <1>5, <1>6, PlanKeeps

\* An answer ends a command; a rename adds edits of its own.
RenameStep == Edits!StartRename \/ Edits!ReadForRename \/ Edits!FinishRename \/ Edits!CancelRename

LEMMA RenameKeeps ==
    ASSUME EditInv, RenameStep \/ \E edit \in sent : Edits!Answer(edit)
    PROVE  EditInv'
<1>1. EditsTyped /\ FixesHashed /\ VersionsAgree
  BY DEF EditInv
<1>2. /\ UNCHANGED <<disk, buffer, issued, inbox, known, publishes, fixable>>
      /\ fixAll' = fixAll \/ fixAll' = Edits!Idle
      /\ \A edit \in sent' : edit.by = "fixAll" => edit \in sent
  BY DEF RenameStep, Edits!StartRename, Edits!ReadForRename, Edits!FinishRename, Edits!CancelRename,
     Edits!Answer, Edits!Finish, Edits!Send, Edits!renameVars
<1>3. fixAll' = fixAll \/ fixAll'.at = "idle"
  BY <1>2 DEF Edits!Idle
<1>4. EditsTyped' /\ FixesHashed'
  BY <1>1, <1>2, <1>3 DEF EditsTyped, FixesHashed, Hashed
<1>5. ASSUME NEW f \in Uris, NEW v \in Nat \ {0}, NEW t, Spoken(f, v, t)'
      PROVE  Spoken(f, v, t)
  <2>1. InFixAll(f, v, t)' => InFixAll(f, v, t)
    BY <1>3 DEF InFixAll
  <2>2. /\ InSent(f, v, t)' => InSent(f, v, t)
        /\ InInbox(f, v, t)' => InInbox(f, v, t)
    BY <1>2 DEF InSent, InInbox
  <2>3. QED
    BY <1>2, <1>5, <2>1, <2>2 DEF Spoken
<1> QED
  BY <1>1, <1>2, <1>4, <1>5, AgreementKept DEF EditInv, Repeats

LEMMA NextEdits == ASSUME EditInv, Edits!Next PROVE EditInv'
  BY ClientKeeps, ReceiveKeeps, ValidateKeeps, PublishKeeps, CopyKeeps, ReadKeeps, PlanFixesKeeps, RenameKeeps
     DEF Edits!Next, ClientStep, RenameStep

LEMMA EditInit == Edits!Init => EditInv
<1>1. SUFFICES ASSUME Edits!Init PROVE EditInv
  OBVIOUS
<1>2. EditsTyped
  BY <1>1 DEF Edits!Init, Edits!Start, Edits!Closed, Edits!NoFix, Edits!Idle, EditsTyped, VersionedTexts, FixTypes, TextOrNone
<1>3. FixesHashed
  BY <1>1 DEF Edits!Init, Edits!Start, Edits!NoFix, Edits!Idle, FixesHashed, Hashed
<1>4. ASSUME NEW f \in Uris, NEW v \in Nat \ {0}, NEW t PROVE ~Spoken(f, v, t)
  BY <1>1 DEF Edits!Init, Edits!Start, Edits!Closed, Edits!NoFix, Edits!Idle, Spoken, InInbox, InFixAll, InSent
<1> QED
  BY <1>2, <1>3, <1>4 DEF EditInv, VersionsAgree

\* A client that takes versioned edits applies a fix of the command that applies
\* them all only to the text it was computed for, however long the command, the
\* notifications and the edit were on their way and whatever was typed, closed,
\* opened and saved meanwhile.
THEOREM EditsFitTheTextHolds == MCSpec => []EditsFitTheText
<1> DEFINE Inv == part \in {"uses", "scan", "store", "progress", "edits", "settings", "cache"}
                  /\ IF part = "edits" THEN EditInv ELSE sent = {}
<1>1. MCInit => Inv
  BY EditInit DEF MCInit, Edits!Start
<1>2. Inv /\ [MCNext]_mcVars => Inv'
  <2>1. SUFFICES ASSUME Inv, [MCNext]_mcVars PROVE Inv'
    OBVIOUS
  <2>2. part' = part
    BY <2>1 DEF MCNext, mcVars
  <2>3. CASE part = "edits" /\ Edits!Next
    BY <2>1, <2>2, <2>3, NextEdits
  <2>4. CASE part = "edits" /\ UNCHANGED mcVars
    BY <2>1, <2>2, <2>4
       DEF mcVars, scanVars, editVars, EditInv, EditsTyped, FixesHashed, VersionsAgree, Spoken, InInbox, InFixAll, InSent
  <2>5. CASE part # "edits"
    BY <2>1, <2>2, <2>5 DEF MCNext, mcVars, editVars
  <2>6. QED
    BY <2>1, <2>3, <2>4, <2>5 DEF MCNext
<1>3. Inv => EditsFitTheText
  <2>1. SUFFICES ASSUME EditInv, NEW edit \in sent, edit.by = "fixAll", NEW f \in Edits!Applied(edit),
                        edit.files[f].version # 0
                 PROVE  edit.files[f].madeFor = buffer[f].text
    BY DEF EditsFitTheText, Edits!EditsFitTheText, Edits!FitsText
  <2>2. /\ f \in DOMAIN edit.files /\ f \in Uris /\ buffer[f].version \in Nat
        /\ edit.files[f].version = buffer[f].version
    BY <2>1 DEF Edits!Applied, Edits!Fits, EditInv, EditsTyped, VersionedTexts
  <2>3. Spoken(f, buffer[f].version, edit.files[f].madeFor)
    BY <2>1, <2>2 DEF Spoken, InSent
  <2>4. Spoken(f, buffer[f].version, buffer[f].text)
    BY DEF Spoken
  <2>5. QED
    BY <2>1, <2>2, <2>3, <2>4 DEF EditInv, VersionsAgree
<1> QED
  BY <1>1, <1>2, <1>3, PTL DEF MCSpec

-----------------------------------------------------------------------------
(* Settings, rules and scans                                               *)

Workers == Threads \cup {Startup}
Places == (Uris \cup {Absent}) \X (0..1)
TaskStages == {"idle", "bump", "load", "report", "publish", "install", "respond", "rebuild", "retry", "scan", "scanning", "over"}
Kinds == {"none", "startup", "config", "other", "folders", "rules", "reindex", "clear", "cacheVanilla"}
TaskTypes == [at : TaskStages, kind : Kinds, rules : SUBSET Names, todo : SUBSET Names]
PassStages == {"none", "walk", "stamp", "index", "prune", "baseGame", "loc", "sign", "validate"}
PassTypes == [at : PassStages, by : Workers, quiet : BOOLEAN, files : Places, loc : Places, generation : Nat,
              rules : SUBSET SUBSET Names]
MadeTypes == [rules : SUBSET SUBSET Names, files : SUBSET Places, late : SUBSET (0..1)]

SettingsTyped ==
    /\ config \in [globs : 0..1, late : 0..1] /\ root \in Uris \cup {Absent} /\ roots \subseteq Uris
    /\ broken \subseteq Names /\ ruleset \subseteq Names /\ generation \in Nat /\ deferred \in Nat
    /\ tasks \in [Workers -> TaskTypes] /\ pass \in PassTypes
    /\ lastScan \in Places \X Nat /\ locSignature \in Places /\ made \in MadeTypes
    /\ parked \in [shown : SUBSET Names, cleared : SUBSET Names]
    /\ publishedRules \subseteq Names /\ ruleErrors \subseteq Names
    /\ ready \in BOOLEAN /\ handshake \in BOOLEAN /\ baseGame \in BOOLEAN
    /\ excused \in BOOLEAN /\ crossed \in BOOLEAN

\* What the client shows of the rules is what was loaded last, but for what
\* the one handler that publishes has still to send.
Publishing(h) == tasks[h].at = "publish"
RulesShown ==
    /\ ~handshake => /\ parked.shown = publishedRules /\ ruleErrors = {}
                     /\ \A h \in Workers : ~Publishing(h)
    /\ handshake /\ ~crossed => \A f \in Names :
          (f \in ruleErrors <=> f \in publishedRules) \/ \E h \in Workers : Publishing(h) /\ f \in tasks[h].todo
    /\ ~crossed => \A h \in Workers : Publishing(h) =>
          /\ tasks[h].rules = publishedRules
          /\ \A g \in Workers \ {h} : ~Publishing(g)

\* Settings that a pass read are in force while no handler that changed some
\* has yet to count the change.  A generation is never in force again.
Settling(h) == tasks[h].at = "bump" /\ tasks[h].kind # "other"
InForce(files, read) ==
    /\ files = Changes!Current /\ read = generation /\ root # Absent
    /\ \A h \in Workers : ~Settling(h)
Indexed == made.rules = {ruleset} /\ made.files = {Changes!Current}
RecordsTrue ==
    /\ lastScan[2] <= generation /\ pass.generation <= generation
    /\ InForce(lastScan[1], lastScan[2]) =>
          /\ Indexed
          /\ pass.at \notin {"none", "walk"} => pass.files = Changes!Current
          /\ pass.at = "prune" => pass.rules = {ruleset}
    /\ InForce(pass.files, pass.generation) =>
          /\ pass.at = "prune" => pass.rules = {ruleset}
          /\ pass.at \in {"baseGame", "loc", "sign", "validate"} => Indexed

\* Where handlers and the pass are: one of them holds the pass, and before the
\* start of the server has loaded the rules there is nothing else.
KindFits(task) ==
    /\ task.at \in {"load", "report", "publish", "install"} => task.kind \in {"startup", "rules"}
    /\ task.at = "bump" => task.kind \in {"startup", "config", "folders", "rules", "other"}
Early == tasks[Startup].at \in {"load", "report", "install", "bump"}
Ordered ==
    /\ pass.at = "none" => pass = Changes!NoPass
    /\ \A h \in Workers : tasks[h].at = "scanning" => pass.at # "none" /\ pass.by = h /\ ~pass.quiet
    /\ \A h \in Workers \ {Startup} : tasks[h].kind # "startup"
    /\ \A h \in Workers : KindFits(tasks[h])
    /\ tasks[Startup].kind \in {"startup", "none"} /\ tasks[Startup].at \notin {"idle", "rebuild", "retry"}
    /\ tasks[Startup].kind = "none" => tasks[Startup].at = "over"
    /\ tasks[Startup].at = "respond" => ~handshake
    /\ Early => /\ pass.at = "none" /\ deferred = 0 /\ ~ready /\ ~handshake
                /\ lastScan[1][1] = Absent /\ locSignature[1] = Absent
                /\ \A h \in Workers \ {Startup} : tasks[h] = Changes!Idle

\* A scan is promised by whoever changed what it is made from, until one starts
\* or is handed to a task.  When none is promised, the pass that runs, if any,
\* has so far made what it should, and what is left of it makes the rest.
Promised(h) == \/ tasks[h].at = "bump" /\ tasks[h].kind \in {"config", "rules", "folders"}
               \/ tasks[h].at = "retry" /\ tasks[h].kind \in {"config", "rules", "folders", "clear"}
Settled == ~excused /\ deferred = 0 /\ root # Absent /\ \A h \in Workers : ~Promised(h)
BaseGameComes == baseGame \/ \E h \in Workers : tasks[h].at = "rebuild"
Undisturbed == pass.at = "none" \/ pass.quiet
PassKeepsUp ==
    /\ pass.at \notin {"none", "walk"} => pass.files = Changes!Current
    /\ pass.at = "prune" => pass.rules = {ruleset}
    /\ pass.at \in {"baseGame", "loc", "sign", "validate"} => Indexed
    /\ pass.at \in {"loc", "sign", "validate"} => BaseGameComes
    /\ pass.at \in {"sign", "validate"} => made.late = {config.late} /\ pass.loc = Changes!Current
    /\ Undisturbed /\ lastScan = <<Changes!Current, generation>> => made.late = {config.late} /\ BaseGameComes
    /\ Undisturbed /\ locSignature = Changes!Current => made.late = {config.late}
    /\ pass.at = "none" /\ tasks[Startup].at = "over" => Indexed /\ made.late = {config.late} /\ BaseGameComes

SettingsInv == SettingsTyped /\ RulesShown /\ RecordsTrue /\ Ordered /\ (Settled => PassKeepsUp)

-----------------------------------------------------------------------------
\* A handler goes on to a task; the others stay at theirs.
Moves(h, task) == /\ tasks' \in [Workers -> TaskTypes] /\ tasks'[h] = task
                  /\ \A g \in Workers \ {h} : tasks'[g] = tasks[g]

LEMMA Becomes ==
    ASSUME SettingsTyped, NEW h \in Workers, NEW task \in TaskTypes, Changes!Become(h, task)
    PROVE  Moves(h, task)
  BY DEF SettingsTyped, Changes!Become, Moves

LEMMA Steps ==
    ASSUME SettingsTyped, NEW h \in Workers, NEW at \in TaskStages, Changes!Step(h, at)
    PROVE  Moves(h, [at |-> at, kind |-> tasks[h].kind, rules |-> tasks[h].rules, todo |-> tasks[h].todo])
<1> DEFINE task == [at |-> at, kind |-> tasks[h].kind, rules |-> tasks[h].rules, todo |-> tasks[h].todo]
<1>1. tasks[h] \in TaskTypes
  BY DEF SettingsTyped
<1>2. task \in TaskTypes /\ [tasks[h] EXCEPT !.at = at] = task
  BY <1>1 DEF TaskTypes
<1>3. Changes!Become(h, task)
  BY <1>2 DEF Changes!Step
<1> QED
  BY <1>2, <1>3, Becomes

\* Nothing was published.
LEMMA RulesKept ==
    ASSUME SettingsTyped, RulesShown, UNCHANGED <<handshake, parked, publishedRules, ruleErrors, crossed>>,
           \A h \in Workers : tasks'[h] = tasks[h] \/ (~Publishing(h) /\ ~Publishing(h)')
    PROVE  RulesShown'
  BY DEF RulesShown, Publishing

\* What is changed is counted next.
LEMMA RecordsKept ==
    ASSUME SettingsTyped, RecordsTrue, UNCHANGED <<pass, lastScan, made>>,
           (generation' = generation /\ (\A h \in Workers : Settling(h) => Settling(h)')) \/ generation' = generation + 1,
           UNCHANGED <<config, root, ruleset>> \/ root' = Absent \/ \E h \in Workers : Settling(h)'
    PROVE  RecordsTrue'
<1>1. generation \in Nat /\ lastScan[2] \in Nat /\ pass.generation \in Nat
  BY DEF SettingsTyped, PassTypes
<1>2. ASSUME NEW files, NEW read \in Nat, read <= generation, InForce(files, read)'
      PROVE  InForce(files, read) /\ ruleset' = ruleset /\ Changes!Current' = Changes!Current
  BY <1>1, <1>2 DEF InForce, Changes!Current
<1>3. lastScan[2] <= generation' /\ pass.generation <= generation'
  BY <1>1 DEF RecordsTrue
<1>4. /\ InForce(lastScan[1], lastScan[2])' =>
            InForce(lastScan[1], lastScan[2]) /\ ruleset' = ruleset /\ Changes!Current' = Changes!Current
      /\ InForce(pass.files, pass.generation)' =>
            InForce(pass.files, pass.generation) /\ ruleset' = ruleset /\ Changes!Current' = Changes!Current
  BY <1>1, <1>2 DEF RecordsTrue, InForce
<1> QED
  BY <1>3, <1>4 DEF RecordsTrue, Indexed

\* Nor does it matter to the pass, unless a scan is promised.
LEMMA PassKept ==
    ASSUME SettingsTyped, RecordsTrue, Settled => PassKeepsUp, UNCHANGED <<pass, lastScan, locSignature, made>>,
           generation' \in {generation, generation + 1},
           Settled' => /\ Settled /\ UNCHANGED <<config, root, ruleset>>
                       /\ BaseGameComes => BaseGameComes',
           tasks'[Startup].at = "over" => tasks[Startup].at = "over" \/ pass.at # "none"
    PROVE  Settled' => PassKeepsUp'
<1>1. SUFFICES ASSUME Settled' PROVE PassKeepsUp'
  OBVIOUS
<1>2. /\ PassKeepsUp /\ UNCHANGED <<config, root, ruleset>> /\ (BaseGameComes => BaseGameComes')
      /\ Changes!Current' = Changes!Current /\ (Undisturbed' <=> Undisturbed) /\ (Indexed' <=> Indexed)
  BY <1>1 DEF Changes!Current, Undisturbed, Indexed
<1>3. lastScan = <<Changes!Current, generation'>> => lastScan = <<Changes!Current, generation>>
  BY DEF SettingsTyped, RecordsTrue
<1> QED
  BY <1>2, <1>3 DEF PassKeepsUp

\* What a step of a handler has to see to when it starts no scan.
LEMMA HandlerKeeps ==
    ASSUME SettingsInv, NEW h \in Workers, NEW task \in TaskTypes, Moves(h, task),
           SettingsTyped', RulesShown', UNCHANGED <<pass, lastScan, locSignature, made>>,
           (generation' = generation /\ (Settling(h) => Settling(h)')) \/ generation' = generation + 1,
           UNCHANGED <<config, root, ruleset>> \/ root' = Absent \/ Settling(h)',
           task.at # "scanning", KindFits(task),
           h # Startup => task.kind # "startup" /\ ~Early /\ UNCHANGED handshake,
           h = Startup =>
               /\ task.kind \in {"startup", "none"} /\ task.at \notin {"idle", "rebuild", "retry"}
               /\ task.kind = "none" => task.at = "over"
               /\ Early' => Early /\ UNCHANGED <<ready, handshake, deferred>>
               /\ task.at = "respond" => Early /\ UNCHANGED handshake
               /\ task.at = "over" => tasks[h].at = "over" \/ pass.at # "none",
           Early' \/ (Settled' => /\ ~excused /\ deferred = 0 /\ UNCHANGED <<config, root, ruleset>>
                                  /\ ~Promised(h)
                                  /\ BaseGameComes => BaseGameComes')
    PROVE  SettingsInv'
<1>1. SettingsTyped /\ RecordsTrue /\ Ordered /\ (Settled => PassKeepsUp)
  BY DEF SettingsInv
<1>2. tasks'[h] = task /\ \A g \in Workers \ {h} : tasks'[g] = tasks[g]
  BY DEF Moves
<1>3. RecordsTrue'
  <2>1. \A g \in Workers : g # h => (Settling(g)' <=> Settling(g))
    BY <1>2 DEF Settling
  <2>2. (generation' = generation /\ (\A g \in Workers : Settling(g) => Settling(g)')) \/ generation' = generation + 1
    BY <2>1
  <2>3. QED
    BY <1>1, <2>2, RecordsKept
<1>4. Ordered'
  BY <1>1, <1>2 DEF Ordered, Early, Workers
<1>5. CASE Early'
  <2>1. /\ pass.at = "none" /\ tasks'[Startup].at # "over"
        /\ lastScan = <<Changes!Current, generation>>' => root' = Absent
        /\ locSignature = Changes!Current' => root' = Absent
    BY <1>4, <1>5 DEF Early, Ordered, Changes!Current
  <2>2. Settled' => PassKeepsUp'
    BY <2>1 DEF PassKeepsUp, Settled
  <2>3. QED
    BY <1>3, <1>4, <2>2 DEF SettingsInv
<1>6. CASE ~Early'
  <2>1. Settled' => Settled
    <3>1. SUFFICES ASSUME Settled' PROVE Settled
      OBVIOUS
    <3>2. \A g \in Workers : ~Promised(g)
      BY <1>2, <1>6, <3>1 DEF Settled, Promised
    <3>3. QED
      BY <1>6, <3>1, <3>2 DEF Settled
  <2>2. Settled' => PassKeepsUp'
    BY <1>1, <1>2, <1>6, <2>1, PassKept DEF Workers
  <2>3. QED
    BY <1>3, <1>4, <2>2 DEF SettingsInv
<1> QED
  BY <1>5, <1>6

\* Tasks of a handler that starts.
LEMMA Fresh ==
    ASSUME NEW at \in TaskStages, NEW kind \in Kinds
    PROVE  /\ [Changes!Idle EXCEPT !.at = at, !.kind = kind] = [at |-> at, kind |-> kind, rules |-> {}, todo |-> {}]
           /\ [at |-> at, kind |-> kind, rules |-> {}, todo |-> {}] \in TaskTypes
           /\ Changes!Idle \in TaskTypes /\ Changes!Idle.todo = {}
<1> DEFINE idle == Changes!Idle
<1>1. idle \in TaskTypes /\ idle.kind = "none" /\ idle.rules = {} /\ idle.todo = {}
  BY DEF Changes!Idle, TaskTypes, TaskStages, Kinds
<1> HIDE DEF idle
<1> DEFINE one == [idle EXCEPT !.at = at]
<1>2. one = [at |-> at, kind |-> "none", rules |-> {}, todo |-> {}] /\ one \in TaskTypes
  BY <1>1 DEF TaskTypes
<1> HIDE DEF one
<1>3. [one EXCEPT !.kind = kind] = [at |-> at, kind |-> kind, rules |-> {}, todo |-> {}]
  BY <1>2 DEF TaskTypes
<1>4. [at |-> at, kind |-> kind, rules |-> {}, todo |-> {}] \in TaskTypes
  BY DEF TaskTypes
<1> QED
  BY <1>1, <1>2, <1>3, <1>4 DEF idle, one

\* A handler starts when there is none in its place, after the rules are loaded.
LEMMA Arrives ==
    ASSUME SettingsInv, NEW h \in Workers, Changes!Arrive(h)
    PROVE  tasks[h] = Changes!Idle /\ h # Startup /\ ~Early /\ ~Publishing(h) /\ ~Settling(h) /\ ~Promised(h)
  BY DEF SettingsInv, Ordered, Changes!Arrive, Changes!Idle, Early, Publishing, Settling, Promised

LEMMA ConfigurationKeeps == ASSUME SettingsInv, NEW h \in Threads, Changes!DidChangeConfiguration(h) PROVE SettingsInv'
<1>1. PICK kind \in {"config", "other"} :
        /\ config' \in [globs : 0..1, late : 0..1] /\ (kind = "other" => config' = config)
        /\ Changes!Become(h, [Changes!Idle EXCEPT !.at = "bump", !.kind = kind])
  <2>1. PICK globs \in Changes!Given, late \in Changes!Given :
          /\ config' = [globs |-> Changes!ReadList(globs, config.globs), late |-> Changes!ReadSetting(late, config.late)]
          /\ Changes!Become(h, [Changes!Idle EXCEPT !.at = "bump", !.kind = IF config' # config THEN "config" ELSE "other"])
    BY DEF Changes!DidChangeConfiguration
  <2>2. config.globs \in 0..1 /\ config.late \in 0..1 /\ globs.value \in 0..1 /\ late.value \in 0..1
    BY DEF SettingsInv, SettingsTyped, Changes!Given
  <2>3. config' \in [globs : 0..1, late : 0..1]
    BY <2>1, <2>2 DEF Changes!ReadSetting, Changes!ReadList
  <2>4. QED
    BY <2>1, <2>3
<1> DEFINE task == [at |-> "bump", kind |-> kind, rules |-> {}, todo |-> {}]
<1>2. task \in TaskTypes /\ Changes!Become(h, task) /\ h \in Workers
  BY <1>1, Fresh DEF TaskStages, Kinds, Workers
<1>3. Moves(h, task)
  BY <1>2, Becomes DEF SettingsInv
<1>4. /\ UNCHANGED <<root, roots, broken, ruleset, generation, handshake, deferred, baseGame, excused>>
      /\ UNCHANGED <<parked, publishedRules, ruleErrors, crossed, pass, lastScan, locSignature, made, ready>>
      /\ Changes!Arrive(h)
  BY DEF Changes!DidChangeConfiguration, Changes!ruleVars, Changes!passVars
<1>5. tasks[h] = Changes!Idle /\ h # Startup /\ ~Early /\ ~Publishing(h) /\ ~Settling(h) /\ ~Promised(h)
  BY <1>2, <1>4, Arrives
<1>6. SettingsTyped'
  BY <1>1, <1>3, <1>4 DEF SettingsInv, SettingsTyped, Moves
<1>7. RulesShown'
  BY <1>3, <1>4, <1>5, RulesKept DEF SettingsInv, Moves, Publishing
<1>8. Settled' => config' = config
  BY <1>1, <1>2, <1>3 DEF Settled, Promised, Moves
<1>9. BaseGameComes => BaseGameComes'
  BY <1>3, <1>4, <1>5 DEF BaseGameComes, Moves, Changes!Idle
<1>10. config' = config \/ Settling(h)'
  BY <1>1, <1>3 DEF Settling, Moves
<1>11. KindFits(task) /\ task.at = "bump" /\ task.kind \in {"config", "other"}
  BY <1>1 DEF KindFits
<1>12. UNCHANGED <<config, root, ruleset>> \/ Settling(h)'
  BY <1>4, <1>10
<1>13. Settled' => /\ ~excused /\ deferred = 0 /\ UNCHANGED <<config, root, ruleset>>
                   /\ ~Promised(h)
                   /\ BaseGameComes => BaseGameComes'
  BY <1>4, <1>5, <1>8, <1>9 DEF Settled
<1> HIDE DEF task
<1> QED
  BY <1>2, <1>3, <1>4, <1>5, <1>6, <1>7, <1>11, <1>12, <1>13, HandlerKeeps

LEMMA FoldersKeep == ASSUME SettingsInv, NEW h \in Threads, Changes!DidChangeFolders(h) PROVE SettingsInv'
<1> DEFINE task == IF root' = Absent THEN Changes!Idle
                   ELSE [at |-> "bump", kind |-> "folders", rules |-> {}, todo |-> {}]
<1>1. task \in TaskTypes /\ Changes!Become(h, task) /\ h \in Workers
  <2>1. "bump" \in TaskStages /\ "folders" \in Kinds /\ {} \in SUBSET Names /\ h \in Workers
    BY DEF TaskStages, Kinds, Workers
  <2>2. /\ [Changes!Idle EXCEPT !.at = "bump", !.kind = "folders"] = [at |-> "bump", kind |-> "folders", rules |-> {}, todo |-> {}]
        /\ Changes!Idle \in TaskTypes
        /\ [at |-> "bump", kind |-> "folders", rules |-> {}, todo |-> {}] \in TaskTypes
    BY <2>1, Fresh
  <2>3. QED
    BY <2>1, <2>2 DEF Changes!DidChangeFolders
<1>2. Moves(h, task)
  BY <1>1, Becomes DEF SettingsInv
<1>3. /\ UNCHANGED <<config, broken, ruleset, generation, handshake, deferred, baseGame, excused>>
      /\ UNCHANGED <<parked, publishedRules, ruleErrors, crossed, pass, lastScan, locSignature, made, ready>>
      /\ Changes!Arrive(h)
  BY DEF Changes!DidChangeFolders, Changes!ruleVars, Changes!passVars
<1>4. tasks[h] = Changes!Idle /\ h # Startup /\ ~Early /\ ~Publishing(h) /\ ~Settling(h) /\ ~Promised(h)
  BY <1>1, <1>3, Arrives
<1>5. root' \in Uris \cup {Absent} /\ roots' \subseteq Uris
  BY DEF SettingsInv, SettingsTyped, Changes!DidChangeFolders, Changes!NextRoot
<1>6. SettingsTyped'
  BY <1>2, <1>3, <1>5 DEF SettingsInv, SettingsTyped, Moves
<1>7. /\ task.at \in {"idle", "bump"} /\ task.kind # "startup"
      /\ root' # Absent => task.at = "bump" /\ task.kind = "folders"
      /\ KindFits(task)
  BY DEF Changes!Idle, KindFits
<1> HIDE DEF task
<1>8. RulesShown'
  BY <1>2, <1>3, <1>4, <1>7, RulesKept DEF SettingsInv, Moves, Publishing
<1>9. root' = Absent \/ (Settling(h)' /\ Promised(h)')
  BY <1>2, <1>7 DEF Settling, Promised, Moves
<1>10. Settled' => /\ ~excused /\ deferred = 0 /\ UNCHANGED <<config, root, ruleset>>
                   /\ ~Promised(h)
                   /\ BaseGameComes => BaseGameComes'
  BY <1>1, <1>9 DEF Settled
<1> QED
  BY <1>1, <1>2, <1>3, <1>4, <1>6, <1>7, <1>8, <1>9, <1>10, HandlerKeeps

\* A task that goes on at another place.
At(h, at) == [at |-> at, kind |-> tasks[h].kind, rules |-> tasks[h].rules, todo |-> tasks[h].todo]

\* Of a task in hand: the start of the server is one, and the others come later.
LEMMA Working ==
    ASSUME SettingsInv, NEW h \in Workers
    PROVE  /\ tasks[h] \in TaskTypes
           /\ h # Startup => tasks[h].kind # "startup" /\ (tasks[h].at # "idle" => ~Early)
           /\ h = Startup => /\ tasks[h].kind \in {"startup", "none"} /\ tasks[h].at \notin {"idle", "rebuild", "retry"}
                             /\ tasks[h].kind = "none" => tasks[h].at = "over"
  BY DEF SettingsInv, SettingsTyped, Ordered, Changes!Idle

LEMMA BumpKeeps == ASSUME SettingsInv, NEW h \in Workers, Changes!Bump(h) PROVE SettingsInv'
<1>1. /\ UNCHANGED <<config, root, roots, broken, ruleset, handshake, deferred, baseGame, excused>>
      /\ UNCHANGED <<parked, publishedRules, ruleErrors, crossed, pass, lastScan, locSignature, made, ready>>
      /\ generation' = generation + 1 /\ tasks[h].at = "bump"
  BY DEF Changes!Bump, Changes!ruleVars, Changes!passVars, Changes!configVars
<1>2. PICK task \in TaskTypes :
        /\ Moves(h, task)
        /\ \/ tasks[h].kind = "startup" /\ task.at = "respond" /\ task.kind = "startup"
           \/ tasks[h].kind = "other" /\ task = Changes!Idle
           \/ tasks[h].kind \notin {"startup", "other"} /\ task.at = "retry" /\ task.kind = tasks[h].kind
  <2>1. SettingsTyped /\ At(h, "respond") \in TaskTypes /\ At(h, "retry") \in TaskTypes /\ Changes!Idle \in TaskTypes
    <3>1. Changes!Idle \in TaskTypes
      BY DEF Changes!Idle, TaskTypes, TaskStages, Kinds
    <3>2. QED
      BY <3>1, Working DEF SettingsInv, TaskTypes, TaskStages, At
  <2>2. CASE tasks[h].kind = "startup"
    <3>1. Moves(h, At(h, "respond"))
      BY <2>1, <2>2, Steps DEF Changes!Bump, TaskStages, At
    <3>2. QED
      BY <2>1, <2>2, <3>1 DEF At
  <2>3. CASE tasks[h].kind = "other"
    <3>1. Moves(h, Changes!Idle)
      BY <2>1, <2>3, Becomes DEF Changes!Bump
    <3>2. QED
      BY <2>1, <2>3, <3>1
  <2>4. CASE tasks[h].kind \notin {"startup", "other"}
    <3>1. Moves(h, At(h, "retry"))
      BY <2>1, <2>4, Steps DEF Changes!Bump, TaskStages, At
    <3>2. QED
      BY <2>1, <2>4, <3>1 DEF At
  <2>5. QED
    BY <2>2, <2>3, <2>4
<1>3. SettingsTyped'
  BY <1>1, <1>2 DEF SettingsInv, SettingsTyped, Moves
<1>4. RulesShown'
  BY <1>1, <1>2, RulesKept DEF SettingsInv, Moves, Publishing, Changes!Idle
<1>5. ~Promised(h)' => ~Promised(h)
  BY <1>1, <1>2 DEF Promised, Moves
<1>6. BaseGameComes => BaseGameComes'
  BY <1>1, <1>2 DEF BaseGameComes, Moves
<1>7. /\ h # Startup => task.kind # "startup" /\ ~Early
      /\ h = Startup => task.kind = "startup" /\ task.at = "respond" /\ Early
  BY <1>1, <1>2, Working DEF Changes!Idle, Early
<1>8. task.at \notin {"scanning", "load", "report", "publish", "install", "bump"}
  BY <1>2 DEF Changes!Idle
<1> QED
  BY <1>1, <1>2, <1>3, <1>4, <1>5, <1>6, <1>7, <1>8, HandlerKeeps DEF Settled, KindFits

\* What is on disk is seen when rules are loaded.
LEMMA EditRulesKeeps == ASSUME SettingsInv, Changes!EditRules PROVE SettingsInv'
<1>1. /\ UNCHANGED <<config, root, roots, ruleset, generation, handshake, deferred, baseGame, excused, tasks>>
      /\ UNCHANGED <<parked, publishedRules, ruleErrors, crossed, pass, lastScan, locSignature, made, ready>>
      /\ broken' \subseteq Names
  BY DEF Changes!EditRules, Changes!ruleVars, Changes!passVars, Changes!configVars
<1> QED
  BY <1>1 DEF SettingsInv, SettingsTyped, RulesShown, Publishing, RecordsTrue, InForce, Settling, Indexed, Changes!Current,
     Ordered, KindFits, Early, Settled, Promised, PassKeepsUp, BaseGameComes, Undisturbed

LEMMA LoadKeeps == ASSUME SettingsInv, NEW h \in Workers, Changes!LoadRules(h) PROVE SettingsInv'
<1>1. /\ UNCHANGED <<config, root, roots, broken, ruleset, generation, handshake, deferred, baseGame, excused>>
      /\ UNCHANGED <<parked, publishedRules, ruleErrors, crossed, pass, lastScan, locSignature, made, ready>>
  BY DEF Changes!LoadRules, Changes!ruleVars, Changes!passVars, Changes!configVars
<1>2. PICK kind \in Kinds :
        /\ Changes!Become(h, [at |-> "report", kind |-> kind, rules |-> broken, todo |-> tasks[h].todo])
        /\ \/ tasks[h].at = "load" /\ kind = tasks[h].kind
           \/ tasks[h] = Changes!Idle /\ kind = "rules" /\ ~Early /\ h # Startup
  <2>1. CASE tasks[h].at = "load" /\ Changes!Become(h, [tasks[h] EXCEPT !.at = "report", !.rules = broken])
    <3>1. tasks[h] \in TaskTypes /\ tasks[h].kind \in Kinds
      BY Working DEF TaskTypes
    <3> DEFINE one == [tasks[h] EXCEPT !.at = "report"]
    <3>2. one = At(h, "report")
      BY <3>1 DEF At, TaskTypes
    <3>3. [At(h, "report") EXCEPT !.rules = broken] = [at |-> "report", kind |-> tasks[h].kind, rules |-> broken, todo |-> tasks[h].todo]
      BY DEF At
    <3>4. QED
      BY <2>1, <3>1, <3>2, <3>3
  <2>2. CASE Changes!Arrive(h) /\ Changes!Become(h, [Changes!Idle EXCEPT !.at = "report", !.kind = "rules", !.rules = broken])
    <3>1. "report" \in TaskStages /\ "rules" \in Kinds
      BY DEF TaskStages, Kinds
    <3> DEFINE two == [Changes!Idle EXCEPT !.at = "report", !.kind = "rules"]
    <3>2. /\ [Changes!Idle EXCEPT !.at = "report", !.kind = "rules", !.rules = broken]
                = [at |-> "report", kind |-> "rules", rules |-> broken, todo |-> {}]
          /\ Changes!Idle.todo = {}
      <4>1. two = [at |-> "report", kind |-> "rules", rules |-> {}, todo |-> {}] /\ Changes!Idle.todo = {}
        BY <3>1, Fresh
      <4> HIDE DEF two
      <4>2. [two EXCEPT !.rules = broken] = [at |-> "report", kind |-> "rules", rules |-> broken, todo |-> {}]
        BY <4>1
      <4>3. QED
        BY <4>1, <4>2 DEF two
    <3>3. tasks[h] = Changes!Idle /\ h # Startup /\ ~Early
      BY <2>2, Arrives
    <3>4. QED
      BY <2>2, <3>1, <3>2, <3>3
  <2>3. QED
    BY <2>1, <2>2 DEF Changes!LoadRules
<1> DEFINE task == [at |-> "report", kind |-> kind, rules |-> broken, todo |-> tasks[h].todo]
<1>3. task \in TaskTypes
  BY <1>2, Working DEF SettingsInv, SettingsTyped, TaskTypes, TaskStages
<1>4. Moves(h, task)
  BY <1>2, <1>3, Becomes DEF SettingsInv
<1>5. SettingsTyped'
  BY <1>1, <1>4 DEF SettingsInv, SettingsTyped, Moves
<1>6. RulesShown'
  BY <1>1, <1>2, <1>4, RulesKept DEF SettingsInv, Moves, Publishing, Changes!Idle
<1>7. ~Promised(h) /\ ~Settling(h)
  BY <1>2 DEF Promised, Settling, Changes!Idle
<1>8. BaseGameComes => BaseGameComes'
  BY <1>1, <1>2, <1>4 DEF BaseGameComes, Moves, Changes!Idle
<1>9. /\ h # Startup => kind # "startup" /\ ~Early
      /\ h = Startup => kind = "startup" /\ Early
      /\ kind \in {"startup", "rules"}
  BY <1>2, Working DEF Changes!Idle, Early, SettingsInv, Ordered, KindFits
<1> QED
  BY <1>1, <1>2, <1>3, <1>4, <1>5, <1>6, <1>7, <1>8, <1>9, HandlerKeeps DEF Settled, KindFits

\* What publications leave of the rest.
LEMMA PublicationKeeps ==
    ASSUME SettingsInv, NEW h \in Workers, NEW task \in TaskTypes, Moves(h, task), SettingsTyped', RulesShown',
           UNCHANGED <<config, root, ruleset, generation, deferred, baseGame, excused, pass, lastScan, locSignature, made, ready>>,
           tasks[h].at \in {"report", "publish", "respond"}, task.at \in {"publish", "install", "scan"},
           task.kind = tasks[h].kind,
           Early' => Early /\ UNCHANGED handshake, h = Startup \/ (UNCHANGED handshake /\ tasks[h].at # "respond")
    PROVE  SettingsInv'
<1>1. ~Promised(h) /\ ~Settling(h)
  BY DEF Promised, Settling
<1>2. BaseGameComes => BaseGameComes'
  BY DEF BaseGameComes, Moves
<1>3. /\ h # Startup => task.kind # "startup" /\ ~Early
      /\ h = Startup => task.kind = "startup"
  BY Working DEF Moves
<1>4. KindFits(task)
  BY <1>3 DEF SettingsInv, Ordered, KindFits
<1> QED
  BY <1>1, <1>2, <1>3, <1>4, HandlerKeeps DEF Settled

LEMMA ReportKeeps == ASSUME SettingsInv, NEW h \in Workers, Changes!ReportRules(h) PROVE SettingsInv'
<1> DEFINE rules == tasks[h].rules
           todo == rules \cup (publishedRules \ rules)
<1>1. /\ UNCHANGED <<config, root, roots, broken, ruleset, generation, handshake, deferred, baseGame, excused>>
      /\ UNCHANGED <<ruleErrors, pass, lastScan, locSignature, made, ready>>
      /\ tasks[h].at = "report" /\ publishedRules' = rules
  BY DEF Changes!ReportRules, Changes!passVars, Changes!configVars
<1>2. tasks[h] \in TaskTypes /\ rules \subseteq Names /\ todo \subseteq Names
  BY Working DEF SettingsInv, SettingsTyped, TaskTypes
<1>3. CASE handshake
  <2> DEFINE task == [at |-> "publish", kind |-> tasks[h].kind, rules |-> rules, todo |-> todo]
  <2>1. task \in TaskTypes /\ [tasks[h] EXCEPT !.at = "publish", !.todo = todo] = task
    <3>1. [tasks[h] EXCEPT !.at = "publish"] = At(h, "publish")
      BY <1>2 DEF At, TaskTypes
    <3>2. [At(h, "publish") EXCEPT !.todo = todo] = task
      BY DEF At
    <3>3. task \in TaskTypes
      BY <1>2 DEF TaskTypes, TaskStages
    <3>4. QED
      BY <3>1, <3>2, <3>3
  <2>2. /\ Changes!Become(h, task) /\ UNCHANGED parked
        /\ crossed' = (crossed \/ \E g \in Workers \ {h} : Publishing(g))
    <3>1. /\ Changes!Become(h, [tasks[h] EXCEPT !.at = "publish", !.todo = todo]) /\ UNCHANGED parked
          /\ crossed' = (crossed \/ Changes!PublishingToo(h))
      BY <1>3 DEF Changes!ReportRules, Changes!Reported
    <3>2. DOMAIN tasks = Workers
      BY DEF SettingsInv, SettingsTyped
    <3>3. QED
      BY <2>1, <3>1, <3>2 DEF Changes!PublishingToo, Publishing
  <2>3. Moves(h, task)
    BY <2>1, <2>2, Becomes DEF SettingsInv
  <2>4. task.at = "publish" /\ task.rules = rules /\ task.todo = todo /\ task.kind = tasks[h].kind
    OBVIOUS
  <2> HIDE DEF task
  <2>5. SettingsTyped'
    BY <1>1, <1>2, <2>2, <2>3 DEF SettingsInv, SettingsTyped, Moves
  <2>6. RulesShown'
    <3>1. ~Publishing(h) /\ Publishing(h)' /\ handshake'
      BY <1>1, <1>3, <2>3, <2>4 DEF Publishing, Moves
    <3>2. ~crossed' => ~crossed /\ \A g \in Workers \ {h} : ~Publishing(g) /\ ~Publishing(g)'
      BY <2>2, <2>3 DEF Publishing, Moves
    <3>3. ~crossed' => \A f \in Names : f \in ruleErrors <=> f \in publishedRules
      BY <1>3, <3>1, <3>2 DEF SettingsInv, RulesShown
    <3>4. ~crossed' => \A f \in Names : (f \in ruleErrors' <=> f \in publishedRules') \/ f \in tasks'[h].todo
      BY <1>1, <2>3, <2>4, <3>3 DEF Moves
    <3>5. ~crossed' => tasks'[h].rules = publishedRules'
      BY <1>1, <2>3, <2>4 DEF Moves
    <3>6. QED
      BY <3>1, <3>2, <3>4, <3>5 DEF RulesShown
  <2>7. Early' => Early
    BY <1>1, <2>3, <2>4 DEF Early, Moves, Workers
  <2>8. QED
    BY <1>1, <2>1, <2>3, <2>4, <2>5, <2>6, <2>7, PublicationKeeps
<1>4. CASE ~handshake
  <2> DEFINE task == At(h, "install")
  <2>1. /\ Moves(h, task) /\ UNCHANGED crossed
        /\ parked' = [shown |-> (parked.shown \ (publishedRules \ rules)) \cup rules,
                      cleared |-> (parked.cleared \ rules) \cup (publishedRules \ rules)]
    BY <1>4, Steps DEF Changes!ReportRules, Changes!Reported, SettingsInv, TaskStages, At
  <2>2. task \in TaskTypes /\ task.at = "install" /\ task.kind = tasks[h].kind
    BY <1>2 DEF At, TaskTypes, TaskStages
  <2> HIDE DEF task
  <2>3. parked' \in [shown : SUBSET Names, cleared : SUBSET Names]
    BY <1>2, <2>1 DEF SettingsInv, SettingsTyped
  <2>4. SettingsTyped'
    BY <1>1, <1>2, <2>1, <2>3 DEF SettingsInv, SettingsTyped, Moves
  <2>5. RulesShown'
    <3>1. parked.shown = publishedRules /\ ruleErrors = {} /\ \A g \in Workers : ~Publishing(g)
      BY <1>4 DEF SettingsInv, RulesShown
    <3>2. parked'.shown = publishedRules'
      BY <1>1, <2>1, <3>1
    <3>3. \A g \in Workers : ~Publishing(g)'
      BY <2>1, <2>2, <3>1 DEF Publishing, Moves
    <3>4. QED
      BY <1>1, <1>4, <3>1, <3>2, <3>3 DEF RulesShown
  <2>6. Early' => Early
    BY <1>1, <2>1, <2>2 DEF Early, Moves, Workers
  <2>7. QED
    BY <1>1, <2>1, <2>2, <2>4, <2>5, <2>6, PublicationKeeps
<1> QED
  BY <1>3, <1>4

LEMMA PublishRulesKeeps == ASSUME SettingsInv, NEW h \in Workers, Changes!PublishRules(h) PROVE SettingsInv'
<1>1. /\ UNCHANGED <<config, root, roots, broken, ruleset, generation, handshake, deferred, baseGame, excused>>
      /\ UNCHANGED <<parked, publishedRules, crossed, pass, lastScan, locSignature, made, ready>>
      /\ tasks[h].at = "publish"
  BY DEF Changes!PublishRules, Changes!passVars, Changes!configVars
<1>2. tasks[h] \in TaskTypes /\ handshake
  BY <1>1, Working DEF SettingsInv, RulesShown, Publishing
<1>3. CASE tasks[h].todo = {}
  <2>1. PICK task \in TaskTypes : /\ Moves(h, task) /\ task.at \in {"scan", "install"} /\ task.kind = tasks[h].kind
                                  /\ task.kind = "startup" => task.at = "scan"
    <3>1. PICK at \in {"scan", "install"} : Changes!Step(h, at) /\ (tasks[h].kind = "startup" => at = "scan")
      BY <1>3 DEF Changes!PublishRules
    <3>2. At(h, at) \in TaskTypes /\ at \in TaskStages
      BY <1>2 DEF At, TaskTypes, TaskStages
    <3>3. Moves(h, At(h, at))
      BY <3>1, <3>2, Steps DEF SettingsInv, At
    <3>4. QED
      BY <3>1, <3>2, <3>3 DEF At
  <2>2. UNCHANGED ruleErrors
    BY <1>3 DEF Changes!PublishRules
  <2>3. SettingsTyped'
    BY <1>1, <2>1, <2>2 DEF SettingsInv, SettingsTyped, Moves
  <2>4. RulesShown'
    <3>1. ~Publishing(h)' /\ \A g \in Workers \ {h} : tasks'[g] = tasks[g] /\ (Publishing(g)' <=> Publishing(g))
      BY <2>1 DEF Publishing, Moves
    <3>2. QED
      BY <1>1, <1>2, <1>3, <2>2, <3>1 DEF SettingsInv, RulesShown
  <2>5. Early' => Early
    BY <1>1, <2>1, Working DEF Early, Moves, Workers
  <2>6. QED
    BY <1>1, <2>1, <2>2, <2>3, <2>4, <2>5, PublicationKeeps
<1>4. CASE tasks[h].todo # {}
  <2>1. PICK f \in tasks[h].todo :
          /\ Changes!Become(h, [tasks[h] EXCEPT !.todo = @ \ {f}])
          /\ ruleErrors' = IF f \in tasks[h].rules THEN ruleErrors \cup {f} ELSE ruleErrors \ {f}
    BY <1>4 DEF Changes!PublishRules
  <2> DEFINE task == [at |-> "publish", kind |-> tasks[h].kind, rules |-> tasks[h].rules, todo |-> tasks[h].todo \ {f}]
  <2>2. task \in TaskTypes /\ [tasks[h] EXCEPT !.todo = @ \ {f}] = task /\ f \in Names
    BY <1>1, <1>2 DEF TaskTypes
  <2>3. Moves(h, task)
    BY <2>1, <2>2, Becomes DEF SettingsInv
  <2>4. task.at = "publish" /\ task.rules = tasks[h].rules /\ task.todo = tasks[h].todo \ {f} /\ task.kind = tasks[h].kind
    OBVIOUS
  <2> HIDE DEF task
  <2>5. SettingsTyped'
    BY <1>1, <2>1, <2>2, <2>3 DEF SettingsInv, SettingsTyped, Moves
  <2>6. RulesShown'
    <3>1. Publishing(h) /\ Publishing(h)' /\ tasks'[h] = task /\ \A g \in Workers \ {h} : tasks'[g] = tasks[g] /\ (Publishing(g)' <=> Publishing(g))
      BY <1>1, <2>3, <2>4 DEF Publishing, Moves
    <3>2. ~crossed => tasks[h].rules = publishedRules /\ \A g \in Workers \ {h} : ~Publishing(g)
      BY <3>1 DEF SettingsInv, RulesShown
    <3>3. ~crossed => \A e \in Names : (e \in ruleErrors <=> e \in publishedRules) \/ e \in tasks[h].todo
      BY <1>2, <3>1, <3>2 DEF SettingsInv, RulesShown
    <3>4. ~crossed => \A e \in Names : (e \in ruleErrors' <=> e \in publishedRules) \/ e \in tasks'[h].todo
      <4>1. SUFFICES ASSUME ~crossed, NEW e \in Names PROVE (e \in ruleErrors' <=> e \in publishedRules) \/ e \in tasks[h].todo \ {f}
        BY <2>4, <3>1
      <4>2. CASE e = f
        BY <2>1, <3>2, <4>1, <4>2
      <4>3. CASE e # f
        BY <2>1, <3>3, <4>1, <4>3
      <4>4. QED
        BY <4>2, <4>3
    <3>5. QED
      BY <1>1, <1>2, <2>4, <3>1, <3>2, <3>4 DEF RulesShown
  <2>7. Early' => Early
    BY <1>1, <2>3, <2>4 DEF Early, Moves, Workers
  <2>8. QED
    BY <1>1, <2>2, <2>3, <2>4, <2>5, <2>6, <2>7, PublicationKeeps
<1> QED
  BY <1>3, <1>4

LEMMA InitializedKeeps == ASSUME SettingsInv, Changes!Initialized PROVE SettingsInv'
<1> DEFINE h == Startup
           task == [at |-> "publish", kind |-> tasks[h].kind, rules |-> parked.shown, todo |-> parked.shown \cup parked.cleared]
<1>1. /\ UNCHANGED <<config, root, roots, broken, ruleset, generation, deferred, baseGame, excused>>
      /\ UNCHANGED <<publishedRules, ruleErrors, pass, lastScan, locSignature, made, ready>>
      /\ tasks[h].at = "respond" /\ handshake' = TRUE /\ parked' = [shown |-> {}, cleared |-> {}]
  BY DEF Changes!Initialized, Changes!passVars, Changes!configVars
<1>2. tasks[h] \in TaskTypes /\ h \in Workers /\ parked \in [shown : SUBSET Names, cleared : SUBSET Names]
  BY Working DEF SettingsInv, SettingsTyped, Workers
<1>3. task \in TaskTypes /\ [tasks[h] EXCEPT !.at = "publish", !.rules = parked.shown, !.todo = parked.shown \cup parked.cleared] = task
  <2>1. task \in TaskTypes
    BY <1>2 DEF TaskTypes, TaskStages
  <2> DEFINE one == At(h, "publish")
             two == [one EXCEPT !.rules = parked.shown]
  <2>2. [tasks[h] EXCEPT !.at = "publish"] = one
    BY <1>2 DEF At, TaskTypes
  <2>3. two = [at |-> "publish", kind |-> tasks[h].kind, rules |-> parked.shown, todo |-> tasks[h].todo]
    BY DEF At
  <2> HIDE DEF two
  <2>4. [two EXCEPT !.todo = parked.shown \cup parked.cleared] = task
    BY <2>3
  <2>5. QED
    BY <2>1, <2>2, <2>4 DEF two
<1>4. Moves(h, task) /\ crossed' \in BOOLEAN
  BY <1>2, <1>3, Becomes DEF Changes!Initialized, SettingsInv, SettingsTyped, Changes!PublishingToo
<1>5. task.at = "publish" /\ task.rules = parked.shown /\ task.kind = tasks[h].kind
  OBVIOUS
<1> HIDE DEF task
<1>6. SettingsTyped'
  BY <1>1, <1>4 DEF SettingsInv, SettingsTyped, Moves
<1>7. RulesShown'
  <2>1. ~handshake
    BY <1>1 DEF SettingsInv, Ordered
  <2>2. parked.shown = publishedRules /\ ruleErrors = {} /\ \A g \in Workers : ~Publishing(g)
    BY <2>1 DEF SettingsInv, RulesShown
  <2>3. tasks'[h].rules = publishedRules' /\ tasks'[h].todo = parked.shown \cup parked.cleared
    BY <1>1, <1>4, <1>5, <2>2 DEF Moves, task
  <2>4. Publishing(h)' /\ \A g \in Workers \ {h} : ~Publishing(g)'
    BY <1>4, <1>5, <2>2 DEF Publishing, Moves
  <2>5. \A f \in Names : (f \in ruleErrors' <=> f \in publishedRules') \/ f \in tasks'[h].todo
    BY <1>1, <2>2, <2>3
  <2>6. QED
    BY <1>1, <1>2, <2>3, <2>4, <2>5 DEF RulesShown
<1>8. ~Early'
  BY <1>4, <1>5 DEF Early, Moves
<1> QED
  BY <1>1, <1>2, <1>3, <1>4, <1>5, <1>6, <1>7, <1>8, PublicationKeeps

LEMMA InstallKeeps == ASSUME SettingsInv, NEW h \in Workers, Changes!InstallRules(h) PROVE SettingsInv'
<1>1. /\ UNCHANGED <<config, root, roots, broken, generation, handshake, deferred, baseGame, excused>>
      /\ UNCHANGED <<parked, publishedRules, ruleErrors, crossed, pass, lastScan, locSignature, made, ready>>
      /\ tasks[h].at = "install"
  BY DEF Changes!InstallRules, Changes!ruleVars, Changes!passVars, Changes!configVars
<1>2. tasks[h] \in TaskTypes /\ tasks[h].kind \in {"startup", "rules"} /\ tasks[h].rules \subseteq Names
  BY <1>1, Working DEF SettingsInv, Ordered, KindFits, TaskTypes
<1>3. PICK task \in TaskTypes :
        /\ Moves(h, task)
        /\ \/ ruleset' \subseteq Names /\ task.at = "bump" /\ task.kind = tasks[h].kind
           \/ ruleset' = ruleset /\ tasks[h].kind = "startup" /\ task.at = "respond" /\ task.kind = "startup"
           \/ ruleset' = ruleset /\ tasks[h].kind # "startup" /\ task.at = "retry" /\ task.kind = "reindex"
  <2>1. CASE ruleset' = tasks[h].rules /\ Changes!Step(h, "bump")
    <3>1. At(h, "bump") \in TaskTypes
      BY <1>2 DEF At, TaskTypes, TaskStages
    <3>2. Moves(h, At(h, "bump"))
      BY <2>1, Steps DEF SettingsInv, TaskStages, At
    <3>3. QED
      BY <1>2, <2>1, <3>1, <3>2 DEF At
  <2>2. CASE ruleset' = ruleset /\ tasks[h].kind = "startup" /\ Changes!Step(h, "respond")
    <3>1. At(h, "respond") \in TaskTypes
      BY <1>2 DEF At, TaskTypes, TaskStages
    <3>2. Moves(h, At(h, "respond"))
      BY <2>2, Steps DEF SettingsInv, TaskStages, At
    <3>3. QED
      BY <1>2, <2>2, <3>1, <3>2 DEF At
  <2>3. CASE ruleset' = ruleset /\ tasks[h].kind # "startup" /\ Changes!Become(h, [tasks[h] EXCEPT !.at = "retry", !.kind = "reindex"])
    <3> DEFINE task == [at |-> "retry", kind |-> "reindex", rules |-> tasks[h].rules, todo |-> tasks[h].todo]
    <3>1. [tasks[h] EXCEPT !.at = "retry"] = At(h, "retry")
      BY <1>2 DEF At, TaskTypes
    <3>2. [At(h, "retry") EXCEPT !.kind = "reindex"] = task
      BY DEF At
    <3>3. task \in TaskTypes /\ Changes!Become(h, task)
      BY <1>2, <2>3, <3>1, <3>2 DEF TaskTypes, TaskStages, Kinds
    <3>4. Moves(h, task)
      BY <3>3, Becomes DEF SettingsInv
    <3>5. QED
      BY <2>3, <3>3, <3>4
  <2>4. QED
    BY <2>1, <2>2, <2>3 DEF Changes!InstallRules
<1>4. SettingsTyped'
  BY <1>1, <1>3 DEF SettingsInv, SettingsTyped, Moves
<1>5. RulesShown'
  BY <1>1, <1>3, RulesKept DEF SettingsInv, Moves, Publishing
<1>6. ~Promised(h) /\ ~Settling(h)
  BY <1>1 DEF Promised, Settling
<1>7. BaseGameComes => BaseGameComes'
  BY <1>1, <1>3 DEF BaseGameComes, Moves
<1>8. /\ h # Startup => task.kind # "startup" /\ ~Early /\ tasks[h].kind = "rules"
      /\ h = Startup => task.kind = "startup" /\ Early
  BY <1>1, <1>2, <1>3, Working DEF Early
<1>9. ruleset' = ruleset \/ Settling(h)'
  BY <1>2, <1>3 DEF Settling, Moves
<1>10. ruleset' = ruleset \/ Early' \/ Promised(h)'
  BY <1>2, <1>3, <1>8 DEF Promised, Moves, Early
<1>11. task.at \notin {"scanning", "load", "report", "publish", "install", "idle", "rebuild", "over"} /\ (h = Startup => task.at # "retry")
  BY <1>3, <1>8
<1> QED
  BY <1>1, <1>3, <1>4, <1>5, <1>6, <1>7, <1>8, <1>9, <1>10, <1>11, HandlerKeeps DEF Settled, KindFits

LEMMA CommandKeepsSettings == ASSUME SettingsInv, NEW h \in Threads, Changes!Command(h) PROVE SettingsInv'
<1>1. PICK kind \in {"reindex", "clear", "cacheVanilla"} :
        /\ Changes!Become(h, [Changes!Idle EXCEPT !.at = IF kind = "cacheVanilla" THEN "rebuild" ELSE "retry", !.kind = kind])
        /\ baseGame' = (baseGame /\ kind = "reindex")
  BY DEF Changes!Command
<1> DEFINE at == IF kind = "cacheVanilla" THEN "rebuild" ELSE "retry"
           task == [at |-> at, kind |-> kind, rules |-> {}, todo |-> {}]
<1>2. task \in TaskTypes /\ Changes!Become(h, task) /\ h \in Workers
  <2>1. at \in TaskStages /\ kind \in Kinds /\ h \in Workers
    BY DEF TaskStages, Kinds, Workers
  <2> HIDE DEF at
  <2>2. task \in TaskTypes /\ [Changes!Idle EXCEPT !.at = at, !.kind = kind] = task
    BY <2>1, Fresh
  <2>3. Changes!Become(h, [Changes!Idle EXCEPT !.at = at, !.kind = kind])
    BY <1>1 DEF at
  <2>4. QED
    BY <2>1, <2>2, <2>3
<1>3. Moves(h, task)
  BY <1>2, Becomes DEF SettingsInv
<1>4. /\ UNCHANGED <<config, root, roots, broken, ruleset, generation, handshake, deferred, excused>>
      /\ UNCHANGED <<parked, publishedRules, ruleErrors, crossed, pass, lastScan, locSignature, made, ready>>
      /\ Changes!Arrive(h)
  BY DEF Changes!Command, Changes!ruleVars, Changes!passVars, Changes!configVars
<1>5. tasks[h] = Changes!Idle /\ h # Startup /\ ~Early /\ ~Publishing(h) /\ ~Settling(h) /\ ~Promised(h)
  BY <1>2, <1>4, Arrives
<1>6. /\ task.at \in {"rebuild", "retry"} /\ task.kind = kind
      /\ kind = "clear" => task.at = "retry"
      /\ kind = "cacheVanilla" => task.at = "rebuild"
  OBVIOUS
<1> HIDE DEF task
<1>7. SettingsTyped'
  BY <1>1, <1>3, <1>4 DEF SettingsInv, SettingsTyped, Moves
<1>8. RulesShown'
  BY <1>3, <1>4, <1>5, <1>6, RulesKept DEF SettingsInv, Moves, Publishing
<1>9. (BaseGameComes => BaseGameComes') \/ Promised(h)'
  <2>1. CASE kind = "clear"
    BY <1>3, <1>6, <2>1 DEF Promised, Moves
  <2>2. CASE kind = "cacheVanilla"
    BY <1>2, <1>3, <1>6, <2>2 DEF BaseGameComes, Moves
  <2>3. CASE kind = "reindex"
    <3>1. baseGame' <=> baseGame
      BY <1>1, <2>3
    <3>2. \A g \in Workers : tasks[g].at = "rebuild" => tasks'[g].at = "rebuild"
      BY <1>3, <1>5 DEF Moves, Changes!Idle
    <3>3. QED
      BY <3>1, <3>2 DEF BaseGameComes
  <2>4. QED
    BY <2>1, <2>2, <2>3
<1> QED
  BY <1>2, <1>3, <1>4, <1>5, <1>6, <1>7, <1>8, <1>9, HandlerKeeps DEF Settled, KindFits

LEMMA RebuildKeeps == ASSUME SettingsInv, NEW h \in Threads, Changes!RebuildVanilla(h) PROVE SettingsInv'
<1>1. /\ UNCHANGED <<config, root, roots, broken, ruleset, generation, handshake, deferred, excused>>
      /\ UNCHANGED <<parked, publishedRules, ruleErrors, crossed, pass, lastScan, locSignature, made, ready>>
      /\ tasks[h].at = "rebuild" /\ baseGame' = TRUE /\ Changes!Become(h, Changes!Idle)
  BY DEF Changes!RebuildVanilla, Changes!ruleVars, Changes!passVars, Changes!configVars
<1>2. Changes!Idle \in TaskTypes /\ h \in Workers
  BY DEF Changes!Idle, TaskTypes, TaskStages, Kinds, Workers
<1>3. Moves(h, Changes!Idle)
  BY <1>1, <1>2, Becomes DEF SettingsInv
<1>4. h # Startup /\ ~Early /\ ~Promised(h) /\ ~Settling(h)
  BY <1>1, <1>2, Working DEF Promised, Settling
<1>5. SettingsTyped'
  BY <1>1, <1>3 DEF SettingsInv, SettingsTyped, Moves
<1>6. RulesShown'
  BY <1>1, <1>3, RulesKept DEF SettingsInv, Moves, Publishing, Changes!Idle
<1>7. BaseGameComes'
  BY <1>1 DEF BaseGameComes
<1>8. Changes!Idle.at = "idle" /\ Changes!Idle.kind = "none"
  BY DEF Changes!Idle
<1> QED
  BY <1>1, <1>2, <1>3, <1>4, <1>5, <1>6, <1>7, <1>8, HandlerKeeps DEF Settled, KindFits

\* Nobody gives up a scan that is promised but by promising it elsewhere, or
\* because time was over or the user cancelled.
LEMMA GiveUpKeeps == ASSUME SettingsInv, NEW h \in Workers, Changes!GiveUp(h) PROVE SettingsInv'
<1> DEFINE task == IF h = Startup THEN At(h, "over") ELSE Changes!Idle
<1>1. /\ UNCHANGED <<config, root, roots, broken, ruleset, generation, handshake, baseGame>>
      /\ UNCHANGED <<parked, publishedRules, ruleErrors, crossed, pass, lastScan, locSignature, made>>
      /\ tasks[h].at \in {"retry", "scan"} /\ pass # Changes!NoPass
      /\ deferred' = deferred + (IF tasks[h].kind \in {"config", "rules"} THEN 1 ELSE 0)
      /\ excused' = (excused \/ tasks[h].kind \in {"folders", "clear"})
      /\ ready' = (ready \/ h = Startup)
  BY DEF Changes!GiveUp, Changes!Owes, Changes!ruleVars, Changes!configVars
<1>2. task \in TaskTypes /\ Changes!Become(h, task)
  <2>1. tasks[h] \in TaskTypes /\ At(h, "over") \in TaskTypes /\ Changes!Idle \in TaskTypes
    BY Working DEF At, TaskTypes, TaskStages, Kinds, Changes!Idle
  <2>2. [tasks[h] EXCEPT !.at = "over"] = At(h, "over")
    BY <2>1 DEF At, TaskTypes
  <2>3. QED
    BY <2>1, <2>2 DEF Changes!GiveUp
<1>3. Moves(h, task)
  BY <1>2, Becomes DEF SettingsInv
<1>4. /\ h = Startup => task.at = "over" /\ task.kind = tasks[h].kind
      /\ h # Startup => task.at = "idle" /\ task.kind = "none"
  BY DEF At, Changes!Idle
<1> HIDE DEF task
<1>5. SettingsTyped'
  BY <1>1, <1>3 DEF SettingsInv, SettingsTyped, Moves
<1>6. RulesShown'
  BY <1>1, <1>3, <1>4, RulesKept DEF SettingsInv, Moves, Publishing
<1>7. ~Settling(h) /\ pass.at # "none"
  BY <1>1 DEF Settling, SettingsInv, Ordered
<1>8. BaseGameComes => BaseGameComes'
  BY <1>1, <1>3 DEF BaseGameComes, Moves
<1>9. ~excused' /\ deferred' = 0 => ~excused /\ deferred = 0 /\ ~Promised(h)
  <2>1. deferred \in Nat
    BY DEF SettingsInv, SettingsTyped
  <2>2. /\ tasks[h].kind \in {"config", "rules"} => deferred' # 0
        /\ tasks[h].kind \notin {"config", "rules"} => deferred' = deferred
    BY <1>1, <2>1
  <2>3. /\ ~excused' => ~excused /\ tasks[h].kind \notin {"folders", "clear"}
    BY <1>1
  <2>4. Promised(h) => tasks[h].kind \in {"config", "rules", "folders", "clear"}
    BY DEF Promised
  <2>5. QED
    BY <2>2, <2>3, <2>4
<1>10. /\ h # Startup => ~Early
       /\ h = Startup => task.kind \in {"startup", "none"} /\ ~Early'
  BY <1>1, <1>3, <1>4, Working DEF Early, Moves
<1> QED
  BY <1>1, <1>2, <1>3, <1>4, <1>5, <1>6, <1>7, <1>8, <1>9, <1>10, HandlerKeeps DEF Settled, KindFits

LEMMA CancelWaitKeeps == ASSUME SettingsInv, NEW h \in Threads, Changes!CancelWait(h) PROVE SettingsInv'
<1>1. /\ UNCHANGED <<config, root, roots, broken, ruleset, generation, handshake, baseGame>>
      /\ UNCHANGED <<parked, publishedRules, ruleErrors, crossed, pass, lastScan, locSignature, made, ready>>
      /\ tasks[h].at = "retry" /\ h # Startup /\ Changes!Become(h, Changes!Idle)
      /\ deferred' = deferred + (IF tasks[h].kind = "clear" THEN 1 ELSE 0)
      /\ excused' = (excused \/ tasks[h].kind # "clear")
  BY DEF Changes!CancelWait, Changes!Cancellable, Changes!Cancelled, Changes!ruleVars, Changes!passVars, Changes!configVars
<1>2. Changes!Idle \in TaskTypes /\ h \in Workers /\ Changes!Idle.at = "idle" /\ Changes!Idle.kind = "none"
  BY DEF Changes!Idle, TaskTypes, TaskStages, Kinds, Workers
<1>3. Moves(h, Changes!Idle)
  BY <1>1, <1>2, Becomes DEF SettingsInv
<1>4. SettingsTyped'
  BY <1>1, <1>3 DEF SettingsInv, SettingsTyped, Moves
<1>5. RulesShown'
  BY <1>1, <1>2, <1>3, RulesKept DEF SettingsInv, Moves, Publishing
<1>6. ~Settling(h) /\ ~Early
  BY <1>1, <1>2, Working DEF Settling
<1>7. ~Settled'
  <2>1. deferred \in Nat
    BY DEF SettingsInv, SettingsTyped
  <2>2. tasks[h].kind = "clear" => deferred' # 0
    BY <1>1, <2>1
  <2>3. tasks[h].kind # "clear" => excused'
    BY <1>1
  <2>4. QED
    BY <2>2, <2>3 DEF Settled
<1> QED
  BY <1>1, <1>2, <1>3, <1>4, <1>5, <1>6, <1>7, HandlerKeeps DEF KindFits

\* A pass that starts has nothing to show yet; a quiet one relies on what the
\* last one left.
LEMMA StartKeeps ==
    ASSUME SettingsInv, pass.at = "none", NEW by \in Workers, NEW quiet \in BOOLEAN,
           pass' = [Changes!NoPass EXCEPT !.at = "walk", !.by = by, !.quiet = quiet],
           SettingsTyped', RulesShown', UNCHANGED <<config, root, ruleset, generation, baseGame, lastScan, locSignature, made, handshake>>,
           \A h \in Workers : \/ tasks'[h] = tasks[h]
                              \/ /\ h = by /\ ~quiet /\ tasks'[h] = At(h, "scanning") /\ tasks[h].at \in {"retry", "scan"},
           ~Early, quiet => Settled' = Settled
    PROVE  SettingsInv'
<1>1. SettingsTyped /\ RecordsTrue /\ Ordered /\ (Settled => PassKeepsUp)
  BY DEF SettingsInv
<1>2. pass'.at = "walk" /\ pass'.by = by /\ pass'.quiet = quiet /\ pass'.generation = 0
  BY DEF Changes!NoPass
<1>3. \A h \in Workers : \/ tasks'[h] = tasks[h]
                         \/ /\ tasks'[h].at = "scanning" /\ tasks'[h].kind = tasks[h].kind /\ tasks[h].at \in {"retry", "scan"}
                            /\ h = by /\ ~quiet
  <2>1. SUFFICES ASSUME NEW h \in Workers, tasks'[h] # tasks[h], h = by, ~quiet, tasks[h].at \in {"retry", "scan"},
                        tasks'[h] = At(h, "scanning")
                 PROVE  tasks'[h].at = "scanning" /\ tasks'[h].kind = tasks[h].kind
    OBVIOUS
  <2>2. At(h, "scanning").at = "scanning" /\ At(h, "scanning").kind = tasks[h].kind
    BY DEF At
  <2>3. QED
    BY <2>1, <2>2
<1>4. RecordsTrue'
  <2>1. \A h \in Workers : Settling(h)' <=> Settling(h)
    BY <1>3 DEF Settling
  <2>2. Changes!Current' = Changes!Current /\ (Indexed' <=> Indexed)
    BY DEF Changes!Current, Indexed
  <2>3. InForce(lastScan[1], lastScan[2])' => InForce(lastScan[1], lastScan[2])
    BY <2>1, <2>2 DEF InForce
  <2>4. pass'.generation <= generation'
    BY <1>1, <1>2 DEF SettingsTyped
  <2>5. QED
    BY <1>1, <1>2, <2>2, <2>3, <2>4 DEF RecordsTrue
<1>5. Ordered'
  BY <1>1, <1>2, <1>3 DEF Ordered, Early, KindFits, Workers
<1>6. Settled' => PassKeepsUp'
  <2>1. SUFFICES ASSUME Settled' PROVE PassKeepsUp'
    OBVIOUS
  <2>2. CASE ~quiet
    BY <1>2, <2>2 DEF PassKeepsUp, Undisturbed
  <2>3. CASE quiet
    <3>1. PassKeepsUp /\ Changes!Current' = Changes!Current /\ Undisturbed
      BY <1>1, <2>1, <2>3 DEF Changes!Current, Undisturbed
    <3>2. BaseGameComes => BaseGameComes'
      BY <1>3, <2>3 DEF BaseGameComes
    <3>3. QED
      BY <1>2, <3>1, <3>2 DEF PassKeepsUp
  <2>4. QED
    BY <2>2, <2>3
<1> QED
  BY <1>4, <1>5, <1>6 DEF SettingsInv

\* The record of a pass that starts.
LEMMA Started ==
    ASSUME NEW by \in Workers, NEW quiet \in BOOLEAN
    PROVE  /\ Changes!NoPass \in PassTypes /\ Changes!NoPass.at = "none"
           /\ [Changes!NoPass EXCEPT !.at = "walk", !.by = by, !.quiet = quiet] \in PassTypes
<1>1. Changes!NoPass \in PassTypes /\ Changes!NoPass.at = "none"
  BY DEF Changes!NoPass, PassTypes, PassStages, Places, Workers
<1> DEFINE none == Changes!NoPass
           one == [none EXCEPT !.at = "walk"]
           two == [one EXCEPT !.by = by]
<1>2. none \in PassTypes
  BY <1>1
<1> HIDE DEF none
<1>3. one \in PassTypes
  BY <1>2 DEF PassTypes, PassStages
<1> HIDE DEF one
<1>4. two \in PassTypes
  BY <1>3 DEF PassTypes
<1> HIDE DEF two
<1>5. [two EXCEPT !.quiet = quiet] \in PassTypes
  BY <1>4 DEF PassTypes
<1> QED
  BY <1>1, <1>5 DEF two, one, none

LEMMA TryKeeps == ASSUME SettingsInv, NEW h \in Workers, Changes!TryScan(h) PROVE SettingsInv'
<1>1. /\ UNCHANGED <<config, root, roots, broken, ruleset, generation, handshake, deferred, baseGame, excused>>
      /\ UNCHANGED <<parked, publishedRules, ruleErrors, crossed, lastScan, locSignature, made, ready>>
      /\ tasks[h].at \in {"retry", "scan"} /\ pass = Changes!NoPass
      /\ pass' = [Changes!NoPass EXCEPT !.at = "walk", !.by = h, !.quiet = FALSE]
      /\ Changes!Step(h, "scanning")
  BY DEF Changes!TryScan, Changes!Start, Changes!ruleVars, Changes!configVars
<1>2. Moves(h, At(h, "scanning"))
  BY <1>1, Steps DEF SettingsInv, TaskStages, At
<1>3. pass' \in PassTypes /\ pass.at = "none"
  BY <1>1, Started
<1>4. SettingsTyped'
  BY <1>1, <1>2, <1>3 DEF SettingsInv, SettingsTyped, Moves
<1>5. At(h, "scanning").at = "scanning"
  BY DEF At
<1>6. RulesShown'
  BY <1>1, <1>2, <1>5, RulesKept DEF SettingsInv, Moves, Publishing
<1>7. ~Early
  BY <1>1, Working DEF Early
<1> QED
  BY <1>1, <1>2, <1>3, <1>4, <1>6, <1>7, StartKeeps DEF Moves

LEMMA DeferredKeeps == ASSUME SettingsInv, Changes!RunDeferred PROVE SettingsInv'
<1>1. /\ UNCHANGED <<config, root, roots, broken, ruleset, generation, handshake, baseGame, tasks>>
      /\ UNCHANGED <<parked, publishedRules, ruleErrors, crossed, lastScan, locSignature, made, ready>>
      /\ deferred > 0 /\ deferred' = deferred - 1 /\ Startup \in Workers
  BY DEF Changes!RunDeferred, Changes!ruleVars, Changes!configVars, Workers
<1>2. SettingsTyped /\ Ordered /\ RulesShown /\ deferred' \in Nat
  BY <1>1 DEF SettingsInv, SettingsTyped
<1>3. RulesShown'
  BY <1>1, <1>2 DEF RulesShown, Publishing
<1>4. CASE pass = Changes!NoPass /\ Changes!Start(Startup, FALSE) /\ UNCHANGED excused
  <2>1. pass' = [Changes!NoPass EXCEPT !.at = "walk", !.by = Startup, !.quiet = FALSE]
    BY <1>4 DEF Changes!Start
  <2>2. pass' \in PassTypes /\ pass.at = "none"
    BY <1>1, <1>4, <2>1, Started
  <2>3. SettingsTyped'
    BY <1>1, <1>2, <1>4, <2>2 DEF SettingsTyped
  <2>4. ~Early
    BY <1>1, <1>2 DEF Ordered
  <2>5. QED
    BY <1>1, <1>3, <2>1, <2>2, <2>3, <2>4, StartKeeps
<1>5. CASE pass # Changes!NoPass /\ excused' = TRUE /\ UNCHANGED pass
  <2>1. SettingsTyped'
    BY <1>1, <1>2, <1>5 DEF SettingsTyped
  <2>2. ~Settled'
    BY <1>5 DEF Settled
  <2>3. RecordsTrue'
    BY <1>1, <1>5, RecordsKept DEF SettingsInv, Settling
  <2>4. Ordered'
    BY <1>1, <1>2, <1>5 DEF Ordered, Early, KindFits
  <2>5. QED
    BY <1>3, <2>1, <2>2, <2>3, <2>4 DEF SettingsInv
<1> QED
  BY <1>4, <1>5 DEF Changes!RunDeferred

LEMMA BackgroundKeeps == ASSUME SettingsInv, Changes!BackgroundPass PROVE SettingsInv'
<1>1. /\ UNCHANGED <<config, root, roots, broken, ruleset, generation, handshake, baseGame, tasks, deferred, excused>>
      /\ UNCHANGED <<parked, publishedRules, ruleErrors, crossed, lastScan, locSignature, made, ready>>
      /\ ready /\ pass = Changes!NoPass /\ Startup \in Workers
      /\ pass' = [Changes!NoPass EXCEPT !.at = "walk", !.by = Startup, !.quiet = TRUE]
  BY DEF Changes!BackgroundPass, Changes!Start, Changes!ruleVars, Changes!configVars, Workers
<1>2. pass' \in PassTypes /\ pass.at = "none"
  BY <1>1, Started
<1>3. SettingsTyped'
  BY <1>1, <1>2 DEF SettingsInv, SettingsTyped
<1>4. RulesShown'
  BY <1>1 DEF SettingsInv, RulesShown, Publishing
<1>5. ~Early /\ (Settled' = Settled)
  BY <1>1 DEF SettingsInv, Ordered, Settled, Promised
<1> QED
  BY <1>1, <1>2, <1>3, <1>4, <1>5, StartKeeps

-----------------------------------------------------------------------------
(* The pass                                                                *)

\* A pass that goes on, and what it keeps of what it was.
Onward(at) == /\ pass' \in PassTypes /\ pass'.at = at /\ pass'.by = pass.by /\ pass'.quiet = pass.quiet
KeepsFiles == pass'.files = pass.files
KeepsRest == pass'.generation = pass.generation /\ pass'.loc = pass.loc /\ pass'.rules = pass.rules

LEMMA Advances ==
    ASSUME pass \in PassTypes, NEW at \in PassStages
    PROVE  /\ pass' = [pass EXCEPT !.at = at] => Onward(at) /\ KeepsFiles /\ KeepsRest
           /\ \A files \in Places : pass' = [pass EXCEPT !.at = at, !.files = files] =>
                  Onward(at) /\ pass'.files = files /\ KeepsRest
           /\ \A loc \in Places : pass' = [pass EXCEPT !.at = at, !.loc = loc] =>
                  Onward(at) /\ KeepsFiles /\ pass'.loc = loc /\ pass'.generation = pass.generation
           /\ \A rules \in SUBSET SUBSET Names : pass' = [pass EXCEPT !.at = at, !.rules = rules] =>
                  Onward(at) /\ KeepsFiles /\ pass'.rules = rules /\ pass'.generation = pass.generation
           /\ \A read \in Nat : pass' = [pass EXCEPT !.at = at, !.generation = read] =>
                  Onward(at) /\ KeepsFiles /\ pass'.generation = read
<1> DEFINE one == [pass EXCEPT !.at = at]
<1>1. /\ one \in PassTypes /\ one.at = at /\ one.by = pass.by /\ one.quiet = pass.quiet /\ one.files = pass.files
      /\ one.generation = pass.generation /\ one.loc = pass.loc /\ one.rules = pass.rules
  BY DEF PassTypes
<1>2. pass' = one => Onward(at) /\ KeepsFiles /\ KeepsRest
  BY <1>1 DEF Onward, KeepsFiles, KeepsRest
<1> HIDE DEF one
<1>3. ASSUME NEW files \in Places, pass' = [one EXCEPT !.files = files] PROVE Onward(at) /\ pass'.files = files /\ KeepsRest
  BY <1>1, <1>3 DEF Onward, KeepsRest, PassTypes
<1>4. ASSUME NEW loc \in Places, pass' = [one EXCEPT !.loc = loc]
      PROVE  Onward(at) /\ KeepsFiles /\ pass'.loc = loc /\ pass'.generation = pass.generation
  BY <1>1, <1>4 DEF Onward, KeepsFiles, PassTypes
<1>5. ASSUME NEW rules \in SUBSET SUBSET Names, pass' = [one EXCEPT !.rules = rules]
      PROVE  Onward(at) /\ KeepsFiles /\ pass'.rules = rules /\ pass'.generation = pass.generation
  BY <1>1, <1>5 DEF Onward, KeepsFiles, PassTypes
<1>6. ASSUME NEW read \in Nat, pass' = [one EXCEPT !.generation = read]
      PROVE  Onward(at) /\ KeepsFiles /\ pass'.generation = read
  BY <1>1, <1>6 DEF Onward, KeepsFiles, PassTypes
<1> QED
  BY <1>2, <1>3, <1>4, <1>5, <1>6 DEF one

\* What a pass leaves alone on its way.
PassOnly == UNCHANGED <<config, root, roots, broken, ruleset, generation, handshake, deferred, excused, tasks,
                        parked, publishedRules, ruleErrors, crossed>>

LEMMA OnwardKeeps ==
    ASSUME SettingsInv, pass.at # "none", NEW at \in PassStages \ {"none"}, Onward(at), PassOnly,
           made' \in MadeTypes, baseGame' \in BOOLEAN, ready' \in BOOLEAN, locSignature' \in Places, lastScan' = lastScan,
           pass'.generation <= generation,
           InForce(lastScan[1], lastScan[2]) =>
              /\ Indexed'
              /\ at \notin {"none", "walk"} => pass'.files = Changes!Current
              /\ at = "prune" => pass'.rules = {ruleset},
           InForce(pass'.files, pass'.generation) =>
              /\ at = "prune" => pass'.rules = {ruleset}
              /\ at \in {"baseGame", "loc", "sign", "validate"} => Indexed',
           Settled => PassKeepsUp'
    PROVE  SettingsInv'
<1>1. SettingsTyped /\ RulesShown /\ RecordsTrue /\ Ordered
  BY DEF SettingsInv
<1>2. SettingsTyped'
  BY <1>1 DEF SettingsTyped, PassOnly, Onward
<1>3. RulesShown'
  BY <1>1 DEF RulesShown, Publishing, PassOnly
<1>4. Ordered'
  BY <1>1 DEF Ordered, Early, KindFits, PassOnly, Onward
<1>5. /\ Changes!Current' = Changes!Current
      /\ InForce(lastScan[1], lastScan[2])' <=> InForce(lastScan[1], lastScan[2])
      /\ InForce(pass.files, pass.generation)' <=> InForce(pass'.files, pass'.generation)
  BY DEF Changes!Current, InForce, Settling, PassOnly
<1>6. RecordsTrue'
  <2>1. pass'.at = at /\ generation' = generation /\ ruleset' = ruleset /\ lastScan[2] <= generation
    BY <1>1 DEF RecordsTrue, Onward, PassOnly
  <2>2. QED
    BY <1>5, <2>1 DEF RecordsTrue
<1>7. Settled' <=> Settled
  BY DEF Settled, Promised, PassOnly
<1> QED
  BY <1>2, <1>3, <1>4, <1>6, <1>7 DEF SettingsInv

\* A pass that ends: there is none then, and the handler it was for is done.
LEMMA FinishKeeps ==
    ASSUME SettingsInv, pass.at # "none", Changes!Finish, made' \in MadeTypes, lastScan' \in Places \X Nat,
           lastScan'[2] <= generation,
           UNCHANGED <<config, root, roots, broken, ruleset, generation, handshake, deferred, excused,
                       parked, publishedRules, ruleErrors, crossed, locSignature, baseGame>>,
           InForce(lastScan'[1], lastScan'[2]) => Indexed',
           Settled => /\ Indexed' /\ made'.late = {config.late} /\ BaseGameComes
    PROVE  SettingsInv'
<1>1. SettingsTyped /\ RulesShown /\ RecordsTrue /\ Ordered
  BY DEF SettingsInv
<1> DEFINE h == pass.by
           over == [at |-> "over", kind |-> "none", rules |-> {}, todo |-> {}]
           task == IF h = Startup THEN over ELSE Changes!Idle
<1>2. h \in Workers /\ tasks[h] \in TaskTypes /\ "over" \in TaskStages
  BY <1>1, Working DEF SettingsTyped, PassTypes, TaskStages
<1>3. task \in TaskTypes /\ [Changes!Idle EXCEPT !.at = "over"] = over
  <2>1. Changes!Idle \in TaskTypes /\ over \in TaskTypes
    BY DEF Changes!Idle, TaskTypes, TaskStages, Kinds
  <2>2. [Changes!Idle EXCEPT !.at = "over"] = over
    BY DEF Changes!Idle
  <2>3. QED
    BY <2>1, <2>2
<1>4. /\ pass' = Changes!NoPass /\ Changes!NoPass \in PassTypes
      /\ pass'.at = "none" /\ pass'.generation = 0 /\ ready' \in BOOLEAN
      /\ \/ tasks[h].at = "scanning" /\ Moves(h, task)
         \/ tasks[h].at # "scanning" /\ tasks' = tasks
  <2>1. CASE tasks[h].at = "scanning"
    <3>1. Changes!Become(h, task) /\ ready' \in BOOLEAN
      BY <1>1, <1>3, <2>1 DEF Changes!Finish, SettingsTyped
    <3>2. Moves(h, task)
      BY <1>1, <1>2, <1>3, <3>1, Becomes
    <3>3. QED
      BY <1>2, <2>1, <3>1, <3>2, Started DEF Changes!Finish, Changes!NoPass
  <2>2. CASE tasks[h].at # "scanning"
    BY <1>1, <1>2, <2>2, Started DEF Changes!Finish, Changes!NoPass, SettingsTyped
  <2>3. QED
    BY <2>1, <2>2
<1>5. /\ task.at \in {"over", "idle"} /\ task.kind = "none"
      /\ h = Startup => task.at = "over"
      /\ h # Startup => task.at = "idle"
  BY DEF Changes!Idle
<1>6. SettingsTyped'
  BY <1>1, <1>4 DEF SettingsTyped, Moves
<1>7. \A g \in Workers : \/ tasks'[g] = tasks[g] /\ tasks[g].at # "scanning"
                         \/ g = h /\ tasks[g].at = "scanning" /\ tasks'[g] = task
  BY <1>1, <1>4 DEF Moves, Ordered
<1> HIDE DEF task, h
<1>8. RulesShown'
  BY <1>1, <1>5, <1>7, RulesKept DEF Publishing
<1>9. \A g \in Workers : /\ Settling(g)' <=> Settling(g)
                         /\ Promised(g)' <=> Promised(g)
                         /\ tasks'[g].at = "rebuild" <=> tasks[g].at = "rebuild"
  BY <1>5, <1>7 DEF Settling, Promised
<1>10. RecordsTrue'
  <2>1. InForce(lastScan[1], lastScan[2])' => InForce(lastScan'[1], lastScan'[2])
    BY <1>9 DEF InForce, Changes!Current
  <2>2. QED
    BY <1>1, <1>4, <2>1 DEF RecordsTrue, SettingsTyped
<1>11. Ordered'
  <2>1. ~Early /\ ~Early'
    BY <1>1, <1>5, <1>7 DEF Ordered, Early, Workers
  <2>2. QED
    BY <1>1, <1>4, <1>5, <1>7, <2>1 DEF Ordered, KindFits, Workers
<1>12. Settled' => PassKeepsUp'
  <2>1. (Settled' <=> Settled) /\ (BaseGameComes' <=> BaseGameComes)
    BY <1>9 DEF Settled, BaseGameComes
  <2>2. QED
    BY <1>4, <2>1 DEF PassKeepsUp
<1> QED
  BY <1>6, <1>8, <1>10, <1>11, <1>12 DEF SettingsInv

\* What a step of the pass starts from.
LEMMA Passing ==
    ASSUME SettingsInv
    PROVE  /\ pass \in PassTypes /\ made \in MadeTypes /\ baseGame \in BOOLEAN /\ ready \in BOOLEAN
           /\ locSignature \in Places /\ Changes!Current \in Places /\ lastScan \in Places \X Nat
           /\ generation \in Nat /\ pass.generation \in Nat /\ pass.generation <= generation /\ lastScan[2] <= generation
           /\ ruleset \subseteq Names /\ config.late \in 0..1
  BY DEF SettingsInv, SettingsTyped, RecordsTrue, PassTypes, Changes!Current, Places

LEMMA WalkKeeps == ASSUME SettingsInv, Changes!Walk PROVE SettingsInv'
<1>1. /\ pass.at = "walk" /\ UNCHANGED <<config, root, roots, broken, ruleset, generation, handshake>>
      /\ UNCHANGED <<parked, publishedRules, ruleErrors, crossed, lastScan, locSignature, baseGame, made>>
  BY DEF Changes!Walk, Changes!passOnly, Changes!ruleVars, Changes!configVars
<1>2. CASE root = Absent /\ Changes!Finish /\ UNCHANGED <<deferred, excused>>
  <2>1. ~Settled /\ ~InForce(lastScan'[1], lastScan'[2])
    BY <1>2 DEF Settled, InForce
  <2>2. QED
    BY <1>1, <1>2, <2>1, Passing, FinishKeeps
<1>3. CASE pass' = [pass EXCEPT !.at = "stamp", !.files = Changes!Current] /\ UNCHANGED Changes!keepsTasks
  <2>1. "stamp" \in PassStages \ {"none"}
    BY DEF PassStages
  <2>2. Onward("stamp") /\ pass'.files = Changes!Current /\ KeepsRest /\ UNCHANGED <<tasks, deferred, excused, ready>>
    BY <1>3, <2>1, Passing, Advances DEF Changes!keepsTasks
  <2>3. InForce(lastScan[1], lastScan[2]) => Indexed'
    BY <1>1 DEF SettingsInv, RecordsTrue, Indexed, Changes!Current
  <2>4. Settled => PassKeepsUp'
    BY <1>1, <2>2 DEF SettingsInv, PassKeepsUp, Undisturbed, Onward, BaseGameComes, Changes!Current
  <2>5. PassOnly
    BY <1>1, <2>2 DEF PassOnly
  <2>6. pass'.generation <= generation
    BY <2>2, Passing DEF KeepsRest
  <2>7. QED
    BY <1>1, <2>1, <2>2, <2>3, <2>4, <2>5, <2>6, Passing, OnwardKeeps
<1> QED
  BY <1>2, <1>3 DEF Changes!Walk

LEMMA StampKeeps == ASSUME SettingsInv, Changes!Stamp PROVE SettingsInv'
<1>1. /\ pass.at = "stamp" /\ UNCHANGED <<config, root, roots, broken, ruleset, generation, handshake>>
      /\ UNCHANGED <<parked, publishedRules, ruleErrors, crossed, lastScan, locSignature, baseGame, made>>
  BY DEF Changes!Stamp, Changes!passOnly, Changes!ruleVars, Changes!configVars
<1>2. CASE pass.quiet /\ lastScan = <<pass.files, generation>> /\ Changes!Finish /\ UNCHANGED <<deferred, excused>>
  <2>1. InForce(lastScan[1], lastScan[2]) => Indexed
    BY DEF SettingsInv, RecordsTrue
  <2>2. Settled => /\ pass.files = Changes!Current /\ made.late = {config.late} /\ BaseGameComes /\ PassKeepsUp
    BY <1>1, <1>2 DEF SettingsInv, PassKeepsUp, Undisturbed
  <2>3. Settled => Indexed
    <3>1. ASSUME Settled PROVE \A h \in Workers : ~Settling(h)
      <4>1. ~Early
        BY <1>1 DEF SettingsInv, Ordered
      <4>2. \A h \in Workers : Settling(h) => Promised(h)
        BY <4>1, Working DEF SettingsInv, Ordered, KindFits, Settling, Promised, Early
      <4>3. QED
        BY <3>1, <4>2 DEF Settled
    <3>2. QED
      BY <1>2, <2>1, <2>2, <3>1 DEF InForce, Settled
  <2>4. /\ InForce(lastScan'[1], lastScan'[2]) => Indexed'
        /\ Settled => Indexed' /\ made'.late = {config.late} /\ BaseGameComes
    BY <1>1, <2>1, <2>2, <2>3 DEF Indexed, Changes!Current
  <2>5. QED
    BY <1>1, <1>2, <2>4, Passing, FinishKeeps
<1>3. CASE pass' = [pass EXCEPT !.at = "index", !.generation = generation] /\ UNCHANGED Changes!keepsTasks
  <2>1. "index" \in PassStages \ {"none"}
    BY DEF PassStages
  <2>2. Onward("index") /\ KeepsFiles /\ pass'.generation = generation /\ UNCHANGED <<tasks, deferred, excused, ready>>
    BY <1>3, <2>1, Passing, Advances DEF Changes!keepsTasks
  <2>3. InForce(lastScan[1], lastScan[2]) => Indexed' /\ pass'.files = Changes!Current
    BY <1>1, <2>2 DEF SettingsInv, RecordsTrue, Indexed, Changes!Current, KeepsFiles
  <2>4. Settled => PassKeepsUp'
    BY <1>1, <2>2 DEF SettingsInv, PassKeepsUp, Undisturbed, Onward, KeepsFiles, BaseGameComes, Changes!Current
  <2>5. PassOnly
    BY <1>1, <2>2 DEF PassOnly
  <2>6. QED
    BY <1>1, <2>1, <2>2, <2>3, <2>4, <2>5, Passing, OnwardKeeps
<1> QED
  BY <1>2, <1>3 DEF Changes!Stamp

LEMMA IndexKeeps == ASSUME SettingsInv, Changes!IndexSome \/ Changes!IndexRest PROVE SettingsInv'
<1>1. /\ pass.at \in {"index", "prune"} /\ UNCHANGED <<lastScan, locSignature, baseGame, ready>> /\ PassOnly
  BY DEF Changes!IndexSome, Changes!IndexRest, Changes!passOnly, Changes!ruleVars, Changes!configVars, Changes!keepsTasks, PassOnly
<1>2. UNCHANGED <<config, root, ruleset, generation, tasks>> /\ Changes!Current' = Changes!Current
  BY <1>1 DEF PassOnly, Changes!Current
<1>3. CASE Changes!IndexSome
  <2>1. "prune" \in PassStages \ {"none"} /\ {ruleset} \in SUBSET SUBSET Names
    BY Passing DEF PassStages
  <2>2. pass.at = "index" /\ pass' = [pass EXCEPT !.at = "prune", !.rules = {ruleset}]
    BY <1>3 DEF Changes!IndexSome
  <2>3. Onward("prune") /\ KeepsFiles /\ pass'.rules = {ruleset} /\ pass'.generation = pass.generation
    BY <2>1, <2>2, Passing, Advances
  <2>4. /\ made'.rules = made.rules \cup {ruleset} /\ made'.files = made.files \cup {pass.files}
        /\ made'.late = made.late /\ made' \in MadeTypes
    <3>1. made' = [made EXCEPT !.rules = @ \cup {ruleset}, !.files = @ \cup {pass.files}]
      BY <1>3 DEF Changes!IndexSome
    <3> DEFINE one == [made EXCEPT !.rules = @ \cup {ruleset}]
    <3>2. one.rules = made.rules \cup {ruleset} /\ one.files = made.files /\ one.late = made.late /\ one \in MadeTypes
      BY Passing DEF MadeTypes
    <3>3. made' = [one EXCEPT !.files = @ \cup {pass.files}] /\ pass.files \in Places
      BY <3>1, Passing DEF PassTypes
    <3> HIDE DEF one
    <3>4. QED
      BY <3>2, <3>3 DEF MadeTypes
  <2>5. InForce(lastScan[1], lastScan[2]) => Indexed' /\ pass'.files = Changes!Current
    BY <1>2, <2>2, <2>3, <2>4 DEF SettingsInv, RecordsTrue, Indexed, KeepsFiles
  <2>6. Settled => PassKeepsUp'
    BY <1>1, <1>2, <2>2, <2>3, <2>4 DEF SettingsInv, PassKeepsUp, Undisturbed, Onward, KeepsFiles, BaseGameComes
  <2>7. QED
    BY <1>1, <2>1, <2>2, <2>3, <2>4, <2>5, <2>6, Passing, OnwardKeeps
<1>4. CASE Changes!IndexRest
  <2>1. "baseGame" \in PassStages \ {"none"}
    BY DEF PassStages
  <2>2. pass.at = "prune" /\ pass' = [pass EXCEPT !.at = "baseGame"]
    BY <1>4 DEF Changes!IndexRest, Changes!Advance
  <2>3. Onward("baseGame") /\ KeepsFiles /\ KeepsRest
    BY <2>1, <2>2, Passing, Advances
  <2>4. /\ made'.rules = pass.rules \cup {ruleset} /\ made'.files = {pass.files}
        /\ made'.late = made.late /\ made' \in MadeTypes
    <3>1. made' = [made EXCEPT !.rules = pass.rules \cup {ruleset}, !.files = {pass.files}]
      BY <1>4 DEF Changes!IndexRest
    <3> DEFINE one == [made EXCEPT !.rules = pass.rules \cup {ruleset}]
    <3>2. one.rules = pass.rules \cup {ruleset} /\ one.files = made.files /\ one.late = made.late /\ one \in MadeTypes
      BY Passing DEF MadeTypes, PassTypes
    <3>3. made' = [one EXCEPT !.files = {pass.files}] /\ pass.files \in Places
      BY <3>1, Passing DEF PassTypes
    <3> HIDE DEF one
    <3>4. QED
      BY <3>2, <3>3 DEF MadeTypes
  <2>5. /\ InForce(lastScan[1], lastScan[2]) => Indexed' /\ pass'.files = Changes!Current
        /\ InForce(pass.files, pass.generation) => Indexed'
    BY <1>2, <2>2, <2>3, <2>4 DEF SettingsInv, RecordsTrue, Indexed, KeepsFiles, InForce
  <2>6. Settled => PassKeepsUp'
    BY <1>1, <1>2, <2>2, <2>3, <2>4 DEF SettingsInv, PassKeepsUp, Undisturbed, Onward, KeepsFiles, BaseGameComes, Indexed
  <2>7. pass'.files = pass.files /\ pass'.generation = pass.generation
    BY <2>3 DEF KeepsFiles, KeepsRest
  <2>8. QED
    BY <1>1, <2>1, <2>2, <2>3, <2>4, <2>5, <2>6, <2>7, Passing, OnwardKeeps
<1> QED
  BY <1>3, <1>4

LEMMA LaterKeeps == ASSUME SettingsInv, Changes!EnsureVanilla \/ Changes!RebuildLoc \/ Changes!SignLoc PROVE SettingsInv'
<1>1. pass.at \in {"baseGame", "loc", "sign"} /\ UNCHANGED lastScan /\ PassOnly
  BY DEF Changes!EnsureVanilla, Changes!RebuildLoc, Changes!SignLoc, Changes!passOnly, Changes!ruleVars, Changes!configVars, Changes!keepsTasks, PassOnly
<1>2. UNCHANGED <<config, root, ruleset, generation, tasks>> /\ Changes!Current' = Changes!Current
  BY <1>1 DEF PassOnly, Changes!Current
<1>3. /\ InForce(lastScan[1], lastScan[2]) => Indexed /\ pass.files = Changes!Current
      /\ InForce(pass.files, pass.generation) => Indexed
  BY <1>1 DEF SettingsInv, RecordsTrue
<1>4. PICK at \in {"loc", "sign", "validate"} :
        /\ Onward(at) /\ KeepsFiles /\ pass'.generation = pass.generation
        /\ made' \in MadeTypes /\ made'.rules = made.rules /\ made'.files = made.files
        /\ baseGame' \in BOOLEAN /\ ready' \in BOOLEAN /\ locSignature' \in Places
        /\ Settled => PassKeepsUp'
  <2>1. CASE Changes!EnsureVanilla
    <3>1. /\ pass.at = "baseGame" /\ pass' = [pass EXCEPT !.at = "loc"] /\ baseGame' = TRUE /\ UNCHANGED <<ready, locSignature, made>>
      BY <2>1 DEF Changes!EnsureVanilla, Changes!Advance, Changes!keepsTasks
    <3>2. Onward("loc") /\ KeepsFiles /\ KeepsRest
      BY <3>1, Passing, Advances DEF PassStages
    <3>3. Settled => PassKeepsUp'
      BY <1>1, <1>2, <3>1, <3>2 DEF SettingsInv, PassKeepsUp, Undisturbed, Onward, KeepsFiles, BaseGameComes, Indexed
    <3>4. QED
      BY <3>1, <3>2, <3>3, Passing DEF KeepsRest
  <2>2. CASE Changes!RebuildLoc
    <3>1. /\ pass.at = "loc" /\ pass' = [pass EXCEPT !.at = "sign", !.loc = Changes!Current] /\ UNCHANGED <<ready, locSignature, baseGame>>
          /\ \/ pass.quiet /\ locSignature = Changes!Current /\ made' = made
             \/ made' = [made EXCEPT !.late = {config.late}]
      BY <2>2 DEF Changes!RebuildLoc, Changes!keepsTasks
    <3>2. Onward("sign") /\ KeepsFiles /\ pass'.loc = Changes!Current /\ pass'.generation = pass.generation
      BY <3>1, Passing, Advances DEF PassStages
    <3>3. /\ made' \in MadeTypes /\ made'.rules = made.rules /\ made'.files = made.files
          /\ made'.late = {config.late} \/ (pass.quiet /\ locSignature = Changes!Current /\ made'.late = made.late)
      BY <3>1, Passing DEF MadeTypes
    <3>4. Settled => made'.late = {config.late}
      BY <3>3 DEF SettingsInv, PassKeepsUp, Undisturbed
    <3>5. Settled => PassKeepsUp'
      BY <1>1, <1>2, <3>1, <3>2, <3>3, <3>4 DEF SettingsInv, PassKeepsUp, Undisturbed, Onward, KeepsFiles, BaseGameComes, Indexed
    <3>6. QED
      BY <3>1, <3>2, <3>3, <3>5, Passing
  <2>3. CASE Changes!SignLoc
    <3>1. /\ pass.at = "sign" /\ pass' = [pass EXCEPT !.at = "validate"] /\ locSignature' = pass.loc /\ ready' = TRUE
          /\ UNCHANGED <<baseGame, made>>
      BY <2>3 DEF Changes!SignLoc, Changes!Advance
    <3>2. Onward("validate") /\ KeepsFiles /\ KeepsRest /\ locSignature' \in Places
      BY <3>1, Passing, Advances DEF PassStages, PassTypes
    <3>3. Settled => PassKeepsUp'
      BY <1>1, <1>2, <3>1, <3>2 DEF SettingsInv, PassKeepsUp, Undisturbed, Onward, KeepsFiles, KeepsRest, BaseGameComes, Indexed
    <3>4. QED
      BY <3>1, <3>2, <3>3, Passing DEF KeepsRest
  <2>4. QED
    BY <2>1, <2>2, <2>3
<1>5. Indexed' <=> Indexed
  BY <1>2, <1>4 DEF Indexed
<1>6. at \in PassStages \ {"none"} /\ at # "prune" /\ pass'.files = pass.files /\ pass'.generation <= generation
  BY <1>4, Passing DEF PassStages, KeepsFiles
<1>7. InForce(pass'.files, pass'.generation) => Indexed'
  BY <1>3, <1>4, <1>5, <1>6
<1> QED
  BY <1>1, <1>3, <1>4, <1>5, <1>6, <1>7, OnwardKeeps

LEMMA ValidateAllKeeps == ASSUME SettingsInv, Changes!ValidateAll PROVE SettingsInv'
<1>1. /\ pass.at = "validate" /\ Changes!Finish /\ lastScan' = <<pass.files, pass.generation>>
      /\ UNCHANGED <<config, root, roots, broken, ruleset, generation, handshake, deferred, excused>>
      /\ UNCHANGED <<parked, publishedRules, ruleErrors, crossed, locSignature, baseGame>>
      /\ made' = [made EXCEPT !.rules = @ \cup {ruleset}]
  BY DEF Changes!ValidateAll, Changes!Recorded, Changes!passOnly, Changes!ruleVars, Changes!configVars
<1>2. made'.rules = made.rules \cup {ruleset} /\ made'.files = made.files /\ made'.late = made.late /\ made' \in MadeTypes
  BY <1>1, Passing DEF MadeTypes
<1>3. lastScan' \in Places \X Nat /\ lastScan'[1] = pass.files /\ lastScan'[2] = pass.generation
  BY <1>1, Passing DEF PassTypes
<1>4. Indexed => Indexed'
  BY <1>1, <1>2 DEF Indexed, Changes!Current
<1>5. InForce(lastScan'[1], lastScan'[2]) => Indexed'
  BY <1>1, <1>3, <1>4 DEF SettingsInv, RecordsTrue
<1>6. Settled => Indexed' /\ made'.late = {config.late} /\ BaseGameComes
  BY <1>1, <1>2, <1>4 DEF SettingsInv, PassKeepsUp
<1> QED
  BY <1>1, <1>2, <1>3, <1>5, <1>6, Passing, FinishKeeps

LEMMA CancelPassKeeps == ASSUME SettingsInv, Changes!CancelPass PROVE SettingsInv'
<1> DEFINE h == pass.by
<1>1. /\ pass.at \notin {"none", "walk"} /\ tasks[h].at = "scanning" /\ h # Startup /\ Changes!Become(h, Changes!Idle)
      /\ pass' = Changes!NoPass
      /\ deferred' = deferred + (IF tasks[h].kind = "clear" THEN 1 ELSE 0)
      /\ excused' = (excused \/ tasks[h].kind # "clear")
      /\ UNCHANGED <<config, root, roots, broken, ruleset, generation, handshake, ready, lastScan, locSignature, baseGame, made>>
      /\ UNCHANGED <<parked, publishedRules, ruleErrors, crossed>>
  BY DEF Changes!CancelPass, Changes!Cancellable, Changes!Cancelled, Changes!passOnly, Changes!ruleVars, Changes!configVars
<1>2. h \in Workers /\ Changes!Idle \in TaskTypes /\ Changes!Idle.at = "idle" /\ Changes!Idle.kind = "none"
  BY Passing DEF PassTypes, Changes!Idle, TaskTypes, TaskStages, Kinds
<1>3. Moves(h, Changes!Idle)
  BY <1>1, <1>2, Becomes DEF SettingsInv
<1>4. pass' \in PassTypes /\ pass'.at = "none" /\ pass'.generation = 0 /\ deferred \in Nat
  BY <1>1, <1>2, Started DEF Changes!NoPass, SettingsInv, SettingsTyped
<1>5. SettingsTyped'
  BY <1>1, <1>3, <1>4 DEF SettingsInv, SettingsTyped, Moves
<1>6. \A g \in Workers : \/ tasks'[g] = tasks[g] /\ tasks[g].at # "scanning"
                         \/ g = h /\ tasks[g].at = "scanning" /\ tasks'[g].at = "idle" /\ tasks'[g].kind = "none"
  BY <1>1, <1>2, <1>3 DEF Moves, SettingsInv, Ordered
<1>7. tasks'[Startup] = tasks[Startup] /\ ~Early /\ ~Early'
  BY <1>1, <1>3 DEF Moves, SettingsInv, Ordered, Early, Workers
<1> HIDE DEF h
<1>8. RulesShown'
  BY <1>1, <1>6, RulesKept DEF SettingsInv, Publishing
<1>9. RecordsTrue'
  <2>1. InForce(lastScan[1], lastScan[2])' => InForce(lastScan[1], lastScan[2])
    BY <1>1, <1>6 DEF InForce, Changes!Current, Settling
  <2>2. Indexed' <=> Indexed
    BY <1>1 DEF Indexed, Changes!Current
  <2>3. QED
    BY <1>1, <1>4, <2>1, <2>2, Passing DEF SettingsInv, RecordsTrue
<1>10. Ordered'
  BY <1>1, <1>4, <1>6, <1>7 DEF SettingsInv, Ordered, KindFits
<1>11. ~Settled'
  <2>1. tasks[h].kind = "clear" => deferred' # 0
    BY <1>1, <1>4
  <2>2. tasks[h].kind # "clear" => excused'
    BY <1>1
  <2>3. QED
    BY <2>1, <2>2 DEF Settled
<1> QED
  BY <1>5, <1>8, <1>9, <1>10, <1>11 DEF SettingsInv

LEMMA NextSettings == ASSUME SettingsInv, Changes!Next PROVE SettingsInv'
<1>1. ASSUME NEW h \in Workers, Changes!Handle(h) PROVE SettingsInv'
  BY <1>1, BumpKeeps, LoadKeeps, ReportKeeps, PublishRulesKeeps, InstallKeeps, TryKeeps, GiveUpKeeps DEF Changes!Handle
<1>2. ASSUME NEW h \in Threads, Changes!Request(h) PROVE SettingsInv'
  BY <1>2, ConfigurationKeeps, FoldersKeep, CommandKeepsSettings, RebuildKeeps, CancelWaitKeeps DEF Changes!Request
<1>3. CASE Changes!Pass
  BY <1>3, WalkKeeps, StampKeeps, IndexKeeps, LaterKeeps, ValidateAllKeeps, CancelPassKeeps DEF Changes!Pass
<1> QED
  BY <1>1, <1>2, <1>3, EditRulesKeeps, InitializedKeeps, DeferredKeeps, BackgroundKeeps DEF Changes!Next, Workers

LEMMA SettingsInit == Changes!Init => SettingsInv
<1>1. SUFFICES ASSUME Changes!Init PROVE SettingsInv
  OBVIOUS
<1> DEFINE load == [at |-> "load", kind |-> "startup", rules |-> {}, todo |-> {}]
<1>2. load \in TaskTypes /\ Changes!Idle \in TaskTypes /\ [Changes!Idle EXCEPT !.at = "load", !.kind = "startup"] = load
  BY Fresh DEF TaskStages, Kinds
<1>3. Changes!Idle.at = "idle" /\ Changes!Idle.kind = "none" /\ Startup \in Workers
  BY DEF Changes!Idle, Workers
<1> HIDE DEF load
<1>4. tasks = [h \in Workers |-> IF h = Startup THEN load ELSE Changes!Idle]
  BY <1>1, <1>2 DEF Changes!Init, Workers
<1>5. tasks \in [Workers -> TaskTypes] /\ tasks[Startup] = load /\ \A h \in Workers \ {Startup} : tasks[h] = Changes!Idle
  BY <1>2, <1>3, <1>4
<1>6. load.at = "load" /\ load.kind = "startup"
  BY DEF load
<1>7. /\ pass = Changes!NoPass /\ pass \in PassTypes /\ pass.at = "none" /\ pass.generation = 0 /\ pass.files = <<Absent, 0>>
      /\ lastScan = <<<<Absent, 0>>, 0>> /\ locSignature = <<Absent, 0>> /\ generation = 0 /\ deferred = 0
      /\ ~ready /\ ~handshake
  BY <1>1, Started DEF Changes!Init, Changes!NoPass, Workers
<1>8. lastScan \in Places \X Nat /\ locSignature \in Places
  BY <1>7 DEF Places
<1>9. SettingsTyped
  <2>1. /\ config \in [globs : 0..1, late : 0..1] /\ roots \subseteq Uris /\ broken \subseteq Names /\ ruleset = {}
        /\ parked = [shown |-> {}, cleared |-> {}] /\ publishedRules = {} /\ ruleErrors = {}
        /\ excused = FALSE /\ crossed = FALSE /\ baseGame = FALSE /\ ready = FALSE /\ handshake = FALSE
        /\ made = [rules |-> {}, files |-> {}, late |-> {}]
    BY <1>1 DEF Changes!Init, Changes!Unread
  <2>2. root \in Uris \cup {Absent}
    BY <1>1 DEF Changes!Init
  <2>3. made \in MadeTypes /\ parked \in [shown : SUBSET Names, cleared : SUBSET Names]
    BY <2>1 DEF MadeTypes
  <2>4. QED
    BY <1>5, <1>7, <1>8, <2>1, <2>2, <2>3 DEF SettingsTyped
<1>10. RulesShown
  BY <1>1, <1>3, <1>5, <1>6, <1>7 DEF RulesShown, Publishing, Changes!Init
<1>11. RecordsTrue
  BY <1>7 DEF RecordsTrue, InForce, Changes!Current
<1>12. Ordered
  BY <1>3, <1>5, <1>6, <1>7 DEF Ordered, KindFits, Early
<1>13. Settled => PassKeepsUp
  BY <1>5, <1>6, <1>7 DEF Settled, PassKeepsUp, Changes!Current
<1> QED
  BY <1>9, <1>10, <1>11, <1>12, <1>13 DEF SettingsInv

\* While another service runs the settings are as the server starts.
SettingsOf == /\ part \in {"uses", "scan", "store", "progress", "edits", "settings", "cache"}
              /\ IF part = "settings" THEN SettingsInv ELSE ~handshake /\ root = Absent

LEMMA SettingsCorrect == MCSpec => []SettingsOf
<1>1. MCInit => SettingsOf
  BY SettingsInit DEF MCInit, SettingsOf, Changes!Init
<1>2. SettingsOf /\ [MCNext]_mcVars => SettingsOf'
  <2>1. SUFFICES ASSUME SettingsOf, [MCNext]_mcVars PROVE SettingsOf'
    OBVIOUS
  <2>2. part' = part
    BY <2>1 DEF MCNext, mcVars
  <2>3. CASE part = "settings" /\ Changes!Next
    BY <2>1, <2>2, <2>3, NextSettings DEF SettingsOf
  <2>4. CASE part = "settings" /\ UNCHANGED mcVars
    BY <2>1, <2>2, <2>4
       DEF mcVars, settingsVars, SettingsOf, SettingsInv, SettingsTyped, RulesShown, Publishing, RecordsTrue, InForce, Settling, Indexed,
           Changes!Current, Ordered, KindFits, Early, Settled, Promised, PassKeepsUp, BaseGameComes, Undisturbed
  <2>5. CASE part # "settings"
    BY <2>1, <2>2, <2>5 DEF MCNext, mcVars, settingsVars, SettingsOf
  <2>6. QED
    BY <2>1, <2>3, <2>4, <2>5 DEF MCNext, SettingsOf
<1> QED
  BY <1>1, <1>2, PTL DEF MCSpec

\* When everything is at rest, whatever changes of settings and folders, loads
\* of rules, commands and passes met and in whichever order, the index is made
\* from what is in force and the base game is in memory, but for scans that were
\* given up when their time was over, or cancelled.
THEOREM NothingForgottenHolds == MCSpec => []NothingForgotten
<1>1. SettingsOf => NothingForgotten
  <2>1. SUFFICES ASSUME SettingsInv, Changes!AtRest, ~excused, root # Absent
                 PROVE  /\ made = [rules |-> {ruleset}, files |-> {Changes!Current}, late |-> {config.late}]
                        /\ baseGame
    <3>1. part # "settings" /\ SettingsOf => root = Absent
      BY DEF SettingsOf
    <3>2. QED
      BY <3>1 DEF SettingsOf, NothingForgotten, Changes!NothingForgotten
  <2>2. /\ \A h \in Threads : tasks[h].at = "idle" /\ tasks[h].kind = "none"
        /\ tasks[Startup].at = "over" /\ deferred = 0 /\ pass.at = "none"
    BY <2>1 DEF Changes!AtRest, Changes!Idle, Changes!NoPass
  <2>3. Settled
    BY <2>1, <2>2 DEF Settled, Promised, Workers
  <2>4. Indexed /\ made.late = {config.late} /\ BaseGameComes
    BY <2>1, <2>2, <2>3 DEF SettingsInv, PassKeepsUp
  <2>5. made \in MadeTypes
    BY <2>1 DEF SettingsInv, SettingsTyped
  <2>6. made = [rules |-> {ruleset}, files |-> {Changes!Current}, late |-> {config.late}]
    BY <2>4, <2>5 DEF Indexed, MadeTypes
  <2>7. baseGame
    BY <2>2, <2>4 DEF BaseGameComes, Workers
  <2>8. QED
    BY <2>6, <2>7
<1> QED
  BY <1>1, SettingsCorrect, PTL

\* A quiet pass that finds what the last scan recorded may be skipped: the index
\* has the files and the rules that the pass would give it, after cancelled scans
\* and retries given up too.
THEOREM SkipsAreSoundHolds == MCSpec => []SkipsAreSound
<1>1. SettingsOf => SkipsAreSound
  <2>1. SUFFICES ASSUME SettingsInv, root # Absent, \A h \in DOMAIN tasks : tasks[h].at # "bump",
                        lastScan = <<Changes!Current, generation>>
                 PROVE  made.rules = {ruleset} /\ made.files = {Changes!Current}
    <3>1. part # "settings" /\ SettingsOf => root = Absent
      BY DEF SettingsOf
    <3>2. QED
      BY <3>1 DEF SettingsOf, SkipsAreSound, Changes!SkipsAreSound
  <2>2. InForce(lastScan[1], lastScan[2])
    BY <2>1 DEF InForce, Settling, SettingsInv, SettingsTyped
  <2>3. QED
    BY <2>1, <2>2 DEF SettingsInv, RecordsTrue, Indexed
<1> QED
  BY <1>1, SettingsCorrect, PTL

\* The client shows the errors of the rules that were loaded last, from before
\* the handshake or after it, unless two handlers published at the same time.
THEOREM RuleErrorsShownHolds == MCSpec => []RuleErrorsShown
<1>1. SettingsOf => RuleErrorsShown
  <2>1. SUFFICES ASSUME SettingsInv, handshake, ~crossed, \A h \in DOMAIN tasks : tasks[h].at # "publish"
                 PROVE  ruleErrors = publishedRules
    <3>1. part # "settings" /\ SettingsOf => ~handshake
      BY DEF SettingsOf
    <3>2. QED
      BY <3>1 DEF SettingsOf, RuleErrorsShown, Changes!RuleErrorsShown
  <2>2. \A f \in Names : f \in ruleErrors <=> f \in publishedRules
    BY <2>1 DEF SettingsInv, SettingsTyped, RulesShown, Publishing
  <2>3. QED
    BY <2>1, <2>2 DEF SettingsInv, SettingsTyped
<1> QED
  BY <1>1, SettingsCorrect, PTL

-----------------------------------------------------------------------------
(* Sums over finite sets                                                   *)

\* Whatever holds of every subset whose strict subsets it holds of, holds of all: a set of
\* subsets that is not all of them leaves out a least one.
LEMMA LeastSubset ==
    ASSUME NEW S, IsFiniteSet(S), NEW Good, Good # SUBSET S, Good \subseteq SUBSET S
    PROVE  \E T \in SUBSET S : T \notin Good /\ \A U \in SUBSET T : U # T => U \in Good
<1>1. IsWellFoundedOn(StrictSubsetOrdering(S), SUBSET S)
  BY FS_StrictSubsetOrderingWellFounded, FS_FiniteSubsetsOfFinite, Zenon
<1> DEFINE Bad == (SUBSET S) \ Good
<1>2. \E T \in Bad : \A U \in Bad : ~(<<U, T>> \in StrictSubsetOrdering(S))
  <2>1. Bad \subseteq SUBSET S /\ Bad # {}
    OBVIOUS
  <2> HIDE DEF Bad
  <2>2. QED
    BY <1>1, <2>1, WFMin, Zenon
<1>3. PICK T \in Bad : \A U \in Bad : ~(<<U, T>> \in StrictSubsetOrdering(S))
  BY <1>2
<1>4. \A U \in SUBSET T : U # T => U \in Good
  BY <1>3 DEF StrictSubsetOrdering
<1> QED
  BY <1>3, <1>4

\* The element a sum over s takes first, and the function such a sum is a value of.
First(s) == CHOOSE x \in s : TRUE
IsSum(S, weight, f) == f = [s \in SUBSET S |-> IF s = {} THEN 0 ELSE weight[First(s)] + f[s \ {First(s)}]]

\* Two such functions agree where both are defined.
LEMMA SumIsUnique ==
    ASSUME NEW S, IsFiniteSet(S), NEW weight, NEW T \in SUBSET S, NEW f, IsSum(T, weight, f),
           NEW U \in SUBSET S, NEW g, IsSum(U, weight, g)
    PROVE  \A s \in SUBSET S : s \subseteq T /\ s \subseteq U => f[s] = g[s]
<1> DEFINE Good == {s \in SUBSET S : s \subseteq T /\ s \subseteq U => f[s] = g[s]}
<1>1. ASSUME NEW s \in SUBSET S, s \notin Good, \A r \in SUBSET s : r # s => r \in Good PROVE FALSE
  <2>1. s \subseteq T /\ s \subseteq U /\ f[s] # g[s]
    BY <1>1
  <2>2. /\ f[s] = IF s = {} THEN 0 ELSE weight[First(s)] + f[s \ {First(s)}]
        /\ g[s] = IF s = {} THEN 0 ELSE weight[First(s)] + g[s \ {First(s)}]
    BY <2>1 DEF IsSum
  <2>3. CASE s = {}
    BY <2>1, <2>2, <2>3
  <2>4. CASE s # {}
    <3>1. First(s) \in s
      BY <2>4 DEF First
    <3>2. s \ {First(s)} \in Good
      BY <1>1, <3>1
    <3>3. f[s \ {First(s)}] = g[s \ {First(s)}]
      BY <2>1, <3>2
    <3>4. QED
      BY <2>1, <2>2, <2>4, <3>3
  <2> QED
    BY <2>3, <2>4
<1>2. Good = SUBSET S
  <2>1. Good \subseteq SUBSET S
    OBVIOUS
  <2> HIDE DEF Good
  <2>2. QED
    BY <1>1, <2>1, LeastSubset
<1> QED
  BY <1>2

\* There is one.
LEMMA SumExists ==
    ASSUME NEW S, IsFiniteSet(S), NEW weight
    PROVE  \E f : IsSum(S, weight, f)
<1> DEFINE Good == {T \in SUBSET S : \E f : IsSum(T, weight, f)}
           Sum(T) == CHOOSE f : IsSum(T, weight, f)
<1>1. ASSUME NEW T \in SUBSET S, \A r \in SUBSET T : r # T => r \in Good
      PROVE  T \in Good
  <2>1. \A r \in SUBSET T : r # T => IsSum(r, weight, Sum(r))
    BY <1>1
  <2> DEFINE top == IF T = {} THEN 0 ELSE weight[First(T)] + Sum(T \ {First(T)})[T \ {First(T)}]
             f == [s \in SUBSET T |-> IF s = T THEN top ELSE Sum(s)[s]]
             Rest(s) == IF s = {} THEN 0 ELSE weight[First(s)] + f[s \ {First(s)}]
  <2> HIDE DEF Sum
  <2>2. ASSUME NEW s \in SUBSET T PROVE f[s] = Rest(s)
    <3>1. CASE s = {}
      <4>1. CASE s = T
        BY <3>1, <4>1
      <4>2. CASE s # T
        BY <2>1, <3>1, <4>2 DEF IsSum
      <4> QED
        BY <4>1, <4>2
    <3>2. CASE s # {}
      <4> DEFINE x == First(s)
                 r == s \ {x}
      <4>1. x \in s
        BY <3>2 DEF First
      <4>2. r \in SUBSET s /\ r \in SUBSET T /\ r # T /\ r # s
        BY <4>1
      <4>3. f[r] = Sum(r)[r] /\ IsSum(r, weight, Sum(r))
        BY <2>1, <4>2
      <4>4. CASE s = T
        BY <3>2, <4>3, <4>4
      <4>5. CASE s # T
        <5>1. IsSum(s, weight, Sum(s)) /\ f[s] = Sum(s)[s]
          BY <2>1, <4>5
        <5>2. Sum(s)[s] = weight[x] + Sum(s)[r]
          BY <3>2, <5>1 DEF IsSum
        <5>3. r \in SUBSET S /\ s \in SUBSET S
          BY <4>2
        <5> HIDE DEF r, x, f
        <5>4. \A t \in SUBSET S : t \subseteq s /\ t \subseteq r => Sum(s)[t] = Sum(r)[t]
          BY <4>3, <5>1, <5>3, SumIsUnique
        <5>5. QED
          BY <3>2, <4>2, <4>3, <5>1, <5>2, <5>3, <5>4 DEF r, x
      <4> QED
        BY <4>4, <4>5
    <3> QED
      BY <3>1, <3>2
  <2>3. f = [s \in SUBSET T |-> Rest(s)]
    <3>1. f = [s \in SUBSET T |-> f[s]]
      OBVIOUS
    <3> HIDE DEF f
    <3>2. QED
      BY <2>2, <3>1
  <2>4. IsSum(T, weight, f)
    <3> HIDE DEF f
    <3> QED
    BY <2>3 DEF IsSum
  <2> QED
    BY <2>4
<1>2. Good = SUBSET S
  <2>1. Good \subseteq SUBSET S
    OBVIOUS
  <2> HIDE DEF Good
  <2>2. QED
    BY <1>1, <2>1, LeastSubset
<1>3. S \in Good
  BY <1>2
<1> QED
  BY <1>3

\* A sum of integers is an integer.
LEMMA SumIsInteger ==
    ASSUME NEW S, IsFiniteSet(S), NEW weight \in [S -> Int], NEW f, IsSum(S, weight, f)
    PROVE  \A s \in SUBSET S : f[s] \in Int
<1> DEFINE Good == {s \in SUBSET S : f[s] \in Int}
<1>1. ASSUME NEW s \in SUBSET S, s \notin Good, \A r \in SUBSET s : r # s => r \in Good PROVE FALSE
  <2>1. f[s] = IF s = {} THEN 0 ELSE weight[First(s)] + f[s \ {First(s)}]
    BY DEF IsSum
  <2>2. CASE s # {}
    <3>1. First(s) \in s
      BY <2>2 DEF First
    <3>2. f[s \ {First(s)}] \in Int /\ weight[First(s)] \in Int
      BY <1>1, <3>1
    <3>3. QED
      BY <1>1, <2>1, <2>2, <3>2
  <2> QED
    BY <1>1, <2>1, <2>2
<1>2. Good = SUBSET S
  <2>1. Good \subseteq SUBSET S
    OBVIOUS
  <2> HIDE DEF Good
  <2>2. QED
    BY <1>1, <2>1, LeastSubset
<1> QED
  BY <1>2

\* Replacing one weight changes the sums it is in by the difference.
LEMMA SumUpdate ==
    ASSUME NEW S, IsFiniteSet(S), NEW weight \in [S -> Int], NEW f, IsSum(S, weight, f),
           NEW other \in [S -> Int], NEW g, IsSum(S, other, g),
           NEW u \in S, \A x \in S \ {u} : other[x] = weight[x]
    PROVE  \A s \in SUBSET S : g[s] = f[s] + IF u \in s THEN other[u] - weight[u] ELSE 0
<1> DEFINE Good == {s \in SUBSET S : g[s] = f[s] + IF u \in s THEN other[u] - weight[u] ELSE 0}
<1>0. other[u] \in Int /\ \A x \in S : x # u => other[x] = weight[x]
  OBVIOUS
<1>1. ASSUME NEW s \in SUBSET S, s \notin Good, \A r \in SUBSET s : r # s => r \in Good PROVE FALSE
  <2>1. /\ f[s] = IF s = {} THEN 0 ELSE weight[First(s)] + f[s \ {First(s)}]
        /\ g[s] = IF s = {} THEN 0 ELSE other[First(s)] + g[s \ {First(s)}]
    BY DEF IsSum
  <2>2. CASE s = {}
    BY <1>1, <2>1, <2>2
  <2>3. CASE s # {}
    <3> DEFINE x == First(s)
               r == s \ {x}
    <3>1. x \in s /\ x \in S
      BY <2>3 DEF First
    <3>2. r \in SUBSET S /\ r \in Good
      BY <1>1, <3>1
    <3>3. f[r] \in Int /\ weight[x] \in Int /\ weight[u] \in Int
      BY <3>1, <3>2, SumIsInteger
    <3>4. f[s] = weight[x] + f[r] /\ g[s] = other[x] + g[r]
      BY <2>1, <2>3
    <3>5. g[r] = f[r] + IF u \in r THEN other[u] - weight[u] ELSE 0
      BY <3>2
    <3>6. (u \in s /\ x # u => u \in r) /\ (x = u => u \notin r) /\ (u \notin s => u \notin r /\ x # u)
      BY <3>1
    <3>7. g[s] = f[s] + IF u \in s THEN other[u] - weight[u] ELSE 0
      <4> HIDE DEF x, r
      <4>1. CASE x = u
        BY <1>0, <3>1, <3>3, <3>4, <3>5, <3>6, <4>1
      <4>2. CASE x # u
        BY <1>0, <3>1, <3>3, <3>4, <3>5, <3>6, <4>2
      <4> QED
        BY <4>1, <4>2
    <3> QED
      BY <1>1, <3>7
  <2> QED
    BY <2>2, <2>3
<1>2. Good = SUBSET S
  <2>1. Good \subseteq SUBSET S
    OBVIOUS
  <2> HIDE DEF Good
  <2>2. QED
    BY <1>1, <2>1, LeastSubset
<1> QED
  BY <1>2

\* The sum over the whole set.
Total(S, weight) == (CHOOSE sum : IsSum(S, weight, sum))[S]

\* It is an integer, and follows a weight that changes.
LEMMA TotalIsInteger ==
    ASSUME NEW S, IsFiniteSet(S), NEW weight \in [S -> Int]
    PROVE  Total(S, weight) \in Int
<1>1. PICK f : f = (CHOOSE sum : IsSum(S, weight, sum))
  OBVIOUS
<1>2. IsSum(S, weight, f)
  BY <1>1, SumExists
<1> QED
  BY <1>1, <1>2, SumIsInteger DEF Total

LEMMA TotalFollows ==
    ASSUME NEW S, IsFiniteSet(S), NEW weight \in [S -> Int], NEW other \in [S -> Int],
           NEW u \in S, \A x \in S \ {u} : other[x] = weight[x]
    PROVE  Total(S, other) = Total(S, weight) - weight[u] + other[u]
<1>1. PICK f : f = (CHOOSE sum : IsSum(S, weight, sum))
  OBVIOUS
<1>2. PICK g : g = (CHOOSE sum : IsSum(S, other, sum))
  OBVIOUS
<1>3. IsSum(S, weight, f) /\ IsSum(S, other, g)
  BY <1>1, <1>2, SumExists
<1>4. g[S] = f[S] + (other[u] - weight[u])
  <2>1. \A s \in SUBSET S : g[s] = f[s] + IF u \in s THEN other[u] - weight[u] ELSE 0
    BY <1>3, SumUpdate
  <2> QED
    BY <2>1
<1>5. f[S] \in Int /\ weight[u] \in Int /\ other[u] \in Int
  BY <1>3, SumIsInteger
<1> QED
  BY <1>1, <1>2, <1>4, <1>5 DEF Total

\* It is 0 if every weight is.
LEMMA ZeroTotal ==
    ASSUME NEW S, IsFiniteSet(S)
    PROVE  Total(S, [x \in S |-> 0]) = 0
<1> DEFINE zero == [x \in S |-> 0]
           f == [s \in SUBSET S |-> 0]
<1>1. IsSum(S, zero, f)
  <2>1. \A s \in SUBSET S : s # {} => First(s) \in s
    BY DEF First
  <2>2. \A s \in SUBSET S : s # {} => zero[First(s)] = 0 /\ f[s \ {First(s)}] = 0
    BY <2>1
  <2>3. ASSUME NEW s \in SUBSET S PROVE 0 = IF s = {} THEN 0 ELSE zero[First(s)] + f[s \ {First(s)}]
    <3>1. s # {} => zero[First(s)] = 0 /\ f[s \ {First(s)}] = 0
      BY <2>2
    <3> HIDE DEF zero, f
    <3>2. s # {} => zero[First(s)] + f[s \ {First(s)}] = 0
      BY <3>1
    <3> QED
      BY <3>2
  <2> QED
    BY <2>3 DEF IsSum
<1> HIDE DEF zero, f
<1>2. PICK g : g = (CHOOSE sum : IsSum(S, zero, sum))
  OBVIOUS
<1>3. IsSum(S, zero, g)
  BY <1>1, <1>2
<1>4. S \in SUBSET S
  OBVIOUS
<1>5. g[S] = f[S]
  BY <1>1, <1>3, <1>4, SumIsUnique
<1>6. f[S] = 0
  BY <1>4 DEF f
<1> QED
  BY <1>2, <1>5, <1>6 DEF Total, zero

-----------------------------------------------------------------------------
(* Open documents                                                          *)

Charges == [u \in Uris |-> Documents!RetainedBytes(documents[u])]

\* A charge is the larger of the two sizes, and an absent document has none.
StoreTyped ==
    /\ documents = [u \in Uris |-> documents[u]]
    /\ \A u \in Uris : documents[u] = [version |-> documents[u].version, text |-> documents[u].text, ast |-> documents[u].ast]
    /\ \A u \in Uris : documents[u].text \in Nat /\ documents[u].ast \in Nat

StoreInv ==
    /\ StoreTyped
    /\ retained = Total(Uris, Charges)
    /\ Documents!WithinLimits

LEMMA Limits ==
    /\ MaxDocumentBytes \in Nat /\ MaxOpenDocuments \in Nat /\ MaxRetainedBytes \in Nat
    /\ 0..(MaxDocumentBytes + 1) \subseteq Nat
<1>1. MaxDocumentBytes \in Nat /\ MaxOpenDocuments \in Nat /\ MaxRetainedBytes \in Nat
  BY LimitsAssumption
<1> QED
  BY <1>1

LEMMA UrisFinite == IsFiniteSet(Uris)
BY LimitsAssumption, Zenon

\* The instance counts as its environment does.
LEMMA SameCardinality == \A S : Documents!Cardinality(S) = Cardinality(S)
BY DEF Documents!Cardinality, Cardinality

LEMMA Within ==
    /\ Documents!WithinLimits <=> retained <= MaxRetainedBytes /\ Cardinality(Documents!OpenDocuments) <= MaxOpenDocuments
    /\ Documents!WithinLimits' <=> retained' <= MaxRetainedBytes /\ Cardinality(Documents!OpenDocuments') <= MaxOpenDocuments
BY SameCardinality DEF Documents!WithinLimits

LEMMA ChargesType ==
    ASSUME StoreTyped
    PROVE  /\ Charges \in [Uris -> Nat] /\ Charges \in [Uris -> Int]
           /\ \A u \in Uris : Charges[u] = Documents!RetainedBytes(documents[u])
BY DEF StoreTyped, Charges, Documents!RetainedBytes

\* One document's charge is replaced: the total follows.
LEMMA ReplaceKeeps ==
    ASSUME StoreInv, StoreTyped', NEW u \in Uris,
           \A v \in Uris \ {u} : documents'[v] = documents[v],
           Documents!Replace(Documents!RetainedBytes(documents[u]), Documents!RetainedBytes(documents'[u]))
    PROVE  retained' = Total(Uris, Charges')
<1>1. Charges \in [Uris -> Int] /\ Charges' \in [Uris -> Int]
  BY ChargesType, Limits DEF StoreInv, StoreTyped, Charges, Documents!RetainedBytes
<1>2. Charges[u] = Documents!RetainedBytes(documents[u]) /\ Charges'[u] = Documents!RetainedBytes(documents'[u])
  BY DEF Charges, Documents!RetainedBytes
<1>3. \A v \in Uris \ {u} : Charges'[v] = Charges[v]
  BY DEF Charges, Documents!RetainedBytes
<1>4. Total(Uris, Charges') = Total(Uris, Charges) - Charges[u] + Charges'[u]
  BY <1>1, <1>3, UrisFinite, TotalFollows
<1>5. retained' = retained - Charges[u] + Charges'[u] /\ retained = Total(Uris, Charges)
  BY <1>2 DEF Documents!Replace, StoreInv
<1> QED
  BY <1>4, <1>5

\* The documents that are open are finitely many, one more after an open at most.
LEMMA OpenDocumentsGrow ==
    ASSUME NEW u \in Uris, \A v \in Uris \ {u} : documents'[v] = documents[v]
    PROVE  /\ Cardinality(Documents!OpenDocuments) \in Nat /\ Cardinality(Documents!OpenDocuments') \in Nat
           /\ Cardinality(Documents!OpenDocuments') <= Cardinality(Documents!OpenDocuments) + 1
           /\ Documents!IsOpen(u) \/ ~Documents!IsOpen(u)' =>
                Cardinality(Documents!OpenDocuments') <= Cardinality(Documents!OpenDocuments)
<1> DEFINE before == Documents!OpenDocuments
           after == Documents!OpenDocuments'
<1>1. before \in SUBSET Uris /\ after \in SUBSET Uris /\ after \subseteq before \cup {u}
      /\ (Documents!IsOpen(u) \/ ~Documents!IsOpen(u)' => after \subseteq before)
  BY DEF Documents!OpenDocuments, Documents!IsOpen
<1> HIDE DEF before, after
<1>2. IsFiniteSet(before) /\ IsFiniteSet(after) /\ IsFiniteSet(before \cup {u})
  BY <1>1, UrisFinite, FS_Subset, FS_AddElement
<1>3. Cardinality(before) \in Nat /\ Cardinality(after) \in Nat /\ Cardinality(before \cup {u}) \in Nat
  BY <1>2, FS_CardinalityType
<1>4. Cardinality(after) <= Cardinality(before \cup {u})
  BY <1>1, <1>2, FS_Subset
<1>5. Cardinality(before \cup {u}) <= Cardinality(before) + 1
  BY <1>2, <1>3, FS_AddElement
<1>6. after \subseteq before => Cardinality(after) <= Cardinality(before)
  BY <1>2, FS_Subset
<1> QED
  BY <1>1, <1>3, <1>4, <1>5, <1>6 DEF before, after

\* What each handler does to the document it is for.
LEMMA OpenKeeps ==
    ASSUME StoreInv, NEW u \in Uris, NEW version, NEW size \in Nat, Documents!Open(u, version, size)
    PROVE  StoreInv'
<1> DEFINE d == [version |-> version, text |-> size, ast |-> 0]
<1>1. /\ documents' = [documents EXCEPT ![u] = d]
      /\ Documents!IsOpen(u) \/ Cardinality(Documents!OpenDocuments) < MaxOpenDocuments
      /\ Documents!Admits(Documents!RetainedBytes(documents[u]), size)
      /\ Documents!Replace(Documents!RetainedBytes(documents[u]), size)
  BY SameCardinality DEF Documents!Open
<1>2. documents'[u] = d /\ \A v \in Uris \ {u} : documents'[v] = documents[v]
  <2> HIDE DEF d
  <2> QED
    BY <1>1 DEF StoreInv, StoreTyped
<1>3. StoreTyped'
  BY <1>1, <1>2 DEF StoreInv, StoreTyped
<1>4. Documents!RetainedBytes(documents'[u]) = size
  BY <1>2 DEF Documents!RetainedBytes
<1>5. retained' = Total(Uris, Charges')
  BY <1>1, <1>2, <1>3, <1>4, ReplaceKeeps
<1>6. retained' <= MaxRetainedBytes
  BY <1>1 DEF Documents!Admits, Documents!Replace
<1>7. Cardinality(Documents!OpenDocuments') <= MaxOpenDocuments
  <2>1. /\ Cardinality(Documents!OpenDocuments) \in Nat /\ Cardinality(Documents!OpenDocuments') \in Nat
        /\ Cardinality(Documents!OpenDocuments') <= Cardinality(Documents!OpenDocuments) + 1
        /\ Documents!IsOpen(u) => Cardinality(Documents!OpenDocuments') <= Cardinality(Documents!OpenDocuments)
    BY <1>2, OpenDocumentsGrow
  <2>2. Cardinality(Documents!OpenDocuments) <= MaxOpenDocuments /\ MaxOpenDocuments \in Nat
    BY Limits, Within DEF StoreInv
  <2> QED
    BY <1>1, <2>1, <2>2
<1>8. Documents!WithinLimits'
  BY <1>6, <1>7, Within
<1> QED
  BY <1>3, <1>5, <1>8 DEF StoreInv

\* A step that opens nothing keeps the number of documents within its limit.
LEMMA StillWithin ==
    ASSUME StoreInv, StoreTyped', NEW u \in Uris, \A v \in Uris \ {u} : documents'[v] = documents[v],
           Documents!IsOpen(u) \/ ~Documents!IsOpen(u)',
           Documents!Replace(Documents!RetainedBytes(documents[u]), Documents!RetainedBytes(documents'[u])),
           retained' <= MaxRetainedBytes
    PROVE  StoreInv'
<1>1. retained' = Total(Uris, Charges')
  BY ReplaceKeeps
<1>2. Cardinality(Documents!OpenDocuments') <= MaxOpenDocuments
  <2>1. /\ Cardinality(Documents!OpenDocuments) \in Nat /\ Cardinality(Documents!OpenDocuments') \in Nat
        /\ Cardinality(Documents!OpenDocuments') <= Cardinality(Documents!OpenDocuments)
    BY OpenDocumentsGrow
  <2>2. Cardinality(Documents!OpenDocuments) <= MaxOpenDocuments /\ MaxOpenDocuments \in Nat
    BY Limits, Within DEF StoreInv
  <2> QED
    BY <2>1, <2>2
<1>3. Documents!WithinLimits'
  BY <1>2, Within
<1> QED
  BY <1>1, <1>3 DEF StoreInv

LEMMA ChangeKeeps ==
    ASSUME StoreInv, NEW u \in Uris, NEW version, NEW size \in Nat, Documents!Change(u, version, size)
    PROVE  StoreInv'
<1> DEFINE new == Documents!Charge(documents[u], size)
<1>1. /\ documents' = [documents EXCEPT ![u].version = version, ![u].text = size]
      /\ Documents!IsOpen(u)
      /\ Documents!Admits(Documents!RetainedBytes(documents[u]), new)
      /\ Documents!Replace(Documents!RetainedBytes(documents[u]), new)
  BY DEF Documents!Change
<1>2. /\ documents'[u] = [version |-> version, text |-> size, ast |-> documents[u].ast]
      /\ \A v \in Uris \ {u} : documents'[v] = documents[v]
  <2>1. documents' = [documents EXCEPT ![u] = [documents[u] EXCEPT !.version = version, !.text = size]]
    BY <1>1
  <2>2. [documents[u] EXCEPT !.version = version, !.text = size] = [version |-> version, text |-> size, ast |-> documents[u].ast]
    <3>1. documents[u] = [version |-> documents[u].version, text |-> documents[u].text, ast |-> documents[u].ast]
      BY DEF StoreInv, StoreTyped
    <3>2. ASSUME NEW a, NEW b, NEW c
          PROVE  [[version |-> a, text |-> b, ast |-> c] EXCEPT !.version = version, !.text = size]
                    = [version |-> version, text |-> size, ast |-> c]
      <4>1. [[version |-> a, text |-> b, ast |-> c] EXCEPT !.version = version] = [version |-> version, text |-> b, ast |-> c]
        OBVIOUS
      <4>2. [[version |-> version, text |-> b, ast |-> c] EXCEPT !.text = size] = [version |-> version, text |-> size, ast |-> c]
        OBVIOUS
      <4> QED
        BY <4>1, <4>2
    <3> QED
      BY <3>1, <3>2, Zenon
  <2>3. DOMAIN documents = Uris
    BY DEF StoreInv, StoreTyped
  <2> QED
    BY <2>1, <2>2, <2>3
<1>3. StoreTyped'
  BY <1>1, <1>2 DEF StoreInv, StoreTyped
<1>4. Documents!RetainedBytes(documents'[u]) = new
  BY <1>2 DEF Documents!RetainedBytes, Documents!Charge
<1>5. retained' <= MaxRetainedBytes
  BY <1>1 DEF Documents!Admits, Documents!Replace
<1> QED
  BY <1>1, <1>2, <1>3, <1>4, <1>5, StillWithin

\* A tree that comes late only lowers the charge, and so does a close.
LEMMA SetAstKeeps ==
    ASSUME StoreInv, NEW u \in Uris, Documents!SetAst(u)
    PROVE  StoreInv'
<1>1. CASE UNCHANGED <<documents, retained>>
  BY <1>1 DEF StoreInv, StoreTyped, Charges, Documents!RetainedBytes, Documents!WithinLimits,
     Documents!OpenDocuments, Documents!IsOpen
<1>2. CASE ~UNCHANGED <<documents, retained>>
  <2> DEFINE stored == [documents[u] EXCEPT !.ast = documents[u].text]
  <2>1. /\ documents' = [documents EXCEPT ![u] = stored] /\ Documents!IsOpen(u)
        /\ Documents!Replace(Documents!RetainedBytes(documents[u]), Documents!RetainedBytes(stored))
    BY <1>2 DEF Documents!SetAst
  <2>2. /\ documents'[u] = [version |-> documents[u].version, text |-> documents[u].text, ast |-> documents[u].text]
        /\ documents'[u] = stored
        /\ \A v \in Uris \ {u} : documents'[v] = documents[v]
    BY <2>1 DEF StoreInv, StoreTyped
  <2>3. StoreTyped'
    BY <2>1, <2>2 DEF StoreInv, StoreTyped
  <2>4. Documents!RetainedBytes(stored) <= Documents!RetainedBytes(documents[u])
        /\ Documents!RetainedBytes(stored) \in Int /\ Documents!RetainedBytes(documents[u]) \in Int
    BY <2>2 DEF StoreInv, StoreTyped, Documents!RetainedBytes
  <2>5. retained' <= MaxRetainedBytes
    <3>1. retained \in Int
      BY ChargesType, UrisFinite, TotalIsInteger DEF StoreInv
    <3> HIDE DEF stored
    <3>2. QED
      BY <2>1, <2>4, <3>1, Limits, Within DEF StoreInv, Documents!Replace
  <2> QED
    BY <2>1, <2>2, <2>3, <2>5, StillWithin
<1> QED
  BY <1>1, <1>2

LEMMA RemoveKeeps ==
    ASSUME StoreInv, NEW u \in Uris, Documents!Remove(u)
    PROVE  StoreInv'
<1>1. /\ documents' = [documents EXCEPT ![u] = Documents!Missing] /\ Documents!IsOpen(u)
      /\ Documents!Replace(Documents!RetainedBytes(documents[u]), 0)
  BY DEF Documents!Remove
<1>2. documents'[u] = [version |-> 0, text |-> 0, ast |-> 0] /\ \A v \in Uris \ {u} : documents'[v] = documents[v]
  BY <1>1 DEF StoreInv, StoreTyped, Documents!Missing
<1>3. StoreTyped'
  BY <1>1, <1>2 DEF StoreInv, StoreTyped
<1>4. Documents!RetainedBytes(documents'[u]) = 0 /\ Documents!RetainedBytes(documents[u]) \in Nat
  BY <1>2 DEF Documents!RetainedBytes, StoreInv, StoreTyped
<1>5. retained' <= MaxRetainedBytes
  <2>1. retained \in Int
    BY ChargesType, UrisFinite, TotalIsInteger DEF StoreInv
  <2> QED
    BY <1>1, <1>4, <2>1, Limits, Within DEF StoreInv, Documents!Replace
<1> QED
  BY <1>1, <1>2, <1>3, <1>4, <1>5, StillWithin

LEMMA StoreCorrect == MCSpec => []StoreInv
<1>1. MCInit => StoreInv
  <2>1. SUFFICES ASSUME MCInit PROVE StoreInv
    OBVIOUS
  <2>2. documents = [u \in Uris |-> [version |-> 0, text |-> 0, ast |-> 0]] /\ retained = 0
    BY <2>1 DEF MCInit, Documents!Init, Documents!Missing
  <2>3. StoreTyped /\ Charges = [u \in Uris |-> 0] /\ Documents!OpenDocuments = {}
    BY <2>2 DEF StoreTyped, Charges, Documents!RetainedBytes, Documents!OpenDocuments, Documents!IsOpen, Documents!Missing
  <2>4. retained = Total(Uris, Charges)
    BY <2>2, <2>3, UrisFinite, ZeroTotal
  <2>5. Documents!WithinLimits
    <3>1. Cardinality(Documents!OpenDocuments) = 0
      BY <2>3, FS_EmptySet
    <3> QED
      BY <2>2, <3>1, Limits, Within
  <2> QED
    BY <2>3, <2>4, <2>5 DEF StoreInv
<1>2. StoreInv /\ [MCNext]_mcVars => StoreInv'
  <2>1. SUFFICES ASSUME StoreInv, [MCNext]_mcVars PROVE StoreInv'
    OBVIOUS
  <2>2. CASE Documents!Next
    <3>1. PICK u \in Uris :
            \/ \E version, size \in Nat : Documents!Open(u, version, size) \/ Documents!Change(u, version, size)
            \/ Documents!SetAst(u) \/ Documents!Remove(u)
      BY <2>2, Limits DEF Documents!Next
    <3> QED
      BY <2>1, <3>1, OpenKeeps, ChangeKeeps, SetAstKeeps, RemoveKeeps
  <2>3. CASE UNCHANGED storeVars
    BY <2>1, <2>3 DEF storeVars, StoreInv, StoreTyped, Charges, Documents!RetainedBytes, Documents!WithinLimits,
       Documents!OpenDocuments, Documents!IsOpen
  <2> QED
    BY <2>1, <2>2, <2>3 DEF MCNext, mcVars
<1> QED
  BY <1>1, <1>2, PTL DEF MCSpec

\* The total beside the documents is the sum of what they retain, whatever is
\* opened again, edited, parsed late or closed.
THEOREM RetainedExactHolds == MCSpec => []RetainedExact
<1>1. StoreInv => RetainedExact
  <2>1. SUFFICES ASSUME StoreInv PROVE retained = Documents!MapThenSumSet(LAMBDA u : Documents!RetainedBytes(documents[u]), Uris)
    BY DEF RetainedExact, Documents!RetainedExact
  <2>2. Total(Uris, Charges) = Documents!MapThenSumSet(LAMBDA u : Documents!RetainedBytes(documents[u]), Uris)
    BY DEF Total, IsSum, First, Charges, Documents!MapThenSumSet, Documents!MapThenFoldSet
  <2> QED
    BY <2>1, <2>2 DEF StoreInv
<1> QED
  BY <1>1, StoreCorrect, PTL

\* No sequence of admitted calls exceeds the limits on open documents and on
\* what they retain, late trees included.
THEOREM WithinLimitsHolds == MCSpec => []WithinLimits
<1>1. StoreInv => WithinLimits
  BY DEF StoreInv, WithinLimits
<1> QED
  BY <1>1, StoreCorrect, PTL

-----------------------------------------------------------------------------
(* The parse cache                                                         *)

Shared == INSTANCE ParseCache_proofs WITH
    Batches <- {"b", "c"}, Bases <- {"v"}, Scans <- {"s"}, Contents <- {1, 2}, MaxStamp <- 4

CacheOf == part = "cache" => Shared!CacheInv

LEMMA CacheKinds == Shared!KindsApart
  BY DEF Shared!KindsApart

\* The instance whose theorems are used is the one that runs.
LEMMA SameCache ==
    /\ Cache!Init <=> Shared!Init
    /\ Cache!Next <=> Shared!Next
    /\ Cache!ParsedAsStamped <=> Shared!ParsedAsStamped
  BY DEF
    Cache!Processes, Shared!Processes, Cache!Stamps, Shared!Stamps, Cache!NoKey, Shared!NoKey, Cache!ByStamp,
       Shared!ByStamp, Cache!ByText, Shared!ByText, Cache!StampKeys, Shared!StampKeys, Cache!Keys, Shared!Keys,
       Cache!SourceCacheKey, Shared!SourceCacheKey, Cache!NoPrint, Shared!NoPrint, Cache!Idle, Shared!Idle,
       Cache!Init, Shared!Init, Cache!Goes, Shared!Goes, Cache!At, Shared!At, Cache!Obtained, Shared!Obtained,
       Cache!FromFile, Shared!FromFile, Cache!Look, Shared!Look, Cache!Name, Shared!Name, Cache!Missed,
       Shared!Missed, Cache!OpenTree, Shared!OpenTree, Cache!OpenErrors, Shared!OpenErrors, Cache!Confirm,
       Shared!Confirm, Cache!Rehash, Shared!Rehash, Cache!Rehashed, Shared!Rehashed, Cache!Stat, Shared!Stat,
       Cache!Read, Shared!Read, Cache!Kept, Shared!Kept, Cache!Parse, Shared!Parse, Cache!Store, Shared!Store,
       Cache!Entry, Shared!Entry, Cache!WriteTree, Shared!WriteTree, Cache!WriteErrors, Shared!WriteErrors,
       Cache!Recheck, Shared!Recheck, Cache!Kill, Shared!Kill, Cache!RemoveTree, Shared!RemoveTree,
       Cache!RemoveErrors, Shared!RemoveErrors, Cache!Write, Shared!Write, Cache!Delete, Shared!Delete,
       Cache!LoadOrParse, Shared!LoadOrParse, Cache!Next, Shared!Next, Cache!EntriesTrue, Shared!EntriesTrue,
       Cache!JudgedAsIndexed, Shared!JudgedAsIndexed, Cache!HashesMatch, Shared!HashesMatch,
       Cache!ParsedAsStamped, Shared!ParsedAsStamped

LEMMA CacheStarts ==
    ASSUME NEW alive \in CacheProbes, CacheStart(alive)
    PROVE  Cache!Init
<1>1. PICK first \in {1, 3, 4} :
            /\ source = [content |-> 1, stamp |-> first]
            /\ history = [n \in 1..4 |-> IF n <= first THEN 1 ELSE 0]
  BY DEF CacheStart
<1>2. source \in [content : {1, 2}, stamp : Cache!Stamps] /\ history \in [Cache!Stamps -> {1, 2} \cup {0}]
  BY <1>1 DEF Cache!Stamps
<1>3. history[source.stamp] = source.content
  BY <1>1
<1> QED
  BY <1>2, <1>3 DEF CacheStart, Cache!Init

\* What the batch runs, the base game run and the scan that share the cache are given, and
\* what they leave behind, is the parse of the text they asked for (ParseCache_proofs has
\* it for any number of them).
THEOREM ParsedAsStampedHolds == MCSpec => []ParsedAsStamped
<1>1. MCInit => CacheOf
  BY CacheStarts, CacheKinds, SameCache, Shared!InitCache DEF MCInit, CacheOf
<1>2. CacheOf /\ [MCNext]_mcVars => CacheOf'
  <2>1. SUFFICES ASSUME CacheOf, [MCNext]_mcVars, part' = "cache" PROVE Shared!CacheInv'
    BY DEF CacheOf
  <2>2. part = "cache" /\ Shared!CacheInv
    BY <2>1 DEF CacheOf, MCNext, mcVars
  <2>3. [Shared!Next]_(Shared!vars)
    BY <2>1, <2>2, SameCache DEF MCNext, mcVars, cacheVars, Shared!vars
  <2> QED
    BY <2>2, <2>3, CacheKinds, Shared!NextCache
<1>3. CacheOf => ParsedAsStamped
  BY SameCache, Shared!CacheIsTrue DEF CacheOf, ParsedAsStamped
<1> QED
  BY <1>1, <1>2, <1>3, PTL DEF MCSpec

=============================================================================
