--------------------------- MODULE LocOverlay_proofs ---------------------------
(* Machine-checked facts about the localisation overlays and their caches, *)
(* for every number of files, keys, readers and revisions.                 *)
EXTENDS LocOverlay, TLAPS

-----------------------------------------------------------------------------
(* Type correctness                                                        *)

\* The part of TypeOK that the writers change,
WritersOK ==
  /\ live \in Overlay /\ watched \in Overlay
  /\ index \in [Files -> SUBSET Keys]
  /\ overlayRevision \in Revisions /\ bypassed \in BOOLEAN
  /\ infoRevision \in Revisions /\ owed \in 0..MaxOwed

\* and the part that the readers change.
CachesOK ==
  /\ keysCache \in {NoEntry} \cup [over : Revisions, keys : SUBSET Keys]
  /\ namesCache \in {NoEntry} \cup [info : Revisions, over : Revisions, keys : SUBSET Keys]

ReadersOK == reader \in [Readers -> Reader]

\* TypeOK is the three together, now and in the next state.
LEMMA TypeParts ==
  /\ TypeOK <=> WritersOK /\ CachesOK /\ ReadersOK
  /\ TypeOK' <=> WritersOK' /\ CachesOK' /\ ReadersOK'
BY DEF TypeOK, WritersOK, CachesOK, ReadersOK

\* The union of an overlay is a set of keys.
LEMMA KeysOfType ==
  ASSUME NEW overlay \in Overlay
  PROVE  KeysOf(overlay) \in SUBSET Keys
BY DEF Overlay, KeysOf

\* A call that has not begun is a well-shaped reader.
LEMMA WaitingType == Waiting \in Reader
BY LocOverlayAssumption DEF Waiting, Reader, Revisions

\* The initial state has the right shape.
LEMMA InitType == Init => TypeOK
<1> SUFFICES ASSUME Init PROVE TypeOK
  OBVIOUS
<1>1. reader \in [Readers -> Reader]
  BY WaitingType DEF Init
<1>2. 0 \in Revisions /\ 0 \in 0..MaxOwed
  BY LocOverlayAssumption DEF Revisions
<1>3. QED
  BY <1>1, <1>2 DEF Init, TypeOK, Overlay

\* Replacing one entry of an overlay gives an overlay.
LEMMA OverlayUpdate ==
  ASSUME NEW overlay \in Overlay, NEW f \in Files, NEW entry \in {NoEntry} \cup SUBSET Keys
  PROVE  [overlay EXCEPT ![f] = entry] \in Overlay
BY DEF Overlay

\* The guard of an overlay advances the counter.
LEMMA BumpType ==
  ASSUME overlayRevision \in Revisions, BumpOverlay
  PROVE  overlayRevision' \in Revisions /\ bypassed' \in BOOLEAN
<1>1. overlayRevision' \in Revisions
  BY LocOverlayAssumption DEF BumpOverlay, Revisions
<1>2. bypassed' \in BOOLEAN
  BY Zenon DEF BumpOverlay
<1>3. QED
  BY <1>1, <1>2

\* The writers keep the shape of what they write.
LEMMA WriteType ==
  ASSUME WritersOK, Write
  PROVE  WritersOK' /\ UNCHANGED <<keysCache, namesCache, reader>>
<1>1. ASSUME NEW f \in Files, NEW keys \in SUBSET Keys, RecordLive(f, keys)
      PROVE  WritersOK' /\ UNCHANGED <<keysCache, namesCache, reader>>
  BY <1>1, OverlayUpdate, BumpType DEF WritersOK, RecordLive
<1>2. ASSUME NEW f \in Files, NEW keys \in SUBSET Keys, RecordWatched(f, keys)
      PROVE  WritersOK' /\ UNCHANGED <<keysCache, namesCache, reader>>
  BY <1>2, OverlayUpdate, BumpType DEF WritersOK, RecordWatched
<1>3. ASSUME NEW f \in Files, ForgetLive(f)
      PROVE  WritersOK' /\ UNCHANGED <<keysCache, namesCache, reader>>
  BY <1>3, OverlayUpdate, BumpType DEF WritersOK, ForgetLive
<1>4. ASSUME NEW f \in Files, ForgetWatched(f)
      PROVE  WritersOK' /\ UNCHANGED <<keysCache, namesCache, reader>>
  BY <1>4, OverlayUpdate, BumpType DEF WritersOK, ForgetWatched
<1>5. ASSUME NEW f \in Files, NEW names \in SUBSET Keys, IndexFile(f, names)
      PROVE  WritersOK' /\ UNCHANGED <<keysCache, namesCache, reader>>
  <2>1. index' \in [Files -> SUBSET Keys]
    BY <1>5 DEF WritersOK, IndexFile
  <2>2. owed' \in 0..MaxOwed
    BY <1>5, LocOverlayAssumption DEF WritersOK, IndexFile
  <2>3. QED
    BY <1>5, <2>1, <2>2 DEF WritersOK, IndexFile
<1>6. ASSUME NEW f \in Files, ClearIgnored(f)
      PROVE  WritersOK' /\ UNCHANGED <<keysCache, namesCache, reader>>
  <2>1. index' \in [Files -> SUBSET Keys]
    BY <1>6 DEF WritersOK, ClearIgnored
  <2>2. owed' \in 0..MaxOwed
    BY <1>6, LocOverlayAssumption DEF WritersOK, ClearIgnored
  <2>3. live' \in Overlay /\ watched' \in Overlay
    BY <1>6, OverlayUpdate DEF WritersOK, ClearIgnored
  <2>4. bypassed' \in BOOLEAN
    BY <1>6, Zenon DEF WritersOK, ClearIgnored
  <2>5. QED
    BY <1>6, <2>1, <2>2, <2>3, <2>4 DEF WritersOK, ClearIgnored
<1>7. ASSUME BumpInfo
      PROVE  WritersOK' /\ UNCHANGED <<keysCache, namesCache, reader>>
  <2>1. infoRevision' \in Revisions /\ owed' \in 0..MaxOwed
    BY <1>7, LocOverlayAssumption DEF WritersOK, BumpInfo, Revisions
  <2>2. QED
    BY <1>7, <2>1 DEF WritersOK, BumpInfo
<1>8. ASSUME BumpByOthers
      PROVE  WritersOK' /\ UNCHANGED <<keysCache, namesCache, reader>>
  <2>1. infoRevision' \in Revisions
    BY <1>8, LocOverlayAssumption DEF WritersOK, BumpByOthers, Revisions
  <2>2. QED
    BY <1>8, <2>1 DEF WritersOK, BumpByOthers
<1>9. QED
  BY <1>1, <1>2, <1>3, <1>4, <1>5, <1>6, <1>7, <1>8 DEF Write

\* Replacing one reader by a well-shaped one keeps the readers well shaped.
LEMMA ReplaceReader ==
  ASSUME ReadersOK, NEW r \in Readers, NEW new \in Reader,
         reader' = [reader EXCEPT ![r] = new]
  PROVE  ReadersOK'
BY DEF ReadersOK

\* A reader keeps its shape and touches no data.
LEMMA ReadType ==
  ASSUME TypeOK, NEW r \in Readers, Read(r)
  PROVE  CachesOK' /\ ReadersOK' /\ UNCHANGED data
<1> USE TypeParts
<1>1. reader \in [Readers -> Reader] /\ reader[r] \in Reader
  BY DEF TypeOK
<1>2. CASE BeginKeys(r)
  <2> DEFINE new == [Waiting EXCEPT !.pc = "look", !.over = overlayRevision]
  <2>1. new \in Reader
    BY WaitingType DEF TypeOK, Reader
  <2>2. QED
    BY <1>2, <2>1, ReplaceReader DEF BeginKeys, CachesOK
<1>3. CASE BeginNames(r)
  <2> DEFINE new == [Waiting EXCEPT !.pc = "overlay", !.names = TRUE, !.info = infoRevision]
  <2>1. new \in Reader
    BY WaitingType DEF TypeOK, Reader
  <2>2. QED
    BY <1>3, <2>1, ReplaceReader DEF BeginNames, CachesOK
<1>4. CASE LoadOverlayRevision(r)
  <2>1. reader' \in [Readers -> Reader]
    BY <1>1, <1>4 DEF LoadOverlayRevision, TypeOK, Reader
  <2>2. QED
    BY <1>4, <2>1 DEF LoadOverlayRevision, CachesOK, ReadersOK
<1>5. CASE Look(r)
  <2> DEFINE new == IF Hit(r) THEN Waiting
                    ELSE [reader[r] EXCEPT !.pc = IF reader[r].names THEN "index" ELSE "live"]
  <2>1. new \in Reader
    BY <1>1, WaitingType DEF Reader
  <2>2. QED
    BY <1>5, <2>1, ReplaceReader DEF Look, CachesOK
<1>6. CASE ReadIndex(r)
  <2>1. IndexNames \in SUBSET Keys
    BY DEF TypeOK, IndexNames
  <2>2. reader' \in [Readers -> Reader]
    BY <1>1, <1>6, <2>1 DEF ReadIndex, Reader
  <2>3. QED
    BY <1>6, <2>2 DEF ReadIndex, CachesOK, ReadersOK
<1>7. CASE ReadLive(r)
  <2>1. KeysOf(live) \in SUBSET Keys
    BY KeysOfType DEF TypeOK
  <2>2. reader' \in [Readers -> Reader]
    BY <1>1, <1>7, <2>1 DEF ReadLive, Reader
  <2>3. QED
    BY <1>7, <2>2 DEF ReadLive, CachesOK, ReadersOK
<1>8. CASE ReadWatched(r)
  <2>1. KeysOf(watched) \in SUBSET Keys
    BY KeysOfType DEF TypeOK
  <2>2. reader' \in [Readers -> Reader]
    BY <1>1, <1>8, <2>1 DEF ReadWatched, Reader
  <2>3. QED
    BY <1>8, <2>2 DEF ReadWatched, CachesOK, ReadersOK
<1>9. CASE Store(r)
  <2>1. ReadersOK'
    BY <1>9, WaitingType, ReplaceReader DEF Store
  <2>2. CachesOK'
    BY <1>1, <1>9 DEF Store, CachesOK, Reader
  <2>3. QED
    BY <1>9, <2>1, <2>2 DEF Store
<1>10. QED
  BY <1>2, <1>3, <1>4, <1>5, <1>6, <1>7, <1>8, <1>9 DEF Read

\* Every reachable state has the shape the type invariant states.
THEOREM TypeCorrect == Spec => []TypeOK
<1>1. TypeOK /\ [Next]_vars => TypeOK'
  <2> SUFFICES ASSUME TypeOK, [Next]_vars PROVE TypeOK'
    OBVIOUS
  <2>1. CASE Write
    BY <2>1, TypeParts, WriteType DEF CachesOK, ReadersOK
  <2>2. ASSUME NEW r \in Readers, Read(r) PROVE TypeOK'
    BY <2>2, TypeParts, ReadType DEF data, WritersOK
  <2>3. CASE UNCHANGED vars
    BY <2>3 DEF vars, TypeOK
  <2>4. QED
    BY <2>1, <2>2, <2>3 DEF Next
<1>2. QED
  BY <1>1, InitType, PTL DEF Spec

-----------------------------------------------------------------------------
(* What the writers promise the readers                                    *)

\* The overlays have not changed in a way the overlay counter does not show.
OverlaysSteady ==
  overlayRevision' = overlayRevision /\ ~bypassed' => ~bypassed /\ UNCHANGED <<live, watched>>

\* Nothing has changed in a way neither counter shows nor a bump still owed will show.
AllSteady ==
  overlayRevision' = overlayRevision /\ infoRevision' = infoRevision /\ owed' = 0
    => owed = 0 /\ UNCHANGED <<live, watched, index>>

\* The counters only grow.
CountersGrow == overlayRevision <= overlayRevision' /\ infoRevision <= infoRevision'

\* A write advances a counter, leaves a bump owed or a bypass on record, or changes
\* nothing.
LEMMA WriteEffect ==
  ASSUME WritersOK, Write
  PROVE  OverlaysSteady /\ AllSteady /\ CountersGrow
<1>1. overlayRevision \in Nat /\ infoRevision \in Nat /\ owed \in Nat
  BY LocOverlayAssumption DEF WritersOK, Revisions
<1>2. ASSUME BumpOverlay, UNCHANGED infoRevision
      PROVE  OverlaysSteady /\ AllSteady /\ CountersGrow
  BY <1>1, <1>2 DEF BumpOverlay, OverlaysSteady, AllSteady, CountersGrow
<1>3. ASSUME NEW f \in Files, NEW names \in SUBSET Keys, IndexFile(f, names)
      PROVE  OverlaysSteady /\ AllSteady /\ CountersGrow
  <2>1. owed' = 0 => owed = 0 /\ index' = index
    BY <1>1, <1>3 DEF IndexFile, WritersOK
  <2>2. OverlaysSteady
    BY <1>3, Zenon DEF IndexFile, OverlaysSteady
  <2>3. AllSteady /\ CountersGrow
    BY <1>1, <1>3, <2>1 DEF IndexFile, AllSteady, CountersGrow
  <2>4. QED
    BY <2>2, <2>3
<1>4. ASSUME NEW f \in Files, ClearIgnored(f)
      PROVE  OverlaysSteady /\ AllSteady /\ CountersGrow
  <2>1. owed' = 0 => owed = 0 /\ UNCHANGED <<live, watched, index>>
    BY <1>1, <1>4 DEF ClearIgnored
  <2>2. OverlaysSteady
    BY <1>4, Zenon DEF ClearIgnored, OverlaysSteady
  <2>3. AllSteady /\ CountersGrow
    BY <1>1, <1>4, <2>1 DEF ClearIgnored, AllSteady, CountersGrow
  <2>4. QED
    BY <2>2, <2>3
<1>5. ASSUME BumpInfo
      PROVE  OverlaysSteady /\ AllSteady /\ CountersGrow
  <2>1. OverlaysSteady
    BY <1>5, Zenon DEF BumpInfo, OverlaysSteady
  <2>2. AllSteady /\ CountersGrow
    BY <1>1, <1>5 DEF BumpInfo, AllSteady, CountersGrow
  <2>3. QED
    BY <2>1, <2>2
<1>6. ASSUME BumpByOthers
      PROVE  OverlaysSteady /\ AllSteady /\ CountersGrow
  <2>1. OverlaysSteady
    BY <1>6, Zenon DEF BumpByOthers, OverlaysSteady
  <2>2. AllSteady /\ CountersGrow
    BY <1>1, <1>6 DEF BumpByOthers, AllSteady, CountersGrow
  <2>3. QED
    BY <2>1, <2>2
<1>7. QED
  BY <1>2, <1>3, <1>4, <1>5, <1>6 DEF Write, RecordLive, RecordWatched, ForgetLive, ForgetWatched

-----------------------------------------------------------------------------
(* The cache of overlay keys                                               *)

\* A call of loc_overlay_keys whose counter is still the present one has gathered what is
\* in the overlays now; no counter is ahead of the present one.
KeysReader(r) ==
  /\ reader[r].pc \in {"overlay", "index"} => reader[r].names
  /\ reader[r].over <= overlayRevision
  /\ ~reader[r].names /\ reader[r].over = overlayRevision /\ ~bypassed =>
       /\ reader[r].pc \in {"look", "live"} => reader[r].keys = {}
       /\ reader[r].pc = "watched" => reader[r].keys = KeysOf(live)
       /\ reader[r].pc = "store" => reader[r].keys = OverlayKeys

KeysCacheInv ==
  /\ keysCache # NoEntry => keysCache.over <= overlayRevision
  /\ KeysCacheCoherent

KeysInv == (\A r \in Readers : KeysReader(r)) /\ KeysCacheInv

\* The invariant holds initially.
LEMMA InitKeys == Init => KeysInv
BY LocOverlayAssumption DEF Init, KeysInv, KeysReader, KeysCacheInv, KeysCacheCoherent, Waiting

\* A write keeps it: it advances the counter past every call and the cache, or leaves the
\* overlays alone.
LEMMA WriteKeys ==
  ASSUME TypeOK, KeysInv, Write
  PROVE  KeysInv'
<1>1. overlayRevision \in Nat /\ overlayRevision' \in Nat
  BY TypeParts, WriteType, LocOverlayAssumption DEF WritersOK, Revisions
<1>2. OverlaysSteady /\ CountersGrow /\ UNCHANGED <<keysCache, namesCache, reader>>
  BY TypeParts, WriteType, WriteEffect
<1>3. ASSUME NEW n \in Revisions, n <= overlayRevision, n = overlayRevision', ~bypassed'
      PROVE  n = overlayRevision /\ ~bypassed /\ live' = live /\ watched' = watched
  BY <1>1, <1>2, <1>3, LocOverlayAssumption DEF OverlaysSteady, CountersGrow, Revisions
<1>4. ASSUME NEW r \in Readers PROVE KeysReader(r)'
  <2>1. reader' = reader /\ reader[r].over \in Revisions /\ KeysReader(r)
    BY <1>2 DEF TypeOK, Reader, KeysInv
  <2>2. reader[r].over <= overlayRevision'
    BY <1>1, <1>2, <2>1, LocOverlayAssumption DEF KeysReader, CountersGrow, Revisions
  <2>3. QED
    BY <1>3, <2>1, <2>2 DEF KeysReader, OverlayKeys
<1>5. KeysCacheInv'
  <2>1. keysCache' = keysCache
    BY <1>2
  <2>2. CASE keysCache = NoEntry
    BY <2>1, <2>2 DEF KeysCacheInv, KeysCacheCoherent
  <2>3. CASE keysCache # NoEntry
    <3>1. keysCache.over \in Revisions
      BY <2>3 DEF TypeOK
    <3>2. keysCache.over <= overlayRevision'
      BY <1>1, <1>2, <2>3, <3>1, LocOverlayAssumption
         DEF KeysInv, KeysCacheInv, CountersGrow, Revisions
    <3>3. QED
      BY <1>3, <2>1, <2>3, <3>1, <3>2 DEF KeysInv, KeysCacheInv, KeysCacheCoherent, OverlayKeys
  <2>4. QED
    BY <2>2, <2>3
<1>6. QED
  BY <1>4, <1>5 DEF KeysInv

\* A reader's step keeps it: what it gathers and stores is what is there.
LEMMA ReadKeys ==
  ASSUME TypeOK, KeysInv, NEW r \in Readers, Read(r)
  PROVE  KeysInv'
<1>1. UNCHANGED data
  BY ReadType
<1>2. reader \in [Readers -> Reader] /\ reader[r] \in Reader
  BY DEF TypeOK
<1>3. overlayRevision \in Nat
  BY LocOverlayAssumption DEF TypeOK, Revisions
<1>4. ASSUME NEW k \in Readers, reader'[k] = reader[k] PROVE KeysReader(k)'
  BY <1>1, <1>4 DEF KeysInv, KeysReader, data, OverlayKeys
<1>5. ASSUME UNCHANGED keysCache PROVE KeysCacheInv'
  BY <1>1, <1>5 DEF KeysInv, KeysCacheInv, KeysCacheCoherent, data, OverlayKeys
<1>6. KeysReader(r)
  BY DEF KeysInv
<1>7. \A k \in Readers \ {r} : reader'[k] = reader[k]
  BY <1>2 DEF Read, BeginKeys, BeginNames, LoadOverlayRevision, Look, ReadIndex, ReadLive,
              ReadWatched, Store
<1>8. SUFFICES KeysReader(r)' /\ KeysCacheInv'
  BY <1>4, <1>7 DEF KeysInv
<1>9. CASE BeginKeys(r)
  BY <1>1, <1>2, <1>3, <1>5, <1>9 DEF BeginKeys, KeysReader, Waiting, data
<1>10. CASE BeginNames(r)
  BY <1>1, <1>2, <1>3, <1>5, <1>10 DEF BeginNames, KeysReader, Waiting, data
<1>11. CASE LoadOverlayRevision(r)
  BY <1>1, <1>2, <1>3, <1>5, <1>6, <1>11 DEF LoadOverlayRevision, KeysReader, data
<1>12. CASE Look(r)
  <2>1. KeysCacheInv'
    BY <1>5, <1>12 DEF Look
  <2>2. CASE Hit(r)
    BY <1>1, <1>2, <1>3, <1>12, <2>1, <2>2 DEF Look, KeysReader, Waiting, data
  <2>3. CASE ~Hit(r)
    <3>1. /\ reader'[r].over = reader[r].over /\ reader'[r].keys = reader[r].keys
          /\ reader'[r].names = reader[r].names
      BY <1>2, <1>12, <2>3 DEF Look, Reader
    <3>2. reader'[r].pc = IF reader[r].names THEN "index" ELSE "live"
      BY <1>2, <1>12, <2>3 DEF Look, Reader
    <3>3. QED
      BY <1>1, <1>6, <1>12, <2>1, <3>1, <3>2 DEF Look, KeysReader, data
  <2>4. QED
    BY <2>2, <2>3
<1>13. CASE ReadIndex(r)
  BY <1>1, <1>2, <1>3, <1>5, <1>6, <1>13 DEF ReadIndex, KeysReader, data
<1>14. CASE ReadLive(r)
  BY <1>1, <1>2, <1>3, <1>5, <1>6, <1>14 DEF ReadLive, KeysReader, data
<1>15. CASE ReadWatched(r)
  <2>1. KeysCacheInv'
    BY <1>5, <1>15 DEF ReadWatched
  <2>2. /\ reader'[r].over = reader[r].over /\ reader'[r].names = reader[r].names
        /\ reader'[r].pc = "store" /\ reader'[r].keys = reader[r].keys \cup KeysOf(watched)
    BY <1>2, <1>15 DEF ReadWatched, Reader
  <2>3. reader[r].pc = "watched" /\ overlayRevision' = overlayRevision /\ bypassed' = bypassed
    BY <1>1, <1>15 DEF ReadWatched, data
  <2>4. OverlayKeys' = KeysOf(live) \cup KeysOf(watched)
    BY <1>1 DEF OverlayKeys, data
  <2>5. QED
    BY <1>6, <2>1, <2>2, <2>3, <2>4 DEF KeysReader
<1>16. CASE Store(r)
  <2>1. KeysReader(r)'
    BY <1>1, <1>2, <1>3, <1>16 DEF Store, KeysReader, Waiting, data
  <2>2. CASE reader[r].names
    BY <1>5, <1>16, <2>1, <2>2 DEF Store
  <2>3. CASE ~reader[r].names
    <3>1. keysCache' = [over |-> reader[r].over, keys |-> reader[r].keys]
      BY <1>16, <2>3 DEF Store
    <3>2. keysCache'.over = reader[r].over /\ keysCache'.keys = reader[r].keys
      BY <3>1
    <3>3. KeysCacheInv'
      BY <1>1, <1>6, <1>16, <2>3, <3>2
         DEF Store, KeysReader, KeysCacheInv, KeysCacheCoherent, data, OverlayKeys
    <3>4. QED
      BY <2>1, <3>3
  <2>4. QED
    BY <2>1, <2>2, <2>3
<1>17. QED
  BY <1>9, <1>10, <1>11, <1>12, <1>13, <1>14, <1>15, <1>16 DEF Read

\* As long as the overlays are written through their guard, a key set that a lookup hits
\* is the union of both overlays at that moment.
THEOREM KeysCacheHolds == Spec => []KeysCacheCoherent
<1>1. KeysInv /\ TypeOK /\ [Next]_vars => KeysInv'
  <2> SUFFICES ASSUME KeysInv, TypeOK, [Next]_vars PROVE KeysInv'
    OBVIOUS
  <2>1. CASE UNCHANGED vars
    BY <2>1 DEF vars, KeysInv, KeysReader, KeysCacheInv, KeysCacheCoherent, OverlayKeys
  <2>2. QED
    BY <2>1, WriteKeys, ReadKeys DEF Next
<1>2. KeysInv => KeysCacheCoherent
  BY DEF KeysInv, KeysCacheInv
<1>3. QED
  BY <1>1, <1>2, InitKeys, TypeCorrect, PTL DEF Spec

-----------------------------------------------------------------------------
(* The cache of names                                                      *)

\* A call of loc_ref_names whose two counters are still the present ones, while no bump is
\* owed, has gathered what is there now; no counter is ahead of the present one.
NamesReader(r) ==
  /\ reader[r].info <= infoRevision /\ reader[r].over <= overlayRevision
  /\ reader[r].names /\ reader[r].info = infoRevision /\ reader[r].over = overlayRevision
       /\ owed = 0 =>
       /\ reader[r].pc = "live" => reader[r].keys = IndexNames
       /\ reader[r].pc = "watched" => reader[r].keys = IndexNames \cup KeysOf(live)
       /\ reader[r].pc = "store" => reader[r].keys = IndexNames \cup OverlayKeys

NamesCacheInv ==
  /\ namesCache # NoEntry => namesCache.info <= infoRevision /\ namesCache.over <= overlayRevision
  /\ NamesCacheCoherent

NamesInv == (\A r \in Readers : NamesReader(r)) /\ NamesCacheInv

\* The invariant holds initially.
LEMMA InitNames == Init => NamesInv
BY LocOverlayAssumption
   DEF Init, NamesInv, NamesReader, NamesCacheInv, NamesCacheCoherent, Waiting

\* A write keeps it: it advances a counter past every call and the cache, owes a bump that
\* will, or changes nothing they read.
LEMMA WriteNames ==
  ASSUME TypeOK, NamesInv, Write
  PROVE  NamesInv'
<1>1. /\ overlayRevision \in Nat /\ overlayRevision' \in Nat
      /\ infoRevision \in Nat /\ infoRevision' \in Nat
  BY TypeParts, WriteType, LocOverlayAssumption DEF WritersOK, Revisions
<1>2. AllSteady /\ CountersGrow /\ UNCHANGED <<keysCache, namesCache, reader>>
  BY TypeParts, WriteType, WriteEffect
<1>3. ASSUME NEW m \in Revisions, m <= infoRevision, NEW n \in Revisions, n <= overlayRevision
      PROVE  /\ m <= infoRevision' /\ n <= overlayRevision'
             /\ m = infoRevision' /\ n = overlayRevision' /\ owed' = 0 =>
                  /\ m = infoRevision /\ n = overlayRevision /\ owed = 0
                  /\ live' = live /\ watched' = watched /\ index' = index
  BY <1>1, <1>2, <1>3, LocOverlayAssumption DEF AllSteady, CountersGrow, Revisions
<1>4. ASSUME NEW r \in Readers PROVE NamesReader(r)'
  <2>1. /\ reader' = reader /\ NamesReader(r)
        /\ reader[r].info \in Revisions /\ reader[r].over \in Revisions
    BY <1>2 DEF TypeOK, Reader, NamesInv
  <2>2. reader[r].info <= infoRevision /\ reader[r].over <= overlayRevision
    BY <2>1 DEF NamesReader
  <2>3. QED
    BY <1>3, <2>1, <2>2 DEF NamesReader, OverlayKeys, IndexNames
<1>5. NamesCacheInv'
  <2>1. namesCache' = namesCache
    BY <1>2
  <2>2. CASE namesCache = NoEntry
    BY <2>1, <2>2 DEF NamesCacheInv, NamesCacheCoherent
  <2>3. CASE namesCache # NoEntry
    <3>1. namesCache.info \in Revisions /\ namesCache.over \in Revisions
      BY <2>3 DEF TypeOK
    <3>2. namesCache.info <= infoRevision /\ namesCache.over <= overlayRevision
      BY <2>3 DEF NamesInv, NamesCacheInv
    <3>3. QED
      BY <1>3, <2>1, <2>3, <3>1, <3>2
         DEF NamesInv, NamesCacheInv, NamesCacheCoherent, OverlayKeys, IndexNames
  <2>4. QED
    BY <2>2, <2>3
<1>6. QED
  BY <1>4, <1>5 DEF NamesInv

\* A reader's step keeps it: what it gathers and stores is what is there.
LEMMA ReadNames ==
  ASSUME TypeOK, NamesInv, NEW r \in Readers, Read(r)
  PROVE  NamesInv'
<1>1. UNCHANGED data
  BY ReadType
<1>2. reader \in [Readers -> Reader] /\ reader[r] \in Reader
  BY DEF TypeOK
<1>3. overlayRevision \in Nat /\ infoRevision \in Nat
  BY LocOverlayAssumption DEF TypeOK, Revisions
<1>4. /\ OverlayKeys' = OverlayKeys /\ IndexNames' = IndexNames /\ KeysOf(live') = KeysOf(live)
      /\ overlayRevision' = overlayRevision /\ infoRevision' = infoRevision /\ owed' = owed
  BY <1>1 DEF data, OverlayKeys, IndexNames
<1>5. ASSUME NEW k \in Readers, reader'[k] = reader[k] PROVE NamesReader(k)'
  BY <1>4, <1>5 DEF NamesInv, NamesReader
<1>6. ASSUME UNCHANGED namesCache PROVE NamesCacheInv'
  BY <1>4, <1>6 DEF NamesInv, NamesCacheInv, NamesCacheCoherent
<1>7. NamesReader(r)
  BY DEF NamesInv
<1>8. \A k \in Readers \ {r} : reader'[k] = reader[k]
  BY <1>2 DEF Read, BeginKeys, BeginNames, LoadOverlayRevision, Look, ReadIndex, ReadLive,
              ReadWatched, Store
<1>9. SUFFICES NamesReader(r)' /\ NamesCacheInv'
  BY <1>5, <1>8 DEF NamesInv
<1>10. CASE BeginKeys(r)
  BY <1>2, <1>3, <1>4, <1>6, <1>10 DEF BeginKeys, NamesReader, Waiting
<1>11. CASE BeginNames(r)
  BY <1>2, <1>3, <1>4, <1>6, <1>11 DEF BeginNames, NamesReader, Waiting
<1>12. CASE LoadOverlayRevision(r)
  BY <1>2, <1>3, <1>4, <1>6, <1>7, <1>12 DEF LoadOverlayRevision, NamesReader
<1>13. CASE Look(r)
  <2>1. NamesCacheInv'
    BY <1>6, <1>13 DEF Look
  <2>2. CASE Hit(r)
    BY <1>2, <1>3, <1>4, <1>13, <2>1, <2>2 DEF Look, NamesReader, Waiting
  <2>3. CASE ~Hit(r)
    <3>1. /\ reader'[r].over = reader[r].over /\ reader'[r].info = reader[r].info
          /\ reader'[r].names = reader[r].names
          /\ reader'[r].pc = IF reader[r].names THEN "index" ELSE "live"
      BY <1>2, <1>13, <2>3 DEF Look, Reader
    <3>2. QED
      BY <1>4, <1>7, <2>1, <3>1 DEF NamesReader
  <2>4. QED
    BY <2>2, <2>3
<1>14. CASE ReadIndex(r)
  <2>1. /\ reader'[r].over = reader[r].over /\ reader'[r].info = reader[r].info
        /\ reader'[r].pc = "live" /\ reader'[r].keys = IndexNames
    BY <1>2, <1>14 DEF ReadIndex, Reader
  <2>2. QED
    BY <1>4, <1>6, <1>7, <1>14, <2>1 DEF ReadIndex, NamesReader
<1>15. CASE ReadLive(r)
  <2>1. /\ reader'[r].over = reader[r].over /\ reader'[r].info = reader[r].info
        /\ reader'[r].names = reader[r].names
        /\ reader'[r].pc = "watched" /\ reader'[r].keys = reader[r].keys \cup KeysOf(live)
    BY <1>2, <1>15 DEF ReadLive, Reader
  <2>2. reader[r].pc = "live"
    BY <1>15 DEF ReadLive
  <2>3. NamesCacheInv'
    BY <1>6, <1>15 DEF ReadLive
  <2>4. QED
    BY <1>4, <1>7, <2>1, <2>2, <2>3 DEF NamesReader
<1>16. CASE ReadWatched(r)
  <2>1. /\ reader'[r].over = reader[r].over /\ reader'[r].info = reader[r].info
        /\ reader'[r].names = reader[r].names
        /\ reader'[r].pc = "store" /\ reader'[r].keys = reader[r].keys \cup KeysOf(watched)
    BY <1>2, <1>16 DEF ReadWatched, Reader
  <2>2. reader[r].pc = "watched"
    BY <1>16 DEF ReadWatched
  <2>3. NamesCacheInv'
    BY <1>6, <1>16 DEF ReadWatched
  <2>4. OverlayKeys = KeysOf(live) \cup KeysOf(watched)
    BY DEF OverlayKeys
  <2>5. QED
    BY <1>4, <1>7, <2>1, <2>2, <2>3, <2>4 DEF NamesReader
<1>17. CASE Store(r)
  <2>1. NamesReader(r)'
    BY <1>2, <1>3, <1>4, <1>17 DEF Store, NamesReader, Waiting
  <2>2. CASE ~reader[r].names
    BY <1>6, <1>17, <2>1, <2>2 DEF Store
  <2>3. CASE reader[r].names
    <3>1. namesCache' = [info |-> reader[r].info, over |-> reader[r].over,
                         keys |-> reader[r].keys]
      BY <1>17, <2>3 DEF Store
    <3>2. /\ namesCache'.info = reader[r].info /\ namesCache'.over = reader[r].over
          /\ namesCache'.keys = reader[r].keys
      BY <3>1
    <3>3. reader[r].pc = "store"
      BY <1>17 DEF Store
    <3>4. NamesCacheInv'
      BY <1>4, <1>7, <2>3, <3>2, <3>3 DEF NamesReader, NamesCacheInv, NamesCacheCoherent
    <3>5. QED
      BY <2>1, <3>4
  <2>4. QED
    BY <2>2, <2>3
<1>18. QED
  BY <1>10, <1>11, <1>12, <1>13, <1>14, <1>15, <1>16, <1>17 DEF Read

\* A name set that a lookup hits while no index write still owes its bump is the union of
\* the index and both overlays at that moment, bypassing writes included.
THEOREM NamesCacheHolds == Spec => []NamesCacheCoherent
<1>1. NamesInv /\ TypeOK /\ [Next]_vars => NamesInv'
  <2> SUFFICES ASSUME NamesInv, TypeOK, [Next]_vars PROVE NamesInv'
    OBVIOUS
  <2>1. CASE UNCHANGED vars
    BY <2>1
       DEF vars, NamesInv, NamesReader, NamesCacheInv, NamesCacheCoherent, OverlayKeys, IndexNames
  <2>2. QED
    BY <2>1, WriteNames, ReadNames DEF Next
<1>2. NamesInv => NamesCacheCoherent
  BY DEF NamesInv, NamesCacheInv
<1>3. QED
  BY <1>1, <1>2, InitNames, TypeCorrect, PTL DEF Spec
=============================================================================
