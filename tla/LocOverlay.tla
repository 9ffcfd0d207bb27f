------------------------------ MODULE LocOverlay ------------------------------
(***************************************************************************)
(* The localisation overlays and the two caches derived from them.         *)
(*                                                                         *)
(* Each overlay maps a localisation file to the keys it defines now: the   *)
(* live one for open buffers, the watched one for closed files changed on  *)
(* disk.  Validation needs the union of all keys, and the union with every *)
(* name of the symbol index; both are cached, keyed by revision counters   *)
(* that the writers advance.  The counters are loaded before any data is   *)
(* read, the data is read under three locks one after the other, and only  *)
(* then is the result stored: readers and writers interleave everywhere.   *)
(***************************************************************************)
EXTENDS Naturals, TLC

CONSTANTS
  Files,        \* localisation and script files
  Keys,         \* lower-cased localisation keys and symbol names
  NoEntry,      \* an overlay without an entry for a file; a cache never filled
  Readers,      \* validations that need a key set
  MaxRevision,  \* bound: the revision counters
  MaxOwed       \* bound: writers between an index write and its bump

ASSUME LocOverlayAssumption ==
  /\ \A keys \in SUBSET Keys : keys # NoEntry
  /\ MaxRevision \in Nat /\ MaxOwed \in Nat

VARIABLES
  live, watched,    \* loc_live_overlay, loc_watched_overlay
  index,            \* the names info_service exports for each file
  overlayRevision,  \* loc_overlay_revision
  infoRevision,     \* info_revision
  owed,             \* index writes whose bump of infoRevision is still to come
  keysCache,        \* loc_overlay_keys_cache
  namesCache,       \* loc_ref_names_cache
  bypassed,         \* history: an overlay was written since overlayRevision last moved
  reader            \* the calls of loc_overlay_keys and loc_ref_names under way

vars == <<live, watched, index, overlayRevision, bypassed, infoRevision, owed,
          keysCache, namesCache, reader>>
data == <<live, watched, index, overlayRevision, bypassed, infoRevision, owed>>

Overlay == [Files -> {NoEntry} \cup SUBSET Keys]
Revisions == 0..MaxRevision

\* "overlay": the second counter is to be loaded; "look": the cache is to be looked up;
\* "index", "live", "watched": what is to be read next; "store": the result is complete.
Reader == [pc : {"idle", "overlay", "look", "index", "live", "watched", "store"},
           names : BOOLEAN, info : Revisions, over : Revisions, keys : SUBSET Keys]
Waiting == [pc |-> "idle", names |-> FALSE, info |-> 0, over |-> 0, keys |-> {}]

KeysOf(overlay) == UNION {overlay[f] : f \in {g \in Files : overlay[g] # NoEntry}}
OverlayKeys == KeysOf(live) \cup KeysOf(watched)
IndexNames == UNION {index[f] : f \in Files}

-----------------------------------------------------------------------------
(* Writers                                                                 *)

\* Mutant of BumpOverlay: the guard is dropped without advancing the counter.
BumpOverlay_forgotten == UNCHANGED <<overlayRevision, bypassed>>

\* LocOverlayWrite advances the counter when it is dropped, under the write lock.
BumpOverlay ==
  /\ overlayRevision < MaxRevision
  /\ overlayRevision' = overlayRevision + 1
  /\ bypassed' = FALSE

\* An open buffer's keys after an edit; an entry that already matches is not written.
RecordLive(f, keys) ==
  /\ live[f] # keys
  /\ live' = [live EXCEPT ![f] = keys]
  /\ BumpOverlay
  /\ UNCHANGED <<watched, index, infoRevision, owed, keysCache, namesCache, reader>>

\* record_watched_loc_keys: a closed file changed on disk.
RecordWatched(f, keys) ==
  /\ watched[f] # keys
  /\ watched' = [watched EXCEPT ![f] = keys]
  /\ BumpOverlay
  /\ UNCHANGED <<live, index, infoRevision, owed, keysCache, namesCache, reader>>

\* did_close drops a file from the live overlay, did_open from the watched one, watched
\* deletes and the scan's prune from both, one after the other; the counter advances
\* even when there was no entry.
ForgetLive(f) ==
  /\ live' = [live EXCEPT ![f] = NoEntry]
  /\ BumpOverlay
  /\ UNCHANGED <<watched, index, infoRevision, owed, keysCache, namesCache, reader>>

ForgetWatched(f) ==
  /\ watched' = [watched EXCEPT ![f] = NoEntry]
  /\ BumpOverlay
  /\ UNCHANGED <<live, index, infoRevision, owed, keysCache, namesCache, reader>>

\* Mutant of IndexFile: the counter is advanced only for names that are new.
IndexFile_bumpsOnGrowth(f, names) ==
  /\ owed < MaxOwed
  /\ index' = [index EXCEPT ![f] = names]
  /\ owed' = IF names \subseteq index[f] THEN owed ELSE owed + 1
  /\ UNCHANGED <<live, watched, overlayRevision, bypassed, infoRevision>>
  /\ UNCHANGED <<keysCache, namesCache, reader>>

\* index_parsed_file installs a file's exports; if they moved, it owes the bump that it
\* makes after releasing the lock.
IndexFile(f, names) ==
  /\ owed < MaxOwed
  /\ index' = [index EXCEPT ![f] = names]
  /\ owed' = IF index[f] = names THEN owed ELSE owed + 1
  /\ UNCHANGED <<live, watched, overlayRevision, bypassed, infoRevision>>
  /\ UNCHANGED <<keysCache, namesCache, reader>>

\* bump_info_revision
BumpInfo ==
  /\ owed > 0
  /\ infoRevision < MaxRevision
  /\ infoRevision' = infoRevision + 1
  /\ owed' = owed - 1
  /\ UNCHANGED <<live, watched, index, overlayRevision, bypassed, keysCache, namesCache, reader>>

\* The same by a caller that has not written the index: a new ruleset, rebuilt modifier
\* keys, and an overlay writer once its guard is gone.
BumpByOthers ==
  /\ infoRevision < MaxRevision
  /\ infoRevision' = infoRevision + 1
  /\ UNCHANGED <<live, watched, index, owed, overlayRevision, bypassed>>
  /\ UNCHANGED <<keysCache, namesCache, reader>>

\* clear_ignored_file_state: the file leaves the index and the overlays, the watched one
\* only if the live one had no entry; the locks are taken directly.
ClearIgnored(f) ==
  /\ owed < MaxOwed
  /\ index' = [index EXCEPT ![f] = {}]
  /\ live' = [live EXCEPT ![f] = NoEntry]
  /\ watched' = IF live[f] # NoEntry THEN watched ELSE [watched EXCEPT ![f] = NoEntry]
  /\ bypassed' = (bypassed \/ <<live, watched>>' # <<live, watched>>)
  /\ owed' = IF <<index, live, watched>>' = <<index, live, watched>> THEN owed ELSE owed + 1
  /\ UNCHANGED <<overlayRevision, infoRevision, keysCache, namesCache, reader>>

-----------------------------------------------------------------------------
(* Readers: loc_overlay_keys and loc_ref_names                             *)

\* loc_overlay_keys starts by loading its one counter,
BeginKeys(r) ==
  /\ reader[r].pc = "idle"
  /\ reader' = [reader EXCEPT ![r] = [Waiting EXCEPT !.pc = "look", !.over = overlayRevision]]
  /\ UNCHANGED <<data, keysCache, namesCache>>

\* loc_ref_names by loading its two, one after the other.
BeginNames(r) ==
  /\ reader[r].pc = "idle"
  /\ reader' = [reader EXCEPT ![r] = [Waiting EXCEPT !.pc = "overlay", !.names = TRUE,
                                                     !.info = infoRevision]]
  /\ UNCHANGED <<data, keysCache, namesCache>>

LoadOverlayRevision(r) ==
  /\ reader[r].pc = "overlay"
  /\ reader' = [reader EXCEPT ![r].pc = "look", ![r].over = overlayRevision]
  /\ UNCHANGED <<data, keysCache, namesCache>>

\* The cache has a set for exactly these counters.
Hit(r) ==
  IF reader[r].names
  THEN namesCache # NoEntry /\ namesCache.info = reader[r].info /\ namesCache.over = reader[r].over
  ELSE keysCache # NoEntry /\ keysCache.over = reader[r].over

\* A hit ends the call, a miss rebuilds the set.
Look(r) ==
  /\ reader[r].pc = "look"
  /\ reader' = [reader EXCEPT ![r] =
                  IF Hit(r) THEN Waiting
                  ELSE [@ EXCEPT !.pc = IF reader[r].names THEN "index" ELSE "live"]]
  /\ UNCHANGED <<data, keysCache, namesCache>>

ReadIndex(r) ==
  /\ reader[r].pc = "index"
  /\ reader' = [reader EXCEPT ![r].pc = "live", ![r].keys = IndexNames]
  /\ UNCHANGED <<data, keysCache, namesCache>>

ReadLive(r) ==
  /\ reader[r].pc = "live"
  /\ reader' = [reader EXCEPT ![r].pc = "watched", ![r].keys = @ \cup KeysOf(live)]
  /\ UNCHANGED <<data, keysCache, namesCache>>

ReadWatched(r) ==
  /\ reader[r].pc = "watched"
  /\ reader' = [reader EXCEPT ![r].pc = "store", ![r].keys = @ \cup KeysOf(watched)]
  /\ UNCHANGED <<data, keysCache, namesCache>>

\* The result is stored under the counters loaded at the start, over whatever the cache
\* holds by now.
Store(r) ==
  /\ reader[r].pc = "store"
  /\ reader' = [reader EXCEPT ![r] = Waiting]
  /\ IF reader[r].names
     THEN /\ namesCache' = [info |-> reader[r].info, over |-> reader[r].over,
                            keys |-> reader[r].keys]
          /\ UNCHANGED keysCache
     ELSE /\ keysCache' = [over |-> reader[r].over, keys |-> reader[r].keys]
          /\ UNCHANGED namesCache
  /\ UNCHANGED data

-----------------------------------------------------------------------------
(* Specification                                                           *)

Init ==
  /\ live = [f \in Files |-> NoEntry]
  /\ watched = [f \in Files |-> NoEntry]
  /\ index = [f \in Files |-> {}]
  /\ overlayRevision = 0 /\ bypassed = FALSE /\ infoRevision = 0 /\ owed = 0
  /\ keysCache = NoEntry /\ namesCache = NoEntry
  /\ reader = [r \in Readers |-> Waiting]

Write ==
  \/ \E f \in Files :
       \/ \E keys \in SUBSET Keys : RecordLive(f, keys) \/ RecordWatched(f, keys)
                                      \/ IndexFile(f, keys)
       \/ ForgetLive(f) \/ ForgetWatched(f) \/ ClearIgnored(f)
  \/ BumpInfo \/ BumpByOthers

Read(r) ==
  \/ BeginKeys(r) \/ BeginNames(r) \/ LoadOverlayRevision(r) \/ Look(r)
  \/ ReadIndex(r) \/ ReadLive(r) \/ ReadWatched(r) \/ Store(r)

Next == Write \/ \E r \in Readers : Read(r)

Spec == Init /\ [][Next]_vars

-----------------------------------------------------------------------------
(* Properties                                                              *)

\* The shape of the state.
TypeOK ==
  /\ live \in Overlay /\ watched \in Overlay
  /\ index \in [Files -> SUBSET Keys]
  /\ overlayRevision \in Revisions /\ bypassed \in BOOLEAN /\ infoRevision \in Revisions /\ owed \in 0..MaxOwed
  /\ keysCache \in {NoEntry} \cup [over : Revisions, keys : SUBSET Keys]
  /\ namesCache \in {NoEntry} \cup [info : Revisions, over : Revisions, keys : SUBSET Keys]
  /\ reader \in [Readers -> Reader]

\* A key set cached under the present revision is the union of both overlays, as long as
\* the overlays are written through LocOverlayWrite: a lookup never hits a set without
\* the key just typed, whichever writers came between the load of the counter, the reads
\* of the two overlays and the store.
KeysCacheCoherent ==
  keysCache # NoEntry /\ keysCache.over = overlayRevision /\ ~bypassed
    => keysCache.keys = OverlayKeys

\* The same without the proviso, as the comment on LocOverlayWrite has it: every overlay
\* mutation goes through the guard that advances the counter.
EveryWriteInvalidates ==
  keysCache # NoEntry /\ keysCache.over = overlayRevision => keysCache.keys = OverlayKeys

\* A name set cached under the present pair of revisions is the union of the index and
\* both overlays, unless an index write has not made its bump yet.
NamesCacheCoherent ==
  namesCache # NoEntry /\ namesCache.info = infoRevision /\ namesCache.over = overlayRevision
      /\ owed = 0
    => namesCache.keys = IndexNames \cup OverlayKeys

\* Readers are interchangeable.
ReaderSymmetry == Permutations(Readers)
=============================================================================
