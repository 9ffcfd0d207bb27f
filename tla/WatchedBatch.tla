----------------------------- MODULE WatchedBatch -----------------------------
(***************************************************************************)
(* External file changes: how didChangeWatchedFiles events are queued,     *)
(* coalesced into one trailing window, and applied to the symbol index by  *)
(* the window's task, file by file or, above a cap, by a full workspace    *)
(* scan that competes with the scans started by commands and by the        *)
(* background pass.                                                        *)
(*                                                                         *)
(* A window is one task spawned by spawn_watched_batch_window, its inner   *)
(* batch task included; the slot watched_debounce names the latest.  A     *)
(* finished window's identifier is used again.                             *)
(***************************************************************************)
EXTENDS Naturals, FiniteSets

CONSTANTS
  Files,         \* workspace files the editor does not have open
  Windows,       \* bound: identifiers of concurrent window tasks
  Cap,           \* WATCHED_BULK_CAP
  MaxEvents,     \* bound: external changes
  MaxScans,      \* bound: scans started by commands or the background pass
  MaxPanics,     \* bound: panics of a batch
  CanCancel,     \* TRUE: the client may cancel the command that runs a scan
  NoWindow,      \* the empty slot
  NoFile         \* no file is being read

ASSUME WatchedBatchAssumption ==
  /\ IsFiniteSet(Files)
  /\ Cap \in Nat /\ MaxEvents \in Nat /\ MaxScans \in Nat /\ MaxPanics \in Nat
  /\ CanCancel \in BOOLEAN
  /\ NoWindow \notin Windows /\ NoFile \notin Files

VARIABLES
  disk,      \* each file's content, a fresh stamp per write; 0 = no such file
  index,     \* info_service: the content each file was last indexed from; 0 = none
  sigs,      \* watched_signatures; 0 = none recorded
  pending,   \* watched_pending
  deleted,   \* watched_deleted
  slot,      \* watched_debounce
  window,    \* the window tasks
  scanning,  \* scan_in_progress
  scan,      \* the scan of a command or of the background pass
  found,     \* what the scan that holds scan_in_progress has read
  lastScan,  \* last_scan_fingerprint
  events, scans, panics  \* counters of the bounds

vars == <<disk, index, sigs, pending, deleted, slot, window, scanning, scan,
          found, lastScan, events, scans, panics>>
indexed == <<index, sigs>>
queues == <<pending, deleted>>
scanData == <<scanning, scan, found, lastScan>>
counters == <<events, scans, panics>>

Stamps == 0..MaxEvents + 1
Disk == [Files -> Stamps]
Nothing == [f \in Files |-> 0]

\* "sleep" to "drain": the debounce and the two drains; "batch": choose between the two
\* paths; "stat", "apply": the per-file path; "read", "merge", "finish",
\* "winner": a full scan; "lost": its compare-and-swap failed; "clear", "check": the
\* tail of the batch; "requeue": the inner task panicked.
WindowPCs == {"idle", "sleep", "drain", "batch", "stat", "apply", "read",
              "merge", "finish", "winner", "lost", "clear", "check", "requeue"}
Window == [pc : WindowPCs, changes : SUBSET Files, deletes : SUBSET Files,
           todo : SUBSET Files, file : Files \cup {NoFile}, sig : Stamps,
           retried : BOOLEAN, lost : BOOLEAN]
Resting == [pc |-> "idle", changes |-> {}, deletes |-> {}, todo |-> {},
            file |-> NoFile, sig |-> 0, retried |-> FALSE, lost |-> FALSE]
\* `dropped` remembers that the last scan was dropped and left the queues to nobody.
ScanPCs == {"idle", "read", "merge", "finish", "release", "winner"}
NoScan == [pc |-> "idle", quiet |-> FALSE, dropped |-> FALSE]

-----------------------------------------------------------------------------
(* Arming a window                                                         *)

\* A task handle in the slot whose task has not finished (watched_batch_slot_is_ours).
SlotLive == slot # NoWindow /\ window[slot].pc # "idle"

\* spawn_watched_batch_window, stored in the slot; `tasks` are the windows as the rest
\* of the step leaves them.
Spawn(tasks, retried) ==
  \E w \in Windows :
    /\ tasks[w].pc = "idle"
    /\ slot' = w
    /\ window' = [tasks EXCEPT ![w] = [Resting EXCEPT !.pc = "sleep", !.retried = retried]]

\* arm_watched_batch: nothing while the slot holds a live window.
Arm(tasks) ==
  IF SlotLive
  THEN window' = tasks /\ UNCHANGED slot
  ELSE Spawn(tasks, FALSE)

\* Arm if anything is queued.
ArmIfQueued(tasks) ==
  IF pending \cup deleted # {}
  THEN Arm(tasks)
  ELSE window' = tasks /\ UNCHANGED slot

-----------------------------------------------------------------------------
(* did_change_watched_files                                                *)

\* A file is created or modified outside the editor, and the client reports it.
ExternalWrite(f) ==
  /\ events < MaxEvents
  /\ events' = events + 1
  /\ disk' = [disk EXCEPT ![f] = events + 2]
  /\ pending' = pending \cup {f}
  /\ Arm(window)
  /\ UNCHANGED <<indexed, deleted, scanData, scans, panics>>

\* A file is deleted outside the editor, and the client reports it.
ExternalDelete(f) ==
  /\ disk[f] # 0
  /\ events < MaxEvents
  /\ events' = events + 1
  /\ disk' = [disk EXCEPT ![f] = 0]
  /\ deleted' = deleted \cup {f}
  /\ Arm(window)
  /\ UNCHANGED <<indexed, pending, scanData, scans, panics>>

-----------------------------------------------------------------------------
(* The window task: drain, then the batch file by file                     *)

Moved(w, pc) == [window EXCEPT ![w].pc = pc]

\* The debounce has elapsed: take the changed files.  The debounce of half a second
\* outlasts the last look of a predecessor, a few instructions after its slot is emptied.
DrainChanges(w) ==
  /\ window[w].pc = "sleep"
  /\ \A v \in Windows : window[v].pc # "check"
  /\ window' = [window EXCEPT ![w].pc = "drain", ![w].changes = pending]
  /\ pending' = {}
  /\ UNCHANGED <<disk, indexed, deleted, slot, scanData, counters>>

\* resolve_watched_deletes: a file both changed and deleted is taken as changed.
ResolveWatchedDeletes(changes, deletes) == deletes \ changes

\* Take the deletions; a window with nothing to do ends here.
DrainDeletes(w) ==
  LET changes == window[w].changes
      deletes == ResolveWatchedDeletes(changes, deleted)
  IN
  /\ window[w].pc = "drain"
  /\ deleted' = {}
  /\ window' = [window EXCEPT ![w] =
                  IF changes = {} /\ deletes = {} THEN Resting
                  ELSE [@ EXCEPT !.pc = "batch", !.deletes = deletes, !.todo = changes]]
  /\ UNCHANGED <<disk, indexed, pending, slot, scanData, counters>>

\* watched_batch_over_cap
OverCap(w) == Cardinality(window[w].changes) + Cardinality(window[w].deletes) > Cap

\* Below the cap the batch goes file by file, deletions first: process_watched_deletes
\* forgets index entries and signatures.
ProcessDeletes(w) ==
  LET kept(field) == [f \in Files |-> IF f \in window[w].deletes THEN 0 ELSE field[f]] IN
  /\ window[w].pc = "batch" /\ ~OverCap(w)
  /\ index' = kept(index)
  /\ sigs' = kept(sigs)
  /\ window' = Moved(w, "stat")
  /\ UNCHANGED <<disk, queues, slot, scanData, counters>>

\* The stat gate: a file with the recorded signature is skipped, any other goes on to be
\* read, with the signature just taken.
StatFile(w) ==
  /\ window[w].pc = "stat"
  /\ \E f \in window[w].todo :
       window' =
         IF disk[f] # 0 /\ sigs[f] = disk[f]
         THEN [window EXCEPT ![w].todo = @ \ {f}]
         ELSE [window EXCEPT ![w].todo = @ \ {f}, ![w].pc = "apply",
                             ![w].file = f, ![w].sig = disk[f]]
  /\ UNCHANGED <<disk, indexed, queues, slot, scanData, counters>>

\* Mutant of ApplyFile: the signature is recorded even when nothing could be read, and
\* it is the one of the content on disk after the parse.
ApplyFile_lateSignature(w) ==
  LET f == window[w].file IN
  /\ window[w].pc = "apply"
  /\ index' = IF disk[f] = 0 THEN index ELSE [index EXCEPT ![f] = window[w].sig]
  /\ sigs' = [sigs EXCEPT ![f] = disk[f]]
  /\ window' = [window EXCEPT ![w].pc = "stat", ![w].file = NoFile, ![w].sig = 0]
  /\ UNCHANGED <<disk, queues, slot, scanData, counters>>

\* Read the file, parse and index it, record the signature taken before the read; a
\* file that is gone is only logged.
ApplyFile(w) ==
  LET f == window[w].file
      sig == window[w].sig
  IN
  /\ window[w].pc = "apply"
  /\ index' = IF disk[f] = 0 THEN index ELSE [index EXCEPT ![f] = disk[f]]
  /\ sigs' = IF disk[f] = 0 \/ sig = 0 THEN sigs ELSE [sigs EXCEPT ![f] = sig]
  /\ window' = [window EXCEPT ![w].pc = "stat", ![w].file = NoFile, ![w].sig = 0]
  /\ UNCHANGED <<disk, queues, slot, scanData, counters>>

EndBatch(w) ==
  /\ window[w].pc = "stat" /\ window[w].todo = {}
  /\ window' = Moved(w, "clear")
  /\ UNCHANGED <<disk, indexed, queues, slot, scanData, counters>>

-----------------------------------------------------------------------------
(* A full workspace scan, by a window over the cap or by somebody else     *)

\* The walk and the parse: what is on disk now.
ReadDisk == found' = disk

\* quiet_pass_can_skip: a quiet scan of an unchanged, non-empty workspace does nothing.
CanSkip(quiet) == quiet /\ disk # Nothing /\ lastScan = disk

\* Index what was read, prune what was not found (unless the walk found nothing at all)
\* and record the fingerprint.
MergeFound ==
  /\ index' = [f \in Files |-> IF found[f] = 0 /\ found = Nothing THEN index[f] ELSE found[f]]
  /\ lastScan' = IF found = Nothing THEN lastScan ELSE found

\* Over the cap: win scan_in_progress, or lose it to a running scan.
OverCapScan(w) ==
  /\ window[w].pc = "batch" /\ OverCap(w)
  /\ IF scanning
     THEN window' = [window EXCEPT ![w].pc = "lost", ![w].lost = TRUE] /\ UNCHANGED scanning
     ELSE window' = Moved(w, "read") /\ scanning' = TRUE
  /\ UNCHANGED <<disk, indexed, queues, slot, scan, found, lastScan, counters>>

WindowRead(w) ==
  /\ window[w].pc = "read"
  /\ IF CanSkip(TRUE)
     THEN window' = Moved(w, "finish") /\ UNCHANGED found
     ELSE window' = Moved(w, "merge") /\ ReadDisk
  /\ UNCHANGED <<disk, indexed, queues, slot, scanning, scan, lastScan, counters>>

WindowMerge(w) ==
  /\ window[w].pc = "merge"
  /\ MergeFound
  /\ window' = Moved(w, "finish")
  /\ UNCHANGED <<disk, sigs, queues, slot, scanning, scan, found, counters>>

\* ScanGuard::finish releases the flag,
WindowFinishScan(w) ==
  /\ window[w].pc = "finish"
  /\ scanning' = FALSE
  /\ window' = Moved(w, "winner")
  /\ UNCHANGED <<disk, indexed, queues, slot, scan, found, lastScan, counters>>

\* and only then the scan looks for events it has to arm a window for.
WindowWinner(w) ==
  /\ window[w].pc = "winner"
  /\ ArmIfQueued(Moved(w, "clear"))
  /\ UNCHANGED <<disk, indexed, queues, scanData, counters>>

\* The loser of the flag puts its events back.
RequeueLost(w) ==
  /\ window[w].pc = "lost"
  /\ pending' = pending \cup window[w].changes
  /\ deleted' = deleted \cup window[w].deletes
  /\ window' = Moved(w, "clear")
  /\ UNCHANGED <<disk, indexed, slot, scanData, counters>>

-----------------------------------------------------------------------------
(* The tail of a batch, and its panics                                     *)

\* The slot is emptied before the last look at the queues.
ClearSlot(w) ==
  /\ window[w].pc = "clear"
  /\ slot' = NoWindow
  /\ window' = Moved(w, "check")
  /\ UNCHANGED <<disk, indexed, queues, scanData, counters>>

\* Mutant of FinalCheck: the loser of the flag always leaves the arming to the winner.
FinalCheck_trustsWinner(w) ==
  LET tasks == [window EXCEPT ![w] = Resting] IN
  /\ window[w].pc = "check"
  /\ IF window[w].lost
     THEN window' = tasks /\ UNCHANGED slot
     ELSE ArmIfQueued(tasks)
  /\ UNCHANGED <<disk, indexed, queues, scanData, counters>>

\* The last look: arm for what came in meanwhile; a loser arms only if the scan it lost
\* to is already over.
FinalCheck(w) ==
  LET tasks == [window EXCEPT ![w] = Resting] IN
  /\ window[w].pc = "check"
  /\ IF window[w].lost
     THEN IF scanning THEN window' = tasks /\ UNCHANGED slot ELSE Arm(tasks)
     ELSE ArmIfQueued(tasks)
  /\ UNCHANGED <<disk, indexed, queues, scanData, counters>>

\* The inner task panics; a scan it was running releases the flag as it unwinds.
Panic(w) ==
  /\ window[w].pc \in {"batch", "stat", "apply", "read", "merge"}
  /\ panics < MaxPanics
  /\ panics' = panics + 1
  /\ scanning' = IF window[w].pc \in {"read", "merge"} THEN FALSE ELSE scanning
  /\ window' = Moved(w, "requeue")
  /\ UNCHANGED <<disk, indexed, queues, slot, scan, found, lastScan, events, scans>>

\* Mutant of RecoverPanic: the events go back, but nobody is left to drain them.
RecoverPanic_noRetry(w) ==
  /\ window[w].pc = "requeue"
  /\ pending' = pending \cup window[w].changes
  /\ deleted' = deleted \cup window[w].deletes
  /\ window' = [window EXCEPT ![w] = Resting]
  /\ UNCHANGED <<disk, indexed, slot, scanData, counters>>

\* The events go back to the queues, and a retry takes over the slot once.
RecoverPanic(w) ==
  LET tasks == [window EXCEPT ![w] = Resting] IN
  /\ window[w].pc = "requeue"
  /\ pending' = pending \cup window[w].changes
  /\ deleted' = deleted \cup window[w].deletes
  /\ IF window[w].retried \/ ~SlotLive
     THEN window' = tasks /\ UNCHANGED slot
     ELSE Spawn(tasks, TRUE)
  /\ UNCHANGED <<disk, indexed, scanData, counters>>

-----------------------------------------------------------------------------
(* Scans started by commands, at startup or by the background pass         *)

\* A command, startup or the background pass wins scan_in_progress.
StartScan ==
  /\ scan.pc = "idle" /\ ~scanning
  /\ scans < MaxScans
  /\ scans' = scans + 1
  /\ scanning' = TRUE
  /\ \E quiet \in BOOLEAN : scan' = [NoScan EXCEPT !.pc = "read", !.quiet = quiet]
  /\ UNCHANGED <<disk, indexed, queues, slot, window, found, lastScan, events, panics>>

ScanRead ==
  /\ scan.pc = "read"
  /\ IF CanSkip(scan.quiet)
     THEN scan' = [scan EXCEPT !.pc = "finish"] /\ UNCHANGED found
     ELSE scan' = [scan EXCEPT !.pc = "merge"] /\ ReadDisk
  /\ UNCHANGED <<disk, indexed, queues, slot, window, scanning, lastScan, counters>>

ScanMerge ==
  /\ scan.pc = "merge"
  /\ MergeFound
  /\ scan' = [scan EXCEPT !.pc = "finish"]
  /\ UNCHANGED <<disk, sigs, queues, slot, window, scanning, found, counters>>

\* The progress token was cancelled: the scan returns without a result, but in order.
ScanGivesUp ==
  /\ CanCancel
  /\ scan.pc = "merge" /\ ~scan.quiet
  /\ scan' = [scan EXCEPT !.pc = "finish"]
  /\ UNCHANGED <<disk, indexed, queues, slot, window, scanning, found, lastScan, counters>>

FinishScan ==
  /\ scan.pc = "finish"
  /\ scanning' = FALSE
  /\ scan' = [scan EXCEPT !.pc = "winner"]
  /\ UNCHANGED <<disk, indexed, queues, slot, window, found, lastScan, counters>>

\* The winner of the flag arms for the events a loser put back.
ScanWinner ==
  /\ scan.pc = "winner"
  /\ ArmIfQueued(window)
  /\ scan' = NoScan
  /\ UNCHANGED <<disk, indexed, queues, scanning, found, lastScan, counters>>

\* $/cancelRequest drops the command's future in one of its awaits: ScanGuard's Drop
\* leaves the release of the flag to a task of its own, and nothing else of the scan runs.
DropScan ==
  /\ CanCancel
  /\ scan.pc \in {"read", "merge"} /\ ~scan.quiet
  /\ scan' = [scan EXCEPT !.pc = "release"]
  /\ UNCHANGED <<disk, indexed, queues, slot, window, scanning, found, lastScan, counters>>

\* The same while ScanGuard::finish is closing the indicator: it has already set
\* `finished`, so Drop returns at once and the flag stays set.
DropFinishing ==
  /\ CanCancel
  /\ scan.pc = "finish" /\ ~scan.quiet
  /\ scan' = [NoScan EXCEPT !.dropped = TRUE]
  /\ UNCHANGED <<disk, indexed, queues, slot, window, scanning, found, lastScan, counters>>

\* The task Drop has spawned.
ReleaseDropped ==
  /\ scan.pc = "release"
  /\ scanning' = FALSE
  /\ scan' = [NoScan EXCEPT !.dropped = TRUE]
  /\ UNCHANGED <<disk, indexed, queues, slot, window, found, lastScan, counters>>

-----------------------------------------------------------------------------
(* Specification                                                           *)

\* Some files exist, and the last full scan has indexed them.
Init ==
  /\ disk \in [Files -> {0, 1}]
  /\ index = disk
  /\ sigs = Nothing
  /\ pending = {} /\ deleted = {}
  /\ slot = NoWindow
  /\ window = [w \in Windows |-> Resting]
  /\ scanning = FALSE
  /\ scan = NoScan
  /\ found = Nothing
  /\ lastScan = disk
  /\ events = 0 /\ scans = 0 /\ panics = 0

WindowStep(w) ==
  \/ DrainChanges(w) \/ DrainDeletes(w) \/ ProcessDeletes(w) \/ StatFile(w)
  \/ ApplyFile(w) \/ EndBatch(w)
  \/ OverCapScan(w) \/ WindowRead(w) \/ WindowMerge(w) \/ WindowFinishScan(w)
  \/ WindowWinner(w) \/ RequeueLost(w)
  \/ ClearSlot(w) \/ FinalCheck(w) \/ RecoverPanic(w)

ScanStep ==
  ScanRead \/ ScanMerge \/ FinishScan \/ ScanWinner \/ ReleaseDropped

Environment ==
  \/ \E f \in Files : ExternalWrite(f) \/ ExternalDelete(f)
  \/ \E w \in Windows : Panic(w)
  \/ StartScan \/ ScanGivesUp \/ DropScan \/ DropFinishing

Next == Environment \/ ScanStep \/ \E w \in Windows : WindowStep(w)

\* The runtime polls every spawned task, timers fire, and a scan that started goes on;
\* nobody has to change files, start or cancel scans, or panic.
Fairness == WF_vars(ScanStep) /\ \A w \in Windows : WF_vars(WindowStep(w))

Spec == Init /\ [][Next]_vars /\ Fairness

-----------------------------------------------------------------------------
(* Properties                                                              *)

\* The shape of the state.
TypeOK ==
  /\ disk \in Disk /\ index \in Disk /\ sigs \in Disk
  /\ found \in Disk /\ lastScan \in Disk
  /\ pending \in SUBSET Files /\ deleted \in SUBSET Files
  /\ slot \in Windows \cup {NoWindow}
  /\ window \in [Windows -> Window]
  /\ scanning \in BOOLEAN
  /\ scan \in [pc : ScanPCs, quiet : BOOLEAN, dropped : BOOLEAN]
  /\ events \in 0..MaxEvents /\ scans \in 0..MaxScans /\ panics \in 0..MaxPanics

Batching == {"drain", "batch", "stat", "apply", "read", "merge", "finish", "winner", "lost"}

\* At most one window is between its drain and the release of the slot: two batches
\* never write the index and the signatures at the same time, and a retry after a panic
\* does not run beside another window.
OneBatch == \A v, w \in Windows : window[v].pc \in Batching /\ window[w].pc \in Batching => v = w

\* A window that runs a full scan, and a scan of somebody else that holds the flag.
Scans(w) == window[w].pc \in {"read", "merge", "finish"}
OtherScan == scan.pc \in {"read", "merge", "finish", "release"}

\* Two scans are never under way together, whoever started them, and the flag stays set
\* as long as one is: no exit of a scan, by its end, a panic or a dropped future,
\* releases the flag of another one.
OneScan ==
  /\ \A w \in Windows : Scans(w) => /\ scanning /\ ~OtherScan
                                    /\ \A v \in Windows : Scans(v) => v = w
  /\ OtherScan => scanning

\* No window is live and no scan runs.
Settled == (\A w \in Windows : window[w].pc = "idle") /\ scan.pc = "idle"

\* An event is never left in the queues with nobody to drain it: not after a batch that
\* lost the flag to a scan that ran to its end, not after a panic that was retried, not
\* when it came in while a window was ending.
NothingStranded == Settled /\ ~scan.dropped => pending \cup deleted = {}

\* The same after a scan that was dropped and has released its flag: the comments count
\* on the winner of the flag to drain what a loser put back.
DroppedScanStrandsNothing == Settled /\ ~scanning => pending \cup deleted = {}

\* When no scan is left, the flag is free: ScanGuard promises that no way out of a scan
\* wedges later scans out.
FlagReleased == Settled => ~scanning

\* A file that exists is indexed from its present content once everything has settled,
\* if no scan but those of the windows ran: deletions resolved against writes, requeued
\* events and recorded signatures never hide a write.
PresentFilesIndexed ==
  Settled /\ scans = 0 => \A f \in Files : disk[f] # 0 => index[f] = disk[f]

\* A file that was deleted is forgotten once everything has settled, if no scan but
\* those of the windows ran.
DeletedFilesForgotten ==
  Settled /\ scans = 0 => \A f \in Files : disk[f] = 0 => index[f] = 0

\* Whatever was queued is eventually applied and the system comes to rest, unless files
\* change for ever: requeues, retries and re-armed windows do not go round in a circle.
\* (A dropped scan may leave events for the next window.)
EventuallyDrained == []<>(Settled /\ (scan.dropped \/ pending \cup deleted = {}))
=============================================================================
