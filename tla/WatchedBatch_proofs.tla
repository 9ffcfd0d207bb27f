-------------------------- MODULE WatchedBatch_proofs --------------------------
(* Machine-checked facts about external file changes, for every number of  *)
(* files, windows, events and scans and every cap.                         *)
EXTENDS WatchedBatch, TLAPS

-----------------------------------------------------------------------------
(* Type correctness                                                        *)

\* What the assumption says of the bounds.
LEMMA Bounds ==
  /\ MaxEvents \in Nat /\ MaxScans \in Nat /\ MaxPanics \in Nat
  /\ NoWindow \notin Windows /\ NoFile \notin Files
  /\ 0 \in Stamps /\ 1 \in Stamps
<1>1. /\ MaxEvents \in Nat /\ MaxScans \in Nat /\ MaxPanics \in Nat
      /\ NoWindow \notin Windows /\ NoFile \notin Files
  BY WatchedBatchAssumption
<1>2. QED
  BY <1>1 DEF Stamps

\* A window at rest, or newly spawned, is a window.
LEMMA RestingType ==
  /\ Resting \in Window
  /\ \A retried \in BOOLEAN : [Resting EXCEPT !.pc = "sleep", !.retried = retried] \in Window
BY Bounds DEF Resting, Window, WindowPCs

\* A window moved on to another step is a window.
LEMMA MovedType ==
  ASSUME TypeOK, NEW w \in Windows, NEW pc \in WindowPCs
  PROVE  Moved(w, pc) \in [Windows -> Window]
<1>1. [window[w] EXCEPT !.pc = pc] \in Window
  BY DEF TypeOK, Window
<1>2. Moved(w, pc) = [window EXCEPT ![w] = [window[w] EXCEPT !.pc = pc]]
  BY DEF Moved, TypeOK
<1>3. QED
  BY <1>1, <1>2 DEF TypeOK

\* It keeps its batch, and no other window moves.
LEMMA MovedEffect ==
  ASSUME TypeOK, NEW w \in Windows, NEW pc \in WindowPCs
  PROVE  /\ Moved(w, pc)[w].pc = pc
         /\ Moved(w, pc)[w].changes = window[w].changes
         /\ Moved(w, pc)[w].deletes = window[w].deletes
         /\ Moved(w, pc)[w].lost = window[w].lost
         /\ Moved(w, pc)[w].retried = window[w].retried
         /\ \A v \in Windows : v # w => Moved(w, pc)[v] = window[v]
BY DEF Moved, TypeOK, Window

\* So is a window laid to rest.
LEMMA RestedType ==
  ASSUME TypeOK, NEW w \in Windows
  PROVE  [window EXCEPT ![w] = Resting] \in [Windows -> Window]
BY RestingType DEF TypeOK

\* A spawned window sleeps in the slot, and every other one is as the step leaves it.
LEMMA SpawnEffect ==
  ASSUME NEW tasks \in [Windows -> Window], NEW retried \in BOOLEAN, Spawn(tasks, retried)
  PROVE  /\ slot' \in Windows /\ window' \in [Windows -> Window]
         /\ tasks[slot'].pc = "idle"
         /\ window'[slot'] = [Resting EXCEPT !.pc = "sleep", !.retried = retried]
         /\ \A v \in Windows : v # slot' => window'[v] = tasks[v]
BY RestingType DEF Spawn

\* Arming changes nothing while the slot is live, and otherwise spawns a window.
LEMMA ArmEffect ==
  ASSUME NEW tasks \in [Windows -> Window], Arm(tasks)
  PROVE  \/ SlotLive /\ window' = tasks /\ slot' = slot
         \/ /\ ~SlotLive /\ slot' \in Windows /\ window' \in [Windows -> Window]
            /\ tasks[slot'].pc = "idle"
            /\ window'[slot'] = [Resting EXCEPT !.pc = "sleep", !.retried = FALSE]
            /\ \A v \in Windows : v # slot' => window'[v] = tasks[v]
BY SpawnEffect DEF Arm

\* Either way the windows and the slot keep their shape.
LEMMA ArmType ==
  ASSUME TypeOK, NEW tasks \in [Windows -> Window], Arm(tasks) \/ ArmIfQueued(tasks)
  PROVE  window' \in [Windows -> Window] /\ slot' \in Windows \cup {NoWindow}
<1>1. CASE Arm(tasks)
  BY <1>1, ArmEffect DEF TypeOK
<1>2. CASE ArmIfQueued(tasks)
  BY <1>2, ArmEffect DEF TypeOK, ArmIfQueued
<1>3. QED
  BY <1>1, <1>2

\* Merging what a scan found indexes contents and records a fingerprint.
LEMMA MergeType ==
  ASSUME TypeOK, MergeFound
  PROVE  index' \in Disk /\ lastScan' \in Disk
BY DEF TypeOK, MergeFound, Disk

\* The shape of the windows with their slot, and of everything else.
WindowsOK == window \in [Windows -> Window] /\ slot \in Windows \cup {NoWindow}

RestOK ==
  /\ disk \in Disk /\ index \in Disk /\ sigs \in Disk
  /\ found \in Disk /\ lastScan \in Disk
  /\ pending \in SUBSET Files /\ deleted \in SUBSET Files
  /\ scanning \in BOOLEAN
  /\ scan \in [pc : ScanPCs, quiet : BOOLEAN, dropped : BOOLEAN]
  /\ events \in 0..MaxEvents /\ scans \in 0..MaxScans /\ panics \in 0..MaxPanics

\* TypeOK is the two together, now and in the next state.
LEMMA TypeParts ==
  /\ TypeOK <=> WindowsOK /\ RestOK
  /\ TypeOK' <=> WindowsOK' /\ RestOK'
BY DEF TypeOK, WindowsOK, RestOK

\* A client's report keeps the shape of the state.
LEMMA EventType ==
  ASSUME TypeOK, NEW f \in Files, ExternalWrite(f) \/ ExternalDelete(f)
  PROVE  TypeOK'
<1>1. WindowsOK'
  <2>1. Arm(window) /\ window \in [Windows -> Window]
    BY DEF ExternalWrite, ExternalDelete, TypeOK
  <2>2. QED
    BY <2>1, ArmType DEF WindowsOK
<1>2. /\ events \in Nat /\ events < MaxEvents /\ MaxEvents \in Nat
  BY Bounds DEF TypeOK, ExternalWrite, ExternalDelete
<1>3. events + 2 \in Stamps /\ 0 \in Stamps /\ events + 1 \in 0..MaxEvents
  BY <1>2 DEF Stamps
<1>4. RestOK'
  <2>1. CASE ExternalWrite(f)
    BY <2>1, <1>3 DEF ExternalWrite, TypeOK, RestOK, Disk, indexed, scanData
  <2>2. CASE ExternalDelete(f)
    BY <2>2, <1>3 DEF ExternalDelete, TypeOK, RestOK, Disk, indexed, scanData
  <2>3. QED
    BY <2>1, <2>2
<1>5. QED
  BY <1>1, <1>4, TypeParts

\* A step of a window keeps the windows and their slot in shape.
LEMMA WindowStepWindows ==
  ASSUME TypeOK, NEW w \in Windows, WindowStep(w)
  PROVE  WindowsOK'
<1>0. window[w] \in Window /\ slot \in Windows \cup {NoWindow} /\ window \in [Windows -> Window]
  BY DEF TypeOK
<1>1. CASE DrainChanges(w)
  <2>1. window' = [window EXCEPT ![w] = [window[w] EXCEPT !.pc = "drain", !.changes = pending]]
    BY <1>1, <1>0 DEF DrainChanges
  <2>2. [window[w] EXCEPT !.pc = "drain", !.changes = pending] \in Window
    BY <1>0 DEF Window, WindowPCs, TypeOK
  <2>3. QED
    BY <1>0, <1>1, <2>1, <2>2 DEF DrainChanges, WindowsOK
<1>2. CASE DrainDeletes(w)
  <2> DEFINE changes == window[w].changes
             deletes == ResolveWatchedDeletes(changes, deleted)
             batch == [window[w] EXCEPT !.pc = "batch", !.deletes = deletes, !.todo = changes]
  <2>1. changes \in SUBSET Files /\ deletes \in SUBSET Files
    BY <1>0 DEF Window, TypeOK, ResolveWatchedDeletes
  <2> HIDE DEF changes, deletes
  <2>2. batch \in Window
    BY <1>0, <2>1 DEF Window, WindowPCs
  <2>3. window' = [window EXCEPT ![w] = IF changes = {} /\ deletes = {} THEN Resting ELSE batch]
          /\ slot' = slot
    BY <1>2 DEF DrainDeletes, changes, deletes
  <2>4. QED
    BY <1>0, <2>2, <2>3, RestingType DEF WindowsOK
<1>3. CASE ProcessDeletes(w) \/ EndBatch(w) \/ WindowMerge(w) \/ WindowFinishScan(w)
             \/ RequeueLost(w)
  <2>1. (\E pc \in WindowPCs : window' = Moved(w, pc)) /\ slot' = slot
    BY <1>3 DEF ProcessDeletes, EndBatch, WindowMerge, WindowFinishScan, RequeueLost, WindowPCs
  <2>2. QED
    BY <1>0, <2>1, MovedType DEF WindowsOK
<1>4. CASE StatFile(w)
  <2>1. PICK f \in window[w].todo :
          window' =
            IF disk[f] # 0 /\ sigs[f] = disk[f]
            THEN [window EXCEPT ![w].todo = @ \ {f}]
            ELSE [window EXCEPT ![w].todo = @ \ {f}, ![w].pc = "apply",
                                ![w].file = f, ![w].sig = disk[f]]
    BY <1>4 DEF StatFile
  <2> DEFINE skipped == [window[w] EXCEPT !.todo = @ \ {f}]
             taken == [window[w] EXCEPT !.todo = @ \ {f}, !.pc = "apply",
                                        !.file = f, !.sig = disk[f]]
  <2>2. f \in Files /\ disk[f] \in Stamps
    BY <1>0 DEF Window, TypeOK, Disk
  <2>3. skipped \in Window /\ taken \in Window
    BY <1>0, <2>2 DEF Window, WindowPCs
  <2>4. window' = [window EXCEPT ![w] = skipped] \/ window' = [window EXCEPT ![w] = taken]
    BY <1>0, <2>1
  <2>5. slot' = slot
    BY <1>4 DEF StatFile
  <2>6. QED
    BY <1>0, <2>3, <2>4, <2>5 DEF WindowsOK
<1>5. CASE ApplyFile(w)
  <2>1. window' = [window EXCEPT ![w] = [window[w] EXCEPT !.pc = "stat", !.file = NoFile,
                                                          !.sig = 0]] /\ slot' = slot
    BY <1>0, <1>5 DEF ApplyFile
  <2>2. [window[w] EXCEPT !.pc = "stat", !.file = NoFile, !.sig = 0] \in Window
    BY <1>0, Bounds DEF Window, WindowPCs
  <2>3. QED
    BY <1>0, <2>1, <2>2 DEF WindowsOK
<1>6. CASE OverCapScan(w) \/ WindowRead(w)
  <2>1. /\ slot' = slot
        /\ \/ \E pc \in WindowPCs : window' = Moved(w, pc)
           \/ window' = [window EXCEPT ![w] = [window[w] EXCEPT !.pc = "lost", !.lost = TRUE]]
    BY <1>0, <1>6 DEF OverCapScan, WindowRead, WindowPCs
  <2>2. [window[w] EXCEPT !.pc = "lost", !.lost = TRUE] \in Window
    BY <1>0 DEF Window, WindowPCs
  <2>3. QED
    BY <1>0, <2>1, <2>2, MovedType DEF WindowsOK
<1>7. CASE WindowWinner(w)
  <2>1. Moved(w, "clear") \in [Windows -> Window]
    BY MovedType DEF WindowPCs
  <2>2. QED
    BY <1>7, <2>1, ArmType DEF WindowWinner, WindowsOK
<1>8. CASE ClearSlot(w)
  <2>1. Moved(w, "check") \in [Windows -> Window]
    BY MovedType DEF WindowPCs
  <2>2. QED
    BY <1>8, <2>1 DEF ClearSlot, WindowsOK
<1>9. CASE FinalCheck(w)
  <2> DEFINE tasks == [window EXCEPT ![w] = Resting]
  <2>1. tasks \in [Windows -> Window]
    BY RestedType
  <2>2. Arm(tasks) \/ ArmIfQueued(tasks) \/ (window' = tasks /\ slot' = slot)
    BY <1>9 DEF FinalCheck
  <2> HIDE DEF tasks
  <2>3. QED
    BY <1>0, <2>1, <2>2, ArmType DEF WindowsOK
<1>10. CASE RecoverPanic(w)
  <2> DEFINE tasks == [window EXCEPT ![w] = Resting]
  <2>1. tasks \in [Windows -> Window]
    BY RestedType
  <2>2. Spawn(tasks, TRUE) \/ (window' = tasks /\ slot' = slot)
    BY <1>10 DEF RecoverPanic
  <2> HIDE DEF tasks
  <2>3. QED
    BY <1>0, <2>1, <2>2, SpawnEffect DEF WindowsOK
<1>11. QED
  BY <1>1, <1>2, <1>3, <1>4, <1>5, <1>6, <1>7, <1>8, <1>9, <1>10 DEF WindowStep

\* And everything else.
LEMMA WindowStepRest ==
  ASSUME TypeOK, NEW w \in Windows, WindowStep(w)
  PROVE  RestOK'
<1>0. /\ RestOK /\ window[w] \in Window
      /\ window[w].changes \subseteq Files /\ window[w].deletes \subseteq Files
  BY TypeParts DEF TypeOK, Window
<1>1. CASE DrainChanges(w) \/ DrainDeletes(w) \/ RequeueLost(w) \/ RecoverPanic(w)
  BY <1>0, <1>1 DEF DrainChanges, DrainDeletes, RequeueLost, RecoverPanic, RestOK, indexed,
                    scanData, counters
<1>2. CASE ProcessDeletes(w)
  <2>2. index' \in Disk /\ sigs' \in Disk
    BY <1>0, <1>2, Bounds DEF ProcessDeletes, RestOK, Disk
  <2>3. QED
    BY <1>0, <1>2, <2>2 DEF ProcessDeletes, RestOK, queues, scanData, counters
<1>3. CASE StatFile(w) \/ EndBatch(w) \/ WindowWinner(w) \/ ClearSlot(w) \/ FinalCheck(w)
  BY <1>0, <1>3 DEF StatFile, EndBatch, WindowWinner, ClearSlot, FinalCheck, RestOK, indexed,
                    queues, scanData, counters
<1>4. CASE ApplyFile(w)
  <2>1. window[w].sig \in Stamps
    BY <1>0 DEF Window
  <2>2. index' \in Disk /\ sigs' \in Disk
    BY <1>0, <1>4, <2>1 DEF ApplyFile, RestOK, Disk
  <2>3. QED
    BY <1>0, <1>4, <2>2 DEF ApplyFile, RestOK, queues, scanData, counters
<1>5. CASE OverCapScan(w) \/ WindowRead(w) \/ WindowFinishScan(w)
  BY <1>0, <1>5 DEF OverCapScan, WindowRead, WindowFinishScan, ReadDisk, RestOK, indexed,
                    queues, counters
<1>6. CASE WindowMerge(w)
  BY <1>0, <1>6, MergeType DEF WindowMerge, RestOK, queues, counters
<1>7. QED
  BY <1>1, <1>2, <1>3, <1>4, <1>5, <1>6 DEF WindowStep

\* A panic keeps the shape of the state.
LEMMA PanicType ==
  ASSUME TypeOK, NEW w \in Windows, Panic(w)
  PROVE  TypeOK'
<1>1. Moved(w, "requeue") \in [Windows -> Window]
  BY MovedType DEF WindowPCs
<1>2. panics + 1 \in 0..MaxPanics
  BY Bounds DEF Panic, TypeOK
<1>3. QED
  BY <1>1, <1>2 DEF Panic, TypeOK, indexed, queues

\* So does every step of a scan by somebody else.
LEMMA ScanType ==
  ASSUME TypeOK, ScanStep \/ StartScan \/ ScanGivesUp \/ DropScan \/ DropFinishing
  PROVE  TypeOK'
<1>0. NoScan \in [pc : ScanPCs, quiet : BOOLEAN, dropped : BOOLEAN]
  BY DEF NoScan, ScanPCs
<1>1. CASE StartScan
  <2>0. scans \in 0..MaxScans /\ scans < MaxScans
    BY <1>1 DEF StartScan, TypeOK
  <2>1. scans + 1 \in 0..MaxScans
    BY <2>0, Bounds
  <2>2. scan' \in [pc : ScanPCs, quiet : BOOLEAN, dropped : BOOLEAN]
    BY <1>1, <1>0 DEF StartScan, ScanPCs
  <2>3. QED
    BY <1>1, <2>1, <2>2 DEF StartScan, TypeOK, indexed, queues
<1>2. CASE ScanRead \/ FinishScan \/ ReleaseDropped \/ ScanGivesUp \/ DropScan \/ DropFinishing
  <2>1. scan' \in [pc : ScanPCs, quiet : BOOLEAN, dropped : BOOLEAN]
    BY <1>2, <1>0 DEF ScanRead, FinishScan, ReleaseDropped, ScanGivesUp, DropScan,
                      DropFinishing, TypeOK, ScanPCs
  <2>2. QED
    BY <1>2, <2>1 DEF ScanRead, FinishScan, ReleaseDropped, ScanGivesUp, DropScan,
                      DropFinishing, ReadDisk, TypeOK, indexed, queues, counters
<1>3. CASE ScanMerge
  <2>1. scan' \in [pc : ScanPCs, quiet : BOOLEAN, dropped : BOOLEAN]
    BY <1>3 DEF ScanMerge, TypeOK, ScanPCs
  <2>2. QED
    BY <1>3, <2>1, MergeType DEF ScanMerge, TypeOK, queues, counters
<1>4. CASE ScanWinner
  <2>1. window' \in [Windows -> Window] /\ slot' \in Windows \cup {NoWindow}
    BY <1>4, ArmType DEF ScanWinner, TypeOK
  <2>2. QED
    BY <1>0, <1>4, <2>1 DEF ScanWinner, TypeOK, indexed, queues, counters
<1>5. QED
  BY <1>1, <1>2, <1>3, <1>4 DEF ScanStep

\* Every step keeps the shape of the state.
LEMMA NextType == TypeOK /\ [Next]_vars => TypeOK'
<1> SUFFICES ASSUME TypeOK, [Next]_vars PROVE TypeOK'
  OBVIOUS
<1>1. CASE UNCHANGED vars
  BY <1>1 DEF vars, TypeOK
<1>2. ASSUME NEW w \in Windows, WindowStep(w) PROVE TypeOK'
  BY <1>2, WindowStepWindows, WindowStepRest, TypeParts
<1>3. QED
  BY <1>1, <1>2, EventType, PanicType, ScanType DEF Next, Environment

\* Every reachable state has the right shape, whatever the cap and the bounds.
THEOREM TypeCorrect == Spec => []TypeOK
<1>1. Init => TypeOK
  <2>1. SUFFICES ASSUME Init PROVE TypeOK
    OBVIOUS
  <2>3. disk \in Disk /\ Nothing \in Disk
    BY <2>1, Bounds DEF Init, Disk, Nothing
  <2>4. NoScan \in [pc : ScanPCs, quiet : BOOLEAN, dropped : BOOLEAN]
    BY DEF NoScan, ScanPCs
  <2>5. QED
    <3>1. events \in 0..MaxEvents /\ scans \in 0..MaxScans /\ panics \in 0..MaxPanics
      BY <2>1, Bounds DEF Init
    <3>2. QED
      BY <2>1, <2>3, <2>4, <3>1, RestingType DEF Init, TypeOK
<1>2. TypeOK /\ [Next]_vars => TypeOK'
  BY NextType
<1>3. QED
  BY <1>1, <1>2, PTL DEF Spec

-----------------------------------------------------------------------------
(* The slot and the windows                                                *)

\* The inductive strengthening of OneBatch: a window at work is the one in the slot, a
\* window at its last look has given the slot up, and until then no other may drain.
SlotInv ==
  \A w \in Windows :
    /\ window[w].pc \notin {"idle", "check"} => slot = w
    /\ window[w].pc = "check" => /\ slot # w
                                 /\ \A v \in Windows :
                                      window[v].pc \in {"idle", "sleep", "check"}

\* The step is one of w alone.
Solo(w) == \A v \in Windows : v # w => window'[v] = window[v]

\* A window at work keeps the slot, unless it moves on to its last look.
LEMMA WorkKeepsSlot ==
  ASSUME TypeOK, SlotInv, NEW w \in Windows, Solo(w), slot' = slot,
         window[w].pc \notin {"idle", "check"},
         window[w].pc # "sleep" \/ \A v \in Windows : window[v].pc # "check",
         window'[w].pc # "check"
  PROVE  SlotInv'
BY DEF SlotInv, Solo

\* Arming keeps the slot in order: it replaces only the slot of a window that is over.
LEMMA ArmKeepsSlot ==
  ASSUME TypeOK, SlotInv, NEW tasks \in [Windows -> Window], Arm(tasks) \/ ArmIfQueued(tasks),
         \A v \in Windows : /\ tasks[v].pc \in {window[v].pc, "idle"}
                            /\ window[v].pc \notin {"idle", "check"} => tasks[v] = window[v]
  PROVE  SlotInv'
<1>1. CASE window' = tasks /\ slot' = slot
  BY <1>1 DEF SlotInv
<1>2. CASE Arm(tasks)
  <2>1. CASE SlotLive
    BY <1>1, <1>2, <2>1 DEF Arm
  <2>2. CASE ~SlotLive
    <3>1. /\ slot' \in Windows /\ tasks[slot'].pc = "idle" /\ window'[slot'].pc = "sleep"
          /\ \A v \in Windows : v # slot' => window'[v] = tasks[v]
      BY <1>2, <2>2, ArmEffect DEF Resting
    <3>2. \A v \in Windows : window[v].pc \in {"idle", "check"}
      BY <2>2, Bounds DEF SlotInv, SlotLive
    <3>3. \A v \in Windows : v # slot' => window'[v].pc \in {"idle", "check"}
      BY <3>1, <3>2
    <3>4. QED
      BY <3>1, <3>3 DEF SlotInv
  <2>3. QED
    BY <2>1, <2>2
<1>3. QED
  BY <1>1, <1>2 DEF ArmIfQueued

\* The winner of the flag is the window in the slot: it arms nothing.
LEMMA WinnerArmsNothing ==
  ASSUME TypeOK, SlotInv, NEW w \in Windows, WindowWinner(w)
  PROVE  window' = Moved(w, "clear") /\ slot' = slot
<1>1. SlotLive
  BY Bounds DEF WindowWinner, SlotInv, SlotLive
<1>2. QED
  BY <1>1 DEF WindowWinner, ArmIfQueued, Arm

\* A window's step before its last look touches no other window.
LEMMA WindowSolo ==
  ASSUME TypeOK, SlotInv, NEW w \in Windows, WindowStep(w) \/ Panic(w),
         ~FinalCheck(w), ~RecoverPanic(w)
  PROVE  Solo(w)
<1>1. CASE DrainChanges(w)
  BY <1>1 DEF TypeOK, DrainChanges, Solo
<1>2. CASE DrainDeletes(w)
  BY <1>2 DEF TypeOK, DrainDeletes, Solo
<1>3. CASE ProcessDeletes(w) \/ EndBatch(w) \/ WindowRead(w) \/ WindowMerge(w)
             \/ WindowFinishScan(w) \/ RequeueLost(w) \/ ClearSlot(w) \/ Panic(w)
  <2>1. \E pc \in WindowPCs : window' = Moved(w, pc)
    BY <1>3 DEF ProcessDeletes, EndBatch, WindowRead, WindowMerge, WindowFinishScan,
                RequeueLost, ClearSlot, Panic, WindowPCs
  <2>2. QED
    BY <2>1 DEF TypeOK, Moved, Solo
<1>4. CASE StatFile(w)
  BY <1>4 DEF TypeOK, StatFile, Solo
<1>5. CASE ApplyFile(w)
  BY <1>5 DEF TypeOK, ApplyFile, Solo
<1>6. CASE OverCapScan(w)
  BY <1>6 DEF TypeOK, OverCapScan, Moved, Solo
<1>7. CASE WindowWinner(w)
  BY <1>7, WinnerArmsNothing DEF TypeOK, Moved, Solo
<1>8. QED
  BY <1>1, <1>2, <1>3, <1>4, <1>5, <1>6, <1>7 DEF WindowStep

\* Where each step of a window leads it.
LEMMA WindowTarget ==
  ASSUME TypeOK, SlotInv, NEW w \in Windows
  PROVE  /\ DrainChanges(w) => window'[w].pc = "drain"
         /\ DrainDeletes(w) => window'[w].pc \in {"idle", "batch"}
         /\ ProcessDeletes(w) => window'[w].pc = "stat"
         /\ StatFile(w) => window'[w].pc \in {"stat", "apply"}
         /\ ApplyFile(w) => window'[w].pc = "stat"
         /\ EndBatch(w) => window'[w].pc = "clear"
         /\ OverCapScan(w) => window'[w].pc = IF scanning THEN "lost" ELSE "read"
         /\ WindowRead(w) => window'[w].pc \in {"merge", "finish"}
         /\ WindowMerge(w) => window'[w].pc = "finish"
         /\ WindowFinishScan(w) => window'[w].pc = "winner"
         /\ WindowWinner(w) => window'[w].pc = "clear"
         /\ RequeueLost(w) => window'[w].pc = "clear"
         /\ ClearSlot(w) => window'[w].pc = "check"
         /\ Panic(w) => window'[w].pc = "requeue"
<1>0. window \in [Windows -> Window]
  BY DEF TypeOK
<1>1. \A pc \in WindowPCs : Moved(w, pc)[w].pc = pc
  BY MovedEffect
<1>2. /\ Moved(w, "stat")[w].pc = "stat" /\ Moved(w, "clear")[w].pc = "clear"
      /\ Moved(w, "read")[w].pc = "read" /\ Moved(w, "merge")[w].pc = "merge"
      /\ Moved(w, "finish")[w].pc = "finish" /\ Moved(w, "winner")[w].pc = "winner"
      /\ Moved(w, "check")[w].pc = "check" /\ Moved(w, "requeue")[w].pc = "requeue"
  BY <1>1 DEF WindowPCs
<1>3. DrainChanges(w) => window'[w].pc = "drain"
  BY <1>0 DEF DrainChanges
<1>4. DrainDeletes(w) => window'[w].pc \in {"idle", "batch"}
  BY <1>0 DEF DrainDeletes, Resting
<1>5. StatFile(w) => window'[w].pc \in {"stat", "apply"}
  BY <1>0 DEF StatFile
<1>6. ApplyFile(w) => window'[w].pc = "stat"
  BY <1>0 DEF ApplyFile
<1>7. OverCapScan(w) => window'[w].pc = IF scanning THEN "lost" ELSE "read"
  <2>1. [window EXCEPT ![w].pc = "lost", ![w].lost = TRUE][w].pc = "lost"
    BY <1>0 DEF Window
  <2>2. QED
    BY <1>2, <2>1 DEF OverCapScan
<1>8. WindowWinner(w) => window'[w].pc = "clear"
  BY <1>2, WinnerArmsNothing
<1>9. QED
  BY <1>2, <1>3, <1>4, <1>5, <1>6, <1>7, <1>8
     DEF ProcessDeletes, EndBatch, WindowRead, WindowMerge, WindowFinishScan, RequeueLost,
         ClearSlot, Panic

\* A step of a window keeps the slot in order.
LEMMA WindowKeepsSlot ==
  ASSUME TypeOK, SlotInv, NEW w \in Windows, WindowStep(w) \/ Panic(w)
  PROVE  SlotInv'
<1>0. window \in [Windows -> Window]
  BY DEF TypeOK
<1>1. CASE DrainChanges(w)
  <2>1. /\ window[w].pc = "sleep" /\ slot' = slot /\ window'[w].pc = "drain"
        /\ \A v \in Windows : window[v].pc # "check"
    BY <1>0, <1>1 DEF DrainChanges
  <2>2. Solo(w)
    BY <1>1, <2>1, WindowSolo DEF FinalCheck, RecoverPanic, WindowStep
  <2>3. QED
    BY <2>1, <2>2, WorkKeepsSlot
<1>2. CASE \/ DrainDeletes(w) \/ ProcessDeletes(w) \/ StatFile(w) \/ ApplyFile(w) \/ EndBatch(w)
           \/ OverCapScan(w) \/ WindowRead(w) \/ WindowMerge(w) \/ WindowFinishScan(w)
           \/ WindowWinner(w) \/ RequeueLost(w) \/ Panic(w)
  <2>1. window[w].pc \notin {"idle", "check", "sleep", "requeue"}
    BY <1>2 DEF DrainDeletes, ProcessDeletes, StatFile, ApplyFile, EndBatch, OverCapScan,
                WindowRead, WindowMerge, WindowFinishScan, WindowWinner, RequeueLost, Panic
  <2>2. Solo(w)
    BY <1>2, <2>1, WindowSolo DEF FinalCheck, RecoverPanic
  <2>3. window'[w].pc # "check"
    BY <1>2, WindowTarget
  <2>4. slot' = slot
    BY <1>2, WinnerArmsNothing
       DEF DrainDeletes, ProcessDeletes, StatFile, ApplyFile, EndBatch, OverCapScan, WindowRead,
           WindowMerge, WindowFinishScan, RequeueLost, Panic
  <2>5. QED
    BY <2>1, <2>2, <2>3, <2>4, WorkKeepsSlot
<1>3. CASE ClearSlot(w)
  <2>1. /\ window[w].pc = "clear" /\ slot' = NoWindow /\ window'[w].pc = "check"
        /\ \A v \in Windows : v # w => window'[v] = window[v]
    BY <1>0, <1>3 DEF ClearSlot, Moved
  <2>2. \A v \in Windows : v # w => window[v].pc = "idle"
    BY <2>1 DEF SlotInv
  <2>3. QED
    BY <2>1, <2>2, Bounds DEF SlotInv
<1>4. CASE FinalCheck(w)
  <2> DEFINE tasks == [window EXCEPT ![w] = Resting]
  <2>1. window[w].pc = "check" /\ tasks \in [Windows -> Window]
    BY <1>4, RestedType DEF FinalCheck
  <2>2. \A v \in Windows : /\ tasks[v].pc \in {window[v].pc, "idle"}
                           /\ window[v].pc \notin {"idle", "check"} => tasks[v] = window[v]
    BY <1>0, <2>1 DEF Resting
  <2>3. Arm(tasks) \/ ArmIfQueued(tasks) \/ (window' = tasks /\ slot' = slot)
    BY <1>4 DEF FinalCheck
  <2> HIDE DEF tasks
  <2>4. CASE window' = tasks /\ slot' = slot
    BY <2>2, <2>4 DEF SlotInv
  <2>5. QED
    BY <2>1, <2>2, <2>3, <2>4, ArmKeepsSlot
<1>5. CASE RecoverPanic(w)
  <2> DEFINE tasks == [window EXCEPT ![w] = Resting]
  <2>1. window[w].pc = "requeue" /\ tasks \in [Windows -> Window]
    BY <1>5, RestedType DEF RecoverPanic
  <2>2. \A v \in Windows : tasks[v].pc = "idle"
    BY <1>0, <2>1 DEF SlotInv, Resting
  <2>3. Spawn(tasks, TRUE) \/ (window' = tasks /\ slot' = slot)
    BY <1>5 DEF RecoverPanic
  <2> HIDE DEF tasks
  <2>4. CASE window' = tasks /\ slot' = slot
    BY <2>2, <2>4 DEF SlotInv
  <2>5. CASE Spawn(tasks, TRUE)
    <3>1. /\ slot' \in Windows /\ window'[slot'].pc = "sleep"
          /\ \A v \in Windows : v # slot' => window'[v] = tasks[v]
      BY <2>1, <2>5, SpawnEffect DEF Resting
    <3>2. QED
      BY <2>2, <3>1 DEF SlotInv
  <2>6. QED
    BY <2>3, <2>4, <2>5
<1>6. QED
  BY <1>1, <1>2, <1>3, <1>4, <1>5 DEF WindowStep

\* The steps of the client and of other scans that leave windows and slot alone.
LEMMA ScanKeepsWindows ==
  ASSUME (ScanStep /\ ~ScanWinner) \/ StartScan \/ ScanGivesUp \/ DropScan \/ DropFinishing
  PROVE  UNCHANGED <<window, slot>>
BY DEF ScanStep, ScanRead, ScanMerge, FinishScan, ReleaseDropped, StartScan, ScanGivesUp,
       DropScan, DropFinishing

\* Every step keeps the slot in order.
LEMMA NextSlot == TypeOK /\ SlotInv /\ [Next]_vars => SlotInv'
<1> SUFFICES ASSUME TypeOK, SlotInv, [Next]_vars PROVE SlotInv'
  OBVIOUS
<1>0. window \in [Windows -> Window]
  BY DEF TypeOK
<1>1. CASE UNCHANGED <<window, slot>>
  BY <1>1 DEF SlotInv
<1>2. ASSUME NEW f \in Files, ExternalWrite(f) \/ ExternalDelete(f) PROVE SlotInv'
  BY <1>0, <1>2, ArmKeepsSlot DEF ExternalWrite, ExternalDelete
<1>3. CASE ScanWinner
  BY <1>0, <1>3, ArmKeepsSlot DEF ScanWinner
<1>4. ASSUME NEW w \in Windows, WindowStep(w) \/ Panic(w) PROVE SlotInv'
  BY <1>4, WindowKeepsSlot
<1>5. CASE UNCHANGED vars
  BY <1>1, <1>5 DEF vars
<1>6. QED
  BY <1>1, <1>2, <1>3, <1>4, <1>5, ScanKeepsWindows DEF Next, Environment, ScanStep

\* In every reachable state the slot and the windows are in order.
LEMMA SlotCorrect == Spec => []SlotInv
<1>1. Init => SlotInv
  BY DEF Init, SlotInv, Resting
<1>2. TypeOK /\ SlotInv /\ [Next]_vars => SlotInv'
  BY NextSlot
<1>3. QED
  BY <1>1, <1>2, TypeCorrect, PTL DEF Spec

\* Two windows never work on a batch together, however events, requeues, retries and scans
\* interleave: the slot is given up only after the last write of a batch.
THEOREM OneBatchHolds == Spec => []OneBatch
<1>1. SlotInv => OneBatch
  BY DEF SlotInv, OneBatch, Batching
<1>2. QED
  BY <1>1, SlotCorrect, PTL

-----------------------------------------------------------------------------
(* The flag of the scans                                                   *)

\* The flag is set for a scan that is under way, or was left set by a dropped one.
Holder ==
  /\ scanning => OtherScan \/ scan.dropped \/ \E w \in Windows : Scans(w)
  /\ scan.dropped => scan.pc = "idle"

\* What keeps the flag as it is.
SameScans ==
  /\ scanning' = scanning /\ scan' = scan
  /\ \A v \in Windows : Scans(v)' <=> Scans(v)

LEMMA SameScansKeepsFlag ==
  ASSUME OneScan, Holder, SameScans
  PROVE  OneScan' /\ Holder'
BY DEF OneScan, Holder, SameScans, OtherScan

\* Arming starts no scan and ends none.
LEMMA ArmKeepsScans ==
  ASSUME NEW tasks \in [Windows -> Window], Arm(tasks) \/ ArmIfQueued(tasks),
         \A v \in Windows : Scans(v) <=> tasks[v].pc \in {"read", "merge", "finish"},
         NEW v \in Windows
  PROVE  Scans(v)' <=> Scans(v)
<1>1. CASE window' = tasks
  BY <1>1 DEF Scans
<1>2. CASE Arm(tasks)
  BY <1>1, <1>2, ArmEffect DEF Scans, Resting
<1>3. QED
  BY <1>1, <1>2 DEF ArmIfQueued

\* A step of a window keeps the flag right.
LEMMA WindowKeepsFlag ==
  ASSUME TypeOK, SlotInv, OneScan, Holder, NEW w \in Windows, WindowStep(w) \/ Panic(w)
  PROVE  OneScan' /\ Holder'
<1>0. window \in [Windows -> Window]
  BY DEF TypeOK
<1>1. CASE \/ DrainChanges(w) \/ DrainDeletes(w) \/ ProcessDeletes(w) \/ StatFile(w)
           \/ ApplyFile(w) \/ EndBatch(w) \/ WindowRead(w) \/ WindowMerge(w) \/ WindowWinner(w)
           \/ RequeueLost(w) \/ ClearSlot(w)
  <2>1. scanning' = scanning /\ scan' = scan
    BY <1>1 DEF DrainChanges, DrainDeletes, ProcessDeletes, StatFile, ApplyFile, EndBatch,
                WindowRead, WindowMerge, WindowWinner, RequeueLost, ClearSlot, scanData
  <2>2. window[w].pc \notin {"check", "requeue"}
    BY <1>1 DEF DrainChanges, DrainDeletes, ProcessDeletes, StatFile, ApplyFile, EndBatch,
                WindowRead, WindowMerge, WindowWinner, RequeueLost, ClearSlot
  <2>3. Solo(w)
    BY <1>1, <2>2, WindowSolo DEF FinalCheck, RecoverPanic, WindowStep
  <2>4. Scans(w) <=> WindowRead(w) \/ WindowMerge(w)
    BY <1>1 DEF Scans, DrainChanges, DrainDeletes, ProcessDeletes, StatFile, ApplyFile, EndBatch,
                WindowRead, WindowMerge, WindowWinner, RequeueLost, ClearSlot
  <2>5. Scans(w)' <=> WindowRead(w) \/ WindowMerge(w)
    <3>1. CASE WindowRead(w) \/ WindowMerge(w)
      BY <3>1, WindowTarget DEF Scans
    <3>2. CASE ~(WindowRead(w) \/ WindowMerge(w))
      BY <1>1, <3>2, WindowTarget DEF Scans
    <3>3. QED
      BY <3>1, <3>2
  <2>6. SameScans
    BY <2>1, <2>3, <2>4, <2>5 DEF SameScans, Solo, Scans
  <2>7. QED
    BY <2>6, SameScansKeepsFlag
<1>2. CASE OverCapScan(w)
  <2>1. Solo(w) /\ window[w].pc = "batch" /\ scan' = scan
    BY <1>2, WindowSolo DEF OverCapScan, FinalCheck, RecoverPanic, WindowStep
  <2>2. CASE scanning
    <3>1. window'[w].pc = "lost" /\ scanning' = scanning
      BY <1>2, <2>2, WindowTarget DEF OverCapScan
    <3>2. SameScans
      BY <2>1, <3>1 DEF SameScans, Solo, Scans
    <3>3. QED
      BY <3>2, SameScansKeepsFlag
  <2>3. CASE ~scanning
    <3>1. window'[w].pc = "read" /\ scanning'
      BY <1>2, <2>3, WindowTarget DEF OverCapScan
    <3>2. ~OtherScan /\ \A v \in Windows : ~Scans(v)
      BY <2>3 DEF OneScan
    <3>3. ~OtherScan' /\ Scans(w)' /\ \A v \in Windows : Scans(v)' => v = w
      BY <2>1, <3>1, <3>2 DEF OtherScan, Scans, Solo
    <3>4. QED
      BY <2>1, <3>1, <3>3 DEF OneScan, Holder
  <2>4. QED
    BY <2>2, <2>3
<1>3. CASE WindowFinishScan(w) \/ Panic(w)
  <2>1. Solo(w) /\ scan' = scan /\ ~Scans(w)'
    <3>1. window[w].pc \notin {"check", "requeue"} /\ scan' = scan
      BY <1>3 DEF WindowFinishScan, Panic
    <3>2. window'[w].pc \in {"winner", "requeue"}
      BY <1>3, WindowTarget
    <3>3. QED
      BY <1>3, <3>1, <3>2, WindowSolo DEF FinalCheck, RecoverPanic, WindowStep, Scans
  <2>2. CASE Scans(w)
    <3>1. ~scanning'
      BY <1>3, <2>2 DEF WindowFinishScan, Panic, Scans
    <3>2. ~OtherScan /\ \A v \in Windows : Scans(v) => v = w
      BY <2>2 DEF OneScan
    <3>3. ~OtherScan' /\ \A v \in Windows : ~Scans(v)'
      BY <2>1, <3>2 DEF OtherScan, Scans, Solo
    <3>4. QED
      BY <2>1, <3>1, <3>3 DEF OneScan, Holder
  <2>3. CASE ~Scans(w)
    <3>1. scanning' = scanning
      BY <1>3, <2>3 DEF WindowFinishScan, Panic, Scans
    <3>2. SameScans
      BY <2>1, <2>3, <3>1 DEF SameScans, Solo, Scans
    <3>3. QED
      BY <3>2, SameScansKeepsFlag
  <2>4. QED
    BY <2>2, <2>3
<1>4. CASE FinalCheck(w) \/ RecoverPanic(w)
  <2> DEFINE tasks == [window EXCEPT ![w] = Resting]
  <2>1. tasks \in [Windows -> Window] /\ scanning' = scanning /\ scan' = scan
    BY <1>4, RestedType DEF FinalCheck, RecoverPanic, scanData
  <2>2. \A v \in Windows : Scans(v) <=> tasks[v].pc \in {"read", "merge", "finish"}
    BY <1>0, <1>4 DEF FinalCheck, RecoverPanic, Resting, Scans
  <2>3. \/ Arm(tasks) \/ ArmIfQueued(tasks) \/ window' = tasks
        \/ Spawn(tasks, TRUE)
    BY <1>4 DEF FinalCheck, RecoverPanic
  <2> HIDE DEF tasks
  <2>4. CASE Arm(tasks) \/ ArmIfQueued(tasks)
    BY <2>1, <2>2, <2>4, ArmKeepsScans, SameScansKeepsFlag DEF SameScans
  <2>5. CASE window' = tasks
    <3>1. SameScans
      BY <2>1, <2>2, <2>5 DEF SameScans, Scans
    <3>2. QED
      BY <3>1, SameScansKeepsFlag
  <2>6. CASE Spawn(tasks, TRUE)
    <3>1. SameScans
      BY <2>1, <2>2, <2>6, SpawnEffect DEF SameScans, Scans, Resting
    <3>2. QED
      BY <3>1, SameScansKeepsFlag
  <2>7. QED
    BY <2>3, <2>4, <2>5, <2>6
<1>5. QED
  BY <1>1, <1>2, <1>3, <1>4 DEF WindowStep

\* Every step keeps the flag right.
LEMMA NextFlag == TypeOK /\ SlotInv /\ OneScan /\ Holder /\ [Next]_vars => OneScan' /\ Holder'
<1> SUFFICES ASSUME TypeOK, SlotInv, OneScan, Holder, [Next]_vars PROVE OneScan' /\ Holder'
  OBVIOUS
<1>0. window \in [Windows -> Window]
  BY DEF TypeOK
<1>1. CASE UNCHANGED vars
  BY <1>1, SameScansKeepsFlag DEF vars, SameScans, Scans
<1>2. ASSUME NEW f \in Files, ExternalWrite(f) \/ ExternalDelete(f)
      PROVE  OneScan' /\ Holder'
  <2>1. Arm(window) /\ scanning' = scanning /\ scan' = scan
    BY <1>2 DEF ExternalWrite, ExternalDelete, scanData
  <2>2. \A v \in Windows : Scans(v)' <=> Scans(v)
    BY <1>0, <2>1, ArmKeepsScans DEF Scans
  <2>3. QED
    BY <2>1, <2>2, SameScansKeepsFlag DEF SameScans
<1>3. CASE ScanWinner
  <2>1. /\ ArmIfQueued(window) /\ scanning' = scanning /\ scan' = NoScan
        /\ scan.pc = "winner"
    BY <1>3 DEF ScanWinner
  <2>2. \A v \in Windows : Scans(v)' <=> Scans(v)
    BY <1>0, <2>1, ArmKeepsScans DEF Scans
  <2>3. ~OtherScan /\ ~OtherScan' /\ ~scan.dropped /\ ~scan'.dropped
    BY <2>1 DEF OtherScan, NoScan, Holder
  <2>4. QED
    BY <2>1, <2>2, <2>3 DEF OneScan, Holder
<1>4. CASE (ScanStep /\ ~ScanWinner) \/ StartScan \/ ScanGivesUp \/ DropScan \/ DropFinishing
  <2>0. \A v \in Windows : Scans(v)' <=> Scans(v)
    BY <1>4, ScanKeepsWindows DEF Scans
  <2>1. CASE StartScan
    <3>1. ~scanning /\ scanning' /\ scan'.pc = "read" /\ ~scan'.dropped
      BY <2>1 DEF StartScan, NoScan
    <3>2. \A v \in Windows : ~Scans(v)
      BY <3>1 DEF OneScan
    <3>3. QED
      BY <2>0, <3>1, <3>2 DEF OneScan, Holder, OtherScan
  <2>2. CASE ScanRead \/ ScanMerge \/ ScanGivesUp \/ DropScan
    <3>1. /\ scanning' = scanning /\ scan.pc \in {"read", "merge", "finish"}
          /\ scan'.pc \in {"merge", "finish", "release"} /\ scan'.dropped = scan.dropped
      BY <2>2 DEF ScanRead, ScanMerge, ScanGivesUp, DropScan, TypeOK
    <3>2. QED
      BY <2>0, <3>1 DEF OneScan, Holder, OtherScan
  <2>3. CASE FinishScan \/ ReleaseDropped
    <3>1. /\ ~scanning' /\ scan.pc \in {"finish", "release"}
          /\ \/ scan'.pc = "winner" /\ scan'.dropped = scan.dropped
             \/ scan'.pc = "idle"
      BY <2>3 DEF FinishScan, ReleaseDropped, NoScan, TypeOK
    <3>2. QED
      BY <2>0, <3>1 DEF OneScan, Holder, OtherScan
  <2>4. CASE DropFinishing
    <3>1. /\ scanning' = scanning /\ scan.pc = "finish"
          /\ scan'.pc = "idle" /\ scan'.dropped
      BY <2>4 DEF DropFinishing, NoScan
    <3>2. QED
      BY <2>0, <3>1 DEF OneScan, Holder, OtherScan
  <2>5. QED
    BY <1>4, <2>1, <2>2, <2>3, <2>4 DEF ScanStep
<1>5. ASSUME NEW w \in Windows, WindowStep(w) \/ Panic(w) PROVE OneScan' /\ Holder'
  BY <1>5, WindowKeepsFlag
<1>6. QED
  BY <1>1, <1>2, <1>3, <1>4, <1>5 DEF Next, Environment

\* Of all the scans, of windows, commands, startup and the background pass, only one is
\* ever under way, and the flag is set as long as it is: no end, panic or drop of one scan
\* releases the flag of another.
THEOREM OneScanHolds == Spec => []OneScan
<1>1. Init => OneScan /\ Holder
  BY DEF Init, OneScan, Holder, OtherScan, Scans, Resting, NoScan
<1>2. TypeOK /\ SlotInv /\ OneScan /\ Holder /\ [Next]_vars => OneScan' /\ Holder'
  BY NextFlag
<1>3. QED
  BY <1>1, <1>2, TypeCorrect, SlotCorrect, PTL DEF Spec

-----------------------------------------------------------------------------
(* Nothing stays in the queues                                             *)

Queued == pending \cup deleted # {}

\* A window that has drained the queues carries what it has to put back if it fails.
Carrying == {"batch", "stat", "apply", "read", "merge", "finish", "winner", "lost", "requeue"}

\* A window sleeps and drains only where something is queued; a loser of the flag that is
\* about to look a last time has put its events back; a window that panics is no retry.
WorkOK(w) ==
  /\ window[w].pc = "sleep" => Queued
  /\ window[w].pc = "drain" => window[w].changes # {} \/ deleted # {}
  /\ window[w].pc \in Carrying => window[w].changes # {} \/ window[w].deletes # {}
  /\ window[w].lost => /\ window[w].pc \in {"lost", "clear", "check"}
                       /\ window[w].pc # "lost" => Queued
  /\ window[w].retried => panics # 0
  /\ window[w].pc = "requeue" => ~window[w].retried /\ panics # 0

\* The inductive strengthening of NothingStranded: whatever is queued, a window or a scan
\* is there to take it.
WorkInv ==
  /\ \A w \in Windows : WorkOK(w)
  /\ Queued => scan.pc # "idle" \/ scan.dropped \/ \E w \in Windows : window[w].pc # "idle"

\* What happens to the queues beside a window that does not move.
LEMMA OthersWorkOn ==
  ASSUME NEW v \in Windows, WorkOK(v), window'[v] = window[v], Queued => Queued',
         deleted # {} => deleted' # {}, panics # 0 => panics' # 0
  PROVE  WorkOK(v)'
BY DEF WorkOK

\* A window laid to rest owes nothing, a new one sleeps on what is queued.
LEMMA RestedWork ==
  ASSUME NEW v \in Windows, window'[v] = Resting
  PROVE  WorkOK(v)'
BY DEF WorkOK, Resting, Carrying

LEMMA SpawnedWork ==
  ASSUME NEW v \in Windows, NEW retried \in BOOLEAN, Queued', retried => panics' # 0,
         window'[v] = [Resting EXCEPT !.pc = "sleep", !.retried = retried]
  PROVE  WorkOK(v)'
BY DEF WorkOK, Resting, Carrying

\* Arming leaves a live window where something is queued.
LEMMA ArmKeepsWork ==
  ASSUME TypeOK, NEW tasks \in [Windows -> Window], Arm(tasks), Queued',
         \A v \in Windows : \/ tasks[v] = Resting
                            \/ tasks[v] = window[v] /\ WorkOK(v),
         SlotLive => tasks[slot] = window[slot],
         deleted # {} => deleted' # {}, panics' = panics
  PROVE  /\ \A v \in Windows : WorkOK(v)'
         /\ \E v \in Windows : window'[v].pc # "idle"
<1>1. CASE SlotLive
  <2>1. window' = tasks /\ slot \in Windows /\ window[slot].pc # "idle"
    BY <1>1 DEF Arm, SlotLive, TypeOK
  <2>2. \A v \in Windows : WorkOK(v)'
    BY <2>1, OthersWorkOn, RestedWork
  <2>3. window'[slot].pc # "idle"
    BY <1>1, <2>1
  <2>4. QED
    BY <2>1, <2>2, <2>3
<1>2. CASE ~SlotLive
  <2>1. /\ slot' \in Windows
        /\ window'[slot'] = [Resting EXCEPT !.pc = "sleep", !.retried = FALSE]
        /\ \A v \in Windows : v # slot' => window'[v] = tasks[v]
    BY <1>2, ArmEffect
  <2>2. PICK s \in Windows : s = slot'
    BY <2>1
  <2>3. window'[s] = [Resting EXCEPT !.pc = "sleep", !.retried = FALSE]
          /\ \A v \in Windows : v # s => window'[v] = tasks[v]
    BY <2>1, <2>2
  <2>4. WorkOK(s)'
    BY <2>3, SpawnedWork
  <2>5. \A v \in Windows : v # s => WorkOK(v)'
    BY <2>3, OthersWorkOn, RestedWork
  <2>6. window'[s].pc # "idle"
    BY <2>3 DEF Resting
  <2>7. QED
    BY <2>4, <2>5, <2>6
<1>3. QED
  BY <1>1, <1>2

\* Between the drain and the last look a window keeps its batch; only the loss of the flag
\* makes it a loser.
LEMMA BatchKept ==
  ASSUME TypeOK, SlotInv, NEW w \in Windows,
         \/ ProcessDeletes(w) \/ StatFile(w) \/ ApplyFile(w) \/ EndBatch(w) \/ OverCapScan(w)
         \/ WindowRead(w) \/ WindowMerge(w) \/ WindowFinishScan(w) \/ WindowWinner(w)
         \/ RequeueLost(w) \/ ClearSlot(w) \/ Panic(w)
  PROVE  /\ window'[w].changes = window[w].changes
         /\ window'[w].deletes = window[w].deletes
         /\ window'[w].retried = window[w].retried
         /\ window'[w].lost => window[w].lost \/ window'[w].pc = "lost"
<1>0. window \in [Windows -> Window]
  BY DEF TypeOK
<1>1. CASE StatFile(w)
  <2>1. PICK f \in window[w].todo :
          \/ window' = [window EXCEPT ![w].todo = @ \ {f}]
          \/ window' = [window EXCEPT ![w].todo = @ \ {f}, ![w].pc = "apply",
                                      ![w].file = f, ![w].sig = disk[f]]
    BY <1>1 DEF StatFile
  <2>2. CASE window' = [window EXCEPT ![w].todo = @ \ {f}]
    BY <1>0, <2>2 DEF Window
  <2>3. CASE window' = [window EXCEPT ![w].todo = @ \ {f}, ![w].pc = "apply",
                                     ![w].file = f, ![w].sig = disk[f]]
    BY <1>0, <2>3 DEF Window
  <2>4. QED
    BY <2>1, <2>2, <2>3
<1>2. CASE ApplyFile(w)
  BY <1>0, <1>2 DEF ApplyFile, Window
<1>3. CASE OverCapScan(w)
  <2>1. \/ window' = [window EXCEPT ![w].pc = "lost", ![w].lost = TRUE]
        \/ window' = Moved(w, "read")
    BY <1>3 DEF OverCapScan
  <2>2. CASE window' = [window EXCEPT ![w].pc = "lost", ![w].lost = TRUE]
    BY <1>0, <2>2 DEF Window
  <2>3. CASE window' = Moved(w, "read")
    BY <2>3, MovedEffect DEF WindowPCs
  <2>4. QED
    BY <2>1, <2>2, <2>3
<1>4. CASE ProcessDeletes(w) \/ EndBatch(w) \/ WindowRead(w) \/ WindowMerge(w)
             \/ WindowFinishScan(w) \/ WindowWinner(w) \/ RequeueLost(w) \/ ClearSlot(w)
             \/ Panic(w)
  <2>1. \E pc \in WindowPCs : window' = Moved(w, pc)
    BY <1>4, WinnerArmsNothing
       DEF ProcessDeletes, EndBatch, WindowRead, WindowMerge, WindowFinishScan, RequeueLost,
           ClearSlot, Panic, WindowPCs
  <2>2. QED
    BY <2>1, MovedEffect
<1>5. QED
  BY <1>1, <1>2, <1>3, <1>4

\* A window drains alone, and never for nothing.
LEMMA DrainKeepsWork ==
  ASSUME TypeOK, SlotInv, WorkInv, NEW w \in Windows, DrainChanges(w) \/ DrainDeletes(w)
  PROVE  WorkInv'
<1>0. window \in [Windows -> Window] /\ panics' = panics
  BY DEF TypeOK, DrainChanges, DrainDeletes, counters
<1>1. \A v \in Windows : v # w => window[v].pc = "idle" /\ window'[v] = window[v]
  <2>1. \A v \in Windows : v # w => window[v].pc = "idle"
    BY DEF SlotInv, DrainChanges, DrainDeletes
  <2>2. Solo(w)
    BY WindowSolo DEF DrainChanges, DrainDeletes, FinalCheck, RecoverPanic, WindowStep
  <2>3. QED
    BY <2>1, <2>2 DEF Solo
<1>2. ASSUME NEW v \in Windows, v # w PROVE WorkOK(v)'
  BY <1>0, <1>1, <1>2 DEF WorkInv, WorkOK, Carrying
<1>3. WorkOK(w)' /\ window'[w].pc # "idle"
  <2>1. CASE DrainChanges(w)
    <3>1. window[w].pc = "sleep" /\ deleted' = deleted /\ ~window[w].lost /\ Queued
      BY <2>1 DEF DrainChanges, WorkInv, WorkOK
    <3>2. /\ window'[w].pc = "drain" /\ window'[w].changes = pending
          /\ window'[w].lost = window[w].lost /\ window'[w].retried = window[w].retried
      BY <1>0, <2>1 DEF DrainChanges, Window
    <3>3. QED
      BY <1>0, <3>1, <3>2 DEF WorkInv, WorkOK, Carrying, Queued
  <2>2. CASE DrainDeletes(w)
    <3>1. /\ window[w].pc = "drain" /\ ~window[w].lost
          /\ window[w].changes # {} \/ deleted # {}
      BY <2>2 DEF DrainDeletes, WorkInv, WorkOK
    <3>2. /\ window[w].changes # {} \/ ResolveWatchedDeletes(window[w].changes, deleted) # {}
      BY <3>1 DEF ResolveWatchedDeletes
    <3>3. /\ window'[w].pc = "batch" /\ window'[w].changes = window[w].changes
          /\ window'[w].deletes = ResolveWatchedDeletes(window[w].changes, deleted)
          /\ window'[w].lost = window[w].lost /\ window'[w].retried = window[w].retried
      BY <1>0, <2>2, <3>2 DEF DrainDeletes, Window
    <3>4. QED
      BY <1>0, <3>1, <3>2, <3>3 DEF WorkInv, WorkOK, Carrying
  <2>3. QED
    BY <2>1, <2>2
<1>4. QED
  BY <1>2, <1>3 DEF WorkInv

\* A window at work loses nothing; with one panic at most, a retry never panics.
LEMMA BatchKeepsWork ==
  ASSUME MaxPanics <= 1, TypeOK, SlotInv, WorkInv, NEW w \in Windows,
         \/ ProcessDeletes(w) \/ StatFile(w) \/ ApplyFile(w) \/ EndBatch(w) \/ OverCapScan(w)
         \/ WindowRead(w) \/ WindowMerge(w) \/ WindowFinishScan(w) \/ WindowWinner(w)
         \/ RequeueLost(w) \/ ClearSlot(w) \/ Panic(w)
  PROVE  WorkInv'
<1>1. window[w].pc \notin {"check", "requeue"}
  BY DEF ProcessDeletes, StatFile, ApplyFile, EndBatch, OverCapScan, WindowRead, WindowMerge,
         WindowFinishScan, WindowWinner, RequeueLost, ClearSlot, Panic
<1>2. Solo(w)
  BY <1>1, WindowSolo DEF FinalCheck, RecoverPanic, WindowStep
<1>3. pending \subseteq pending' /\ deleted \subseteq deleted'
  BY DEF ProcessDeletes, StatFile, ApplyFile, EndBatch, OverCapScan, WindowRead, WindowMerge,
         WindowFinishScan, WindowWinner, RequeueLost, ClearSlot, Panic, queues
<1>4. panics # 0 => panics' # 0
  <2>1. panics' = panics \/ panics' = panics + 1
    BY DEF ProcessDeletes, StatFile, ApplyFile, EndBatch, OverCapScan, WindowRead, WindowMerge,
           WindowFinishScan, WindowWinner, RequeueLost, ClearSlot, Panic, counters
  <2>2. panics \in Nat
    BY DEF TypeOK
  <2>3. QED
    BY <2>1, <2>2
<1>5. Queued => Queued'
  BY <1>3 DEF Queued
<1>6. \A v \in Windows : v # w => WorkOK(v)'
  BY <1>2, <1>3, <1>4, <1>5, OthersWorkOn DEF Solo, WorkInv
<1>7. WorkOK(w)' /\ window'[w].pc # "idle"
  <2>0. /\ WorkOK(w) /\ window'[w].changes = window[w].changes
        /\ window'[w].deletes = window[w].deletes /\ window'[w].retried = window[w].retried
        /\ window'[w].lost => window[w].lost \/ window'[w].pc = "lost"
    BY BatchKept DEF WorkInv
  <2>1. CASE Panic(w)
    <3>1. /\ window[w].pc \in {"batch", "stat", "apply", "read", "merge"}
          /\ panics < MaxPanics /\ panics' = panics + 1 /\ panics \in Nat
      BY <2>1 DEF Panic, TypeOK
    <3>2. panics = 0 /\ panics' # 0
      BY <3>1, Bounds
    <3>3. window'[w].pc = "requeue"
      BY <2>1, WindowTarget
    <3>4. QED
      BY <2>0, <3>1, <3>2, <3>3 DEF WorkOK, Carrying
  <2>2. CASE RequeueLost(w)
    <3>1. window[w].pc = "lost" /\ window'[w].pc = "clear"
      BY <2>2, WindowTarget DEF RequeueLost
    <3>2. Queued'
      BY <2>0, <2>2, <3>1 DEF RequeueLost, WorkOK, Carrying, Queued
    <3>3. QED
      BY <1>4, <2>0, <3>1, <3>2 DEF WorkOK, Carrying
  <2>3. CASE ClearSlot(w)
    <3>1. window[w].pc = "clear" /\ window'[w].pc = "check"
      BY <2>3, WindowTarget DEF ClearSlot
    <3>2. QED
      BY <1>4, <1>5, <2>0, <3>1 DEF WorkOK, Carrying
  <2>4. CASE EndBatch(w) \/ WindowWinner(w)
    <3>1. window[w].pc \in {"stat", "winner"} /\ window'[w].pc = "clear"
      BY <2>4, WindowTarget DEF EndBatch, WindowWinner
    <3>2. QED
      BY <1>4, <2>0, <3>1 DEF WorkOK, Carrying
  <2>5. CASE ProcessDeletes(w) \/ StatFile(w) \/ ApplyFile(w) \/ OverCapScan(w)
               \/ WindowRead(w) \/ WindowMerge(w) \/ WindowFinishScan(w)
    <3>1. window[w].pc \in {"batch", "stat", "apply", "read", "merge", "finish"}
      BY <2>5 DEF ProcessDeletes, StatFile, ApplyFile, OverCapScan, WindowRead, WindowMerge,
                  WindowFinishScan
    <3>2. window'[w].pc \in {"stat", "apply", "lost", "read", "merge", "finish", "winner"}
      BY <2>5, WindowTarget
    <3>3. QED
      BY <1>4, <2>0, <3>1, <3>2 DEF WorkOK, Carrying
  <2>6. QED
    BY <2>1, <2>2, <2>3, <2>4, <2>5
<1>8. QED
  BY <1>6, <1>7 DEF WorkInv

\* The last look of a window leaves the queues to somebody: to the window it arms, to the
\* live window of the slot, or to the scan the flag was lost to.
LEMMA FinalCheckKeepsWork ==
  ASSUME TypeOK, SlotInv, OneScan, Holder, WorkInv, NEW w \in Windows, FinalCheck(w)
  PROVE  WorkInv'
<1> DEFINE tasks == [window EXCEPT ![w] = Resting]
<1>0. /\ window \in [Windows -> Window] /\ tasks \in [Windows -> Window]
      /\ tasks[w] = Resting /\ \A v \in Windows : v # w => tasks[v] = window[v]
  BY RestedType DEF TypeOK
<1>1. /\ window[w].pc = "check" /\ slot # w
      /\ UNCHANGED <<pending, deleted, scanning, scan, panics>>
  BY DEF FinalCheck, SlotInv, queues, scanData, counters
<1>2. \/ Arm(tasks) /\ Queued'
      \/ window' = tasks /\ (Queued => window[w].lost /\ scanning)
  <2>1. CASE window[w].lost
    <3>1. Queued
      BY <1>1, <2>1 DEF WorkInv, WorkOK
    <3>2. QED
      BY <1>1, <2>1, <3>1 DEF FinalCheck, Queued
  <2>2. CASE ~window[w].lost
    BY <1>1, <2>2 DEF FinalCheck, ArmIfQueued, Queued
  <2>3. QED
    BY <2>1, <2>2
<1>3. SlotLive => tasks[slot] = window[slot]
  BY <1>0, <1>1 DEF SlotLive, TypeOK
<1> HIDE DEF tasks
<1>4. CASE Arm(tasks) /\ Queued'
  BY <1>0, <1>1, <1>3, <1>4, ArmKeepsWork DEF WorkInv
<1>5. CASE window' = tasks /\ (Queued => window[w].lost /\ scanning)
  <2>1. \A v \in Windows : WorkOK(v)'
    BY <1>0, <1>1, <1>5, OthersWorkOn, RestedWork DEF WorkInv, Queued
  <2>2. Queued' => Queued
    BY <1>1 DEF Queued
  <2>3. ASSUME Queued PROVE scan'.pc # "idle" \/ scan'.dropped
                              \/ \E v \in Windows : window'[v].pc # "idle"
    <3>1. CASE OtherScan \/ scan.dropped
      BY <1>1, <3>1 DEF OtherScan
    <3>2. ASSUME NEW v \in Windows, Scans(v) PROVE window'[v].pc # "idle"
      BY <1>0, <1>1, <1>5, <3>2 DEF Scans
    <3>3. QED
      BY <1>5, <2>3, <3>1, <3>2 DEF Holder
  <2>4. QED
    BY <2>1, <2>2, <2>3 DEF WorkInv
<1>6. QED
  BY <1>2, <1>4, <1>5

\* A panicked batch puts its events back and leaves them to a retry.
LEMMA RecoverKeepsWork ==
  ASSUME TypeOK, SlotInv, WorkInv, NEW w \in Windows, RecoverPanic(w)
  PROVE  WorkInv'
<1> DEFINE tasks == [window EXCEPT ![w] = Resting]
<1>0. /\ tasks \in [Windows -> Window] /\ tasks[w] = Resting
      /\ \A v \in Windows : v # w => tasks[v] = window[v]
  BY RestedType DEF TypeOK
<1>1. /\ window[w].pc = "requeue" /\ slot = w /\ ~window[w].retried /\ panics # 0
      /\ window[w].changes # {} \/ window[w].deletes # {}
      /\ panics' = panics
  BY DEF RecoverPanic, SlotInv, WorkInv, WorkOK, Carrying, counters
<1>2. Spawn(tasks, TRUE) /\ Queued' /\ pending \subseteq pending' /\ deleted \subseteq deleted'
  <2>1. SlotLive
    BY <1>1, Bounds DEF SlotLive
  <2>2. Spawn(tasks, TRUE)
    BY <1>1, <2>1 DEF RecoverPanic
  <2>3. QED
    BY <1>1, <2>2 DEF RecoverPanic, Queued
<1> HIDE DEF tasks
<1>3. PICK s \in Windows : /\ window'[s] = [Resting EXCEPT !.pc = "sleep", !.retried = TRUE]
                           /\ \A v \in Windows : v # s => window'[v] = tasks[v]
  BY <1>0, <1>2, SpawnEffect
<1>4. WorkOK(s)'
  BY <1>1, <1>2, <1>3, SpawnedWork
<1>5. \A v \in Windows : v # s => WorkOK(v)'
  <2>1. SUFFICES ASSUME NEW v \in Windows, v # s PROVE WorkOK(v)'
    OBVIOUS
  <2>2. window'[v] = Resting \/ window'[v] = window[v]
    BY <1>0, <1>3, <2>1
  <2>3. Queued => Queued'
    BY <1>2 
  <2>4. QED
    BY <1>1, <1>2, <2>2, <2>3, OthersWorkOn, RestedWork DEF WorkInv
<1>6. window'[s].pc # "idle"
  BY <1>3 DEF Resting
<1>7. QED
  BY <1>4, <1>5, <1>6 DEF WorkInv

\* A client's report arms a window, or finds one.
LEMMA EventKeepsWork ==
  ASSUME TypeOK, SlotInv, WorkInv, NEW f \in Files, ExternalWrite(f) \/ ExternalDelete(f)
  PROVE  WorkInv'
<1>1. /\ Arm(window) /\ Queued' /\ deleted \subseteq deleted'
      /\ panics' = panics
  BY DEF ExternalWrite, ExternalDelete, Queued
<1>2. QED
  BY <1>1, ArmKeepsWork DEF WorkInv, TypeOK

\* A scan that ends in order arms a window for what a loser put back; one that is dropped
\* is remembered.
LEMMA ScanKeepsWork ==
  ASSUME TypeOK, SlotInv, Holder, WorkInv,
         ScanStep \/ StartScan \/ ScanGivesUp \/ DropScan \/ DropFinishing
  PROVE  WorkInv'
<1>1. CASE ScanWinner
  <2>1. /\ ArmIfQueued(window) /\ UNCHANGED <<pending, deleted, panics>>
    BY <1>1 DEF ScanWinner, queues, counters
  <2>2. CASE Queued
    <3>1. Arm(window) /\ Queued'
      BY <2>1, <2>2 DEF ArmIfQueued, Queued
    <3>2. QED
      BY <2>1, <3>1, ArmKeepsWork DEF WorkInv, TypeOK
  <2>3. CASE ~Queued
    <3>1. window' = window /\ ~Queued'
      BY <2>1, <2>3 DEF ArmIfQueued, Queued
    <3>2. QED
      BY <2>1, <2>3, <3>1, OthersWorkOn DEF WorkInv
  <2>4. QED
    BY <2>2, <2>3
<1>2. CASE (ScanStep /\ ~ScanWinner) \/ StartScan \/ ScanGivesUp \/ DropScan \/ DropFinishing
  <2>1. window' = window /\ UNCHANGED <<pending, deleted, panics>>
    BY <1>2, ScanKeepsWindows
       DEF ScanStep, ScanRead, ScanMerge, FinishScan, ReleaseDropped, StartScan, ScanGivesUp,
           DropScan, DropFinishing, queues, counters
  <2>2. scan'.pc # "idle" \/ scan'.dropped
    BY <1>2 DEF ScanStep, ScanRead, ScanMerge, FinishScan, ReleaseDropped, StartScan, ScanGivesUp,
                DropScan, DropFinishing, TypeOK, NoScan
  <2>3. QED
    BY <2>1, <2>2, OthersWorkOn DEF WorkInv, Queued
<1>3. QED
  BY <1>1, <1>2

\* Every step leaves the queues to somebody.
LEMMA NextWork ==
  ASSUME MaxPanics <= 1, TypeOK, SlotInv, OneScan, Holder, WorkInv, [Next]_vars
  PROVE  WorkInv'
<1>1. CASE UNCHANGED vars
  BY <1>1 DEF vars, WorkInv, WorkOK, Queued
<1>2. ASSUME NEW w \in Windows, WindowStep(w) \/ Panic(w) PROVE WorkInv'
  BY <1>2, DrainKeepsWork, BatchKeepsWork, FinalCheckKeepsWork, RecoverKeepsWork DEF WindowStep
<1>3. QED
  BY <1>1, <1>2, EventKeepsWork, ScanKeepsWork DEF Next, Environment

\* With one panic at most, whatever the number of files, windows, events and scans, an event
\* is never left in the queues with nobody to drain it, unless a scan was dropped: the slot
\* emptied before the last look, the requeue of a loser and the look of the winner after it
\* has released the flag leave no gap.
THEOREM NothingStrandedHolds ==
  ASSUME MaxPanics <= 1 PROVE Spec => []NothingStranded
<1>1. Init => OneScan /\ Holder /\ WorkInv
  BY DEF Init, OneScan, Holder, OtherScan, Scans, Resting, NoScan, WorkInv, WorkOK, Queued,
         Carrying
<1>2. TypeOK /\ SlotInv /\ OneScan /\ Holder /\ [Next]_vars => OneScan' /\ Holder'
  BY NextFlag
<1>3. TypeOK /\ SlotInv /\ OneScan /\ Holder /\ WorkInv /\ [Next]_vars => WorkInv'
  BY NextWork
<1>4. WorkInv => NothingStranded
  BY DEF WorkInv, NothingStranded, Settled, Queued
<1>5. QED
  BY <1>1, <1>2, <1>3, <1>4, TypeCorrect, SlotCorrect, PTL DEF Spec

-----------------------------------------------------------------------------
(* The index follows the disk                                              *)

\* A window has taken f and will still index it.
WillIndex(t, f) ==
  \/ t.pc \in {"drain", "batch", "read", "merge", "lost", "requeue"} /\ f \in t.changes
  \/ t.pc = "stat" /\ f \in t.todo
  \/ t.pc = "apply" /\ (f \in t.todo \/ f = t.file)

\* What a window holds of f.  A deletion it holds of a file that exists again is older than
\* an event in the queue; what a scan has read is what is on disk, or there is such an event;
\* and what is left to do is a part of the batch, which goes back as a whole.
Holds(t, f) ==
  /\ t.pc = "drain" /\ f \in deleted /\ disk[f] # 0 => f \in t.changes \/ lastScan[f] # disk[f]
  /\ t.pc \in {"batch", "stat", "apply", "read", "merge", "lost", "requeue"} /\ f \in t.deletes /\ disk[f] # 0
       => f \in pending
  /\ t.pc = "batch" /\ f \in t.deletes /\ disk[f] # 0 => lastScan[f] # disk[f]
  /\ t.pc = "merge" /\ disk[f] # 0 => found[f] = disk[f] \/ (f \in pending /\ sigs[f] # disk[f])
  /\ t.pc = "merge" => found[f] <= events + 1
  /\ t.pc = "batch" => (f \in t.todo <=> f \in t.changes)
  /\ t.pc \in {"stat", "apply"} /\ f \in t.todo => f \in t.changes
  /\ t.pc = "apply" /\ f = t.file => f \in t.changes
  /\ t.sig <= events + 1

\* A file that exists is indexed from its content, or an event for it is queued or in the
\* batch of a window.  A signature or a fingerprint of its content says it is indexed.
FreshWith(t, f) ==
  /\ disk[f] <= events + 1 /\ sigs[f] <= events + 1 /\ lastScan[f] <= events + 1
  /\ disk[f] # 0 /\ index[f] # disk[f] => f \in pending \/ WillIndex(t, f)
  /\ disk[f] # 0 /\ disk[f] = sigs[f] => index[f] = disk[f]
  /\ disk[f] # 0 /\ disk[f] = lastScan[f] => index[f] = disk[f]
  /\ disk[f] # 0 /\ f \in deleted => f \in pending \/ (t.pc = "drain" /\ f \in t.changes)
  /\ Holds(t, f)

\* The window of the slot is the one there is to ask; the others hold nothing.
Working(w) == window[w].pc \notin {"idle", "check"}
Fresh(f) ==
  /\ \A w \in Windows : window[w].sig <= events + 1
  /\ \A w \in Windows : Working(w) => FreshWith(window[w], f)
  /\ (\A w \in Windows : ~Working(w)) => FreshWith(Resting, f)

\* As long as no scan but those of the windows has run.
FreshInv == scans = 0 => scan = NoScan /\ \A f \in Files : Fresh(f)

\* At most one window works.
LEMMA OneWorks ==
  ASSUME SlotInv, NEW w \in Windows, Working(w), NEW v \in Windows, v # w
  PROVE  ~Working(v)
BY DEF SlotInv, Working

\* A step of the working window that leaves it working, or at rest, is about its own batch.
LEMMA WorkerFresh ==
  ASSUME SlotInv, NEW w \in Windows, Working(w), Solo(w), NEW f \in Files, Fresh(f), events' = events,
         window'[w].sig <= events + 1,
         Working(w)' => FreshWith(window[w], f)',
         ~Working(w)' => FreshWith(Resting, f)'
  PROVE  Fresh(f)'
<1>1. \A v \in Windows : v # w => window'[v] = window[v] /\ ~Working(v)
  BY OneWorks DEF Solo
<1>2. \A v \in Windows : v # w => ~Working(v)'
  BY <1>1 DEF Working
<1>3. \A v \in Windows : window'[v].sig <= events' + 1
  BY <1>1 DEF Fresh
<1>4. (\A v \in Windows : ~Working(v)') => FreshWith(Resting, f)'
  OBVIOUS
<1>5. \A v \in Windows : Working(v)' => v = w
  BY <1>2
<1> QED
  BY <1>3, <1>4, <1>5 DEF Fresh

\* The two drains.
LEMMA DrainFresh ==
  ASSUME TypeOK, SlotInv, NEW w \in Windows, NEW f \in Files, Fresh(f), DrainChanges(w) \/ DrainDeletes(w)
  PROVE  Fresh(f)'
<1>0. window \in [Windows -> Window] /\ Working(w) /\ FreshWith(window[w], f) /\ window[w].sig <= events + 1
  BY DEF TypeOK, Working, DrainChanges, DrainDeletes, Fresh
<1>1. Solo(w)
  BY WindowSolo DEF DrainChanges, DrainDeletes, FinalCheck, RecoverPanic, WindowStep
<1>2. UNCHANGED <<disk, index, sigs, lastScan, events>>
  BY DEF DrainChanges, DrainDeletes, indexed, scanData, counters
<1>3. CASE DrainChanges(w)
  <2>1. window[w].pc = "sleep" /\ pending' = {} /\ deleted' = deleted
    BY <1>3 DEF DrainChanges
  <2>2. /\ window'[w].pc = "drain" /\ window'[w].changes = pending /\ window'[w].sig = window[w].sig
    BY <1>0, <1>3 DEF DrainChanges, Window
  <2>3. FreshWith(window[w], f)'
    BY <1>0, <1>2, <2>1, <2>2 DEF FreshWith, Holds, WillIndex
  <2> QED
    BY <1>0, <1>1, <1>2, <2>2, <2>3, WorkerFresh DEF Working
<1>4. CASE DrainDeletes(w)
  <2> DEFINE changes == window[w].changes
             deletes == ResolveWatchedDeletes(changes, deleted)
  <2>1. window[w].pc = "drain" /\ pending' = pending /\ deleted' = {}
    BY <1>4 DEF DrainDeletes, queues
  <2>2. CASE changes = {} /\ deletes = {}
    <3>1. window'[w] = Resting
      BY <1>0, <1>4, <2>2 DEF DrainDeletes
    <3>2. FreshWith(Resting, f)'
      BY <1>0, <1>2, <2>1, <2>2, Bounds DEF FreshWith, Holds, WillIndex, Resting, TypeOK
    <3>3. window'[w].sig <= events + 1 /\ ~Working(w)'
      BY <3>1 DEF Resting, Working, TypeOK
    <3> QED
      BY <1>0, <1>1, <1>2, <3>2, <3>3, WorkerFresh
  <2>3. CASE ~(changes = {} /\ deletes = {})
    <3>1. /\ window'[w].pc = "batch" /\ window'[w].changes = changes /\ window'[w].deletes = deletes
          /\ window'[w].todo = changes /\ window'[w].sig = window[w].sig
      BY <1>0, <1>4, <2>3 DEF DrainDeletes, Window
    <3>2. f \in deletes <=> f \in deleted /\ f \notin changes
      BY DEF ResolveWatchedDeletes
    <3> HIDE DEF changes, deletes
    <3>3. FreshWith(window[w], f)'
      BY <1>0, <1>2, <2>1, <3>1, <3>2 DEF FreshWith, Holds, WillIndex, changes
    <3> QED
      BY <1>0, <1>1, <1>2, <3>1, <3>3, WorkerFresh DEF Working
  <2> QED
    BY <2>2, <2>3
<1> QED
  BY <1>3, <1>4

\* Before its drain and after its batch a window holds nothing: one is as good as another.
Calm == {"idle", "sleep", "clear", "check"}

LEMMA CalmFresh ==
  ASSUME NEW t, NEW u, NEW f, t.pc \in Calm, u.pc \in Calm
  PROVE  /\ FreshWith(t, f) /\ u.sig <= events + 1 => FreshWith(u, f)
         /\ FreshWith(t, f)' /\ u.sig <= events' + 1 => FreshWith(u, f)'
BY DEF FreshWith, Holds, WillIndex, Calm

LEMMA AllCalm ==
  ASSUME NEW f \in Files, FreshWith(Resting, f)',
         \A v \in Windows : window'[v].pc \in Calm /\ window'[v].sig <= events' + 1
  PROVE  Fresh(f)'
<1>1. ASSUME NEW v \in Windows PROVE FreshWith(window[v], f)'
  <2>1. PICK u : u = window'[v]
    OBVIOUS
  <2>2. FreshWith(u, f)'
    BY <2>1, CalmFresh DEF Calm, Resting
  <2> QED
    BY <2>1, <2>2 DEF FreshWith, Holds, WillIndex
<1> QED
  BY <1>1 DEF Fresh

\* A window that has just been spawned is calm.
LEMMA SpawnedCalm ==
  ASSUME NEW tasks, NEW retried \in BOOLEAN, NEW s \in Windows,
         window'[s] = [Resting EXCEPT !.pc = "sleep", !.retried = retried],
         \A v \in Windows : v # s => window'[v] = tasks[v],
         \A v \in Windows : tasks[v].pc \in Calm /\ tasks[v].sig <= events' + 1,
         events' \in Nat
  PROVE  \A v \in Windows : window'[v].pc \in Calm /\ window'[v].sig <= events' + 1
<1>1. window'[s].pc = "sleep" /\ window'[s].sig = 0
  BY DEF Resting
<1>2. 0 <= events' + 1
  OBVIOUS
<1> QED
  BY <1>1, <1>2 DEF Calm

\* The batch file by file.
LEMMA FilesFresh ==
  ASSUME TypeOK, SlotInv, NEW w \in Windows, \A g \in Files : Fresh(g), NEW f \in Files,
         ProcessDeletes(w) \/ StatFile(w) \/ ApplyFile(w) \/ EndBatch(w)
  PROVE  Fresh(f)'
<1>0. window \in [Windows -> Window] /\ Working(w) /\ FreshWith(window[w], f) /\ window[w].sig <= events + 1
  BY DEF TypeOK, Working, ProcessDeletes, StatFile, ApplyFile, EndBatch, Fresh
<1>1. Solo(w)
  BY WindowSolo DEF ProcessDeletes, StatFile, ApplyFile, EndBatch, FinalCheck, RecoverPanic, WindowStep
<1>2. UNCHANGED <<disk, pending, deleted, lastScan, events>>
  BY DEF ProcessDeletes, StatFile, ApplyFile, EndBatch, scanData, queues, counters
<1>3. disk[f] \in Nat /\ events \in Nat /\ index \in [Files -> Stamps] /\ sigs \in [Files -> Stamps]
  BY DEF TypeOK, Disk, Stamps
<1>4. CASE ProcessDeletes(w)
  <2>1. /\ window[w].pc = "batch"
        /\ index'[f] = IF f \in window[w].deletes THEN 0 ELSE index[f]
        /\ sigs'[f] = IF f \in window[w].deletes THEN 0 ELSE sigs[f]
    BY <1>4 DEF ProcessDeletes
  <2>2. PICK t \in Window : t = window[w]
    BY <1>0
  <2>3. window'[w].pc = "stat" /\ window'[w].changes = t.changes /\ window'[w].deletes = t.deletes
        /\ window'[w].sig = t.sig /\ window'[w].todo = t.todo
    BY <1>0, <1>4, <2>2 DEF ProcessDeletes, Moved, Window
  <2>4. f \in t.changes <=> f \in t.todo
    BY <1>0, <2>1, <2>2 DEF FreshWith, Holds
  <2>5. FreshWith(window[w], f)'
    BY <1>0, <1>2, <1>3, <2>1, <2>2, <2>3, <2>4 DEF FreshWith, Holds, WillIndex
  <2> QED
    BY <1>0, <1>1, <1>2, <2>2, <2>3, <2>5, WorkerFresh DEF Working
<1>5. CASE StatFile(w)
  <2>1. PICK g \in window[w].todo :
          window' =
            IF disk[g] # 0 /\ sigs[g] = disk[g]
            THEN [window EXCEPT ![w].todo = @ \ {g}]
            ELSE [window EXCEPT ![w].todo = @ \ {g}, ![w].pc = "apply",
                                ![w].file = g, ![w].sig = disk[g]]
    BY <1>5 DEF StatFile
  <2>2. window[w].pc = "stat" /\ index' = index /\ sigs' = sigs
    BY <1>5 DEF StatFile, indexed
  <2>3. PICK t \in Window : t = window[w]
    BY <1>0
  <2>4. disk[g] <= events + 1
    <3>1. g \in Files /\ Working(w)
      BY <1>0, <2>1 DEF Window
    <3> QED
      BY <3>1 DEF Fresh, FreshWith
  <2>5. CASE disk[g] # 0 /\ sigs[g] = disk[g]
    <3>1. /\ window'[w].pc = "stat" /\ window'[w].changes = t.changes /\ window'[w].deletes = t.deletes
          /\ window'[w].sig = t.sig /\ window'[w].todo = t.todo \ {g}
      BY <1>0, <2>1, <2>2, <2>3, <2>5 DEF Window
    <3>2. FreshWith(window[w], f)'
      BY <1>0, <1>2, <1>3, <2>2, <2>3, <2>5, <3>1 DEF FreshWith, Holds, WillIndex
    <3> QED
      BY <1>0, <1>1, <1>2, <2>3, <3>1, <3>2, WorkerFresh DEF Working
  <2>6. CASE ~(disk[g] # 0 /\ sigs[g] = disk[g])
    <3>1. /\ window'[w].pc = "apply" /\ window'[w].changes = t.changes /\ window'[w].deletes = t.deletes
          /\ window'[w].sig = disk[g] /\ window'[w].file = g /\ window'[w].todo = t.todo \ {g}
      BY <1>0, <2>1, <2>3, <2>6 DEF Window
    <3>2. FreshWith(window[w], f)'
      BY <1>0, <1>2, <1>3, <2>2, <2>3, <2>4, <3>1, <2>1 DEF FreshWith, Holds, WillIndex
    <3> QED
      BY <1>0, <1>1, <1>2, <2>4, <3>1, <3>2, WorkerFresh DEF Working
  <2> QED
    BY <2>5, <2>6
<1>6. CASE ApplyFile(w)
  <2>1. PICK t \in Window : t = window[w]
    BY <1>0
  <2>2. /\ t.pc = "apply"
        /\ index'[f] = IF f = t.file /\ disk[f] # 0 THEN disk[f] ELSE index[f]
        /\ sigs'[f] = IF f = t.file /\ disk[f] # 0 /\ t.sig # 0 THEN t.sig ELSE sigs[f]
    BY <1>3, <1>6, <2>1 DEF ApplyFile
  <2>3. /\ window'[w].pc = "stat" /\ window'[w].changes = t.changes /\ window'[w].deletes = t.deletes
        /\ window'[w].sig = 0 /\ window'[w].todo = t.todo
    BY <1>0, <1>6, <2>1 DEF ApplyFile, Window
  <2>4. FreshWith(window[w], f)'
    BY <1>0, <1>2, <1>3, <2>1, <2>2, <2>3 DEF FreshWith, Holds, WillIndex
  <2> QED
    BY <1>0, <1>1, <1>2, <1>3, <2>3, <2>4, WorkerFresh DEF Working
<1>7. CASE EndBatch(w)
  <2>1. window[w].pc = "stat" /\ window[w].todo = {} /\ index' = index /\ sigs' = sigs
    BY <1>7 DEF EndBatch, indexed
  <2>2. window'[w].pc = "clear" /\ window'[w].sig = window[w].sig
    BY <1>0, <1>7 DEF EndBatch, Moved, Window
  <2>3. FreshWith(window[w], f)'
    BY <1>0, <1>2, <2>1, <2>2 DEF FreshWith, Holds, WillIndex
  <2> QED
    BY <1>0, <1>1, <1>2, <2>2, <2>3, WorkerFresh DEF Working
<1> QED
  BY <1>4, <1>5, <1>6, <1>7

\* The batch as a full scan.
LEMMA ScanFresh ==
  ASSUME TypeOK, SlotInv, NEW w \in Windows, \A g \in Files : Fresh(g), NEW f \in Files,
         OverCapScan(w) \/ WindowRead(w) \/ WindowMerge(w) \/ WindowFinishScan(w)
  PROVE  Fresh(f)'
<1>0. window \in [Windows -> Window] /\ Working(w) /\ FreshWith(window[w], f) /\ window[w].sig <= events + 1
  BY DEF TypeOK, Working, OverCapScan, WindowRead, WindowMerge, WindowFinishScan, Fresh
<1>1. Solo(w)
  BY WindowSolo DEF OverCapScan, WindowRead, WindowMerge, WindowFinishScan, FinalCheck, RecoverPanic, WindowStep
<1>2. UNCHANGED <<disk, sigs, pending, deleted, events>>
  BY DEF OverCapScan, WindowRead, WindowMerge, WindowFinishScan, indexed, queues, counters
<1>3. /\ disk[f] \in Nat /\ events \in Nat /\ index \in [Files -> Stamps] /\ lastScan \in [Files -> Stamps]
      /\ found \in [Files -> Stamps] /\ disk \in [Files -> Stamps]
  BY DEF TypeOK, Disk, Stamps
<1>4. PICK t \in Window : t = window[w]
  BY <1>0
<1>5. /\ \A pc \in WindowPCs : /\ Moved(w, pc)[w].pc = pc
                               /\ Moved(w, pc)[w].changes = t.changes /\ Moved(w, pc)[w].deletes = t.deletes
                               /\ Moved(w, pc)[w].sig = t.sig
  BY <1>0, <1>4 DEF Moved, Window
<1>6. CASE OverCapScan(w)
  <2>1. t.pc = "batch" /\ UNCHANGED <<index, lastScan, found>>
    BY <1>4, <1>6 DEF OverCapScan, indexed
  <2>2. /\ window'[w].pc \in {"lost", "read"} /\ window'[w].changes = t.changes /\ window'[w].deletes = t.deletes
        /\ window'[w].sig = t.sig
    BY <1>0, <1>4, <1>5, <1>6 DEF OverCapScan, Window, WindowPCs
  <2>3. FreshWith(window[w], f)'
    BY <1>0, <1>2, <1>4, <2>1, <2>2 DEF FreshWith, Holds, WillIndex
  <2> QED
    BY <1>0, <1>1, <1>2, <1>4, <2>2, <2>3, WorkerFresh DEF Working
<1>7. CASE WindowRead(w)
  <2>1. t.pc = "read" /\ UNCHANGED <<index, lastScan>>
    BY <1>4, <1>7 DEF WindowRead, indexed
  <2>2. CASE CanSkip(TRUE)
    <3>1. /\ window'[w].pc = "finish" /\ window'[w].sig = t.sig /\ lastScan = disk
      BY <1>5, <1>7, <2>2 DEF WindowRead, CanSkip, WindowPCs
    <3>2. FreshWith(window[w], f)'
      BY <1>0, <1>2, <1>4, <2>1, <3>1 DEF FreshWith, Holds, WillIndex
    <3> QED
      BY <1>0, <1>1, <1>2, <1>4, <3>1, <3>2, WorkerFresh DEF Working
  <2>3. CASE ~CanSkip(TRUE)
    <3>1. /\ window'[w].pc = "merge" /\ window'[w].changes = t.changes /\ window'[w].deletes = t.deletes
          /\ window'[w].sig = t.sig /\ found' = disk
      BY <1>5, <1>7, <2>3 DEF WindowRead, ReadDisk, WindowPCs
    <3>2. FreshWith(window[w], f)'
      BY <1>0, <1>2, <1>4, <2>1, <3>1 DEF FreshWith, Holds, WillIndex
    <3> QED
      BY <1>0, <1>1, <1>2, <1>4, <3>1, <3>2, WorkerFresh DEF Working
  <2> QED
    BY <2>2, <2>3
<1>8. CASE WindowMerge(w)
  <2>1. t.pc = "merge" /\ window'[w].pc = "finish" /\ window'[w].sig = t.sig
    BY <1>4, <1>5, <1>8 DEF WindowMerge, WindowPCs
  <2>2. /\ index'[f] = IF found = Nothing THEN index[f] ELSE found[f]
        /\ lastScan'[f] = IF found = Nothing THEN lastScan[f] ELSE found[f]
        /\ found = Nothing => found[f] = 0
    BY <1>3, <1>8 DEF WindowMerge, MergeFound, Nothing
  <2>3. disk[f] # 0 => found[f] = disk[f] \/ (f \in pending /\ sigs[f] # disk[f])
    BY <1>0, <1>4, <2>1 DEF FreshWith, Holds
  <2>4. found[f] \in Nat /\ found[f] <= events + 1
    BY <1>0, <1>3, <1>4, <2>1 DEF FreshWith, Holds, Stamps
  <2>5. FreshWith(window[w], f)'
    BY <1>0, <1>2, <1>3, <1>4, <2>1, <2>2, <2>3, <2>4 DEF FreshWith, Holds, WillIndex
  <2> QED
    BY <1>0, <1>1, <1>2, <1>4, <2>1, <2>5, WorkerFresh DEF Working
<1>9. CASE WindowFinishScan(w)
  <2>1. t.pc = "finish" /\ window'[w].pc = "winner" /\ window'[w].sig = t.sig /\ UNCHANGED <<index, lastScan>>
    BY <1>4, <1>5, <1>9 DEF WindowFinishScan, WindowPCs, indexed
  <2>2. FreshWith(window[w], f)'
    BY <1>0, <1>2, <1>4, <2>1 DEF FreshWith, Holds, WillIndex
  <2> QED
    BY <1>0, <1>1, <1>2, <1>4, <2>1, <2>2, WorkerFresh DEF Working
<1> QED
  BY <1>6, <1>7, <1>8, <1>9

\* The end of a batch, in order or by a panic.
LEMMA EndFresh ==
  ASSUME TypeOK, SlotInv, NEW w \in Windows, NEW f \in Files, Fresh(f),
         WindowWinner(w) \/ RequeueLost(w) \/ ClearSlot(w) \/ Panic(w)
  PROVE  Fresh(f)'
<1>0. window \in [Windows -> Window] /\ Working(w) /\ FreshWith(window[w], f) /\ window[w].sig <= events + 1
  BY DEF TypeOK, Working, WindowWinner, RequeueLost, ClearSlot, Panic, Fresh
<1>1. Solo(w)
  BY WindowSolo DEF WindowWinner, RequeueLost, ClearSlot, Panic, FinalCheck, RecoverPanic, WindowStep
<1>2. UNCHANGED <<disk, index, sigs, lastScan, found, events>>
  BY DEF WindowWinner, RequeueLost, ClearSlot, Panic, indexed, scanData, counters
<1>3. PICK t \in Window : t = window[w]
  BY <1>0
<1>4. /\ \A pc \in WindowPCs : /\ Moved(w, pc)[w].pc = pc
                               /\ Moved(w, pc)[w].changes = t.changes /\ Moved(w, pc)[w].deletes = t.deletes
                               /\ Moved(w, pc)[w].sig = t.sig
  BY <1>0, <1>3 DEF Moved, Window
<1>5. CASE WindowWinner(w)
  <2>1. t.pc = "winner" /\ window'[w].pc = "clear" /\ window'[w].sig = t.sig /\ UNCHANGED <<pending, deleted>>
    BY <1>3, <1>4, <1>5, WinnerArmsNothing DEF WindowWinner, WindowPCs, queues
  <2>2. FreshWith(window[w], f)'
    BY <1>0, <1>2, <1>3, <2>1 DEF FreshWith, Holds, WillIndex
  <2> QED
    BY <1>0, <1>1, <1>2, <1>3, <2>1, <2>2, WorkerFresh DEF Working
<1>6. CASE RequeueLost(w)
  <2>1. /\ t.pc = "lost" /\ window'[w].pc = "clear" /\ window'[w].sig = t.sig
        /\ pending' = pending \cup t.changes /\ deleted' = deleted \cup t.deletes
    BY <1>3, <1>4, <1>6 DEF RequeueLost, WindowPCs
  <2>2. FreshWith(window[w], f)'
    BY <1>0, <1>2, <1>3, <2>1 DEF FreshWith, Holds, WillIndex
  <2> QED
    BY <1>0, <1>1, <1>2, <1>3, <2>1, <2>2, WorkerFresh DEF Working
<1>7. CASE ClearSlot(w)
  <2>1. /\ t.pc = "clear" /\ window'[w].pc = "check" /\ window'[w].sig = t.sig
        /\ UNCHANGED <<pending, deleted>>
    BY <1>3, <1>4, <1>7 DEF ClearSlot, WindowPCs, queues
  <2>2. FreshWith(Resting, f)'
    BY <1>0, <1>2, <1>3, <2>1, Bounds DEF FreshWith, Holds, WillIndex, Resting, TypeOK
  <2> QED
    BY <1>0, <1>1, <1>2, <1>3, <2>1, <2>2, WorkerFresh DEF Working
<1>8. CASE Panic(w)
  <2>1. /\ t.pc \in {"batch", "stat", "apply", "read", "merge"} /\ window'[w].pc = "requeue"
        /\ window'[w].changes = t.changes /\ window'[w].deletes = t.deletes /\ window'[w].sig = t.sig
        /\ UNCHANGED <<pending, deleted>>
    BY <1>3, <1>4, <1>8 DEF Panic, WindowPCs, queues
  <2>2. FreshWith(window[w], f)'
    BY <1>0, <1>2, <1>3, <2>1 DEF FreshWith, Holds, WillIndex
  <2> QED
    BY <1>0, <1>1, <1>2, <1>3, <2>1, <2>2, WorkerFresh DEF Working
<1> QED
  BY <1>5, <1>6, <1>7, <1>8

\* The last look of a window changes nothing but the windows.
LEMMA FinalCheckFresh ==
  ASSUME TypeOK, SlotInv, NEW w \in Windows, NEW f \in Files, Fresh(f), FinalCheck(w)
  PROVE  Fresh(f)'
<1> DEFINE tasks == [window EXCEPT ![w] = Resting]
<1>0. /\ window \in [Windows -> Window] /\ tasks \in [Windows -> Window]
      /\ tasks[w] = Resting /\ \A v \in Windows : v # w => tasks[v] = window[v]
  BY RestedType DEF TypeOK
<1>1. /\ window[w].pc = "check" /\ slot # w
      /\ UNCHANGED <<disk, index, sigs, lastScan, found, pending, deleted, events>>
      /\ \A v \in Windows : window[v].pc \in {"idle", "sleep", "check"}
  BY DEF FinalCheck, SlotInv, indexed, queues, scanData, counters
<1>2. FreshWith(Resting, f)
  <2>1. CASE \E v \in Windows : Working(v)
    <3>1. PICK v \in Windows : Working(v)
      BY <2>1
    <3>2. window[v].pc \in Calm /\ Resting.pc \in Calm /\ Resting.sig <= events + 1 /\ FreshWith(window[v], f)
      BY <1>1, <3>1 DEF Fresh, Calm, Resting, TypeOK
    <3> QED
      BY <3>2, CalmFresh
  <2> QED
    BY <2>1 DEF Fresh
<1>3. \A v \in Windows : window'[v].pc \in Calm /\ window'[v].sig <= events' + 1
  <2>1. \A v \in Windows : tasks[v].pc \in Calm /\ tasks[v].sig <= events + 1
    BY <1>0, <1>1 DEF Fresh, Calm, Resting, TypeOK
  <2>2. window' = tasks \/ Arm(tasks)
    BY DEF FinalCheck, ArmIfQueued
  <2> HIDE DEF tasks
  <2>3. CASE Arm(tasks) /\ window' # tasks
    <3>1. PICK s \in Windows : /\ window'[s] = [Resting EXCEPT !.pc = "sleep", !.retried = FALSE]
                               /\ \A v \in Windows : v # s => window'[v] = tasks[v]
      BY <1>0, <2>3, ArmEffect
    <3>2. events' \in Nat /\ \A v \in Windows : tasks[v].pc \in Calm /\ tasks[v].sig <= events' + 1
      BY <1>1, <2>1 DEF TypeOK
    <3> QED
      BY <3>1, <3>2, SpawnedCalm
  <2> QED
    BY <1>1, <2>1, <2>2, <2>3
<1>4. FreshWith(Resting, f)'
  BY <1>1, <1>2 DEF FreshWith, Holds, WillIndex, Resting
<1> QED
  BY <1>3, <1>4, AllCalm

\* The whole batch goes back to the queues, and a retry sleeps on it.
LEMMA RecoverFresh ==
  ASSUME TypeOK, SlotInv, NEW w \in Windows, NEW f \in Files, Fresh(f), RecoverPanic(w)
  PROVE  Fresh(f)'
<1> DEFINE tasks == [window EXCEPT ![w] = Resting]
<1>0. /\ window \in [Windows -> Window] /\ tasks \in [Windows -> Window]
      /\ tasks[w] = Resting /\ \A v \in Windows : v # w => tasks[v] = window[v]
  BY RestedType DEF TypeOK
<1>1. /\ window[w].pc = "requeue" /\ Working(w) /\ FreshWith(window[w], f)
      /\ UNCHANGED <<disk, index, sigs, lastScan, found, events>>
      /\ pending' = pending \cup window[w].changes /\ deleted' = deleted \cup window[w].deletes
  BY DEF RecoverPanic, Working, Fresh, indexed, scanData, counters
<1>2. \A v \in Windows : v # w => window[v].pc \in {"idle", "check"}
  BY <1>1, OneWorks DEF Working
<1>3. \A v \in Windows : window'[v].pc \in Calm /\ window'[v].sig <= events' + 1
  <2>1. \A v \in Windows : tasks[v].pc \in Calm /\ tasks[v].sig <= events + 1
    BY <1>0, <1>2 DEF Fresh, Calm, Resting, TypeOK
  <2>2. window' = tasks \/ Spawn(tasks, TRUE)
    BY DEF RecoverPanic
  <2> HIDE DEF tasks
  <2>3. CASE Spawn(tasks, TRUE)
    <3>1. PICK s \in Windows : /\ window'[s] = [Resting EXCEPT !.pc = "sleep", !.retried = TRUE]
                               /\ \A v \in Windows : v # s => window'[v] = tasks[v]
      BY <1>0, <2>3, SpawnEffect
    <3>2. events' \in Nat /\ \A v \in Windows : tasks[v].pc \in Calm /\ tasks[v].sig <= events' + 1
      BY <1>1, <2>1 DEF TypeOK
    <3> QED
      BY <3>1, <3>2, SpawnedCalm
  <2> QED
    BY <1>1, <2>1, <2>2, <2>3
<1>4. FreshWith(Resting, f)'
  BY <1>1 DEF FreshWith, Holds, WillIndex, Resting, TypeOK
<1> QED
  BY <1>3, <1>4, AllCalm

\* A client's report is of a content nobody has seen yet.
LEMMA EventFresh ==
  ASSUME TypeOK, SlotInv, NEW g \in Files, ExternalWrite(g) \/ ExternalDelete(g), NEW f \in Files, Fresh(f)
  PROVE  Fresh(f)'
<1>0. /\ window \in [Windows -> Window] /\ Arm(window) /\ events \in Nat /\ events' = events + 1
      /\ disk \in [Files -> Nat] /\ sigs \in [Files -> Nat] /\ lastScan \in [Files -> Nat] /\ found \in [Files -> Nat]
      /\ UNCHANGED <<index, sigs, lastScan, found>>
  BY DEF ExternalWrite, ExternalDelete, TypeOK, Disk, Stamps, indexed, scanData
<1>1. \/ disk'[f] = events + 2 /\ f \in pending'
      \/ disk'[f] = 0
      \/ disk'[f] = disk[f] /\ (f \in pending <=> f \in pending') /\ (f \in deleted <=> f \in deleted')
  BY <1>0 DEF ExternalWrite, ExternalDelete
<1>2. f \in pending => f \in pending'
  BY DEF ExternalWrite, ExternalDelete
<1>3. ASSUME NEW t, t.sig \in Nat, FreshWith(t, f) PROVE FreshWith(t, f)'
  BY <1>0, <1>1, <1>2, <1>3 DEF FreshWith, Holds, WillIndex
<1>4. \A v \in Windows : window[v].sig \in Nat /\ window[v].sig <= events' + 1
  BY <1>0 DEF Fresh, Window, Stamps
<1>5. CASE window' = window
  <2>1. ASSUME NEW v \in Windows, Working(v) PROVE FreshWith(window[v], f)'
    <3>1. PICK t : t = window[v]
      OBVIOUS
    <3>2. FreshWith(t, f)'
      BY <1>3, <1>4, <2>1, <3>1 DEF Fresh
    <3> QED
      BY <1>5, <3>1, <3>2 DEF FreshWith, Holds, WillIndex
  <2>2. (\A v \in Windows : ~Working(v)) => FreshWith(Resting, f)'
    BY <1>3 DEF Fresh, Resting
  <2> QED
    BY <1>4, <1>5, <2>1, <2>2 DEF Fresh, Working
<1>6. CASE window' # window
  <2>1. ~SlotLive /\ \E s \in Windows : /\ window'[s] = [Resting EXCEPT !.pc = "sleep", !.retried = FALSE]
                                         /\ \A v \in Windows : v # s => window'[v] = window[v]
    BY <1>0, <1>6, ArmEffect
  <2>2. \A v \in Windows : window[v].pc \in {"idle", "check"}
    BY <2>1, Bounds DEF SlotInv, SlotLive
  <2>3. \A v \in Windows : window'[v].pc \in Calm /\ window'[v].sig <= events' + 1
    <3>1. \A v \in Windows : window[v].pc \in Calm /\ window[v].sig <= events' + 1
      BY <1>4, <2>2 DEF Calm
    <3>2. events' \in Nat
      BY <1>0
    <3> QED
      BY <2>1, <3>1, <3>2, SpawnedCalm
  <2>4. FreshWith(Resting, f)'
    BY <1>3, <2>2 DEF Fresh, Resting, Working
  <2> QED
    BY <2>3, <2>4, AllCalm
<1> QED
  BY <1>5, <1>6

\* Every step keeps the index following the disk.
LEMMA NextFresh == TypeOK /\ SlotInv /\ FreshInv /\ [Next]_vars => FreshInv'
<1> SUFFICES ASSUME TypeOK, SlotInv, FreshInv, [Next]_vars, scans' = 0
             PROVE  scan' = NoScan /\ \A f \in Files : Fresh(f)'
  BY DEF FreshInv
<1>1. CASE UNCHANGED vars
  <2>1. scan = NoScan /\ \A f \in Files : Fresh(f)
    BY <1>1 DEF vars, FreshInv
  <2> QED
    BY <1>1, <2>1 DEF vars, Fresh, FreshWith, Holds, WillIndex, Working
<1>2. CASE StartScan
  BY <1>2 DEF StartScan, TypeOK
<1>3. ASSUME Next, ~StartScan PROVE scans = 0 /\ scan' = NoScan /\ \A f \in Files : Fresh(f)'
  <2>1. scans' = scans
    BY <1>3 DEF Next, Environment, ScanStep, WindowStep, ExternalWrite, ExternalDelete, Panic, ScanGivesUp,
       DropScan, DropFinishing, ScanRead, ScanMerge, FinishScan, ScanWinner, ReleaseDropped, counters,
       DrainChanges, DrainDeletes, ProcessDeletes, StatFile, ApplyFile, EndBatch, OverCapScan, WindowRead,
       WindowMerge, WindowFinishScan, WindowWinner, RequeueLost, ClearSlot, FinalCheck, RecoverPanic
  <2>2. scan = NoScan /\ \A f \in Files : Fresh(f)
    BY <2>1 DEF FreshInv
  <2>3. ~ScanStep /\ ~ScanGivesUp /\ ~DropScan /\ ~DropFinishing
    BY <2>2 DEF NoScan, ScanStep, ScanRead, ScanMerge, FinishScan, ScanWinner, ReleaseDropped, ScanGivesUp,
       DropScan, DropFinishing
  <2>4. CASE \E g \in Files : ExternalWrite(g) \/ ExternalDelete(g)
    BY <2>1, <2>2, <2>4, EventFresh DEF ExternalWrite, ExternalDelete, scanData
  <2>5. CASE \E w \in Windows : WindowStep(w) \/ Panic(w)
    <3>1. PICK w \in Windows : WindowStep(w) \/ Panic(w)
      BY <2>5
    <3>2. scan' = scan
      BY <3>1 DEF WindowStep, Panic, DrainChanges, DrainDeletes, ProcessDeletes, StatFile, ApplyFile, EndBatch,
         OverCapScan, WindowRead, WindowMerge, WindowFinishScan, WindowWinner, RequeueLost, ClearSlot, FinalCheck,
         RecoverPanic, scanData
    <3> QED
      BY <2>1, <2>2, <3>1, <3>2, DrainFresh, FilesFresh, ScanFresh, EndFresh, FinalCheckFresh, RecoverFresh
         DEF WindowStep
  <2> QED
    BY <1>3, <2>3, <2>4, <2>5 DEF Next, Environment
<1> QED
  BY <1>1, <1>2, <1>3

\* With one panic at most, and as long as no scan but those of the windows has run, a file
\* that exists is indexed from its present content once everything has settled: deletions
\* resolved against writes, requeued events, recorded signatures and fingerprints never hide
\* a write, whatever the number of files and of windows and the cap.
THEOREM PresentFilesIndexedHolds ==
  ASSUME MaxPanics <= 1 PROVE Spec => []PresentFilesIndexed
<1>1. Init => FreshInv
  <2>1. SUFFICES ASSUME Init PROVE scan = NoScan /\ \A f \in Files : Fresh(f)
    BY DEF FreshInv
  <2>2. /\ events = 0 /\ deleted = {} /\ index = disk /\ lastScan = disk
        /\ \A f \in Files : disk[f] \in {0, 1} /\ sigs[f] = 0
        /\ \A w \in Windows : window[w] = Resting
    BY <2>1 DEF Init, Nothing
  <2>3. \A f \in Files : FreshWith(Resting, f)
    BY <2>2 DEF FreshWith, Holds, WillIndex, Resting
  <2>4. \A f \in Files : Fresh(f)
    <3>1. \A w \in Windows : window[w].sig = 0 /\ ~Working(w)
      BY <2>2 DEF Working, Resting
    <3>2. 0 <= events + 1
      BY <2>2
    <3> QED
      BY <2>3, <3>1, <3>2 DEF Fresh
  <2> QED
    BY <2>1, <2>4 DEF Init
<1>2. TypeOK /\ SlotInv /\ FreshInv /\ [Next]_vars => FreshInv'
  BY NextFresh
<1>3. FreshInv /\ NothingStranded => PresentFilesIndexed
  <2>1. SUFFICES ASSUME FreshInv, NothingStranded, Settled, scans = 0, NEW f \in Files, disk[f] # 0
                 PROVE  index[f] = disk[f]
    BY DEF PresentFilesIndexed
  <2>2. FreshWith(Resting, f) /\ pending = {}
    BY <2>1 DEF FreshInv, Fresh, Settled, Working, NothingStranded, NoScan
  <2> QED
    BY <2>1, <2>2 DEF FreshWith, WillIndex, Resting
<1> QED
  BY <1>1, <1>2, <1>3, TypeCorrect, SlotCorrect, NothingStrandedHolds, PTL DEF Spec
=============================================================================
