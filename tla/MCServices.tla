----------------------------- MODULE MCServices -----------------------------
(* Finite instances of six services of the server, side by side in one      *)
(* run: the record of type uses, the scan against open documents, the      *)
(* store of documents, progress, edits of the workspace, and what asks for *)
(* a scan; and of the parse cache below them.  At this grain they share no *)
(* state but the disk: a behaviour is of one of them, and the others stay  *)
(* at their start.                                                         *)
EXTENDS TypeUses, Sequences, TLC

CONSTANTS Texts, Absent, MaxVersion, MaxScans, MaxSaves, Budget,
          MaxDocumentBytes, MaxOpenDocuments, MaxRetainedBytes,
          Startup, MaxChanges

\* Finitely many documents; the limits are numbers.
ASSUME LimitsAssumption ==
    /\ IsFiniteSet(Uris)
    /\ MaxDocumentBytes \in Nat /\ MaxOpenDocuments \in Nat /\ MaxRetainedBytes \in Nat

VARIABLES part,
          disk, doc, job, index, shown, tracked, scan, stamp, settings, clock, scans, saves,
          indexed, cut,
          documents, retained, work,
          stage, cancels, flagged, stream, sampler, closing, bar, opened, closed, driver,
          buffer, issued, inbox, known, publishes, fixable, fixAll, renaming, sent,
          config, root, roots, broken, ruleset, generation, ready, handshake, tasks, deferred, pass, lastScan,
          locSignature, baseGame, made, parked, publishedRules, ruleErrors, started, excused, crossed,
          source, history, ast, errors, process

Workspace == INSTANCE WorkspaceScan WITH Files <- Uris
Documents == INSTANCE DocumentStore WITH Sizes <- 0..(MaxDocumentBytes + 1), MaxEdits <- MaxVersion
Notices == INSTANCE Progress WITH Commands <- Uris, Drivers <- Threads
Edits == INSTANCE WorkspaceEdits WITH Files <- Uris, Editable <- Uris, DocumentChanges <- TRUE, documents <- known
Changes == INSTANCE Settings WITH Handlers <- Threads, RuleFiles <- Names, OpenRules <- {}, Roots <- Uris, NoRoot <- Absent
Cache == INSTANCE ParseCache WITH
    Batches <- {"b", "c"}, Bases <- {"v"}, Scans <- {"s"}, Contents <- {1, 2}, MaxStamp <- 4

otherScanVars == <<doc, job, index, shown, tracked, scan, stamp, settings, clock, scans, saves, indexed, cut>>
scanVars == <<disk, otherScanVars>>
storeVars == <<documents, retained, work>>
editVars == <<buffer, issued, inbox, known, publishes, fixable, fixAll, renaming, sent>>
progressVars == <<stage, cancels, flagged, stream, sampler, closing, bar, opened, closed, driver>>
settingsVars == <<config, root, roots, broken, ruleset, generation, ready, handshake, tasks, deferred, pass, lastScan,
                  locSignature, baseGame, made, parked, publishedRules, ruleErrors, started, excused, crossed>>
cacheVars == <<source, history, ast, errors, process>>
mcVars == <<vars, part, scanVars, storeVars, progressVars, editVars, settingsVars, cacheVars>>

\* A run alone while the file is written three times, a batch run beside a scan
\* while it is written once, and beside another run while it stays.
CacheProbes == {{"b"}, {"v"}, {"b", "c"}, {"b", "v"}, {"b", "s"}}
CacheStart(alive) ==
    LET first == CASE Cardinality(alive) = 1 -> 1 [] "s" \in alive -> 3 [] OTHER -> 4
    IN /\ source = [content |-> 1, stamp |-> first]
       /\ history = [n \in 1..4 |-> IF n <= first THEN 1 ELSE 0]
       /\ ast = [k \in Cache!Keys |-> 0] /\ errors = [k \in Cache!Keys |-> 0]
       /\ process = [p \in Cache!Processes |-> IF p \in alive THEN Cache!Idle ELSE [Cache!Idle EXCEPT !.at = "done"]]
NoCache == source = Absent /\ history = Absent /\ ast = Absent /\ errors = Absent /\ process = Absent

MCInit == /\ part \in {"uses", "scan", "store", "progress", "edits", "settings", "cache"}
          /\ Init /\ Workspace!Init /\ Documents!Init /\ Notices!Init /\ Edits!Start /\ Changes!Init
          /\ part = "edits" => Edits!Init
          /\ IF part = "settings" THEN Cardinality(roots) = 1 /\ Cardinality(broken) < 2
             ELSE roots = {} /\ broken = {}
          /\ IF part = "cache" THEN \E alive \in CacheProbes : CacheStart(alive) ELSE NoCache
          /\ part \notin {"scan", "edits"} => disk = [u \in Uris |-> Absent]
MCNext ==
    /\ UNCHANGED part
    /\ \/ part = "uses" /\ Next /\ UNCHANGED <<scanVars, storeVars, progressVars, editVars, settingsVars, cacheVars>>
       \/ part = "scan" /\ Workspace!Next /\ UNCHANGED <<vars, storeVars, progressVars, editVars, settingsVars, cacheVars>>
       \/ part = "store" /\ Documents!Next /\ UNCHANGED <<vars, scanVars, progressVars, editVars, settingsVars, cacheVars>>
       \/ part = "progress" /\ Notices!Next /\ UNCHANGED <<vars, scanVars, storeVars, editVars, settingsVars, cacheVars>>
       \/ part = "edits" /\ Edits!Next /\ UNCHANGED <<vars, otherScanVars, storeVars, progressVars, settingsVars, cacheVars>>
       \/ part = "settings" /\ Changes!Next /\ UNCHANGED <<vars, scanVars, storeVars, progressVars, editVars, cacheVars>>
       \/ part = "cache" /\ Cache!Next /\ UNCHANGED <<vars, scanVars, storeVars, progressVars, editVars, settingsVars>>
MCSpec == MCInit /\ [][MCNext]_mcVars

\* Of the edits, scans and saves that the bounds of WorkspaceScan admit, all
\* but one happen: one edit, and a save or a change of settings, or two edits.
\* Of the files of WorkspaceEdits one is opened, one notification and one validation
\* are on their way, one command runs.
ScanBound == /\ clock + scans + saves <= MaxVersion + MaxScans + MaxSaves - 1
             /\ settings + saves < 2 /\ (clock = MaxVersion => settings + saves = 0)
EditBound == /\ Cardinality({u \in Uris : issued[u] > 0}) < 2
             /\ Len(inbox) < 2 /\ Cardinality(publishes) < 2
             /\ fixAll = Edits!Idle \/ renaming = Edits!Idle
MCBound == ScanBound /\ EditBound

\* Every set of names is interchangeable.
MCSymmetry == Permutations(Uris) \union Permutations(Texts) \union Permutations(Names)
                \union Permutations(Threads)

-----------------------------------------------------------------------------
\* The properties, stated where their state is declared: the diagnostics a
\* client shows are tracked, and follow the buffer (WorkspaceScan).
ShownAreTracked == Workspace!ShownAreTracked
OpenShowBuffer == Workspace!OpenShowBuffer
OpenIndexedFromBuffer == Workspace!OpenIndexedFromBuffer

\* The index entry of a document stays what its buffer made it under a scan
\* that saw it open (WorkspaceScan).
SnapshotKept == Workspace!SnapshotKept

\* The bytes charged to open documents are exact and limited (DocumentStore).
RetainedExact == Documents!RetainedExact
WithinLimits == Documents!WithinLimits

\* Progress streams and the indicator are begun and ended in pairs (Progress).
StreamsPaired == Notices!StreamsPaired
ClosesMatchOpens == Notices!ClosesMatchOpens

\* An edit that carries a version reaches only the text it was computed for
\* (WorkspaceEdits): fixes do, renames are said to.
EditsFitTheText == Edits!EditsFitTheText
RenamesFitTheText == Edits!RenamesFitTheText

\* Whatever changes is scanned with, a quiet pass is skipped only when nothing
\* did, and errors in rules are shown and cleared (Settings).
NothingForgotten == Changes!NothingForgotten
SkipsAreSound == Changes!SkipsAreSound
RuleErrorsShown == Changes!RuleErrorsShown

\* No process is given, and none leaves behind, the parse of another text than
\* it asked for (ParseCache).
ParsedAsStamped == part = "cache" => Cache!ParsedAsStamped
=============================================================================
