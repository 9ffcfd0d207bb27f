---------------------------- MODULE WorkspaceScan ----------------------------
(***************************************************************************)
(* The workspace scan against the documents that are opened, edited and    *)
(* closed while it runs (lsp: scan/workspace.rs, scan/reindex.rs, with the *)
(* text-sync handlers of main.rs at the grain that matters here; DocSync   *)
(* has their finer steps).  A file's content is a text, a diagnostic list  *)
(* stands for the text it was computed from, and an index entry for the    *)
(* text it was built from.                                                 *)
(***************************************************************************)
EXTENDS Naturals, FiniteSets

CONSTANTS Files, Texts, Absent,
          MaxVersion,    \* bound on edits: versions are not reused
          MaxScans,      \* bound on scans
          MaxSaves,      \* bound on changes of the files on disk
          Budget         \* closed files one scan publishes, and clears


Closed == [open |-> FALSE, text |-> Absent, version |-> 0, ast |-> Absent, astVersion |-> 0]
NoJob == [at |-> "none", text |-> Absent, version |-> 0]
NoScan == [at |-> "none", found |-> {}, open |-> {}, parsed |-> [f \in Files |-> Absent],
           todo |-> {}, budget |-> 0, published |-> {}, quiet |-> FALSE, sig |-> <<>>,
           docs |-> [f \in Files |-> Closed]]

VARIABLES disk,      \* text of each file on disk
          doc,       \* documents: the open buffers
          job,       \* the validation of each document that is under way
          index,     \* info_service: the text each file is indexed from
          shown,     \* diagnostics the client shows for each file
          tracked,   \* published_workspace_uris
          scan,      \* the scan under way
          stamp,     \* last_scan_fingerprint
          settings,  \* settings_generation
          clock, scans, saves, \* counters of the bounds
          indexed,   \* history: files whose entry was written from their open buffer
          cut        \* history: the last scan was cancelled
vars == <<disk, doc, job, index, shown, tracked, scan, stamp, settings, clock, scans, saves, indexed, cut>>
docVars == <<disk, stamp, settings, scans, saves, tracked, scan, cut>>
scanVars == <<disk, doc, job, settings, clock, scans, saves>>

Init == /\ disk \in [Files -> Texts \union {Absent}]
        /\ doc = [f \in Files |-> Closed]
        /\ job = [f \in Files |-> NoJob]
        /\ index = [f \in Files |-> Absent]
        /\ shown = [f \in Files |-> Absent]
        /\ tracked = {}
        /\ scan = NoScan
        /\ stamp = NoScan.sig
        /\ settings = 0
        /\ clock = 0 /\ scans = 0 /\ saves = 0
        /\ indexed = {} /\ cut = FALSE

-----------------------------------------------------------------------------
(* Documents.                                                              *)

\* A new version of the buffer; the validation of the older one is aborted.
SetText(f, text) ==
    /\ clock < MaxVersion
    /\ clock' = clock + 1
    /\ doc' = [doc EXCEPT ![f].open = TRUE, ![f].text = text, ![f].version = clock + 1]
    /\ job' = [job EXCEPT ![f] = [at |-> "due", text |-> text, version |-> clock + 1]]
    /\ UNCHANGED <<index, shown, indexed>> /\ UNCHANGED docVars

DidOpen(f) == ~doc[f].open /\ \E text \in Texts : SetText(f, text)
DidChange(f) == doc[f].open /\ \E text \in Texts \ {doc[f].text} : SetText(f, text)

\* The blocking part of a validation: it writes the index if its text is current.
Validate(f) ==
    /\ job[f].at = "due"
    /\ index' = [index EXCEPT ![f] = job[f].text]
    /\ indexed' = indexed \union {f}
    /\ job' = [job EXCEPT ![f].at = "validated"]
    /\ UNCHANGED <<doc, shown, clock>> /\ UNCHANGED docVars

\* Then it stores the tree and publishes.
Publish(f) ==
    /\ job[f].at = "validated"
    /\ doc' = [doc EXCEPT ![f].ast = job[f].text, ![f].astVersion = job[f].version]
    /\ shown' = [shown EXCEPT ![f] = job[f].text]
    /\ job' = [job EXCEPT ![f] = NoJob]
    /\ UNCHANGED <<index, clock, indexed>> /\ UNCHANGED docVars

\* The file on disk takes over.
DidClose(f) ==
    /\ doc[f].open
    /\ doc' = [doc EXCEPT ![f] = Closed]
    /\ job' = [job EXCEPT ![f] = NoJob]
    /\ index' = [index EXCEPT ![f] = disk[f]]
    /\ shown' = [shown EXCEPT ![f] = Absent]
    /\ indexed' = indexed \ {f}
    /\ UNCHANGED clock /\ UNCHANGED docVars

WriteDisk(f) ==
    /\ saves < MaxSaves
    /\ \E text \in (Texts \union {Absent}) \ {disk[f]} : disk' = [disk EXCEPT ![f] = text]
    /\ saves' = saves + 1
    /\ UNCHANGED <<doc, job, index, shown, tracked, scan, stamp, settings, clock, scans, indexed, cut>>

-----------------------------------------------------------------------------
(* The scan.  Its signature is what discovery sees of the files.           *)

Signature == [f \in Files |-> disk[f]]

QuietPassCanSkip(quiet, found, current, stored) == quiet /\ found # {} /\ stored = current

StartScan ==
    /\ scan.at = "none" /\ scans < MaxScans
    /\ scans' = scans + 1
    /\ \E quiet \in BOOLEAN :
          LET found == {f \in Files : disk[f] # Absent}
              current == <<Signature, settings>>
          IN IF QuietPassCanSkip(quiet, found, current, stamp)
             THEN scan' = scan
             ELSE scan' = [NoScan EXCEPT !.at = "parse", !.found = found, !.quiet = quiet,
                                         !.sig = current]
    /\ UNCHANGED <<disk, doc, job, index, shown, tracked, stamp, settings, saves, clock, indexed, cut>>

\* A change of the settings asks for a full pass.
ChangeSettings ==
    /\ settings = 0 /\ settings' = 1
    /\ UNCHANGED <<disk, doc, job, index, shown, tracked, scan, stamp, clock, scans, saves, indexed, cut>>

OpenUris == {f \in Files : doc[f].open}

SnapshotOpen ==
    /\ scan.at = "parse"
    /\ scan' = [scan EXCEPT !.open = OpenUris, !.at = "read"]
    /\ UNCHANGED <<index, shown, tracked, stamp, indexed, cut>> /\ UNCHANGED scanVars

ParseFiles ==
    /\ scan.at = "read"
    /\ scan' = [scan EXCEPT !.at = "index", !.todo = scan.found \ scan.open,
            !.parsed = [f \in Files |-> IF f \in scan.found \ scan.open THEN disk[f] ELSE Absent]]
    /\ UNCHANGED <<index, shown, tracked, stamp, indexed, cut>> /\ UNCHANGED scanVars

\* Pass 1, one file at a time; a file that could not be read is left alone.
IndexFile(f) ==
    /\ scan.at = "index" /\ f \in scan.todo
    /\ scan' = [scan EXCEPT !.todo = @ \ {f}]
    /\ IF scan.parsed[f] = Absent THEN UNCHANGED <<index, indexed>>
       ELSE /\ index' = [index EXCEPT ![f] = scan.parsed[f]]
            /\ indexed' = indexed \ {f}
    /\ UNCHANGED <<shown, tracked, stamp, cut>> /\ UNCHANGED scanVars

\* Mutant of Stale: what is not on disk is forgotten, open or not.
Stale_openToo(s) == {f \in Files : index[f] # Absent /\ f \notin s.found}

Stale(s) == {f \in Files : index[f] # Absent /\ f \notin s.found \union s.open}

\* A discovery that found nothing prunes nothing.
Prune ==
    /\ scan.at = "index" /\ scan.todo = {}
    /\ LET gone == IF scan.found = {} THEN {} ELSE Stale(scan) IN
          /\ index' = [f \in Files |-> IF f \in gone THEN Absent ELSE index[f]]
          /\ shown' = [f \in Files |-> IF f \in gone THEN Absent ELSE shown[f]]
          /\ indexed' = indexed \ gone
    /\ scan' = [scan EXCEPT !.at = "publish", !.budget = Budget,
            !.todo = {f \in scan.found \ scan.open : scan.parsed[f] # Absent}]
    /\ UNCHANGED <<tracked, stamp, cut>> /\ UNCHANGED scanVars

\* Mutant of PublishClosed: past the budget a file is only taken off the list.
PublishClosed_forgets(f) ==
    /\ scan.at = "publish" /\ f \in scan.todo
    /\ IF scan.budget > 0
       THEN /\ shown' = [shown EXCEPT ![f] = scan.parsed[f]]
            /\ scan' = [scan EXCEPT !.todo = @ \ {f}, !.budget = @ - 1, !.published = @ \union {f}]
            /\ tracked' = tracked \union {f}
       ELSE /\ scan' = [scan EXCEPT !.todo = @ \ {f}]
            /\ tracked' = tracked \ {f}
            /\ UNCHANGED shown
    /\ UNCHANGED <<index, stamp, indexed, cut>> /\ UNCHANGED scanVars

\* Pass 2 publishes closed files within its budget, and takes the diagnostics
\* of a file it published before off the screen when the budget is spent.
PublishClosed(f) ==
    /\ scan.at = "publish" /\ f \in scan.todo
    /\ IF scan.budget > 0
       THEN /\ shown' = [shown EXCEPT ![f] = scan.parsed[f]]
            /\ scan' = [scan EXCEPT !.todo = @ \ {f}, !.budget = @ - 1, !.published = @ \union {f}]
            /\ tracked' = tracked \union {f}
       ELSE /\ shown' = IF f \in tracked THEN [shown EXCEPT ![f] = Absent] ELSE shown
            /\ scan' = [scan EXCEPT !.todo = @ \ {f}]
            /\ UNCHANGED tracked
    /\ UNCHANGED <<index, stamp, indexed, cut>> /\ UNCHANGED scanVars

Outdated(s) == tracked \ s.published

\* Files published by an earlier scan only are cleared, up to a budget.
ClearStale ==
    /\ scan.at = "publish" /\ scan.todo = {}
    /\ \E cleared \in SUBSET Outdated(scan) :
          /\ \/ cleared = Outdated(scan) /\ Cardinality(cleared) <= Budget
             \/ Cardinality(cleared) = Budget
          /\ shown' = [f \in Files |-> IF f \in cleared THEN Absent ELSE shown[f]]
          /\ tracked' = tracked \ cleared
    /\ stamp' = IF scan.found = {} THEN stamp ELSE scan.sig
    /\ scan' = [scan EXCEPT !.at = "snapshot"]
    /\ UNCHANGED <<index, indexed, cut>> /\ UNCHANGED scanVars

\* revalidate_all_open_docs: a snapshot of the documents, then one at a time.
SnapshotDocs ==
    /\ scan.at = "snapshot"
    /\ scan' = [scan EXCEPT !.at = "revalidate", !.docs = doc, !.todo = OpenUris]
    /\ UNCHANGED <<index, shown, tracked, stamp, indexed, cut>> /\ UNCHANGED scanVars

Current(f) == doc[f].open /\ doc[f].version = scan.docs[f].version

\* Mutant of Revalidate: only documents without a current tree are validated.
Revalidate_staleOnly(f) ==
    LET snap == scan.docs[f]
        prebuilt == snap.ast # Absent /\ snap.astVersion = snap.version
    IN /\ scan.at = "revalidate" /\ f \in scan.todo
       /\ scan' = [scan EXCEPT !.todo = @ \ {f}]
       /\ IF ~prebuilt /\ Current(f) THEN /\ index' = [index EXCEPT ![f] = snap.text]
                                          /\ indexed' = indexed \union {f}
                                     ELSE UNCHANGED <<index, indexed>>
       /\ shown' = IF ~prebuilt /\ Current(f) THEN [shown EXCEPT ![f] = snap.text] ELSE shown
       /\ UNCHANGED <<tracked, stamp, cut>> /\ UNCHANGED scanVars

\* A current tree is validated as it is, without a look at the index entry of
\* the document; any other document is parsed and indexed again.
Revalidate(f) ==
    LET snap == scan.docs[f]
        prebuilt == snap.ast # Absent /\ snap.astVersion = snap.version
    IN /\ scan.at = "revalidate" /\ f \in scan.todo
       /\ scan' = [scan EXCEPT !.todo = @ \ {f}]
       /\ IF ~prebuilt /\ (Current(f) \/ ~doc[f].open)
          THEN /\ index' = [index EXCEPT ![f] = snap.text]
               /\ indexed' = indexed \union (IF doc[f].open THEN {f} ELSE {})
          ELSE UNCHANGED <<index, indexed>>
       /\ shown' = IF Current(f) THEN [shown EXCEPT ![f] = snap.text] ELSE shown
       /\ UNCHANGED <<tracked, stamp, cut>> /\ UNCHANGED scanVars

EndScan ==
    /\ scan.at = "revalidate" /\ scan.todo = {}
    /\ scan' = NoScan /\ cut' = FALSE
    /\ UNCHANGED <<index, shown, tracked, stamp, indexed>> /\ UNCHANGED scanVars

\* The command that runs the scan is cancelled at one of its checks.
CancelScan ==
    /\ scan.at \in {"parse", "index", "publish"} /\ ~scan.quiet
    /\ scan' = NoScan /\ cut' = TRUE
    /\ UNCHANGED <<index, shown, tracked, stamp, indexed>> /\ UNCHANGED scanVars

FileStep(f) ==
    \/ DidOpen(f)
    \/ DidChange(f)
    \/ Validate(f)
    \/ Publish(f)
    \/ DidClose(f)
    \/ WriteDisk(f)
    \/ IndexFile(f)
    \/ PublishClosed(f)
    \/ Revalidate(f)

Next ==
    \/ \E f \in Files : FileStep(f)
    \/ StartScan
    \/ ChangeSettings
    \/ SnapshotOpen
    \/ ParseFiles
    \/ Prune
    \/ ClearStale
    \/ SnapshotDocs
    \/ EndScan
    \/ CancelScan
Spec == Init /\ [][Next]_vars

-----------------------------------------------------------------------------
\* Diagnostics on the screen of a file no editor holds were published by a
\* scan and are on the list of those a later scan takes off again
\* (published_workspace_uris, workspace.rs).
ShownAreTracked ==
    \A f \in Files : ~doc[f].open /\ shown[f] # Absent => f \in tracked

\* A document open since before a scan took its snapshot keeps the index entry
\* of its buffer: both passes and the prune leave it alone (workspace.rs).
SnapshotKept ==
    [][\A f \in Files : f \in scan.open /\ f \in indexed /\ doc'[f].open => f \in indexed']_vars

\* After a scan that ran to its end every open document shows diagnostics of its own text: what
\* the scan published for the file on disk or cleared in between is replaced
\* by the pass over the open documents (revalidate_all_open_docs).
OpenShowBuffer ==
    \A f \in Files : scan.at = "none" /\ ~cut /\ doc[f].open /\ job[f] = NoJob => shown[f] = doc[f].text

\* What revalidate_all_open_docs relies on: "an open doc's index entry still
\* reflects exactly the content its cached AST was parsed from".
OpenIndexedFromBuffer ==
    \A f \in Files : doc[f].open /\ job[f] = NoJob => index[f] = doc[f].text
=============================================================================
