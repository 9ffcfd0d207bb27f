------------------------------- MODULE DocSync -------------------------------
(***************************************************************************)
(* The document pipeline of the language server: how an edit of an open    *)
(* script file travels from the text-sync handlers (did_open, did_change,  *)
(* did_save, did_close) through the per-document validation task to the    *)
(* shared symbol index, the published diagnostics and the sweep over the   *)
(* other open documents.                                                   *)
(*                                                                         *)
(* A job is one asynchronous activity: a validation task registered in     *)
(* debounce_handles, or the tail of a did_close handler past its first     *)
(* await.  Handlers run up to their first await without interleaving with  *)
(* one another (the transport polls them all in one task), so each handler *)
(* prefix is one action; jobs run on any worker thread, so each stretch of *)
(* a job between two awaits or lock sections is an action of its own.      *)
(***************************************************************************)
EXTENDS Naturals, FiniteSets

CONSTANTS
  Uris,          \* documents of the workspace (game script files)
  Contents,      \* the texts a document can hold
  TextsOf,       \* [Uris -> SUBSET Contents]: the texts the user gives a document
  Names,         \* lower-cased symbol names, the currency of the sweep
  Symbols,       \* what a file can export: a name together with its kind
  NameOf,        \* [Symbols -> Names]
  Defines,       \* [Contents -> SUBSET Symbols]: the exports collected from a text
  Mentions,      \* [Contents -> SUBSET Symbols]: what a text refers to
  Blank,         \* the content of a missing file: defines and mentions nothing
  None,          \* no job, no document
  Permits,       \* MAX_CONCURRENT_VALIDATIONS
  MaxJobs,       \* bound: jobs ever started
  MaxVersion,    \* bound: document versions per document
  FreshVersions, \* TRUE: the client never reuses a version number of a document
  InitOpen,      \* documents open and validated in the initial state
  Edited         \* bound: the documents the client acts on

ASSUME DocSyncAssumption ==
  /\ Blank \in Contents
  /\ TextsOf \in [Uris -> SUBSET Contents]
  /\ NameOf \in [Symbols -> Names]
  /\ Defines \in [Contents -> SUBSET Symbols]
  /\ Mentions \in [Contents -> SUBSET Symbols]
  /\ Defines[Blank] = {} /\ Mentions[Blank] = {}
  /\ None \notin Nat /\ None \notin Uris
  /\ Permits \in Nat \ {0}
  /\ MaxJobs \in Nat
  /\ MaxVersion \in Nat \ {0}
  /\ FreshVersions \in BOOLEAN
  /\ InitOpen \subseteq Uris /\ Edited \subseteq Uris

VARIABLES
  docs,        \* documents: [open, version, text, astVersion, ast]; astVersion 0 = no AST
  lastVersion, \* the highest version the client has used for each document
  disk,        \* the files on disk
  index,       \* info_service: the symbols each file is recorded as exporting
  tokens,      \* doc_tokens: names each document mentions; Names = nothing recorded
  published,   \* diagnostics last sent for each document: [version, diag]
  debounce,    \* debounce_handles: the registered validation job
  generation,  \* edit_generation
  pending,     \* pending_changed_names
  started,     \* next_debounce_id: jobs started so far
  job          \* the jobs

vars == <<docs, lastVersion, disk, index, tokens, published, debounce,
          generation, pending, started, job>>

Jobs == 1..MaxJobs
Versions == 0..MaxVersion

(* Program counters: "await" is a did_close waiting for the job it aborted, *)
(* "queued" a job waiting for a permit, "over" a job past its last step     *)
(* whose clean-up is outstanding; the others name the next step.  Between   *)
(* "parse" or "restore" and "over" a job holds a validation permit.         *)
Holding == {"parse", "validate", "store", "publish", "drain", "sweep", "filter",
            "flush", "read", "restore", "recheck", "clear"}
PCs == {"none", "await", "queued", "over"} \cup Holding

Document == [open : BOOLEAN, version : Versions, text : Contents,
             astVersion : Versions, ast : Contents]
Snapshot == [uri : Uris, version : Versions, text : Contents]
Result   == [uri : Uris, version : Versions, diag : SUBSET Symbols]
Job      == [pc : PCs, uri : Uris \cup {None}, closing : BOOLEAN, aborted : BOOLEAN,
             awaits : Jobs \cup {None}, version : Versions, gen : Nat,
             text : Contents, before : SUBSET Symbols, after : SUBSET Symbols,
             diag : SUBSET Symbols, names : SUBSET Names, all : BOOLEAN,
             todo : SUBSET Snapshot, ready : SUBSET Result]

Idle == [pc |-> "none", uri |-> None, closing |-> FALSE, aborted |-> FALSE,
         awaits |-> None, version |-> 0, gen |-> 0, text |-> Blank,
         before |-> {}, after |-> {}, diag |-> {}, names |-> {},
         all |-> FALSE, todo |-> {}, ready |-> {}]

-----------------------------------------------------------------------------
(* Helpers                                                                 *)

\* The lower-cased names of a set of symbols (InfoService::export_names).
NamesOf(symbols) == {NameOf[s] : s \in symbols}

\* The token set collect_doc_tokens builds from an AST.
TokensOf(text) == NamesOf(Mentions[text])

\* What validating a text against the index reports: references nothing defines.
Diagnose(text) == Mentions[text] \ UNION {index[u] : u \in Uris}

\* The document is open at exactly this version.
Current(u, v) == docs[u].open /\ docs[u].version = v

PermitFree == Cardinality({j \in Jobs : job[j].pc \in Holding}) < Permits

Goto(j, pc) == job' = [job EXCEPT ![j].pc = pc]

-----------------------------------------------------------------------------
(* The client's notifications                                              *)

\* Mutant of RemoveDebounceTask: drops whatever registration the document has.
RemoveDebounceTask_ignoresId(u, id) == debounce' = [debounce EXCEPT ![u] = None]

\* remove_debounce_task: a finished job takes out its own registration only.
RemoveDebounceTask(u, id) ==
  debounce' = IF debounce[u] = id THEN [debounce EXCEPT ![u] = None] ELSE debounce

\* Mutant of SpawnDebouncedValidate: an edit joins the validation already registered.
SpawnDebouncedValidate_coalesces(u, version, gen) ==
  IF debounce[u] # None
  THEN UNCHANGED <<started, debounce, job>>
  ELSE /\ started < MaxJobs
       /\ started' = started + 1
       /\ debounce' = [debounce EXCEPT ![u] = started + 1]
       /\ job' = [job EXCEPT ![started + 1] =
                    [Idle EXCEPT !.pc = "queued", !.uri = u,
                                 !.version = version, !.gen = gen]]

\* spawn_debounced_validate: register the new task, then abort its predecessor.
SpawnDebouncedValidate(u, version, gen) ==
  /\ started < MaxJobs
  /\ started' = started + 1
  /\ debounce' = [debounce EXCEPT ![u] = started + 1]
  /\ job' = [j \in Jobs |->
               IF j = started + 1
               THEN [Idle EXCEPT !.pc = "queued", !.uri = u,
                                 !.version = version, !.gen = gen]
               ELSE IF j = debounce[u] THEN [job[j] EXCEPT !.aborted = TRUE]
               ELSE job[j]]

\* did_open: the buffer enters the store without an AST.  A client may restart
\* its version numbers when it reopens a file.
DidOpen(u, text) ==
  LET v == IF FreshVersions THEN lastVersion[u] + 1 ELSE 1 IN
  /\ ~docs[u].open
  /\ v <= MaxVersion
  /\ docs' = [docs EXCEPT ![u] = [open |-> TRUE, version |-> v, text |-> text,
                                  astVersion |-> 0, ast |-> Blank]]
  /\ lastVersion' = [lastVersion EXCEPT ![u] = IF v > @ THEN v ELSE @]
  /\ generation' = generation + 1
  /\ SpawnDebouncedValidate(u, v, generation + 1)
  /\ UNCHANGED <<disk, index, tokens, published, pending>>

\* did_change: new text and version at once, the prior AST stays.
DidChange(u, text) ==
  LET v == docs[u].version + 1 IN
  /\ docs[u].open
  /\ v <= MaxVersion
  /\ docs' = [docs EXCEPT ![u].version = v, ![u].text = text]
  /\ lastVersion' = [lastVersion EXCEPT ![u] = IF v > @ THEN v ELSE @]
  /\ generation' = generation + 1
  /\ SpawnDebouncedValidate(u, v, generation + 1)
  /\ UNCHANGED <<disk, index, tokens, published, pending>>

\* did_save: the editor has written the buffer out; no new version, no new
\* generation, only a fresh validation of the current one.
DidSave(u) ==
  /\ docs[u].open
  /\ disk' = [disk EXCEPT ![u] = docs[u].text]
  /\ SpawnDebouncedValidate(u, docs[u].version, generation)
  /\ UNCHANGED <<docs, lastVersion, index, tokens, published, generation, pending>>

\* did_close up to its first await: the buffer leaves the store, the registered
\* validation is unregistered and aborted, the rest of the handler becomes a job.
DidClose(u) ==
  /\ docs[u].open
  /\ started < MaxJobs
  /\ docs' = [docs EXCEPT ![u] = [open |-> FALSE, version |-> 0, text |-> Blank,
                                  astVersion |-> 0, ast |-> Blank]]
  /\ started' = started + 1
  /\ debounce' = [debounce EXCEPT ![u] = None]
  /\ job' = [j \in Jobs |->
               IF j = started + 1
               THEN [Idle EXCEPT !.pc = "await", !.uri = u, !.closing = TRUE,
                                 !.awaits = debounce[u]]
               ELSE IF j = debounce[u] THEN [job[j] EXCEPT !.aborted = TRUE]
               ELSE job[j]]
  /\ UNCHANGED <<lastVersion, disk, index, tokens, published, generation, pending>>

-----------------------------------------------------------------------------
(* debounced_validate and parse_and_validate, for a script document        *)

\* A permit is granted; a newer version makes the job return at once, otherwise
\* it takes the text and the exports recorded before it re-indexes.
BeginValidate(j) ==
  LET u == job[j].uri IN
  /\ job[j].pc = "queued" /\ ~job[j].closing /\ ~job[j].aborted
  /\ PermitFree
  /\ job' = [job EXCEPT ![j] =
               IF Current(u, @.version)
               THEN [@ EXCEPT !.pc = "parse", !.text = docs[u].text, !.before = index[u]]
               ELSE [@ EXCEPT !.pc = "over"]]
  /\ UNCHANGED <<docs, lastVersion, disk, index, tokens, published, debounce,
                 generation, pending, started>>

\* Mutant of OvertakenBy: no stale-write guard.
OvertakenBy_never(u, version) == FALSE

\* The stale-write guard of index_parsed_file: a document open at another version
\* keeps what is recorded.  (A document that is not open at all is indexed.)
OvertakenBy(u, version) == docs[u].open /\ docs[u].version # version

\* index_parsed_file with the job's parse, version-guarded.
IndexParsedFile(j) ==
  LET u == job[j].uri IN
  /\ job[j].pc = "parse"
  /\ index' = IF OvertakenBy(u, job[j].version) THEN index
              ELSE [index EXCEPT ![u] = Defines[job[j].text]]
  /\ Goto(j, "validate")
  /\ UNCHANGED <<docs, lastVersion, disk, tokens, published, debounce,
                 generation, pending, started>>

\* Validate against the index, then record the tokens of the parse.
ValidateText(j) ==
  /\ job[j].pc = "validate"
  /\ job' = [job EXCEPT ![j].pc = "store", ![j].diag = Diagnose(job[j].text)]
  /\ tokens' = [tokens EXCEPT ![job[j].uri] = TokensOf(job[j].text)]
  /\ UNCHANGED <<docs, lastVersion, disk, index, published, debounce,
                 generation, pending, started>>

\* Mutant of StoreAst: keeps the AST of any open document, under its current version.
StoreAst_unguarded(j) ==
  LET u == job[j].uri IN
  /\ job[j].pc = "store"
  /\ \/ /\ docs[u].open
        /\ docs' = [docs EXCEPT ![u].astVersion = docs[u].version, ![u].ast = job[j].text]
        /\ Goto(j, "publish")
     \/ /\ ~docs[u].open
        /\ Goto(j, "over")
        /\ UNCHANGED docs
  /\ UNCHANGED <<lastVersion, disk, index, tokens, published, debounce,
                 generation, pending, started>>

\* The version check under the documents lock: keep the AST and go on to publish,
\* or return because a newer edit or a close came first.
StoreAst(j) ==
  LET u == job[j].uri IN
  /\ job[j].pc = "store"
  /\ \/ /\ Current(u, job[j].version)
        /\ docs' = [docs EXCEPT ![u].astVersion = job[j].version, ![u].ast = job[j].text]
        /\ Goto(j, "publish")
     \/ /\ ~Current(u, job[j].version)
        /\ Goto(j, "over")
        /\ UNCHANGED docs
  /\ UNCHANGED <<lastVersion, disk, index, tokens, published, debounce,
                 generation, pending, started>>

\* Send the document's own diagnostics, unless it was closed meanwhile.
PublishOwn(j) ==
  LET u == job[j].uri IN
  /\ job[j].pc = "publish"
  /\ published' = IF docs[u].open
                  THEN [published EXCEPT ![u] = [version |-> job[j].version,
                                                 diag |-> job[j].diag]]
                  ELSE published
  /\ Goto(j, "drain")
  /\ UNCHANGED <<docs, lastVersion, disk, index, tokens, debounce,
                 generation, pending, started>>

\* An abort takes effect where the task is suspended: before it has a permit, or
\* while a publish waits for room in the client channel.
Cancel(j) ==
  /\ job[j].aborted
  /\ job[j].pc \in {"queued", "publish", "flush"}
  /\ Goto(j, "over")
  /\ UNCHANGED <<docs, lastVersion, disk, index, tokens, published, debounce,
                 generation, pending, started>>

-----------------------------------------------------------------------------
(* The rest of did_close                                                   *)

\* The aborted validation has ended; a document reopened meanwhile is left alone.
CloseAwait(j) ==
  /\ job[j].pc = "await"
  /\ job[j].awaits # None => job[job[j].awaits].pc = "none"
  /\ Goto(j, IF docs[job[j].uri].open THEN "over" ELSE "queued")
  /\ UNCHANGED <<docs, lastVersion, disk, index, tokens, published, debounce,
                 generation, pending, started>>

\* A permit is granted; remember the exports recorded for the buffer.
CloseBegin(j) ==
  /\ job[j].pc = "queued" /\ job[j].closing
  /\ PermitFree
  /\ job' = [job EXCEPT ![j].pc = "read", ![j].before = index[job[j].uri]]
  /\ UNCHANGED <<docs, lastVersion, disk, index, tokens, published, debounce,
                 generation, pending, started>>

\* Read the file back from disk on a blocking thread.
CloseReadDisk(j) ==
  /\ job[j].pc = "read"
  /\ job' = [job EXCEPT ![j].pc = "restore", ![j].text = disk[job[j].uri]]
  /\ UNCHANGED <<docs, lastVersion, disk, index, tokens, published, debounce,
                 generation, pending, started>>

\* Under doc_tokens and documents: unless the document was reopened, index what is
\* on disk, forget the buffer's tokens and start a new edit generation.
CloseRestore(j) ==
  LET u == job[j].uri IN
  /\ job[j].pc = "restore"
  /\ \/ /\ docs[u].open
        /\ Goto(j, "over")
        /\ UNCHANGED <<index, tokens, generation>>
     \/ /\ ~docs[u].open
        /\ index' = [index EXCEPT ![u] = Defines[job[j].text]]
        /\ tokens' = [tokens EXCEPT ![u] = Names]
        /\ generation' = generation + 1
        /\ job' = [job EXCEPT ![j].pc = "recheck", ![j].gen = generation + 1,
                              ![j].after = Defines[job[j].text]]
  /\ UNCHANGED <<docs, lastVersion, disk, published, debounce, pending, started>>

\* The empty publish is for a document that is still closed.
CloseRecheck(j) ==
  /\ job[j].pc = "recheck"
  /\ Goto(j, IF docs[job[j].uri].open THEN "drain" ELSE "clear")
  /\ UNCHANGED <<docs, lastVersion, disk, index, tokens, published, debounce,
                 generation, pending, started>>

\* Send the empty diagnostics of a closed document.
CloseClear(j) ==
  /\ job[j].pc = "clear"
  /\ published' = [published EXCEPT ![job[j].uri] = [version |-> 0, diag |-> {}]]
  /\ Goto(j, "drain")
  /\ UNCHANGED <<docs, lastVersion, disk, index, tokens, debounce,
                 generation, pending, started>>

-----------------------------------------------------------------------------
(* The sweep over the other open documents: revalidate_open_dependents     *)

\* The open documents with a parse that a change of these names can concern.
Dependents(changed, names, all) ==
  {u \in Uris \ {changed} :
     docs[u].open /\ docs[u].astVersion # 0 /\ (all \/ tokens[u] \cap names # {})}

SnapshotOf(u) == [uri |-> u, version |-> docs[u].version, text |-> docs[u].ast]

\* The names whose meaning moved since the job began, with those that earlier
\* jobs left behind; no name but a changed fingerprint sweeps every dependent.
Drain(j) ==
  LET u == job[j].uri
      after == IF job[j].closing THEN job[j].after ELSE index[u]
      before == job[j].before
      moved == (NamesOf(before) \ NamesOf(after)) \cup (NamesOf(after) \ NamesOf(before))
      names == moved \cup pending
      todo == {SnapshotOf(d) : d \in Dependents(u, names, names = {})}
      sweeps == (before # after \/ names # {}) /\ todo # {}
  IN
  /\ job[j].pc = "drain"
  /\ pending' = {}
  /\ job' = [job EXCEPT ![j] =
               IF sweeps
               THEN [@ EXCEPT !.pc = "sweep", !.names = names, !.all = (names = {}),
                              !.todo = todo]
               ELSE [@ EXCEPT !.pc = "over"]]
  /\ UNCHANGED <<docs, lastVersion, disk, index, tokens, published, debounce,
                 generation, started>>

\* Validate one more dependent against the index as it is now.
SweepOne(j) ==
  /\ job[j].pc = "sweep"
  /\ generation = job[j].gen
  /\ \E d \in job[j].todo :
       job' = [job EXCEPT
                 ![j].todo = @ \ {d},
                 ![j].ready = @ \cup {[uri |-> d.uri, version |-> d.version,
                                       diag |-> Diagnose(d.text)]},
                 ![j].pc = IF job[j].todo = {d} THEN "filter" ELSE "sweep"]
  /\ UNCHANGED <<docs, lastVersion, disk, index, tokens, published, debounce,
                 generation, pending, started>>

\* A newer edit arrived: leave the names to its sweep, publish what is done.
SweepPreempted(j) ==
  /\ job[j].pc = "sweep"
  /\ generation # job[j].gen
  /\ pending' = IF job[j].all THEN pending ELSE pending \cup job[j].names
  /\ Goto(j, "filter")
  /\ UNCHANGED <<docs, lastVersion, disk, index, tokens, published, debounce,
                 generation, started>>

\* Drop the results of dependents that were themselves edited meanwhile.
FilterCurrent(j) ==
  LET keep == {r \in job[j].ready : Current(r.uri, r.version)} IN
  /\ job[j].pc = "filter"
  /\ job' = [job EXCEPT ![j].ready = keep, ![j].todo = {},
                        ![j].pc = IF keep = {} THEN "over" ELSE "flush"]
  /\ UNCHANGED <<docs, lastVersion, disk, index, tokens, published, debounce,
                 generation, pending, started>>

\* Publish one of the remaining results.
PublishDependent(j) ==
  /\ job[j].pc = "flush"
  /\ \E r \in job[j].ready :
       /\ published' = [published EXCEPT ![r.uri] = [version |-> r.version, diag |-> r.diag]]
       /\ job' = [job EXCEPT ![j].ready = @ \ {r},
                             ![j].pc = IF job[j].ready = {r} THEN "over" ELSE "flush"]
  /\ UNCHANGED <<docs, lastVersion, disk, index, tokens, debounce,
                 generation, pending, started>>

\* The clean-up task of a validation (or the end of a did_close): drop the own
\* registration and signal whoever awaits the job.
Finish(j) ==
  /\ job[j].pc = "over"
  /\ RemoveDebounceTask(job[j].uri, j)
  /\ job' = [job EXCEPT ![j] = Idle]
  /\ UNCHANGED <<docs, lastVersion, disk, index, tokens, published,
                 generation, pending, started>>

-----------------------------------------------------------------------------
(* Specification                                                           *)

Init ==
  /\ disk \in [Uris -> Contents] /\ \A u \in Uris : disk[u] \in TextsOf[u]
  /\ docs = [u \in Uris |->
               IF u \in InitOpen
               THEN [open |-> TRUE, version |-> 1, text |-> disk[u],
                     astVersion |-> 1, ast |-> disk[u]]
               ELSE [open |-> FALSE, version |-> 0, text |-> Blank,
                     astVersion |-> 0, ast |-> Blank]]
  /\ lastVersion = [u \in Uris |-> docs[u].version]
  /\ index = [u \in Uris |-> Defines[disk[u]]]
  /\ tokens = [u \in Uris |-> IF u \in InitOpen THEN TokensOf(disk[u]) ELSE Names]
  /\ published = [u \in Uris |->
                    IF u \in InitOpen THEN [version |-> 1, diag |-> Diagnose(disk[u])]
                    ELSE [version |-> 0, diag |-> {}]]
  /\ debounce = [u \in Uris |-> None]
  /\ generation = 0
  /\ pending = {}
  /\ started = 0
  /\ job = [j \in Jobs |-> Idle]

Client ==
  \E u \in Edited :
    \/ \E text \in TextsOf[u] : DidOpen(u, text) \/ DidChange(u, text)
    \/ DidSave(u)
    \/ DidClose(u)

JobStep(j) ==
  \/ BeginValidate(j) \/ IndexParsedFile(j) \/ ValidateText(j) \/ StoreAst(j)
  \/ PublishOwn(j) \/ Cancel(j)
  \/ CloseAwait(j) \/ CloseBegin(j) \/ CloseReadDisk(j) \/ CloseRestore(j)
  \/ CloseRecheck(j) \/ CloseClear(j)
  \/ Drain(j) \/ SweepOne(j) \/ SweepPreempted(j) \/ FilterCurrent(j)
  \/ PublishDependent(j) \/ Finish(j)

Next == Client \/ \E j \in Jobs : JobStep(j)

\* The runtime polls every runnable task again and again; a permit goes to the
\* waiters in order.  The user owes nothing.
Fairness == \A j \in Jobs : WF_vars(JobStep(j))

Spec == Init /\ [][Next]_vars /\ Fairness

-----------------------------------------------------------------------------
(* Properties                                                              *)

\* The shape of the state.
TypeOK ==
  /\ docs \in [Uris -> Document]
  /\ lastVersion \in [Uris -> Versions]
  /\ disk \in [Uris -> Contents]
  /\ index \in [Uris -> SUBSET Symbols]
  /\ tokens \in [Uris -> SUBSET Names]
  /\ published \in [Uris -> [version : Versions, diag : SUBSET Symbols]]
  /\ debounce \in [Uris -> Jobs \cup {None}]
  /\ generation \in Nat
  /\ pending \in SUBSET Names
  /\ started \in 0..MaxJobs
  /\ job \in [Jobs -> Job]
  /\ \A j \in Jobs : job[j].pc # "none" => job[j].uri \in Uris

\* A validation of u that nobody aborted.
Live(j) == job[j].pc # "none" /\ ~job[j].closing /\ ~job[j].aborted

\* did_close can only abort what debounce_handles names: a validation that is still
\* going and was never aborted is always the registered one of its document, so a
\* clean-up of an older task never unregisters a newer one.
Registered == \A j \in Jobs : Live(j) => debounce[job[j].uri] = j

\* An AST stored for the current version is the parse of the current text, whatever
\* closes, reopens and older validations happened in between: completion and hover
\* treat such an AST as current.
AstCoherent ==
  \A u \in Uris :
    docs[u].open /\ docs[u].astVersion = docs[u].version => docs[u].ast = docs[u].text

\* Once no validation of an open document is under way, the index records the exports
\* of its current text: an older parse never rolls the index back and a restore from
\* disk by a racing did_close never replaces an open buffer.
IndexFollowsBuffer ==
  \A u \in Uris :
    docs[u].open /\ (\A j \in Jobs : Live(j) => job[j].uri # u)
      => index[u] = Defines[docs[u].text]

\* Every version of an open document is eventually parsed, indexed and stored, unless a
\* newer edit or a close supersedes it: no wake-up is lost between an edit, a save, the
\* abort of a predecessor, the version checks and the two permits.
EventuallyValidated ==
  \A u \in Uris, v \in 1..MaxVersion :
    Current(u, v) ~> (docs[u].astVersion = v \/ ~Current(u, v))

Quiescent == \A j \in Jobs : job[j].pc = "none"

\* When everything has settled, an open document shows what validating it against the
\* current index would report: no dependent falls through the gap between successive
\* edits.
DependentsFresh ==
  Quiescent => \A u \in Uris : docs[u].open => published[u].diag = Diagnose(docs[u].text)

\* When everything has settled, a closed file is indexed from disk: its discarded
\* buffer has left the index for good.
ClosedFollowsDisk ==
  Quiescent => \A u \in Uris : ~docs[u].open => index[u] = Defines[disk[u]]
=============================================================================
