---------------------------- MODULE DocSync_proofs ----------------------------
(* Machine-checked facts about the document pipeline, for every number of  *)
(* documents, jobs, versions and permits.                                  *)
EXTENDS DocSync, TLAPS

-----------------------------------------------------------------------------
(* Type correctness                                                        *)

\* Diagnosing a text yields symbols.
LEMMA DiagnoseType ==
  ASSUME TypeOK, NEW text \in Contents
  PROVE  Diagnose(text) \in SUBSET Symbols
BY DocSyncAssumption DEF TypeOK, Diagnose

\* The names of symbols are names.
LEMMA NamesOfType ==
  ASSUME NEW S \in SUBSET Symbols
  PROVE  NamesOf(S) \in SUBSET Names
BY DocSyncAssumption DEF NamesOf

\* A fresh job record is a job.
LEMMA IdleType == Idle \in Job
BY DocSyncAssumption DEF Idle, Job, PCs, Versions

\* The initial state has the right shape.
LEMMA InitType == Init => TypeOK
<1> SUFFICES ASSUME Init PROVE TypeOK
  OBVIOUS
<1>1. disk \in [Uris -> Contents]
  BY DEF Init
<1>2. docs \in [Uris -> Document]
  BY <1>1, DocSyncAssumption DEF Init, Document, Versions
<1>3. lastVersion \in [Uris -> Versions]
  BY <1>2 DEF Init, Document
<1>4. index \in [Uris -> SUBSET Symbols]
  BY <1>1, DocSyncAssumption DEF Init
<1>5. tokens \in [Uris -> SUBSET Names]
  <2>1. ASSUME NEW u \in Uris PROVE TokensOf(disk[u]) \in SUBSET Names
    BY <1>1, NamesOfType, DocSyncAssumption DEF TokensOf
  <2>2. QED
    BY <2>1 DEF Init
<1>6. published \in [Uris -> [version : Versions, diag : SUBSET Symbols]]
  <2>1. ASSUME NEW u \in Uris PROVE Diagnose(disk[u]) \in SUBSET Symbols
    BY <1>1, DocSyncAssumption DEF Diagnose
  <2>2. 0 \in Versions /\ 1 \in Versions
    BY DocSyncAssumption DEF Versions
  <2>3. QED
    BY <2>1, <2>2 DEF Init
<1>7. job = [j \in Jobs |-> Idle]
  BY DEF Init
<1>8. job \in [Jobs -> Job]
  BY <1>7, IdleType
<1>9. \A j \in Jobs : job[j].pc = "none"
  BY <1>7 DEF Idle
<1>10. debounce \in [Uris -> Jobs \cup {None}]
  BY DEF Init
<1>11. generation \in Nat /\ pending \in SUBSET Names /\ started \in 0..MaxJobs
  BY DocSyncAssumption DEF Init
<1>12. QED
  BY <1>1, <1>2, <1>3, <1>4, <1>5, <1>6, <1>8, <1>9, <1>10, <1>11 DEF TypeOK

\* The shape of the jobs, and of everything else.
JobsOK ==
  /\ job \in [Jobs -> Job]
  /\ \A j \in Jobs : job[j].pc # "none" => job[j].uri \in Uris

DataOK ==
  /\ docs \in [Uris -> Document]
  /\ lastVersion \in [Uris -> Versions]
  /\ disk \in [Uris -> Contents]
  /\ index \in [Uris -> SUBSET Symbols]
  /\ tokens \in [Uris -> SUBSET Names]
  /\ published \in [Uris -> [version : Versions, diag : SUBSET Symbols]]
  /\ debounce \in [Uris -> Jobs \cup {None}]
  /\ generation \in Nat
  /\ pending \in SUBSET Names
  /\ started \in 0..MaxJobs

\* TypeOK is the two together, now and in the next state.
LEMMA TypeParts ==
  /\ TypeOK <=> DataOK /\ JobsOK
  /\ TypeOK' <=> DataOK' /\ JobsOK'
BY DEF TypeOK, DataOK, JobsOK

\* Replacing one job by a well-shaped one keeps the jobs well shaped.
LEMMA ReplaceJob ==
  ASSUME JobsOK, NEW j \in Jobs, NEW new \in Job,
         new.pc # "none" => new.uri \in Uris,
         job' = [job EXCEPT ![j] = new]
  PROVE  JobsOK'
BY DEF JobsOK

\* So does moving a job to its next step.
LEMMA GotoType ==
  ASSUME JobsOK, NEW j \in Jobs, NEW pc \in PCs, job[j].pc # "none", Goto(j, pc)
  PROVE  JobsOK'
<1>1. [job[j] EXCEPT !.pc = pc] \in Job
  BY DEF JobsOK, Job
<1>2. [job[j] EXCEPT !.pc = pc].uri = job[j].uri
  BY DEF JobsOK, Job
<1>3. job' = [job EXCEPT ![j] = [job[j] EXCEPT !.pc = pc]]
  BY DEF Goto, JobsOK
<1>4. QED
  BY <1>1, <1>2, <1>3, ReplaceJob DEF JobsOK

\* An aborted job is still a job, of the same document and at the same step.
LEMMA AbortType ==
  ASSUME JobsOK, NEW j \in Jobs
  PROVE  /\ [job[j] EXCEPT !.aborted = TRUE] \in Job
         /\ [job[j] EXCEPT !.aborted = TRUE].uri = job[j].uri
         /\ [job[j] EXCEPT !.aborted = TRUE].pc = job[j].pc
BY DEF JobsOK, Job

\* A spawned validation is well shaped, and so is its registration.
LEMMA SpawnType ==
  ASSUME TypeOK, NEW u \in Uris, NEW version \in Versions, NEW gen \in Nat,
         SpawnDebouncedValidate(u, version, gen)
  PROVE  /\ JobsOK'
         /\ debounce' \in [Uris -> Jobs \cup {None}]
         /\ started' \in 0..MaxJobs
<1> DEFINE new == [Idle EXCEPT !.pc = "queued", !.uri = u, !.version = version, !.gen = gen]
<1>1. new \in Job /\ new.uri = u
  BY IdleType DEF Job, PCs
<1>2. JobsOK'
  <2>1. /\ job' = [j \in Jobs |-> job'[j]]
        /\ \A j \in Jobs : job'[j] = IF j = started + 1 THEN new
                                     ELSE IF j = debounce[u]
                                     THEN [job[j] EXCEPT !.aborted = TRUE]
                                     ELSE job[j]
    BY DEF SpawnDebouncedValidate
  <2>2. QED
    BY <1>1, <2>1, AbortType, TypeParts DEF JobsOK
<1>3. started + 1 \in Jobs /\ started + 1 \in 0..MaxJobs
  BY DocSyncAssumption DEF TypeOK, SpawnDebouncedValidate, Jobs
<1>4. QED
  BY <1>2, <1>3 DEF TypeOK, SpawnDebouncedValidate

\* Every step keeps the shape of the state.
LEMMA NextType == TypeOK /\ [Next]_vars => TypeOK'
<1> SUFFICES ASSUME TypeOK, [Next]_vars PROVE TypeOK'
  OBVIOUS
<1>0. CASE UNCHANGED vars
  BY <1>0 DEF vars, TypeOK
<1>1. ASSUME NEW u \in Uris, NEW text \in TextsOf[u], DidOpen(u, text) PROVE TypeOK'
  <2> DEFINE v == IF FreshVersions THEN lastVersion[u] + 1 ELSE 1
  <2>1. v \in Versions /\ 0 \in Versions
    BY <1>1, DocSyncAssumption DEF TypeOK, DidOpen, Versions
  <2>2. generation + 1 \in Nat /\ text \in Contents
    BY DocSyncAssumption DEF TypeOK
  <2>3. SpawnDebouncedValidate(u, v, generation + 1)
    BY <1>1 DEF DidOpen
  <2>4. [open |-> TRUE, version |-> v, text |-> text, astVersion |-> 0, ast |-> Blank]
          \in Document
    BY <2>1, <2>2, DocSyncAssumption DEF Document
  <2>5. JobsOK' /\ debounce' \in [Uris -> Jobs \cup {None}] /\ started' \in 0..MaxJobs
    BY <2>1, <2>2, <2>3, SpawnType
  <2>6. docs' \in [Uris -> Document] /\ lastVersion' \in [Uris -> Versions]
    BY <1>1, <2>1, <2>4 DEF DidOpen, TypeOK
  <2>7. DataOK'
    BY <1>1, <2>2, <2>5, <2>6 DEF DidOpen, TypeOK, DataOK
  <2>8. QED
    BY <2>5, <2>7, TypeParts
<1>2. ASSUME NEW u \in Uris, NEW text \in TextsOf[u], DidChange(u, text) PROVE TypeOK'
  <2> DEFINE v == docs[u].version + 1
  <2>1. v \in Versions
    BY <1>2, DocSyncAssumption DEF TypeOK, DidChange, Versions, Document
  <2>2. generation + 1 \in Nat /\ text \in Contents
    BY DocSyncAssumption DEF TypeOK
  <2>3. SpawnDebouncedValidate(u, v, generation + 1)
    BY <1>2 DEF DidChange
  <2>4. [docs[u] EXCEPT !.version = v, !.text = text] \in Document
    BY <2>1, <2>2 DEF Document, TypeOK
  <2>5. JobsOK' /\ debounce' \in [Uris -> Jobs \cup {None}] /\ started' \in 0..MaxJobs
    BY <2>1, <2>2, <2>3, SpawnType
  <2>6. docs' = [docs EXCEPT ![u] = [docs[u] EXCEPT !.version = v, !.text = text]]
    BY <1>2 DEF DidChange, TypeOK
  <2>7. docs' \in [Uris -> Document] /\ lastVersion' \in [Uris -> Versions]
    BY <1>2, <2>1, <2>4, <2>6 DEF DidChange, TypeOK
  <2>8. DataOK'
    BY <1>2, <2>2, <2>5, <2>7 DEF DidChange, TypeOK, DataOK
  <2>9. QED
    BY <2>5, <2>8, TypeParts
<1>3. ASSUME NEW u \in Uris, DidSave(u) PROVE TypeOK'
  <2>1. docs[u].version \in Versions /\ docs[u].text \in Contents /\ generation \in Nat
    BY DEF TypeOK, Document
  <2>2. JobsOK' /\ debounce' \in [Uris -> Jobs \cup {None}] /\ started' \in 0..MaxJobs
    BY <1>3, <2>1, SpawnType DEF DidSave
  <2>3. DataOK'
    BY <1>3, <2>1, <2>2 DEF DidSave, TypeOK, DataOK
  <2>4. QED
    BY <2>2, <2>3, TypeParts
<1>4. ASSUME NEW u \in Uris, DidClose(u) PROVE TypeOK'
  <2> DEFINE new == [Idle EXCEPT !.pc = "await", !.uri = u, !.closing = TRUE,
                                 !.awaits = debounce[u]]
  <2>1. new \in Job /\ new.uri = u
    BY IdleType DEF Job, PCs, TypeOK
  <2>2. JobsOK'
    <3>1. /\ job' = [j \in Jobs |-> job'[j]]
          /\ \A j \in Jobs : job'[j] = IF j = started + 1 THEN new
                                       ELSE IF j = debounce[u]
                                       THEN [job[j] EXCEPT !.aborted = TRUE]
                                       ELSE job[j]
      BY <1>4 DEF DidClose
    <3>2. QED
      BY <2>1, <3>1, AbortType, TypeParts DEF JobsOK
  <2>3. [open |-> FALSE, version |-> 0, text |-> Blank, astVersion |-> 0, ast |-> Blank]
          \in Document
    BY DocSyncAssumption DEF Document, Versions
  <2>4. started + 1 \in 0..MaxJobs
    BY <1>4, DocSyncAssumption DEF TypeOK, DidClose
  <2>5. DataOK'
    BY <1>4, <2>3, <2>4 DEF DidClose, TypeOK, DataOK
  <2>6. QED
    BY <2>2, <2>5, TypeParts
<1>5. ASSUME NEW j \in Jobs, BeginValidate(j) PROVE TypeOK'
  <2> DEFINE u == job[j].uri
             begun == [job[j] EXCEPT !.pc = "parse", !.text = docs[u].text,
                                     !.before = index[u]]
             left == [job[j] EXCEPT !.pc = "over"]
  <2>1. JobsOK /\ u \in Uris /\ docs[u] \in Document /\ index[u] \in SUBSET Symbols
          /\ job[j] \in Job
    BY <1>5 DEF TypeOK, BeginValidate, JobsOK
  <2>2. begun \in Job /\ begun.uri = job[j].uri
    BY <2>1 DEF Job, PCs, Holding, Document
  <2>3. left \in Job /\ left.uri = job[j].uri
    BY <2>1 DEF Job, PCs, Holding
  <2>4. job' = [job EXCEPT ![j] = IF Current(u, job[j].version) THEN begun ELSE left]
    BY <1>5 DEF BeginValidate
  <2>5. JobsOK'
    BY <2>1, <2>2, <2>3, <2>4, ReplaceJob
  <2>6. DataOK'
    BY <1>5, TypeParts DEF BeginValidate, DataOK
  <2>7. QED
    BY <2>5, <2>6, TypeParts
<1>6. ASSUME NEW j \in Jobs, IndexParsedFile(j) PROVE TypeOK'
  <2>1. JobsOK'
    BY <1>6, GotoType, TypeParts DEF IndexParsedFile, PCs, Holding
  <2>2. job[j].text \in Contents
    BY TypeParts DEF JobsOK, Job
  <2>3. Defines[job[j].text] \in SUBSET Symbols
    BY <2>2, DocSyncAssumption
  <2>4. DataOK'
    BY <1>6, <2>3, TypeParts DEF IndexParsedFile, DataOK
  <2>5. QED
    BY <2>1, <2>4, TypeParts
<1>7. ASSUME NEW j \in Jobs, ValidateText(j) PROVE TypeOK'
  <2> DEFINE new == [job[j] EXCEPT !.pc = "store", !.diag = Diagnose(job[j].text)]
  <2>1. job[j] \in Job /\ job[j].pc # "none" /\ job[j].uri \in Uris
    BY <1>7, TypeParts DEF ValidateText, JobsOK
  <2>2. job[j].text \in Contents
    BY <2>1 DEF Job
  <2>3. Diagnose(job[j].text) \in SUBSET Symbols /\ TokensOf(job[j].text) \in SUBSET Names
    BY <2>2, DiagnoseType, NamesOfType, DocSyncAssumption DEF TokensOf
  <2>4. new \in Job /\ new.uri \in Uris
    BY <2>1, <2>3 DEF Job, PCs, Holding
  <2>5. job' = [job EXCEPT ![j] = new]
    BY <1>7 DEF ValidateText
  <2>6. JobsOK'
    BY <2>4, <2>5, TypeParts, ReplaceJob
  <2>7. DataOK'
    BY <1>7, <2>3, TypeParts DEF ValidateText, DataOK
  <2>8. QED
    BY <2>6, <2>7, TypeParts
<1>8. ASSUME NEW j \in Jobs, StoreAst(j) PROVE TypeOK'
  <2> DEFINE u == job[j].uri
             stored == [docs[u] EXCEPT !.astVersion = job[j].version, !.ast = job[j].text]
  <2>1. JobsOK'
    BY <1>8, GotoType, TypeParts DEF StoreAst, PCs, Holding
  <2>2. u \in Uris /\ job[j].version \in Versions /\ job[j].text \in Contents
    BY <1>8, TypeParts DEF StoreAst, JobsOK, Job
  <2>3. stored \in Document
    <3>1. docs[u] \in Document
      BY <2>2, TypeParts DEF DataOK
    <3>2. QED
      BY <2>2, <3>1 DEF Document
  <2>4. docs' = docs \/ docs' = [docs EXCEPT ![u] = stored]
    BY <1>8, <2>2, TypeParts DEF StoreAst, DataOK
  <2>5. DataOK'
    <3>1. docs' \in [Uris -> Document]
      BY <2>2, <2>3, <2>4, TypeParts DEF DataOK
    <3>2. QED
      BY <1>8, <3>1, TypeParts DEF StoreAst, DataOK
  <2>6. QED
    BY <2>1, <2>5, TypeParts
<1>9. ASSUME NEW j \in Jobs, PublishOwn(j) PROVE TypeOK'
  <2>1. JobsOK'
    BY <1>9, GotoType, TypeParts DEF PublishOwn, PCs, Holding
  <2>2. job[j].version \in Versions /\ job[j].diag \in SUBSET Symbols
    BY TypeParts DEF JobsOK, Job
  <2>3. DataOK'
    BY <1>9, <2>2, TypeParts DEF PublishOwn, DataOK
  <2>4. QED
    BY <2>1, <2>3, TypeParts
<1>10. ASSUME NEW j \in Jobs, Cancel(j) PROVE TypeOK'
  <2>1. JobsOK'
    BY <1>10, GotoType, TypeParts DEF Cancel, PCs, Holding
  <2>2. DataOK'
    BY <1>10, TypeParts DEF DataOK, Cancel
  <2>3. QED
    BY <2>1, <2>2, TypeParts
<1>11. ASSUME NEW j \in Jobs, CloseAwait(j) PROVE TypeOK'
  <2>1. JobsOK'
    BY <1>11, GotoType, TypeParts DEF CloseAwait, PCs, Holding
  <2>2. DataOK'
    BY <1>11, TypeParts DEF DataOK, CloseAwait
  <2>3. QED
    BY <2>1, <2>2, TypeParts
<1>12. ASSUME NEW j \in Jobs, CloseBegin(j) PROVE TypeOK'
  <2> DEFINE new == [job[j] EXCEPT !.pc = "read", !.before = index[job[j].uri]]
  <2>1. job[j] \in Job /\ job[j].pc # "none" /\ job[j].uri \in Uris
    BY <1>12, TypeParts DEF CloseBegin, JobsOK
  <2>0. index[job[j].uri] \in SUBSET Symbols
    BY <2>1, TypeParts DEF DataOK
  <2>2. new \in Job /\ new.uri \in Uris
    BY <2>1, <2>0 DEF Job, PCs, Holding
  <2>3. job' = [job EXCEPT ![j] = new]
    BY <1>12 DEF CloseBegin
  <2>4. JobsOK'
    BY <2>1, <2>2, <2>3, TypeParts, ReplaceJob
  <2>5. DataOK'
    BY <1>12, <2>1, TypeParts DEF DataOK, CloseBegin
  <2>6. QED
    BY <2>4, <2>5, TypeParts
<1>13. ASSUME NEW j \in Jobs, CloseReadDisk(j) PROVE TypeOK'
  <2> DEFINE new == [job[j] EXCEPT !.pc = "restore", !.text = disk[job[j].uri]]
  <2>1. job[j] \in Job /\ job[j].pc # "none" /\ job[j].uri \in Uris
    BY <1>13, TypeParts DEF CloseReadDisk, JobsOK
  <2>0. disk[job[j].uri] \in Contents
    BY <2>1, TypeParts DEF DataOK
  <2>2. new \in Job /\ new.uri \in Uris
    BY <2>1, <2>0 DEF Job, PCs, Holding
  <2>3. job' = [job EXCEPT ![j] = new]
    BY <1>13 DEF CloseReadDisk
  <2>4. JobsOK'
    BY <2>1, <2>2, <2>3, TypeParts, ReplaceJob
  <2>5. DataOK'
    BY <1>13, <2>1, TypeParts DEF DataOK, CloseReadDisk
  <2>6. QED
    BY <2>4, <2>5, TypeParts
<1>14. ASSUME NEW j \in Jobs, CloseRestore(j) PROVE TypeOK'
  <2> DEFINE u == job[j].uri
             new == [job[j] EXCEPT !.pc = "recheck", !.gen = generation + 1,
                                   !.after = Defines[job[j].text]]
  <2>1. job[j] \in Job /\ job[j].pc # "none" /\ u \in Uris
    BY <1>14, TypeParts DEF CloseRestore, JobsOK
  <2>2. generation + 1 \in Nat /\ Defines[job[j].text] \in SUBSET Symbols
    BY <2>1, TypeParts, DocSyncAssumption DEF DataOK, Job
  <2>3. new \in Job /\ new.uri = u
    BY <2>1, <2>2 DEF Job, PCs, Holding
  <2>4. JobsOK'
    <3>1. CASE docs[u].open
      BY <1>14, <2>1, <3>1, TypeParts, GotoType DEF CloseRestore, PCs
    <3>2. CASE ~docs[u].open
      <4>1. job' = [job EXCEPT ![j] = new]
        BY <1>14, <3>2, TypeParts DEF CloseRestore, JobsOK
      <4>2. QED
        BY <2>1, <2>3, <4>1, TypeParts, ReplaceJob
    <3>3. QED
      BY <3>1, <3>2
  <2>5. DataOK'
    BY <1>14, <2>2, TypeParts DEF CloseRestore, DataOK
  <2>6. QED
    BY <2>4, <2>5, TypeParts
<1>15. ASSUME NEW j \in Jobs, CloseRecheck(j) PROVE TypeOK'
  <2>1. JobsOK'
    BY <1>15, GotoType, TypeParts DEF CloseRecheck, PCs, Holding
  <2>2. DataOK'
    BY <1>15, TypeParts DEF DataOK, CloseRecheck
  <2>3. QED
    BY <2>1, <2>2, TypeParts
<1>16. ASSUME NEW j \in Jobs, CloseClear(j) PROVE TypeOK'
  <2>1. JobsOK'
    BY <1>16, GotoType, TypeParts DEF CloseClear, PCs, Holding
  <2>2. DataOK'
    <3>1. [version |-> 0, diag |-> {}] \in [version : Versions, diag : SUBSET Symbols]
      BY DocSyncAssumption DEF Versions
    <3>2. QED
      BY <1>16, <3>1, TypeParts DEF DataOK, CloseClear
  <2>3. QED
    BY <2>1, <2>2, TypeParts
<1>17. ASSUME NEW j \in Jobs, Drain(j) PROVE TypeOK'
  <2> DEFINE u == job[j].uri
             after == IF job[j].closing THEN job[j].after ELSE index[u]
             before == job[j].before
             moved == (NamesOf(before) \ NamesOf(after)) \cup (NamesOf(after) \ NamesOf(before))
             names == moved \cup pending
             todo == {SnapshotOf(d) : d \in Dependents(u, names, names = {})}
             swept == [job[j] EXCEPT !.pc = "sweep", !.names = names, !.all = (names = {}),
                                     !.todo = todo]
             left == [job[j] EXCEPT !.pc = "over"]
             sweeps == (before # after \/ names # {}) /\ todo # {}
  <2>1. job[j] \in Job /\ u \in Uris
    BY <1>17, TypeParts DEF Drain, JobsOK
  <2>2. before \in SUBSET Symbols /\ after \in SUBSET Symbols
    BY <2>1, TypeParts DEF Job, DataOK
  <2>3. names \in SUBSET Names
    BY <2>2, NamesOfType, TypeParts DEF DataOK
  <2>4. ASSUME NEW d \in Uris PROVE SnapshotOf(d) \in Snapshot
    BY TypeParts DEF DataOK, Document, SnapshotOf, Snapshot
  <2>5. todo \in SUBSET Snapshot
    BY <2>4 DEF Dependents
  <2>6. (names = {}) \in BOOLEAN
    OBVIOUS
  <2> HIDE DEF names, todo, sweeps
  <2>7. swept \in Job /\ swept.uri = u
    BY <2>1, <2>3, <2>5, <2>6 DEF Job, PCs, Holding
  <2>8. left \in Job /\ left.uri = u
    BY <2>1 DEF Job, PCs
  <2>9. job' = [job EXCEPT ![j] = IF sweeps THEN swept ELSE left]
    BY <1>17 DEF Drain, names, todo, sweeps
  <2>10. JobsOK'
    BY <2>1, <2>7, <2>8, <2>9, TypeParts, ReplaceJob
  <2>11. DataOK'
    BY <1>17, TypeParts DEF Drain, DataOK
  <2>12. QED
    BY <2>10, <2>11, TypeParts
<1>18. ASSUME NEW j \in Jobs, SweepOne(j) PROVE TypeOK'
  <2>1. job[j] \in Job /\ job[j].uri \in Uris
    BY <1>18, TypeParts DEF SweepOne, JobsOK
  <2>2. PICK d \in job[j].todo :
          job' = [job EXCEPT
                   ![j].todo = @ \ {d},
                   ![j].ready = @ \cup {[uri |-> d.uri, version |-> d.version,
                                         diag |-> Diagnose(d.text)]},
                   ![j].pc = IF job[j].todo = {d} THEN "filter" ELSE "sweep"]
    BY <1>18 DEF SweepOne
  <2> DEFINE result == [uri |-> d.uri, version |-> d.version, diag |-> Diagnose(d.text)]
             new == [job[j] EXCEPT !.todo = @ \ {d}, !.ready = @ \cup {result},
                                   !.pc = IF job[j].todo = {d} THEN "filter" ELSE "sweep"]
  <2>3. d \in Snapshot
    BY <2>1 DEF Job
  <2>4. d.uri \in Uris /\ d.version \in Versions /\ d.text \in Contents
    BY <2>3 DEF Snapshot
  <2>5. result \in Result
    BY <2>4, DiagnoseType DEF Result
  <2> HIDE DEF result
  <2>6. new \in Job /\ new.uri = job[j].uri
    BY <2>1, <2>5 DEF Job, PCs, Holding
  <2>7. job' = [job EXCEPT ![j] = new]
    BY <2>2, TypeParts DEF result, JobsOK
  <2>8. JobsOK'
    BY <2>1, <2>6, <2>7, TypeParts, ReplaceJob
  <2>9. DataOK'
    BY <1>18, TypeParts DEF SweepOne, DataOK
  <2>10. QED
    BY <2>8, <2>9, TypeParts
<1>19. ASSUME NEW j \in Jobs, SweepPreempted(j) PROVE TypeOK'
  <2>1. JobsOK'
    BY <1>19, GotoType, TypeParts DEF SweepPreempted, PCs, Holding
  <2>2. job[j].names \in SUBSET Names
    BY TypeParts DEF JobsOK, Job
  <2>3. DataOK'
    BY <1>19, <2>2, TypeParts DEF DataOK, SweepPreempted
  <2>4. QED
    BY <2>1, <2>3, TypeParts
<1>20. ASSUME NEW j \in Jobs, FilterCurrent(j) PROVE TypeOK'
  <2> DEFINE keep == {r \in job[j].ready : Current(r.uri, r.version)}
             new == [job[j] EXCEPT !.ready = keep, !.todo = {},
                                   !.pc = IF keep = {} THEN "over" ELSE "flush"]
  <2>1. job[j] \in Job /\ job[j].uri \in Uris
    BY <1>20, TypeParts DEF FilterCurrent, JobsOK
  <2>2. keep \in SUBSET Result
    BY <2>1 DEF Job
  <2> HIDE DEF keep
  <2>3. new \in Job /\ new.uri = job[j].uri
    BY <2>1, <2>2 DEF Job, PCs, Holding
  <2>4. job' = [job EXCEPT ![j] = new]
    BY <1>20, TypeParts DEF FilterCurrent, keep, JobsOK
  <2>5. JobsOK'
    BY <2>1, <2>3, <2>4, TypeParts, ReplaceJob
  <2>6. DataOK'
    BY <1>20, TypeParts DEF FilterCurrent, DataOK
  <2>7. QED
    BY <2>5, <2>6, TypeParts
<1>21. ASSUME NEW j \in Jobs, PublishDependent(j) PROVE TypeOK'
  <2>1. job[j] \in Job /\ job[j].uri \in Uris
    BY <1>21, TypeParts DEF PublishDependent, JobsOK
  <2>2. PICK r \in job[j].ready :
          /\ published' = [published EXCEPT ![r.uri] = [version |-> r.version, diag |-> r.diag]]
          /\ job' = [job EXCEPT ![j].ready = @ \ {r},
                                ![j].pc = IF job[j].ready = {r} THEN "over" ELSE "flush"]
    BY <1>21 DEF PublishDependent
  <2> DEFINE new == [job[j] EXCEPT !.ready = @ \ {r},
                                   !.pc = IF job[j].ready = {r} THEN "over" ELSE "flush"]
  <2>3. r \in Result
    BY <2>1 DEF Job
  <2>4. [version |-> r.version, diag |-> r.diag] \in [version : Versions, diag : SUBSET Symbols]
    BY <2>3 DEF Result
  <2>5. new \in Job /\ new.uri = job[j].uri
    BY <2>1 DEF Job, PCs, Holding
  <2>6. job' = [job EXCEPT ![j] = new]
    BY <2>2, TypeParts DEF JobsOK
  <2>7. JobsOK'
    BY <2>1, <2>5, <2>6, TypeParts, ReplaceJob
  <2>8. DataOK'
    BY <1>21, <2>2, <2>4, TypeParts DEF PublishDependent, DataOK
  <2>9. QED
    BY <2>7, <2>8, TypeParts
<1>22. ASSUME NEW j \in Jobs, Finish(j) PROVE TypeOK'
  <2>1. Idle.pc = "none"
    BY DEF Idle
  <2>2. JobsOK'
    BY <1>22, <2>1, IdleType, ReplaceJob, TypeParts DEF Finish
  <2>3. DataOK'
    BY <1>22, TypeParts DEF Finish, RemoveDebounceTask, DataOK
  <2>4. QED
    BY <2>2, <2>3, TypeParts
<1>23. QED
  BY <1>0, <1>1, <1>2, <1>3, <1>4, <1>5, <1>6, <1>7, <1>8, <1>9, <1>10, <1>11, <1>12, <1>13, <1>14, <1>15, <1>16, <1>17, <1>18, <1>19, <1>20, <1>21, <1>22,
     DocSyncAssumption DEF Next, Client, JobStep

\* Every reachable state of the pipeline has the right shape, whatever the number of
\* documents, jobs, versions and permits.
THEOREM TypeCorrect == Spec => []TypeOK
<1>1. Init => TypeOK
  BY InitType
<1>2. TypeOK /\ [Next]_vars => TypeOK'
  BY NextType
<1>3. QED
  BY <1>1, <1>2, PTL DEF Spec
-----------------------------------------------------------------------------
(* The registration of the live validation                                 *)

\* What a step within a job leaves alone in every job.
SameLife ==
  \A k \in Jobs : /\ job[k].pc = "none" => job'[k].pc = "none"
                  /\ job'[k].uri = job[k].uri
                  /\ job'[k].closing = job[k].closing
                  /\ job'[k].aborted = job[k].aborted

\* Moving a job on leaves its document and its abort flag alone.
LEMMA GotoKeepsLife ==
  ASSUME TypeOK, NEW j \in Jobs, NEW pc, job[j].pc # "none", Goto(j, pc)
  PROVE  SameLife
BY DEF TypeOK, SameLife, Goto

\* A step of a job other than its clean-up changes no document it works on, no abort
\* flag and no registration.
LEMMA JobStepKeepsLife ==
  ASSUME TypeOK, NEW j \in Jobs, JobStep(j), ~Finish(j)
  PROVE  SameLife /\ debounce' = debounce
<1>1. CASE BeginValidate(j)
  BY <1>1 DEF TypeOK, SameLife, BeginValidate
<1>2. CASE IndexParsedFile(j)
  BY <1>2, GotoKeepsLife DEF IndexParsedFile
<1>3. CASE ValidateText(j)
  BY <1>3 DEF TypeOK, SameLife, ValidateText
<1>4. CASE StoreAst(j)
  <2>1. (Goto(j, "publish") \/ Goto(j, "over")) /\ job[j].pc # "none" /\ debounce' = debounce
    BY <1>4 DEF StoreAst
  <2>2. QED
    BY <2>1, GotoKeepsLife
<1>5. CASE PublishOwn(j)
  BY <1>5, GotoKeepsLife DEF PublishOwn
<1>6. CASE Cancel(j)
  BY <1>6, GotoKeepsLife DEF Cancel
<1>7. CASE CloseAwait(j)
  BY <1>7, GotoKeepsLife DEF CloseAwait
<1>8. CASE CloseBegin(j)
  BY <1>8 DEF TypeOK, SameLife, CloseBegin
<1>9. CASE CloseReadDisk(j)
  BY <1>9 DEF TypeOK, SameLife, CloseReadDisk
<1>10. CASE CloseRestore(j)
  <2>1. CASE docs[job[j].uri].open
    BY <1>10, <2>1, GotoKeepsLife DEF CloseRestore
  <2>2. CASE ~docs[job[j].uri].open
    <3>1. /\ job' = [job EXCEPT ![j].pc = "recheck", ![j].gen = generation + 1,
                               ![j].after = Defines[job[j].text]]
          /\ job[j].pc # "none" /\ debounce' = debounce
      BY <1>10, <2>2 DEF CloseRestore
    <3>2. QED
      BY <3>1 DEF TypeOK, SameLife
  <2>3. QED
    BY <2>1, <2>2
<1>11. CASE CloseRecheck(j)
  BY <1>11, GotoKeepsLife DEF CloseRecheck
<1>12. CASE CloseClear(j)
  BY <1>12, GotoKeepsLife DEF CloseClear
<1>13. CASE Drain(j)
  BY <1>13 DEF TypeOK, SameLife, Drain
<1>14. CASE SweepOne(j)
  BY <1>14 DEF TypeOK, SameLife, SweepOne
<1>15. CASE SweepPreempted(j)
  BY <1>15, GotoKeepsLife DEF SweepPreempted
<1>16. CASE FilterCurrent(j)
  <2> DEFINE keep == {r \in job[j].ready : Current(r.uri, r.version)}
  <2>1. /\ job' = [job EXCEPT ![j].ready = keep, ![j].todo = {},
                             ![j].pc = IF keep = {} THEN "over" ELSE "flush"]
        /\ job[j].pc = "filter" /\ debounce' = debounce
    BY <1>16 DEF FilterCurrent
  <2> HIDE DEF keep
  <2>2. QED
    BY <2>1 DEF TypeOK, SameLife
<1>17. CASE PublishDependent(j)
  BY <1>17 DEF TypeOK, SameLife, PublishDependent
<1>18. QED
  BY <1>1, <1>2, <1>3, <1>4, <1>5, <1>6, <1>7, <1>8, <1>9, <1>10, <1>11, <1>12, <1>13, <1>14, <1>15, <1>16, <1>17 DEF JobStep

\* A spawned validation is the registered one, and its predecessor is aborted.
LEMMA SpawnRegisters ==
  ASSUME TypeOK, Registered, NEW u \in Uris, NEW version, NEW gen,
         SpawnDebouncedValidate(u, version, gen)
  PROVE  Registered'
<1>1. SUFFICES ASSUME NEW k \in Jobs, Live(k)' PROVE debounce'[job'[k].uri] = k
  BY DEF Registered
<1>2. CASE k = started + 1
  BY <1>2 DEF SpawnDebouncedValidate, TypeOK, Idle
<1>3. CASE k # started + 1
  <2>1. k # debounce[u]
    BY <1>1, <1>3 DEF SpawnDebouncedValidate, Live, TypeOK, Job
  <2>2. job'[k] = job[k]
    BY <1>3, <2>1 DEF SpawnDebouncedValidate
  <2>3. Live(k) /\ job[k].uri \in Uris
    BY <1>1, <2>2 DEF Live, TypeOK
  <2>4. debounce[job[k].uri] = k
    BY <2>3 DEF Registered
  <2>5. job[k].uri # u
    BY <2>1, <2>4
  <2>6. QED
    BY <2>2, <2>3, <2>4, <2>5 DEF SpawnDebouncedValidate, TypeOK
<1>4. QED
  BY <1>2, <1>3

\* Every step keeps the live validation of a document registered.
LEMMA NextRegistered == TypeOK /\ Registered /\ [Next]_vars => Registered'
<1> SUFFICES ASSUME TypeOK, Registered, [Next]_vars PROVE Registered'
  OBVIOUS
<1>1. CASE UNCHANGED vars
  BY <1>1 DEF vars, Registered, Live
<1>2. ASSUME NEW u \in Uris, NEW text \in TextsOf[u], DidOpen(u, text) \/ DidChange(u, text)
      PROVE Registered'
  BY <1>2, SpawnRegisters DEF DidOpen, DidChange
<1>3. ASSUME NEW u \in Uris, DidSave(u) PROVE Registered'
  BY <1>3, SpawnRegisters DEF DidSave
<1>4. ASSUME NEW u \in Uris, DidClose(u) PROVE Registered'
  <2>1. SUFFICES ASSUME NEW k \in Jobs, Live(k)' PROVE debounce'[job'[k].uri] = k
    BY DEF Registered
  <2>2. k # started + 1
    BY <1>4, <2>1 DEF DidClose, Live, TypeOK, Idle
  <2>3. k # debounce[u]
    BY <1>4, <2>1, <2>2 DEF DidClose, Live, TypeOK, Job
  <2>4. job'[k] = job[k]
    BY <1>4, <2>2, <2>3 DEF DidClose
  <2>5. Live(k) /\ job[k].uri \in Uris
    BY <2>1, <2>4 DEF Live, TypeOK
  <2>6. debounce[job[k].uri] = k
    BY <2>5 DEF Registered
  <2>7. QED
    BY <1>4, <2>3, <2>4, <2>5, <2>6 DEF DidClose, TypeOK
<1>5. ASSUME NEW j \in Jobs, JobStep(j), ~Finish(j) PROVE Registered'
  <2>1. SameLife /\ debounce' = debounce
    BY <1>5, JobStepKeepsLife
  <2>2. QED
    BY <2>1 DEF SameLife, Registered, Live
<1>6. ASSUME NEW j \in Jobs, Finish(j) PROVE Registered'
  <2>1. SUFFICES ASSUME NEW k \in Jobs, Live(k)' PROVE debounce'[job'[k].uri] = k
    BY DEF Registered
  <2>2. k # j
    BY <1>6, <2>1 DEF Finish, Live, TypeOK, Idle
  <2>3. job'[k] = job[k]
    BY <1>6, <2>2 DEF Finish, TypeOK
  <2>4. Live(k) /\ debounce[job[k].uri] = k
    BY <2>1, <2>3 DEF Live, Registered
  <2>5. QED
    BY <1>6, <2>2, <2>3, <2>4 DEF Finish, RemoveDebounceTask, TypeOK
<1>7. QED
  BY <1>1, <1>2, <1>3, <1>4, <1>5, <1>6, DocSyncAssumption DEF Next, Client

\* A validation that is still going and that nobody aborted is always the registered one
\* of its document, so an edit or a close always finds the task it has to abort.
THEOREM RegisteredHolds == Spec => []Registered
<1>1. Init => Registered
  BY DEF Init, Registered, Live, Idle
<1>2. TypeOK /\ Registered /\ [Next]_vars => Registered'
  BY NextRegistered
<1>3. QED
  BY <1>1, <1>2, TypeCorrect, PTL DEF Spec
-----------------------------------------------------------------------------
(* The stored AST of an open document                                      *)

\* Steps at which a job holds the text it validates.
Parsed == {"parse", "validate", "store"}

\* The inductive strengthening of AstCoherent: version numbers only grow, and a job that
\* is still at the version of its document has read the text of that version.
VersionInv ==
  /\ \A u \in Uris : docs[u].open => docs[u].version = lastVersion[u]
  /\ \A u \in Uris : docs[u].astVersion <= docs[u].version
  /\ \A j \in Jobs : job[j].pc # "none" => job[j].version <= lastVersion[job[j].uri]
  /\ \A j \in Jobs : job[j].pc \in Parsed /\ Current(job[j].uri, job[j].version)
                       => job[j].text = docs[job[j].uri].text
  /\ AstCoherent

\* What a step leaves alone in every job, as far as versions and texts go.
SameText ==
  \A k \in Jobs : /\ job'[k].pc # "none" => /\ job[k].pc # "none"
                                            /\ job'[k].uri = job[k].uri
                                            /\ job'[k].version = job[k].version
                  /\ job'[k].pc \in Parsed => /\ job[k].pc \in Parsed
                                              /\ job'[k].text = job[k].text

\* Moving a job on leaves versions and texts alone, unless it enters the parse.
LEMMA GotoKeepsText ==
  ASSUME TypeOK, NEW j \in Jobs, NEW pc, job[j].pc # "none", Goto(j, pc),
         pc \in Parsed => job[j].pc \in Parsed
  PROVE  SameText
BY DEF TypeOK, SameText, Goto

\* Every other step of a job, too, leaves versions, texts and documents alone.
LEMMA JobStepKeepsText ==
  ASSUME TypeOK, NEW j \in Jobs, JobStep(j), ~BeginValidate(j), ~StoreAst(j)
  PROVE  SameText /\ UNCHANGED <<docs, lastVersion>>
<1>1. CASE IndexParsedFile(j)
  BY <1>1, GotoKeepsText DEF IndexParsedFile, Parsed
<1>2. CASE PublishOwn(j)
  BY <1>2, GotoKeepsText DEF PublishOwn, Parsed
<1>3. CASE Cancel(j)
  BY <1>3, GotoKeepsText DEF Cancel, Parsed
<1>4. CASE CloseAwait(j)
  BY <1>4, GotoKeepsText DEF CloseAwait, Parsed
<1>5. CASE CloseRecheck(j)
  BY <1>5, GotoKeepsText DEF CloseRecheck, Parsed
<1>6. CASE CloseClear(j)
  BY <1>6, GotoKeepsText DEF CloseClear, Parsed
<1>7. CASE SweepPreempted(j)
  BY <1>7, GotoKeepsText DEF SweepPreempted, Parsed
<1>8. CASE ValidateText(j)
  BY <1>8 DEF TypeOK, SameText, ValidateText, Parsed
<1>9. CASE CloseBegin(j)
  BY <1>9 DEF TypeOK, SameText, CloseBegin, Parsed
<1>10. CASE CloseReadDisk(j)
  BY <1>10 DEF TypeOK, SameText, CloseReadDisk, Parsed
<1>11. CASE Drain(j)
  BY <1>11 DEF TypeOK, SameText, Drain, Parsed
<1>12. CASE SweepOne(j)
  BY <1>12 DEF TypeOK, SameText, SweepOne, Parsed
<1>13. CASE PublishDependent(j)
  BY <1>13 DEF TypeOK, SameText, PublishDependent, Parsed
<1>14. CASE CloseRestore(j)
  <2>1. CASE docs[job[j].uri].open
    BY <1>14, <2>1, GotoKeepsText DEF CloseRestore, Parsed
  <2>2. CASE ~docs[job[j].uri].open
    <3>1. /\ job' = [job EXCEPT ![j].pc = "recheck", ![j].gen = generation + 1,
                               ![j].after = Defines[job[j].text]]
          /\ job[j].pc # "none" /\ UNCHANGED <<docs, lastVersion>>
      BY <1>14, <2>2 DEF CloseRestore
    <3>2. QED
      BY <3>1 DEF TypeOK, SameText, Parsed
  <2>3. QED
    BY <2>1, <2>2
<1>15. CASE FilterCurrent(j)
  <2> DEFINE keep == {r \in job[j].ready : Current(r.uri, r.version)}
  <2>1. /\ job' = [job EXCEPT ![j].ready = keep, ![j].todo = {},
                             ![j].pc = IF keep = {} THEN "over" ELSE "flush"]
        /\ job[j].pc = "filter" /\ UNCHANGED <<docs, lastVersion>>
    BY <1>15 DEF FilterCurrent
  <2> HIDE DEF keep
  <2>2. QED
    BY <2>1 DEF TypeOK, SameText, Parsed
<1>16. CASE Finish(j)
  BY <1>16 DEF TypeOK, SameText, Finish, Idle, Parsed
<1>17. QED
  BY <1>1, <1>2, <1>3, <1>4, <1>5, <1>6, <1>7, <1>8, <1>9, <1>10, <1>11, <1>12, <1>13, <1>14, <1>15, <1>16 DEF JobStep

\* The jobs after a spawn: a new one at the version just given, the others as they were.
LEMMA SpawnKeepsText ==
  ASSUME TypeOK, NEW u \in Uris, NEW version \in Versions, NEW gen \in Nat,
         SpawnDebouncedValidate(u, version, gen), NEW k \in Jobs, job'[k].pc # "none"
  PROVE  \/ job'[k].pc = "queued" /\ job'[k].uri = u /\ job'[k].version = version
         \/ /\ job[k].pc # "none" /\ job'[k].pc = job[k].pc
            /\ job'[k].uri = job[k].uri /\ job'[k].version = job[k].version
            /\ job'[k].text = job[k].text
<1>1. CASE k = started + 1
  BY <1>1 DEF SpawnDebouncedValidate, Idle
<1>2. CASE k # started + 1
  <2>1. job'[k] = job[k] \/ job'[k] = [job[k] EXCEPT !.aborted = TRUE]
    BY <1>2 DEF SpawnDebouncedValidate
  <2>2. QED
    BY <2>1 DEF TypeOK, Job
<1>3. QED
  BY <1>1, <1>2

\* A step that gives a document a new text under a version never used before keeps
\* the invariant.
LEMMA FreshTextKeepsVersions ==
  ASSUME TypeOK, VersionInv, NEW u \in Uris, NEW v \in Versions, NEW gen \in Nat,
         v = lastVersion[u] + 1,
         SpawnDebouncedValidate(u, v, gen),
         lastVersion' = [lastVersion EXCEPT ![u] = v],
         docs' = [docs EXCEPT ![u] = docs'[u]],
         docs'[u] \in Document, docs'[u].version = v, docs'[u].astVersion < v
  PROVE  VersionInv'
<1>0. /\ docs \in [Uris -> Document] /\ lastVersion \in [Uris -> Versions]
      /\ lastVersion[u] \in Nat /\ v \in Nat
  BY DocSyncAssumption DEF TypeOK, Versions
<1>1. \A w \in Uris : w # u => docs'[w] = docs[w] /\ lastVersion'[w] = lastVersion[w]
  BY <1>0
<1>2. lastVersion'[u] = v
  BY <1>0
<1>3. (\A w \in Uris : docs[w].open => docs[w].version = lastVersion[w])'
  BY <1>1, <1>2 DEF VersionInv
<1>4. (\A w \in Uris : docs[w].astVersion <= docs[w].version)'
  BY <1>0, <1>1 DEF VersionInv, Document, Versions
<1>5. ASSUME NEW k \in Jobs, job'[k].pc # "none"
      PROVE  /\ job'[k].version <= lastVersion'[job'[k].uri]
             /\ job'[k].pc \in Parsed /\ Current(job[k].uri, job[k].version)'
                  => job'[k].text = docs'[job'[k].uri].text
  <2>1. CASE job'[k].pc = "queued" /\ job'[k].uri = u /\ job'[k].version = v
    BY <1>0, <1>2, <2>1 DEF Parsed
  <2>2. CASE /\ job[k].pc # "none" /\ job'[k].pc = job[k].pc
             /\ job'[k].uri = job[k].uri /\ job'[k].version = job[k].version
             /\ job'[k].text = job[k].text
    <3>1. /\ job[k].uri \in Uris /\ job[k].version \in Nat
          /\ lastVersion[job[k].uri] \in Nat
          /\ job[k].version <= lastVersion[job[k].uri]
      BY <2>2, DocSyncAssumption DEF VersionInv, TypeOK, Job, Versions
    <3>2. CASE job[k].uri = u
      BY <1>0, <1>2, <2>2, <3>1, <3>2 DEF Current
    <3>3. CASE job[k].uri # u
      BY <1>1, <2>2, <3>1, <3>3 DEF VersionInv, Current
    <3>4. QED
      BY <3>2, <3>3
  <2>3. QED
    BY <1>5, <2>1, <2>2, SpawnKeepsText
<1>6. AstCoherent'
  BY <1>0, <1>1 DEF VersionInv, AstCoherent, Document, Versions
<1>7. \A k \in Jobs : job'[k].pc \in Parsed => job'[k].pc # "none"
  BY DEF Parsed
<1>8. QED
  BY <1>3, <1>4, <1>5, <1>6, <1>7 DEF VersionInv
\* A client that never reuses a version number keeps the invariant at every step.
LEMMA NextVersions ==
  ASSUME FreshVersions, TypeOK, VersionInv, [Next]_vars
  PROVE  VersionInv'
<1>0. docs \in [Uris -> Document] /\ lastVersion \in [Uris -> Versions]
  BY DEF TypeOK
<1>1. CASE UNCHANGED vars
  BY <1>1 DEF vars, VersionInv, AstCoherent, Current
<1>2. ASSUME NEW u \in Uris, NEW text \in TextsOf[u], DidOpen(u, text) PROVE VersionInv'
  <2> DEFINE v == lastVersion[u] + 1
             new == [open |-> TRUE, version |-> v, text |-> text,
                     astVersion |-> 0, ast |-> Blank]
  <2>1. lastVersion[u] \in Nat /\ v \in Versions /\ v > lastVersion[u] /\ 0 < v
    BY <1>0, <1>2, DocSyncAssumption DEF DidOpen, Versions
  <2>2. /\ SpawnDebouncedValidate(u, v, generation + 1)
        /\ lastVersion' = [lastVersion EXCEPT ![u] = v]
        /\ docs' = [docs EXCEPT ![u] = new]
    BY <1>2, <2>1 DEF DidOpen
  <2>3. docs'[u] = new
    BY <1>0, <2>2
  <2>4. new \in Document
    BY <1>2, <2>1, DocSyncAssumption DEF Document, Versions
  <2>5. generation + 1 \in Nat /\ new.version = v /\ new.astVersion < v
    BY <2>1 DEF TypeOK
  <2> HIDE DEF new
  <2>6. QED
    BY <2>1, <2>2, <2>3, <2>4, <2>5, FreshTextKeepsVersions
<1>3. ASSUME NEW u \in Uris, NEW text \in TextsOf[u], DidChange(u, text) PROVE VersionInv'
  <2> DEFINE v == docs[u].version + 1
             new == [docs[u] EXCEPT !.version = v, !.text = text]
  <2>1. /\ v = lastVersion[u] + 1 /\ v \in Versions /\ v > lastVersion[u]
        /\ docs[u].astVersion < v
    BY <1>0, <1>3, DocSyncAssumption DEF DidChange, VersionInv, Document, Versions
  <2>2. /\ SpawnDebouncedValidate(u, v, generation + 1)
        /\ lastVersion' = [lastVersion EXCEPT ![u] = v]
        /\ docs' = [docs EXCEPT ![u] = new]
    BY <1>0, <1>3, <2>1 DEF DidChange
  <2>3. docs'[u] = new
    BY <1>0, <2>2
  <2>4. new \in Document /\ new.version = v /\ new.astVersion = docs[u].astVersion
    BY <1>0, <1>3, <2>1, DocSyncAssumption DEF Document
  <2>5. generation + 1 \in Nat
    BY DEF TypeOK
  <2>6. QED
    BY <2>1, <2>2, <2>3, <2>4, <2>5, FreshTextKeepsVersions
<1>4. ASSUME NEW u \in Uris, DidSave(u) PROVE VersionInv'
  <2>1. docs[u].version = lastVersion[u] /\ docs[u].version \in Versions
    BY <1>0, <1>4 DEF DidSave, VersionInv, Document
  <2>2. SpawnDebouncedValidate(u, docs[u].version, generation)
          /\ UNCHANGED <<docs, lastVersion>> /\ generation \in Nat
    BY <1>4 DEF DidSave, TypeOK
  <2>3. ASSUME NEW k \in Jobs, job'[k].pc # "none"
        PROVE  /\ job'[k].version <= lastVersion'[job'[k].uri]
               /\ job'[k].pc \in Parsed /\ Current(job[k].uri, job[k].version)'
                    => job'[k].text = docs'[job'[k].uri].text
    <3>1. CASE job'[k].pc = "queued" /\ job'[k].uri = u /\ job'[k].version = docs[u].version
      BY <2>1, <2>2, <3>1, DocSyncAssumption DEF Parsed, Versions
    <3>2. CASE /\ job[k].pc # "none" /\ job'[k].pc = job[k].pc
               /\ job'[k].uri = job[k].uri /\ job'[k].version = job[k].version
               /\ job'[k].text = job[k].text
      BY <2>2, <3>2 DEF VersionInv, Current
    <3>3. QED
      BY <2>1, <2>2, <2>3, <3>1, <3>2, SpawnKeepsText
  <2>4. QED
    BY <2>2, <2>3 DEF VersionInv, AstCoherent, Parsed
<1>5. ASSUME NEW u \in Uris, DidClose(u) PROVE VersionInv'
  <2>1. /\ docs'[u].open = FALSE /\ docs'[u].version = 0 /\ docs'[u].astVersion = 0
        /\ lastVersion' = lastVersion
        /\ \A w \in Uris : w # u => docs'[w] = docs[w]
    BY <1>0, <1>5 DEF DidClose
  <2>2. ASSUME NEW k \in Jobs, job'[k].pc # "none"
        PROVE  /\ job'[k].version <= lastVersion'[job'[k].uri]
               /\ job'[k].pc \in Parsed /\ Current(job[k].uri, job[k].version)'
                    => job'[k].text = docs'[job'[k].uri].text
    <3>1. CASE k = started + 1
      <4>1. job'[k].pc = "await" /\ job'[k].uri = u /\ job'[k].version = 0
        BY <1>5, <3>1 DEF DidClose, Idle
      <4>2. QED
        BY <1>0, <2>1, <4>1, DocSyncAssumption DEF Parsed, Versions
    <3>2. CASE k # started + 1
      <4>1. job'[k] = job[k] \/ job'[k] = [job[k] EXCEPT !.aborted = TRUE]
        BY <1>5, <3>2 DEF DidClose
      <4>2. /\ job[k].pc # "none" /\ job'[k].pc = job[k].pc
            /\ job'[k].uri = job[k].uri /\ job'[k].version = job[k].version
            /\ job'[k].text = job[k].text
        BY <2>2, <4>1 DEF TypeOK, Job
      <4>3. job[k].uri \in Uris
        BY <4>2 DEF TypeOK
      <4>4. QED
        BY <2>1, <4>2, <4>3 DEF VersionInv, Current
    <3>3. QED
      BY <3>1, <3>2
  <2>3. QED
    BY <2>1, <2>2 DEF VersionInv, AstCoherent, Parsed
<1>6. ASSUME NEW j \in Jobs, BeginValidate(j) PROVE VersionInv'
  <2>1. UNCHANGED <<docs, lastVersion>>
    BY <1>6 DEF BeginValidate
  <2>2. ASSUME NEW k \in Jobs, job'[k].pc # "none"
        PROVE  /\ job'[k].version <= lastVersion'[job'[k].uri]
               /\ job'[k].pc \in Parsed /\ Current(job[k].uri, job[k].version)'
                    => job'[k].text = docs'[job'[k].uri].text
    <3>1. CASE k = j /\ Current(job[j].uri, job[j].version)
      BY <1>6, <2>1, <3>1 DEF BeginValidate, TypeOK, Job, VersionInv
    <3>2. CASE k = j /\ ~Current(job[j].uri, job[j].version)
      BY <1>6, <2>1, <3>2 DEF BeginValidate, TypeOK, Job, VersionInv, Parsed
    <3>3. CASE k # j
      BY <1>6, <2>1, <2>2, <3>3 DEF BeginValidate, TypeOK, VersionInv, Current
    <3>4. QED
      BY <3>1, <3>2, <3>3
  <2>3. QED
    BY <2>1, <2>2 DEF VersionInv, AstCoherent, Parsed
<1>7. ASSUME NEW j \in Jobs, StoreAst(j) PROVE VersionInv'
  <2> DEFINE u == job[j].uri
  <2>1. u \in Uris /\ job[j].pc \in Parsed /\ lastVersion' = lastVersion
    BY <1>7 DEF StoreAst, TypeOK, Parsed
  <2>2. SameText
    BY <1>7, GotoKeepsText DEF StoreAst, Parsed
  <2>3. /\ docs' \in [Uris -> [open : BOOLEAN, version : Versions, text : Contents,
                              astVersion : Versions, ast : Contents]]
        /\ \A w \in Uris : /\ docs'[w].open = docs[w].open
                           /\ docs'[w].version = docs[w].version
                           /\ docs'[w].text = docs[w].text
                           /\ \/ docs'[w].astVersion = docs[w].astVersion
                                 /\ docs'[w].ast = docs[w].ast
                              \/ /\ w = u /\ Current(u, job[j].version)
                                 /\ docs'[w].astVersion = docs[w].version
                                 /\ docs'[w].ast = job[j].text
    <3>1. CASE Current(u, job[j].version)
      <4>1. docs' = [docs EXCEPT ![u].astVersion = job[j].version, ![u].ast = job[j].text]
        BY <1>7, <3>1 DEF StoreAst
      <4>2. job[j].version \in Versions /\ job[j].text \in Contents
        BY DEF TypeOK, Job
      <4>3. QED
        BY <1>0, <2>1, <3>1, <4>1, <4>2 DEF Current, Document
    <3>2. CASE ~Current(u, job[j].version)
      BY <1>0, <1>7, <3>2 DEF StoreAst, Document
    <3>3. QED
      BY <3>1, <3>2
  <2>4. Current(u, job[j].version) => job[j].text = docs[u].text
    BY <2>1 DEF VersionInv
  <2>5. AstCoherent'
    BY <2>3, <2>4 DEF VersionInv, AstCoherent
  <2>6. (\A w \in Uris : docs[w].astVersion <= docs[w].version)'
    BY <2>3, DocSyncAssumption DEF VersionInv, Versions
  <2>7. QED
    <3>1. (\A w \in Uris : docs[w].open => docs[w].version = lastVersion[w])'
      BY <2>1, <2>3 DEF VersionInv
    <3>2. ASSUME NEW k \in Jobs, job'[k].pc # "none"
          PROVE  /\ job'[k].version <= lastVersion'[job'[k].uri]
                 /\ job'[k].pc \in Parsed /\ Current(job[k].uri, job[k].version)'
                      => job'[k].text = docs'[job'[k].uri].text
      <4>1. job[k].uri \in Uris /\ job[k].pc # "none"
        BY <2>2, <3>2 DEF SameText, TypeOK
      <4>2. QED
        BY <2>1, <2>2, <2>3, <3>2, <4>1 DEF VersionInv, SameText, Current
    <3>3. QED
      BY <2>5, <2>6, <3>1, <3>2 DEF VersionInv, Parsed
<1>8. ASSUME NEW j \in Jobs, JobStep(j), ~BeginValidate(j), ~StoreAst(j) PROVE VersionInv'
  <2>1. SameText /\ UNCHANGED <<docs, lastVersion>>
    BY <1>8, JobStepKeepsText
  <2>2. QED
    BY <2>1 DEF SameText, VersionInv, AstCoherent, Current, Parsed
<1>9. QED
  BY <1>1, <1>2, <1>3, <1>4, <1>5, <1>6, <1>7, <1>8, DocSyncAssumption DEF Next, Client

\* The initial documents are at the versions the client has used, with their own parse.
LEMMA InitVersions == Init => VersionInv
<1> SUFFICES ASSUME Init PROVE VersionInv
  OBVIOUS
<1>1. \A j \in Jobs : job[j].pc = "none"
  BY DEF Init, Idle
<1>2. \A u \in Uris : /\ lastVersion[u] = docs[u].version
                      /\ docs[u].astVersion = docs[u].version
                      /\ docs[u].version \in {0, 1}
                      /\ docs[u].ast = docs[u].text \/ ~docs[u].open
  BY DEF Init
<1>3. QED
  BY <1>1, <1>2 DEF VersionInv, AstCoherent, Parsed

\* As long as the client never reuses a version number, an AST stored for the current
\* version of a document is the parse of its current text: the version checks before the
\* parse and before the store are enough, whatever is aborted, closed or reopened between.
THEOREM AstCoherentHolds ==
  ASSUME FreshVersions PROVE Spec => []AstCoherent
<1>1. Init => VersionInv
  BY InitVersions
<1>2. TypeOK /\ VersionInv /\ [Next]_vars => VersionInv'
  BY NextVersions
<1>3. VersionInv => AstCoherent
  BY DEF VersionInv
<1>4. QED
  BY <1>1, <1>2, <1>3, TypeCorrect, PTL DEF Spec

-----------------------------------------------------------------------------
(* The index and the buffer                                                *)

\* Steps at which a validation still owes the index its parse.
Indexing(j) == Live(j) /\ job[j].pc \in {"queued", "parse"}

\* A registration names a job of its document, and the slots not yet used are empty.
SlotInv ==
  /\ \A u \in Uris : debounce[u] # None => job[debounce[u]].uri = u
  /\ \A j \in Jobs : j > started => job[j].pc = "none" /\ job[j].uri = None

\* The inductive strengthening of IndexFollowsBuffer: an open document is indexed from
\* its current text, or a validation of its current version will do so.
IndexInv ==
  \A u \in Uris :
    docs[u].open => \/ index[u] = Defines[docs[u].text]
                    \/ \E j \in Jobs : /\ Indexing(j) /\ job[j].uri = u
                                       /\ job[j].version = docs[u].version

\* Job numbers differ from the mark of no job.
LEMMA NoneIsNoJob == None \notin Jobs /\ \A j \in Jobs : j \in Nat
BY DocSyncAssumption DEF Jobs

\* What a step of job j leaves alone: the other jobs, and the buffers.
Frame(j) ==
  /\ \A k \in Jobs : k # j => job'[k] = job[k]
  /\ \A u \in Uris : /\ docs'[u].open = docs[u].open
                     /\ docs'[u].version = docs[u].version
                     /\ docs'[u].text = docs[u].text

\* A job's step touches no other job and no buffer, and starts no job.
LEMMA JobStepFrame ==
  ASSUME TypeOK, NEW j \in Jobs, JobStep(j)
  PROVE  Frame(j) /\ started' = started
<1>1. CASE BeginValidate(j)
  BY <1>1 DEF TypeOK, Frame, BeginValidate
<1>2. CASE IndexParsedFile(j)
  BY <1>2 DEF TypeOK, Frame, IndexParsedFile, Goto
<1>3. CASE ValidateText(j)
  BY <1>3 DEF TypeOK, Frame, ValidateText
<1>4. CASE PublishOwn(j)
  BY <1>4 DEF TypeOK, Frame, PublishOwn, Goto
<1>5. CASE Cancel(j)
  BY <1>5 DEF TypeOK, Frame, Cancel, Goto
<1>6. CASE CloseAwait(j)
  BY <1>6 DEF TypeOK, Frame, CloseAwait, Goto
<1>7. CASE CloseBegin(j)
  BY <1>7 DEF TypeOK, Frame, CloseBegin
<1>8. CASE CloseReadDisk(j)
  BY <1>8 DEF TypeOK, Frame, CloseReadDisk
<1>9. CASE CloseRecheck(j)
  BY <1>9 DEF TypeOK, Frame, CloseRecheck, Goto
<1>10. CASE CloseClear(j)
  BY <1>10 DEF TypeOK, Frame, CloseClear, Goto
<1>11. CASE Drain(j)
  BY <1>11 DEF TypeOK, Frame, Drain
<1>12. CASE SweepOne(j)
  BY <1>12 DEF TypeOK, Frame, SweepOne
<1>13. CASE SweepPreempted(j)
  BY <1>13 DEF TypeOK, Frame, SweepPreempted, Goto
<1>14. CASE PublishDependent(j)
  BY <1>14 DEF TypeOK, Frame, PublishDependent
<1>15. CASE Finish(j)
  BY <1>15 DEF TypeOK, Frame, Finish
<1>16. CASE StoreAst(j)
  <2>1. (Goto(j, "publish") \/ Goto(j, "over")) /\ started' = started
    BY <1>16 DEF StoreAst
  <2>2. \A k \in Jobs : k # j => job'[k] = job[k]
    BY <2>1 DEF Goto, TypeOK
  <2>3. \/ docs' = docs
        \/ docs' = [docs EXCEPT ![job[j].uri].astVersion = job[j].version,
                                ![job[j].uri].ast = job[j].text]
    BY <1>16 DEF StoreAst
  <2>4. QED
    BY <2>1, <2>2, <2>3 DEF Frame, TypeOK, Document
<1>17. CASE CloseRestore(j)
  <2>1. CASE docs[job[j].uri].open
    BY <1>17, <2>1 DEF TypeOK, Frame, CloseRestore, Goto
  <2>2. CASE ~docs[job[j].uri].open
    <3>1. /\ job' = [job EXCEPT ![j].pc = "recheck", ![j].gen = generation + 1,
                               ![j].after = Defines[job[j].text]]
          /\ UNCHANGED <<docs, started>>
      BY <1>17, <2>2 DEF CloseRestore
    <3>2. QED
      BY <3>1 DEF TypeOK, Frame
  <2>3. QED
    BY <2>1, <2>2
<1>18. CASE FilterCurrent(j)
  <2> DEFINE keep == {r \in job[j].ready : Current(r.uri, r.version)}
  <2>1. /\ job' = [job EXCEPT ![j].ready = keep, ![j].todo = {},
                             ![j].pc = IF keep = {} THEN "over" ELSE "flush"]
        /\ UNCHANGED <<docs, started>>
    BY <1>18 DEF FilterCurrent
  <2> HIDE DEF keep
  <2>2. QED
    BY <2>1 DEF TypeOK, Frame
<1>19. QED
  BY <1>1, <1>2, <1>3, <1>4, <1>5, <1>6, <1>7, <1>8, <1>9, <1>10, <1>11, <1>12, <1>13, <1>14, <1>15, <1>16, <1>17, <1>18 DEF JobStep

\* A spawn takes the next empty slot and aborts only the predecessor it unregisters.
LEMMA SpawnKeepsSlots ==
  ASSUME TypeOK, SlotInv, NEW u \in Uris, NEW version, NEW gen,
         SpawnDebouncedValidate(u, version, gen)
  PROVE  SlotInv'
<1>1. /\ started \in Nat /\ started + 1 \in Jobs /\ started' = started + 1
      /\ debounce' = [debounce EXCEPT ![u] = started + 1]
  BY DocSyncAssumption DEF SpawnDebouncedValidate, TypeOK, Jobs
<1>2. job'[started + 1].uri = u
  BY <1>1 DEF SpawnDebouncedValidate, Idle
<1>3. ASSUME NEW k \in Jobs, k # started + 1
      PROVE  job'[k].uri = job[k].uri /\ job'[k].pc = job[k].pc
  BY <1>3 DEF SpawnDebouncedValidate, TypeOK, Job
<1>4. ASSUME NEW w \in Uris, debounce'[w] # None PROVE job'[debounce'[w]].uri = w
  <2>1. CASE w = u
    BY <1>1, <1>2, <2>1 DEF TypeOK
  <2>2. CASE w # u
    <3>1. debounce'[w] = debounce[w] /\ debounce[w] \in Jobs /\ job[debounce[w]].uri = w
      BY <1>1, <1>4, <2>2 DEF TypeOK, SlotInv
    <3>2. debounce[w] # started + 1
      BY <1>1, <3>1, DocSyncAssumption DEF SlotInv
    <3>3. QED
      BY <1>3, <3>1, <3>2
  <2>3. QED
    BY <2>1, <2>2
<1>5. ASSUME NEW k \in Jobs, k > started + 1
      PROVE  job'[k].pc = "none" /\ job'[k].uri = None
  BY <1>1, <1>3, <1>5, NoneIsNoJob DEF SlotInv
<1>6. QED
  BY <1>1, <1>4, <1>5 DEF SlotInv

\* Every step keeps registrations and slots in order.
LEMMA NextSlots == TypeOK /\ SlotInv /\ [Next]_vars => SlotInv'
<1> SUFFICES ASSUME TypeOK, SlotInv, [Next]_vars PROVE SlotInv'
  OBVIOUS
<1>1. CASE UNCHANGED vars
  BY <1>1 DEF vars, SlotInv
<1>2. ASSUME NEW u \in Uris, NEW text \in TextsOf[u],
             DidOpen(u, text) \/ DidChange(u, text)
      PROVE  SlotInv'
  BY <1>2, SpawnKeepsSlots DEF DidOpen, DidChange
<1>3. ASSUME NEW u \in Uris, DidSave(u) PROVE SlotInv'
  BY <1>3, SpawnKeepsSlots DEF DidSave
<1>4. ASSUME NEW u \in Uris, DidClose(u) PROVE SlotInv'
  <2>1. /\ started \in Nat /\ started' = started + 1
        /\ debounce' = [debounce EXCEPT ![u] = None]
    BY <1>4, DocSyncAssumption DEF DidClose, TypeOK
  <2>2. ASSUME NEW k \in Jobs, k # started + 1
        PROVE  job'[k].uri = job[k].uri /\ job'[k].pc = job[k].pc
    BY <1>4, <2>2 DEF DidClose, TypeOK, Job
  <2>3. ASSUME NEW w \in Uris, debounce'[w] # None PROVE job'[debounce'[w]].uri = w
    <3>1. debounce'[w] = debounce[w] /\ debounce[w] \in Jobs /\ job[debounce[w]].uri = w
      BY <2>1, <2>3 DEF TypeOK, SlotInv
    <3>2. debounce[w] # started + 1
      BY <2>1, <3>1, DocSyncAssumption DEF SlotInv
    <3>3. QED
      BY <2>2, <3>1, <3>2
  <2>4. ASSUME NEW k \in Jobs, k > started + 1
        PROVE  job'[k].pc = "none" /\ job'[k].uri = None
    BY <2>1, <2>2, <2>4, NoneIsNoJob DEF SlotInv
  <2>5. QED
    BY <2>1, <2>3, <2>4 DEF SlotInv
<1>5. ASSUME NEW j \in Jobs, JobStep(j), ~Finish(j) PROVE SlotInv'
  <2>1. SameLife /\ debounce' = debounce
    BY <1>5, JobStepKeepsLife
  <2>2. started' = started
    BY <1>5, JobStepFrame
  <2>3. \A u \in Uris : debounce[u] # None => debounce[u] \in Jobs
    BY DEF TypeOK
  <2>4. QED
    BY <2>1, <2>2, <2>3 DEF SameLife, SlotInv
<1>6. ASSUME NEW j \in Jobs, Finish(j) PROVE SlotInv'
  <2>1. /\ job' = [job EXCEPT ![j] = Idle] /\ started' = started
        /\ RemoveDebounceTask(job[j].uri, j) /\ job[j].pc = "over"
    BY <1>6 DEF Finish
  <2>2. job'[j].pc = "none" /\ job'[j].uri = None
    BY <2>1 DEF TypeOK, Idle
  <2>3. \A k \in Jobs : k # j => job'[k] = job[k]
    BY <2>1 DEF TypeOK
  <2>4. job[j].uri \in Uris
    BY <2>1 DEF TypeOK
  <2>5. ASSUME NEW w \in Uris, debounce'[w] # None PROVE job'[debounce'[w]].uri = w
    <3>1. debounce'[w] = debounce[w] /\ debounce[w] \in Jobs
      BY <2>1, <2>5 DEF RemoveDebounceTask, TypeOK
    <3>2. job[debounce[w]].uri = w
      BY <2>5, <3>1 DEF SlotInv
    <3>3. debounce[w] # j
      BY <2>1, <2>4, <2>5, <3>1, <3>2 DEF RemoveDebounceTask, TypeOK
    <3>4. QED
      BY <2>3, <3>1, <3>2, <3>3
  <2>6. QED
    BY <2>1, <2>2, <2>3, <2>5 DEF SlotInv
<1>7. QED
  BY <1>1, <1>2, <1>3, <1>4, <1>5, <1>6, DocSyncAssumption DEF Next, Client

\* A validation spawned for the version its document will have keeps the invariant: it
\* owes the index the parse, and what it aborts worked for the same document.
LEMMA SpawnKeepsIndex ==
  ASSUME TypeOK, SlotInv, IndexInv, NEW u \in Uris, NEW version, NEW gen,
         SpawnDebouncedValidate(u, version, gen), index' = index,
         docs'[u].version = version, \A w \in Uris : w # u => docs'[w] = docs[w]
  PROVE  IndexInv'
<1>1. SUFFICES ASSUME NEW w \in Uris, docs'[w].open
               PROVE  \/ index'[w] = Defines[docs'[w].text]
                      \/ \E j \in Jobs : /\ Indexing(j)' /\ job'[j].uri = w
                                         /\ job'[j].version = docs'[w].version
  BY DEF IndexInv
<1>2. CASE w = u
  <2>1. PICK j \in Jobs : j = started + 1
    BY DocSyncAssumption DEF SpawnDebouncedValidate, TypeOK, Jobs
  <2>2. job'[j] = [Idle EXCEPT !.pc = "queued", !.uri = u, !.version = version, !.gen = gen]
    BY <2>1 DEF SpawnDebouncedValidate
  <2>3. Indexing(j)' /\ job'[j].uri = w /\ job'[j].version = docs'[w].version
    BY <1>2, <2>2 DEF Indexing, Live, Idle
  <2>4. QED
    BY <2>3
<1>3. CASE w # u
  <2>1. docs'[w] = docs[w] /\ docs[w].open
    BY <1>1, <1>3
  <2>2. CASE index[w] = Defines[docs[w].text]
    BY <2>1, <2>2
  <2>3. ASSUME NEW j \in Jobs, Indexing(j), job[j].uri = w, job[j].version = docs[w].version
        PROVE  Indexing(j)' /\ job'[j].uri = w /\ job'[j].version = docs'[w].version
    <3>1. j # debounce[u]
      BY <1>3, <2>3, NoneIsNoJob DEF SlotInv
    <3>2. ~(j > started) /\ j \in Nat /\ started \in Nat
      BY <2>3, NoneIsNoJob, DocSyncAssumption DEF SlotInv, Indexing, TypeOK
    <3>3. job'[j] = job[j]
      BY <3>1, <3>2 DEF SpawnDebouncedValidate
    <3>4. QED
      BY <2>1, <2>3, <3>3 DEF Indexing, Live
  <2>4. QED
    BY <2>1, <2>2, <2>3 DEF IndexInv
<1>4. QED
  BY <1>2, <1>3

\* A close gives up the buffer and aborts only the validation of that document.
LEMMA CloseKeepsIndex ==
  ASSUME TypeOK, SlotInv, IndexInv, NEW u \in Uris, DidClose(u)
  PROVE  IndexInv'
<1>1. SUFFICES ASSUME NEW w \in Uris, docs'[w].open
               PROVE  \/ index'[w] = Defines[docs'[w].text]
                      \/ \E j \in Jobs : /\ Indexing(j)' /\ job'[j].uri = w
                                         /\ job'[j].version = docs'[w].version
  BY DEF IndexInv
<1>2. index' = index /\ w # u /\ docs'[w] = docs[w] /\ docs[w].open
  BY <1>1 DEF DidClose, TypeOK
<1>3. ASSUME NEW j \in Jobs, Indexing(j), job[j].uri = w, job[j].version = docs[w].version
      PROVE  Indexing(j)' /\ job'[j].uri = w /\ job'[j].version = docs'[w].version
  <2>1. j # debounce[u]
    BY <1>2, <1>3, NoneIsNoJob DEF SlotInv
  <2>2. ~(j > started) /\ j \in Nat /\ started \in Nat
    BY <1>3, NoneIsNoJob, DocSyncAssumption DEF SlotInv, Indexing, TypeOK
  <2>3. job'[j] = job[j]
    BY <2>1, <2>2 DEF DidClose
  <2>4. QED
    BY <1>2, <1>3, <2>3 DEF Indexing, Live
<1>4. QED
  BY <1>2, <1>3 DEF IndexInv

\* A step of a job other than the two that write the index leaves the index alone, and
\* leaves a validation that owes its parse still owing it.
LEMMA OwingStays ==
  ASSUME TypeOK, NEW j \in Jobs, JobStep(j), ~IndexParsedFile(j), ~CloseRestore(j),
         NEW k \in Jobs, Indexing(k), Current(job[k].uri, job[k].version)
  PROVE  Indexing(k)' /\ job'[k].uri = job[k].uri /\ job'[k].version = job[k].version
<1>1. CASE k # j
  BY <1>1, JobStepFrame DEF Frame, Indexing, Live
<1>2. CASE k = j
  <2>1. /\ job[j].pc \in {"queued", "parse"} /\ ~job[j].closing /\ ~job[j].aborted
    BY <1>2 DEF Indexing, Live
  <2>2. BeginValidate(j)
    BY <2>1 DEF JobStep, ValidateText, StoreAst, PublishOwn, Cancel, CloseAwait, CloseBegin,
                CloseReadDisk, CloseRecheck, CloseClear, Drain, SweepOne, SweepPreempted,
                FilterCurrent, PublishDependent, Finish
  <2>3. job' = [job EXCEPT ![j] = [@ EXCEPT !.pc = "parse", !.text = docs[job[j].uri].text,
                                            !.before = index[job[j].uri]]]
    BY <1>2, <2>2 DEF BeginValidate
  <2>4. QED
    BY <1>2, <2>1, <2>3 DEF TypeOK, Job, Indexing, Live
<1>3. QED
  BY <1>1, <1>2

\* Only the parse of a validation and the restore of a close write the index.
LEMMA IndexStays ==
  ASSUME NEW j \in Jobs, JobStep(j), ~IndexParsedFile(j), ~CloseRestore(j)
  PROVE  index' = index
BY DEF JobStep, BeginValidate, ValidateText, StoreAst, PublishOwn, Cancel, CloseAwait,
       CloseBegin, CloseReadDisk, CloseRecheck, CloseClear, Drain, SweepOne, SweepPreempted,
       FilterCurrent, PublishDependent, Finish

\* Every step keeps an open document indexed from its text, or leaves a validation that
\* will index it.
LEMMA NextIndex ==
  ASSUME TypeOK, VersionInv, SlotInv, IndexInv, [Next]_vars
  PROVE  IndexInv'
<1>1. CASE UNCHANGED vars
  BY <1>1 DEF vars, IndexInv, Indexing, Live
<1>2. ASSUME NEW u \in Uris, NEW text \in TextsOf[u], DidOpen(u, text) PROVE IndexInv'
  <2> DEFINE v == IF FreshVersions THEN lastVersion[u] + 1 ELSE 1
  <2>1. SpawnDebouncedValidate(u, v, generation + 1) /\ index' = index
    BY <1>2 DEF DidOpen
  <2>2. docs'[u].version = v /\ \A w \in Uris : w # u => docs'[w] = docs[w]
    BY <1>2 DEF DidOpen, TypeOK
  <2>3. QED
    BY <2>1, <2>2, SpawnKeepsIndex
<1>3. ASSUME NEW u \in Uris, NEW text \in TextsOf[u], DidChange(u, text) PROVE IndexInv'
  <2> DEFINE v == docs[u].version + 1
  <2>1. SpawnDebouncedValidate(u, v, generation + 1) /\ index' = index
    BY <1>3 DEF DidChange
  <2>2. docs'[u].version = v /\ \A w \in Uris : w # u => docs'[w] = docs[w]
    BY <1>3 DEF DidChange, TypeOK, Document
  <2>3. QED
    BY <2>1, <2>2, SpawnKeepsIndex
<1>4. ASSUME NEW u \in Uris, DidSave(u) PROVE IndexInv'
  BY <1>4, SpawnKeepsIndex DEF DidSave
<1>5. ASSUME NEW u \in Uris, DidClose(u) PROVE IndexInv'
  BY <1>5, CloseKeepsIndex
<1>6. ASSUME NEW j \in Jobs, JobStep(j) PROVE IndexInv'
  <2>1. SUFFICES ASSUME NEW w \in Uris, docs'[w].open
                 PROVE  \/ index'[w] = Defines[docs'[w].text]
                        \/ \E k \in Jobs : /\ Indexing(k)' /\ job'[k].uri = w
                                           /\ job'[k].version = docs'[w].version
    BY DEF IndexInv
  <2>2. /\ docs[w].open /\ docs'[w].version = docs[w].version
        /\ docs'[w].text = docs[w].text
        /\ \A k \in Jobs : k # j => job'[k] = job[k]
    BY <1>6, <2>1, JobStepFrame DEF Frame
  <2>3. CASE IndexParsedFile(j)
    <3>1. job[j].pc = "parse" /\ job[j].uri \in Uris /\ job[j].pc \in Parsed
      BY <2>3 DEF IndexParsedFile, TypeOK, Parsed
    <3>2. CASE job[j].uri = w /\ job[j].version = docs[w].version
      <4>1. index'[w] = Defines[job[j].text]
        BY <2>2, <2>3, <3>1, <3>2 DEF IndexParsedFile, OvertakenBy, TypeOK
      <4>2. job[j].text = docs[w].text
        BY <2>2, <3>1, <3>2 DEF VersionInv, Current
      <4>3. QED
        BY <2>2, <4>1, <4>2
    <3>3. CASE ~(job[j].uri = w /\ job[j].version = docs[w].version)
      <4>1. index'[w] = index[w]
        BY <2>2, <2>3, <3>1, <3>3 DEF IndexParsedFile, OvertakenBy, TypeOK
      <4>2. ASSUME NEW k \in Jobs, Indexing(k), job[k].uri = w,
                   job[k].version = docs[w].version
            PROVE  Indexing(k)' /\ job'[k].uri = w /\ job'[k].version = docs'[w].version
        BY <2>2, <3>3, <4>2 DEF Indexing, Live
      <4>3. QED
        BY <2>2, <4>1, <4>2 DEF IndexInv
    <3>4. QED
      BY <3>2, <3>3
  <2>4. CASE CloseRestore(j)
    <3>1. index'[w] = index[w] /\ job[j].pc = "restore"
      BY <2>2, <2>4 DEF CloseRestore, TypeOK
    <3>2. ASSUME NEW k \in Jobs, Indexing(k), job[k].uri = w,
                 job[k].version = docs[w].version
          PROVE  Indexing(k)' /\ job'[k].uri = w /\ job'[k].version = docs'[w].version
      <4>1. k # j
        BY <3>1, <3>2 DEF Indexing
      <4>2. QED
        BY <2>2, <3>2, <4>1 DEF Indexing, Live
    <3>3. QED
      BY <2>2, <3>1, <3>2 DEF IndexInv
  <2>5. CASE ~IndexParsedFile(j) /\ ~CloseRestore(j)
    <3>1. index' = index
      BY <1>6, <2>5, IndexStays
    <3>2. ASSUME NEW k \in Jobs, Indexing(k), job[k].uri = w,
                 job[k].version = docs[w].version
          PROVE  Indexing(k)' /\ job'[k].uri = w /\ job'[k].version = docs'[w].version
      <4>1. Current(job[k].uri, job[k].version)
        BY <2>2, <3>2 DEF Current
      <4>2. QED
        BY <1>6, <2>2, <2>5, <3>2, <4>1, OwingStays
    <3>3. QED
      BY <2>2, <3>1, <3>2 DEF IndexInv
  <2>6. QED
    BY <2>3, <2>4, <2>5
<1>7. QED
  BY <1>1, <1>2, <1>3, <1>4, <1>5, <1>6, DocSyncAssumption DEF Next, Client

\* As long as the client never reuses a version number, an open document with no
\* validation under way is indexed from its current text: the version guard on the index
\* write, the abort of a predecessor and the look at the store before a close restores the
\* file are enough, however edits, saves, closes and reopenings interleave.
THEOREM IndexFollowsBufferHolds ==
  ASSUME FreshVersions PROVE Spec => []IndexFollowsBuffer
<1>1. Init => SlotInv /\ IndexInv
  <2>1. SUFFICES ASSUME Init PROVE SlotInv /\ IndexInv
    OBVIOUS
  <2>2. SlotInv
    BY <2>1 DEF Init, SlotInv, Idle
  <2>3. \A u \in Uris : docs[u].open => docs[u].text = disk[u]
    BY <2>1 DEF Init
  <2>4. QED
    BY <2>1, <2>2, <2>3 DEF Init, IndexInv
<1>2. TypeOK /\ SlotInv /\ [Next]_vars => SlotInv'
  BY NextSlots
<1>3. TypeOK /\ VersionInv /\ [Next]_vars => VersionInv'
  BY NextVersions
<1>4. TypeOK /\ VersionInv /\ SlotInv /\ IndexInv /\ [Next]_vars => IndexInv'
  BY NextIndex
<1>5. Init => VersionInv
  BY InitVersions
<1>6. IndexInv => IndexFollowsBuffer
  BY DEF IndexInv, IndexFollowsBuffer, Indexing
<1>7. QED
  BY <1>1, <1>2, <1>3, <1>4, <1>5, <1>6, TypeCorrect, PTL DEF Spec
=============================================================================
