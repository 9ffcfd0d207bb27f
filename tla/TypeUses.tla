------------------------------ MODULE TypeUses ------------------------------
(***************************************************************************)
(* Which definitions are used (lsp: validate.rs, watched.rs, workspace.rs, *)
(* main.rs; validation: references.rs).  Every validation records the      *)
(* names its file uses; the union over all files is cached under a         *)
(* revision, and the names whose use changed are queued for the sweep over *)
(* the open documents.  The record, the revision, the queue and the cache  *)
(* each have a lock of their own, so every thread takes several steps.     *)
(***************************************************************************)
EXTENDS Naturals, FiniteSets

CONSTANTS Uris,        \* files that record uses
          Names,       \* names of instances of tracked types
          Threads,     \* validations, watched deletes, closes and a scan
          MaxWrites    \* bound on the changes of the record
ASSUME WritesAssumption == MaxWrites \in Nat

None == [revision |-> 0, names |-> {}, filled |-> FALSE]
Idle == [at |-> "idle", changed |-> {}, revision |-> 0, names |-> {}, merges |-> FALSE]

VARIABLES uses,        \* type_uses: file -> names it uses, a file not recorded uses none
          revision,    \* type_uses_revision
          merged,      \* type_uses_merged: the cached union under its revision
          pending,     \* pending_changed_names
          thread,      \* what each thread is doing
          told         \* history: the used names as the open documents were last told
vars == <<uses, revision, merged, pending, thread, told>>

Union == UNION {uses[u] : u \in Uris}

Init == /\ uses = [u \in Uris |-> {}]
        /\ revision = 0
        /\ merged = None
        /\ pending = {}
        /\ thread = [t \in Threads |-> Idle]
        /\ told = {}

\* Mutant of ChangedNames: a name a file stops using is not reported.
ChangedNames_onlyAdded(before, after) == after \ before

\* The names only one of the two records has.
ChangedNames(before, after) == (before \ after) \union (after \ before)

\* One lock: compare with the record and replace it.  The thread goes on to
\* the counter when something changed, a validation then to the merge.
Store(t, u, names, merges) ==
    LET changed == ChangedNames(uses[u], names)
    IN /\ uses' = [uses EXCEPT ![u] = names]
       /\ thread' = [thread EXCEPT ![t] =
            [Idle EXCEPT !.at = IF names # uses[u] THEN "bump"
                                ELSE IF merges THEN "load" ELSE "idle",
                         !.changed = changed, !.merges = merges]]
       /\ UNCHANGED <<revision, merged, pending, told>>

RefreshTypeUses(t, u) ==
    /\ thread[t].at = "idle" /\ revision < MaxWrites
    /\ \E names \in SUBSET Names : Store(t, u, names, TRUE)

\* A watched delete, an ignored file, a document closed or restored from disk.
RemoveUses(t, u) ==
    /\ thread[t].at = "idle" /\ revision < MaxWrites
    /\ \E names \in SUBSET Names : Store(t, u, names, FALSE)

\* The scan replaces the records of all closed files under the lock and
\* validates all open documents afterwards instead of queueing names.
ScanUses(t, closed) ==
    /\ thread[t].at = "idle" /\ revision < MaxWrites
    /\ \E found \in [closed -> SUBSET Names] :
          uses' = [u \in Uris |-> IF u \in closed THEN found[u] ELSE uses[u]]
    /\ thread' = [thread EXCEPT ![t].at = "scanBump", ![t].changed = Names]
    /\ UNCHANGED <<revision, merged, pending, told>>

\* Mutant of Bump: a change that only removes names keeps the revision.
Bump_additionsOnly(t) ==
    /\ thread[t].at \in {"bump", "scanBump"}
    /\ revision' = IF thread[t].changed \subseteq Union THEN revision + 1 ELSE revision
    /\ thread' = [thread EXCEPT ![t].at = IF @ = "bump" THEN "queue" ELSE "revalidate"]
    /\ UNCHANGED <<uses, merged, pending, told>>

Bump(t) ==
    /\ thread[t].at \in {"bump", "scanBump"}
    /\ revision' = revision + 1
    /\ thread' = [thread EXCEPT ![t].at = IF @ = "bump" THEN "queue" ELSE "revalidate"]
    /\ UNCHANGED <<uses, merged, pending, told>>

QueueNames(t) ==
    /\ thread[t].at = "queue"
    /\ pending' = pending \union thread[t].changed
    /\ thread' = [thread EXCEPT ![t] = IF @.merges THEN [Idle EXCEPT !.at = "load"] ELSE Idle]
    /\ UNCHANGED <<uses, revision, merged, told>>

RevalidateAll(t) ==
    /\ thread[t].at = "revalidate"
    /\ told' = Union
    /\ thread' = [thread EXCEPT ![t] = Idle]
    /\ UNCHANGED <<uses, revision, merged, pending>>

\* A finished validation or close takes the queue for its sweep.
Drain ==
    /\ pending # {}
    /\ told' = (told \ pending) \union (Union \cap pending)
    /\ pending' = {}
    /\ UNCHANGED <<uses, revision, merged, thread>>

-----------------------------------------------------------------------------
(* merged_type_uses: the revision is read first, the cache next, and only  *)
(* a miss reads the records.                                               *)

LoadRevision(t) ==
    /\ thread[t].at = "load"
    /\ thread' = [thread EXCEPT ![t].at = "look", ![t].revision = revision]
    /\ UNCHANGED <<uses, revision, merged, pending, told>>

LookUp(t) ==
    /\ thread[t].at = "look"
    /\ thread' = [thread EXCEPT ![t] =
          IF merged.filled /\ merged.revision = thread[t].revision
          THEN Idle ELSE [@ EXCEPT !.at = "merge"]]
    /\ UNCHANGED <<uses, revision, merged, pending, told>>

Merge(t) ==
    /\ thread[t].at = "merge"
    /\ thread' = [thread EXCEPT ![t].at = "fill", ![t].names = Union]
    /\ UNCHANGED <<uses, revision, merged, pending, told>>

Fill(t) ==
    /\ thread[t].at = "fill"
    /\ merged' = [revision |-> thread[t].revision, names |-> thread[t].names, filled |-> TRUE]
    /\ thread' = [thread EXCEPT ![t] = Idle]
    /\ UNCHANGED <<uses, revision, pending, told>>

Step(t) ==
    \/ \E u \in Uris : RefreshTypeUses(t, u)
    \/ \E u \in Uris : RemoveUses(t, u)
    \/ \E closed \in SUBSET Uris : ScanUses(t, closed)
    \/ Bump(t)
    \/ QueueNames(t)
    \/ RevalidateAll(t)
    \/ LoadRevision(t)
    \/ LookUp(t)
    \/ Merge(t)
    \/ Fill(t)

Next == Drain \/ \E t \in Threads : Step(t)
Spec == Init /\ [][Next]_vars

-----------------------------------------------------------------------------
Stages == {"idle", "bump", "scanBump", "queue", "revalidate", "load", "look", "merge", "fill"}
ThreadStates == [at : Stages, changed : SUBSET Names, revision : Nat,
                 names : SUBSET Names, merges : BOOLEAN]
TypeOK == /\ uses \in [Uris -> SUBSET Names]
          /\ revision \in Nat
          /\ merged \in [revision : Nat, names : SUBSET Names, filled : BOOLEAN]
          /\ pending \subseteq Names
          /\ thread \in [Threads -> ThreadStates]
          /\ told \subseteq Names

\* A thread between its change of the record and its advance of the counter.
Unannounced == \E t \in Threads : thread[t].at \in {"bump", "scanBump"}

\* The cached union (merged_type_uses, validate.rs) is served only while it is
\* the union of what the files record: a change of a record under another
\* lock either has advanced the revision or is about to.
MergedCoherent ==
    merged.filled /\ merged.revision = revision /\ ~Unannounced => merged.names = Union

\* A name whose use changed since the open documents were last told is queued
\* or on its way there: refresh_type_uses, process_watched_deletes, did_close
\* and the scan between them lose no change of an unused-definition warning.
ChangesQueued ==
    \A n \in Names : (n \in Union) # (n \in told) =>
        n \in pending \/ \E t \in Threads : n \in thread[t].changed
=============================================================================
