------------------------------ MODULE RuleLoader ------------------------------
(***************************************************************************)
(* Loading a directory of rule files (crate rules: ruleset_loader).  Files *)
(* are found in sorted order, read and converted by parallel workers that  *)
(* share one byte budget, and merged in the order they were found when all *)
(* workers are done.  What a file says and what the files say together is  *)
(* for RuleSets.                                                           *)
(***************************************************************************)
EXTENDS Integers, Sequences, FiniteSets

CONSTANTS MaxFiles,        \* rule files a load looks at
          MaxBytes,        \* bytes all of them may have
          Directories,     \* the trees of entries a load may find
          RuleFilesIn(_), ReadOf(_), RefusedFor(_), MergeResults(_)
                           \* CollectCwtFiles, Read, Refused, Combine of RuleSets

\* Every file has a size, and what is read of it is accepted.
ASSUME LoaderAssumption ==
    /\ MaxFiles \in Nat /\ MaxBytes \in Nat
    /\ \A why \in {"read error", "budget"} : RefusedFor(why).done /\ ~RefusedFor(why).accepted
    /\ \A d \in Directories : LET files == RuleFilesIn(d) IN
          /\ files \in Seq({files[f] : f \in DOMAIN files})
          /\ \A f \in DOMAIN files : /\ files[f].size \in Nat /\ files[f].readable \in BOOLEAN
                                     /\ ReadOf(files[f]).done /\ ReadOf(files[f]).accepted

VARIABLES directory,       \* the tree of entries the load walks
          found,           \* the rule files in the order they were found
          reserved,        \* bytes reserved by all workers
          seen,            \* file -> the counter its worker read last, or Unread
          results,         \* file -> what its worker made of it
          combined         \* the ruleset and the errors, once merged
loadVars == <<directory, found, reserved, seen, results, combined>>

Unread == -1
Pending == [done |-> FALSE]
NotMerged == [done |-> FALSE]

-----------------------------------------------------------------------------
WithinFileBudget(files) == SubSeq(files, 1, IF Len(files) < MaxFiles THEN Len(files) ELSE MaxFiles)

LoadInit ==
    /\ directory \in Directories
    /\ found = WithinFileBudget(RuleFilesIn(directory))
    /\ reserved = 0
    /\ seen = [f \in DOMAIN found |-> Unread]
    /\ results = [f \in DOMAIN found |-> Pending]
    /\ combined = NotMerged

-----------------------------------------------------------------------------
(* The workers.                                                            *)

\* The counter is read, and then changed if it still is what was read.
LoadCounter(f) ==
    /\ ~results[f].done
    /\ seen[f] = Unread
    /\ seen' = [seen EXCEPT ![f] = reserved]
    /\ UNCHANGED <<directory, found, reserved, results, combined>>

FileUnreadable(f) ==
    /\ ~results[f].done
    /\ ~found[f].readable
    /\ results' = [results EXCEPT ![f] = RefusedFor("read error")]
    /\ UNCHANGED <<directory, found, reserved, seen, combined>>

\* Mutant of TryReserve: what was read is trusted.
TryReserve_blind(f) ==
    /\ ~results[f].done /\ found[f].readable /\ seen[f] # Unread
    /\ IF seen[f] + found[f].size > MaxBytes
       THEN results' = [results EXCEPT ![f] = RefusedFor("budget")] /\ UNCHANGED <<reserved, seen>>
       ELSE /\ reserved' = seen[f] + found[f].size
            /\ results' = [results EXCEPT ![f] = ReadOf(found[f])]
            /\ UNCHANGED seen
    /\ UNCHANGED <<directory, found, combined>>

TryReserve(f) ==
    /\ ~results[f].done /\ found[f].readable /\ seen[f] # Unread
    /\ IF seen[f] + found[f].size > MaxBytes
       THEN results' = [results EXCEPT ![f] = RefusedFor("budget")] /\ UNCHANGED <<reserved, seen>>
       ELSE IF reserved = seen[f]
            THEN /\ reserved' = reserved + found[f].size
                 /\ results' = [results EXCEPT ![f] = ReadOf(found[f])]
                 /\ UNCHANGED seen
            ELSE seen' = [seen EXCEPT ![f] = reserved] /\ UNCHANGED <<reserved, results>>
    /\ UNCHANGED <<directory, found, combined>>

-----------------------------------------------------------------------------
LoadRuleset ==
    /\ ~combined.done
    /\ \A f \in DOMAIN found : results[f].done
    /\ combined' = MergeResults(results)
    /\ UNCHANGED <<directory, found, reserved, seen, results>>

LoadNext == (\E f \in DOMAIN found : LoadCounter(f) \/ FileUnreadable(f) \/ TryReserve(f)) \/ LoadRuleset
LoadSpec == LoadInit /\ [][LoadNext]_loadVars

-----------------------------------------------------------------------------
(* Properties.                                                             *)

\* The bytes of some of the files.
Size(files) == Cardinality(UNION {{f} \X (1..found[f].size) : f \in files})
Accepted == {f \in DOMAIN found : results[f].done /\ results[f].accepted}

\* The workers that race for the byte budget together never take more than it
\* allows, and a load in which no file is refused gives the ruleset and the
\* errors that loading the files one after the other gives, whichever order
\* the workers finish in (ruleset_loader.rs: load_ruleset_from_dir).
OneByOne == [f \in DOMAIN found |-> IF found[f].readable THEN ReadOf(found[f]) ELSE RefusedFor("read error")]
LoadKeepsBudget ==
    /\ Size(Accepted) <= MaxBytes
    /\ combined.done /\ Size({f \in DOMAIN found : found[f].readable}) <= MaxBytes
          => combined = MergeResults(OneByOne)
=============================================================================
