----------------------------- MODULE ParseCache -----------------------------
(***************************************************************************)
(* The parse cache on disk (crate cache), used by several processes for    *)
(* one source file that somebody writes to meanwhile.                      *)
(*                                                                         *)
(* Batch runs (crate driver) index the file and later judge it; a run that *)
(* indexes the base game does not judge; a scan of the language server     *)
(* (crate lsp) takes the hash of the text beside the tree.  A parse is     *)
(* what it is the parse of, so it is written as the content itself.        *)
(***************************************************************************)
EXTENDS Naturals, Sequences

CONSTANTS Batches, Bases, Scans,   \* the processes, by what they do
          Contents,                \* numbers above 0
          MaxStamp                 \* bound: how often the file is written
Processes == Batches \cup Bases \cup Scans
Stamps == 1..MaxStamp

\* Files of the cache are named by a stamp or by a text.
NoKey == <<"none", 0>>
ByStamp(n) == <<"stamp", n>>
ByText(c) == <<"text", c>>
StampKeys == {ByStamp(n) : n \in Stamps}
Keys == StampKeys \cup {ByText(c) : c \in Contents}

VARIABLES source,    \* what the file holds, and its stamp; 0 when it is missing
          history,   \* stamp -> what the file held
          ast,       \* name -> the tree in the cache, 0 when there is none
          errors,    \* name -> the errors beside it
          process
vars == <<source, history, ast, errors, process>>

\* What source_cache_key gives: every write of the file changes its stamp.
SourceCacheKey == IF source.stamp = 0 THEN NoKey ELSE ByStamp(source.stamp)

NoPrint == [key |-> NoKey, text |-> 0]
Idle == [at |-> "look", pass |-> "index", key |-> NoKey, byText |-> FALSE, text |-> 0, tree |-> 0, errs |-> 0,
         first |-> [tree |-> 0, errs |-> 0, print |-> NoPrint], hash |-> 0, judged |-> FALSE]

\* Somebody may have written to the file before, and not every process has to run.
Init ==
    /\ source \in [content : Contents, stamp : Stamps] \cup {[content |-> 0, stamp |-> 0]}
    /\ history \in [Stamps -> Contents \cup {0}]
    /\ source.stamp # 0 => history[source.stamp] = source.content
    /\ ast = [k \in Keys |-> 0]
    /\ errors = [k \in Keys |-> 0]
    /\ process \in [Processes -> {Idle, [Idle EXCEPT !.at = "done"]}]

Goes(p, at, r) == process' = [process EXCEPT ![p] = [r EXCEPT !.at = at]]
At(p, at) == process[p].at = at

-----------------------------------------------------------------------------
(* A parse is at hand, with the fingerprint of what it is the parse of.    *)
Obtained(p, r, print) ==
    IF r.pass = "index"
    THEN Goes(p, "indexed", [r EXCEPT !.first = [tree |-> r.tree, errs |-> r.errs, print |-> print]])
    ELSE Goes(p, "done", [r EXCEPT !.judged = print = r.first.print])
FromFile(r) == [key |-> r.key, text |-> IF r.byText THEN r.text ELSE 0]

\* A name is tried first, under the stamp the file has now.
Look(p) ==
    /\ At(p, "look")
    /\ Goes(p, IF SourceCacheKey = NoKey THEN "stat" ELSE "open", [process[p] EXCEPT !.key = SourceCacheKey])
    /\ UNCHANGED <<source, history, ast, errors>>

\* The name a process looks under, and where it goes on without an entry.
Name(r) == IF r.byText THEN ByText(r.text) ELSE r.key
Missed(r) == IF r.byText THEN "parse" ELSE "stat"
OpenTree(p) ==
    LET r == process[p]
        opened == [r EXCEPT !.tree = ast[Name(r)]]
    IN /\ At(p, "open")
       /\ \/ ast[Name(r)] = 0 /\ Goes(p, Missed(r), r)
          \/ ast[Name(r)] # 0 /\ p \notin Bases /\ Goes(p, "sidecar", opened)
          \/ ast[Name(r)] # 0 /\ p \in Bases /\ ~r.byText /\ Goes(p, "confirm", opened)
          \/ ast[Name(r)] # 0 /\ p \in Bases /\ r.byText /\ Obtained(p, opened, FromFile(opened))
       /\ UNCHANGED <<source, history, ast, errors>>

OpenErrors(p) ==
    LET r == process[p]
        opened == [r EXCEPT !.errs = errors[Name(r)]]
    IN /\ At(p, "sidecar")
       /\ \/ errors[Name(r)] = 0 /\ Goes(p, Missed(r), r)
          \/ errors[Name(r)] # 0 /\ ~r.byText /\ Goes(p, "confirm", opened)
          \/ errors[Name(r)] # 0 /\ r.byText /\ Obtained(p, [opened EXCEPT !.hash = r.text], FromFile(opened))
       /\ UNCHANGED <<source, history, ast, errors>>

\* The stamp must still be the one the entry was found by.
Confirm(p) ==
    LET r == process[p]
    IN /\ At(p, "confirm")
       /\ \/ SourceCacheKey # r.key /\ Goes(p, "stat", r)
          \/ SourceCacheKey = r.key /\ p \in Scans /\ Goes(p, "rehash", r)
          \/ SourceCacheKey = r.key /\ p \notin Scans /\ Obtained(p, r, FromFile(r))
       /\ UNCHANGED <<source, history, ast, errors>>

\* A scan reads the text for its hash, and takes it if the stamp has not changed.
Rehash(p) ==
    /\ At(p, "rehash")
    /\ Goes(p, "rehashed", [process[p] EXCEPT !.text = source.content])
    /\ UNCHANGED <<source, history, ast, errors>>
Rehashed(p) ==
    LET r == process[p]
    IN /\ At(p, "rehashed")
       /\ Obtained(p, [r EXCEPT !.hash = IF SourceCacheKey = r.key THEN r.text ELSE 0], FromFile(r))
       /\ UNCHANGED <<source, history, ast, errors>>

-----------------------------------------------------------------------------
(* Without an entry: stamp, read, parse, store.                            *)
Stat(p) ==
    /\ At(p, "stat")
    /\ Goes(p, "read", [process[p] EXCEPT !.key = SourceCacheKey])
    /\ UNCHANGED <<source, history, ast, errors>>

Read(p) ==
    LET r == process[p]
    IN /\ At(p, "read")
       /\ \/ source.content = 0 /\ Goes(p, "done", r)
          \/ source.content # 0
             /\ Goes(p, IF r.key = NoKey THEN "open" ELSE "parse",
                     [r EXCEPT !.text = source.content, !.byText = r.key = NoKey])
       /\ UNCHANGED <<source, history, ast, errors>>

\* Mutant of Kept: the stamp is taken after the file is read.
Kept_restamped(p, r) == IF r.key = NoKey THEN NoKey ELSE SourceCacheKey

\* A batch run forgets the stamp if it is no longer the file's.
Kept(p, r) == IF p \in Scans \/ SourceCacheKey = r.key THEN r.key ELSE NoKey
Parse(p) ==
    LET r == process[p]
    IN /\ At(p, "parse")
       /\ Goes(p, "store", [r EXCEPT !.tree = r.text, !.errs = r.text, !.hash = r.text, !.key = Kept(p, r)])
       /\ UNCHANGED <<source, history, ast, errors>>

\* What is stored under a stamp is stored only while the file has it.
Store(p) ==
    LET r == process[p]
    IN /\ At(p, "store")
       /\ \/ r.key \in {NoKey, SourceCacheKey} /\ Goes(p, "write", r)
          \/ r.key \notin {NoKey, SourceCacheKey} /\ Obtained(p, r, FromFile(r))
       /\ UNCHANGED <<source, history, ast, errors>>
Entry(r) == IF r.key = NoKey THEN ByText(r.text) ELSE r.key

\* Every file of the cache is replaced as a whole, or the write fails.
WriteTree(p) ==
    LET r == process[p]
    IN /\ At(p, "write")
       /\ \/ ast' = [ast EXCEPT ![Entry(r)] = r.tree] /\ Goes(p, "write errors", r)
          \/ UNCHANGED ast /\ Obtained(p, r, FromFile(r))
       /\ UNCHANGED <<source, history, errors>>
WriteErrors(p) ==
    LET r == process[p]
    IN /\ At(p, "write errors")
       /\ \/ errors' = [errors EXCEPT ![Entry(r)] = r.errs] /\ UNCHANGED ast
          \/ errors' = [errors EXCEPT ![Entry(r)] = 0] /\ ast' = [ast EXCEPT ![Entry(r)] = 0]
       /\ Obtained(p, r, FromFile(r))
       /\ UNCHANGED <<source, history>>

\* A batch run comes back to the file to judge it.
Recheck(p) ==
    LET r == process[p]
    IN /\ At(p, "indexed") /\ p \in Batches
       /\ \/ SourceCacheKey # r.first.print.key /\ Goes(p, "done", [r EXCEPT !.pass = "judge"])
          \/ SourceCacheKey = r.first.print.key
             /\ Goes(p, "look", [Idle EXCEPT !.pass = "judge", !.first = r.first])
       /\ UNCHANGED <<source, history, ast, errors>>

-----------------------------------------------------------------------------
(* Around them: a process is killed, another one prunes or clears, and the *)
(* file is written or deleted.                                             *)
Kill(p) ==
    /\ process[p].at \notin {"done", "indexed"}
    /\ Goes(p, "done", process[p])
    /\ UNCHANGED <<source, history, ast, errors>>
RemoveTree(k) ==
    /\ ast[k] # 0
    /\ ast' = [ast EXCEPT ![k] = 0]
    /\ UNCHANGED <<source, history, errors, process>>
RemoveErrors(k) ==
    /\ errors[k] # 0
    /\ errors' = [errors EXCEPT ![k] = 0]
    /\ UNCHANGED <<source, history, ast, process>>
Write(c) ==
    \E n \in Stamps :
        /\ history[n] = 0 /\ \A m \in 1..(n - 1) : history[m] # 0
        /\ source' = [content |-> c, stamp |-> n]
        /\ history' = [history EXCEPT ![n] = c]
        /\ UNCHANGED <<ast, errors, process>>
Delete ==
    /\ source.stamp # 0
    /\ source' = [content |-> 0, stamp |-> 0]
    /\ UNCHANGED <<history, ast, errors, process>>

LoadOrParse(p) ==
    \/ Look(p) \/ OpenTree(p) \/ OpenErrors(p) \/ Confirm(p) \/ Rehash(p) \/ Rehashed(p)
    \/ Stat(p) \/ Read(p) \/ Parse(p) \/ Store(p) \/ WriteTree(p) \/ WriteErrors(p)
Next ==
    \/ \E p \in Processes : LoadOrParse(p) \/ Recheck(p) \/ Kill(p)
    \/ \E k \in Keys : RemoveTree(k) \/ RemoveErrors(k)
    \/ \E c \in Contents : Write(c)
    \/ Delete
Spec == Init /\ [][Next]_vars

-----------------------------------------------------------------------------
\* An entry is the parse of what the file held when it had the stamp.
EntriesTrue ==
    \A k \in Keys : LET is == IF k \in StampKeys THEN history[k[2]] ELSE k[2]
                    IN ast[k] \in {0, is} /\ errors[k] \in {0, is}
\* A batch run judges what it indexed.  Excepted is a file that changed under
\* both reads and was missing between them: both fingerprints are empty then.
JudgedAsIndexed ==
    \A p \in Batches : process[p].judged =>
        \/ process[p].first.print = NoPrint
        \/ process[p].tree = process[p].first.tree /\ process[p].errs = process[p].tree
\* The hash a scan keeps is that of the text whose tree it indexed.
HashesMatch == \A p \in Scans : process[p].at = "indexed" => process[p].hash \in {0, process[p].first.tree}

\* No process is ever given, and none ever leaves behind, the parse of another
\* text than it asked for, whoever writes, prunes or dies in between
\* (workspace.rs: load_path, store_path; driver: load_or_parse, validate_selected).
ParsedAsStamped == EntriesTrue /\ JudgedAsIndexed /\ HashesMatch
=============================================================================
