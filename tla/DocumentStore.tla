---------------------------- MODULE DocumentStore ----------------------------
(***************************************************************************)
(* The store of open documents with its limits (lsp: state.rs, main.rs).   *)
(* A document keeps its text and the tree of an earlier text; it is        *)
(* charged with the larger of the two, and a total is kept beside the map. *)
(***************************************************************************)
EXTENDS Integers, FiniteSets, FiniteSetsExt

CONSTANTS Uris,
          Sizes,               \* sizes of texts clients send, some beyond the limits
          MaxDocumentBytes, MaxOpenDocuments, MaxRetainedBytes,
          MaxEdits             \* bound on versions

Missing == [version |-> 0, text |-> 0, ast |-> 0]
NoWork == [version |-> 0, text |-> 0]

VARIABLES documents,   \* the open documents
          retained,    \* retained_text_bytes
          work         \* validations: the version and text each works on
storeVars == <<documents, retained, work>>

IsOpen(u) == documents[u] # Missing
OpenDocuments == {u \in Uris : IsOpen(u)}
RetainedBytes(d) == IF d.text > d.ast THEN d.text ELSE d.ast

Init == /\ documents = [u \in Uris |-> Missing]
        /\ retained = 0
        /\ work = [u \in Uris |-> NoWork]

\* The total after one document's charge is replaced, when the limits admit it.
Admits(old, new) == new <= MaxDocumentBytes /\ retained - old + new <= MaxRetainedBytes
Replace(old, new) == retained' = retained - old + new

\* didOpen, also for a document that is open already; a client numbers
\* versions as it likes and a rejected notification changes nothing.
Open(u, version, size) ==
    LET d == [version |-> version, text |-> size, ast |-> 0]
        old == RetainedBytes(documents[u])
    IN /\ size <= MaxDocumentBytes
       /\ IsOpen(u) \/ Cardinality(OpenDocuments) < MaxOpenDocuments
       /\ Admits(old, size)
       /\ documents' = [documents EXCEPT ![u] = d]
       /\ Replace(old, size)
       /\ work' = [work EXCEPT ![u] = [version |-> version, text |-> size]]

\* Mutant of Charge: an edit is charged with its text only.
Charge_textOnly(d, size) == size

\* An edit keeps the tree of the text before it.
Charge(d, size) == IF size > d.ast THEN size ELSE d.ast

Change(u, version, size) ==
    LET d == documents[u]
        old == RetainedBytes(d)
        new == Charge(d, size)
    IN /\ size <= MaxDocumentBytes /\ IsOpen(u)
       /\ Admits(old, new)
       /\ documents' = [documents EXCEPT ![u].version = version, ![u].text = size]
       /\ Replace(old, new)
       /\ work' = [work EXCEPT ![u] = [version |-> version, text |-> size]]

\* A validation that was overtaken stores nothing; the tree is charged with
\* the text of the document.
SetAst(u) ==
    LET d == documents[u]
        stored == [d EXCEPT !.ast = d.text]
    IN /\ work[u] # NoWork
       /\ work' = [work EXCEPT ![u] = NoWork]
       /\ IF IsOpen(u) /\ d.version = work[u].version
          THEN /\ documents' = [documents EXCEPT ![u] = stored]
               /\ Replace(RetainedBytes(d), RetainedBytes(stored))
          ELSE UNCHANGED <<documents, retained>>

Remove(u) ==
    /\ IsOpen(u)
    /\ documents' = [documents EXCEPT ![u] = Missing]
    /\ Replace(RetainedBytes(documents[u]), 0)
    /\ UNCHANGED work

Next == \E u \in Uris :
    \/ \E version \in 1..MaxEdits, size \in Sizes : Open(u, version, size)
    \/ \E version \in 1..MaxEdits, size \in Sizes : Change(u, version, size)
    \/ SetAst(u)
    \/ Remove(u)

-----------------------------------------------------------------------------
\* The total beside the map is the sum of what the documents retain, whatever
\* is opened again, edited, parsed late or closed (DocumentStore, state.rs):
\* a total that drifts refuses documents or underflows on a close.
RetainedExact == retained = MapThenSumSet(LAMBDA u : RetainedBytes(documents[u]), Uris)

\* No sequence of admitted calls exceeds the limits, late trees included.
WithinLimits ==
    /\ retained <= MaxRetainedBytes
    /\ Cardinality(OpenDocuments) <= MaxOpenDocuments
=============================================================================
