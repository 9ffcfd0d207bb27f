--------------------------- MODULE WorkspaceEdits ---------------------------
(* Edits that the server makes and the client applies: the fixes of all     *)
(* problems of the workspace (lsp: code_action/fix_all.rs) and the renaming *)
(* of an instance, a localisation key or a variable (navigation/rename.rs). *)
(* Either reads texts, waits, and sends edits computed for those texts to a *)
(* client that is typing meanwhile.  A version number is all that keeps an  *)
(* edit from a text it was not made for.                                    *)
(*                                                                          *)
(* Abstractions: an edit is the text it was computed for; which files are   *)
(* concerned, which text has a problem with a fix, and whether a use is     *)
(* found again, are open.  A client never gives one version number to two   *)
(* texts of a file.                                                         *)
EXTENDS Naturals, Sequences, FiniteSets, SequencesExt

CONSTANTS Files, Texts, Absent,
          Editable,          \* files inside the folders of the workspace
          DocumentChanges,   \* the client takes versioned edits
          MaxVersion         \* bound: texts a buffer has

VARIABLES disk,        \* what is on disk
          buffer,      \* what the client shows; version 0: not open
          issued,      \* version numbers the client has used
          inbox,       \* notifications on their way to the server
          documents,   \* the server's copy of the open documents
          publishes,   \* validations about to publish
          fixable,     \* fixes of what was last published of a file
          fixAll,      \* the command that applies them all
          renaming,    \* a request to rename
          sent         \* edits on their way to the client

editVars == <<disk, buffer, issued, inbox, documents, publishes, fixable, fixAll, renaming, sent>>

Closed == [version |-> 0, text |-> Absent]
NoFix == [version |-> 0, hash |-> Absent, madeFor |-> Absent]
Idle == [at |-> "idle"]

Start ==
    /\ buffer = [f \in Files |-> Closed] /\ documents = buffer /\ issued = [f \in Files |-> 0]
    /\ inbox = <<>> /\ publishes = {} /\ fixable = [f \in Files |-> NoFix]
    /\ fixAll = Idle /\ renaming = Idle /\ sent = {}
Init == disk \in [Files -> Texts] /\ Start

-----------------------------------------------------------------------------
(* The client.                                                             *)
clientVars == <<documents, publishes, fixable, fixAll, renaming>>

Notify(f, version, text) ==
    /\ buffer' = [buffer EXCEPT ![f] = [version |-> version, text |-> text]]
    /\ inbox' = Append(inbox, [file |-> f, document |-> buffer'[f]])

Edit(f, text) ==
    /\ issued[f] < MaxVersion
    /\ issued' = [issued EXCEPT ![f] = @ + 1]
    /\ Notify(f, issued[f] + 1, text)

DidOpen(f) == buffer[f] = Closed /\ Edit(f, disk[f]) /\ UNCHANGED <<disk, sent>> /\ UNCHANGED clientVars
DidChange(f) == /\ buffer[f] # Closed /\ \E text \in Texts \ {buffer[f].text} : Edit(f, text)
                /\ UNCHANGED <<disk, sent>> /\ UNCHANGED clientVars
DidClose(f) == /\ buffer[f] # Closed /\ Notify(f, 0, Absent) /\ UNCHANGED <<disk, issued, sent>> /\ UNCHANGED clientVars
WriteDisk(f) == /\ \E text \in Texts \ {disk[f]} : disk' = [disk EXCEPT ![f] = text]
                /\ UNCHANGED <<buffer, issued, inbox, sent>> /\ UNCHANGED clientVars

\* An edit of an open file is for the version it names, and is refused, all of
\* it, if one version is not the buffer's.  A file without a version is edited
\* as it is.
Fits(edit) == \A f \in DOMAIN edit.files : edit.files[f].version \in {0, buffer[f].version}
Applied(edit) == {f \in DOMAIN edit.files : Fits(edit) /\ buffer[f] # Closed}

Answer(edit) ==
    /\ edit \in sent /\ sent' = sent \ {edit}
    /\ fixAll' = IF edit.by = "fixAll" THEN Idle ELSE fixAll
    /\ renaming' = IF edit.by = "rename" THEN Idle ELSE renaming
    /\ UNCHANGED <<disk, buffer, issued, inbox, documents, publishes, fixable>>

-----------------------------------------------------------------------------
(* Documents, validations and what they publish.                           *)
otherVars == <<disk, buffer, issued, fixAll, renaming, sent>>
Version(f) == documents[f].version

\* A notification reaches the server.  A file that closes has its problems
\* cleared.
Receive ==
    /\ inbox # <<>>
    /\ LET note == Head(inbox) IN
        /\ documents' = [documents EXCEPT ![note.file] = note.document]
        /\ publishes' = IF note.document = Closed
                          THEN publishes \cup {[file |-> note.file, version |-> 0, text |-> Absent]}
                          ELSE publishes
    /\ inbox' = Tail(inbox)
    /\ UNCHANGED fixable /\ UNCHANGED otherVars

\* A validation of the text of a document, or of a file that is not open.
Validate(f) ==
    /\ ~\E p \in publishes : p.file = f /\ p.version = Version(f) /\ p.text # Absent
    /\ LET text == IF documents[f] = Closed THEN disk[f] ELSE documents[f].text IN
        publishes' = publishes \cup {[file |-> f, version |-> Version(f), text |-> text]}
    /\ UNCHANGED <<inbox, documents, fixable>> /\ UNCHANGED otherVars

\* The fixes are kept with what tells the text they are for: the version of an
\* open document, else the hash of what was read.
Store(p, found) ==
    IF ~found THEN NoFix
    ELSE [version |-> p.version, hash |-> IF p.version = 0 THEN p.text ELSE Absent, madeFor |-> p.text]
PublishFiltered(p) ==
    /\ p \in publishes /\ publishes' = publishes \ {p}
    /\ \E found \in BOOLEAN :
          /\ p.text = Absent => ~found
          /\ fixable' = [fixable EXCEPT ![p.file] = Store(p, found)]
    /\ UNCHANGED <<inbox, documents>> /\ UNCHANGED otherVars

-----------------------------------------------------------------------------
(* Texts of files: open ones at once, under the lock of the documents; the  *)
(* others are read from disk, which is awaited.                             *)
OpenTexts(files) == [f \in {g \in files : documents[g] # Closed} |-> documents[f]]
DiskTexts(files) == [f \in files |-> [version |-> 0, text |-> disk[f]]]
Merge(old, new) == [f \in DOMAIN old \cup DOMAIN new |-> IF f \in DOMAIN new THEN new[f] ELSE old[f]]

\* Files of an edit with the version each is stamped with and the text its
\* ranges were computed for.
Stamp(version) == IF DocumentChanges THEN version ELSE 0
Send(by, files) == sent' = sent \cup {[by |-> by, files |-> files]}

-----------------------------------------------------------------------------
(* Fix all problems of the workspace.                                      *)
fixVars == <<disk, buffer, issued, inbox, documents, publishes, renaming>>

\* A copy of what is stored; which of the files may be edited is awaited.
CopyFixes ==
    LET files == {f \in Files : fixable[f] # NoFix} IN
    /\ fixAll = Idle /\ files # {}
    /\ fixAll' = [at |-> "copied", fixes |-> [f \in files |-> fixable[f]]]
    /\ UNCHANGED <<fixable, sent>> /\ UNCHANGED fixVars

FixableEditsMatch_openAlways(fix, text) == text.version # 0 \/ fix.hash = text.text
FixableEditsMatch(fix, text) ==
    IF fix.version = 0 THEN fix.hash = text.text ELSE fix.version = text.version
FixesFor(fix, text) == [version |-> Stamp(text.version), madeFor |-> fix.madeFor]

\* Fixes for another text are dropped, from the store too if they are still
\* what it holds.  The rest is sent with the versions of the texts read.
Plan(fixes, texts) ==
    LET files == {f \in DOMAIN fixes : FixableEditsMatch(fixes[f], texts[f])}
    IN /\ fixable' = [f \in Files |->
                        IF f \in DOMAIN fixes \ files /\ fixable[f] = fixes[f] THEN NoFix ELSE fixable[f]]
       /\ IF files = {} THEN fixAll' = Idle /\ UNCHANGED sent
          ELSE /\ fixAll' = [at |-> "sent"]
               /\ Send("fixAll", [f \in files |-> FixesFor(fixes[f], texts[f])])

ReadForFixes ==
    /\ fixAll.at = "copied"
    /\ LET files == DOMAIN fixAll.fixes \cap Editable
           fixes == [f \in files |-> fixAll.fixes[f]]
           texts == OpenTexts(files)
       IN IF DOMAIN texts = files THEN Plan(fixes, texts)
          ELSE /\ fixAll' = [at |-> "reading", fixes |-> fixes, texts |-> texts]
               /\ UNCHANGED <<fixable, sent>>
    /\ UNCHANGED fixVars

PlanFixes ==
    /\ fixAll.at = "reading"
    /\ Plan(fixAll.fixes, Merge(DiskTexts(DOMAIN fixAll.fixes), fixAll.texts))
    /\ UNCHANGED fixVars

-----------------------------------------------------------------------------
(* Rename.                                                                 *)
renameVars == <<disk, buffer, issued, inbox, documents, publishes, fixable, fixAll>>

\* The files of the definition and of the uses.  A key of localisation is
\* looked for in two rounds: in the files of localisation, then in the scripts.
StartRename ==
    /\ renaming = Idle
    /\ \E files \in (SUBSET Files) \ {{}} : \E scripts \in SUBSET (Files \ files) :
          renaming' = [at |-> "found", files |-> files, scripts |-> scripts, texts |-> <<>>]
    /\ UNCHANGED sent /\ UNCHANGED renameVars

\* The edit is stamped with the versions the documents have by now.
BuildWorkspaceEdit(texts) == [f \in DOMAIN texts |-> [version |-> Stamp(Version(f)), madeFor |-> texts[f].text]]
Finish(r, texts) ==
    IF r.scripts # {}
      THEN /\ renaming' = [r EXCEPT !.at = "found", !.files = r.scripts, !.scripts = {}, !.texts = texts]
           /\ UNCHANGED sent
    ELSE IF DOMAIN texts \subseteq Editable
      THEN renaming' = [at |-> "sent"] /\ Send("rename", BuildWorkspaceEdit(texts))
    ELSE renaming' = Idle /\ UNCHANGED sent

ReadForRename ==
    /\ renaming.at = "found"
    /\ LET texts == Merge(renaming.texts, OpenTexts(renaming.files)) IN
        IF renaming.files \subseteq DOMAIN texts THEN Finish(renaming, texts)
        ELSE /\ renaming' = [renaming EXCEPT !.at = "reading", !.texts = texts]
             /\ UNCHANGED sent
    /\ UNCHANGED renameVars

FinishRename ==
    /\ renaming.at = "reading"
    /\ Finish(renaming, Merge(DiskTexts(renaming.files \ DOMAIN renaming.texts), renaming.texts))
    /\ UNCHANGED renameVars

\* A use that the text read does not have cancels the request.
CancelRename ==
    /\ renaming.at \in {"found", "reading"} /\ renaming' = Idle
    /\ UNCHANGED sent /\ UNCHANGED renameVars

Next ==
    \/ \E f \in Files : DidOpen(f) \/ DidChange(f) \/ DidClose(f) \/ WriteDisk(f) \/ Validate(f)
    \/ Receive
    \/ \E p \in publishes : PublishFiltered(p)
    \/ \E edit \in sent : Answer(edit)
    \/ CopyFixes \/ ReadForFixes \/ PlanFixes
    \/ StartRename \/ ReadForRename \/ FinishRename \/ CancelRename
Spec == Init /\ [][Next]_editVars

-----------------------------------------------------------------------------
\* A client that takes versioned edits applies a fix only to the text it was
\* computed for, however long the command waited and whatever was typed, closed
\* or opened meanwhile (fix_all.rs: workspace_edit_for_snapshots).  Excepted are
\* files that were not open when they were read: nothing guards those.
FitsText(edit) ==
    \A f \in Applied(edit) : edit.files[f].version # 0 => edit.files[f].madeFor = buffer[f].text
EditsFitTheText == \A edit \in sent : edit.by = "fixAll" => FitsText(edit)

\* The same of a rename, as a comment has it: open documents carry their version
\* so that a stale buffer rejects the edit (rename.rs: build_workspace_edit).
RenamesFitTheText == \A edit \in sent : edit.by = "rename" => FitsText(edit)
=============================================================================
