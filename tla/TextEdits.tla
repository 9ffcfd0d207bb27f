------------------------------ MODULE TextEdits ------------------------------
(* Edits of one text: which of several fixes are kept, what they make of    *)
(* the text on the command line (parser: fix.rs, cli: commands/fix.rs) and   *)
(* in an editor (lsp: code_action/*.rs, paths.rs), and the missing keys of   *)
(* localisation that a code action adds (create_loc_key.rs).                 *)
(*                                                                          *)
(* A text is a sequence of characters; "n" ends a line, "r" is a carriage    *)
(* return, and the characters of Wide count two units of UTF-16.  A place    *)
(* of the program is a line from 1 and a column of characters; a place of    *)
(* the protocol is a line from 0 and a column of the negotiated units.       *)
EXTENDS Naturals, Sequences, FiniteSets, SequencesExt

CONSTANTS Wide, MaxColumn, Lower(_)

None == "none"
Unreadable == <<None>>
Blank == [is |-> "blank"]

-----------------------------------------------------------------------------
(* Places.                                                                 *)
IndexesBy(seq, before(_, _)) ==
    SetToSortSeq(DOMAIN seq, LAMBDA i, j : before(i, j) \/ (~before(j, i) /\ i < j))

LineStartBytes(text) ==
    <<0>> \o SetToSortSeq({i \in DOMAIN text : text[i] = "n"}, LAMBDA i, j : i < j)

\* A column behind the end of its line is the end, a line behind the last is
\* the end of the text.
PosToByte(text, pos) ==
    LET starts == LineStartBytes(text) IN
    IF pos.line > Len(starts) THEN Len(text)
    ELSE LET start == starts[pos.line]
             ends == {i \in (start + 1)..Len(text) : text[i] = "n"}
             stop == IF ends = {} THEN Len(text) ELSE (CHOOSE i \in ends : \A j \in ends : i <= j) - 1
         IN IF start + pos.col <= stop THEN start + pos.col ELSE stop

\* The lines without their ends; nothing follows the last end.
Lines(text) ==
    LET starts == LineStartBytes(text)
        line(i) == SubSeq(text, starts[i] + 1, IF i < Len(starts) THEN starts[i + 1] - 1 ELSE Len(text))
        plain(s) == IF s # <<>> /\ Last(s) = "r" THEN Front(s) ELSE s
        count == IF Last(starts) = Len(text) THEN Len(starts) - 1 ELSE Len(starts)
    IN [i \in 1..count |-> IF i < Len(starts) THEN plain(line(i)) ELSE line(i)]

Units(ch, encoding) == IF encoding = "utf16" /\ ch \in Wide THEN 2 ELSE 1
SourceColumnToLsp(line, col, encoding) ==
    FoldLeft(LAMBDA n, ch : n + Units(ch, encoding), 0, SubSeq(line, 1, IF col < Len(line) THEN col ELSE Len(line)))
SourcePositionToLsp(text, pos, encoding) ==
    LET lines == Lines(text) IN
    [line |-> pos.line - 1,
     col |-> IF pos.line <= Len(lines) THEN SourceColumnToLsp(lines[pos.line], pos.col, encoding) ELSE pos.col]
SourceRangeToLsp(edit, text, encoding) ==
    [from |-> SourcePositionToLsp(text, edit.from, encoding), to |-> SourcePositionToLsp(text, edit.to, encoding),
     new |-> edit.new]

\* The way back, of the cursor: a column inside a wide character is before it.
Utf16ByteIndex(line, column) ==
    CHOOSE n \in 0..Len(line) :
        /\ SourceColumnToLsp(line, n, "utf16") <= column
        /\ n = Len(line) \/ SourceColumnToLsp(line, n + 1, "utf16") > column
LspPosToSource(text, pos, encoding) ==
    LET lines == Lines(text)
        line == IF pos.line < Len(lines) THEN lines[pos.line + 1] ELSE <<>>
    IN [line |-> pos.line + 1,
        col |-> IF encoding = "utf16" THEN Utf16ByteIndex(line, pos.col)
                ELSE IF pos.col < Len(line) THEN pos.col ELSE Len(line)]

-----------------------------------------------------------------------------
(* Fixes.  An edit is a range with the text that replaces it.               *)
Replace(from, to, new) == [edits |-> <<[from |-> from, to |-> to, new |-> new]>>, key |-> None]
Delete(from, to) == Replace(from, to, <<>>)
CreateLocKey(key) == [edits |-> <<>>, key |-> key]
KeyTokenEnd(start, length) ==
    LET col == start.col + (length % (MaxColumn + 1))
    IN [line |-> start.line, col |-> IF col <= MaxColumn THEN col ELSE MaxColumn]

\* In the order of their places, an edit that begins before the end of the
\* last one kept is skipped.  Planned edits carry a tag.
Skipped_never(from, end) == FALSE
Skipped(from, end) == from < end
PlanFileEdits(text, planned) ==
    LET order == IndexesBy(planned, LAMBDA i, j :
                     PosToByte(text, planned[i].edit.from) < PosToByte(text, planned[j].edit.from))
        step(plan, i) ==
            IF Skipped(PosToByte(text, planned[i].edit.from), plan.end)
              THEN [plan EXCEPT !.skipped = Append(@, planned[i].tag)]
            ELSE [plan EXCEPT !.kept = Append(@, planned[i].edit), !.end = PosToByte(text, planned[i].edit.to)]
    IN FoldLeft(step, [kept |-> <<>>, skipped |-> <<>>, end |-> 0], order)

\* The last edit is made first.
Splice(text, from, to, new) == SubSeq(text, 1, from) \o new \o SubSeq(text, to + 1, Len(text))
ApplyEdits(text, edits) ==
    LET from(i) == PosToByte(text, edits[i].from)
        to(i) == PosToByte(text, edits[i].to)
        step(out, i) == IF from(i) <= to(i) /\ to(i) <= Len(out) THEN Splice(out, from(i), to(i), edits[i].new) ELSE out
    IN FoldLeft(step, text, IndexesBy(edits, LAMBDA i, j : from(i) > from(j)))

\* What the command prints instead: the lines an edit touches, as they are and
\* as it makes them.
FixPreview(text, edits) ==
    LET starts == LineStartBytes(text)
        lineOf(byte) == CHOOSE n \in DOMAIN starts : starts[n] <= byte /\ (n = Len(starts) \/ starts[n + 1] > byte)
        hunk(i) ==
            LET s == PosToByte(text, edits[i].from)
                e == PosToByte(text, edits[i].to)
                last == IF e > s THEN lineOf(e - 1) ELSE lineOf(s)
                from == starts[lineOf(s)]
                to == IF last < Len(starts) THEN starts[last + 1] ELSE Len(text)
            IN [line |-> lineOf(s), old |-> SubSeq(text, from + 1, to),
                new |-> SubSeq(text, from + 1, s) \o edits[i].new \o SubSeq(text, e + 1, to)]
        order == IndexesBy(edits, LAMBDA i, j : PosToByte(text, edits[i].from) < PosToByte(text, edits[j].from))
    IN [n \in DOMAIN order |-> hunk(order[n])]

\* The command `fix`: the fixes of the wanted codes, per file, on the text the
\* file has by now.
FixCommand(diagnostics, wanted, texts, writable, apply) ==
    LET fixes(file) == FlattenSeq([i \in DOMAIN diagnostics |->
            LET d == diagnostics[i] IN
            IF d.file = file /\ d.code \in wanted
              THEN [j \in DOMAIN d.fix.edits |-> [tag |-> d.code, edit |-> d.fix.edits[j]]] ELSE <<>>])
        readable == {f \in DOMAIN texts : texts[f] # Unreadable}
        plan == [f \in readable |-> PlanFileEdits(texts[f], fixes(f))]
        changed == {f \in readable : plan[f].kept # <<>>}
        failed == IF apply THEN changed \ writable ELSE {}
    IN [texts |-> [f \in DOMAIN texts |->
                     IF apply /\ f \in changed \ failed THEN ApplyEdits(texts[f], plan[f].kept) ELSE texts[f]],
        shown |-> [f \in changed |-> IF apply THEN <<>> ELSE FixPreview(texts[f], plan[f].kept)],
        applied |-> changed \ failed, exit |-> IF failed = {} THEN 0 ELSE 2]

-----------------------------------------------------------------------------
(* Code actions.  A diagnostic carries its fix; one without a fix has no     *)
(* edits.                                                                    *)
FixableSpanEdits(diagnostic) ==
    IF diagnostic.code = None THEN <<>>
    ELSE [i \in DOMAIN diagnostic.fix.edits |-> [tag |-> diagnostic.code, edit |-> diagnostic.fix.edits[i]]]

LspEdits(edits, text, encoding) == [i \in DOMAIN edits |-> SourceRangeToLsp(edits[i], text, encoding)]
Fixable(diagnostics) == {i \in DOMAIN diagnostics : diagnostics[i].fix.edits # <<>>}

CodeActionsFromDiagnostics(diagnostics, text, encoding) ==
    LET order == SetToSortSeq(Fixable(diagnostics), LAMBDA i, j : i < j)
    IN [n \in DOMAIN order |->
          [resolves |-> {order[n]}, edits |-> LspEdits(diagnostics[order[n]].fix.edits, text, encoding)]]

\* One action that makes all the fixes it can; it resolves the diagnostics all
\* of whose edits were kept.
FixAllAction(diagnostics, text, encoding) ==
    LET planned == FlattenSeq([i \in DOMAIN diagnostics |->
            IF i \in Fixable(diagnostics)
              THEN [j \in DOMAIN diagnostics[i].fix.edits |-> [tag |-> i, edit |-> diagnostics[i].fix.edits[j]]]
            ELSE <<>>])
        plan == PlanFileEdits(text, planned)
    IN IF plan.kept = <<>> THEN <<>>
       ELSE <<[resolves |-> Fixable(diagnostics) \ ToSet(plan.skipped), edits |-> LspEdits(plan.kept, text, encoding)]>>

\* A kind asked for includes the kinds below it; who names none asks for <<>>.
Wants(only, kind) == \E k \in only : IsPrefix(k, kind)

\* Ignoring a code: a new text of the settings, where they can be read.  A
\* value of the settings is an object, a list or something else.
SettingsKey == <<"cwtools", "errors", "ignore">>
RECURSIVE Updated(_, _, _)
Updated(object, keys, code) ==
    LET at == object.at
        old == IF keys[1] \in DOMAIN at THEN at[keys[1]]
               ELSE IF Len(keys) = 1 THEN [is |-> "list", items |-> <<>>] ELSE [is |-> "object", at |-> <<>>]
        new == IF Len(keys) > 1 THEN (IF old.is = "object" THEN Updated(old, Tail(keys), code) ELSE [is |-> "broken"])
               ELSE IF old.is # "list" THEN [is |-> "broken"]
               ELSE IF \E item \in ToSet(old.items) : Lower(item) = Lower(code) THEN old
               ELSE [old EXCEPT !.items = Append(@, code)]
    IN IF new.is = "broken" THEN new
       ELSE [object EXCEPT !.at = [k \in DOMAIN at \cup {keys[1]} |-> IF k = keys[1] THEN new ELSE at[k]]]
UpdatedSettingsJson(code, existing) ==
    LET root == IF existing = Blank THEN [is |-> "object", at |-> <<>>] ELSE existing
    IN IF root.is = "object" THEN Updated(root, SettingsKey, code) ELSE [is |-> "broken"]

IgnoreCodeActions(diagnostics, ignored, root, existing) ==
    LET first == {i \in DOMAIN diagnostics :
                    /\ diagnostics[i].code # None
                    /\ \A j \in 1..(i - 1) : diagnostics[j].code # diagnostics[i].code
                    /\ ~\E c \in ignored : Lower(c) = Lower(diagnostics[i].code)
                    /\ UpdatedSettingsJson(diagnostics[i].code, existing).is # "broken"}
        order == SetToSortSeq(IF root = None THEN {} ELSE first, LAMBDA i, j : i < j)
    IN [n \in DOMAIN order |->
          LET code == diagnostics[order[n]].code IN
          [resolves |-> {i \in DOMAIN diagnostics : diagnostics[i].code = code},
           settings |-> UpdatedSettingsJson(code, existing)]]

-----------------------------------------------------------------------------
(* Keys of localisation to create.  A file has a language, may be edited or  *)
(* not, and was discovered or not.                                           *)
SiblingLocKeys(required, key) == SelectSeq(required, LAMBDA k : k # key)
\* The instance a diagnostic is about begins on its line and requires its key.
SiblingLocKeysForDiagnostic(instances, line, key) ==
    LET owners == SelectSeq(instances, LAMBDA i : i.line = line /\ key \in ToSet(i.required))
    IN IF owners = <<>> THEN <<>> ELSE SiblingLocKeys(owners[1].required, key)

\* Behind a sibling's line, else at the end of the language's first file, else
\* in a file of its own.
ResolveSiblingSite(siblings, locations, files, lang) ==
    LET ok(k) == LET key == Lower(k) IN
                 key \in DOMAIN locations /\ files[locations[key].file].lang = lang /\ files[locations[key].file].editable
        hits == SelectSeq(siblings, ok)
    IN IF hits = <<>> THEN <<>> ELSE <<locations[Lower(hits[1])]>>
PickLangFile(discovered, files, lang) ==
    SelectSeq(discovered, LAMBDA f : files[f].lang = lang /\ files[f].editable)
ResolveLocInsertTarget(lang, siblings, locations, files, discovered, generated) ==
    LET site == ResolveSiblingSite(siblings, locations, files, lang)
        known == PickLangFile(discovered, files, lang)
    IN IF site # <<>> THEN [is |-> "after line", file |-> site[1].file, line |-> site[1].line]
       ELSE IF known # <<>> THEN [is |-> "append", file |-> known[1]]
       ELSE IF files[generated[lang]].editable THEN [is |-> "new", file |-> generated[lang]]
       ELSE [is |-> None]

\* A candidate has a key and, for every language, a target; one without a
\* target in some language is none.
Candidates(asked, langs, locations, files, discovered, generated) ==
    LET targets(c) == [l \in langs |-> ResolveLocInsertTarget(l, c.siblings, locations, files, discovered, generated)]
        all == [i \in DOMAIN asked |-> [key |-> asked[i].key, targets |-> targets(asked[i])]]
    IN SelectSeq(all, LAMBDA c : \A l \in langs : c.targets[l].is # None)

StubLine(key) == <<" ", key, "0">>
Header(lang) == <<lang, "n">>
EolOf(text) == IF \E i \in 1..(Len(text) - 1) : text[i] = "r" /\ text[i + 1] = "n" THEN <<"r", "n">> ELSE <<"n">>

InsertStubAfterLine(text, after, stub, encoding) ==
    LET lines == Lines(text)
        follows == after + 1 < Len(lines) \/ (after + 1 = Len(lines) /\ Last(text) = "n")
        line == IF after < Len(lines) THEN lines[after + 1] ELSE <<>>
    IN IF text = <<>> THEN [at |-> [line |-> 0, col |-> 0], new |-> stub \o EolOf(text)]
       ELSE IF follows THEN [at |-> [line |-> after + 1, col |-> 0], new |-> stub \o EolOf(text)]
       ELSE [at |-> [line |-> after, col |-> SourceColumnToLsp(line, Len(line), encoding)], new |-> EolOf(text) \o stub]

\* An operation creates a file or inserts into one.
InsertEditOp(file, insert) == [is |-> "edit", file |-> file, inserts |-> <<insert>>]
AtStart(new) == [at |-> [line |-> 0, col |-> 0], new |-> new]
LocInsertOperations(target, stub, texts, encoding) ==
    IF target.is = "new" \/ target.file \notin DOMAIN texts THEN <<>>
    ELSE LET text == texts[target.file]
             count == Len(Lines(text))
             after == IF target.is = "after line" THEN target.line ELSE IF count = 0 THEN 0 ELSE count - 1
         IN <<InsertEditOp(target.file, InsertStubAfterLine(text, after, stub, encoding))>>

\* The first candidate that needs a new file of a language creates it; the
\* others only add their line.
NewFileOwner(candidates, lang) ==
    LET needing == {i \in DOMAIN candidates : candidates[i].targets[lang].is = "new"}
    IN IF needing = {} THEN 0 ELSE CHOOSE i \in needing : \A j \in needing : i <= j
Creates_each(candidates, i, lang) == TRUE
Creates(candidates, i, lang) == NewFileOwner(candidates, lang) = i
CandidateOperations(candidates, i, langs, texts, encoding) ==
    LET c == candidates[i]
        stub == StubLine(c.key)
        ops(lang) ==
            LET target == c.targets[lang] IN
            IF target.is # "new" THEN LocInsertOperations(target, stub, texts, encoding)
            ELSE IF Creates(candidates, i, lang)
              THEN <<[is |-> "create", file |-> target.file],
                     InsertEditOp(target.file, AtStart(Header(lang) \o stub \o <<"n">>))>>
            ELSE <<InsertEditOp(target.file, AtStart(stub \o <<"n">>))>>
    IN IF \E n \in DOMAIN langs : ops(langs[n]) = <<>> THEN <<>>
       ELSE FlattenSeq([n \in DOMAIN langs |-> ops(langs[n])])

\* Edits of one file become one.
MergeOperations(into, new) ==
    FoldLeft(LAMBDA ops, op :
        LET same == {n \in DOMAIN ops : ops[n].is = "edit" /\ op.is = "edit" /\ ops[n].file = op.file}
        IN IF same = {} THEN Append(ops, op)
           ELSE [ops EXCEPT ![CHOOSE n \in same : \A k \in same : n <= k].inserts = @ \o op.inserts],
        into, new)

\* A candidate with a new file that an earlier one creates joins that one's
\* action, with all of its operations.
FoldInto(candidates, i, langs) ==
    LET needed == SelectSeq(langs, LAMBDA l : candidates[i].targets[l].is = "new" /\ NewFileOwner(candidates, l) # i)
    IN IF needed = <<>> THEN 0 ELSE NewFileOwner(candidates, needed[1])
BuildCreateLocKeyBatch(candidates, langs, texts, encoding) ==
    LET ops(i) == CandidateOperations(candidates, i, langs, texts, encoding)
        built == SelectSeq([i \in DOMAIN candidates |-> i], LAMBDA i : FoldInto(candidates, i, langs) = 0 /\ ops(i) # <<>>)
        joining(i) == SelectSeq([j \in DOMAIN candidates |-> j], LAMBDA j : FoldInto(candidates, j, langs) = i /\ ops(j) # <<>>)
    IN [n \in DOMAIN built |->
          [serves |-> {built[n]} \cup ToSet(joining(built[n])),
           operations |-> FoldLeft(LAMBDA into, j : MergeOperations(into, ops(j)), ops(built[n]), joining(built[n]))]]

\* A request for code actions of some kinds.
CodeActions(only, diagnostics, text, encoding, keyActions, ignoreActions) ==
    LET quick == CodeActionsFromDiagnostics(diagnostics, text, encoding) \o keyActions \o ignoreActions
        all == FixAllAction(diagnostics, text, encoding)
    IN IF text = Unreadable THEN <<>>
       ELSE (IF Wants(only, <<"quickfix">>) THEN quick ELSE <<>>)
              \o (IF Wants(only, <<"source", "fixAll">>) THEN all ELSE <<>>)

-----------------------------------------------------------------------------
(* The client.                                                             *)
ClientOffset(text, pos, encoding) ==
    LET starts == LineStartBytes(text) IN
    IF pos.line >= Len(starts) THEN Len(text)
    ELSE LET line == IF pos.line < Len(Lines(text)) THEN Lines(text)[pos.line + 1] ELSE <<>>
             fits == {n \in 0..Len(line) : SourceColumnToLsp(line, n, encoding) <= pos.col}
         IN starts[pos.line + 1] + (CHOOSE n \in fits : \A k \in fits : k <= n)

\* All ranges are of the text as it was; insertions at one place keep their order.
ClientApplies(text, edits, encoding) ==
    LET from(i) == ClientOffset(text, edits[i].from, encoding)
        to(i) == ClientOffset(text, edits[i].to, encoding)
        order == IndexesBy(edits, LAMBDA i, j : from(i) < from(j))
        step(out, i) == [text |-> out.text \o SubSeq(text, out.at + 1, from(i)) \o edits[i].new, at |-> to(i)]
        done == FoldLeft(step, [text |-> <<>>, at |-> 0], order)
    IN done.text \o SubSeq(text, done.at + 1, Len(text))
ClientInserts(text, inserts, encoding) ==
    ClientApplies(text, [i \in DOMAIN inserts |-> [from |-> inserts[i].at, to |-> inserts[i].at, new |-> inserts[i].new]],
                  encoding)

\* Operations one after the other; an edit of a file that is not there fails.
Failed == <<"failed">>
Perform(texts, operations, encoding) ==
    FoldLeft(LAMBDA done, op :
        IF done = Failed THEN done
        ELSE IF op.is = "create"
          THEN [f \in DOMAIN done \cup {op.file} |-> IF f \in DOMAIN done THEN done[f] ELSE <<>>]
        ELSE IF op.file \notin DOMAIN done THEN Failed
        ELSE [done EXCEPT ![op.file] = ClientInserts(@, op.inserts, encoding)],
        texts, operations)
=============================================================================
