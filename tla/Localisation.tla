---------------------------- MODULE Localisation ----------------------------
(***************************************************************************)
(* Localisation files (crate localization): how a file is found and read,  *)
(* what its values refer to, the index of its keys, and the checks.        *)
(*                                                                         *)
(* A file is a sequence of lines, a line a sequence of characters.         *)
(***************************************************************************)
EXTENDS GameScopes

CONSTANTS Letters,      \* characters a key may hold, digits among them
          Digits,
          Accents,      \* characters no value may hold
          MaxValue,     \* characters of a value that is looked into (MAX_LOC_VALUE_BYTES)
          Spelt         \* sequence of characters -> the word it spells

Word(chars) == IF chars \in DOMAIN Spelt THEN Spelt[chars] ELSE "?"
FoldChars(chars) == [i \in DOMAIN chars |-> Fold(chars[i])]
From(s, i) == SubSeq(s, i, Len(s))
First(s, set) == SelectInSeq(s, LAMBDA c : c \in set)
TrimStart(s) == LET i == SelectInSeq(s, LAMBDA c : c # " ") IN IF i = 0 THEN <<>> ELSE From(s, i)
TrimEnd(s) == SubSeq(s, 1, SelectLastInSeq(s, LAMBDA c : c # " "))
Trim(s) == TrimEnd(TrimStart(s))

RECURSIVE Split(_, _)
Split(s, sep) ==
    LET i == First(s, {sep})
    IN IF i = 0 THEN <<s>> ELSE <<SubSeq(s, 1, i - 1)>> \o Split(From(s, i + 1), sep)

-----------------------------------------------------------------------------
(* What a value refers to: $keys$ and [commands].                          *)

Nothing == [found |-> FALSE]
Found(element, next) == [found |-> TRUE, element |-> element, next |-> next]

\* Mutant of Closers: one closing bracket is remembered.
Closers_one(n) == 1

Closers(n) == n + 1

\* From the end: a closing bracket is kept for the next opening one before it.
UnmatchedOpens(s) ==
    LET back(acc, i) ==
            CASE s[i] = "]" -> [acc EXCEPT !.closers = Closers(@)]
              [] s[i] = "[" /\ acc.closers > 0 -> [acc EXCEPT !.closers = @ - 1]
              [] s[i] = "[" /\ acc.closers = 0 -> [acc EXCEPT !.opens = Append(@, i)]
              [] OTHER -> acc
    IN FoldLeft(back, [closers |-> 0, opens |-> <<>>], Reverse([i \in DOMAIN s |-> i])).opens

IsLocRefKey(key) == key # <<>> /\ \A i \in DOMAIN key : key[i] \in Letters \cup {"_", "."}
ParseRef(s, start) ==
    LET end == SelectInSubSeq(s, start + 1, Len(s), LAMBDA c : c \in {"$", "|"})
        key == SubSeq(s, start + 1, end - 1)
        close == SelectInSubSeq(s, end + 1, Len(s), LAMBDA c : c = "$")
    IN CASE end = 0 -> Nothing
         [] end # 0 /\ ~IsLocRefKey(key) -> Nothing
         [] end # 0 /\ IsLocRefKey(key) /\ s[end] = "$" -> Found(<<"ref", key>>, end + 1)
         [] end # 0 /\ IsLocRefKey(key) /\ s[end] = "|" ->
                IF close = 0 THEN Nothing ELSE Found(<<"ref", key>>, close + 1)

\* Behind the opening bracket: the place of the one that closes it, or 0.
RECURSIVE Closing(_, _, _)
Closing(s, i, depth) ==
    IF i > Len(s) THEN 0
    ELSE LET d == depth + (IF s[i] = "[" THEN 1 ELSE 0)
         IN CASE s[i] = "]" /\ d = 1 -> i
              [] s[i] = "]" /\ d > 1 -> Closing(s, i + 1, d - 1)
              [] s[i] # "]" -> Closing(s, i + 1, d)

\* A chain of keys, each with its parameters; none when a parenthesis stays open.
\* Parameters end at the first closing parenthesis, whatever was opened before.
RECURSIVE ParseJomini(_)
ParseParam(s) ==
    LET t == Trim(s)
    IN CASE Len(t) >= 2 /\ t[1] = "'" /\ t[Len(t)] = "'" -> <<"literal", SubSeq(t, 2, Len(t) - 1)>>
         [] (Len(t) < 2 \/ t[1] # "'" \/ t[Len(t)] # "'") /\ First(t, {"."}) # 0 -> <<"commands", ParseJomini(t)>>
         [] OTHER -> <<"literal", t>>
ParseJomini(s) ==
    LET stop == First(s, {".", "("})
        key == SelectSeq(SubSeq(s, 1, (IF stop = 0 THEN Len(s) ELSE stop - 1)), LAMBDA c : c \notin {" ", ","})
        close == SelectInSubSeq(s, stop + 1, Len(s), LAMBDA c : c = ")")
        params == SelectSeq(Split(SubSeq(s, stop + 1, close - 1), ","), LAMBDA p : Trim(p) # <<>>)
        parsed == [i \in DOMAIN params |-> ParseParam(params[i])]
        command(ps) == <<[key |-> key, params |-> ps]>>
        with(head, tail) == IF tail.ok THEN [ok |-> TRUE, chain |-> head \o tail.chain] ELSE tail
        plain == IF key = <<>> THEN <<>> ELSE command(<<>>)
        failed == \E i \in DOMAIN parsed : parsed[i][1] = "commands" /\ ~parsed[i][2].ok
    IN CASE stop = 0 -> [ok |-> TRUE, chain |-> plain]
         [] stop # 0 /\ s[stop] = "." -> with(plain, ParseJomini(From(s, stop + 1)))
         [] stop # 0 /\ s[stop] = "(" ->
                IF close = 0 \/ failed THEN [ok |-> FALSE, chain |-> <<>>]
                ELSE with(command(parsed), ParseJomini(From(s, close + 1)))

ParseBracket(s, start) ==
    LET close == Closing(s, start + 1, 1)
        content == SubSeq(s, start + 1, close - 1)
        jomini == ParseJomini(content)
        pipe == First(content, {"|"})
    IN CASE close = 0 -> Nothing
         [] close # 0 /\ First(content, {".", "("}) # 0 /\ jomini.ok -> Found(<<"jomini", jomini.chain>>, close + 1)
         [] OTHER -> Found(<<"command", IF pipe = 0 THEN content ELSE SubSeq(content, 1, pipe - 1)>>, close + 1)

\* The brackets without a partner are counted once; those behind are dropped.
StillOpen(unmatched, i) == SelectSeq(unmatched, LAMBDA p : p > i)

\* Left to right.  The first bracket that finds no partner has the others
\* looked up, so that none of them searches the rest of the text again.
RECURSIVE Elements(_, _, _, _)
Elements(s, i, literal, unmatched) ==
    LET known == unmatched # <<>> /\ unmatched[1] # <<>> /\ Last(unmatched[1]) = i
        parsed == CASE s[i] = "$" -> ParseRef(s, i)
                    [] s[i] = "[" -> IF known THEN Nothing ELSE ParseBracket(s, i)
                    [] OTHER -> Nothing
        before == IF literal = 0 THEN <<>> ELSE <<<<"chars", SubSeq(s, literal, i - 1)>>>>
        special == SelectInSubSeq(s, i + 1, Len(s), LAMBDA c : c \in {"$", "[", "]"})
        next == IF special = 0 THEN Len(s) + 1 ELSE special
        stack == IF s[i] # "[" THEN unmatched
                 ELSE <<StillOpen(IF unmatched = <<>> THEN UnmatchedOpens(s) ELSE unmatched[1], i)>>
    IN CASE i > Len(s) -> IF literal = 0 THEN <<>> ELSE <<<<"chars", From(s, literal)>>>>
         [] i <= Len(s) /\ parsed.found ->
                before \o <<parsed.element>> \o Elements(s, parsed.next, 0, unmatched)
         [] OTHER -> Elements(s, next, IF literal = 0 THEN i ELSE literal, stack)
ParseLocElements(s) == Elements(s, 1, 0, <<>>)

\* What the shortcut stands for: every bracket searches for its partner.
RECURSIVE PlainElements(_, _, _)
PlainElements(s, i, literal) ==
    LET parsed == CASE s[i] = "$" -> ParseRef(s, i)
                    [] s[i] = "[" -> ParseBracket(s, i)
                    [] OTHER -> Nothing
        before == IF literal = 0 THEN <<>> ELSE <<<<"chars", SubSeq(s, literal, i - 1)>>>>
    IN CASE i > Len(s) -> IF literal = 0 THEN <<>> ELSE <<<<"chars", From(s, literal)>>>>
         [] i <= Len(s) /\ parsed.found ->
                before \o <<parsed.element>> \o PlainElements(s, parsed.next, 0)
         [] OTHER -> PlainElements(s, i + 1, IF literal = 0 THEN i ELSE literal)

-----------------------------------------------------------------------------
(* Files.                                                                  *)

Languages == "l_english" :> "english" @@ "l_french" :> "french" @@ "l_german" :> "german"
             @@ "l_spanish" :> "spanish" @@ "l_russian" :> "russian" @@ "l_polish" :> "polish"
             @@ "l_braz_por" :> "braz_por" @@ "l_simp_chinese" :> "simp_chinese" @@ "l_japanese" :> "japanese"
             @@ "l_korean" :> "korean" @@ "l_turkish" :> "turkish" @@ "l_default" :> "default"
NoLang == "no language"
KeyToLanguage(word) == IF Fold(word) \in DOMAIN Languages THEN Languages[Fold(word)] ELSE NoLang

\* An entry: a key, a version, a value, and what the value refers to.
Commented(line) == TrimStart(line) = <<>> \/ TrimStart(line)[1] = "#"
ParseEntry(line, n) ==
    LET trimmed == TrimStart(line)
        colon == First(trimmed, {":"})
        rest == From(trimmed, colon + 1)
        text == SelectInSeq(rest, LAMBDA c : c \notin Digits)
        behind == IF text = 0 THEN <<>> ELSE From(rest, text)
        desc == IF behind # <<>> /\ behind[1] = " " THEN Tail(behind) ELSE behind
        column == Len(line) - Len(desc)
        elements == IF Len(desc) > MaxValue THEN <<>> ELSE ParseLocElements(desc)
        those(kind) == LET hits == SelectSeq(elements, LAMBDA e : e[1] = kind) IN [i \in DOMAIN hits |-> hits[i][2]]
        bad == First(desc, Accents)
    IN [is |-> CASE Commented(line) -> "blank"
                 [] ~Commented(line) /\ colon = 0 -> "error"
                 [] OTHER -> "entry",
        line |-> n, key |-> TrimEnd(SubSeq(trimmed, 1, colon - 1)), desc |-> desc, column |-> column,
        bad |-> IF bad = 0 THEN 0 ELSE column + bad,
        refs |-> those("ref"), commands |-> those("command"), chains |-> those("jomini")]

\* The language is the first line that is neither empty nor a comment.
HeaderAt(lines) == SelectInSeq(lines, LAMBDA line : ~Commented(line))
ParseLocText(lines) ==
    LET at == HeaderAt(lines)
        colon == First(lines[at], {":"})
        header == Word(Trim(SubSeq(lines[at], 1, colon - 1)))
        read == [i \in 1..(Len(lines) - at) |-> ParseEntry(lines[at + i], at + i)]
    IN IF at = 0 \/ colon = 0 THEN Nothing
       ELSE [found |-> TRUE, header |-> header, lang |-> KeyToLanguage(header), csv |-> FALSE,
             entries |-> SelectSeq(read, LAMBDA e : e.is = "entry"),
             errors |-> SelectSeq(read, LAMBDA e : e.is = "error")]

\* The old format has a column for each language, and one in between for none.
ColumnLangs == <<NoLang, "english", "french", "german", NoLang, "spanish">>
ParseCsv(lines, lang) ==
    LET rows == SelectSeq([n \in DOMAIN lines |-> [n |-> n, parts |-> Split(Trim(lines[n]), ";"), text |-> lines[n]]],
                          LAMBDA r : ~Commented(r.text) /\ Trim(r.parts[1]) # <<>>)
        col == CHOOSE c \in DOMAIN ColumnLangs : ColumnLangs[c] = lang
        MinOf(a, b) == IF a < b THEN a ELSE b
        before(r) == FoldLeft(LAMBDA acc, p : acc + Len(p), 0, SubSeq(r.parts, 1, MinOf(col - 1, Len(r.parts)))) + (col - 1)
        entry(r) == [is |-> "entry", line |-> r.n, key |-> Trim(r.parts[1]),
                     desc |-> IF col > Len(r.parts) THEN <<>> ELSE r.parts[col],
                     column |-> Len(r.text) - Len(TrimStart(r.text)) + before(r),
                     bad |-> 0, refs |-> <<>>, commands |-> <<>>, chains |-> <<>>]
    IN [found |-> TRUE, header |-> lang, lang |-> lang, csv |-> TRUE,
        entries |-> [i \in DOMAIN rows |-> entry(rows[i])], errors |-> <<>>]

\* One parsed file for each language; `file` is [path, stem, csv, lines, encoding].
Parsed(file, parsed) ==
    [path |-> file.path, stem |-> file.stem, encoding |-> file.encoding, header |-> parsed.header, lang |-> parsed.lang,
     csv |-> parsed.csv, entries |-> parsed.entries, errors |-> parsed.errors]
ParseLocFiles(file) ==
    LET langs == SelectSeq(ColumnLangs, LAMBDA l : l # NoLang)
        text == ParseLocText(file.lines)
        columns == [i \in DOMAIN langs |-> Parsed(file, ParseCsv(file.lines, langs[i]))]
    IN CASE file.csv -> SelectSeq(columns, LAMBDA f : f.entries # <<>>)
         [] ~file.csv -> IF text.found THEN <<Parsed(file, text)>> ELSE <<>>

\* A file with one leading line is of the language its header names.
LocHeaderLanguage(file) ==
    LET head == ParseLocText(SubSeq(file.lines, 1, HeaderAt(file.lines))) IN IF head.found THEN head.lang ELSE NoLang

\* Reading.  A file of another language is not parsed, yet its bytes count.
FromPaths(files, budget, langs) ==
    LET add(acc, file) ==
            LET fits == acc.bytes + file.size <= budget.bytes
                other == langs # {} /\ ~file.csv /\ LocHeaderLanguage(file) \notin langs \cup {NoLang}
                failed == ~file.readable \/ ~fits \/ (~other /\ ParseLocFiles(file) = <<>> /\ ~file.csv)
            IN [bytes |-> IF file.readable /\ fits THEN acc.bytes + file.size ELSE acc.bytes,
                files |-> acc.files \o IF failed \/ other THEN <<>> ELSE ParseLocFiles(file),
                errors |-> IF failed THEN Append(acc.errors, file.path) ELSE acc.errors]
    IN FoldLeft(add, [bytes |-> 0, files |-> <<>>, errors |-> <<>>], files)

\* Discovery.  Files count once they are under a folder of localisation; an
\* entry is [is, name, ...], sorted by name, and `ignored` holds ignored names.
LocDirs == {"localisation", "localisation_synced", "localization"}
RECURSIVE WalkFolder(_, _, _, _)
WalkFolder(entries, place, remaining, ignored) ==
    LET add(acc, e) ==
            LET inside == WalkFolder(e.entries, [inLoc |-> place.inLoc \/ Fold(e.name) \in LocDirs, atRoot |-> FALSE],
                                     acc.remaining, ignored)
                skipped == e.name \in ignored \/ e.is = "symlink" \/ (e.is = "folder" /\ e.excluded)
                           \/ (e.is = "folder" /\ place.atRoot /\ e.excludedAtRoot)
            IN CASE acc.remaining = 0 \/ skipped -> acc
                 [] acc.remaining > 0 /\ ~skipped /\ e.is = "folder" ->
                        [files |-> acc.files \o inside.files, remaining |-> inside.remaining]
                 [] acc.remaining > 0 /\ ~skipped /\ e.is = "file" ->
                        IF place.inLoc /\ e.loc
                        THEN [files |-> Append(acc.files, e), remaining |-> acc.remaining - 1] ELSE acc
    IN FoldLeft(add, [files |-> <<>>, remaining |-> remaining], entries)

-----------------------------------------------------------------------------
(* The index of keys: by language, of all, and the entries with commands.  *)

KeyOf(entry) == FoldChars(entry.key)
NoLocIndex == [perLang |-> <<>>, union |-> {}, langs |-> <<>>, entries |-> <<>>]
InLang(idx, lang, key) == lang \in DOMAIN idx.perLang /\ key \in idx.perLang[lang]
KeysOf(files, lang) == UNION {{KeyOf(files[i].entries[k]) : k \in DOMAIN files[i].entries}
                              : i \in {i \in DOMAIN files : files[i].lang = lang}}
PerLang(files) == [l \in {files[i].lang : i \in DOMAIN files} \ {NoLang} |-> KeysOf(files, l)]
AllKeys(files) == UNION {KeysOf(files, files[i].lang) : i \in DOMAIN files}

\* An entry of English replaces any; of another language the first stays, and
\* none enters for a key that English has.
BuildScoped(files, langs) ==
    LET perLang == PerLang(files)
        add(acc, p) ==
            LET key == KeyOf(p.entry)
                enters == /\ p.lang # NoLang
                          /\ p.entry.commands # <<>> \/ p.entry.chains # <<>>
                          /\ p.lang = "english" \/ (~InLang([perLang |-> perLang], "english", key) /\ key \notin DOMAIN acc)
            IN IF enters THEN (key :> p.entry) @@ acc ELSE acc
        pairs(f) == [k \in DOMAIN f.entries |-> [lang |-> f.lang, entry |-> f.entries[k]]]
        seen(acc, f) == IF f.lang = NoLang \/ f.lang \in ToSet(acc) THEN acc ELSE Append(acc, f.lang)
    IN [perLang |-> perLang, union |-> UNION {perLang[l] : l \in DOMAIN perLang},
        langs |-> SelectSeq(FoldLeft(seen, <<>>, files), LAMBDA l : langs = {} \/ l \in langs),
        entries |-> FoldLeft(add, <<>>, FlattenSeq([i \in DOMAIN files |-> pairs(files[i])]))]

\* Keys of another index, from a cache or from the base game, join this one.
JoinKeys(idx, lang, keys, langs) ==
    [idx EXCEPT !.perLang = (lang :> (keys \cup IF lang \in DOMAIN @ THEN @[lang] ELSE {})) @@ @,
                !.union = @ \cup keys,
                !.langs = IF (langs = {} \/ lang \in langs) /\ lang \notin ToSet(@) THEN Append(@, lang) ELSE @]
MergeCachedKeys(idx, cached, langs) ==
    FoldLeft(LAMBDA acc, c : JoinKeys(acc, c.lang, c.keys, langs), idx, cached)
MergeFrom(idx, other, langs) ==
    LET fresh == {k \in DOMAIN other.entries : ~InLang(idx, "english", k)}
        entered == [idx EXCEPT !.entries = @ @@ [k \in fresh |-> other.entries[k]]]
    IN FoldLeft(LAMBDA acc, l : JoinKeys(acc, l, other.perLang[l], langs), entered, other.langs)

MissingSyncedLanguages(idx, key) == SelectSeq(idx.langs, LAMBDA l : ~InLang(idx, l, key))

-----------------------------------------------------------------------------
(* Checks of a file.  A diagnostic is [line, code, about].                 *)

Diagnostic(line, code, about) == [line |-> line, code |-> code, about |-> about]
When(condition, diagnostic) == IF condition THEN <<diagnostic>> ELSE <<>>

\* The name of a file says its language too; a default needs no name.
CheckLocFileLang(file) ==
    CASE Fold(file.stem.name) = "languages" \/ Fold(file.header) = "l_default" -> <<>>
      [] OTHER -> CASE file.lang = NoLang -> <<Diagnostic(1, "CW256", file.header)>>
                    [] file.lang # NoLang /\ file.stem.lang = NoLang -> <<Diagnostic(1, "CW255", file.header)>>
                    [] OTHER -> When(file.stem.lang # file.lang, Diagnostic(1, "CW257", file.stem.lang))

\* Unquoted, or quoted from the first character to another quote; what stands
\* behind the last quote, a comment say, does not count.
ValidateQuotes(desc) ==
    LET t == Trim(desc)
        last == SelectLastInSeq(t, LAMBDA c : c = "\"")
    IN last = 0 \/ (t[1] = "\"" /\ last > 1)
Unquote(s) ==
    LET first == SelectInSeq(s, LAMBDA c : c # "\"")
    IN IF first = 0 THEN <<>> ELSE SubSeq(s, first, SelectLastInSeq(s, LAMBDA c : c # "\""))

\* The fix wraps a value in quotes, when that mends it: <<from, to, what>>.
QuoteFix(entry) ==
    LET t == Trim(entry.desc)
        inner == Unquote(t)
        start == entry.column + Len(entry.desc) - Len(TrimStart(entry.desc))
    IN IF t = <<>> \/ First(inner, {"\""}) # 0 \/ First(t, {"#"}) # 0 THEN <<>>
       ELSE <<start, start + Len(t), <<"\"">> \o inner \o <<"\"">>>>

\* A reference to no key is let pass in capitals, as a known word, or with
\* more than one space.
ValidateRefs(entry, keys, extra, hardcoded) ==
    LET lenient(r) == \/ \A i \in DOMAIN r : r[i] \notin Letters \ Digits \/ Fold(r[i]) # r[i]
                      \/ FoldChars(r) \in hardcoded
                      \/ Cardinality({i \in DOMAIN r : r[i] = " "}) > 1
        one(r) == LET key == FoldChars(r)
                  IN CASE key \in keys -> When(key = KeyOf(entry) /\ key \notin hardcoded,
                                               Diagnostic(entry.line, "CW259", r))
                       [] key \notin keys -> When(key \notin extra /\ ~lenient(r), Diagnostic(entry.line, "CW225", r))
    IN FoldLeft(LAMBDA acc, r : acc \o one(r), <<>>, entry.refs)

Placeholders == {"REPLACE_ME", "TODO_CD"}
ValidateLocFile(file, keys, extra, hardcoded) ==
    LET entry(e) ==
            When(\E i \in DOMAIN e.key : e.key[i] \notin Letters \cup {"_", ".", "-"}, Diagnostic(e.line, "CW276", e.key))
            \o When(e.bad # 0, Diagnostic(e.line, "CW275", e.bad))
            \o When(~ValidateQuotes(e.desc), Diagnostic(e.line, "CW268", QuoteFix(e)))
            \o ValidateRefs(e, keys, extra, hardcoded)
            \o When(Word(Unquote(Trim(e.desc))) \in Placeholders, Diagnostic(e.line, "CW234", e.key))
    IN FoldLeft(LAMBDA acc, e : acc \o entry(e), <<>>, file.entries)

\* The batch pipeline checks the encoding, the editor does not know it.
ShouldEmitEncoding(file) == file.encoding \in {"utf8 without bom", "not utf8"}
BuildDiagnostics(file, keys, extra, hardcoded, encoding) ==
    (IF file.csv THEN <<>> ELSE CheckLocFileLang(file))
    \o When(encoding, Diagnostic(1, "CW254", file.path))
    \o [i \in DOMAIN file.errors |-> Diagnostic(file.errors[i].line, "CW001", file.path)]
    \o ValidateLocFile(file, keys, extra, hardcoded)

LangSelected(file, langs) == langs = {} \/ file.lang \in langs \cup {NoLang}
ValidateLocProject(files, langs, keys, extra, hardcoded) ==
    FlattenSeq([i \in DOMAIN files |->
        IF LangSelected(files[i], langs)
        THEN BuildDiagnostics(files[i], keys, extra, hardcoded, ShouldEmitEncoding(files[i])) ELSE <<>>])
ValidateParsedLocFiles(files, keys, extra, hardcoded) ==
    FlattenSeq([i \in DOMAIN files |->
        IF files[i].csv THEN <<>> ELSE BuildDiagnostics(files[i], keys, extra, hardcoded, FALSE)])

-----------------------------------------------------------------------------
(* Commands.  `data` is what is known: the registry, the commands that end *)
(* a chain, variables and scripted localisations, <<>> when unknown.       *)

\* A segment that the game looks up when it runs.
Bypasses(word) == Is(word, "runtime") \/ Is(word, "question")
Terminal(data, word) == Is(word, "get") \/ Fold(word) \in data.terminals
IsKnownName(names, word) == names # <<>> /\ (Is(word, "opaque") \/ Is(word, "integer") \/ word \in names[1])
CommandContext(data, initial) == FromRegistry(initial)

\* Segment by segment: <<the diagnostic or none, the scopes>>.  Only the chain
\* of functions remembers that a segment was anybody's guess.
Diagnosed(code, word) == [code |-> code, word |-> word]
Going(ctx, lenient) == [done |-> FALSE, diagnostics |-> <<>>, ctx |-> ctx, lenient |-> lenient]
Done(diagnostics) == [done |-> TRUE, diagnostics |-> diagnostics]

CommandSegment(data, acc, seg, last, whole) ==
    LET step == ChangeScope(data.reg, acc.ctx, Key(seg))
        scripted == data.scriptedLocs = <<>> \/ IsKnownName(data.scriptedLocs, seg)
    IN CASE Bypasses(seg) -> Going(PushScope(acc.ctx, AnyScope), FALSE)
         [] ~Bypasses(seg) /\ last /\ Terminal(data, seg) -> Done(<<>>)
         [] OTHER ->
              CASE step.result[1] = "wrong" -> Done(<<Diagnosed("CW260", seg)>>)
                [] step.result[1] = "not found" /\ last ->
                       IF data.terminals # {} /\ ~Terminal(data, seg) /\ ~scripted
                       THEN Done(<<Diagnosed("CW266", whole)>>) ELSE Going(step.ctx, FALSE)
                [] step.result[1] = "not found" /\ ~last -> Going(PushScope(step.ctx, AnyScope), FALSE)
                [] OTHER -> Going(step.ctx, FALSE)
ValidateCommandString(data, initial, segments) ==
    LET add(acc, i) == IF acc.done THEN acc
                       ELSE CommandSegment(data, acc, segments[i], i = Len(segments), segments)
    IN IF Bypasses(segments[1]) THEN <<>>
       ELSE FoldLeft(add, Going(CommandContext(data, initial), FALSE), [i \in DOMAIN segments |-> i]).diagnostics

JominiSegment(data, acc, seg, last, marked) ==
    LET step == ChangeScope(data.reg, acc.ctx, Key(seg))
        known == IsKnownName(data.variables, seg) \/ IsKnownName(data.scriptedLocs, seg)
        guess == ~last /\ Is(seg, "runtime")
    IN CASE Bypasses(seg) -> Going(PushScope(acc.ctx, AnyScope), acc.lenient \/ guess)
         [] ~Bypasses(seg) /\ last /\ Terminal(data, seg) -> Done(<<>>)
         [] OTHER ->
              CASE step.result[1] = "any" -> Going(step.ctx, acc.lenient \/ ~last)
                [] step.result[1] = "value" /\ last -> Done(<<>>)
                [] step.result[1] = "wrong" -> Done(<<Diagnosed("CW260", seg)>>)
                [] step.result[1] = "not found" /\ last ->
                       IF Terminal(data, seg) \/ acc.lenient \/ (~marked /\ data.scriptedLocs = <<>>) \/ known
                       THEN Going(step.ctx, acc.lenient) ELSE Done(<<Diagnosed("CW226", seg)>>)
                [] step.result[1] = "not found" /\ ~last -> Going(PushScope(step.ctx, AnyScope), TRUE)
                [] OTHER -> Going(step.ctx, acc.lenient)
ValidateJominiChain(data, initial, chain) ==
    LET marked == Is(chain[1], "question")
        lenient == marked /\ Len(chain) > 1 /\ (data.variables = <<>> \/ IsKnownName(data.variables, chain[1]))
        add(acc, i) == IF acc.done THEN acc
                       ELSE JominiSegment(data, acc, chain[i], i = Len(chain), marked)
    IN IF chain = <<>> \/ \E i \in DOMAIN chain : chain[i] = NoWord THEN <<>>
       ELSE FoldLeft(add, Going(CommandContext(data, initial), lenient), [i \in DOMAIN chain |-> i]).diagnostics

\* The commands of an entry, and the keys of its chains, as words.
Segments(command) == LET parts == Split(command, ".") IN [i \in DOMAIN parts |-> Word(parts[i])]
ValidateLocCommands(data, initial, entry) ==
    FlattenSeq([i \in DOMAIN entry.commands |-> ValidateCommandString(data, initial, Segments(entry.commands[i]))])
    \o FlattenSeq([i \in DOMAIN entry.chains |->
           LET chain == entry.chains[i]
           IN ValidateJominiChain(data, initial, [k \in DOMAIN chain |-> IF chain[k].key = <<>> THEN NoWord ELSE Word(chain[k].key)])])
ValidateLocProjectCommands(data, files, langs) ==
    FlattenSeq([i \in DOMAIN files |->
        IF ~LangSelected(files[i], langs) THEN <<>>
        ELSE FlattenSeq([k \in DOMAIN files[i].entries |->
                 LET found == ValidateLocCommands(data, AnyScope, files[i].entries[k])
                 IN [d \in DOMAIN found |-> Diagnostic(files[i].entries[k].line, found[d].code, found[d].word)]])])
=============================================================================
