---------------------------- MODULE FileManager ----------------------------
(***************************************************************************)
(* Which files are read, and how (crate file_manager).                     *)
(*                                                                         *)
(* A name is a sequence of characters and a path a sequence of names.  A   *)
(* folder is [kind, name, readable, entries], its entries in the order of  *)
(* their names; a file is [kind, name, readable, bytes, size].             *)
(***************************************************************************)
EXTENDS Naturals, Sequences, FiniteSets, FiniteSetsExt, SequencesExt, TLC

CONSTANTS LowerChars,   \* character -> its lowercased form
          EndingOf,     \* name -> its extension, lowercased
          High          \* what the bytes 128 to 159 stand for, in order

FoldName(name) == [i \in DOMAIN name |-> IF name[i] \in DOMAIN LowerChars THEN LowerChars[name[i]] ELSE name[i]]
SameName(v, w) == FoldName(v) = FoldName(w)
NamedIn(name, names) == \E n \in names : SameName(n, name)
Ending(name) == IF name \in DOMAIN EndingOf THEN EndingOf[name] ELSE ""

-----------------------------------------------------------------------------
(* Text.                                                                   *)

ByteOrderMark == <<239, 187, 191>>
Cp1252(byte) == IF byte \in 128..159 THEN High[byte - 127] ELSE byte
\* Text that is not UTF-8 is read byte by byte.  `utf8` says which bytes are.
DecodeBytes(bytes, utf8) ==
    LET marked == IsPrefix(ByteOrderMark, bytes)
        body == IF marked THEN SubSeq(bytes, 4, Len(bytes)) ELSE bytes
    IN IF utf8 THEN [text |-> bytes, encoding |-> IF marked THEN "utf8" ELSE "utf8 without bom"]
       ELSE [text |-> [i \in DOMAIN body |-> Cp1252(body[i])], encoding |-> "not utf8"]
\* One byte more than the limit is asked for, to tell a file at it from one above.
ReadCapped(file, limit) ==
    LET n == Min({Len(file.bytes), limit + 1})
        read == DecodeBytes(SubSeq(file.bytes, 1, n), file.utf8)
    IN CASE ~file.readable -> [ok |-> FALSE, why |-> "io"]
         [] file.readable /\ n > limit -> [ok |-> FALSE, why |-> "over the limit"]
         [] file.readable /\ n <= limit -> [ok |-> TRUE, n |-> n] @@ read

ScriptEndings == {"txt", "gui", "gfx", "sfx", "asset", "map"}
LocEndings == {"yml", "yaml", "csv"}
Classify(name) ==
    CASE Ending(name) \in ScriptEndings -> "script"
      [] Ending(name) \in LocEndings -> "localisation"
      [] OTHER -> "resource"

-----------------------------------------------------------------------------
(* Patterns.                                                               *)

\* Of m units of a pattern and n of a text: where the stars are, and which unit
\* fits which.  At the first that does not fit the last star takes one more.
RECURSIVE Greedy(_, _, _, _, _)
Greedy(m, n, stars, fits, at) ==
    LET retry == [at EXCEPT !.j = at.star + 1, !.mark = @ + 1, !.i = at.mark + 1]
    IN IF at.i > n THEN at.j..m \subseteq stars
       ELSE IF at.j \in stars THEN Greedy(m, n, stars, fits, [at EXCEPT !.star = at.j, !.j = @ + 1, !.mark = at.i])
       ELSE IF <<at.j, at.i>> \in fits THEN Greedy(m, n, stars, fits, [at EXCEPT !.i = @ + 1, !.j = @ + 1])
       ELSE at.star # 0 /\ Greedy(m, n, stars, fits, retry)
GreedyMatch(p, t, star, fits) ==
    Greedy(Len(p), Len(t), {j \in DOMAIN p : p[j] = star}, fits, [i |-> 1, j |-> 1, star |-> 0, mark |-> 0])

Wild(pattern) == \E i \in DOMAIN pattern : pattern[i] \in {"*", "?"}
\* The common patterns are not walked.
GlobMatch(pattern, text) ==
    LET m == Len(pattern)
        fits == {<<j, i>> \in (1..m) \X (DOMAIN text) : pattern[j] \in {"?", text[i]}}
    IN CASE ~Wild(pattern) -> pattern = text
         [] Wild(pattern) /\ pattern[1] = "*" /\ ~Wild(Tail(pattern)) -> IsSuffix(Tail(pattern), text)
         [] Wild(pattern) /\ ~(pattern[1] = "*" /\ ~Wild(Tail(pattern))) /\ pattern[m] = "*" /\ ~Wild(Front(pattern)) ->
                IsPrefix(Front(pattern), text)
         [] OTHER -> GreedyMatch(pattern, text, "*", fits)

Separators == {"/", "\\"}
IsPathPattern(pattern) == \E i \in DOMAIN pattern : pattern[i] \in Separators
SplitPath(chars) ==
    FoldLeft(LAMBDA acc, c : IF c \in Separators THEN Append(acc, <<>>) ELSE [acc EXCEPT ![Len(acc)] = Append(@, c)],
             <<<<>>>>, chars)
AnyDepth == <<"*", "*">>
PathGlobMatch(pattern, path) ==
    LET split == SplitPath(pattern)
        anchored == IF split[1] = <<>> THEN Tail(split) ELSE split
        open == anchored # <<>> /\ anchored[Len(anchored)] = <<>>
        p == IF open THEN Append(Front(anchored), AnyDepth) ELSE anchored
        fits == {<<j, i>> \in (DOMAIN p) \X (DOMAIN path) : GlobMatch(p[j], path[i])}
    IN GreedyMatch(p, path, AnyDepth, fits)

IgnoreGlobMatch(pattern, name, path) == IF IsPathPattern(pattern) THEN PathGlobMatch(pattern, path) ELSE GlobMatch(pattern, name)
Ignores(patterns, path) == \E p \in patterns : IgnoreGlobMatch(p, path[Len(path)], path)

CONSTANT Baseline       \* the patterns of files that are never read
IsIgnoredLogicalPath(path, fileGlobs) == Ignores(Baseline \cup fileGlobs, path)

\* Mutant of IsIgnoredPath: only the folder a file stands in counts.
IsIgnoredPath_parent(path, fileGlobs, dirGlobs) ==
    IsIgnoredLogicalPath(path, fileGlobs) \/ (Len(path) > 1 /\ Ignores(dirGlobs, Front(path)))

\* What the editor asks of one file.
IsIgnoredPath(path, fileGlobs, dirGlobs) ==
    \/ IsIgnoredLogicalPath(path, fileGlobs)
    \/ \E n \in 1..(Len(path) - 1) : Ignores(dirGlobs, SubSeq(path, 1, n))

-----------------------------------------------------------------------------
(* The walk of one root.                                                   *)

\* cfg is [include, patterns, exclude, excludeDirs, dirPatterns, excludeRootDirs,
\* maxSize, maxFiles, maxBytes].
AcceptScriptFile(cfg, file, path) ==
    /\ Classify(file.name) = "script"
    /\ \E p \in cfg.patterns : GlobMatch(p, file.name)
    /\ ~Ignores(cfg.exclude, path)
    /\ cfg.maxSize = 0 \/ file.size <= cfg.maxSize

ExcludedDir(cfg, path, atRoot) ==
    LET name == path[Len(path)]
    IN \/ NamedIn(name, cfg.excludeDirs)
       \/ Ignores(cfg.dirPatterns, path)
       \/ atRoot /\ NamedIn(name, cfg.excludeRootDirs)

\* state is [files, left]: links and devices are passed over, a folder that
\* cannot be read is left out, and the walk ends when no file is left to accept.
RECURSIVE WalkDir(_, _, _, _, _)
WalkDir(cfg, folder, path, atRoot, state) ==
    LET one(acc, entry) ==
            LET below == Append(path, entry.name)
            IN CASE acc.left = 0 -> acc
                 [] acc.left > 0 /\ entry.kind = "folder" ->
                      IF ExcludedDir(cfg, below, atRoot) \/ ~entry.readable THEN acc
                      ELSE WalkDir(cfg, entry, below, FALSE, acc)
                 [] acc.left > 0 /\ entry.kind = "file" /\ AcceptScriptFile(cfg, entry, below) ->
                      [files |-> Append(acc.files, [path |-> below, file |-> entry]), left |-> acc.left - 1]
                 [] OTHER -> acc
    IN FoldLeft(one, state, folder.entries)

\* The folder or file at a path, if there is one.
RECURSIVE Lookup(_, _)
Lookup(folder, path) ==
    LET i == SelectInSeq(folder.entries, LAMBDA e : e.name = path[1])
    IN IF path = <<>> THEN <<folder>>
       ELSE IF folder.kind # "folder" \/ i = 0 THEN <<>>
       ELSE Lookup(folder.entries[i], Tail(path))
IsDir(root, path) == LET at == Lookup(root, path) IN at # <<>> /\ at[1].kind = "folder"

\* Each folder of the include list is a walk of its own, with a budget of its
\* own; only the root itself has the folders that are kept out at the root.
NoFiles == [ok |-> FALSE, files |-> <<>>]
DiscoverFiles(cfg, root) ==
    LET one(acc, dir) ==
            LET at == Lookup(root[1], dir)
                walked == WalkDir(cfg, at[1], dir, dir = <<>>, [files |-> <<>>, left |-> cfg.maxFiles])
            IN IF ~acc.ok \/ at = <<>> THEN acc
               ELSE IF at[1].kind # "folder" \/ ~at[1].readable THEN NoFiles
               ELSE [acc EXCEPT !.files = @ \o walked.files]
    IN IF root = <<>> THEN NoFiles ELSE FoldLeft(one, [ok |-> TRUE, files |-> <<>>], cfg.include)

\* The files that are found are read at once: which of them a spent budget
\* leaves out depends on the order they come in.
ParseDiscovered(cfg, files, order) ==
    LET one(acc, i) ==
            LET read == ReadCapped(files[i].file, cfg.maxSize)
            IN IF ~read.ok THEN acc
               ELSE IF cfg.maxBytes # 0 /\ acc.bytes + read.n > cfg.maxBytes THEN acc
               ELSE [bytes |-> acc.bytes + read.n, parsed |-> acc.parsed \cup {i}]
        parsed == FoldLeft(one, [bytes |-> 0, parsed |-> {}], order).parsed
    IN LET kept == SetToSortSeq(parsed, <) IN [k \in DOMAIN kept |-> files[kept[k]]]

-----------------------------------------------------------------------------
(* Several mods beside each other.                                         *)

TrimSpace(s) ==
    LET first == SelectInSeq(s, LAMBDA c : c # " ")
    IN IF first = 0 THEN <<>> ELSE SubSeq(s, first, SelectLastInSeq(s, LAMBDA c : c # " "))
UpTo(s, char) == LET i == SelectInSeq(s, LAMBDA c : c = char) IN IF i = 0 THEN s ELSE SubSeq(s, 1, i - 1)
\* A quoted value keeps what looks like a comment in it.
DescriptorValue(raw) ==
    LET v == TrimSpace(raw)
    IN IF v # <<>> /\ v[1] = "\"" THEN UpTo(Tail(v), "\"") ELSE TrimSpace(UpTo(v, "#"))
\* A line is <<key, raw value>>, or <<>> when it has no `=` or is a comment.
ParseModDescriptor(lines) ==
    LET read(acc, line) ==
            LET value == DescriptorValue(line[2])
            IN CASE line = <<>> -> acc
                 [] line # <<>> /\ line[1] = "name" -> [acc EXCEPT !.name = value]
                 [] line # <<>> /\ line[1] \in {"path", "archive"} -> [acc EXCEPT !.path = <<value>>]
                 [] line # <<>> /\ line[1] = "replace_path" -> [acc EXCEPT !.replaces = Append(@, value)]
                 [] OTHER -> acc
    IN FoldLeft(read, [name |-> <<>>, path |-> <<>>, replaces |-> <<>>], lines)

ModFolders == <<<<"m">>, <<"m", "s">>>>
ModFiles(workspace) ==
    LET of(name) == IF IsDir(workspace, <<name>>) /\ Lookup(workspace, <<name>>)[1].readable
                    THEN SelectSeq(Lookup(workspace, <<name>>)[1].entries, LAMBDA e : Ending(e.name) = "mod") ELSE <<>>
    IN FlattenSeq([i \in DOMAIN ModFolders |-> of(ModFolders[i])])
\* Mods in the order of their names; `NameOrder` compares two.
CONSTANT NameOrder(_, _)
ExpandMultipleMods(workspace) ==
    LET descriptors == SelectSeq(ModFiles(workspace), LAMBDA e : e.readable)
        parsed == [i \in DOMAIN descriptors |-> ParseModDescriptor(descriptors[i].lines)]
        usable == SelectSeq(parsed, LAMBDA d : d.path # <<>> /\ IsDir(workspace, SplitPath(d.path[1])))
        mods == [i \in DOMAIN usable |-> [name |-> usable[i].name, root |-> Lookup(workspace, SplitPath(usable[i].path[1]))[1],
                                          replaces |-> usable[i].replaces]]
        before(i, j) == \/ mods[i].name # mods[j].name /\ NameOrder(mods[i].name, mods[j].name)
                        \/ mods[i].name = mods[j].name /\ i < j
        order == SetToSortSeq(DOMAIN mods, before)
    IN [k \in DOMAIN order |-> mods[order[k]]]

\* state is [best, left]: of every logical path the file of the highest source.
\* Every file counts, not only scripts.
CONSTANT EngineDirs     \* the names of folders that are never entered
RECURSIVE CollectFiles(_, _, _, _)
CollectFiles(folder, path, priority, state) ==
    LET one(acc, entry) ==
            LET below == Append(path, entry.name)
                known == below \in DOMAIN acc.best
            IN CASE acc.left = 0 -> acc
                 [] acc.left > 0 /\ entry.kind = "folder" ->
                      IF NamedIn(entry.name, EngineDirs) \/ ~entry.readable THEN acc ELSE CollectFiles(entry, below, priority, acc)
                 [] acc.left > 0 /\ entry.kind = "file" ->
                      [best |-> IF known /\ acc.best[below].priority >= priority THEN acc.best
                                ELSE (below :> [file |-> entry, priority |-> priority]) @@ acc.best,
                       left |-> acc.left - 1]
                 [] OTHER -> acc
    IN FoldLeft(one, state, folder.entries)

\* What a mod replaces of the sources below it, it replaces as a whole.
Replaced(mods, path, priority) ==
    \E i \in DOMAIN mods : i > priority /\ \E r \in ToSet(mods[i].replaces) :
        LET prefix == SelectSeq(SplitPath(FoldName(r)), LAMBDA seg : seg # <<>>)
        IN prefix # <<>> /\ IsPrefix(prefix, [k \in DOMAIN path |-> FoldName(path[k])])
DiscoverFilesMultiMod(base, mods, include, maxFiles) ==
    LET sources == base \o [i \in DOMAIN mods |-> mods[i].root]
        priority(i) == i - Len(base)
        under(acc, i) ==
            FoldLeft(LAMBDA a, dir : IF IsDir(sources[i], dir) /\ Lookup(sources[i], dir)[1].readable
                                     THEN CollectFiles(Lookup(sources[i], dir)[1], dir, priority(i), a) ELSE a, acc, include)
        best == FoldLeft(under, [best |-> <<>>, left |-> maxFiles], [i \in DOMAIN sources |-> i]).best
        kept == {p \in DOMAIN best : ~Replaced(mods, p, best[p].priority)}
    IN [p \in kept |-> best[p].file]
\* The scripts of a workspace of mods.
DiscoverMods(cfg, workspace) ==
    LET best == DiscoverFilesMultiMod(<<>>, ExpandMultipleMods(workspace), cfg.include, cfg.maxFiles)
    IN {p \in DOMAIN best : AcceptScriptFile(cfg, best[p], p)}

CONSTANTS GameFolders, GameFolder
LooksLikeGame(folder) == \E name \in GameFolders : IsDir(folder, <<name>>)
ClassifyDirectory(dir) ==
    CASE IsDir(dir, <<GameFolder>>) /\ LooksLikeGame(Lookup(dir, <<GameFolder>>)[1]) -> "vanilla"
      [] ~(IsDir(dir, <<GameFolder>>) /\ LooksLikeGame(Lookup(dir, <<GameFolder>>)[1])) /\ LooksLikeGame(dir) -> "mod"
      [] OTHER -> IF ModFiles(dir) # <<>> THEN "multiple mods" ELSE "unknown"
=============================================================================
