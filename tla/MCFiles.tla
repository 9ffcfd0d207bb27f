------------------------------ MODULE MCFiles ------------------------------
(* File discovery on one tree of folders: what a walk of it finds under    *)
(* every choice of ignore patterns.                                        *)
EXTENDS Naturals, Sequences, FiniteSets, SequencesExt, TLC

Script(stem) == <<stem, ".", "t">>
Other(stem) == <<stem, ".", "u">>
Description == <<"d", ".", "m">>
ByLength(v, w) == Len(v) < Len(w)
Walks == INSTANCE FileManager WITH
    LowerChars <- "A" :> "a", High <- [i \in 1..32 |-> 300 + i],
    EndingOf <- [n \in {Script(s) : s \in {"x", "y", "a"}} |-> "txt"] @@ [n \in {Other("x")} |-> "yml"] @@ Description :> "mod",
    NameOrder <- ByLength, EngineDirs <- {<<".">>},
    GameFolders <- {<<"a">>}, GameFolder <- <<"g">>, Baseline <- {<<"a", ".", "t">>}

File(name) == [kind |-> "file", name |-> name, readable |-> TRUE, bytes |-> <<65>>, utf8 |-> TRUE, size |-> 1, lines |-> <<>>]
Folder(name, entries) == [kind |-> "folder", name |-> name, readable |-> TRUE, entries |-> entries]
Scripts == <<File(Script("a")), File(Script("x")), File(Other("x"))>>
Tree == Folder(<<>>, <<
    Folder(<<"a">>, <<Folder(<<"b">>, <<Folder(<<"a">>, Scripts)>> \o Scripts)>> \o Scripts),
    Folder(<<"a", "b">>, <<Folder(<<"b">>, Scripts)>>), Folder(<<"b">>, Scripts)>> \o Scripts)

FolderPatterns == {<<"a">>, <<"*">>, <<"?", "b">>, <<"a", "*">>, <<"*", "b">>, <<"a", "/">>, <<"/", "b">>, <<"a", "\\", "b">>,
                   <<"*", "*", "/", "b">>, <<"a", "/", "*", "*">>, <<"*", "/", "b">>, <<"a", "/", "*", "*", "/", "a">>}
FilePatterns == {<<"x", ".", "t">>, <<"?", ".", "*">>, <<"*", "/", "*", "x", "*">>, <<"b", "/", "x", ".", "t">>,
                 <<"*", "*", "/", "a", "/", "?", ".", "t">>, <<"a", "/">>}
AtMostOne(patterns) == {{}} \cup {{p} : p \in patterns}
Probes == [dirs : AtMostOne(FolderPatterns) \cup {{<<"a">>, <<"*", "/", "b">>}}, files : AtMostOne(FilePatterns),
           include : {<<<<>>>>, <<<<<<"a">>>>, <<<<"b">>>>>>}]
Config(probe) == [include |-> probe.include, patterns |-> {<<"*", ".", "t">>}, exclude |-> {<<"a", ".", "t">>} \cup probe.files,
                  excludeDirs |-> {}, dirPatterns |-> probe.dirs, excludeRootDirs |-> {}, maxSize |-> 0, maxFiles |-> 99,
                  maxBytes |-> 0]
Walked(probe) == Walks!DiscoverFiles(Config(probe), <<Tree>>).files

\* What the patterns mean: a star stands for any run of units.
RECURSIVE Means(_, _, _, _)
Means(pattern, text, star, fits) ==
    IF pattern = <<>> THEN text = <<>>
    ELSE IF pattern[1] = star THEN \E k \in 0..Len(text) : Means(Tail(pattern), SubSeq(text, k + 1, Len(text)), star, fits)
    ELSE text # <<>> /\ <<pattern[1], text[1]>> \in fits /\ Means(Tail(pattern), Tail(text), star, fits)
NameFits(pattern, name) ==
    Means(pattern, name, "*", {<<u, c>> \in ToSet(pattern) \X ToSet(name) : u \in {"?", c}})
PathFits(pattern, path) ==
    LET segments == Walks!SplitPath(pattern)
        rooted == IF segments[1] = <<>> THEN Tail(segments) ELSE segments
        all == IF Last(rooted) = <<>> THEN Append(Front(rooted), <<"*", "*">>) ELSE rooted
    IN Means(all, path, <<"*", "*">>, {<<s, n>> \in ToSet(all) \X ToSet(path) : NameFits(s, n)})
Meant(patterns, path) ==
    \E p \in patterns : IF Walks!IsPathPattern(p) THEN PathFits(p, path) ELSE NameFits(p, Last(path))

RECURSIVE Below(_, _)
Below(folder, path) ==
    UNION {IF e.kind = "folder" THEN Below(e, Append(path, e.name)) ELSE {[path |-> Append(path, e.name), file |-> e]}
             : e \in ToSet(folder.entries)}
\* The folder of the include list a file is reached from.
From(probe, path) == {dir \in ToSet(probe.include) : Len(dir) < Len(path) /\ IsPrefix(dir, path)}
IgnoredFrom(probe, dir) == \E n \in 1..Len(dir) : Meant(probe.dirs, SubSeq(dir, 1, n))
Agree(probe, walked) ==
    \A f \in Below(Tree, <<>>) : \A dir \in From(probe, f.path) : ~IgnoredFrom(probe, dir) =>
        LET ignored == \/ Meant({<<"a", ".", "t">>} \cup probe.files, f.path)
                       \/ \E n \in 1..(Len(f.path) - 1) : Meant(probe.dirs, SubSeq(f.path, 1, n))
        IN /\ Walks!IsIgnoredPath(f.path, probe.files, probe.dirs) <=> ignored
           /\ f \in ToSet(walked) <=> Walks!Classify(f.file.name) = "script" /\ ~ignored

-----------------------------------------------------------------------------
\* A workspace of two mods, a folder of the game, and files of every encoding.
Text(chars) == [File(Script("x")) EXCEPT !.bytes = chars, !.size = Len(chars)]
ModFile(lines) == [File(Description) EXCEPT !.lines = lines]
Descriptors == <<
    ModFile(<<<<"version", <<"z">>>>>>),
    ModFile(<<<<"name", <<" ", "\"", "l", "#", "\"">>>>, <<>>, <<"path", <<"p", "/", "q", " ", "#", "c">>>>,
              <<"replace_path", <<"\"", "A", "/", "b", "\"">>>>>>),
    ModFile(<<<<"name", <<"z", " ">>>>, <<"archive", <<"r">>>>>>)>>
ModTree == Folder(<<>>, <<
    Folder(<<"m">>, Descriptors),
    Folder(<<"p">>, <<Folder(<<"q">>, <<Folder(<<"a">>, <<Folder(<<"b">>, <<File(Script("y"))>>), File(Script("x"))>>)>>)>>),
    Folder(<<"r">>, <<Folder(<<".">>, Scripts),
                      Folder(<<"a">>, <<Folder(<<"b">>, <<File(Script("x"))>>), Text(<<65, 65>>)>>)>>)>>)
WideConfig == [Config([dirs |-> {}, files |-> {}, include |-> <<<<<<"a">>>>>>]) EXCEPT !.maxBytes = 3]
Game == Folder(<<>>, <<Folder(<<"g">>, <<Folder(<<"a">>, <<>>)>>)>>)
Bounded == [Config([dirs |-> {}, files |-> {}, include |-> <<<<>>>>]) EXCEPT
              !.maxFiles = 2, !.maxSize = 2, !.excludeDirs = {<<"B">>}, !.excludeRootDirs = {<<"A", "b">>}]
Sample ==
    LET mods == Walks!ExpandMultipleMods(ModTree)
        few == <<[path |-> <<>>, file |-> Text(<<65, 65>>)], [path |-> <<>>, file |-> Text(<<>>)],
                 [path |-> <<>>, file |-> Text(<<65, 65, 65>>)], [path |-> <<>>, file |-> Text(<<65>>)],
                 [path |-> <<>>, file |-> [Text(<<65>>) EXCEPT !.readable = FALSE]]>>
    IN [mods |-> mods, layered |-> Walks!DiscoverMods(WideConfig, ModTree),
        over |-> Walks!DiscoverFilesMultiMod(<<Tree>>, mods, <<<<<<"a">>>>>>, 9),
        kinds |-> {Walks!ClassifyDirectory(d) : d \in {Game, Tree, ModTree, Folder(<<>>, <<>>)}},
        bounded |-> Walks!DiscoverFiles(Bounded, <<Tree>>), none |-> Walks!DiscoverFiles(Bounded, <<>>),
        orders |-> {Walks!ParseDiscovered(WideConfig, few, order) : order \in SetToSeqs(1..5)},
        texts |-> {Walks!DecodeBytes(bytes, utf8) :
                     bytes \in {<<239, 187, 191, 65>>, <<130, 65>>}, utf8 \in BOOLEAN},
        capped |-> Walks!ReadCapped(Text(<<65, 65, 65>>), 2)]

-----------------------------------------------------------------------------
\* A base game in three versions, two of which have one file name, and three
\* rulesets, two of which have one shape.
Ship == [name |-> "ship", nameField |-> "", paths |-> {"ships"}, skip |-> {}, startsWith |-> "", perFile |-> FALSE,
         prefix |-> "", filter |-> {}, unique |-> FALSE, subs |-> {"big"}, file |-> ""]
Tag == [Ship EXCEPT !.name = "tag", !.paths = {"tags", "ships"}, !.subs = {}]
ShipRules == [types |-> {Ship}, folders |-> {}, effects |-> {"set"}, valueSets |-> {"flag"}, enums |-> {"colour"}]
BaseRules == "ships" :> ShipRules @@ "flagless" :> [ShipRules EXCEPT !.valueSets = {}, !.enums = {}]
             @@ "tags" :> [ShipRules EXCEPT !.types = {Ship, Tag}, !.folders = {"tags", "ships"}]
BaseDef(file, folder, name, subs) == [file |-> file, folder |-> folder, name |-> name, subs |-> subs]
Kinded(folder, kind, name) == [folder |-> folder, kind |-> kind, name |-> name]
Keyed(lang, keys) == [lang |-> lang, keys |-> keys]
NoFolder == [raw |-> <<>>, version |-> <<>>, seconds |-> "0", name |-> "game", scripts |-> FALSE, mods |-> FALSE,
             folders |-> {"ships", "tags", "common"}, defs |-> <<>>, sets |-> {}, members |-> {}, tags |-> {}, scripted |-> {},
             paths |-> {}, loc |-> <<>>]
FirstInstall ==
    [NoFolder EXCEPT
        !.raw = <<"1", " ", "a">>,
        !.defs = <<BaseDef("v1", "ships", "a", {"big"}), BaseDef("v2", "ships", "B", {}), BaseDef("v2", "tags", "a", {}),
                   BaseDef("v2", "ships", "A", {})>>,
        !.sets = {Kinded("common", "set", "x")}, !.members = {Kinded("common", "flag", "m")},
        !.tags = {Kinded("common", "colour", "red")}, !.scripted = {Kinded("common", "text", "GetA")},
        !.paths = {<<"ships", "v1">>, <<"ships", "V2">>, <<"gfx", "i">>},
        !.loc = <<Keyed("english", <<"a", "o">>), Keyed("french", <<"a">>)>>]
SecondInstall ==
    [FirstInstall EXCEPT
        !.raw = <<"1", "_", "a">>, !.defs = <<BaseDef("v1", "ships", "B", {"big"}), BaseDef("v1", "tags", "B", {})>>,
        !.sets = {Kinded("ships", "set", "y")}, !.members = {}, !.tags = {}, !.scripted = {}, !.paths = {<<"ships", "v1">>},
        !.loc = <<Keyed("french", <<"o">>)>>]
BaseInstalls ==
    "first" :> FirstInstall @@ "second" :> SecondInstall
    @@ "third" :> [NoFolder EXCEPT !.scripts = TRUE, !.defs = <<BaseDef("v1", "deep", "a", {})>>,
                             !.members = {Kinded("ships", "flag", "n")}]
Mod == [NoFolder EXCEPT
            !.defs = <<BaseDef("own", "ships", "A", {"big"})>>, !.sets = {Kinded("ships", "set", "x")},
            !.members = {Kinded("ships", "flag", "own")}, !.paths = {<<"ships", "own">>},
            !.loc = <<Keyed("english", <<"g">>), Keyed("french", <<"g", "a">>)>>]
\* A path the base game has too, and one it does not have.
BaseOptional == {<<"ships", "V2">>, <<"events", "e">>}
Run(mode, base, langs, exact) == [mode |-> mode, base |-> base, langs |-> langs, exact |-> exact]
BaseConfigs == {Run("auto", TRUE, {}, FALSE), Run("auto", TRUE, {"english"}, TRUE), Run("refresh", TRUE, {}, TRUE),
                Run("off", TRUE, {"french"}, FALSE), Run("given", TRUE, {}, TRUE), Run("given", FALSE, {"french"}, FALSE)}
FoldName(name) == IF name = "V2" THEN "v2" ELSE name
=============================================================================
