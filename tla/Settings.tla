------------------------------ MODULE Settings ------------------------------
(***************************************************************************)
(* What a scan is made from, and who sees to it that the next one happens  *)
(* (lsp: config.rs, scan/reindex.rs, scan/workspace.rs, main.rs).  The     *)
(* settings, the folders and the rules change while scans run; one scan    *)
(* runs at a time, whoever finds another running retries, hands the retry  *)
(* to a task, or gives up; and a quiet pass is skipped when the files and  *)
(* the generation of the settings are those the last scan recorded.        *)
(*                                                                         *)
(* Abstractions: settings that the walk reads (ignore patterns) are        *)
(* config.globs, those read after the generation (languages, hover)        *)
(* config.late.  The files of a walk are known by its folder and patterns, *)
(* a ruleset by its broken files; rules of one game name the same folders. *)
(***************************************************************************)
EXTENDS Naturals, FiniteSets

CONSTANTS Handlers, Startup,   \* handlers running at once; the start of the server
          RuleFiles,
          OpenRules,           \* rule files that are open: their buffers own their diagnostics
          Roots, NoRoot,
          MaxChanges           \* bound: handlers started

VARIABLES config, root, roots, \* ServerConfig
          broken,              \* rule files on disk that do not parse
          ruleset, generation, \* the rules installed; settings_generation
          ready, handshake,    \* index_ready, handshake_complete
          tasks,               \* what each handler does
          deferred,            \* deferred revalidations
          pass,                \* the scan that runs
          lastScan,            \* last_scan_fingerprint
          locSignature, baseGame, \* last_loc_signature; the base game is in memory
          made,                \* what the index and its diagnostics were made from
          parked,              \* deferred_rule_diagnostics
          publishedRules, ruleErrors, \* published_rule_uris; what the client shows
          started,
          excused, crossed     \* history: a scan owed was given up; two publications ran at once
configVars == <<config, root, roots>>
ruleVars == <<parked, publishedRules, ruleErrors, crossed>>
passVars == <<pass, lastScan, locSignature, made, ready>>
settingsVars == <<configVars, broken, ruleset, generation, handshake, tasks, deferred, baseGame,
                  started, excused, ruleVars, passVars>>

Idle == [at |-> "idle", kind |-> "none", rules |-> {}, todo |-> {}]
NoPass == [at |-> "none", by |-> Startup, quiet |-> FALSE, files |-> <<NoRoot, 0>>, loc |-> <<NoRoot, 0>>,
           generation |-> 0, rules |-> {}]
Unread == [rules |-> {}, files |-> {}, late |-> {}]

\* initialize: the first folder is the primary one, and rules load before it
\* answers.
Init == /\ config = [globs |-> 0, late |-> 0]
        /\ roots \in SUBSET Roots
        /\ root \in IF roots = {} THEN {NoRoot} ELSE roots
        /\ broken \in SUBSET RuleFiles
        /\ ruleset = {} /\ generation = 0 /\ ready = FALSE /\ handshake = FALSE
        /\ tasks = [h \in Handlers \union {Startup} |->
                       IF h = Startup THEN [Idle EXCEPT !.at = "load", !.kind = "startup"] ELSE Idle]
        /\ deferred = 0 /\ pass = NoPass /\ lastScan = <<NoPass.files, 0>>
        /\ locSignature = NoPass.files /\ baseGame = FALSE /\ made = Unread
        /\ parked = [shown |-> {}, cleared |-> {}] /\ publishedRules = {} /\ ruleErrors = {}
        /\ started = 0 /\ excused = FALSE /\ crossed = FALSE

Become(h, task) == tasks' = [tasks EXCEPT ![h] = task]
Step(h, at) == Become(h, [tasks[h] EXCEPT !.at = at])

\* The next handler: the client may send requests once initialize answered.
Arrive(h) == /\ tasks[h] = Idle /\ tasks[Startup].at \notin {"load", "report", "install", "bump"}
             /\ started < MaxChanges /\ started' = started + 1

-----------------------------------------------------------------------------
(* The settings and the folders.                                           *)

\* A key that is not given keeps its value; so does one of a wrong type, but
\* a list of a wrong type is an empty list.
Given == [as : {"absent", "malformed"}, value : {0}] \union [as : {"value"}, value : 0..1]
ReadSetting(given, old) == IF given.as = "value" THEN given.value ELSE old
ReadList(given, old) == IF given.as = "absent" THEN old ELSE given.value

\* A change of ignore patterns, languages or hover asks for a scan; what else
\* changes only validates the open documents again.
DidChangeConfiguration(h) ==
    /\ Arrive(h)
    /\ \E globs \in Given, late \in Given, other \in BOOLEAN :
          LET new == [globs |-> ReadList(globs, config.globs), late |-> ReadSetting(late, config.late)] IN
          /\ new # config \/ other
          /\ config' = new
          /\ Become(h, [Idle EXCEPT !.at = "bump", !.kind = IF new # config THEN "config" ELSE "other"])
    /\ UNCHANGED <<root, roots, broken, ruleset, generation, handshake, deferred, baseGame, excused, ruleVars, passVars>>

\* A removed primary folder is followed by an added one, not by a survivor.
NextRoot(removed, added) ==
    IF root \in removed \union {NoRoot} THEN (IF added = {} THEN {NoRoot} ELSE added) ELSE {root}
DidChangeFolders(h) ==
    /\ Arrive(h)
    /\ \E removed \in SUBSET roots, added \in SUBSET (Roots \ roots) :
          /\ root' \in NextRoot(removed, added)
          /\ roots' = (roots \ removed) \union added
          /\ Become(h, IF root' = NoRoot THEN Idle ELSE [Idle EXCEPT !.at = "bump", !.kind = "folders"])
    /\ UNCHANGED <<config, broken, ruleset, generation, handshake, deferred, baseGame, excused, ruleVars, passVars>>

\* Mutant of Owes: whoever changed the settings trusts the scan that runs.
Owes_rulesOnly(kind) == kind = "rules"

\* Who hands a scan that it could not run to a task of its own.
Owes(kind) == kind \in {"config", "rules"}

Bump(h) ==
    /\ tasks[h].at = "bump"
    /\ generation' = generation + 1
    /\ CASE tasks[h].kind = "startup" -> Step(h, "respond")
         [] tasks[h].kind = "other" -> Become(h, Idle)
         [] OTHER -> Step(h, "retry")
    /\ UNCHANGED <<configVars, broken, ruleset, handshake, deferred, baseGame, started, excused, ruleVars, passVars>>

-----------------------------------------------------------------------------
(* The rules.                                                              *)
EditRules == /\ started < MaxChanges /\ started' = started + 1
             /\ broken' \in (SUBSET RuleFiles) \ {broken}
             /\ UNCHANGED <<configVars, ruleset, generation, handshake, tasks, deferred, baseGame, excused, ruleVars, passVars>>

LoadRules(h) ==
    /\ \/ tasks[h].at = "load" /\ Become(h, [tasks[h] EXCEPT !.at = "report", !.rules = broken]) /\ UNCHANGED started
       \/ Arrive(h) /\ Become(h, [Idle EXCEPT !.at = "report", !.kind = "rules", !.rules = broken])
    /\ UNCHANGED <<configVars, broken, ruleset, generation, handshake, deferred, baseGame, excused, ruleVars, passVars>>

PublishingToo(h) == \E g \in DOMAIN tasks \ {h} : tasks[g].at = "publish"

\* Mutant of Reported: what is published again is not cleared.
Reported_keeps(old, errors) == [shown |-> errors, cleared |-> {}]

\* Files with errors, and those that had some and are not open.
Reported(old, errors) == [shown |-> errors, cleared |-> (old \ errors) \ OpenRules]

\* The diagnostics wait for `initialized` when it has not come yet.
ReportRules(h) ==
    LET t == tasks[h]  r == Reported(publishedRules, t.rules) IN
    /\ t.at = "report"
    /\ publishedRules' = t.rules
    /\ IF handshake
       THEN /\ Become(h, [t EXCEPT !.at = "publish", !.todo = r.shown \union r.cleared])
            /\ crossed' = (crossed \/ PublishingToo(h)) /\ UNCHANGED parked
       ELSE /\ parked' = [shown |-> (parked.shown \ r.cleared) \union r.shown,
                          cleared |-> (parked.cleared \ r.shown) \union r.cleared]
            /\ Step(h, "install") /\ UNCHANGED crossed
    /\ UNCHANGED <<configVars, broken, ruleset, generation, handshake, deferred, baseGame, started, excused, ruleErrors, passVars>>

\* One file after another, whatever another publishes in between.
PublishRules(h) ==
    LET t == tasks[h] IN
    /\ t.at = "publish"
    /\ IF t.todo = {}
       THEN Step(h, IF t.kind = "startup" THEN "scan" ELSE "install") /\ UNCHANGED ruleErrors
       ELSE \E f \in t.todo :
              /\ Become(h, [t EXCEPT !.todo = @ \ {f}])
              /\ ruleErrors' = IF f \in t.rules THEN ruleErrors \union {f} ELSE ruleErrors \ {f}
    /\ UNCHANGED <<configVars, broken, ruleset, generation, handshake, deferred, baseGame, started, excused,
                   parked, publishedRules, crossed, passVars>>

\* Rules of which nothing could be read are not installed: the command is a
\* scan like any other then.
InstallRules(h) ==
    LET t == tasks[h]  loaded == t.rules # RuleFiles IN
    /\ t.at = "install"
    /\ IF loaded THEN ruleset' = t.rules /\ Step(h, "bump")
       ELSE /\ UNCHANGED ruleset
            /\ IF t.kind = "startup" THEN Step(h, "respond")
               ELSE Become(h, [t EXCEPT !.at = "retry", !.kind = "reindex"])
    /\ UNCHANGED <<configVars, broken, generation, handshake, deferred, baseGame, started, excused, ruleVars, passVars>>

Initialized ==
    /\ tasks[Startup].at = "respond" /\ handshake' = TRUE
    /\ Become(Startup, [tasks[Startup] EXCEPT !.at = "publish", !.rules = parked.shown, !.todo = parked.shown \union parked.cleared])
    /\ parked' = [shown |-> {}, cleared |-> {}]
    /\ crossed' = (crossed \/ PublishingToo(Startup))
    /\ UNCHANGED <<configVars, broken, ruleset, generation, deferred, baseGame, started, excused,
                   publishedRules, ruleErrors, passVars>>

-----------------------------------------------------------------------------
(* Commands on caches, and waiting for a scan.                             *)
Command(h) ==
    /\ Arrive(h)
    /\ \E kind \in {"reindex", "clear", "cacheVanilla"} :
          /\ Become(h, [Idle EXCEPT !.at = IF kind = "cacheVanilla" THEN "rebuild" ELSE "retry", !.kind = kind])
          /\ baseGame' = (baseGame /\ kind = "reindex")
    /\ UNCHANGED <<configVars, broken, ruleset, generation, handshake, deferred, excused, ruleVars, passVars>>

RebuildVanilla(h) == /\ tasks[h].at = "rebuild" /\ baseGame' = TRUE /\ Become(h, Idle)
                     /\ UNCHANGED <<configVars, broken, ruleset, generation, handshake, deferred, started, excused, ruleVars, passVars>>

Start(by, quiet) == pass = NoPass /\ pass' = [NoPass EXCEPT !.at = "walk", !.by = by, !.quiet = quiet]
TryScan(h) ==
    /\ tasks[h].at \in {"retry", "scan"} /\ Start(h, FALSE) /\ Step(h, "scanning")
    /\ UNCHANGED <<configVars, broken, ruleset, generation, handshake, deferred, baseGame, started, excused, ruleVars,
                   lastScan, locSignature, made, ready>>

\* Another scan runs: a change of the settings leaves at once, the others
\* when their time is over; the start of the server trusts the scan that runs.
GiveUp(h) ==
    LET t == tasks[h] IN
    /\ t.at \in {"retry", "scan"} /\ pass # NoPass
    /\ Become(h, IF h = Startup THEN [t EXCEPT !.at = "over"] ELSE Idle)
    /\ deferred' = deferred + (IF Owes(t.kind) THEN 1 ELSE 0)
    /\ excused' = (excused \/ t.kind \in {"folders", "clear"})
    /\ ready' = (ready \/ h = Startup)
    /\ UNCHANGED <<configVars, broken, ruleset, generation, handshake, baseGame, started, ruleVars,
                   pass, lastScan, locSignature, made>>

Cancellable(h) == h # Startup /\ tasks[h].kind \in {"rules", "reindex", "clear"}
Cancelled(h) == /\ Become(h, Idle)
                /\ deferred' = deferred + (IF tasks[h].kind = "clear" THEN 1 ELSE 0)
                /\ excused' = (excused \/ tasks[h].kind # "clear")
CancelWait(h) == /\ tasks[h].at = "retry" /\ pass # NoPass /\ Cancellable(h) /\ Cancelled(h)
                 /\ UNCHANGED <<configVars, broken, ruleset, generation, handshake, baseGame, started, ruleVars, passVars>>

RunDeferred == /\ deferred > 0 /\ deferred' = deferred - 1
               /\ IF pass = NoPass THEN Start(Startup, FALSE) /\ UNCHANGED excused
                  ELSE excused' = TRUE /\ UNCHANGED pass
               /\ UNCHANGED <<configVars, broken, ruleset, generation, handshake, tasks, baseGame, started, ruleVars,
                              lastScan, locSignature, made, ready>>

\* The reindex loop, when the index is ready and the user idle.
BackgroundPass == /\ handshake /\ ready /\ Start(Startup, TRUE)
                  /\ UNCHANGED <<configVars, broken, ruleset, generation, handshake, tasks, deferred, baseGame, started,
                                 excused, ruleVars, lastScan, locSignature, made, ready>>

-----------------------------------------------------------------------------
(* The scan.                                                               *)
passOnly == <<configVars, broken, ruleset, generation, handshake, started, ruleVars>>
Current == <<root, config.globs>>
Advance(at) == pass' = [pass EXCEPT !.at = at]
Finish == /\ pass' = NoPass
          /\ IF tasks[pass.by].at = "scanning"
             THEN /\ Become(pass.by, IF pass.by = Startup THEN [Idle EXCEPT !.at = "over"] ELSE Idle)
                  /\ ready' = (ready \/ pass.by = Startup)
             ELSE UNCHANGED <<tasks, ready>>
keepsTasks == <<tasks, deferred, excused, ready>>

\* The walk reads the folder and the patterns; without a folder there is
\* nothing to do.
Walk == /\ pass.at = "walk"
        /\ IF root = NoRoot
           THEN Finish /\ UNCHANGED <<deferred, excused>>
           ELSE pass' = [pass EXCEPT !.at = "stamp", !.files = Current] /\ UNCHANGED keepsTasks
        /\ UNCHANGED <<passOnly, lastScan, locSignature, baseGame, made>>

\* Then the generation is read, and a quiet pass may be skipped.
Stamp == /\ pass.at = "stamp"
         /\ IF pass.quiet /\ lastScan = <<pass.files, generation>>
            THEN Finish /\ UNCHANGED <<deferred, excused>>
            ELSE pass' = [pass EXCEPT !.at = "index", !.generation = generation] /\ UNCHANGED keepsTasks
         /\ UNCHANGED <<passOnly, lastScan, locSignature, baseGame, made>>

\* Files are indexed one by one, each with the rules of the moment.
IndexSome == /\ pass.at = "index"
             /\ pass' = [pass EXCEPT !.at = "prune", !.rules = {ruleset}]
             /\ made' = [made EXCEPT !.rules = @ \union {ruleset}, !.files = @ \union {pass.files}]
             /\ UNCHANGED <<passOnly, keepsTasks, lastScan, locSignature, baseGame>>
IndexRest == /\ pass.at = "prune"
             /\ Advance("baseGame")
             /\ made' = [made EXCEPT !.rules = pass.rules \union {ruleset}, !.files = {pass.files}]
             /\ UNCHANGED <<passOnly, keepsTasks, lastScan, locSignature, baseGame>>
EnsureVanilla == /\ pass.at = "baseGame" /\ Advance("loc") /\ baseGame' = TRUE
                 /\ UNCHANGED <<passOnly, keepsTasks, lastScan, locSignature, made>>

\* The signature of localisation is of its files only: a quiet pass does not
\* see that the languages changed.
RebuildLoc == /\ pass.at = "loc"
              /\ pass' = [pass EXCEPT !.at = "sign", !.loc = Current]
              /\ IF pass.quiet /\ locSignature = Current THEN UNCHANGED made
                 ELSE made' = [made EXCEPT !.late = {config.late}]
              /\ UNCHANGED <<passOnly, keepsTasks, lastScan, locSignature, baseGame>>
SignLoc == /\ pass.at = "sign" /\ Advance("validate")
           /\ locSignature' = pass.loc /\ ready' = TRUE
           /\ UNCHANGED <<passOnly, tasks, deferred, excused, lastScan, baseGame, made>>

\* Mutant of Recorded: the generation is the one at the end.
Recorded_now == <<pass.files, generation>>

\* What a later quiet pass compares itself with.
Recorded == <<pass.files, pass.generation>>

ValidateAll == /\ pass.at = "validate" /\ Finish
               /\ made' = [made EXCEPT !.rules = @ \union {ruleset}]
               /\ lastScan' = Recorded
               /\ UNCHANGED <<passOnly, deferred, excused, locSignature, baseGame>>

\* Work done is kept, but not recorded.
CancelPass == /\ pass.at \in {"index", "prune", "baseGame", "loc", "sign", "validate"}
              /\ tasks[pass.by].at = "scanning" /\ Cancellable(pass.by) /\ Cancelled(pass.by)
              /\ pass' = NoPass
              /\ UNCHANGED <<passOnly, ready, lastScan, locSignature, baseGame, made>>

Handle(h) == \/ Bump(h) \/ LoadRules(h) \/ ReportRules(h) \/ PublishRules(h) \/ InstallRules(h)
             \/ TryScan(h) \/ GiveUp(h)
Request(h) == DidChangeConfiguration(h) \/ DidChangeFolders(h) \/ Command(h) \/ RebuildVanilla(h) \/ CancelWait(h)
Pass == \/ Walk \/ Stamp \/ IndexSome \/ IndexRest \/ EnsureVanilla \/ RebuildLoc \/ SignLoc \/ ValidateAll \/ CancelPass
Next == \/ \E h \in Handlers \union {Startup} : Handle(h)
        \/ \E h \in Handlers : Request(h)
        \/ EditRules \/ Initialized \/ RunDeferred \/ BackgroundPass \/ Pass
Spec == Init /\ [][Next]_settingsVars

-----------------------------------------------------------------------------
\* When all is at rest, the index is made from the folder, the patterns, the
\* rules and the languages in force and the base game is in memory, in whatever
\* order changes, reloads, commands and scans met (config.rs, workspace.rs).
\* Excepted are scans given up when their time was over, or cancelled.
AtRest == /\ pass = NoPass /\ deferred = 0
          /\ \A h \in Handlers : tasks[h] = Idle
          /\ tasks[Startup].at = "over"
NothingForgotten ==
    AtRest /\ ~excused /\ root # NoRoot =>
        made = [rules |-> {ruleset}, files |-> {Current}, late |-> {config.late}] /\ baseGame

\* Even after cancelled scans and retries given up, a quiet pass is skipped only
\* when the index has the files and the rules it would give it (workspace.rs:
\* quiet_pass_can_skip): the generation is read before what it stands for.
SkipsAreSound ==
    pass = NoPass /\ root # NoRoot /\ (\A h \in DOMAIN tasks : tasks[h].at # "bump")
        /\ lastScan = <<Current, generation>>
    => made.rules = {ruleset} /\ made.files = {Current}

\* The client shows the errors of the rules loaded last, from a load before the
\* handshake or after it (load_rules_config, initialized), unless two handlers
\* published at the same time.
RuleErrorsShown ==
    handshake /\ ~crossed /\ (\A h \in DOMAIN tasks : tasks[h].at # "publish") =>
        ruleErrors \ OpenRules = publishedRules \ OpenRules
=============================================================================
