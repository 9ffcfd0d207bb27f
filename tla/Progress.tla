------------------------------ MODULE Progress ------------------------------
(***************************************************************************)
(* Progress of the long commands, and the loading indicator that scans and *)
(* commands share (lsp: command_progress.rs, scan/mod.rs).  A handler is   *)
(* a future the client can drop at any await, so each notification is a    *)
(* step of its own, and a drop is possible wherever one is sent.           *)
(***************************************************************************)
EXTENDS Naturals, FiniteSets

CONSTANTS Commands,    \* each with a token of its own, given by the client
          Drivers      \* what opens and closes the indicator: scans and commands

VARIABLES stage,       \* where each command's handler is
          cancels,     \* command_cancels: the commands whose token is registered
          flagged,     \* the commands whose cancel flag is set
          stream,      \* what the client was sent for each token
          sampler,     \* the sampler task of each command's phase
          closing,     \* the commands whose End was given to a task of its own
          bar,         \* loading_bar_active
          opened, closed,  \* how often the indicator was opened and closed
          driver       \* where each driver is
streamVars == <<stage, cancels, flagged, stream, sampler, closing>>
barVars == <<bar, opened, closed, driver>>
progressVars == <<streamVars, barVars>>

Stages == {"idle", "beginning", "running", "ending", "over"}
TypeOK == /\ stage \in [Commands -> Stages]
          /\ cancels \subseteq Commands /\ flagged \subseteq Commands /\ closing \subseteq Commands
          /\ stream \in [Commands -> [begins : 0..2, ends : 0..2]]
          /\ sampler \in [Commands -> {"none", "waiting", "reporting"}]
          /\ bar \in BOOLEAN /\ opened \in Nat /\ closed \in Nat
          /\ driver \in [Drivers -> {"idle", "open", "over"}]

Init == /\ stage = [c \in Commands |-> "idle"]
        /\ cancels = {} /\ flagged = {} /\ closing = {}
        /\ stream = [c \in Commands |-> [begins |-> 0, ends |-> 0]]
        /\ sampler = [c \in Commands |-> "none"]
        /\ bar = FALSE /\ opened = 0 /\ closed = 0
        /\ driver = [d \in Drivers |-> "idle"]

\* CommandProgress::begin registers the token, then sends Begin.
Begin(c) == /\ stage[c] = "idle"
            /\ stage' = [stage EXCEPT ![c] = "beginning"]
            /\ cancels' = cancels \union {c}
            /\ UNCHANGED <<flagged, stream, sampler, closing>>

SendBegin(c) == /\ stage[c] = "beginning"
                /\ stage' = [stage EXCEPT ![c] = "running"]
                /\ stream' = [stream EXCEPT ![c].begins = @ + 1]
                /\ UNCHANGED <<cancels, flagged, sampler, closing>>

\* start_phase spawns a task that wakes, reads the counter and reports; stop
\* and drop of the ticker abort it, which a report on its way survives.
StartPhase(c) == /\ stage[c] = "running" /\ sampler[c] = "none"
                 /\ sampler' = [sampler EXCEPT ![c] = "waiting"]
                 /\ UNCHANGED <<stage, cancels, flagged, stream, closing>>
Sample(c) == /\ sampler[c] = "waiting"
             /\ sampler' = [sampler EXCEPT ![c] = "reporting"]
             /\ UNCHANGED <<stage, cancels, flagged, stream, closing>>
Report(c) == /\ sampler[c] = "reporting"
             /\ sampler' = [sampler EXCEPT ![c] = IF stage[c] = "running" THEN "waiting" ELSE "none"]
             /\ UNCHANGED <<stage, cancels, flagged, stream, closing>>
Aborted(c) == IF sampler[c] = "waiting" THEN [sampler EXCEPT ![c] = "none"] ELSE sampler
StopPhase(c) == /\ stage[c] = "running" /\ sampler[c] # "none"
                /\ sampler' = Aborted(c)
                /\ UNCHANGED <<stage, cancels, flagged, stream, closing>>

\* The handler polls its flag between steps: a cancelled command, like any
\* other, ends with finish, which deregisters the token, then sends End.
Finish(c) == /\ stage[c] = "running"
             /\ stage' = [stage EXCEPT ![c] = "ending"]
             /\ cancels' = cancels \ {c}
             /\ sampler' = Aborted(c)
             /\ UNCHANGED <<flagged, stream, closing>>
SendEnd(c) == /\ stage[c] = "ending"
              /\ stage' = [stage EXCEPT ![c] = "over"]
              /\ stream' = [stream EXCEPT ![c].ends = @ + 1]
              /\ UNCHANGED <<cancels, flagged, sampler, closing>>

\* Mutant of Abandoned: the value is made before Begin is sent.
Abandoned_early(c) == stage[c] \in {"beginning", "running"}

\* Drop cleans up after a CommandProgress that exists and was not finished;
\* begin makes the value after it has sent Begin, finish takes its sink.
Abandoned(c) == stage[c] = "running"

\* The client cancels the request and the handler's future is dropped.
DropCommand(c) ==
    /\ stage[c] \in {"beginning", "running", "ending"}
    /\ stage' = [stage EXCEPT ![c] = "over"]
    /\ IF Abandoned(c)
       THEN cancels' = cancels \ {c} /\ closing' = closing \union {c}
       ELSE UNCHANGED <<cancels, closing>>
    /\ sampler' = Aborted(c)
    /\ UNCHANGED <<flagged, stream>>
SendAbandonedEnd(c) == /\ c \in closing
                       /\ closing' = closing \ {c}
                       /\ stream' = [stream EXCEPT ![c].ends = @ + 1]
                       /\ UNCHANGED <<stage, cancels, flagged, sampler>>

\* window/workDoneProgress/cancel: an unknown or finished token is ignored.
CancelToken(c) == /\ c \in cancels \ flagged
                  /\ flagged' = flagged \union {c}
                  /\ UNCHANGED <<stage, cancels, stream, sampler, closing>>

CommandStep(c) == \/ Begin(c) \/ SendBegin(c) \/ StartPhase(c) \/ Sample(c) \/ Report(c)
                  \/ StopPhase(c) \/ Finish(c) \/ SendEnd(c) \/ DropCommand(c)
                  \/ SendAbandonedEnd(c) \/ CancelToken(c)

-----------------------------------------------------------------------------
\* Mutant of Silent: a close is sent whether or not the indicator is open.
Silent_never(enable, was) == FALSE

\* send_loading_bar_pct swaps the flag and sends nothing for a close of what
\* is not open; a phase of an open indicator updates it.
Silent(enable, was) == ~enable /\ ~was

LoadingBar(enable) ==
    /\ bar' = enable
    /\ opened' = IF enable /\ ~bar THEN opened + 1 ELSE opened
    /\ closed' = IF enable \/ Silent(enable, bar) THEN closed ELSE closed + 1

\* A driver opens the indicator or finds nothing to show; ScanGuard closes it
\* when the driver ends, is dropped or panics, and so may the driver itself.
Open(d) == /\ driver[d] = "idle"
           /\ driver' = [driver EXCEPT ![d] = "open"]
           /\ LoadingBar(TRUE)
NothingToShow(d) == /\ driver[d] = "idle"
                    /\ driver' = [driver EXCEPT ![d] = "open"]
                    /\ UNCHANGED <<bar, opened, closed>>
Phase(d) == driver[d] = "open" /\ LoadingBar(TRUE) /\ UNCHANGED driver
Clear(d) == driver[d] = "open" /\ LoadingBar(FALSE) /\ UNCHANGED driver
Close(d) == /\ driver[d] = "open"
            /\ driver' = [driver EXCEPT ![d] = "over"]
            /\ LoadingBar(FALSE)

DriverStep(d) == \/ Open(d) \/ NothingToShow(d) \/ Close(d)
                 \/ opened < 3 /\ Phase(d)
                 \/ Clear(d)

Next == \/ (\E c \in Commands : CommandStep(c)) /\ UNCHANGED barVars
        \/ (\E d \in Drivers : DriverStep(d)) /\ UNCHANGED streamVars

-----------------------------------------------------------------------------
\* However a command ends, by finish or by a drop that leaves the End to a
\* task of its own, its stream is ended at most once and only after its Begin,
\* and not while the command runs (CommandProgress, command_progress.rs).
StreamsPaired ==
    \A c \in Commands :
        /\ stream[c].ends <= stream[c].begins /\ stream[c].begins <= 1
        /\ stage[c] = "running" => stream[c] = [begins |-> 1, ends |-> 0]
        /\ c \in closing => stream[c] = [begins |-> 1, ends |-> 0]

\* Whatever drivers overlap and however they clear the indicator defensively,
\* it is closed once for each time it was opened and the last one out leaves
\* it closed (scan/mod.rs: "a client should see one close per open").
ClosesMatchOpens == /\ opened = closed + (IF bar THEN 1 ELSE 0)
                    /\ (\A d \in Drivers : driver[d] = "over") => ~bar

\* A registered token belongs to a command that runs (state.rs: "Entries live
\* exactly as long as their command").  A command dropped while it sends Begin
\* has registered its token and owns nothing yet that would take it out.
EntriesLiveWithCommand == \A c \in cancels : stage[c] \in {"beginning", "running"}
=============================================================================
