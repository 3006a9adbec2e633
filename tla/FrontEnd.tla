------------------------------ MODULE FrontEnd ------------------------------
(***************************************************************************)
(* The two front ends that do more with the engine's events than print     *)
(* them: the fetch command (main.rs, run_fetch), which ends on them, and   *)
(* the terminal interface (tui.rs), which keeps a picture of the engine.   *)
(* Either runs against the engine of EngineEvents, and when it ends so     *)
(* does the process.                                                       *)
(***************************************************************************)
EXTENDS EngineEvents

CONSTANTS
  Command,        \* {"fetch", "share"}, or one of them
  Target,         \* the peer to fetch from
  MaxLogLines     \* tui.max_log_lines

ASSUME FrontEndAssumption ==
  Command \subseteq {"fetch", "share"} /\ Target \in Peer /\ MaxLogLines \in Nat

VARIABLES
  command,     \* the command that was started
  outcome,     \* "running", or how it ended
  connected,   \* run_fetch: target_connected
  downloaded,  \* run_fetch: files_downloaded
  panel,       \* AppState.peers: <<peer, connected>>, in order of appearance
  rows,        \* the paths in AppState.transfers; of one path all rows go at once
  journal,     \* AppState.journal: the number of its lines
  reported     \* history: reported[f] is the last that was received about f

frontVars == <<command, outcome, connected, downloaded, panel, rows, journal, reported>>

vars == <<engineVars, frontVars>>

Init ==
  /\ EngineInit
  /\ command \in Command
  /\ outcome = "running"
  /\ connected = FALSE /\ downloaded = 0
  /\ panel = <<>> /\ rows = {} /\ journal = 0
  /\ reported = [f \in File |-> "nothing"]

Running == outcome = "running"

ReportKinds == {"received", "removed"}

\* The first event in the channel is taken off.
Receive(event) ==
  /\ ui' = Tail(ui)
  /\ reported' = IF event[1] \in ReportKinds
                 THEN [reported EXCEPT ![event[2]] = event[1]] ELSE reported
  /\ UNCHANGED <<engine, loopOut, spawns, near, tasks, applied, command>>

-----------------------------------------------------------------------------
(* run_fetch *)

FetchEvent(event) ==
  /\ command = "fetch" /\ Receive(event)
  /\ connected' = (connected \/ event = Connected(Target))
  /\ downloaded' = IF event[1] = "received" THEN downloaded + 1 ELSE downloaded
  /\ outcome' = IF event = Reconciled(Target) THEN "ok"
                ELSE IF event = Log("failed") /\ connected THEN "error" ELSE outcome
  /\ UNCHANGED <<panel, rows, journal>>

\* The timer was started with the command and is never stopped; or the user stops the
\* command.
FetchGivesUp(why) ==
  /\ command = "fetch" /\ Running
  /\ outcome' = why
  /\ UNCHANGED <<engineVars, command, connected, downloaded, panel, rows, journal, reported>>

-----------------------------------------------------------------------------
(* AppState::handle_event and run_loop *)

Listed(p) == \E i \in DOMAIN panel : panel[i][1] = p

\* Mutant: a peer that returns is added again.
KnownAppends(event) ==
  CASE event[1] = "connected" -> Append(panel, <<event[2], TRUE>>)
    [] event[1] = "disconnected" ->
         [i \in DOMAIN panel |-> IF panel[i][1] = event[2] THEN <<event[2], FALSE>> ELSE panel[i]]
    [] OTHER -> panel

Known(event) ==
  IF event[1] = "connected" /\ ~Listed(event[2]) THEN Append(panel, <<event[2], TRUE>>)
  ELSE IF event[1] \in {"connected", "disconnected"}
  THEN [i \in DOMAIN panel |-> IF panel[i][1] = event[2]
                               THEN <<event[2], event[1] = "connected">> ELSE panel[i]]
  ELSE panel

\* Mutant: the rows of the other paths are taken away.
ShownInverted(event) ==
  CASE event[1] = "started" -> rows \cup {event[2]}
    [] event[1] = "received" -> rows \cap {event[2]}
    [] OTHER -> rows

\* The rows of a path go together, those of two transfers of it included.
Shown(event) ==
  CASE event[1] = "started" -> rows \cup {event[2]}
    [] event[1] = "received" -> rows \ {event[2]}
    [] OTHER -> rows

Logged == {"index", "log", "conflict", "removed", "reconciled"}

\* Mutant: the journal is full only at its limit.
LinesAtLimit(event) ==
  IF event[1] \in Logged
  THEN (IF journal = MaxLogLines /\ journal > 0 THEN journal - 1 ELSE journal) + 1
  ELSE journal

\* add_log drops the oldest line of a full journal before it adds one.
Lines(event) ==
  IF event[1] \in Logged
  THEN (IF journal >= MaxLogLines /\ journal > 0 THEN journal - 1 ELSE journal) + 1
  ELSE journal

TerminalEvent(event) ==
  /\ command = "share" /\ Receive(event)
  /\ panel' = Known(event) /\ rows' = Shown(event) /\ journal' = Lines(event)
  /\ UNCHANGED <<outcome, connected, downloaded>>

\* The key q, asked for when no event came for a refresh interval.
Quit ==
  /\ command = "share" /\ Running /\ ui = <<>>
  /\ outcome' = "quit"
  /\ UNCHANGED <<engineVars, command, connected, downloaded, panel, rows, journal, reported>>

Ended == outcome # "running" /\ UNCHANGED vars

FrontStep == Running /\ ui # <<>> /\ (FetchEvent(Head(ui)) \/ TerminalEvent(Head(ui)))

Next ==
  \/ Running /\ EngineStep /\ UNCHANGED frontVars
  \/ FrontStep
  \/ \E why \in {"timeout", "interrupted"} : FetchGivesUp(why)
  \/ Quit
  \/ Ended

\* The front end, the engine loop and each task are polled while they can go on.  Nothing
\* makes the timer fire before something else ends the command.
Fairness ==
  /\ WF_vars(FrontStep)
  /\ WF_vars(Running /\ LoopStep /\ UNCHANGED frontVars)
  /\ \A t \in 1 .. MaxTasks :
       WF_vars(Running /\ t \in DOMAIN tasks /\ TaskStep(t) /\ UNCHANGED frontVars)

Spec == Init /\ [][Next]_vars /\ Fairness

-----------------------------------------------------------------------------
(* Correctness *)

TypeOK ==
  /\ EngineTypeOK
  /\ command \in Command
  /\ outcome \in {"running", "ok", "error", "timeout", "interrupted", "quit"}
  /\ connected \in BOOLEAN /\ downloaded \in Nat
  /\ panel \in Seq(Peer \X BOOLEAN)
  /\ rows \subseteq File
  /\ journal \in Nat /\ (journal <= MaxLogLines \/ journal = 1)
  /\ reported \in [File -> {"nothing", "received", "removed"}]

\* The newest event of these kinds about x in the queue, or what there was before it.
Newest(queue, kinds, x, kind, before) ==
  \/ \E i \in DOMAIN queue :
       /\ queue[i][1] \in kinds /\ queue[i][2] = x /\ queue[i][1] = kind
       /\ \A j \in i + 1 .. Len(queue) : queue[j][1] \notin kinds \/ queue[j][2] # x
  \/ /\ \A i \in DOMAIN queue : queue[i][1] \notin kinds \/ queue[i][2] # x
     /\ kind = before

\* Once every event was taken, what was last reported of a file is what happened to it
\* last: the front end's account of the folder cannot differ from the index for good,
\* though tasks report on their own.  It is why the index lock is held across the
\* sends.
ReportsFollowIndex ==
  ~Locked => \A f \in File : Newest(ui, ReportKinds, f, applied[f], reported[f])

Settled(t) == tasks[t].at \in {"done", "failed"}

ReconcileOf(p) == {t \in DOMAIN tasks : tasks[t].job = <<"reconcile", p>>}

\* fetch ends with success only after a reconciliation with its target went through
\* all of its files: each was received, is excluded or could not be had.
SuccessIsWhole ==
  outcome = "ok" =>
    \E t \in ReconcileOf(Target) :
      /\ tasks[t].at = "done"
      /\ \A f \in tasks[t].offered \ (Excluded \cup tasks[t].missed) : reported[f] # "nothing"

\* fetch ends with an error only if some reconciliation failed or a path that was
\* received has the word in its name; a file that could not be had does not end it.
ErrorHasCause ==
  outcome = "error" =>
    \/ \E t \in DOMAIN tasks : tasks[t].at = "failed"
    \/ \E f \in NamedFailed : reported[f] # "nothing"

\* A row of the transfer table is a fetch that runs, whose end is on its way, or that
\* failed: no finished transfer stays, and none is shown that was not begun.
RowsAreFetches ==
  \A f \in rows :
    \/ \E t \in DOMAIN tasks :
         \/ tasks[t].path = f /\ tasks[t].at \in {"chunks", "write", "index", "reported"}
         \/ f \in tasks[t].missed
    \/ \E i \in DOMAIN ui : ui[i] = OnFile("received", f)

\* When the channel and the loop have nothing more to tell, the list of peers is the
\* set of connections, each named once.
PanelIsNear ==
  /\ \A i, j \in DOMAIN panel : panel[i][1] = panel[j][1] => i = j
  /\ command = "share" /\ ui = <<>> /\ loopOut = <<>>
       => near = {panel[i][1] : i \in {j \in DOMAIN panel : panel[j][2]}}

\* Every task comes to its end, or the process does: no request, no full channel and
\* no held lock keeps one for ever.
TasksEnd ==
  []<>(Running => \A t \in DOMAIN tasks : Settled(t) /\ tasks[t].out = <<>>)

\* Whichever way the reconciliation with its target ends, fetch ends too, without
\* waiting for the timer.
FetchEnds == command = "fetch" /\ ReconcileOf(Target) # {} ~> ~Running

-----------------------------------------------------------------------------
(* Promises that the code does not keep *)

\* run_fetch says of its timer that it is for the time to connect.
TimeoutMeansUnconnected == outcome = "timeout" => ~connected

\* A fetch that ends with success has all the files its target offered.
SuccessHasAll ==
  outcome = "ok" =>
    \E t \in ReconcileOf(Target) : \A f \in tasks[t].offered \ Excluded : reported[f] # "nothing"

\* The error a fetch ends with is its target's.
ErrorIsTargets == outcome = "error" => \E t \in ReconcileOf(Target) : tasks[t].at = "failed"

\* A row stays in the transfer table only while its transfer runs.
RowsLeave ==
  Running /\ ui = <<>> /\ (\A t \in DOMAIN tasks : Settled(t) /\ tasks[t].out = <<>>)
    => rows = {}

\* The engine's end is the front end's end.
DeathEnds == engine = "dead" ~> ~Running

=============================================================================
