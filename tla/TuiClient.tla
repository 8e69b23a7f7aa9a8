----------------------------- MODULE TuiClient -----------------------------
(***************************************************************************)
(* The terminal client (src/src/tui/, src/src/bin/herdr-webui-tui.rs): one *)
(* loop that reads keys, a worker that fetches a snapshot beside it, and   *)
(* the live terminal that keys go to in attach mode.  The session manager  *)
(* points the client at another session, whose terminals may have the same *)
(* ids, while a snapshot is on its way and a terminal is attached.         *)
(***************************************************************************)
EXTENDS Integers, SequencesExt

CONSTANTS
  TuiSessions, FirstSession,
  NoTui,       \* no session, no live terminal, no worker
  MaxTerms,    \* bound: terminals a session creates
  MaxOverlays, \* bound on nested overlays
  ServerTurns  \* bound on changes of the sessions

ASSUME TuiAssumption ==
  /\ FirstSession \in TuiSessions /\ NoTui \notin TuiSessions
  /\ {MaxTerms, MaxOverlays, ServerTurns} \subseteq Nat /\ MaxTerms # 0

VARIABLES
  up,       \* the sessions whose backends run
  panes,    \* the terminals of each session, in the order of its workspaces
  born,     \* how many it has created: its ids count from 1, as every session's
  turnsTaken, \* changes of the sessions so far
  session,  \* current_session
  bumped,   \* has session_generation moved since the loop last looked?
  snap,     \* the snapshot, and the session it is of
  sel,      \* the selected row of the snapshot
  last,     \* last_refresh: "never", "fresh" or older than the interval
  fetch,    \* refresh_inflight: the worker's session and its reply
  tuiMode, stack, quitPrev, \* mode, overlay_stack, quit_prev_mode
  screen,   \* the terminal, or one of the panels
  prompt,   \* prompt_input: none, for a new session, or for anything else
  listed,   \* session_rows: those listed as running
  liveTerm, \* live_terminal: its session and terminal
  tuiLoop   \* where the loop is: at the keys, or refreshing; or it has ended

serverVars == <<up, panes, born, turnsTaken>>
targetVars == <<session, bumped, fetch>>
viewVars   == <<snap, sel, last>>
modeVars   == <<tuiMode, stack, quitPrev>>
inputVars  == <<screen, prompt, listed>>
tuiVars    == <<serverVars, targetVars, viewVars, modeVars, inputVars, liveTerm, tuiLoop>>
-----------------------------------------------------------------------------
Base     == {"navigate", "attach"}
Overlays == {"sessions", "help", "worktrees", "palette"}
Modes    == Base \cup Overlays \cup {"confirm"}
Rows     == UNION {[1..n -> 1..MaxTerms] : n \in 0..MaxTerms}
Snapshot == [of : TuiSessions \cup {NoTui}, list : Rows]

TuiTypeOK ==
  /\ up \subseteq TuiSessions /\ panes \in [TuiSessions -> Rows]
  /\ born \in [TuiSessions -> 0..MaxTerms] /\ turnsTaken \in 0..ServerTurns
  /\ session \in TuiSessions /\ bumped \in BOOLEAN
  /\ snap \in Snapshot /\ sel \in 1..MaxTerms /\ last \in {"never", "fresh", "stale"}
  /\ fetch \in {NoTui} \cup [of : TuiSessions, stage : {"waiting", "failed", "done"}, list : Rows]
  /\ tuiMode \in Modes /\ stack \in Seq(Modes) /\ Len(stack) <= MaxOverlays /\ quitPrev \in Modes
  /\ screen \in {"terminal", "panel"} /\ prompt \in {"none", "session", "other"}
  /\ listed \subseteq TuiSessions
  /\ liveTerm \in {NoTui} \cup [of : TuiSessions, term : 1..MaxTerms]
  /\ tuiLoop \in {"keys", "refresh", "over"}

NoSnapshot == [of |-> NoTui, list |-> <<>>]

\* A session that runs from the start has one terminal.  The first refresh has
\* succeeded, or the program would have ended.
TuiInit ==
  /\ up \in {u \in SUBSET TuiSessions : FirstSession \in u}
  /\ panes = [s \in TuiSessions |-> IF s \in up THEN <<1>> ELSE <<>>]
  /\ born = [s \in TuiSessions |-> Len(panes[s])] /\ turnsTaken = 0
  /\ session = FirstSession /\ bumped = FALSE /\ fetch = NoTui
  /\ snap = [of |-> session, list |-> panes[session]] /\ sel = 1 /\ last = "fresh"
  /\ tuiMode = "navigate" /\ stack = <<>> /\ quitPrev = "navigate"
  /\ screen = "terminal" /\ prompt = "none" /\ listed = {}
  /\ liveTerm = NoTui /\ tuiLoop = "keys"
-----------------------------------------------------------------------------
(***************************************************************************)
(* The sessions.                                                           *)
(***************************************************************************)
Turn == turnsTaken < ServerTurns /\ turnsTaken' = turnsTaken + 1

CreateTerminal(s) ==
  /\ s \in up /\ born[s] < MaxTerms /\ Turn
  /\ born' = [born EXCEPT ![s] = @ + 1]
  /\ panes' = [panes EXCEPT ![s] = Append(@, born'[s])]
  /\ UNCHANGED up

CloseTerminal(s) ==
  /\ s \in up /\ Turn
  /\ \E i \in DOMAIN panes[s] : panes' = [panes EXCEPT ![s] = RemoveAt(@, i)]
  /\ UNCHANGED <<up, born>>

Change(s) == CreateTerminal(s) \/ CloseTerminal(s)

\* /api/session/close, which an offline session answers as well.
Shut(s) ==
  IF s \in up
  THEN /\ Turn /\ up' = up \ {s} /\ panes' = [panes EXCEPT ![s] = <<>>] /\ UNCHANGED born
  ELSE UNCHANGED serverVars

\* /api/session/launch: a new backend counts from 1 again.
Launch(s) ==
  IF s \in up
  THEN UNCHANGED serverVars
  ELSE /\ Turn /\ up' = up \cup {s} /\ born' = [born EXCEPT ![s] = 0] /\ UNCHANGED panes

\* What other clients do.
Elsewhere ==
  /\ \E s \in TuiSessions : Change(s) \/ (s \in up /\ Shut(s)) \/ (s \notin up /\ Launch(s))
  /\ tuiLoop # "over"
  /\ UNCHANGED <<targetVars, viewVars, modeVars, inputVars, liveTerm, tuiLoop>>
-----------------------------------------------------------------------------
(***************************************************************************)
(* The snapshot.                                                           *)
(***************************************************************************)
\* selected_terminal_id
Selected == IF sel \in DOMAIN snap.list THEN snap.list[sel] ELSE 0

LastRow(list) == IF list = <<>> THEN 1 ELSE Len(list)

\* Any row of the list on the screen (select_search_target, the arrow keys).
SelectRow == sel' \in 1..LastRow(snap.list) /\ UNCHANGED <<snap, last>>

\* apply_refresh: the first one selects what the backend has in focus, the
\* others keep the row, inside the list.
ApplyRefresh(s, list, first) ==
  /\ snap' = [of |-> s, list |-> list] /\ last' = "fresh"
  /\ IF first THEN sel' \in 1..LastRow(list)
     ELSE sel' = IF sel > LastRow(list) THEN LastRow(list) ELSE sel

\* refresh, which waits for the backend.
Refresh ==
  IF session \in up' THEN ApplyRefresh(session, panes'[session], last = "never")
  ELSE UNCHANGED viewVars

\* poll_refresh: a worker that has not answered is kept.
PollRefresh ==
  \/ /\ fetch # NoTui /\ fetch.stage = "waiting" /\ UNCHANGED <<viewVars, fetch>>
  \/ /\ fetch # NoTui /\ fetch.stage = "failed"
     /\ last' = "fresh" /\ fetch' = NoTui /\ UNCHANGED <<snap, sel>>
  \/ /\ fetch # NoTui /\ fetch.stage = "done"
     /\ ApplyRefresh(fetch.of, fetch.list, last = "never") /\ fetch' = NoTui

\* refresh_if_due: with no worker out, spawn_refresh if the interval is over.
SpawnIfDue ==
  /\ fetch = NoTui /\ UNCHANGED viewVars
  /\ fetch' = IF last = "fresh" THEN NoTui
              ELSE [of |-> session, stage |-> "waiting", list |-> <<>>]

WorkerReplies ==
  /\ fetch # NoTui /\ fetch.stage = "waiting" /\ tuiLoop # "over"
  /\ fetch' = IF fetch.of \in up THEN [fetch EXCEPT !.stage = "done", !.list = panes[fetch.of]]
              ELSE [fetch EXCEPT !.stage = "failed"]
  /\ UNCHANGED <<serverVars, session, bumped, viewVars, modeVars, inputVars, liveTerm, tuiLoop>>

IntervalElapses ==
  /\ last = "fresh" /\ tuiLoop # "over" /\ last' = "stale"
  /\ UNCHANGED <<serverVars, targetVars, snap, sel, modeVars, inputVars, liveTerm, tuiLoop>>

\* The rest of an iteration, and the next one's look at the generation.  The
\* live terminal is dropped after a retarget, and when its stream has failed
\* (drain_live_terminal).
Tick ==
  /\ tuiLoop = "refresh" /\ tuiLoop' = "keys"
  /\ PollRefresh \/ SpawnIfDue
  /\ bumped' = FALSE /\ liveTerm' \in {NoTui} \cup (IF bumped THEN {} ELSE {liveTerm})
  /\ UNCHANGED <<serverVars, session, modeVars, inputVars>>
-----------------------------------------------------------------------------
(***************************************************************************)
(* Modes and overlays.                                                     *)
(***************************************************************************)
GoTo(m) == tuiMode' = m /\ UNCHANGED <<stack, quitPrev>>

\* open_overlay.  Help stands for the settings too and "worktrees" for the
\* branches: they open over each other, the other overlays not over themselves.
OpenOverlay(o) ==
  \/ tuiMode = o /\ o # "help" /\ UNCHANGED modeVars
  \/ /\ tuiMode # o \/ o \in {"help", "worktrees"}
     /\ Len(stack) < MaxOverlays /\ stack' = Append(stack, tuiMode) /\ tuiMode' = o
     /\ UNCHANGED quitPrev

CloseOverlay ==
  /\ tuiMode' = IF stack = <<>> THEN "navigate" ELSE Last(stack)
  /\ stack' = IF stack = <<>> THEN <<>> ELSE Front(stack)
  /\ UNCHANGED quitPrev

\* A context switch drops what was open.
LeaveOverlays == tuiMode' = "navigate" /\ stack' = <<>> /\ UNCHANGED quitPrev

RequestQuit == quitPrev' = tuiMode /\ tuiMode' = "confirm" /\ UNCHANGED stack

\* Mutant of Retarget: the worker that is out may still deliver.
RetargetInFlight(s) ==
  IF s = session THEN UNCHANGED <<targetVars, viewVars, modeVars>>
  ELSE /\ session' = s /\ bumped' = TRUE /\ UNCHANGED fetch /\ LeaveOverlays
       /\ IF s \in up' THEN ApplyRefresh(s, panes'[s], TRUE)
          ELSE snap' = NoSnapshot /\ sel' = 1 /\ last' = "never"

\* Mutant of Retarget: the loop is not told.
RetargetQuietly(s) ==
  IF s = session THEN UNCHANGED <<targetVars, viewVars, modeVars>>
  ELSE /\ session' = s /\ UNCHANGED bumped /\ fetch' = NoTui /\ LeaveOverlays
       /\ IF s \in up' THEN ApplyRefresh(s, panes'[s], TRUE)
          ELSE snap' = NoSnapshot /\ sel' = 1 /\ last' = "never"

\* retarget_session, whose refresh may fail.
Retarget(s) ==
  IF s = session THEN UNCHANGED <<targetVars, viewVars, modeVars>>
  ELSE /\ session' = s /\ bumped' = TRUE /\ fetch' = NoTui /\ LeaveOverlays
       /\ IF s \in up' THEN ApplyRefresh(s, panes'[s], TRUE)
          ELSE snap' = NoSnapshot /\ sel' = 1 /\ last' = "never"

ReloadRows == listed' = up'
-----------------------------------------------------------------------------
(***************************************************************************)
(* handle_key, by what owns the key.                                       *)
(***************************************************************************)
\* run_shortcut, which the prefix reaches from everywhere.
Shortcut ==
  \/ /\ \E o \in Overlays \ {"sessions"} : OpenOverlay(o)
     /\ UNCHANGED <<serverVars, targetVars, viewVars, inputVars>>
  \/ /\ OpenOverlay("sessions") /\ UNCHANGED serverVars /\ ReloadRows
     /\ UNCHANGED <<targetVars, viewVars, screen, prompt>>
  \/ /\ RequestQuit /\ UNCHANGED <<serverVars, targetVars, viewVars, inputVars>>
  \/ /\ screen' \in {"terminal", "panel"}
     /\ UNCHANGED <<serverVars, targetVars, viewVars, modeVars, prompt, listed>>
  \/ /\ prompt' = "other"
     /\ UNCHANGED <<serverVars, targetVars, viewVars, modeVars, screen, listed>>
  \/ /\ Change(session) \/ UNCHANGED serverVars
     /\ Refresh /\ UNCHANGED <<targetVars, modeVars, inputVars>>
  \/ SelectRow /\ UNCHANGED <<serverVars, targetVars, modeVars, inputVars>>

\* handle_prompt_key: Escape and what fails, or Enter.
PromptKey ==
  /\ prompt' = "none" /\ UNCHANGED <<screen, listed>>
  /\ \/ UNCHANGED <<serverVars, targetVars, viewVars, modeVars>>
     \/ /\ prompt = "other" /\ Change(session) /\ Refresh /\ UNCHANGED <<targetVars, modeVars>>
     \/ /\ prompt = "session" /\ \E s \in TuiSessions : Launch(s) /\ Retarget(s)

\* handle_session_manager_key
SessionsKey ==
  \/ CloseOverlay /\ UNCHANGED <<serverVars, targetVars, viewVars, inputVars>>
  \/ \E s \in listed : UNCHANGED serverVars /\ Retarget(s) /\ UNCHANGED inputVars
  \/ \E s \in TuiSessions : Launch(s) /\ Retarget(s) /\ UNCHANGED inputVars
  \/ /\ UNCHANGED serverVars \/ \E s \in TuiSessions : Shut(s)
     /\ ReloadRows /\ UNCHANGED <<targetVars, viewVars, modeVars, screen, prompt>>
  \/ prompt' = "session" /\ UNCHANGED <<serverVars, targetVars, viewVars, modeVars, screen, listed>>

\* A workspace is opened, or was open, and is selected (branch_picker_reroute).
Opened ==
  /\ session \in up /\ (CreateTerminal(session) \/ UNCHANGED serverVars)
  /\ snap' = [of |-> session, list |-> panes'[session]] /\ last' = "fresh"
  /\ sel' \in 1..LastRow(panes'[session])

\* worktree_open_selected, branch_picker_reroute: what was open is left.
OpenCheckout == Opened /\ LeaveOverlays /\ UNCHANGED <<targetVars, inputVars>>

\* worktree_stage_picked asks for a name.
StageFolder ==
  /\ CloseOverlay /\ prompt' = "other"
  /\ UNCHANGED <<serverVars, targetVars, viewVars, screen, listed>>

\* branch_picker_commit, branch_picker_create
SwitchBranch ==
  CloseOverlay /\ UNCHANGED serverVars /\ Refresh /\ UNCHANGED <<targetVars, inputVars>>

\* handle_worktree_list_key, and the branches' keys
WorktreesKey ==
  \/ CloseOverlay /\ UNCHANGED <<serverVars, targetVars, viewVars, inputVars>>
  \/ OpenCheckout \/ StageFolder \/ SwitchBranch

\* run_search_candidate: a row is selected, shown in the files panel, or opened
\* as a workspace.
SearchCandidate ==
  \/ SelectRow /\ UNCHANGED <<serverVars, screen>>
  \/ screen' = "panel" /\ UNCHANGED <<serverVars, viewVars>>
  \/ Opened /\ UNCHANGED screen

\* handle_search_palette_key: Escape, or Enter on a candidate.
PaletteKey ==
  /\ CloseOverlay /\ UNCHANGED <<targetVars, prompt, listed>>
  /\ SearchCandidate \/ UNCHANGED <<serverVars, viewVars, screen>>

\* y quits, after which the loop is left.
ConfirmKey ==
  /\ GoTo(quitPrev) /\ UNCHANGED <<serverVars, targetVars, viewVars, inputVars>>

\* handle_panel_key
PanelKey ==
  \/ screen' = "terminal" /\ UNCHANGED <<modeVars, prompt>>
  \/ prompt' = "other" /\ UNCHANGED <<modeVars, screen>>
  \/ OpenOverlay("help") /\ UNCHANGED <<screen, prompt>>

\* handle_navigation_key on the terminal screen
NavigationKey ==
  \/ (RequestQuit \/ OpenOverlay("help")) /\ UNCHANGED <<serverVars, viewVars>>
  \/ UNCHANGED serverVars /\ Refresh /\ UNCHANGED modeVars
  \/ SelectRow /\ UNCHANGED <<serverVars, modeVars>>
  \/ Selected # 0 /\ GoTo("attach") /\ UNCHANGED <<serverVars, viewVars>>

InTerminal == tuiMode = "attach" /\ screen = "terminal"

ModeKey ==
  \/ tuiMode = "sessions" /\ SessionsKey
  \/ tuiMode = "worktrees" /\ WorktreesKey
  \/ tuiMode = "palette" /\ PaletteKey
  \/ tuiMode = "confirm" /\ ConfirmKey
  \/ /\ tuiMode = "help" /\ CloseOverlay
     /\ UNCHANGED <<serverVars, targetVars, viewVars, inputVars>>
  \/ /\ tuiMode \in Base /\ screen = "panel" /\ PanelKey
     /\ UNCHANGED <<serverVars, targetVars, viewVars, listed>>
  \/ /\ tuiMode = "navigate" /\ screen = "terminal" /\ NavigationKey
     /\ UNCHANGED <<targetVars, inputVars>>

\* ensure_live_terminal: the terminal that is selected now, compared by its id.
EnsureLive ==
  IF Selected' = 0 \/ (liveTerm # NoTui /\ liveTerm.term = Selected') THEN UNCHANGED liveTerm
  ELSE liveTerm' = [of |-> session', term |-> Selected']

\* dispatch_key: in attach mode every key but the prefix goes to the terminal,
\* whatever prompt is open.
TypeKey ==
  /\ tuiLoop = "keys" /\ tuiLoop' = "refresh" /\ InTerminal
  /\ UNCHANGED <<serverVars, targetVars, viewVars, modeVars, inputVars>>
  /\ EnsureLive

DetachKey ==
  /\ tuiLoop = "keys" /\ tuiLoop' = "refresh" /\ InTerminal /\ liveTerm' = NoTui
  /\ IF prompt = "none" THEN GoTo("navigate") ELSE UNCHANGED modeVars
  /\ UNCHANGED <<serverVars, targetVars, viewVars, inputVars>>

HandleKey ==
  /\ tuiLoop = "keys" /\ tuiLoop' = "refresh"
  /\ \/ Shortcut
     \/ ~InTerminal /\ prompt # "none" /\ PromptKey
     \/ ~InTerminal /\ prompt = "none" /\ ModeKey
  /\ IF InTerminal' THEN EnsureLive ELSE UNCHANGED liveTerm

NoKey ==
  /\ tuiLoop = "keys" /\ tuiLoop' = "refresh"
  /\ UNCHANGED <<serverVars, targetVars, viewVars, modeVars, inputVars, liveTerm>>

Quit ==
  /\ tuiLoop = "keys" /\ tuiMode = "confirm" /\ prompt = "none" /\ tuiLoop' = "over"
  /\ UNCHANGED <<serverVars, targetVars, viewVars, modeVars, inputVars, liveTerm>>

Keys == TypeKey \/ DetachKey \/ HandleKey \/ NoKey \/ Quit

TuiNext == Elsewhere \/ WorkerReplies \/ IntervalElapses \/ Keys \/ Tick

TuiSpec == TuiInit /\ [][TuiNext]_tuiVars
-----------------------------------------------------------------------------
\* The snapshot is of the session the client points at, although a worker of
\* an earlier target may answer at any time (retarget_session, poll_refresh).
SnapshotOfTarget == snap.of \in {session, NoTui}

\* In attach mode no key reaches a terminal of another session, although the
\* live terminal is told apart by an id that other sessions use too
\* (run_interactive, ensure_live_terminal).
TypedIntoTarget == InTerminal /\ liveTerm # NoTui => liveTerm.of = session
=============================================================================
