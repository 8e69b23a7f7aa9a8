---------------------------- MODULE PageTerminal ----------------------------
(***************************************************************************)
(* How the desktop page keeps a terminal socket for the pane it shows      *)
(* (src/src/assets/desktop/app_js/terminal.js and core.js): navigation,    *)
(* the refreshes that find the pane's terminal, the renderer that is made  *)
(* on first use, the attach and its failures, the retry, the watchdog, and *)
(* what waits to be painted or sent when the socket changes.               *)
(*                                                                         *)
(* A pane's terminal has the pane's name.  Grids, and whose resize is sent *)
(* when a socket opens, are left out; so is a refresh that fails, which    *)
(* hands the page to the session manager.                                  *)
(***************************************************************************)
EXTENDS Integers, Sequences, FiniteSets, SequencesExt

CONSTANTS
  Panes, NoPane,
  FirstPane,  \* the pane of the route that the page was opened with
  PageTurns,  \* bound on what the user does and on panes that close
  PageFaults, \* bound on what goes wrong with the sockets of a living terminal
  Creations   \* bound on the renderers in the making

ASSUME PageAssumption ==
  /\ FirstPane \in Panes /\ NoPane \notin Panes /\ {PageTurns, PageFaults} \subseteq Nat /\ Creations \in Nat \ {0}

VARIABLES
  page, \* alive: the panes of the backend, closed: those whose event has not
        \* come; list, pane, term: state.panes, state.pane and
        \* state.terminalId; asked: a refresh is due or under way, layout: one
        \* waits for the pane's layout; hidden, hiding: hiddenTimer; turns, faults
  panel \* made: is there a renderer? creating: the connectTerminal calls that
        \* wait for one, by target; conn: connectedTerminalId; ws: termWs;
        \* orphans: sockets that termWs has forgotten without closing;
        \* failed, attempt, timer: terminalReconnectTarget, -AttemptWs and the
        \* backoff with its timer; dog: the watchdog is armed; queue: the frames
        \* that wait for raf, by key and terminal; pending: terminalAttachPending;
        \* reveal: the large frame's callback; screen: the terminals whose
        \* output is on it; input: the terminal whose input waits; overlay

panelVars == <<page, panel>>

NoKey    == <<NoPane, NoPane>>
Keys     == (Panes \cup {NoPane}) \X (Panes \cup {NoPane})
Sockets  == [key : Keys, term : Panes \cup {NoPane},
             ready : {"connecting", "open", "closing"}, silent : BOOLEAN]
NoSocket == [key |-> NoKey, term |-> NoPane, ready |-> "closed", silent |-> FALSE]

Page ==
  [alive : SUBSET Panes, closed : SUBSET Panes, list : SUBSET Panes,
   pane : Panes \cup {NoPane}, term : Panes \cup {NoPane},
   asked : BOOLEAN, layout : BOOLEAN, hidden : BOOLEAN, hiding : BOOLEAN,
   turns : 0..PageTurns, faults : 0..PageFaults]

Panel ==
  [made : BOOLEAN, creating : Seq(Keys \ {NoKey}), conn : Keys,
   ws : Sockets \cup {NoSocket}, orphans : SUBSET Sockets,
   failed : Keys, attempt : BOOLEAN, timer : {"no", "window", "due"},
   dog : BOOLEAN, queue : SUBSET (Keys \X Panes), raf : BOOLEAN, pending : BOOLEAN,
   reveal : BOOLEAN, screen : SUBSET Panes, input : Panes \cup {NoPane},
   overlay : {"hidden", "connecting", "failed"}]

\* What the page and its panel can hold.
PanelTypeOK == page \in Page /\ panel \in Panel /\ Len(panel.creating) <= Creations

\* A page that has loaded and asks for its first snapshot.
PanelInit ==
  /\ \E h \in BOOLEAN :
       page = [alive |-> Panes, closed |-> {}, list |-> {}, pane |-> FirstPane, term |-> NoPane,
               asked |-> TRUE, layout |-> FALSE, hidden |-> h, hiding |-> FALSE,
               turns |-> 0, faults |-> 0]
  /\ panel = [made |-> FALSE, creating |-> <<>>, conn |-> NoKey, ws |-> NoSocket,
              orphans |-> {}, failed |-> NoKey, attempt |-> FALSE, timer |-> "no",
              dog |-> FALSE, queue |-> {}, raf |-> FALSE, pending |-> FALSE, reveal |-> FALSE,
              screen |-> {}, input |-> NoPane, overlay |-> "hidden"]
-----------------------------------------------------------------------------
(***************************************************************************)
(* What connectTerminal and its helpers make of the panel q.               *)
(***************************************************************************)
\* setTerminalLoading(true): the card of a failed attach stays.
Loading(q) == [q EXCEPT !.overlay = IF @ = "failed" THEN @ ELSE "connecting"]
Revealed(q) == [q EXCEPT !.overlay = "hidden"]

\* takeTerminalFrames and the write: what waits for this key is painted.  A
\* large first frame keeps the overlay until it has been written.
Painted(q, key) ==
  LET mine == {f \in q.queue : f[1] = key} IN
  IF q.made
  THEN [q EXCEPT !.queue = @ \ mine, !.screen = @ \cup {f[2] : f \in mine}]
  ELSE q
FlushFrames(q) ==
  LET p == [Painted(q, q.conn) EXCEPT !.raf = FALSE] IN
  IF p.queue # q.queue /\ q.pending THEN [p EXCEPT !.pending = FALSE, !.reveal = TRUE] ELSE p

\* resetTerminalConnection(true, destroy)
ResetKeepingQueues(q, destroy) ==
  [FlushFrames(q) EXCEPT !.dog = FALSE, !.raf = FALSE, !.pending = FALSE, !.screen = {},
                         !.ws = NoSocket, !.attempt = FALSE, !.conn = NoKey,
                         !.made = @ /\ ~destroy]
Reset(q, destroy) == [ResetKeepingQueues(q, destroy) EXCEPT !.queue = {}, !.input = NoPane]

\* terminalAttemptInFlight, terminalAttachInBackoff
InFlight(q) == q.attempt /\ q.ws.ready \in {"connecting", "open"}
InBackoff(q, key) == (q.timer = "window" \/ InFlight(q)) /\ q.failed = key

\* The end of connectTerminal: a socket, also if another call has just opened
\* one.  Its terminal is the one the page has selected by now.
OpenSocketUnwatched(q, key, term) ==
  [q EXCEPT !.orphans = IF q.ws = NoSocket THEN @ ELSE @ \cup {[q.ws EXCEPT !.ready = "open"]},
            !.ws = [key |-> key, term |-> term, ready |-> "connecting", silent |-> FALSE],
            !.attempt = q.failed = key]
OpenSocket(q, key, term) == [OpenSocketUnwatched(q, key, term) EXCEPT !.dog = TRUE]

\* noteTerminalAttachFailure with scheduleTerminalReconnect
AttachFailed(q, key) == [q EXCEPT !.failed = key, !.attempt = FALSE, !.timer = "window"]

\* connectTerminal, on a page g whose grid has changed or not.
Connect(q, g, changed) ==
  LET target == <<g.pane, g.term>> IN
  IF g.hidden THEN q
  ELSE IF g.term = NoPane THEN Revealed(Reset(q, FALSE))
  ELSE IF \/ q.conn = target /\ q.ws.ready = "open"
          \/ q.conn = target /\ q.ws.ready = "connecting" /\ changed
          \/ InBackoff(q, target)
  THEN Revealed(q)
  ELSE LET p == [Loading(Reset(q, FALSE)) EXCEPT !.conn = target] IN
       IF p.made THEN OpenSocket(p, target, g.term)
                 ELSE [p EXCEPT !.creating = Append(@, target)]

PanelIs(q) == Len(q.creating) <= Creations /\ panel' = q
Turns == page.turns < PageTurns
Fault == page.faults < PageFaults
Faulty == [page EXCEPT !.faults = @ + 1]
-----------------------------------------------------------------------------
(***************************************************************************)
(* The user, the backend's panes, and the refreshes.                       *)
(***************************************************************************)
\* The route changes at once, state.terminalId does not.
Route(p) ==
  /\ Turns
  /\ page' = [page EXCEPT !.turns = @ + 1, !.pane = p, !.asked = TRUE, !.layout = FALSE]

\* go, goSession
Go(p) == Route(p) /\ PanelIs(Loading(Reset(panel, FALSE)))

\* handleSessionPopState, which leaves the connection to the refresh.
GoBack(p) == Route(p) /\ UNCHANGED panel

\* applyScheduledTerminalResize and applyLayoutUpdated, for another grid.
ResizePage ==
  /\ Turns /\ page.term # NoPane /\ ~page.hidden
  /\ page' = [page EXCEPT !.turns = @ + 1]
  /\ PanelIs(Connect(panel, page, TRUE))

\* The card's "Reconnect now".
ReconnectNow ==
  /\ panel.overlay = "failed" /\ Turns
  /\ page' = [page EXCEPT !.turns = @ + 1]
  /\ PanelIs(Connect(Loading(panel), page, FALSE))

\* sendInputData and sendPasteToTerminal, more than the socket takes at once.
TypeMuch ==
  /\ panel.ws.ready = "open" /\ panel.input = NoPane
  /\ panel' = [panel EXCEPT !.input = panel.ws.term] /\ UNCHANGED page

\* flushInputQueue and flushPasteChunks: sent, or given up without a socket.
FlushInput ==
  /\ panel.input # NoPane
  /\ panel' = [panel EXCEPT !.input = NoPane] /\ UNCHANGED page

HidePage ==
  /\ Turns /\ ~page.hidden
  /\ page' = [page EXCEPT !.turns = @ + 1, !.hidden = TRUE, !.hiding = TRUE]
  /\ UNCHANGED panel

\* hiddenTimer, whose close is one of the socket's own.
HiddenLong ==
  /\ page.hiding
  /\ page' = [page EXCEPT !.hiding = FALSE]
  /\ panel' = IF panel.ws = NoSocket THEN panel ELSE [panel EXCEPT !.ws.ready = "closing"]

ShowPage ==
  /\ page.hidden
  /\ page' = [page EXCEPT !.hidden = FALSE, !.hiding = FALSE, !.asked = TRUE, !.layout = FALSE]
  /\ UNCHANGED panel

PaneCloses(p) ==
  /\ Turns /\ p \in page.alive
  /\ page' = [page EXCEPT !.turns = @ + 1, !.alive = @ \ {p}, !.closed = @ \cup {p}]
  /\ UNCHANGED panel

\* forgetClosedSelection and selectFallbackPaneAfterClosed; a refresh follows.
HearClosed(p) ==
  /\ p \in page.closed
  /\ LET told == [page EXCEPT !.closed = @ \ {p}, !.list = @ \ {p}, !.asked = TRUE] IN
     IF p # page.pane
     THEN page' = told /\ UNCHANGED panel
     ELSE \E next \in IF told.list = {} THEN {NoPane} ELSE told.list :
            /\ page' = [told EXCEPT !.pane = next, !.term = next]
            /\ PanelIs(Connect(Reset(panel, TRUE), page', FALSE))

\* The end of finishRefreshOnline.
Shown(q, g, changed) == IF g.pane = NoPane THEN Revealed(q) ELSE Connect(q, g, changed)

\* refreshOnline up to pane-layout, which is asked for unless it is cached.
\* The selection is repaired, and with it the connection starts over.
SnapshotLands ==
  /\ page.asked
  /\ \E p \in IF page.pane \in page.alive THEN {page.pane}
              ELSE IF page.alive = {} THEN {NoPane} ELSE page.alive,
        cached, changed \in BOOLEAN :
       LET g == [page EXCEPT !.asked = FALSE, !.list = page.alive, !.pane = p, !.term = p,
                             !.layout = ~cached /\ p # NoPane]
           q == IF p = page.pane THEN panel ELSE Reset(panel, TRUE)
       IN page' = g /\ PanelIs(IF g.layout THEN q ELSE Shown(q, g, changed))

LayoutLands ==
  /\ page.layout
  /\ page' = [page EXCEPT !.layout = FALSE]
  /\ \E changed \in BOOLEAN : PanelIs(Shown(panel, page, changed))
-----------------------------------------------------------------------------
(***************************************************************************)
(* The renderer, the sockets and the timers.                               *)
(***************************************************************************)
\* connectTerminal after its await.
RendererMade(i) ==
  /\ LET key == panel.creating[i]
         q == [panel EXCEPT !.made = TRUE, !.creating = RemoveAt(@, i)]
     IN PanelIs(IF q.conn = key THEN OpenSocket(q, key, page.term) ELSE q)
  /\ UNCHANGED page

SocketOpens ==
  /\ panel.ws.ready = "connecting" /\ ~panel.ws.silent
  /\ panel' = [panel EXCEPT !.ws.ready = "open", !.pending = TRUE] /\ UNCHANGED page

\* The guard of onmessage.
HeardFromAny(w) == TRUE
Heard(w) == w = panel.ws /\ panel.conn = w.key

\* noteTerminalAttachSuccess, and the end of the watchdog.
AttachWorks(q) ==
  [q EXCEPT !.failed = NoKey, !.attempt = FALSE, !.timer = "no", !.dog = FALSE]

\* onmessage and enqueueTerminalFrame: a frame is written at once or waits.
FrameArrives(w, large) ==
  /\ w.ready = "open" /\ ~w.silent /\ w.term \in page.alive /\ Heard(w) /\ panel.made
  /\ LET q == AttachWorks(panel)
         seen == IF large /\ q.pending THEN q ELSE Revealed([q EXCEPT !.pending = FALSE])
     IN panel' = IF large \/ q.raf \/ q.queue # {}
                 THEN [seen EXCEPT !.queue = @ \cup {<<q.conn, w.term>>}, !.raf = TRUE]
                 ELSE [seen EXCEPT !.screen = @ \cup {w.term}]
  /\ UNCHANGED page

\* requestAnimationFrame, which a hidden page does not get.
Raf ==
  /\ panel.raf /\ ~page.hidden
  /\ panel' = FlushFrames(panel) /\ UNCHANGED page

Reveal ==
  /\ panel.reveal /\ ~page.hidden
  /\ panel' = [Revealed(panel) EXCEPT !.reveal = FALSE] /\ UNCHANGED page

\* A herdr_error frame: onmessage closes the socket.
ErrorFrame ==
  /\ panel.ws.ready = "open" /\ ~panel.ws.silent
  /\ panel.ws.term \in page.alive => Fault
  /\ page' = IF panel.ws.term \in page.alive THEN Faulty ELSE page
  /\ panel' = [panel EXCEPT !.ws.ready = "closing"]

SocketDue == panel.ws.ready = "closing" \/ panel.ws.term \notin page.alive

\* onclose, at the end of a close or because the server or the network ends it.
TermSocketCloses ==
  /\ panel.ws # NoSocket
  /\ SocketDue \/ Fault
  /\ page' = [page EXCEPT !.asked = TRUE, !.faults = IF SocketDue THEN @ ELSE @ + 1]
  /\ LET key == panel.ws.key
         q == [Painted(panel, key) EXCEPT !.dog = FALSE, !.ws = NoSocket, !.conn = NoKey,
                                          !.overlay = IF panel.failed = key THEN "failed"
                                                      ELSE "hidden"]
     IN panel' = AttachFailed(q, key)

\* The server neither answers nor closes.
GoesSilent ==
  /\ panel.ws.ready \in {"connecting", "open"} /\ ~panel.ws.silent /\ Fault
  /\ panel' = [panel EXCEPT !.ws.silent = TRUE] /\ page' = Faulty

\* armTerminalAttachWatchdog: its time is longer than the server takes.
WatchdogFires ==
  /\ panel.dog /\ panel.ws.silent
  /\ panel' = AttachFailed([panel EXCEPT !.dog = FALSE, !.ws = NoSocket, !.conn = NoKey,
                                         !.overlay = "failed"], panel.ws.key)
  /\ UNCHANGED page

BackoffEnds ==
  /\ panel.timer = "window"
  /\ panel' = [panel EXCEPT !.timer = "due"] /\ UNCHANGED page

RetryTimer ==
  /\ panel.timer = "due"
  /\ LET q == [panel EXCEPT !.timer = "no"] IN
     PanelIs(IF q.failed # NoKey /\ ~InFlight(q) THEN Connect(q, page, FALSE) ELSE q)
  /\ UNCHANGED page
-----------------------------------------------------------------------------
UserStep ==
  \/ \E p \in Panes : Go(p) \/ GoBack(p) \/ PaneCloses(p)
  \/ ResizePage \/ ReconnectNow \/ TypeMuch \/ HidePage \/ HiddenLong \/ ShowPage

RefreshStep == SnapshotLands \/ LayoutLands
TimerStep   == WatchdogFires \/ BackoffEnds \/ RetryTimer \/ FlushInput
PaintStep   == Raf \/ Reveal
Hears       == \E w \in panel.orphans \cup {panel.ws}, large \in BOOLEAN : FrameArrives(w, large)
Making      == \E i \in DOMAIN panel.creating : RendererMade(i)

PanelNext ==
  \/ UserStep \/ RefreshStep \/ TimerStep \/ PaintStep \/ Hears \/ Making
  \/ \E p \in Panes : HearClosed(p)
  \/ SocketOpens \/ ErrorFrame \/ TermSocketCloses \/ GoesSilent

\* What has been asked for is answered, timers expire, and a socket that is
\* closed, or whose terminal is gone, ends.
PanelFairness ==
  /\ WF_panelVars(SnapshotLands) /\ WF_panelVars(LayoutLands) /\ WF_panelVars(Making)
  /\ WF_panelVars(SocketOpens) /\ WF_panelVars(Hears)
  /\ WF_panelVars(SocketDue /\ TermSocketCloses)
  /\ WF_panelVars(WatchdogFires) /\ WF_panelVars(BackoffEnds) /\ WF_panelVars(RetryTimer)
  /\ WF_panelVars(Raf) /\ WF_panelVars(Reveal)

PanelSpec == PanelInit /\ [][PanelNext]_panelVars /\ PanelFairness
-----------------------------------------------------------------------------
\* What has been painted since the screen was cleared, and what waits to be
\* sent, is of the terminal whose socket the page has, or of a socket that
\* this one replaced for the same target, however often the page was pointed
\* elsewhere while renderers were made or a socket died
\* (resetTerminalConnection, the guards of onmessage).
PanelIsOne ==
  panel.ws # NoSocket =>
    \A t \in panel.screen \cup ({panel.input} \ {NoPane}) :
      t = panel.ws.term \/ \E o \in panel.orphans : o.key = panel.ws.key /\ o.term = t

\* A socket whose target is the terminal it was opened for.  It is not if a
\* resize comes between a navigation and its snapshot (the new pane with the
\* terminal before), or a snapshot after GoBack while a renderer is made for
\* (the target before with the new terminal).
OnePane == panel.ws.key = <<panel.ws.term, panel.ws.term>>

Attached ==
  /\ panel.ws.ready = "open" /\ panel.ws.term = page.pane /\ page.term = page.pane
  /\ panel.overlay = "hidden"

\* The socket of an earlier target.  GoBack leaves it open, and if the attach
\* of the pane that is returned to is still backing off, a frame of this socket
\* ends that backoff and cancels its retry (noteTerminalAttachSuccess).
LeftBehind == panel.ws.ready = "open" /\ panel.ws.key # <<page.pane, page.term>>

\* The panel does not stay lost: unless the page stays hidden or has no
\* terminal, it ends up attached to the one of its pane, with nothing over it,
\* or holds a mixed socket or one that was left behind (the backoff's timer,
\* the watchdog, the refresh behind every close).
PanelRecovers ==
  <>[](\/ page.hidden \/ Attached \/ ~OnePane \/ LeftBehind
       \/ page.pane = NoPane /\ panel.overlay # "connecting")
=============================================================================
