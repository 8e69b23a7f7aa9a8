---------------------------- MODULE EventFanout ----------------------------
(***************************************************************************)
(* How a change of the backend reaches the browsers that show it:          *)
(* BuiltinEventHub (src/src/builtin_events.rs), the events.subscribe loop  *)
(* of handle_api_connection, the events WebSocket of the web server        *)
(* (events_socket in src/src/main.rs) and the two front ends that refetch  *)
(* the session snapshot when a frame arrives.                              *)
(*                                                                         *)
(* What a browser shows is abstracted to the version of the registry it    *)
(* was read at; an event carries nothing but the hint to read again.       *)
(***************************************************************************)
EXTENDS Integers, Sequences, FiniteSets, SequencesExt

CONSTANTS
  Browsers,  \* pages
  Subscribed, \* capacity of a subscriber's channel (256 in the code)
  Commits,   \* bound on the changes of the backend
  Troubles,  \* bound on outages, closed sockets and hidden pages
  Refreshes  \* bound on the refreshes a page has in flight

ASSUME FanoutAssumption ==
  /\ Subscribed \in Nat \ {0} /\ Refreshes \in Nat \ {0}
  /\ Commits \in Nat /\ Troubles \in Nat

VARIABLES
  up,          \* does the backend answer?
  version,     \* of the registry; a restart is one more
  unpublished, \* changes made, whose event has not been published yet
  trouble,     \* how much of Troubles has happened
  kind,        \* which front end a page runs
  hidden,      \* document.hidden
  relay,       \* the subscription thread behind the page's events socket
  queue,       \* events in its subscriber channel
  listed,      \* is its sender still in the hub's list?
  frames,      \* the kinds of frame on their way to the page
  timer,       \* refreshTimer / eventRefreshTimer is set
  bootstrap,   \* snapshotBootstrap
  fetches,     \* refreshes in flight
  shown        \* the version on the screen, or Nothing

fanBackend == <<up, version, unpublished, trouble>>
fanRelays  == <<relay, queue, listed, frames>>
fanPages   == <<kind, hidden, timer, bootstrap, fetches, shown>>
fanVars    == <<fanBackend, fanRelays, fanPages>>
-----------------------------------------------------------------------------
Nothing == -1
Unread  == -1

FrameKinds == {"ready", "event", "error"}

\* A refresh asks for the snapshot in one request, or makes the older series of
\* calls; it is current until the page starts another (refreshSeq).
Fetches == [step : {"snapshot", "legacy"}, read : {Unread} \cup Nat, current : BOOLEAN]

FanTypeOK ==
  /\ up \in BOOLEAN /\ version \in Nat /\ unpublished \in 0 .. Commits /\ trouble \in 0 .. Troubles
  /\ kind \in [Browsers -> {"desktop", "mobile"}]
  /\ hidden \in [Browsers -> BOOLEAN] /\ timer \in [Browsers -> BOOLEAN]
  /\ bootstrap \in [Browsers -> BOOLEAN] /\ listed \in [Browsers -> BOOLEAN]
  /\ relay \in [Browsers -> {"none", "subscribing", "streaming", "waiting"}]
  /\ queue \in [Browsers -> 0 .. Subscribed]
  /\ frames \in [Browsers -> SUBSET FrameKinds]
  /\ \A b \in Browsers : fetches[b] \in Seq(Fetches) /\ Len(fetches[b]) <= Refreshes
  /\ shown \in [Browsers -> {Nothing} \cup Nat]

FanInit ==
  /\ up = TRUE /\ version = 0 /\ unpublished = 0 /\ trouble = 0
  /\ kind \in [Browsers -> {"desktop", "mobile"}]
  /\ hidden = [b \in Browsers |-> TRUE] /\ timer = [b \in Browsers |-> FALSE]
  /\ bootstrap = [b \in Browsers |-> TRUE] /\ listed = [b \in Browsers |-> FALSE]
  /\ relay = [b \in Browsers |-> "none"] /\ queue = [b \in Browsers |-> 0]
  /\ frames = [b \in Browsers |-> {}]
  /\ fetches = [b \in Browsers |-> <<>>]
  /\ shown = [b \in Browsers |-> Nothing]
-----------------------------------------------------------------------------
\* A request changes the registry and publishes once it has let go of the lock.
CommitChange ==
  /\ up /\ version < Commits
  /\ version' = version + 1 /\ unpublished' = unpublished + 1
  /\ UNCHANGED <<up, trouble, fanRelays, fanPages>>

\* Mutant: a channel without a bound.
PublishUnbounded ==
  /\ up /\ unpublished > 0
  /\ unpublished' = unpublished - 1
  /\ queue' = [b \in Browsers |-> IF listed[b] THEN queue[b] + 1 ELSE queue[b]]
  /\ UNCHANGED <<up, version, trouble, relay, listed, frames, fanPages>>

\* BuiltinEventHub::publish: try_send to each subscriber; one that is full is
\* struck from the list.
Publish ==
  /\ up /\ unpublished > 0
  /\ unpublished' = unpublished - 1
  /\ queue' = [b \in Browsers |-> IF listed[b] /\ queue[b] < Subscribed THEN queue[b] + 1 ELSE queue[b]]
  /\ listed' = [b \in Browsers |-> listed[b] /\ queue[b] < Subscribed]
  /\ UNCHANGED <<up, version, trouble, relay, frames, fanPages>>

\* The backend stops or crashes: subscriptions and unpublished events go with
\* it, and what it comes back with is another state.
BackendDies ==
  /\ up /\ trouble < Troubles
  /\ up' = FALSE /\ unpublished' = 0 /\ trouble' = trouble + 1 /\ version' = version + 1
  /\ listed' = [b \in Browsers |-> FALSE] /\ queue' = [b \in Browsers |-> 0]
  /\ UNCHANGED <<relay, frames, fanPages>>

BackendReturns ==
  /\ ~up /\ up' = TRUE
  /\ UNCHANGED <<version, unpublished, trouble, fanRelays, fanPages>>
-----------------------------------------------------------------------------
\* tx.send of the subscription thread.
Send(b, f) == frames' = [frames EXCEPT ![b] = @ \cup {f}]

\* The thread of events_socket: subscribe, or tell the page why not and wait.
Subscribe(b) ==
  /\ relay[b] = "subscribing"
  /\ IF up
       THEN /\ relay' = [relay EXCEPT ![b] = "streaming"]
            /\ listed' = [listed EXCEPT ![b] = TRUE] /\ queue' = [queue EXCEPT ![b] = 0]
            /\ Send(b, "ready")
       ELSE relay' = [relay EXCEPT ![b] = "waiting"] /\ Send(b, "error") /\ UNCHANGED <<listed, queue>>
  /\ UNCHANGED <<fanBackend, fanPages>>

\* handle_api_connection writes the next event and the thread passes it on.
Forward(b) ==
  /\ relay[b] = "streaming" /\ queue[b] > 0
  /\ queue' = [queue EXCEPT ![b] = @ - 1] /\ Send(b, "event")
  /\ UNCHANGED <<fanBackend, relay, listed, fanPages>>

\* The stream ends when nothing is queued and the hub has dropped the sender.
StreamEnds(b) ==
  /\ relay[b] = "streaming" /\ queue[b] = 0 /\ ~listed[b]
  /\ relay' = [relay EXCEPT ![b] = "waiting"]
  /\ UNCHANGED <<fanBackend, queue, listed, frames, fanPages>>

\* The sleep of backoff_secs.
BackoffOver(b) ==
  /\ relay[b] = "waiting"
  /\ relay' = [relay EXCEPT ![b] = "subscribing"]
  /\ UNCHANGED <<fanBackend, queue, listed, frames, fanPages>>

\* The events WebSocket and what hangs on it.
Unplug(b) ==
  /\ relay' = [relay EXCEPT ![b] = "none"] /\ listed' = [listed EXCEPT ![b] = FALSE]
  /\ queue' = [queue EXCEPT ![b] = 0] /\ frames' = [frames EXCEPT ![b] = {}]

\* The network fails, or the socket task breaks out of its loop because it fell
\* behind one of the broadcasts it also forwards.
SocketCloses(b) ==
  /\ relay[b] # "none" /\ trouble < Troubles
  /\ trouble' = trouble + 1 /\ Unplug(b)
  /\ UNCHANGED <<up, version, unpublished, fanPages>>

\* onclose asks for connectEvents 1.5 s later.
ConnectEvents(b) ==
  /\ relay[b] = "none" /\ ~hidden[b]
  /\ relay' = [relay EXCEPT ![b] = "subscribing"]
  /\ UNCHANGED <<fanBackend, queue, listed, frames, fanPages>>
-----------------------------------------------------------------------------
\* Mutant: a "ready" frame is not worth a refresh on the mobile page either.
OnEventsOnly(b, f) ==
  /\ frames' = [frames EXCEPT ![b] = @ \ {f}]
  /\ timer' = [timer EXCEPT ![b] = @ \/ f = "event"]
  /\ UNCHANGED <<fanBackend, relay, queue, listed, kind, hidden, bootstrap, fetches, shown>>

\* onmessage: the mobile page schedules a refresh for every frame, the desktop
\* page for events only.
OnFrame(b, f) ==
  /\ frames' = [frames EXCEPT ![b] = @ \ {f}]
  /\ timer' = [timer EXCEPT ![b] = @ \/ kind[b] = "mobile" \/ f = "event"]
  /\ UNCHANGED <<fanBackend, relay, queue, listed, kind, hidden, bootstrap, fetches, shown>>

\* refresh() up to its first await.
StartRefresh(b) ==
  /\ Len(fetches[b]) < Refreshes
  /\ fetches' = [fetches EXCEPT ![b] =
       Append([i \in 1 .. Len(@) |-> [@[i] EXCEPT !.current = FALSE]],
              [step |-> IF bootstrap[b] THEN "snapshot" ELSE "legacy", read |-> Unread, current |-> TRUE])]

TimerFires(b) ==
  /\ timer[b] /\ StartRefresh(b)
  /\ timer' = [timer EXCEPT ![b] = FALSE]
  /\ UNCHANGED <<fanBackend, fanRelays, kind, hidden, bootstrap, shown>>

\* The server reads the backend for a refresh: the answer is on its way.
ServerReads(b, i) ==
  /\ up /\ fetches[b][i].read = Unread
  /\ fetches' = [fetches EXCEPT ![b][i].read = version]
  /\ UNCHANGED <<fanBackend, fanRelays, kind, hidden, timer, bootstrap, shown>>

\* Mutant: refresh forgets to compare its number with refreshSeq.
ApplyLate(b, i) ==
  /\ fetches[b][i].read # Unread
  /\ shown' = [shown EXCEPT ![b] = fetches[b][i].read]
  /\ fetches' = [fetches EXCEPT ![b] = RemoveAt(@, i)]
  /\ UNCHANGED <<fanBackend, fanRelays, kind, hidden, timer, bootstrap>>

\* The answer arrives: a refresh that is no longer current drops it.
Apply(b, i) ==
  /\ fetches[b][i].read # Unread
  /\ shown' = [shown EXCEPT ![b] = IF fetches[b][i].current THEN fetches[b][i].read ELSE @]
  /\ fetches' = [fetches EXCEPT ![b] = RemoveAt(@, i)]
  /\ UNCHANGED <<fanBackend, fanRelays, kind, hidden, timer, bootstrap>>

\* The snapshot request fails: the page stops asking for snapshots, and the
\* refresh goes on with the older calls if it is still current.
SnapshotFails(b, i) ==
  /\ ~up /\ fetches[b][i].read = Unread /\ fetches[b][i].step = "snapshot"
  /\ bootstrap' = [bootstrap EXCEPT ![b] = FALSE]
  /\ fetches' = [fetches EXCEPT ![b] =
       IF @[i].current THEN [@ EXCEPT ![i].step = "legacy"] ELSE RemoveAt(@, i)]
  /\ UNCHANGED <<fanBackend, fanRelays, kind, hidden, timer, shown>>

\* The catch of refresh, current or not: the desktop page empties its lists and
\* says that the session is offline, the mobile page shows a message.
RefreshFails(b, i) ==
  /\ ~up /\ fetches[b][i].read = Unread /\ fetches[b][i].step = "legacy"
  /\ shown' = [shown EXCEPT ![b] = IF kind[b] = "desktop" THEN Nothing ELSE @]
  /\ fetches' = [fetches EXCEPT ![b] = RemoveAt(@, i)]
  /\ UNCHANGED <<fanBackend, fanRelays, kind, hidden, timer, bootstrap>>

\* The page is loaded or comes back to the front: refresh(), then
\* connectEvents() (which ConnectEvents models).
Show(b) ==
  /\ hidden[b] /\ StartRefresh(b)
  /\ hidden' = [hidden EXCEPT ![b] = FALSE]
  /\ UNCHANGED <<fanBackend, fanRelays, kind, timer, bootstrap, shown>>

\* A second after it is hidden the page closes its sockets; the mobile page's
\* timer does nothing then.
Hide(b) ==
  /\ ~hidden[b] /\ trouble < Troubles
  /\ hidden' = [hidden EXCEPT ![b] = TRUE] /\ trouble' = trouble + 1
  /\ timer' = [timer EXCEPT ![b] = @ /\ kind[b] = "desktop"]
  /\ Unplug(b)
  /\ UNCHANGED <<up, version, unpublished, kind, bootstrap, fetches, shown>>
-----------------------------------------------------------------------------
FetchSteps(b) == \E i \in DOMAIN fetches[b] :
  ServerReads(b, i) \/ Apply(b, i) \/ SnapshotFails(b, i) \/ RefreshFails(b, i)

RelaySteps(b) == Subscribe(b) \/ Forward(b) \/ StreamEnds(b) \/ BackoffOver(b)

PageSteps(b) == ConnectEvents(b) \/ (\E f \in frames[b] : OnFrame(b, f)) \/ TimerFires(b)

FanNext ==
  \/ CommitChange \/ Publish \/ BackendDies \/ BackendReturns
  \/ \E b \in Browsers :
       FetchSteps(b) \/ RelaySteps(b) \/ PageSteps(b) \/ Show(b) \/ SocketCloses(b) \/ Hide(b)

\* Threads run, timers fire, requests are answered or fail, and a backend that
\* is up publishes what it has changed.  Nothing makes a backend return or a
\* page come back to the front.
FanFairness ==
  /\ WF_fanVars(Publish)
  /\ \A b \in Browsers : /\ WF_fanVars(RelaySteps(b)) /\ WF_fanVars(ConnectEvents(b))
                         /\ WF_fanVars(TimerFires(b))
                         /\ \A f \in FrameKinds : WF_fanVars(f \in frames[b] /\ OnFrame(b, f))
                         /\ WF_fanVars(FetchSteps(b))

FanSpec == FanInit /\ [][FanNext]_fanVars /\ FanFairness
-----------------------------------------------------------------------------
Converges(b) == <>[](up /\ ~hidden[b]) => <>[](shown[b] = version)

(***************************************************************************)
(* A mobile page that stays in front of a backend that stays up comes to   *)
(* show its last state, whatever was lost on the way: a subscriber that    *)
(* overflowed, an outage, a socket that closed, a page that was hidden     *)
(* (publish, events_socket's resubscription, scheduleEventRefresh).        *)
(***************************************************************************)
MobileConverges == \A b \in Browsers : [](kind[b] = "mobile") => Converges(b)

(***************************************************************************)
(* A page never goes back to an older state than it has shown since it was *)
(* last emptied, though answers overtake each other (refreshSeq).          *)
(***************************************************************************)
ShownNeverGoesBack == [][\A b \in Browsers : shown'[b] # Nothing => shown[b] <= shown'[b]]_fanVars
=============================================================================
