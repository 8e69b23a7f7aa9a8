---------------------------- MODULE TerminalHub ----------------------------
(***************************************************************************)
(* The shared attach hub (src/src/terminal_hub.rs) and the terminal_socket *)
(* relays that use it (src/src/main.rs): one backend attach for a terminal *)
(* is fanned out to every browser that watches it.  The module follows one *)
(* entry of the hub's map, for one (client socket, terminal id); entries   *)
(* share nothing but the map's lock.                                       *)
(*                                                                         *)
(* A frame is the number of its arrival on its attach.  A viewer is one    *)
(* browser WebSocket with its relay task; a browser that reconnects is a   *)
(* new viewer.                                                             *)
(***************************************************************************)
EXTENDS Naturals, Sequences, FiniteSets

CONSTANTS
  Viewers,    \* browser WebSockets
  MaxAttaches, \* bound on the SharedAttach values allocated
  MaxFrames,  \* bound on the frames a backend sends on one attach
  QueueCap,   \* CLIENT_QUEUE_CAP
  RingCap     \* REPLAY_RING_BYTES, in frames

ASSUME HubAssumption ==
  /\ MaxAttaches \in Nat /\ MaxFrames \in Nat /\ QueueCap \in Nat \ {0} /\ RingCap \in Nat \ {0}

VARIABLES
  current,   \* TerminalHub.attaches[key]
  stage,     \* where each attach's background task or reader thread is
  closed,    \* SharedAttach.closed
  frames,    \* frames the reader has read; the last is in hand while it publishes
  ring,      \* SharedAttach.replay
  slots,     \* SharedAttach.clients: the viewers whose slot is Some
  graces,    \* teardown tasks asleep in TEARDOWN_GRACE
  detaching, \* is a Detach in the input queue?
  pc,        \* where each relay is
  at,        \* the attach a relay joined
  stream,    \* all a relay in its loop was given: snapshot, then queued events
  replayed,  \* the length of that snapshot
  unread     \* events still in the viewer's queue

reader == <<stage, closed, frames, ring>>
relay  == <<pc, at, stream, replayed, unread>>
vars   == <<current, reader, slots, graces, detaching, relay>>
-----------------------------------------------------------------------------
\* SharedAttach values, in the order of their allocation.
Attaches == 1 .. MaxAttaches
NoAttach == 0

Error == 0   \* HubClientEvent::Error; frames are numbered from 1
Frames == 0 .. MaxFrames

\* Before, in and after the handshake: reading; between the halves of a publish
\* (a full frame replaces the ring, the frame is pushed, the clients get it);
\* between the parts of fail; between closing and dropping the clients; over.
Stages == {"unused", "handshake", "reading", "replaced", "pushed",
           "failing", "failed", "ending", "ended"}

\* Before, between and after the parts of join; in the relay loop; before and
\* between the two detach calls; holding only the receiver; over.
Points == {"new", "absent", "found", "watching", "leaving", "dropping", "detached", "gone"}

Last(s) == IF s = <<>> THEN 0 ELSE s[Len(s)]

\* ReplayRing::push_bytes.
Push(s, n) == IF Len(s) < RingCap THEN Append(s, n) ELSE Append(Tail(s), n)

\* live_attach.
Live == current # NoAttach /\ ~closed[current]
-----------------------------------------------------------------------------
Init ==
  /\ current = NoAttach
  /\ stage = [a \in Attaches |-> "unused"]
  /\ closed = [a \in Attaches |-> FALSE]
  /\ frames = [a \in Attaches |-> 0]
  /\ ring = [a \in Attaches |-> <<>>]
  /\ slots = [a \in Attaches |-> {}]
  /\ graces = [a \in Attaches |-> 0]
  /\ detaching = [a \in Attaches |-> FALSE]
  /\ pc = [v \in Viewers |-> "new"]
  /\ at = [v \in Viewers |-> NoAttach]
  /\ stream = [v \in Viewers |-> <<>>]
  /\ replayed = [v \in Viewers |-> 0]
  /\ unread = [v \in Viewers |-> 0]

Goto(v, p) == pc' = [pc EXCEPT ![v] = p]
Enter(a, s) == stage' = [stage EXCEPT ![a] = s]

\* A relay leaves its loop; what it was given is read no more, though the queue
\* still takes events until the receiver is dropped.
Leaves(v, p) ==
  /\ Goto(v, p)
  /\ stream' = [stream EXCEPT ![v] = <<>>]
  /\ replayed' = [replayed EXCEPT ![v] = 0]

\* TerminalHub::join, first lock scope: the live attach, if there is one.
LookUp(v) ==
  /\ pc[v] = "new"
  /\ IF Live THEN Goto(v, "found") /\ at' = [at EXCEPT ![v] = current]
             ELSE Goto(v, "absent") /\ UNCHANGED at
  /\ UNCHANGED <<current, reader, slots, graces, detaching, stream, replayed, unread>>

\* A new SharedAttach takes the map entry; its handshake runs in the background.
NewAttach(v) ==
  \E a \in Attaches :
    /\ stage[a] = "unused" /\ \A b \in 1 .. a - 1 : stage[b] # "unused"
    /\ current' = a
    /\ Enter(a, "handshake")
    /\ at' = [at EXCEPT ![v] = a]

\* Mutant: start_attach without the second look at the map.
StartAttachBlindly(v) ==
  /\ pc[v] = "absent"
  /\ Goto(v, "found")
  /\ NewAttach(v)
  /\ UNCHANGED <<closed, frames, ring, slots, graces, detaching, stream, replayed, unread>>

\* start_attach: an attach that has appeared meanwhile is used; a closed one is
\* replaced by a new one.
StartAttach(v) ==
  /\ pc[v] = "absent"
  /\ Goto(v, "found")
  /\ \/ Live /\ at' = [at EXCEPT ![v] = current] /\ UNCHANGED <<current, stage>>
     \/ ~Live /\ NewAttach(v)
  /\ UNCHANGED <<closed, frames, ring, slots, graces, detaching, stream, replayed, unread>>

\* Mutant: registers for live frames without the ring's contents.
RegisterUnreplayed(v) ==
  /\ pc[v] = "found"
  /\ Goto(v, "watching")
  /\ slots' = [slots EXCEPT ![at[v]] = @ \cup {v}]
  /\ UNCHANGED <<current, reader, graces, detaching, at, stream, replayed, unread>>

\* SharedAttach::join, under both locks.
Register(v) ==
  /\ pc[v] = "found"
  /\ Goto(v, "watching")
  /\ stream' = [stream EXCEPT ![v] = ring[at[v]]]
  /\ replayed' = [replayed EXCEPT ![v] = Len(ring[at[v]])]
  /\ slots' = [slots EXCEPT ![at[v]] = @ \cup {v}]
  /\ UNCHANGED <<current, reader, graces, detaching, at, unread>>

\* The relay takes the next event off its queue; an error frame ends it.
Receive(v) ==
  /\ pc[v] = "watching" /\ unread[v] > 0
  /\ unread' = [unread EXCEPT ![v] = @ - 1]
  /\ IF stream[v][Len(stream[v]) - unread[v] + 1] = Error
       THEN Leaves(v, "leaving")
       ELSE UNCHANGED <<pc, stream, replayed>>
  /\ UNCHANGED <<current, reader, slots, graces, detaching, at>>

\* The queue is drained and its sender is gone: close with code 4404.
ChannelCloses(v) ==
  /\ pc[v] = "watching" /\ unread[v] = 0
  /\ v \notin slots[at[v]]
  /\ Leaves(v, "leaving")
  /\ UNCHANGED <<current, reader, slots, graces, detaching, at, unread>>

\* The browser closes or fails, or its input finds no live attach.  When the
\* snapshot could not be sent, only dropping the guard detaches.
BrowserLeaves(v) ==
  /\ pc[v] = "watching"
  /\ Leaves(v, "leaving") \/ Leaves(v, "dropping")
  /\ UNCHANGED <<current, reader, slots, graces, detaching, at, unread>>

\* TerminalHub::detach.  The key decides, not the attach the relay joined.
Detach ==
  \/ /\ Live /\ slots[current] = {}
     /\ graces' = [graces EXCEPT ![current] = @ + 1]
     /\ UNCHANGED current
  \/ /\ Live /\ slots[current] # {}
     /\ UNCHANGED <<current, graces>>
  \/ /\ ~Live
     /\ current' = NoAttach
     /\ UNCHANGED graces

\* HubJoinGuard::detach calls it, and so does the drop at its end.
DetachCall(v) ==
  /\ \/ pc[v] = "leaving" /\ Goto(v, "dropping")
     \/ pc[v] = "dropping" /\ Goto(v, "detached")
  /\ Detach
  /\ UNCHANGED <<reader, slots, detaching, at, stream, replayed, unread>>

\* terminal_socket returns; its receiver goes with it.
DropReceiver(v) ==
  /\ pc[v] = "detached"
  /\ Goto(v, "gone")
  /\ at' = [at EXCEPT ![v] = NoAttach]
  /\ unread' = [unread EXCEPT ![v] = 0]
  /\ UNCHANGED <<current, reader, slots, graces, detaching, stream, replayed>>

\* The teardown task wakes up.  A Detach for a finished attach goes nowhere.
GraceEnds(a) ==
  /\ graces[a] > 0
  /\ graces' = [graces EXCEPT ![a] = @ - 1]
  /\ detaching' = [detaching EXCEPT ![a] = @ \/ slots[a] = {}]
  /\ UNCHANGED <<current, reader, slots, relay>>
-----------------------------------------------------------------------------
\* connect_terminal_attach, the writer and reader threads once it succeeds.
HandshakeSucceeds(a) ==
  /\ stage[a] = "handshake"
  /\ Enter(a, "reading")
  /\ UNCHANGED <<current, closed, frames, ring, slots, graces, detaching, relay>>

\* fail: closed is set first.  The handshake failed, or the deadline it left
\* armed expired before the first frame.
AttachFails(a) ==
  /\ stage[a] = "handshake" \/ (stage[a] = "reading" /\ frames[a] = 0)
  /\ Enter(a, "failing")
  /\ closed' = [closed EXCEPT ![a] = TRUE]
  /\ UNCHANGED <<current, frames, ring, slots, graces, detaching, relay>>

InLoop == {v \in Viewers : pc[v] = "watching"}

\* Mutant: an unbounded queue.
HasReceiver(v) == pc[v] # "gone"

\* Room in v's queue, and a receiver at its other end.
CanTake(v) == pc[v] # "gone" /\ unread[v] < QueueCap

\* Mutant: a viewer whose queue is full misses the event and keeps its slot.
OfferLossy(a, e) ==
  LET fed == {v \in slots[a] : CanTake(v)}
  IN  /\ slots' = [slots EXCEPT ![a] = {v \in @ : pc[v] # "gone"}]
      /\ stream' = [v \in Viewers |-> IF v \in fed \cap InLoop THEN Append(stream[v], e) ELSE stream[v]]
      /\ unread' = [v \in Viewers |-> IF v \in fed THEN unread[v] + 1 ELSE unread[v]]

\* The fan-out half of publish, under the clients lock: an event for each slot;
\* a stalled or departed viewer loses its slot instead.
Offer(a, e) ==
  LET fed == {v \in slots[a] : CanTake(v)}
  IN  /\ slots' = [slots EXCEPT ![a] = fed]
      /\ stream' = [v \in Viewers |-> IF v \in fed \cap InLoop THEN Append(stream[v], e) ELSE stream[v]]
      /\ unread' = [v \in Viewers |-> IF v \in fed THEN unread[v] + 1 ELSE unread[v]]

\* fail publishes the error.
OfferError(a) ==
  /\ stage[a] = "failing"
  /\ Enter(a, "failed")
  /\ Offer(a, Error)
  /\ UNCHANGED <<current, closed, frames, ring, graces, detaching, pc, at, replayed>>

\* The reader reads a frame.  A full one replaces the ring, and publish then
\* pushes it as it does every other.
ReadFrame(a) ==
  /\ stage[a] = "reading" /\ frames[a] < MaxFrames
  /\ frames' = [frames EXCEPT ![a] = @ + 1]
  /\ \/ Enter(a, "pushed") /\ ring' = [ring EXCEPT ![a] = Push(@, frames'[a])]
     \/ Enter(a, "replaced") /\ ring' = [ring EXCEPT ![a] = <<frames'[a]>>]
  /\ UNCHANGED <<current, closed, slots, graces, detaching, relay>>

PushFullFrame(a) ==
  /\ stage[a] = "replaced"
  /\ Enter(a, "pushed")
  /\ ring' = [ring EXCEPT ![a] = Push(@, frames[a])]
  /\ UNCHANGED <<current, closed, frames, slots, graces, detaching, relay>>

FanOut(a) ==
  /\ stage[a] = "pushed"
  /\ Enter(a, "reading")
  /\ Offer(a, frames[a])
  /\ UNCHANGED <<current, closed, frames, ring, graces, detaching, pc, at, replayed>>

\* The backend ends the stream: the shell exited, the server stopped, it shed
\* this client, or it answers a Detach.
StreamEnds(a) ==
  /\ stage[a] = "reading"
  /\ Enter(a, "ending")
  /\ closed' = [closed EXCEPT ![a] = TRUE]
  /\ UNCHANGED <<current, frames, ring, slots, graces, detaching, relay>>

\* Mutant: the reader thread returns without telling the relays.
DropClientsSilently(a) ==
  /\ stage[a] \in {"failed", "ending"}
  /\ Enter(a, "ended")
  /\ UNCHANGED <<current, closed, frames, ring, slots, graces, detaching, relay>>

\* The last act of fail and of the reader thread: every sender is dropped.
DropClients(a) ==
  /\ stage[a] \in {"failed", "ending"}
  /\ Enter(a, "ended")
  /\ slots' = [slots EXCEPT ![a] = {}]
  /\ UNCHANGED <<current, closed, frames, ring, graces, detaching, relay>>

Publishes(a) == PushFullFrame(a) \/ FanOut(a) \/ OfferError(a) \/ DropClients(a)

Relays(v) ==
  \/ LookUp(v) \/ StartAttach(v) \/ Register(v) \/ Receive(v) \/ ChannelCloses(v)
  \/ DetachCall(v) \/ DropReceiver(v)

Next ==
  \/ \E v \in Viewers : Relays(v) \/ BrowserLeaves(v)
  \/ \E a \in Attaches :
       \/ Publishes(a) \/ GraceEnds(a)
       \/ HandshakeSucceeds(a) \/ AttachFails(a) \/ ReadFrame(a) \/ StreamEnds(a)

\* Threads and tasks run while they can; a relay's sends complete (the browser
\* reads), and the backend may stay silent for as long as it likes.
Fairness ==
  /\ \A v \in Viewers : WF_vars(Receive(v) \/ ChannelCloses(v))
  /\ \A a \in Attaches : WF_vars(Publishes(a))

Spec == Init /\ [][Next]_vars /\ Fairness
-----------------------------------------------------------------------------
\* Stages, slots, rings and queues are what the hub's fields can hold; a queue
\* never more than CLIENT_QUEUE_CAP events.
TypeOK ==
  /\ current \in Attaches \cup {NoAttach}
  /\ stage \in [Attaches -> Stages]
  /\ closed \in [Attaches -> BOOLEAN]
  /\ frames \in [Attaches -> Frames]
  /\ ring \in [Attaches -> Seq(Frames)]
  /\ slots \in [Attaches -> SUBSET Viewers]
  /\ graces \in [Attaches -> Nat]
  /\ detaching \in [Attaches -> BOOLEAN]
  /\ pc \in [Viewers -> Points]
  /\ at \in [Viewers -> Attaches \cup {NoAttach}]
  /\ stream \in [Viewers -> Seq(Frames)]
  /\ replayed \in [Viewers -> Nat] /\ unread \in [Viewers -> 0 .. QueueCap]

\* An attach that is open is the one in the map, so every new viewer finds it
\* and no second one takes the terminal over: relays that start at once, and
\* one that reaps while another starts, end up sharing.
OpenAttachShared ==
  \A a \in Attaches : stage[a] # "unused" /\ ~closed[a] => current = a

\* The snapshot and the queue together leave no hole: whatever a viewer is
\* given is followed by the next frame, or by the same one again.
NoHoles ==
  \A v \in Viewers : \A i \in 1 .. Len(stream[v]) - 1 :
    stream[v][i + 1] \in {stream[v][i], stream[v][i] + 1}

\* The hub implements the feed: viewers join at the present and follow without
\* a gap until they are cut off.  A frame counts as published when it has been
\* fanned out.
Feed == INSTANCE TerminalFeed WITH
  Feeds     <- Attaches,
  published <- [a \in Attaches |->
                  IF stage[a] \in {"replaced", "pushed"} THEN frames[a] - 1 ELSE frames[a]],
  watching  <- [a \in Attaches |-> slots[a] \cap InLoop],
  upto      <- [v \in Viewers |-> IF v \in InLoop /\ v \in slots[at[v]] THEN Last(stream[v]) ELSE 0]

\* The hub does for its viewers what TerminalFeed promises: a viewer joins at
\* the present, follows without a gap, and is cut off for good.
FeedImplemented == Feed!Spec

\* A viewer registered when its attach fails or ends does not wait in silence:
\* its relay leaves the loop.
EndReachesViewers ==
  \A a \in Attaches : \A v \in Viewers :
    stage[a] \in {"failing", "failed", "ending"} /\ v \in slots[a]
      ~> pc[v] \notin {"found", "watching"}

\* TEARDOWN_GRACE and docs/ux/phase5-transport-design.md: 1.5 s after the last
\* viewer has left, the hub sends Detach.  When all relays of an attach are
\* over, a teardown is pending or the Detach is sent.
LastViewerDetaches ==
  \A a \in Attaches :
    stage[a] = "reading" /\ (\A v \in Viewers : at[v] # a)
      => graces[a] > 0 \/ detaching[a]
=============================================================================
