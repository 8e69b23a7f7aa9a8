-------------------------- MODULE TerminalHubProofs ---------------------------
(***************************************************************************)
(* Theorems about TerminalHub for every number of browsers, attaches and   *)
(* frames and every capacity of queue and ring: the hub is type correct, a *)
(* terminal has at most one open attach, which every new viewer finds,     *)
(* what the hub gives its viewers has no holes, and the hub implements     *)
(* TerminalFeed.                                                           *)
(***************************************************************************)
EXTENDS TerminalHub, SequenceTheorems, TLAPS

\* ReplayRing::push_bytes yields a ring of frames.
LEMMA PushIsRing ==
  ASSUME NEW s \in Seq(Frames), NEW n \in Frames
  PROVE  Push(s, n) \in Seq(Frames)
<1>1. CASE Len(s) < RingCap
  BY <1>1 DEF Push
<1>2. CASE ~(Len(s) < RingCap)
  <2>1. s # <<>>
    BY <1>2, HubAssumption, EmptySeq
  <2>2. Tail(s) \in Seq(Frames)
    BY <2>1, HeadTailProperties
  <2> QED BY <1>2, <2>2 DEF Push
<1> QED BY <1>1, <1>2

\* The fan-out of an event leaves well-typed slots, streams and queues: a queue
\* is offered no more than CLIENT_QUEUE_CAP events.
LEMMA OfferType ==
  ASSUME TypeOK, NEW a \in Attaches, NEW e \in Frames, Offer(a, e)
  PROVE  /\ slots' \in [Attaches -> SUBSET Viewers]
         /\ stream' \in [Viewers -> Seq(Frames)]
         /\ unread' \in [Viewers -> 0 .. QueueCap]
<1> DEFINE fed == {v \in slots[a] : CanTake(v)}
<1>1. slots' \in [Attaches -> SUBSET Viewers]
  BY DEF TypeOK, Offer
<1>2. stream' \in [Viewers -> Seq(Frames)]
  <2>1. \A v \in Viewers : Append(stream[v], e) \in Seq(Frames)
    BY DEF TypeOK
  <2> QED BY <2>1 DEF TypeOK, Offer
<1>3. unread' \in [Viewers -> 0 .. QueueCap]
  <2>1. \A v \in Viewers : v \in fed => unread[v] + 1 \in 0 .. QueueCap
    BY HubAssumption DEF TypeOK, CanTake
  <2> QED BY <2>1 DEF TypeOK, Offer
<1> QED BY <1>1, <1>2, <1>3

\* What holds at every step: types, a relay that has joined has an attach, and
\* an open attach is the one in the map.
HubInv ==
  /\ TypeOK
  /\ \A v \in Viewers : pc[v] \in {"found", "watching"} => at[v] # NoAttach
  /\ OpenAttachShared

\* A step of a relay keeps the types; register needs the attach that join found.
LEMMA RelayType ==
  ASSUME HubInv, NEW v \in Viewers, Relays(v) \/ BrowserLeaves(v)
  PROVE  TypeOK'
<1> USE DEF TypeOK, Goto, Points, reader
<1>0. TypeOK /\ (pc[v] = "found" => at[v] \in Attaches)
  BY DEF HubInv
<1>1. CASE LookUp(v)
  BY <1>0, <1>1 DEF LookUp, Live
<1>2. CASE StartAttach(v)
  <2>1. CASE Live
    BY <1>0, <1>2, <2>1 DEF StartAttach, Live
  <2>2. CASE ~Live
    <3>1. PICK a \in Attaches : Enter(a, "handshake") /\ current' = a /\ at' = [at EXCEPT ![v] = a]
      BY <1>2, <2>2 DEF StartAttach, NewAttach
    <3>2. stage' \in [Attaches -> Stages]
      BY <1>0, <3>1 DEF Enter, Stages
    <3>3. at' \in [Viewers -> Attaches \cup {NoAttach}]
      BY <1>0, <3>1
    <3>4. pc' \in [Viewers -> Points]
      BY <1>0, <1>2 DEF StartAttach
    <3> QED BY <1>0, <1>2, <3>1, <3>2, <3>3, <3>4 DEF StartAttach
  <2> QED BY <2>1, <2>2
<1>3. CASE Register(v)
  <2>1. at[v] \in Attaches
    BY <1>0, <1>3 DEF Register
  <2>2. ring[at[v]] \in Seq(Frames) /\ Len(ring[at[v]]) \in Nat
    BY <1>0, <2>1, LenProperties
  <2>3. stream' \in [Viewers -> Seq(Frames)] /\ replayed' \in [Viewers -> Nat]
    BY <1>0, <1>3, <2>2 DEF Register
  <2>4. slots' \in [Attaches -> SUBSET Viewers]
    BY <1>0, <1>3 DEF Register
  <2> QED BY <1>0, <1>3, <2>3, <2>4 DEF Register
<1>4. ASSUME NEW p \in {"leaving", "dropping"}, Leaves(v, p)
      PROVE  /\ pc' \in [Viewers -> Points] /\ stream' \in [Viewers -> Seq(Frames)]
             /\ replayed' \in [Viewers -> Nat]
  BY <1>0, <1>4, EmptySeq DEF Leaves
<1>5. CASE Receive(v)
  <2>1. unread' \in [Viewers -> 0 .. QueueCap]
    BY <1>0, <1>5, HubAssumption DEF Receive
  <2> QED BY <1>0, <1>4, <1>5, <2>1 DEF Receive
<1>6. CASE ChannelCloses(v)
  BY <1>0, <1>4, <1>6 DEF ChannelCloses
<1>7. CASE BrowserLeaves(v)
  BY <1>0, <1>4, <1>7 DEF BrowserLeaves
<1>8. CASE DetachCall(v)
  <2>1. current' \in Attaches \cup {NoAttach} /\ graces' \in [Attaches -> Nat]
    BY <1>0, <1>8 DEF DetachCall, Detach
  <2> QED BY <1>0, <1>8, <2>1 DEF DetachCall
<1>9. CASE DropReceiver(v)
  BY <1>0, <1>9, HubAssumption DEF DropReceiver
<1> QED BY <1>1, <1>2, <1>3, <1>5, <1>6, <1>7, <1>8, <1>9 DEF Relays

\* So does a step of an attach's threads or of its teardown task.
LEMMA AttachType ==
  ASSUME TypeOK, NEW a \in Attaches,
         \/ Publishes(a) \/ GraceEnds(a)
         \/ HandshakeSucceeds(a) \/ AttachFails(a) \/ ReadFrame(a) \/ StreamEnds(a)
  PROVE  TypeOK'
<1> USE DEF Enter, Stages, relay
<1>1. CASE PushFullFrame(a)
  <2>1. Push(ring[a], frames[a]) \in Seq(Frames)
    BY PushIsRing DEF TypeOK
  <2> QED BY <1>1, <2>1 DEF TypeOK, PushFullFrame
<1>2. CASE FanOut(a)
  <2>1. frames[a] \in Frames
    BY DEF TypeOK
  <2> QED BY <1>2, <2>1, OfferType DEF TypeOK, FanOut
<1>3. CASE OfferError(a)
  <2>1. Error \in Frames
    BY HubAssumption DEF Error, Frames
  <2> QED BY <1>3, <2>1, OfferType DEF TypeOK, OfferError
<1>4. CASE DropClients(a)
  BY <1>4 DEF TypeOK, DropClients
<1>5. CASE GraceEnds(a)
  BY <1>5 DEF TypeOK, GraceEnds, reader
<1>6. CASE HandshakeSucceeds(a)
  BY <1>6 DEF TypeOK, HandshakeSucceeds
<1>7. CASE AttachFails(a)
  BY <1>7 DEF TypeOK, AttachFails
<1>8. CASE ReadFrame(a)
  <2>1. frames[a] + 1 \in Frames /\ frames'[a] = frames[a] + 1
    BY <1>8, HubAssumption DEF TypeOK, ReadFrame, Frames
  <2>2. frames' \in [Attaches -> Frames]
    BY <1>8, <2>1 DEF TypeOK, ReadFrame
  <2>3. Push(ring[a], frames'[a]) \in Seq(Frames) /\ <<frames'[a]>> \in Seq(Frames)
    BY <2>1, PushIsRing DEF TypeOK
  <2>4. \E r \in Seq(Frames) : ring' = [ring EXCEPT ![a] = r]
    BY <1>8, <2>3 DEF ReadFrame
  <2>5. ring' \in [Attaches -> Seq(Frames)]
    BY <2>4 DEF TypeOK
  <2>6. stage' \in [Attaches -> Stages]
    BY <1>8 DEF TypeOK, ReadFrame
  <2> QED BY <1>8, <2>2, <2>5, <2>6 DEF TypeOK, ReadFrame
<1>9. CASE StreamEnds(a)
  BY <1>9 DEF TypeOK, StreamEnds
<1> QED BY <1>1, <1>2, <1>3, <1>4, <1>5, <1>6, <1>7, <1>8, <1>9 DEF Publishes
-----------------------------------------------------------------------------
(***************************************************************************)
(* One open attach.                                                        *)
(***************************************************************************)

\* A step that leaves the map entry, opens no attach and reopens none.
LEMMA SharedKept ==
  ASSUME OpenAttachShared, current' = current,
         \A a \in Attaches : stage'[a] # "unused" => stage[a] # "unused",
         \A a \in Attaches : closed[a] => closed'[a]
  PROVE  OpenAttachShared'
  BY DEF OpenAttachShared

\* start_attach looks at the map again before it opens an attach, and detach
\* takes only a closed attach off the map.
LEMMA RelayShares ==
  ASSUME HubInv, NEW v \in Viewers, Relays(v) \/ BrowserLeaves(v)
  PROVE  OpenAttachShared'
<1>0. TypeOK /\ OpenAttachShared
  BY DEF HubInv
<1>1. ASSUME UNCHANGED <<current, stage, closed>> PROVE OpenAttachShared'
  BY <1>0, <1>1, SharedKept
<1>2. ~Live => \A b \in Attaches : stage[b] = "unused" \/ closed[b]
  BY <1>0 DEF TypeOK, OpenAttachShared, Live, NoAttach, Attaches
<1>3. CASE StartAttach(v)
  <2>1. CASE Live
    BY <1>1, <1>3, <2>1 DEF StartAttach
  <2>2. CASE ~Live
    <3>1. PICK a \in Attaches : Enter(a, "handshake") /\ current' = a
      BY <1>3, <2>2 DEF StartAttach, NewAttach
    <3>2. closed' = closed
      BY <1>3 DEF StartAttach
    <3>3. \A b \in Attaches : b # a => stage'[b] = stage[b]
      BY <1>0, <3>1 DEF TypeOK, Enter
    <3> QED BY <1>2, <2>2, <3>1, <3>2, <3>3 DEF OpenAttachShared
  <2> QED BY <2>1, <2>2
<1>4. CASE DetachCall(v)
  <2>1. stage' = stage /\ closed' = closed /\ Detach
    BY <1>4 DEF DetachCall, reader
  <2>2. CASE Live
    BY <1>1, <2>1, <2>2 DEF Detach
  <2>3. CASE ~Live
    BY <1>2, <2>1, <2>3 DEF OpenAttachShared
  <2> QED BY <2>2, <2>3
<1>5. CASE LookUp(v) \/ Register(v) \/ Receive(v) \/ ChannelCloses(v) \/ DropReceiver(v) \/ BrowserLeaves(v)
  BY <1>1, <1>5
     DEF LookUp, Register, Receive, ChannelCloses, DropReceiver, BrowserLeaves, reader
<1> QED BY <1>3, <1>4, <1>5 DEF Relays

\* An attach's own threads never touch the map, and closed is only ever set.
LEMMA AttachShares ==
  ASSUME HubInv, NEW a \in Attaches,
         \/ Publishes(a) \/ GraceEnds(a)
         \/ HandshakeSucceeds(a) \/ AttachFails(a) \/ ReadFrame(a) \/ StreamEnds(a)
  PROVE  OpenAttachShared'
<1>0. TypeOK /\ OpenAttachShared
  BY DEF HubInv
<1>1. ASSUME NEW s \in Stages, Enter(a, s), stage[a] # "unused", current' = current,
             \A b \in Attaches : closed[b] => closed'[b]
      PROVE  OpenAttachShared'
  <2>1. \A b \in Attaches : stage'[b] # "unused" => stage[b] # "unused"
    BY <1>0, <1>1 DEF TypeOK, Enter
  <2> QED BY <1>0, <1>1, <2>1, SharedKept
<1>2. CASE GraceEnds(a)
  BY <1>0, <1>2, SharedKept DEF GraceEnds, reader
<1>3. CASE Publishes(a)
  BY <1>1, <1>3 DEF Publishes, PushFullFrame, FanOut, OfferError, DropClients, Stages
<1>4. CASE HandshakeSucceeds(a)
  BY <1>1, <1>4 DEF HandshakeSucceeds, Stages
<1>5. CASE AttachFails(a)
  <2>1. \A b \in Attaches : closed[b] => closed'[b]
    BY <1>0, <1>5 DEF TypeOK, AttachFails
  <2> QED BY <1>1, <1>5, <2>1 DEF AttachFails, Stages
<1>6. CASE ReadFrame(a)
  BY <1>1, <1>6 DEF ReadFrame, Stages
<1>7. CASE StreamEnds(a)
  <2>1. \A b \in Attaches : closed[b] => closed'[b]
    BY <1>0, <1>7 DEF TypeOK, StreamEnds
  <2> QED BY <1>1, <1>7, <2>1 DEF StreamEnds, Stages
<1> QED BY <1>2, <1>3, <1>4, <1>5, <1>6, <1>7
-----------------------------------------------------------------------------
\* The hub starts in the invariant.
LEMMA HubInvInit == Init => HubInv
<1> SUFFICES ASSUME Init PROVE HubInv
  OBVIOUS
<1>1. frames \in [Attaches -> Frames] /\ unread \in [Viewers -> 0 .. QueueCap]
  BY HubAssumption DEF Init, Frames
<1>2. ring \in [Attaches -> Seq(Frames)] /\ stream \in [Viewers -> Seq(Frames)]
  BY EmptySeq DEF Init
<1>3. TypeOK
  BY <1>1, <1>2 DEF Init, TypeOK, Stages, Points
<1> QED BY <1>3 DEF HubInv, Init, OpenAttachShared

\* join hands SharedAttach::join an attach: the one of the map or its own.
LEMMA FoundKept ==
  ASSUME HubInv, Next
  PROVE  \A v \in Viewers : pc'[v] \in {"found", "watching"} => at'[v] # NoAttach
<1>0. TypeOK /\ \A v \in Viewers : pc[v] \in {"found", "watching"} => at[v] # NoAttach
  BY DEF HubInv
<1> SUFFICES ASSUME NEW w \in Viewers, pc'[w] \in {"found", "watching"} PROVE at'[w] # NoAttach
  OBVIOUS
<1>1. ASSUME NEW v \in Viewers, Relays(v) \/ BrowserLeaves(v) PROVE at'[w] # NoAttach
  <2>1. CASE LookUp(v)
    BY <1>0, <2>1 DEF TypeOK, LookUp, Live, Goto
  <2>2. CASE StartAttach(v)
    <3>1. CASE Live
      BY <1>0, <2>2, <3>1 DEF TypeOK, StartAttach, Live, Goto
    <3>2. CASE ~Live
      <4>1. PICK a \in Attaches : at' = [at EXCEPT ![v] = a]
        BY <2>2, <3>2 DEF StartAttach, NewAttach
      <4> QED BY <1>0, <2>2, <4>1 DEF TypeOK, StartAttach, Goto, Attaches, NoAttach
    <3> QED BY <3>1, <3>2
  <2>3. CASE \/ Register(v) \/ Receive(v) \/ ChannelCloses(v) \/ DetachCall(v)
             \/ DropReceiver(v) \/ BrowserLeaves(v)
    BY <1>0, <2>3
       DEF TypeOK, Register, Receive, ChannelCloses, DetachCall, DropReceiver, BrowserLeaves, Leaves, Goto
  <2> QED BY <1>1, <2>1, <2>2, <2>3 DEF Relays
<1>2. ASSUME NEW a \in Attaches,
             \/ Publishes(a) \/ GraceEnds(a)
             \/ HandshakeSucceeds(a) \/ AttachFails(a) \/ ReadFrame(a) \/ StreamEnds(a)
      PROVE  at'[w] # NoAttach
  BY <1>0, <1>2
     DEF Publishes, PushFullFrame, FanOut, OfferError, DropClients, GraceEnds, HandshakeSucceeds,
         AttachFails, ReadFrame, StreamEnds, relay
<1> QED BY <1>1, <1>2 DEF Next

\* Every step of a relay, of an attach's threads and of a teardown task keeps
\* the invariant.
LEMMA HubInvStep == HubInv /\ [Next]_vars => HubInv'
<1> SUFFICES ASSUME HubInv, [Next]_vars PROVE HubInv'
  OBVIOUS
<1>1. CASE UNCHANGED vars
  BY <1>1 DEF vars, reader, relay, HubInv, TypeOK, OpenAttachShared
<1>2. CASE Next
  <2>1. TypeOK'
    BY <1>2, RelayType, AttachType DEF Next, HubInv
  <2>2. OpenAttachShared'
    BY <1>2, RelayShares, AttachShares DEF Next
  <2> QED BY <1>2, <2>1, <2>2, FoundKept DEF HubInv
<1> QED BY <1>1, <1>2

\* Type correctness of the hub: queues stay within CLIENT_QUEUE_CAP, whoever
\* joins, stalls or leaves while an attach publishes, fails or ends.
THEOREM HubTypeCorrect == Spec => []TypeOK
<1>1. HubInv => TypeOK
  BY DEF HubInv
<1> QED BY <1>1, HubInvInit, HubInvStep, PTL DEF Spec

\* A terminal has one open attach, the one every new viewer finds: no
\* interleaving of join, start_attach, fail, the reader's end and detach leaves
\* a second one holding the terminal.
THEOREM OneOpenAttach == Spec => []OpenAttachShared
<1>1. HubInv => OpenAttachShared
  BY DEF HubInv
<1> QED BY <1>1, HubInvInit, HubInvStep, PTL DEF Spec

-----------------------------------------------------------------------------
(***************************************************************************)
(* What the viewers are given.                                             *)
(***************************************************************************)

\* Each frame is the one before it or the next one.
Steady(s) == \A i \in 1 .. Len(s) - 1 : s[i + 1] \in {s[i], s[i] + 1}

Publishing == {"replaced", "pushed"}

\* A viewer has the frames so far, or all but the one in the reader's hand.
Abreast(v, a) ==
  \/ Last(stream[v]) = frames[a]
  \/ stage[a] \in Publishing /\ Last(stream[v]) = frames[a] - 1

\* Nothing was read on an attach that has not begun or that failed.
Unread == \A a \in Attaches :
  stage[a] \in {"unused", "handshake", "failing", "failed"} => frames[a] = 0

\* The ring ends with the last frame read, and has no holes.
RingCurrent == \A a \in Attaches : Steady(ring[a]) /\ Last(ring[a]) = frames[a]

\* A slot belongs to a relay that registered, for the attach it joined.
SlotsAbreast == \A a \in Attaches : \A v \in slots[a] :
  /\ pc[v] \notin {"new", "absent", "found"}
  /\ pc[v] = "watching" => at[v] = a /\ Abreast(v, a)

FeedInv == HubInv /\ Unread /\ RingCurrent /\ SlotsAbreast /\ NoHoles
-----------------------------------------------------------------------------
\* A frame that follows the last one extends a list without a hole.
LEMMA AppendSteady ==
  ASSUME NEW s \in Seq(Frames), Steady(s), NEW e \in Frames, e \in {Last(s), Last(s) + 1}
  PROVE  Steady(Append(s, e)) /\ Last(Append(s, e)) = e
<1>1. /\ Len(s) \in Nat /\ \A i \in 1 .. Len(s) : s[i] \in Frames
      /\ Len(Append(s, e)) = Len(s) + 1 /\ Append(s, e)[Len(s) + 1] = e
      /\ \A i \in 1 .. Len(s) : Append(s, e)[i] = s[i]
      /\ Append(s, e) # <<>>
  BY LenProperties, ElementOfSeq
<1>2. Last(Append(s, e)) = e
  BY <1>1 DEF Last
<1>3. ASSUME NEW i \in 1 .. Len(s) PROVE Append(s, e)[i + 1] \in {Append(s, e)[i], Append(s, e)[i] + 1}
  <2>1. CASE i < Len(s)
    BY <1>1, <2>1 DEF Steady
  <2>2. CASE i = Len(s)
    <3>1. s # <<>>
      BY <1>1, <2>2, EmptySeq
    <3> QED BY <1>1, <2>2, <3>1 DEF Last
  <2> QED BY <1>1, <2>1, <2>2
<1> QED BY <1>1, <1>2, <1>3 DEF Steady

\* A ring that a full frame has replaced.
LEMMA SingleSteady ==
  ASSUME NEW e \in Frames
  PROVE  Steady(<<e>>) /\ Last(<<e>>) = e
  BY DEF Steady, Last

\* So does what is left when the oldest frame is gone.
LEMMA RestSteady ==
  ASSUME NEW s \in Seq(Frames), Steady(s), Len(s) \in Nat \ {0}, NEW t \in Seq(Frames),
         Len(t) = Len(s) - 1, \A i \in 1 .. Len(t) : t[i] = s[i + 1]
  PROVE  Steady(t) /\ (t = <<>> \/ Last(t) = Last(s))
<1>1. Steady(t)
  <2> SUFFICES ASSUME NEW i \in 1 .. Len(t) - 1 PROVE t[i + 1] \in {t[i], t[i] + 1}
    BY DEF Steady
  <2>1. i \in 1 .. Len(t) /\ i + 1 \in 1 .. Len(t) /\ i + 1 \in 1 .. Len(s) - 1
    OBVIOUS
  <2>2. t[i] = s[i + 1] /\ t[i + 1] = s[(i + 1) + 1]
    BY <2>1
  <2> QED BY <2>1, <2>2 DEF Steady
<1>2. CASE Len(t) = 0
  BY <1>1, <1>2, EmptySeq
<1>3. CASE Len(t) # 0
  <2>1. t[Len(t)] = s[Len(s)] /\ s # <<>> /\ t # <<>>
    BY <1>3, EmptySeq
  <2> QED BY <1>1, <2>1 DEF Last
<1> QED BY <1>2, <1>3

\* push_bytes evicts at the other end: the ring stays without a hole and ends
\* with the frame pushed.
LEMMA PushSteady ==
  ASSUME NEW s \in Seq(Frames), Steady(s), NEW e \in Frames, e \in {Last(s), Last(s) + 1}
  PROVE  Steady(Push(s, e)) /\ Last(Push(s, e)) = e
<1>1. CASE Len(s) < RingCap
  BY <1>1, AppendSteady DEF Push
<1>2. CASE ~(Len(s) < RingCap)
  <2>1. Len(s) \in Nat \ {0} /\ s # <<>>
    BY <1>2, HubAssumption, LenProperties, EmptySeq
  <2>2. PICK t : t = Tail(s)
    OBVIOUS
  <2>3. /\ t \in Seq(Frames) /\ Len(t) = Len(s) - 1
        /\ \A i \in 1 .. Len(t) : t[i] = s[i + 1]
    BY <2>1, <2>2, HeadTailProperties
  <2>4. Push(s, e) = Append(t, e)
    BY <1>2, <2>2 DEF Push
  <2>5. Steady(t) /\ (t = <<>> \/ Last(t) = Last(s))
    BY <2>1, <2>3, RestSteady
  <2>6. CASE t = <<>>
    <3>1. Append(t, e) = <<e>>
      BY <2>6
    <3> QED BY <2>4, <3>1, SingleSteady
  <2>7. CASE Last(t) = Last(s)
    BY <2>3, <2>4, <2>5, <2>7, AppendSteady
  <2> QED BY <2>5, <2>6, <2>7
<1> QED BY <1>1, <1>2
-----------------------------------------------------------------------------
\* What a step of a relay can do: register, leave its loop, or neither.
LEMMA RelayEffect ==
  ASSUME HubInv, NEW v \in Viewers, Relays(v) \/ BrowserLeaves(v)
  PROVE  /\ frames' = frames /\ ring' = ring
         /\ \A a \in Attaches : \/ stage'[a] = stage[a]
                                \/ stage[a] = "unused" /\ stage'[a] = "handshake"
         /\ \A w \in Viewers \ {v} : pc'[w] = pc[w] /\ at'[w] = at[w] /\ stream'[w] = stream[w]
         /\ \/ Register(v)
            \/ /\ slots' = slots
               /\ pc'[v] = "watching" => pc[v] = "watching" /\ at'[v] = at[v] /\ stream'[v] = stream[v]
               /\ stream'[v] = stream[v] \/ stream'[v] = <<>>
               /\ pc'[v] \in {"new", "absent", "found"} => pc[v] \in {"new", "absent"}
<1> USE DEF TypeOK, Goto, reader
<1>0. TypeOK
  BY DEF HubInv
<1>1. CASE LookUp(v)
  BY <1>0, <1>1 DEF LookUp
<1>2. CASE StartAttach(v)
  <2>1. CASE Live
    BY <1>0, <1>2, <2>1 DEF StartAttach
  <2>2. CASE ~Live
    <3>1. PICK a \in Attaches : /\ stage[a] = "unused" /\ Enter(a, "handshake")
                                /\ at' = [at EXCEPT ![v] = a]
      BY <1>2, <2>2 DEF StartAttach, NewAttach
    <3> QED BY <1>0, <1>2, <3>1 DEF StartAttach, Enter
  <2> QED BY <2>1, <2>2
<1>3. CASE Register(v)
  BY <1>0, <1>3 DEF Register
<1>4. CASE Receive(v)
  BY <1>0, <1>4 DEF Receive, Leaves
<1>5. CASE ChannelCloses(v)
  BY <1>0, <1>5 DEF ChannelCloses, Leaves
<1>6. CASE BrowserLeaves(v)
  BY <1>0, <1>6 DEF BrowserLeaves, Leaves
<1>7. CASE DetachCall(v)
  BY <1>0, <1>7 DEF DetachCall
<1>8. CASE DropReceiver(v)
  BY <1>0, <1>8 DEF DropReceiver
<1> QED BY <1>1, <1>2, <1>3, <1>4, <1>5, <1>6, <1>7, <1>8 DEF Relays

\* A relay that joins is given the ring up to the last frame read; no other
\* step of a relay gives it anything.
LEMMA RelayFeeds ==
  ASSUME FeedInv, NEW v \in Viewers, Relays(v) \/ BrowserLeaves(v)
  PROVE  Unread' /\ RingCurrent' /\ SlotsAbreast' /\ NoHoles'
<1>0. HubInv /\ TypeOK /\ Unread /\ RingCurrent /\ SlotsAbreast /\ NoHoles
  BY DEF FeedInv, HubInv
<1>1. /\ frames' = frames /\ ring' = ring
      /\ \A a \in Attaches : \/ stage'[a] = stage[a]
                             \/ stage[a] = "unused" /\ stage'[a] = "handshake"
      /\ \A w \in Viewers \ {v} : pc'[w] = pc[w] /\ at'[w] = at[w] /\ stream'[w] = stream[w]
  BY <1>0, RelayEffect
<1>2. Unread'
  BY <1>0, <1>1 DEF Unread
<1>3. RingCurrent'
  BY <1>0, <1>1 DEF RingCurrent
<1>4. ASSUME NEW w \in Viewers, NEW a \in Attaches, stream'[w] = stream[w], Abreast(w, a)
      PROVE  Abreast(w, a)'
  BY <1>1, <1>4 DEF Abreast, Publishing
<1>5. CASE Register(v)
  <2>1. /\ at[v] \in Attaches /\ pc[v] = "found" /\ pc'[v] = "watching" /\ at'[v] = at[v]
        /\ stream'[v] = ring[at[v]]
        /\ \A a \in Attaches : slots'[a] = IF a = at[v] THEN slots[a] \cup {v} ELSE slots[a]
    BY <1>0, <1>5 DEF HubInv, TypeOK, Register, Goto
  <2>2. \A a \in Attaches : v \notin slots[a]
    BY <1>0, <2>1 DEF SlotsAbreast
  <2>3. Last(stream'[v]) = frames[at[v]]
    BY <1>0, <2>1 DEF RingCurrent
  <2>4. SlotsAbreast'
    <3> SUFFICES ASSUME NEW a \in Attaches, NEW w \in slots'[a]
                 PROVE  /\ pc'[w] \notin {"new", "absent", "found"}
                        /\ pc'[w] = "watching" => at'[w] = a /\ Abreast(w, a)'
      BY DEF SlotsAbreast
    <3>1. CASE w = v
      <4>1. a = at[v]
        BY <2>1, <2>2, <3>1
      <4> QED BY <1>1, <2>1, <2>3, <3>1, <4>1 DEF Abreast
    <3>2. CASE w # v
      <4>0. slots'[a] \subseteq slots[a] \cup {v}
        BY <2>1
      <4>1. w \in slots[a]
        BY <3>2, <4>0
      <4>2. w \in Viewers
        BY <1>0, <4>1 DEF TypeOK
      <4> QED BY <1>0, <1>1, <1>4, <3>2, <4>1, <4>2 DEF SlotsAbreast
    <3> QED BY <3>1, <3>2
  <2>5. NoHoles'
    BY <1>0, <1>1, <2>1 DEF NoHoles, RingCurrent, Steady
  <2> QED BY <1>2, <1>3, <2>4, <2>5
<1>6. CASE ~Register(v)
  <2>1. /\ slots' = slots
        /\ pc'[v] = "watching" => pc[v] = "watching" /\ at'[v] = at[v] /\ stream'[v] = stream[v]
        /\ stream'[v] = stream[v] \/ stream'[v] = <<>>
        /\ pc'[v] \in {"new", "absent", "found"} => pc[v] \in {"new", "absent"}
    BY <1>0, <1>6, RelayEffect
  <2>2. SlotsAbreast'
    <3> SUFFICES ASSUME NEW a \in Attaches, NEW w \in slots'[a]
                 PROVE  /\ pc'[w] \notin {"new", "absent", "found"}
                        /\ pc'[w] = "watching" => at'[w] = a /\ Abreast(w, a)'
      BY DEF SlotsAbreast
    <3>1. w \in slots[a] /\ w \in Viewers
      BY <1>0, <2>1 DEF TypeOK
    <3> QED BY <1>0, <1>1, <1>4, <2>1, <3>1 DEF SlotsAbreast
  <2>3. NoHoles'
    <3> SUFFICES ASSUME NEW w \in Viewers, NEW i \in 1 .. Len(stream'[w]) - 1
                 PROVE  stream'[w][i + 1] \in {stream'[w][i], stream'[w][i] + 1}
      BY DEF NoHoles
    <3>1. CASE stream'[w] = <<>>
      BY <3>1, EmptySeq
    <3>2. CASE stream'[w] = stream[w]
      BY <1>0, <3>2 DEF NoHoles
    <3> QED BY <1>1, <2>1, <3>1, <3>2
  <2> QED BY <1>2, <1>3, <2>2, <2>3
<1> QED BY <1>5, <1>6

\* Fanning the last frame out to those abreast of it leaves them abreast.
LEMMA OfferFeeds ==
  ASSUME FeedInv, NEW a \in Attaches, Offer(a, frames[a]), NEW v \in Viewers
  PROVE  /\ Steady(stream'[v])
         /\ v \in slots'[a] => v \in slots[a]
         /\ v \in slots'[a] /\ pc[v] = "watching" => Last(stream'[v]) = frames[a]
         /\ v \notin slots'[a] \/ pc[v] # "watching" => stream'[v] = stream[v]
         /\ \A b \in Attaches \ {a} : slots'[b] = slots[b]
<1>0. TypeOK /\ SlotsAbreast /\ Steady(stream[v])
  BY DEF FeedInv, HubInv, NoHoles, Steady
<1>1. frames[a] \in Frames /\ frames[a] \in Nat /\ stream[v] \in Seq(Frames)
  BY <1>0 DEF TypeOK, Frames
<1> DEFINE fed == {w \in slots[a] : CanTake(w)}
<1>2. /\ slots' = [slots EXCEPT ![a] = fed]
      /\ stream' = [w \in Viewers |->
                      IF w \in fed \cap InLoop THEN Append(stream[w], frames[a]) ELSE stream[w]]
  BY DEF Offer
<1>3. fed \subseteq slots[a] /\ slots'[a] = fed /\ \A b \in Attaches \ {a} : slots'[b] = slots[b]
  BY <1>0, <1>2 DEF TypeOK
<1> HIDE DEF fed
<1>4. CASE v \in fed /\ pc[v] = "watching"
  <2>1. stream'[v] = Append(stream[v], frames[a])
    BY <1>2, <1>4 DEF InLoop
  <2>2. frames[a] \in {Last(stream[v]), Last(stream[v]) + 1}
    <3>1. Last(stream[v]) = frames[a] \/ Last(stream[v]) = frames[a] - 1
      BY <1>0, <1>3, <1>4 DEF SlotsAbreast, Abreast
    <3> QED BY <1>1, <3>1
  <2>3. Steady(stream'[v]) /\ Last(stream'[v]) = frames[a]
    BY <1>0, <1>1, <2>1, <2>2, AppendSteady
  <2> QED BY <1>3, <1>4, <2>3
<1>5. CASE ~(v \in fed /\ pc[v] = "watching")
  <2>1. stream'[v] = stream[v]
    BY <1>2, <1>5 DEF InLoop
  <2> QED BY <1>0, <1>3, <1>5, <2>1
<1> QED BY <1>4, <1>5

\* A step of an attach's threads keeps the ring current and every viewer
\* abreast: the frame in hand is in the ring before the clients get it.
LEMMA AttachFeeds ==
  ASSUME FeedInv, NEW a \in Attaches,
         \/ Publishes(a) \/ GraceEnds(a)
         \/ HandshakeSucceeds(a) \/ AttachFails(a) \/ ReadFrame(a) \/ StreamEnds(a)
  PROVE  Unread' /\ RingCurrent' /\ SlotsAbreast' /\ NoHoles'
<1> USE DEF Enter
<1>0. TypeOK /\ Unread /\ RingCurrent /\ SlotsAbreast /\ NoHoles
  BY DEF FeedInv, HubInv
<1>1. /\ frames[a] \in Frames /\ frames[a] \in Nat /\ ring[a] \in Seq(Frames) /\ stage[a] \in Stages
      /\ Steady(ring[a]) /\ Last(ring[a]) = frames[a]
      /\ DOMAIN stage = Attaches /\ DOMAIN frames = Attaches /\ DOMAIN ring = Attaches
      /\ DOMAIN slots = Attaches
  BY <1>0 DEF TypeOK, Frames, RingCurrent
\* Steps that only move the thread on, perhaps dropping slots.
<1>2. ASSUME frames' = frames, ring' = ring, pc' = pc, at' = at, stream' = stream,
             \A b \in Attaches : slots'[b] \subseteq slots[b],
             \A b \in Attaches \ {a} : stage'[b] = stage[b],
             stage'[a] = stage[a] \/ (stage[a] \notin Publishing /\ stage'[a] \notin Publishing),
             stage'[a] \in {"unused", "handshake", "failing", "failed"} => frames[a] = 0
      PROVE  Unread' /\ RingCurrent' /\ SlotsAbreast' /\ NoHoles'
  <2>1. Unread' /\ RingCurrent' /\ NoHoles'
    BY <1>0, <1>2 DEF Unread, RingCurrent, NoHoles
  <2>2. ASSUME NEW b \in Attaches, NEW w \in Viewers, Abreast(w, b) PROVE Abreast(w, b)'
    BY <1>2, <2>2 DEF Abreast
  <2>3. SlotsAbreast'
    <3> SUFFICES ASSUME NEW b \in Attaches, NEW w \in slots'[b]
                 PROVE  /\ pc'[w] \notin {"new", "absent", "found"}
                        /\ pc'[w] = "watching" => at'[w] = b /\ Abreast(w, b)'
      BY DEF SlotsAbreast
    <3>1. w \in slots[b] /\ w \in Viewers
      BY <1>0, <1>2 DEF TypeOK
    <3> QED BY <1>0, <1>2, <2>2, <3>1 DEF SlotsAbreast
  <2> QED BY <2>1, <2>3
\* Steps that fan an event out.
<1>3. ASSUME Offer(a, frames[a]), UNCHANGED <<frames, ring, pc, at>>,
             \A b \in Attaches \ {a} : stage'[b] = stage[b],
             stage'[a] \in {"unused", "handshake", "failing", "failed"} => frames[a] = 0
      PROVE  Unread' /\ RingCurrent' /\ SlotsAbreast' /\ NoHoles'
  <2>1. Unread' /\ RingCurrent'
    BY <1>0, <1>3 DEF Unread, RingCurrent
  <2>2. \A v \in Viewers :
          /\ Steady(stream'[v])
          /\ v \in slots'[a] => v \in slots[a]
          /\ v \in slots'[a] /\ pc[v] = "watching" => Last(stream'[v]) = frames[a]
          /\ v \notin slots'[a] \/ pc[v] # "watching" => stream'[v] = stream[v]
          /\ \A b \in Attaches \ {a} : slots'[b] = slots[b]
    BY <1>3, OfferFeeds
  <2>3. NoHoles'
    BY <2>2 DEF NoHoles, Steady
  <2>4. SlotsAbreast'
    <3> SUFFICES ASSUME NEW b \in Attaches, NEW w \in slots'[b]
                 PROVE  /\ pc'[w] \notin {"new", "absent", "found"}
                        /\ pc'[w] = "watching" => at'[w] = b /\ Abreast(w, b)'
      BY DEF SlotsAbreast
    <3>1. slots'[b] \in SUBSET Viewers
      <4>1. slots' \in [Attaches -> SUBSET Viewers]
        BY <1>0, <1>1, <1>3, OfferType
      <4> QED BY <4>1
    <3>2. w \in slots[b] /\ w \in Viewers
      BY <2>2, <3>1
    <3>3. CASE b = a
      BY <1>0, <1>3, <2>2, <3>2, <3>3 DEF SlotsAbreast, Abreast
    <3>4. CASE b # a
      <4>1. pc[w] = "watching" => w \notin slots[a]
        BY <1>0, <3>2, <3>4 DEF SlotsAbreast
      <4>2. pc[w] = "watching" => stream'[w] = stream[w]
        BY <2>2, <3>2, <4>1
      <4>3. pc[w] = "watching" /\ Abreast(w, b) => Abreast(w, b)'
        BY <1>3, <3>4, <4>2 DEF Abreast
      <4> QED BY <1>0, <1>3, <3>2, <4>3 DEF SlotsAbreast
    <3> QED BY <3>3, <3>4
  <2> QED BY <2>1, <2>3, <2>4
\* A frame read or pushed again.
<1>4. ASSUME NEW n \in Frames, frames' = [frames EXCEPT ![a] = n], n \in {frames[a], frames[a] + 1},
             NEW s \in Seq(Frames), ring' = [ring EXCEPT ![a] = s], Steady(s), Last(s) = n,
             stage'[a] \in Publishing, \A b \in Attaches \ {a} : stage'[b] = stage[b],
             n = frames[a] \/ stage[a] = "reading", UNCHANGED <<slots, pc, at, stream>>
      PROVE  Unread' /\ RingCurrent' /\ SlotsAbreast' /\ NoHoles'
  <2>1. /\ frames'[a] = n /\ \A b \in Attaches \ {a} : frames'[b] = frames[b]
        /\ ring'[a] = s /\ \A b \in Attaches \ {a} : ring'[b] = ring[b]
    BY <1>1, <1>4
  <2>2. Unread'
    BY <1>0, <1>4, <2>1 DEF Unread, Publishing
  <2>3. RingCurrent'
    BY <1>0, <1>4, <2>1 DEF RingCurrent
  <2>4. ASSUME NEW b \in Attaches, NEW w \in Viewers, Abreast(w, b) PROVE Abreast(w, b)'
    <3>1. CASE b = a
      BY <1>1, <1>4, <2>1, <2>4, <3>1 DEF Abreast, Publishing
    <3>2. CASE b # a
      BY <1>4, <2>1, <2>4, <3>2 DEF Abreast
    <3> QED BY <3>1, <3>2
  <2>5. SlotsAbreast'
    <3>1. \A b \in Attaches : slots[b] \subseteq Viewers
      BY <1>0 DEF TypeOK
    <3> QED BY <1>0, <1>4, <2>4, <3>1 DEF SlotsAbreast
  <2>6. NoHoles'
    BY <1>0, <1>4 DEF NoHoles
  <2> QED BY <2>2, <2>3, <2>5, <2>6
<1>5. CASE PushFullFrame(a)
  <2>1. Push(ring[a], frames[a]) \in Seq(Frames) /\ Steady(Push(ring[a], frames[a]))
        /\ Last(Push(ring[a], frames[a])) = frames[a]
    BY <1>1, PushSteady, PushIsRing
  <2>2. frames = [frames EXCEPT ![a] = frames[a]]
    BY <1>0 DEF TypeOK
  <2> QED BY <1>1, <1>4, <1>5, <2>1, <2>2 DEF PushFullFrame, relay, Publishing
<1>6. CASE FanOut(a)
  BY <1>1, <1>3, <1>6 DEF FanOut
<1>7. CASE OfferError(a)
  <2>1. frames[a] = 0
    BY <1>0, <1>7 DEF OfferError, Unread
  <2> QED BY <1>1, <1>3, <1>7, <2>1 DEF OfferError, Error
<1>8. CASE DropClients(a)
  BY <1>0, <1>1, <1>2, <1>8 DEF DropClients, relay, Publishing
<1>9. CASE GraceEnds(a)
  BY <1>0, <1>1, <1>2, <1>9 DEF GraceEnds, reader, relay, Unread
<1>10. CASE HandshakeSucceeds(a)
  BY <1>1, <1>2, <1>10 DEF HandshakeSucceeds, relay, Publishing
<1>11. CASE AttachFails(a)
  BY <1>0, <1>1, <1>2, <1>11 DEF AttachFails, relay, Publishing, Unread
<1>12. CASE ReadFrame(a)
  <2>1. frames[a] + 1 \in Frames /\ frames' = [frames EXCEPT ![a] = frames[a] + 1] /\ frames'[a] = frames[a] + 1
    BY <1>0, <1>1, <1>12, HubAssumption DEF ReadFrame, Frames
  <2>2. /\ Push(ring[a], frames'[a]) \in Seq(Frames) /\ Steady(Push(ring[a], frames'[a]))
        /\ Last(Push(ring[a], frames'[a])) = frames'[a]
    BY <1>1, <2>1, PushSteady, PushIsRing
  <2>3. <<frames'[a]>> \in Seq(Frames) /\ Steady(<<frames'[a]>>) /\ Last(<<frames'[a]>>) = frames'[a]
    BY <2>1, SingleSteady
  <2>4. PICK s \in {Push(ring[a], frames'[a]), <<frames'[a]>>} : ring' = [ring EXCEPT ![a] = s]
    BY <1>12 DEF ReadFrame
  <2>5. s \in Seq(Frames) /\ Steady(s) /\ Last(s) = frames'[a]
    BY <2>2, <2>3, <2>4
  <2> QED BY <1>1, <1>4, <1>12, <2>1, <2>4, <2>5 DEF ReadFrame, relay, Publishing
<1>13. CASE StreamEnds(a)
  BY <1>1, <1>2, <1>13 DEF StreamEnds, relay, Publishing
<1> QED BY <1>5, <1>6, <1>7, <1>8, <1>9, <1>10, <1>11, <1>12, <1>13 DEF Publishes
-----------------------------------------------------------------------------
\* The invariant holds of a new hub and of every step.
LEMMA FeedInvInit == Init => FeedInv
<1> SUFFICES ASSUME Init PROVE FeedInv
  OBVIOUS
<1>1. Unread /\ SlotsAbreast
  BY DEF Init, Unread, SlotsAbreast
<1>2. RingCurrent /\ NoHoles
  BY EmptySeq DEF Init, RingCurrent, NoHoles, Steady, Last
<1> QED BY <1>1, <1>2, HubInvInit DEF FeedInv

\* A viewer registers with the ring it copied, an attach's threads publish in
\* the order they read.
LEMMA FeedInvStep == FeedInv /\ [Next]_vars => FeedInv'
<1> SUFFICES ASSUME FeedInv, [Next]_vars PROVE FeedInv'
  OBVIOUS
<1>1. HubInv'
  BY HubInvStep DEF FeedInv
<1>2. CASE Next
  BY <1>1, <1>2, RelayFeeds, AttachFeeds DEF Next, FeedInv
<1>3. CASE UNCHANGED vars
  BY <1>1, <1>3 DEF vars, reader, relay, FeedInv, Unread, RingCurrent, SlotsAbreast, Abreast, NoHoles
<1> QED BY <1>2, <1>3

\* The snapshot taken under the ring's lock and the queue filled under the
\* clients' lock never leave a frame out between them, whatever the reader does
\* while a viewer joins, and a viewer that stalls loses its slot, not a frame.
THEOREM FeedHasNoHoles == Spec => []NoHoles
<1>1. FeedInv => NoHoles
  BY DEF FeedInv
<1> QED BY <1>1, FeedInvInit, FeedInvStep, PTL DEF Spec
-----------------------------------------------------------------------------
(***************************************************************************)
(* Refinement: the state functions that stand for TerminalFeed's variables *)
(* in TerminalHub's instance of it, and the step of the feed that each     *)
(* step of the hub is.                                                     *)
(***************************************************************************)
Published == [a \in Attaches |-> IF stage[a] \in {"replaced", "pushed"} THEN frames[a] - 1 ELSE frames[a]]
Following == [a \in Attaches |-> slots[a] \cap InLoop]
UpTo      == [v \in Viewers |-> IF v \in InLoop /\ v \in slots[at[v]] THEN Last(stream[v]) ELSE 0]

FeedStep == Feed!Next \/ UNCHANGED <<Published, Following, UpTo>>

\* The steps of the feed, one by one.
LEMMA FeedSteps ==
  ASSUME NEW f \in Attaches
  PROVE  /\ \A v \in Viewers : Feed!Join(v, f) => FeedStep
         /\ \A stay \in SUBSET Following[f] : Feed!Publish(f, stay) \/ Feed!CutOff(f, stay) => FeedStep
  BY DEF FeedStep, Feed!Next, Following

\* No step of a relay publishes: it joins, is cut off or changes nothing.
LEMMA RelayRefines ==
  ASSUME FeedInv, NEW v \in Viewers, Relays(v) \/ BrowserLeaves(v)
  PROVE  FeedStep
<1>0. TypeOK /\ HubInv /\ SlotsAbreast /\ RingCurrent
  BY DEF FeedInv, HubInv
<1>1. /\ frames' = frames
      /\ \A a \in Attaches : \/ stage'[a] = stage[a]
                             \/ stage[a] = "unused" /\ stage'[a] = "handshake"
      /\ \A w \in Viewers \ {v} : pc'[w] = pc[w] /\ at'[w] = at[w] /\ stream'[w] = stream[w]
  BY <1>0, RelayEffect
<1>2. UNCHANGED Published
  BY <1>1 DEF Published
<1>3. CASE Register(v)
  <2>1. /\ at[v] \in Attaches /\ pc[v] = "found" /\ pc'[v] = "watching" /\ at'[v] = at[v]
        /\ stream'[v] = ring[at[v]]
        /\ \A a \in Attaches : slots'[a] = IF a = at[v] THEN slots[a] \cup {v} ELSE slots[a]
    BY <1>0, <1>3 DEF HubInv, TypeOK, Register, Goto
  <2>2. \A a \in Attaches : v \notin slots[a]
    BY <1>0, <2>1 DEF SlotsAbreast
  <2>3. InLoop' = InLoop \cup {v}
    BY <1>1, <2>1 DEF InLoop
  <2>4. \A a \in Attaches : v \notin Following[a]
    BY <2>2 DEF Following
  <2>5. Following' = [Following EXCEPT ![at[v]] = @ \cup {v}]
    BY <2>1, <2>2, <2>3 DEF Following
  <2>6. UpTo' = [UpTo EXCEPT ![v] = frames[at[v]]]
    <3>1. Last(stream'[v]) = frames[at[v]]
      BY <1>0, <2>1 DEF RingCurrent
    <3>2. UpTo'[v] = frames[at[v]]
      BY <2>1, <2>3, <3>1 DEF UpTo
    <3>3. ASSUME NEW w \in Viewers \ {v} PROVE UpTo'[w] = UpTo[w]
      <4>1. w \in InLoop' <=> w \in InLoop
        BY <2>3
      <4>2. w \in InLoop => (w \in slots'[at[w]] <=> w \in slots[at[w]])
        <5> SUFFICES ASSUME w \in InLoop PROVE at[w] \in Attaches
          BY <2>1
        <5> QED BY <1>0 DEF HubInv, TypeOK, InLoop
      <4> QED BY <1>1, <4>1, <4>2 DEF UpTo
    <3> QED BY <3>2, <3>3 DEF UpTo
  <2>7. frames[at[v]] \in {Published[at[v]], Published[at[v]] + 1}
    BY <1>0, <2>1 DEF TypeOK, Published, Frames
  <2>8. PICK b \in Attaches : b = at[v]
    BY <2>1
  <2>9. Feed!Join(v, b)
    BY <1>2, <2>4, <2>5, <2>6, <2>7, <2>8 DEF Feed!Join, Published, Following, UpTo
  <2> QED BY <2>9, FeedSteps
<1>4. CASE ~Register(v)
  <2>1. /\ slots' = slots
        /\ pc'[v] = "watching" => pc[v] = "watching" /\ at'[v] = at[v] /\ stream'[v] = stream[v]
    BY <1>0, <1>4, RelayEffect
  <2>2. \A w \in Viewers \ {v} : (w \in InLoop' <=> w \in InLoop) /\ UpTo'[w] = UpTo[w]
    BY <1>1, <2>1 DEF InLoop, UpTo
  <2>3. CASE pc'[v] = "watching" \/ pc[v] # "watching"
    <3>1. v \in InLoop' <=> v \in InLoop
      BY <2>1, <2>3 DEF InLoop
    <3>2. InLoop' = InLoop
      BY <2>2, <3>1 DEF InLoop
    <3>3. UpTo'[v] = UpTo[v]
      BY <2>1, <2>3, <3>2 DEF InLoop, UpTo
    <3>4. UNCHANGED Following /\ UNCHANGED UpTo
      BY <2>1, <2>2, <3>2, <3>3 DEF Following, UpTo
    <3> QED BY <1>2, <3>4 DEF FeedStep
  <2>4. CASE pc'[v] # "watching" /\ pc[v] = "watching"
    <3>1. PICK b \in Attaches : b = at[v]
      BY <1>0, <2>4 DEF HubInv, TypeOK
    <3>2. InLoop' = InLoop \ {v}
      BY <2>2, <2>4 DEF InLoop
    <3>3. \A a \in Attaches \ {b} : v \notin slots[a]
      BY <1>0, <2>4, <3>1 DEF SlotsAbreast
    <3>4. Following' = [Following EXCEPT ![b] = @ \ {v}]
      BY <2>1, <3>2, <3>3 DEF Following
    <3>5. UpTo'[v] = 0
      BY <3>2 DEF UpTo
    <3>6. v \notin Following[b] => UpTo[v] = 0
      BY <3>1 DEF Following, UpTo
    <3>7. UpTo' = [w \in Viewers |-> IF w \in Following[b] \ (Following[b] \ {v}) THEN 0 ELSE UpTo[w]]
      BY <2>2, <3>5, <3>6 DEF UpTo
    <3>8. PICK stay \in SUBSET Following[b] : stay = Following[b] \ {v}
      OBVIOUS
    <3>9. Feed!CutOff(b, stay)
      BY <1>2, <3>4, <3>7, <3>8 DEF Feed!CutOff, Published, Following, UpTo
    <3> QED BY <3>9, FeedSteps
  <2> QED BY <2>3, <2>4
<1> QED BY <1>3, <1>4

\* An attach's threads publish a frame to those whose queue takes it, cut off
\* everyone else and, at the end, all.
LEMMA AttachRefines ==
  ASSUME FeedInv, NEW a \in Attaches,
         \/ Publishes(a) \/ GraceEnds(a)
         \/ HandshakeSucceeds(a) \/ AttachFails(a) \/ ReadFrame(a) \/ StreamEnds(a)
  PROVE  FeedStep
<1> USE DEF Enter
<1>0. TypeOK /\ SlotsAbreast /\ Unread
  BY DEF FeedInv, HubInv
<1>1. /\ frames[a] \in Nat
      /\ stage \in [Attaches -> Stages] /\ frames \in [Attaches -> Frames]
      /\ slots \in [Attaches -> SUBSET Viewers]
  BY <1>0 DEF TypeOK, Frames
\* Steps no viewer sees.
<1>2. ASSUME UNCHANGED <<slots, pc, at, stream>>, UNCHANGED Published
      PROVE  FeedStep
  <2>1. InLoop' = InLoop
    BY <1>2 DEF InLoop
  <2>2. UNCHANGED Following /\ UNCHANGED UpTo
    BY <1>2, <2>1 DEF Following, UpTo
  <2> QED BY <1>2, <2>2 DEF FeedStep
\* The effect of a fan-out on the viewers that follow the attach.
<1>3. ASSUME Offer(a, frames[a]), UNCHANGED <<pc, at>>
      PROVE  \E stay \in SUBSET Following[a] :
               /\ Following' = [Following EXCEPT ![a] = stay]
               /\ UpTo' = [v \in Viewers |-> IF v \in stay THEN frames[a]
                                             ELSE IF v \in Following[a] THEN 0 ELSE UpTo[v]]
  <2>1. \A v \in Viewers :
          /\ v \in slots'[a] => v \in slots[a]
          /\ v \in slots'[a] /\ pc[v] = "watching" => Last(stream'[v]) = frames[a]
          /\ v \notin slots'[a] \/ pc[v] # "watching" => stream'[v] = stream[v]
          /\ \A b \in Attaches \ {a} : slots'[b] = slots[b]
    BY <1>3, OfferFeeds
  <2>2. InLoop' = InLoop
    BY <1>3 DEF InLoop
  <2>3. PICK stay : stay = slots'[a] \cap InLoop
    OBVIOUS
  <2>4. stay \subseteq Following[a]
    BY <2>1, <2>3 DEF Following, InLoop
  <2>5. Following' = [Following EXCEPT ![a] = stay]
    <3>1. \A b \in Attaches \ {a} : slots'[b] = slots[b]
      BY <1>3 DEF Offer
    <3> QED BY <2>2, <2>3, <3>1 DEF Following
  <2>6. ASSUME NEW v \in Viewers
        PROVE  UpTo'[v] = IF v \in stay THEN frames[a]
                          ELSE IF v \in Following[a] THEN 0 ELSE UpTo[v]
    <3>1. at' = at /\ (pc[v] = "watching" => at[v] \in Attaches)
      BY <1>0, <1>3 DEF FeedInv, HubInv, TypeOK
    <3>2. v \in slots[a] /\ pc[v] = "watching" => at[v] = a
      BY <1>0 DEF SlotsAbreast
    <3>3. CASE v \in stay
      BY <2>1, <2>2, <2>3, <3>1, <3>2, <3>3 DEF UpTo, InLoop
    <3>4. CASE v \notin stay /\ v \in Following[a]
      BY <2>1, <2>2, <2>3, <3>1, <3>2, <3>4 DEF UpTo, InLoop, Following
    <3>5. CASE v \notin stay /\ v \notin Following[a]
      <4>1. v \in InLoop => (v \in slots'[at[v]] <=> v \in slots[at[v]])
        BY <2>1, <2>3, <3>1, <3>5 DEF InLoop, Following
      <4>2. v \in InLoop => stream'[v] = stream[v]
        BY <2>1, <2>3, <3>5
      <4> QED BY <2>2, <3>1, <3>5, <4>1, <4>2 DEF UpTo
    <3> QED BY <3>3, <3>4, <3>5
  <2>7. UpTo' = [v \in Viewers |-> IF v \in stay THEN frames[a]
                                   ELSE IF v \in Following[a] THEN 0 ELSE UpTo[v]]
    BY <2>6 DEF UpTo
  <2> QED BY <2>4, <2>5, <2>7
<1>4. CASE FanOut(a)
  <2>1. /\ Offer(a, frames[a]) /\ UNCHANGED <<pc, at, frames>>
        /\ stage[a] = "pushed" /\ stage' = [stage EXCEPT ![a] = "reading"]
    BY <1>4 DEF FanOut
  <2>2. PICK stay \in SUBSET Following[a] :
          /\ Following' = [Following EXCEPT ![a] = stay]
          /\ UpTo' = [v \in Viewers |-> IF v \in stay THEN frames[a]
                                        ELSE IF v \in Following[a] THEN 0 ELSE UpTo[v]]
    BY <1>3, <2>1
  <2>3. Published' = [Published EXCEPT ![a] = @ + 1] /\ Published'[a] = frames[a]
    <3>1. Published[a] = frames[a] - 1 /\ Published'[a] = frames[a]
      BY <1>1, <2>1 DEF Published
    <3>2. \A b \in Attaches \ {a} : Published'[b] = Published[b]
      BY <1>1, <2>1 DEF Published
    <3>3. DOMAIN Published = Attaches /\ DOMAIN Published' = Attaches
      BY DEF Published
    <3>4. Published'[a] = Published[a] + 1
      BY <1>1, <3>1
    <3>5. Published' = [b \in Attaches |-> Published'[b]]
      BY DEF Published
    <3> QED BY <3>1, <3>2, <3>3, <3>4, <3>5
  <2>4. Feed!Publish(a, stay)
    BY <2>2, <2>3 DEF Feed!Publish, Published, Following, UpTo
  <2> QED BY <2>4, FeedSteps
<1>5. CASE OfferError(a)
  <2>1. frames[a] = 0
    BY <1>0, <1>5 DEF OfferError, Unread
  <2>2. Offer(a, frames[a]) /\ UNCHANGED <<pc, at>>
    BY <1>5, <2>1 DEF OfferError, Error
  <2>3. UNCHANGED Published
    BY <1>1, <1>5 DEF OfferError, Published
  <2>4. PICK stay \in SUBSET Following[a] :
          /\ Following' = [Following EXCEPT ![a] = stay]
          /\ UpTo' = [v \in Viewers |-> IF v \in stay THEN frames[a]
                                        ELSE IF v \in Following[a] THEN 0 ELSE UpTo[v]]
    BY <1>3, <2>2
  <2>5. ASSUME NEW v \in Viewers, v \in stay PROVE UpTo[v] = 0
    <3>1. v \in Following[a] /\ v \in slots[a] /\ pc[v] = "watching"
      BY <2>4, <2>5 DEF Following, InLoop
    <3>2. at[v] = a /\ Last(stream[v]) = 0
      BY <1>0, <1>5, <2>1, <3>1 DEF SlotsAbreast, Abreast, Publishing, OfferError
    <3> QED BY <3>1, <3>2 DEF UpTo
  <2>6. UpTo' = [v \in Viewers |-> IF v \in Following[a] \ stay THEN 0 ELSE UpTo[v]]
    BY <2>1, <2>4, <2>5
  <2>7. Feed!CutOff(a, stay)
    BY <2>3, <2>4, <2>6 DEF Feed!CutOff, Published, Following, UpTo
  <2> QED BY <2>7, FeedSteps
<1>6. CASE DropClients(a)
  <2>1. UNCHANGED Published
    BY <1>1, <1>6 DEF DropClients, Published
  <2>2. UNCHANGED <<pc, at, stream>> /\ slots' = [slots EXCEPT ![a] = {}] /\ InLoop' = InLoop
    BY <1>6 DEF DropClients, relay, InLoop
  <2>3. Following' = [Following EXCEPT ![a] = {}]
    BY <1>1, <2>2 DEF Following
  <2>4. ASSUME NEW v \in Viewers
        PROVE  UpTo'[v] = IF v \in Following[a] THEN 0 ELSE UpTo[v]
    <3>1. pc[v] = "watching" => at[v] \in Attaches
      BY <1>0 DEF FeedInv, HubInv, TypeOK
    <3>2. v \in slots[a] /\ pc[v] = "watching" => at[v] = a
      BY <1>0 DEF SlotsAbreast
    <3>3. \A b \in Attaches : slots'[b] = IF b = a THEN {} ELSE slots[b]
      BY <1>1, <2>2
    <3> QED BY <2>2, <3>1, <3>2, <3>3 DEF UpTo, InLoop, Following
  <2>5. UpTo' = [v \in Viewers |-> IF v \in Following[a] \ {} THEN 0 ELSE UpTo[v]]
    BY <2>4 DEF UpTo
  <2>6. Feed!CutOff(a, {})
    BY <2>1, <2>3, <2>5 DEF Feed!CutOff, Published, Following, UpTo
  <2> QED BY <2>6, FeedSteps
<1>7. CASE PushFullFrame(a)
  <2>1. UNCHANGED Published
    BY <1>1, <1>7 DEF PushFullFrame, Published
  <2> QED BY <1>2, <1>7, <2>1 DEF PushFullFrame, relay
<1>8. CASE GraceEnds(a)
  <2>1. UNCHANGED Published
    BY <1>8 DEF GraceEnds, reader, Published
  <2> QED BY <1>2, <1>8, <2>1 DEF GraceEnds, relay
<1>9. CASE HandshakeSucceeds(a)
  <2>1. UNCHANGED Published
    BY <1>1, <1>9 DEF HandshakeSucceeds, Published
  <2> QED BY <1>2, <1>9, <2>1 DEF HandshakeSucceeds, relay
<1>10. CASE AttachFails(a)
  <2>1. UNCHANGED Published
    BY <1>1, <1>10 DEF AttachFails, Published
  <2> QED BY <1>2, <1>10, <2>1 DEF AttachFails, relay
<1>11. CASE ReadFrame(a)
  <2>1. UNCHANGED Published
    BY <1>1, <1>11 DEF ReadFrame, Published
  <2> QED BY <1>2, <1>11, <2>1 DEF ReadFrame, relay
<1>12. CASE StreamEnds(a)
  <2>1. UNCHANGED Published
    BY <1>1, <1>12 DEF StreamEnds, Published
  <2> QED BY <1>2, <1>12, <2>1 DEF StreamEnds, relay
<1> QED BY <1>4, <1>5, <1>6, <1>7, <1>8, <1>9, <1>10, <1>11, <1>12 DEF Publishes

\* The hub implements the feed: whatever the interleaving of joins, stalls,
\* departures, frames and failures, viewers start at the present, follow frame
\* by frame and are given nothing after they are cut off.
THEOREM HubImplementsFeed == Spec => FeedImplemented
<1>1. Init => Feed!Init
  <2> SUFFICES ASSUME Init PROVE Feed!Init
    OBVIOUS
  <2>1. Published = [a \in Attaches |-> 0] /\ Following = [a \in Attaches |-> {}]
        /\ UpTo = [v \in Viewers |-> 0]
    BY DEF Init, Published, Following, UpTo, InLoop
  <2> QED BY <2>1 DEF Feed!Init, Published, Following, UpTo
<1>2. FeedInv /\ [Next]_vars => [Feed!Next]_(Feed!vars)
  <2> SUFFICES ASSUME FeedInv, [Next]_vars PROVE [Feed!Next]_(Feed!vars)
    OBVIOUS
  <2>1. FeedStep => [Feed!Next]_(Feed!vars)
    BY DEF FeedStep, Feed!vars, Published, Following, UpTo
  <2>2. CASE Next
    BY <2>1, <2>2, RelayRefines, AttachRefines DEF Next
  <2>3. CASE UNCHANGED vars
    BY <2>1, <2>3 DEF FeedStep, vars, reader, relay, Published, Following, UpTo, InLoop
  <2> QED BY <2>2, <2>3
<1> QED BY <1>1, <1>2, FeedInvInit, FeedInvStep, PTL DEF Spec, FeedImplemented, Feed!Spec
=============================================================================
