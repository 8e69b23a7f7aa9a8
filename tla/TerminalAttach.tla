--------------------------- MODULE TerminalAttach ---------------------------
(***************************************************************************)
(* One TerminalRuntime of the built-in backend and the client connections  *)
(* attached to it (src/src/builtin_backend.rs: handle_client_connection,   *)
(* subscribe, append_output, notify_exited).  The PTY reader thread fans   *)
(* output out to the subscribers' unbounded queues; each connection has a  *)
(* loop thread that reads requests and, once attached, a writer thread     *)
(* that empties its queue into the socket.                                 *)
(*                                                                         *)
(* A chunk of output is the number of its append, and one unit of bytes.   *)
(* Input, resizes and the agent status are left out.                       *)
(***************************************************************************)
EXTENDS Integers, Sequences, FiniteSets, SequencesExt

CONSTANTS
  Clients,       \* connections to the client socket
  MaxOutput,     \* bound on the chunks the terminal prints
  MaxReplays,    \* bound on the AttachTerminal requests of all connections
  ScrollbackCap, \* MAX_SCROLLBACK_BYTES, in chunks
  PendingCap     \* MAX_SUBSCRIBER_PENDING_BYTES, in chunks

\* The source asks for the second conjunct where it defines the two caps.
ASSUME AttachAssumption ==
  /\ MaxOutput \in Nat /\ MaxReplays \in Nat /\ ScrollbackCap \in Nat \ {0}
  /\ PendingCap \in Nat /\ PendingCap > ScrollbackCap

VARIABLES
  output,      \* chunks appended to the scrollback
  reader,      \* where the PTY reader thread is
  subscribers, \* connections in TerminalRuntime.subscribers
  loop,        \* where each connection's loop thread is
  taken,       \* the end of the history that thread holds, if it holds one
  replays,     \* attach requests so far
  writer,      \* each connection's writer thread, which owns the receiver
  queue,       \* messages in the subscriber's channel; a message being
               \* written is still at its head
  pending,     \* TerminalSubscriber.pending_bytes
  open,        \* has the client its end of the socket open?
  seen         \* the newest chunk a writer thread has written to its client

connection == <<loop, taken, replays, open>>
channel    == <<writer, queue, pending, seen>>
vars       == <<output, reader, subscribers, connection, channel>>
-----------------------------------------------------------------------------
Chunks == 0 .. MaxOutput

\* The reader between its reads; between the scrollback and the subscribers;
\* between setting `exited` and telling the subscribers; over.
ReaderStages == {"reading", "appended", "exiting", "over"}

\* The loop thread before its first attach; with the history in hand; past
\* subscribe's test of `exited`; serving; with the history of a re-attach in
\* hand, before and after charging it; over.
LoopStages == {"new", "history", "subscribing", "serving", "again", "charged", "over"}

\* Only chunks and histories are charged.
Replay(n, charge) == [kind |-> "replay", chunk |-> n, charge |-> charge]
Output(n)         == [kind |-> "output", chunk |-> n, charge |-> 1]
Exited            == [kind |-> "exited", chunk |-> 0, charge |-> 0]
Overflow          == [kind |-> "overflow", chunk |-> 0, charge |-> 0]

Message == [kind : {"replay", "output", "exited", "overflow"}, chunk : Chunks, charge : Nat]

IsNotice(m) == m.kind \in {"exited", "overflow"}

hasExited == reader \in {"exiting", "over"}

\* history.len().max(1), for a history that ends with chunk n.
ReplayCharge(n) == IF n = 0 THEN 1 ELSE IF n < ScrollbackCap THEN n ELSE ScrollbackCap
-----------------------------------------------------------------------------
Init ==
  /\ output = 0
  /\ reader = "reading"
  /\ subscribers = {}
  /\ loop = [c \in Clients |-> "new"]
  /\ taken = [c \in Clients |-> 0]
  /\ replays = 0
  /\ writer = [c \in Clients |-> "none"]
  /\ queue = [c \in Clients |-> <<>>]
  /\ pending = [c \in Clients |-> 0]
  /\ open = [c \in Clients |-> TRUE]
  /\ seen = [c \in Clients |-> 0]

Goto(c, s) == loop' = [loop EXCEPT ![c] = s]

\* AttachTerminal: history_bytes, under the scrollback lock alone; a second
\* one on the same connection finds writer_tx set.
TakeHistory(c) ==
  /\ replays < MaxReplays
  /\ \/ loop[c] = "new" /\ Goto(c, "history")
     \/ loop[c] = "serving" /\ Goto(c, "again")
  /\ taken' = [taken EXCEPT ![c] = output]
  /\ replays' = replays + 1
  /\ UNCHANGED <<output, reader, subscribers, open, channel>>

\* The replay opens a new channel, which nobody else knows yet; then subscribe
\* tests `exited`.
QueueHistory(c) ==
  LET charge == ReplayCharge(taken[c])
      replay == <<Replay(taken[c], charge)>>
  IN  /\ loop[c] = "history"
      /\ pending' = [pending EXCEPT ![c] = charge]
      /\ IF hasExited
           THEN /\ queue' = [queue EXCEPT ![c] = Append(replay, Exited)]
                /\ writer' = [writer EXCEPT ![c] = "running"]
                /\ Goto(c, "serving")
           ELSE /\ queue' = [queue EXCEPT ![c] = replay]
                /\ UNCHANGED writer
                /\ Goto(c, "subscribing")
      /\ taken' = [taken EXCEPT ![c] = 0]
      /\ UNCHANGED <<output, reader, subscribers, replays, open, seen>>

\* subscribe's push and the start of the writer thread.  If the socket cannot
\* be cloned for it the connection ends, and the receiver with it.
Subscribe(c) ==
  /\ loop[c] = "subscribing"
  /\ subscribers' = subscribers \cup {c}
  /\ \/ /\ Goto(c, "serving")
        /\ writer' = [writer EXCEPT ![c] = "running"]
        /\ UNCHANGED queue
     \/ /\ Goto(c, "over")
        /\ writer' = [writer EXCEPT ![c] = "over"]
        /\ queue' = [queue EXCEPT ![c] = <<>>]
  /\ UNCHANGED <<output, reader, taken, replays, open, pending, seen>>

\* Mutant: the re-attach queues its replay without charging it.
ChargeNothing(c) ==
  /\ loop[c] = "again"
  /\ Goto(c, "charged")
  /\ UNCHANGED <<output, reader, subscribers, taken, replays, open, channel>>

\* Re-attach: charge the replay, then queue it behind the live output.
ChargeReplay(c) ==
  /\ loop[c] = "again"
  /\ Goto(c, "charged")
  /\ pending' = [pending EXCEPT ![c] = @ + ReplayCharge(taken[c])]
  /\ UNCHANGED <<output, reader, subscribers, taken, replays, open, writer, queue, seen>>

QueueReplay(c) ==
  LET charge == ReplayCharge(taken[c])
  IN  /\ loop[c] = "charged"
      /\ Goto(c, "serving")
      /\ \/ /\ writer[c] # "over"
            /\ queue' = [queue EXCEPT ![c] = Append(@, Replay(taken[c], charge))]
            /\ UNCHANGED pending
         \/ /\ writer[c] = "over"
            /\ pending' = [pending EXCEPT ![c] = @ - charge]
            /\ UNCHANGED queue
      /\ taken' = [taken EXCEPT ![c] = 0]
      /\ UNCHANGED <<output, reader, subscribers, replays, open, writer, seen>>

\* The loop thread returns: a Detach, end of file, a failed read, or a write to
\* a PTY that is gone.  The writer thread and the subscription stay.
LoopEnds(c) ==
  /\ loop[c] = "serving"
  /\ Goto(c, "over")
  /\ UNCHANGED <<output, reader, subscribers, taken, replays, open, channel>>

\* The client closes its end of the socket, which only its writer thread can
\* tell from a Detach.
HangUp(c) ==
  /\ open[c] /\ writer[c] = "running"
  /\ open' = [open EXCEPT ![c] = FALSE]
  /\ UNCHANGED <<output, reader, subscribers, loop, taken, replays, channel>>

WriterEnds(c) ==
  /\ writer' = [writer EXCEPT ![c] = "over"]
  /\ queue' = [queue EXCEPT ![c] = <<>>]
  /\ seen' = [seen EXCEPT ![c] = 0]

\* Mutant: a written message stays on the counter.
WriteUndischarged(c) ==
  /\ writer[c] = "running" /\ queue[c] # <<>>
  /\ LET m == Head(queue[c])
     IN  \/ /\ ~open[c] \/ IsNotice(m)
            /\ WriterEnds(c)
         \/ /\ open[c] /\ ~IsNotice(m)
            /\ queue' = [queue EXCEPT ![c] = Tail(@)]
            /\ seen' = [seen EXCEPT ![c] = IF m.chunk > @ THEN m.chunk ELSE @]
            /\ UNCHANGED writer
  /\ UNCHANGED <<output, reader, subscribers, pending, connection>>

\* The writer thread: the socket takes the next message, and its charge comes
\* off the counter.  A notice becomes a ServerShutdown frame and is the last.
Write(c) ==
  /\ writer[c] = "running" /\ queue[c] # <<>>
  /\ LET m == Head(queue[c])
     IN  \/ /\ ~open[c] \/ IsNotice(m)
            /\ WriterEnds(c)
            /\ UNCHANGED pending
         \/ /\ open[c] /\ ~IsNotice(m)
            /\ queue' = [queue EXCEPT ![c] = Tail(@)]
            /\ pending' = [pending EXCEPT ![c] = @ - m.charge]
            /\ seen' = [seen EXCEPT ![c] = IF m.chunk > @ THEN m.chunk ELSE @]
            /\ UNCHANGED writer
  /\ UNCHANGED <<output, reader, subscribers, connection>>
-----------------------------------------------------------------------------
\* append_output, first half: the scrollback.
AppendOutput ==
  /\ reader = "reading" /\ output < MaxOutput
  /\ output' = output + 1
  /\ reader' = "appended"
  /\ UNCHANGED <<subscribers, connection, channel>>

\* The subscribers that have a receiver, and those that get the chunk but are
\* then above the cap.
Reached == {c \in subscribers : writer[c] # "over"}
Stalled == {c \in Reached : pending[c] + 1 > PendingCap}

\* Mutant: a subscriber above the cap misses the chunk and stays.
FanOutLossy ==
  /\ reader = "appended"
  /\ reader' = "reading"
  /\ subscribers' = Reached
  /\ queue' = [c \in Clients |->
                 IF c \in Reached \ Stalled THEN Append(queue[c], Output(output)) ELSE queue[c]]
  /\ pending' = [c \in Clients |->
                   IF c \in Reached \ Stalled THEN pending[c] + 1 ELSE pending[c]]
  /\ UNCHANGED <<output, connection, writer, seen>>

\* Mutant: a subscriber above the cap is shed without the notice.
FanOutSilently ==
  /\ reader = "appended"
  /\ reader' = "reading"
  /\ subscribers' = Reached \ Stalled
  /\ queue' = [c \in Clients |->
                 IF c \in Reached THEN Append(queue[c], Output(output)) ELSE queue[c]]
  /\ pending' = [c \in Clients |-> IF c \in Reached THEN pending[c] + 1 ELSE pending[c]]
  /\ UNCHANGED <<output, connection, writer, seen>>

\* Mutant: the chunk is queued before it is charged.
FanOutUncharged ==
  /\ reader = "appended"
  /\ reader' = "reading"
  /\ subscribers' = Reached
  /\ queue' = [c \in Clients |->
                 IF c \in Reached THEN Append(queue[c], Output(output)) ELSE queue[c]]
  /\ UNCHANGED <<output, connection, writer, pending, seen>>

\* append_output, second half, under the subscribers lock: the chunk is charged
\* and queued; a subscriber above the cap gets an Overflow notice behind it and
\* is shed; one without a receiver is refunded and dropped.
FanOut ==
  /\ reader = "appended"
  /\ reader' = "reading"
  /\ subscribers' = Reached \ Stalled
  /\ queue' = [c \in Clients |->
                 IF c \in Stalled THEN queue[c] \o <<Output(output), Overflow>>
                 ELSE IF c \in Reached THEN Append(queue[c], Output(output)) ELSE queue[c]]
  /\ pending' = [c \in Clients |-> IF c \in Reached THEN pending[c] + 1 ELSE pending[c]]
  /\ UNCHANGED <<output, connection, writer, seen>>

\* notify_exited: `exited` first, then the notices under the subscribers lock.
Exit ==
  /\ reader = "reading"
  /\ reader' = "exiting"
  /\ UNCHANGED <<output, subscribers, connection, channel>>

NotifyExited ==
  /\ reader = "exiting"
  /\ reader' = "over"
  /\ subscribers' = Reached
  /\ queue' = [c \in Clients |-> IF c \in Reached THEN Append(queue[c], Exited) ELSE queue[c]]
  /\ UNCHANGED <<output, connection, writer, pending, seen>>

Reads == AppendOutput \/ FanOut \/ Exit \/ NotifyExited

Attaches(c) == QueueHistory(c) \/ Subscribe(c) \/ ChargeReplay(c) \/ QueueReplay(c)

Next ==
  \/ Reads
  \/ \E c \in Clients :
       TakeHistory(c) \/ Attaches(c) \/ Write(c) \/ LoopEnds(c) \/ HangUp(c)

\* Threads run while they can.  A client that neither reads nor closes its
\* socket blocks its writer, so the progress of Write is an assumption on it.
Fairness ==
  /\ WF_vars(FanOut \/ NotifyExited)
  /\ \A c \in Clients : WF_vars(Attaches(c)) /\ WF_vars(Write(c))

Spec == Init /\ [][Next]_vars /\ Fairness
-----------------------------------------------------------------------------
\* What the runtime, its threads and its channels can hold.
TypeOK ==
  /\ output \in Chunks
  /\ reader \in ReaderStages
  /\ subscribers \subseteq Clients
  /\ loop \in [Clients -> LoopStages]
  /\ taken \in [Clients -> Chunks]
  /\ replays \in 0 .. MaxReplays
  /\ writer \in [Clients -> {"none", "running", "over"}]
  /\ queue \in [Clients -> Seq(Message)]
  /\ pending \in [Clients -> Nat]
  /\ open \in [Clients -> BOOLEAN]
  /\ seen \in [Clients -> Chunks]

\* The sum of a sequence of numbers.
Total(s) ==
  LET sum[i \in 0 .. Len(s)] == IF i = 0 THEN 0 ELSE sum[i - 1] + s[i]
  IN  sum[Len(s)]

Charges(q) == Total([i \in DOMAIN q |-> q[i].charge])

\* How many messages of a kind are queued.
Number(q, k) == Total([i \in DOMAIN q |-> IF q[i].kind = k THEN 1 ELSE 0])

\* While a writer runs its counter is the charge of what it has still to write,
\* and of the replay its loop thread is about to queue: it neither wraps below
\* zero nor keeps a debt that would shed a client that has caught up.
Balanced ==
  \A c \in Clients : writer[c] = "running" =>
    pending[c] = Charges(queue[c]) + IF loop[c] = "charged" THEN ReplayCharge(taken[c]) ELSE 0

\* The chunk the subscribers were last given.
fanned == IF reader = "appended" THEN output - 1 ELSE output

\* Between the replay and a notice a subscriber is given every chunk, once and
\* in order: a queued chunk is followed by the next one, and the last chunk of a
\* subscriber is the present one.
NeverSilentlyDropped ==
  \A c \in Clients :
    LET q    == queue[c]
        live == {i \in DOMAIN q : q[i].kind = "output"}
    IN  /\ \A i, j \in live :
             i < j /\ (\A k \in live : k <= i \/ j <= k) => q[j].chunk = q[i].chunk + 1
        /\ \A i \in live : c \in subscribers /\ (\A k \in live : k <= i) => q[i].chunk = fanned

\* A client is shed for its own backlog only: what it has left unread exceeds
\* the cap, and with one replay to read it is live output, more than the caps
\* are apart, that makes it so.
ShedOnlyTheStalled ==
  [][\A c \in Clients :
       Len(queue'[c]) > Len(queue[c]) /\ queue'[c][Len(queue'[c])] = Overflow =>
         /\ pending'[c] > PendingCap
         /\ loop[c] # "charged" /\ Number(queue'[c], "replay") < 2 =>
              Number(queue'[c], "output") > PendingCap - ScrollbackCap]_vars

\* An attached client that is fed no more, because it was shed or the shell has
\* exited, is told so if it goes on reading, and its writer thread ends.
EndIsTold ==
  \A c \in Clients :
    writer[c] = "running" /\ (c \notin subscribers \/ (reader = "exiting" /\ c \in subscribers))
      ~> writer[c] = "over"

\* TerminalSubscriber's comment: a client never silently loses output.  The
\* first live chunk a client gets follows its replay, or is in it.
LiveFollowsReplay ==
  [][\A c \in Clients :
       seen'[c] > seen[c] /\ Head(queue[c]).kind = "output" => seen'[c] = seen[c] + 1]_vars
=============================================================================
