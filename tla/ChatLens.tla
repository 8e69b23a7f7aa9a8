------------------------------ MODULE ChatLens ------------------------------
(***************************************************************************)
(* The chat lens: jcode's session files, the server that answers for them  *)
(* (src/src/chat_lens.rs, src/src/jcode_transcript.rs) and the desktop     *)
(* page that polls (src/src/assets/desktop/app_js/lens.js).  An answer is  *)
(* cut from two files read one after the other, cached by their stamps and *)
(* held back when the page's tag is current; the page keeps the newest     *)
(* page, the older ones it loaded, and one poll and any load in flight.    *)
(***************************************************************************)
EXTENDS Integers, SequencesExt, SequenceParts

CONSTANTS
  LensPanes, ChatPanes, \* the panes, and those whose agent has a transcript
  ChatSessions, \* jcode's sessions, all Active in the panes' directory
  InTree,     \* the pane whose process tree holds a session's pid, or NoOne
  FirstInView,
  NoOne,      \* no pane, no session
  Loads,      \* calls of loadOlder
  Written,    \* turns each session begins with, in a snapshot
  PageTurns,  \* PAGE_TURNS (100 in the code)
  WalkPages,  \* bound of turnsBetween (32 in the code)
  LensTurns   \* bound on what agents and users do, and on requests that fail

\* A turn of a session, the stamps of its two files, the place a page starts at
\* and the version of a page.
TurnIds    == ChatSessions \X Nat
FileStamps == Nat \X Nat
Cursors    == [gen : FileStamps, turn : TurnIds]
Tags       == ChatSessions \X FileStamps
Pages == [turns : Seq(TurnIds), cursor : Cursors \cup {NoOne}, tag : Tags \cup {NoOne}]

Requests ==
  [at : {"stamped", "reading", "answered"}, pane : ChatPanes,
   before : Cursors \cup {NoOne}, from : Cursors \cup {NoOne}, tag : Tags \cup {NoOne},
   of : ChatSessions \cup {NoOne}, gen : FileStamps \cup {NoOne}, base : Seq(TurnIds),
   kind : {"none", "page", "same", "changed", "refused", "failed"}, page : Pages]

ASSUME LensAssumption ==
  /\ ChatPanes \subseteq LensPanes /\ FirstInView \in ChatPanes
  /\ NoOne \notin LensPanes \cup ChatSessions \cup Loads /\ "poll" \notin Loads
  /\ NoOne \notin Tags /\ NoOne \notin Requests
  /\ InTree \in [ChatSessions -> LensPanes \cup {NoOne}]
  /\ {Written, PageTurns, WalkPages} \subseteq Nat \ {0}
  /\ LensTurns \in Nat

VARIABLES
  snapshot,   \* per session, the .json file: its stamp and its turns
  journal,    \* and the .journal.jsonl; stamp 0 when there is none
  marker,     \* the session a pane's client last named under its pid
  lensTurns,  \* how much of the bound is used
  turnsCache, \* turns_cache: per session the stamps and the turns
  fetched,    \* the requests in flight, the poll's and the loads'
  inView,     \* the pane of the page's state
  lastPane,   \* lastPaneKey: the pane onPaneChanged was last told
  lensOpen, reopen, \* lensActive, autoReopenOnChatPane
  hurried,    \* has a shell been left before the page had connected to it?
  chat,       \* what the page keeps of a conversation; see ResetChat
  polling,    \* where pollConversation is
  pollTimer, pollQueued

fileVars == <<snapshot, journal, marker, lensTurns>>
viewedVars == <<inView, lastPane, lensOpen, reopen, hurried>>
pollVars == <<chat, polling, pollTimer, pollQueued>>
lensVars == <<fileVars, turnsCache, fetched, viewedVars, pollVars>>

NoPage == [turns |-> <<>>, cursor |-> NoOne, tag |-> NoOne]
Fetchers == Loads \cup {"poll"}

\* The turns of two files, a turn in both taken once (load_session_messages).
Joined(older, newer) == older \o Without(newer, ToSet(older))
Transcript(s) == Joined(snapshot[s].turns, journal[s].turns)

\* stat_generation of both files, which are never stamped alike.
Generation(s) == <<snapshot[s].stamp, journal[s].stamp>>
-----------------------------------------------------------------------------
(***************************************************************************)
(* The agent's process, which is not the repository's: it appends to the   *)
(* journal, at times writes a snapshot and then removes the journal, and   *)
(* its client may show another session.                                    *)
(***************************************************************************)
Untouched == UNCHANGED <<turnsCache, fetched, viewedVars, pollVars>>

Turns == lensTurns < LensTurns /\ lensTurns' = lensTurns + 1

Rotating(s) == journal[s].stamp # 0 /\ ToSet(journal[s].turns) \subseteq ToSet(snapshot[s].turns)

Stamps == {0} \cup UNION {{snapshot[s].stamp, journal[s].stamp} : s \in ChatSessions}
NextStamp == Max(Stamps) + 1

AgentAppends(s) ==
  /\ Turns /\ ~Rotating(s)
  /\ LET turn == <<s, Len(Transcript(s)) + 1>> IN
     journal' = [journal EXCEPT ![s] = [stamp |-> NextStamp, turns |-> Append(@.turns, turn)]]
  /\ Untouched /\ UNCHANGED <<snapshot, marker>>

AgentCheckpoints(s) ==
  /\ journal[s].stamp # 0 /\ ~Rotating(s)
  /\ snapshot' = [snapshot EXCEPT ![s] = [stamp |-> NextStamp, turns |-> Transcript(s)]]
  /\ Untouched /\ UNCHANGED <<journal, marker, lensTurns>>

AgentDropsJournal(s) ==
  /\ Rotating(s)
  /\ journal' = [journal EXCEPT ![s] = [stamp |-> 0, turns |-> <<>>]]
  /\ Untouched /\ UNCHANGED <<snapshot, marker, lensTurns>>

ClientShows(p, s) ==
  /\ Turns /\ marker[p] # s
  /\ marker' = [marker EXCEPT ![p] = s]
  /\ Untouched /\ UNCHANGED <<snapshot, journal>>
-----------------------------------------------------------------------------
(***************************************************************************)
(* The server.  A request is resolved and stamped, and reads the files one *)
(* after the other under the cache's lock, unless the stamps are cached.   *)
(***************************************************************************)
\* JcodeStoreIndex::resolve: the one session of the pane's process tree, else
\* the one its client names, else the only one.  The match of the screen's text
\* is left out: sessions that nothing else tells apart are ambiguous.
Resolve(p) ==
  LET tree == {s \in ChatSessions : InTree[s] = p}
      named == {marker[p]} \cap ChatSessions
      Only(S) == \E s \in S : S = {s}
      The(S) == CHOOSE s \in S : TRUE
  IN  IF Only(tree) THEN The(tree)
      ELSE IF Only(named) THEN The(named)
      ELSE IF Only(ChatSessions) THEN The(ChatSessions)
      ELSE NoOne

Fetching(k) == fetched[k] # NoOne
Answered(k) == Fetching(k) /\ fetched[k].at = "answered"

Answer(f, kind, page) == [f EXCEPT !.at = "answered", !.kind = kind, !.page = page,
                                   !.base = <<>>, !.gen = NoOne, !.of = NoOne, !.tag = NoOne]

\* fetchConversation asks for the newest page, from an anchor, or for the page
\* before a cursor.  The server finds the session, refuses cursors of another,
\* and takes the version and the stamps before its lock is taken and anything
\* is read; what happens while the request travels might as well have happened
\* before.
Request(p, before, from, tag) ==
  LET s == Resolve(p)
      f == [at |-> "stamped", pane |-> p, before |-> before, from |-> from, tag |-> tag,
            of |-> s, gen |-> NoOne, base |-> <<>>, kind |-> "none", page |-> NoPage]
  IN  IF s = NoOne THEN Answer(f, "refused", NoPage)
      ELSE IF \E c \in {before, from} \ {NoOne} : c.turn[1] # s THEN Answer(f, "changed", NoPage)
      ELSE [f EXCEPT !.gen = Generation(s)]

PlaceOf(turns, cursor) == SelectInSeq(turns, LAMBDA t : t = cursor.turn)

\* The page that ends before the cursor, or at the end, no longer than
\* PageTurns and no earlier than the anchor; its cursor opens it, unless the
\* transcript does.
CutPage(f, turns) ==
  LET cut == IF f.before = NoOne THEN Len(turns) ELSE PlaceOf(turns, f.before) - 1
      anchor == IF f.from = NoOne THEN 1 ELSE PlaceOf(turns, f.from)
      held == IF anchor <= cut THEN anchor ELSE 1
      start == IF cut - PageTurns + 1 > held THEN cut - PageTurns + 1 ELSE held
  IN  [turns |-> SubSeq(turns, start, cut), tag |-> <<f.of, f.gen>>,
       cursor |-> IF start > 1 THEN [gen |-> f.gen, turn |-> turns[start]] ELSE NoOne]

\* What a request whose transcript is read is answered: a cursor whose turn is
\* not there is refused, and a page whose tag the caller has is not sent.
Reply(f, turns) ==
  IF \E c \in {f.before, f.from} \ {NoOne} : ~Contains(turns, c.turn)
    THEN Answer(f, "changed", NoPage)
  ELSE IF f.tag = <<f.of, f.gen>> THEN Answer(f, "same", NoPage)
  ELSE Answer(f, "page", CutPage(f, turns))

ServerOnly == UNCHANGED <<fileVars, viewedVars, pollVars>>

\* The lock is free: the cached turns are served, or dropped and the snapshot
\* is read.
Look(k) ==
  /\ Fetching(k) /\ fetched[k].at = "stamped"
  /\ \A j \in Fetchers : Fetching(j) => fetched[j].at # "reading"
  /\ LET f == fetched[k]  c == turnsCache[f.of] IN
     IF c.sig = f.gen
       THEN fetched' = [fetched EXCEPT ![k] = Reply(f, c.turns)] /\ UNCHANGED turnsCache
     ELSE /\ fetched' = [fetched EXCEPT ![k] = [f EXCEPT !.at = "reading",
                                                         !.base = snapshot[f.of].turns]]
          /\ turnsCache' = [turnsCache EXCEPT ![f.of] = [sig |-> NoOne, turns |-> <<>>]]
  /\ ServerOnly

\* Mutant: the files are stamped when they have been read.
ReadJournalStampedLate(k) ==
  /\ Fetching(k) /\ fetched[k].at = "reading"
  /\ LET f == [fetched[k] EXCEPT !.gen = Generation(fetched[k].of)]
         turns == Joined(f.base, journal[f.of].turns)
     IN  /\ turnsCache' = [turnsCache EXCEPT ![f.of] = [sig |-> f.gen, turns |-> turns]]
         /\ fetched' = [fetched EXCEPT ![k] = Reply(f, turns)]
  /\ ServerOnly

\* The journal is read on top, and the turns are kept under the stamps seen
\* before the lock was taken.
ReadJournal(k) ==
  /\ Fetching(k) /\ fetched[k].at = "reading"
  /\ LET f == fetched[k]  turns == Joined(f.base, journal[f.of].turns) IN
     /\ turnsCache' = [turnsCache EXCEPT ![f.of] = [sig |-> f.gen, turns |-> turns]]
     /\ fetched' = [fetched EXCEPT ![k] = Reply(f, turns)]
  /\ ServerOnly

\* The backend or the network fails.
RequestFails(k) ==
  /\ Turns /\ Fetching(k) /\ fetched[k].at = "stamped"
  /\ fetched' = [fetched EXCEPT ![k] = Answer(@, "failed", NoPage)]
  /\ UNCHANGED <<snapshot, journal, marker, turnsCache, viewedVars, pollVars>>
-----------------------------------------------------------------------------
(***************************************************************************)
(* The page.  A conversation is of a pane: its newest page, or the error   *)
(* shown instead; the older turns above it, the cursor that would load     *)
(* more of them and the anchor the poll starts at since the first load;    *)
(* and the anchor and the tag of the last poll that brought a page.        *)
(***************************************************************************)
ResetChat(p) ==
  [pane |-> p, turns |-> <<>>, error |-> "none", cursor |-> NoOne,
   held |-> NoOne, loading |-> "idle", from |-> NoOne, tag |-> NoOne]

DropOlder(c) == [c EXCEPT !.cursor = NoOne, !.held = NoOne, !.loading = "idle"]

Chatting(p) == p \in ChatPanes
Anchored(c) == IF inView # c.pane THEN ResetChat(inView) ELSE c

Idle == [at |-> "idle", held |-> NoOne, start |-> NoOne, steps |-> 0]

\* pollConversation, in a page whose conversation is c and whose other requests
\* are those of `out`: one poll at a time, which another call queues behind.
PollConversation(c, out) ==
  IF ~lensOpen \/ ~Chatting(inView)
    THEN chat' = c /\ fetched' = out /\ UNCHANGED <<polling, pollQueued>>
  ELSE /\ chat' = Anchored(c)
       /\ IF polling.at # "idle"
            THEN pollQueued' = TRUE /\ fetched' = out /\ UNCHANGED polling
          ELSE /\ polling' = [Idle EXCEPT !.at = "newest"]
               /\ fetched' = [out EXCEPT !["poll"] =
                    Request(inView, NoOne, chat'.held,
                            IF chat'.from = chat'.held THEN chat'.tag ELSE NoOne)]
               /\ UNCHANGED pollQueued

PageOnly == UNCHANGED <<fileVars, turnsCache>>

PollTimerFires ==
  /\ pollTimer /\ pollTimer' = FALSE
  /\ PollConversation(chat, fetched)
  /\ PageOnly /\ UNCHANGED viewedVars

\* The finally of pollConversation.
PollEnds ==
  /\ polling' = Idle /\ fetched' = [fetched EXCEPT !["poll"] = NoOne]
  /\ pollQueued' = FALSE
  /\ pollTimer' = (pollTimer \/ pollQueued \/ (lensOpen /\ Chatting(inView)))

\* The poll goes on with another request.
PollAsks(stage, before) ==
  /\ polling' = stage
  /\ fetched' = [fetched EXCEPT !["poll"] = Request(@.pane, before, NoOne, NoOne)]
  /\ UNCHANGED <<pollQueued, pollTimer>>

\* Is the answer of the pane the page still shows?
Mine(f) == f.pane = chat.pane /\ lensOpen

PollHears(at) == Answered("poll") /\ polling.at = at /\ PageOnly /\ UNCHANGED viewedVars

\* The first answer of a poll: of a pane that was left, or nothing new.
HearsNothing ==
  /\ PollHears("newest")
  /\ ~Mine(fetched["poll"]) \/ fetched["poll"].kind = "same"
  /\ PollEnds /\ UNCHANGED chat

HearsFailure ==
  /\ PollHears("newest")
  /\ Mine(fetched["poll"]) /\ fetched["poll"].kind \in {"refused", "failed"}
  /\ chat' = [chat EXCEPT !.error = fetched["poll"].kind]
  /\ PollEnds

\* The anchor is of another history: everything older goes, and the newest
\* page is asked for once more.
HearsChanged ==
  /\ PollHears("newest")
  /\ Mine(fetched["poll"]) /\ fetched["poll"].kind = "changed"
  /\ chat' = [DropOlder(chat) EXCEPT !.error = "none", !.from = NoOne, !.tag = NoOne]
  /\ PollAsks([Idle EXCEPT !.at = "again"], NoOne)

\* A page whose start is not the anchor's has slid, and the turns between them
\* are fetched.
HearsPage ==
  /\ PollHears("newest")
  /\ Mine(fetched["poll"]) /\ fetched["poll"].kind = "page"
  /\ LET f == fetched["poll"]  page == f.page
         slid == chat.held # NoOne /\ page.cursor \notin {NoOne, chat.held}
     IN  /\ chat' = [chat EXCEPT !.turns = page.turns, !.error = "none", !.from = f.from,
              !.tag = page.tag,
              !.cursor = IF chat.held = NoOne THEN page.cursor ELSE @,
              !.held = IF page.cursor = NoOne THEN NoOne ELSE @]
         /\ IF slid THEN PollAsks([Idle EXCEPT !.at = "walk", !.held = chat.held,
                                               !.start = page.cursor], page.cursor)
            ELSE PollEnds

\* turnsBetween: page by page back to the anchor.  Cursors carry the version of
\* the page that named them, and are compared whole.
WalksBack ==
  /\ PollHears("walk")
  /\ LET f == fetched["poll"]
         steps == polling.steps + 1
         lost == f.kind # "page" \/ f.page.cursor = NoOne
         joins == f.page.cursor = polling.held
     IN  IF lost THEN /\ chat' = DropOlder(chat)
                      /\ PollAsks([Idle EXCEPT !.at = "fresh"], NoOne)
         ELSE IF joins THEN /\ chat' = [chat EXCEPT !.held = polling.start]
                            /\ PollEnds
         ELSE IF steps = WalkPages THEN /\ chat' = DropOlder(chat)
                                        /\ PollAsks([Idle EXCEPT !.at = "fresh", !.steps = steps],
                                                    NoOne)
         ELSE /\ PollAsks([polling EXCEPT !.steps = steps], f.page.cursor)
              /\ UNCHANGED chat

\* The clean fetch after the older pages were dropped.  Only a walk that came to
\* its bound keeps the cursor to load from.
HearsFresh(at) ==
  /\ PollHears(at)
  /\ LET f == fetched["poll"]  page == f.page
         bounded == polling.steps # 0 /\ page.cursor # NoOne
     IN  chat' = IF f.kind = "page"
                   THEN IF ~Mine(f) THEN chat
                        ELSE [chat EXCEPT !.turns = page.turns, !.from = NoOne, !.tag = page.tag,
                                          !.cursor = IF bounded THEN page.cursor ELSE @]
                 ELSE IF at = "again" THEN [chat EXCEPT !.error = "changed"]
                 ELSE IF Mine(f) THEN [chat EXCEPT !.error = f.kind]
                 ELSE chat
  /\ PollEnds
-----------------------------------------------------------------------------
\* refreshConversation, which queues behind a poll in flight.
Refresh(c, out) ==
  /\ IF polling.at # "idle" /\ lensOpen /\ Chatting(inView)
       THEN chat' = c /\ fetched' = out /\ pollQueued' = TRUE /\ UNCHANGED polling
     ELSE PollConversation(c, out)
  /\ pollTimer' = (pollTimer /\ chat'.pane = chat.pane)

\* A message was submitted.
Submitted ==
  /\ Turns /\ Refresh(chat, fetched)
  /\ UNCHANGED <<snapshot, journal, marker, turnsCache, viewedVars>>

\* loadOlder, from the control above the turns.
LoadOlder(o) ==
  /\ Turns /\ lensOpen /\ inView = chat.pane /\ chat.turns # <<>> /\ chat.error = "none"
  /\ chat.loading # "loading" /\ chat.cursor # NoOne /\ ~Fetching(o)
  /\ chat' = [chat EXCEPT !.loading = "loading"]
  /\ fetched' = [fetched EXCEPT ![o] = Request(chat.pane, chat.cursor, NoOne, NoOne)]
  /\ UNCHANGED <<snapshot, journal, marker, turnsCache, viewedVars, polling, pollTimer, pollQueued>>

OlderHears(o) ==
  /\ Answered(o)
  /\ LET f == fetched[o]  page == f.page
         out == [fetched EXCEPT ![o] = NoOne]
         failed == f.kind \in {"refused", "failed"}
         first == chat.held = NoOne
         more == [chat EXCEPT !.held = IF first THEN f.before ELSE @,
                              !.cursor = page.cursor, !.loading = "idle"]
     IN  IF ~Mine(f) \/ failed \/ (f.kind = "page" /\ ~first)
           THEN /\ chat' = IF ~Mine(f) THEN chat
                           ELSE IF failed THEN [chat EXCEPT !.loading = "failed"]
                           ELSE more
                /\ fetched' = out /\ UNCHANGED <<polling, pollTimer, pollQueued>>
         ELSE Refresh(IF f.kind = "changed" THEN DropOlder(chat) ELSE more, out)
  /\ PageOnly /\ UNCHANGED viewedVars
-----------------------------------------------------------------------------
(***************************************************************************)
(* The user opens and closes the lens and goes to another pane, of which   *)
(* onPaneChanged is told when the page has connected to it.                *)
(***************************************************************************)
ViewOnly == UNCHANGED <<snapshot, journal, marker, turnsCache, fetched, polling,
                        pollQueued>>

\* setLens.
OpenLens ==
  /\ Turns /\ ~lensOpen /\ lensOpen' = TRUE /\ reopen' = FALSE
  /\ IF Chatting(inView) THEN chat' = Anchored(chat) /\ pollTimer' = TRUE
     ELSE UNCHANGED <<chat, pollTimer>>
  /\ ViewOnly /\ UNCHANGED <<inView, lastPane, hurried>>

CloseLens ==
  /\ Turns /\ lensOpen /\ lensOpen' = FALSE /\ reopen' = FALSE /\ pollTimer' = FALSE
  /\ ViewOnly /\ UNCHANGED <<inView, lastPane, hurried, chat>>

GoToPane(p) ==
  /\ Turns /\ inView # p /\ inView' = p
  /\ hurried' = (hurried \/ (~Chatting(inView) /\ inView # lastPane))
  /\ ViewOnly /\ UNCHANGED <<lastPane, lensOpen, reopen, chat, pollTimer>>

\* A shell closes a chat's lens, which opens again on the next chat.
OnPaneChanged ==
  /\ inView # lastPane /\ lastPane' = inView
  /\ LET forced == lensOpen /\ ~Chatting(inView) /\ chat.pane # NoOne
         back == ~lensOpen /\ reopen /\ Chatting(inView)
     IN  /\ lensOpen' = ((lensOpen /\ ~forced) \/ back)
         /\ reopen' = (forced \/ (reopen /\ ~back))
  /\ IF lensOpen' /\ Chatting(inView) THEN chat' = Anchored(chat) /\ pollTimer' = TRUE
     ELSE /\ UNCHANGED chat
          /\ pollTimer' = (pollTimer /\ ~lensOpen /\ ~lensOpen')
  /\ ViewOnly /\ UNCHANGED <<lensTurns, inView, hurried>>
-----------------------------------------------------------------------------
\* The lens has just been opened, or has not been opened yet.
ChatInit ==
  /\ snapshot = [s \in ChatSessions |->
                   [stamp |-> 1, turns |-> [n \in 1..Written |-> <<s, n>>]]]
  /\ journal = [s \in ChatSessions |-> [stamp |-> 0, turns |-> <<>>]]
  /\ marker \in [ChatPanes -> ChatSessions \cup {NoOne}]
  /\ lensTurns = 0
  /\ turnsCache = [s \in ChatSessions |-> [sig |-> NoOne, turns |-> <<>>]]
  /\ fetched = [k \in Fetchers |-> NoOne]
  /\ inView = FirstInView /\ lastPane = FirstInView
  /\ lensOpen \in BOOLEAN /\ reopen = FALSE /\ hurried = FALSE
  /\ chat = ResetChat(IF lensOpen THEN FirstInView ELSE NoOne) /\ polling = Idle
  /\ pollTimer = lensOpen /\ pollQueued = FALSE

Agents ==
  \/ \E s \in ChatSessions : AgentAppends(s) \/ AgentCheckpoints(s) \/ AgentDropsJournal(s)
  \/ \E p \in ChatPanes, s \in ChatSessions \cup {NoOne} : ClientShows(p, s)

ServerSteps(k) == Look(k) \/ ReadJournal(k)

PollSteps ==
  \/ PollTimerFires \/ HearsNothing \/ HearsFailure \/ HearsChanged \/ HearsPage
  \/ WalksBack \/ HearsFresh("fresh") \/ HearsFresh("again")

Viewer == OpenLens \/ CloseLens \/ Submitted \/ \E p \in LensPanes : GoToPane(p)

ChatNext ==
  \/ Agents \/ Viewer \/ OnPaneChanged \/ PollSteps
  \/ \E k \in Fetchers : ServerSteps(k) \/ RequestFails(k)
  \/ \E o \in Loads : LoadOlder(o) \/ OlderHears(o)

\* Requests are answered and answers are heard, timers fire, and the page is
\* told of its panes.
ChatFairness ==
  /\ WF_lensVars(PollSteps) /\ WF_lensVars(OnPaneChanged)
  /\ \A k \in Fetchers : WF_lensVars(ServerSteps(k))
  /\ \A o \in Loads : WF_lensVars(OlderHears(o))

ChatSpec == ChatInit /\ [][ChatNext]_lensVars /\ ChatFairness
-----------------------------------------------------------------------------
Files == [stamp : Nat, turns : Seq(TurnIds)]
Cached == [sig : FileStamps \cup {NoOne}, turns : Seq(TurnIds)]

Chats == [pane : ChatPanes \cup {NoOne}, turns : Seq(TurnIds),
          error : {"none", "refused", "failed", "changed"},
          cursor : Cursors \cup {NoOne}, held : Cursors \cup {NoOne},
          loading : {"idle", "loading", "failed"},
          from : Cursors \cup {NoOne}, tag : Tags \cup {NoOne}]

Polls == [at : {"idle", "newest", "walk", "fresh", "again"}, held : Cursors \cup {NoOne},
          start : Cursors \cup {NoOne}, steps : 0 .. WalkPages]

\* The state is well typed: every cursor names a turn of a session.  A poll has
\* a request exactly while it is under way, and a walk has not used up its pages.
ChatTypeOK ==
  /\ snapshot \in [ChatSessions -> Files] /\ journal \in [ChatSessions -> Files]
  /\ marker \in [ChatPanes -> ChatSessions \cup {NoOne}] /\ lensTurns \in 0 .. LensTurns
  /\ turnsCache \in [ChatSessions -> Cached]
  /\ fetched \in [Fetchers -> Requests \cup {NoOne}]
  /\ inView \in LensPanes /\ lastPane \in LensPanes
  /\ lensOpen \in BOOLEAN /\ reopen \in BOOLEAN /\ hurried \in BOOLEAN
  /\ pollTimer \in BOOLEAN /\ pollQueued \in BOOLEAN
  /\ chat \in Chats /\ polling \in Polls
  /\ Fetching("poll") <=> polling.at # "idle"
  /\ polling.at = "walk" => polling.steps < WalkPages

\* The newest page is the end of the pane's own conversation.
ShowsTail ==
  LET whole == Transcript(Resolve(chat.pane))  n == Len(chat.turns) IN
  /\ chat.error = "none" /\ n \in 1..Len(whole)
  /\ chat.turns = SubSeq(whole, Len(whole) - n + 1, Len(whole))

\* An error that a tag which is still current keeps on the screen: the answer
\* to the poll after it says that nothing is new.
RefusedUnchanged ==
  /\ chat.error # "none" /\ chat.from = chat.held
  /\ chat.tag = <<Resolve(chat.pane), Generation(Resolve(chat.pane))>>

\* The poll found a shell in view and stopped, and onPaneChanged, which was
\* never told of the shell, has not started it again.
PollLost == hurried /\ ~pollTimer /\ polling.at = "idle"

\* An open lens comes to show the end of its pane's conversation, or says why
\* it cannot: whatever files were written between two reads, whatever was
\* answered late, from the cache, by a tag or for a pane that was left
\* (conversation_payload_with, pollConversation, loadOlder).
ChatCatchesUp ==
  <>[](\/ ~lensOpen \/ ~Chatting(inView) \/ PollLost
       \/ IF Resolve(inView) = NoOne THEN chat.error # "none"
          ELSE chat.pane = inView /\ (ShowsTail \/ RefusedUnchanged))
=============================================================================
