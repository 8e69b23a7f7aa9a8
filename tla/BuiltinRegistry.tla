--------------------------- MODULE BuiltinRegistry ---------------------------
(***************************************************************************)
(* The session registry of the built-in terminal multiplexer               *)
(* (src/src/builtin_backend.rs, BuiltinState and BuiltinData): workspaces, *)
(* tabs, panes and terminal runtimes, the focused surface, and the API     *)
(* requests that change them.  Every API connection runs on a thread of    *)
(* its own, so requests interleave at each release of the one data lock.   *)
(* A request that spawns a shell, probes a live directory or runs git does *)
(* so with the lock released; those requests have several steps here.      *)
(*                                                                         *)
(* Abstractions.  The ids one creation draws (ws_n, tab_n+1, pane_n+2,     *)
(* term_n+3) differ in prefix, so the model gives the whole bundle one     *)
(* number.  A path stands for the canonical directory it resolves to.      *)
(* Labels, argv and the JSON answers are left out.                         *)
(***************************************************************************)
EXTENDS Naturals, Sequences, FiniteSets, Functions

CONSTANTS
  Requests,   \* the API requests that can be in progress at once
  Paths,      \* canonical directories
  Methods,    \* the API methods that clients of this run call
  MaxId       \* bound on the id counter (the code's is a u64)

ASSUME MaxIdAssumption == MaxId \in Nat

VARIABLES
  nextId,       \* BuiltinData.next_id
  workspaces,   \* id -> [cwd, tabs]: WorkspaceRecord, tabs in tab_ids order
  tabs,         \* id -> [ws, panes]: TabRecord
  panes,        \* id -> [ws, tab, term]: PaneRecord
  runtimes,     \* id -> [running, arcs]: the TerminalRuntimes in memory
  focus,        \* focused_workspace_id, focused_tab_id, focused_pane_id
  job,          \* what each request holds between two lock scopes
  unannounced,  \* has the registry changed since the last published event?
  bereft        \* workspaces whose checkout git deleted while they were open

vars == <<nextId, workspaces, tabs, panes, runtimes, focus, job, unannounced, bereft>>
registry == <<nextId, workspaces, tabs, panes, runtimes, focus, unannounced, bereft>>
-----------------------------------------------------------------------------
None == 0               \* Option::None; ids start at 1
Ids == Nat \ {None}

\* Who owns an Arc<TerminalRuntime>: the request that spawned it, the
\* registry's terminals map, or the reader and sweeper threads.
Owners == {"request", "registry", "threads"}

Workspace == [cwd : Paths, tabs : Seq(Ids)]
Tab       == [ws : Ids, panes : Seq(Ids)]
Pane      == [ws : Ids, tab : Ids, term : Ids]
Runtime   == [running : BOOLEAN, arcs : SUBSET Owners]
Focus     == [ws : Ids \cup {None}, tab : Ids \cup {None}, pane : Ids \cup {None}]

\* A request at rest or about to publish its event; with a shell to spawn and
\* insert; between finding no open checkout and creating one; between the live
\* directory probe and the re-parenting; around `git worktree remove`.
Job ==
       [stage : {"idle", "publish"}]
  \cup [stage : {"spawn", "insert"}, kind : {"workspace", "bare", "tab"},
        id : Ids, ws : Ids, cwd : Paths, focus : BOOLEAN]
  \cup [stage : {"open"}, cwd : Paths, shell : BOOLEAN]
  \cup [stage : {"promote"}, tab : Ids, cwd : Paths]
  \cup [stage : {"git", "teardown"}, cwd : Paths, matches : SUBSET Ids]

Idle    == [stage |-> "idle"]
Publish == [stage |-> "publish"]

\* The keys of the terminals map.
Terminals == {t \in DOMAIN runtimes : "registry" \in runtimes[t].arcs}
-----------------------------------------------------------------------------
Insert(f, k, v) == [x \in DOMAIN f \cup {k} |-> IF x = k THEN v ELSE f[x]]

\* Vec::retain(|id| id != x) on an id list, whose entries are distinct.
Without(s, x) ==
  IF x \in Range(s)
    THEN LET i == CHOOSE j \in DOMAIN s : s[j] = x
         IN  [j \in 1 .. Len(s) - 1 |-> IF j < i THEN s[j] ELSE s[j + 1]]
    ELSE s

FirstOrNone(s) == IF s = <<>> THEN None ELSE Head(s)

At(p) == {w \in DOMAIN workspaces : workspaces[w].cwd = p}

\* Dropping owner o of the runtimes T; a runtime without owners is dropped,
\* which is where TerminalRuntime::drop kills a child that still runs.
Release(T, o) ==
  LET left == [t \in DOMAIN runtimes |->
                 IF t \in T THEN [runtimes[t] EXCEPT !.arcs = @ \ {o}] ELSE runtimes[t]]
  IN  Restrict(left, {t \in DOMAIN left : left[t].arcs # {}})

\* Mutant: a workspace without tabs does not keep the focus.
FocusTargetsWithTabs(W, f) ==
  IF f.ws \in DOMAIN W /\ W[f.ws].tabs # <<>> THEN {f.ws}
  ELSE IF DOMAIN W # {} THEN DOMAIN W ELSE {None}

FocusTargets(W, f) ==
  IF f.ws \in DOMAIN W THEN {f.ws}
  ELSE IF DOMAIN W # {} THEN DOMAIN W ELSE {None}

(***************************************************************************)
(* normalize_focus over the maps it is called with.  It keeps the focused  *)
(* workspace if that still exists and otherwise takes any (HashMap order); *)
(* a tab of another workspace gives way to the first tab, a pane of        *)
(* another tab to the first pane.                                          *)
(***************************************************************************)
NormalFocus(W, T, P, f) ==
  LET tabIn(w)  == IF f.tab \in DOMAIN T /\ T[f.tab].ws = w THEN f.tab
                   ELSE FirstOrNone(W[w].tabs)
      paneIn(t) == IF f.pane \in DOMAIN P /\ P[f.pane].tab = t THEN f.pane
                   ELSE IF t \in DOMAIN T THEN FirstOrNone(T[t].panes) ELSE None
  IN  {IF w = None THEN [ws |-> None, tab |-> None, pane |-> None]
       ELSE [ws |-> w, tab |-> tabIn(w), pane |-> paneIn(tabIn(w))] : w \in FocusTargets(W, f)}

\* close_pane_locked on the panes and terminals maps, for every pane of Q.
DropPanes(Q) ==
  /\ panes' = Restrict(panes, DOMAIN panes \ Q)
  /\ runtimes' = Release({panes[p].term : p \in Q}, "registry")

PanesOf(T) == UNION {Range(tabs[t].panes) : t \in T}

\* close_tab_locked: the tab, its panes, and its entry in its workspace's list.
DropTab(t) ==
  /\ tabs' = Restrict(tabs, DOMAIN tabs \ {t})
  /\ workspaces' = [workspaces EXCEPT ![tabs[t].ws].tabs = Without(@, t)]
  /\ DropPanes(PanesOf({t}))

\* The teardown close_workspace and worktree_remove share.  A workspace leaves
\* the map before its tabs close, so close_tab_locked finds no list to edit.
DropWorkspaces(V) ==
  LET T == UNION {Range(workspaces[w].tabs) : w \in V}
  IN  /\ workspaces' = Restrict(workspaces, DOMAIN workspaces \ V)
      /\ tabs' = Restrict(tabs, DOMAIN tabs \ T)
      /\ DropPanes(PanesOf(T))

\* Mutant: normalizes the focus from before the request.
RefocusStale(f) == focus' \in NormalFocus(workspaces', tabs', panes', focus)

Refocus(f) == focus' \in NormalFocus(workspaces', tabs', panes', f)
-----------------------------------------------------------------------------
Init ==
  /\ nextId = 1
  /\ workspaces = <<>> /\ tabs = <<>> /\ panes = <<>> /\ runtimes = <<>>
  /\ focus = [ws |-> None, tab |-> None, pane |-> None]
  /\ job = [r \in Requests |-> Idle]
  /\ unannounced = FALSE
  /\ bereft = {}

Step(r, next) == job' = [job EXCEPT ![r] = next]

\* Mutant: the event is not published.
CommitSilently(r) == Step(r, Idle) /\ unannounced' = TRUE

\* A handler that changed the registry has released the lock and is about to
\* publish; one that failed answers with an error and publishes nothing.
Commit(r) == Step(r, Publish) /\ unannounced' = TRUE
Fail(r)   == Step(r, Idle) /\ UNCHANGED registry

\* A new request for method m.
Arrives(r, m) == m \in Methods /\ job[r] = Idle

\* The bound: a request that may draw an id arrives only if one is left for it
\* and for each request that may still draw one.
Room == nextId + Cardinality({r \in Requests : job[r].stage \in {"open", "promote"}}) <= MaxId

\* next_id for a creation; what follows happens after the lock is released.
Allocate(r, kind, w, p, focused) ==
  /\ nextId' = nextId + 1
  /\ Step(r, [stage |-> IF kind = "bare" THEN "insert" ELSE "spawn", kind |-> kind,
              id |-> nextId, ws |-> w, cwd |-> p, focus |-> focused])
  /\ UNCHANGED <<workspaces, tabs, panes, runtimes, focus, unannounced, bereft>>

\* create_workspace: with a shell the focus rule reads the state from before
\* the spawn; without one it is applied when the workspace is inserted.
AllocateWorkspace(r, p, focused, shell) ==
  IF shell THEN Allocate(r, "workspace", nextId, p, focused \/ focus.ws = None)
           ELSE Allocate(r, "bare", nextId, p, focused)

CreateWorkspace(r, p, shell) ==
  Arrives(r, "workspace.create") /\ Room /\ AllocateWorkspace(r, p, FALSE, shell)

StartAgent(r, p) ==
  Arrives(r, "agent.start") /\ Room /\ Allocate(r, "workspace", nextId, p, TRUE)

\* create_tab in an existing workspace; without a workspace_id the caller gets
\* the focused one, which is among those w ranges over.
CreateTab(r, w, focused) ==
  /\ Arrives(r, "tab.create") /\ Room
  /\ w \in DOMAIN workspaces
  /\ Allocate(r, "tab", w, workspaces[w].cwd, focused)

\* TerminalRuntime::spawn, outside the lock: openpty or the exec may fail.
SpawnShell(r) ==
  /\ job[r].stage = "spawn"
  /\ \/ Fail(r)
     \/ /\ Step(r, [job[r] EXCEPT !.stage = "insert"])
        /\ runtimes' = Insert(runtimes, job[r].id,
                              [running |-> TRUE, arcs |-> {"request", "threads"}])
        /\ UNCHANGED <<nextId, workspaces, tabs, panes, focus, unannounced, bereft>>

\* The spawning request hands its Arc to the terminals map.
Register(t) ==
  runtimes' = [runtimes EXCEPT ![t].arcs = (@ \ {"request"}) \cup {"registry"}]

InsertWorkspace(r) ==
  LET n == job[r].id
  IN  /\ job[r].stage = "insert" /\ job[r].kind = "workspace"
      /\ workspaces' = Insert(workspaces, n, [cwd |-> job[r].cwd, tabs |-> <<n>>])
      /\ tabs' = Insert(tabs, n, [ws |-> n, panes |-> <<n>>])
      /\ panes' = Insert(panes, n, [ws |-> n, tab |-> n, term |-> n])
      /\ Register(n)
      /\ focus' = IF job[r].focus THEN [ws |-> n, tab |-> n, pane |-> n] ELSE focus
      /\ Commit(r)
      /\ UNCHANGED <<nextId, bereft>>

InsertBareWorkspace(r) ==
  LET n == job[r].id
  IN  /\ job[r].stage = "insert" /\ job[r].kind = "bare"
      /\ workspaces' = Insert(workspaces, n, [cwd |-> job[r].cwd, tabs |-> <<>>])
      /\ focus' = IF job[r].focus \/ focus.ws = None
                    THEN [ws |-> n, tab |-> None, pane |-> None] ELSE focus
      /\ Commit(r)
      /\ UNCHANGED <<nextId, tabs, panes, runtimes, bereft>>

\* create_tab's test after the spawn, and a mutant without it.
AnyWorkspace(w) == w \in Ids
StillOpen(w) == w \in DOMAIN workspaces

\* Mutant: a live workspace is enough to leave the focus where it is.
LacksWorkspace(f) == f.ws = None

\* Option::is_none on any of the three focus ids.
LacksFocus(f) == None \in {f.ws, f.tab, f.pane}

\* The second half of create_tab: the workspace may have gone meanwhile, and
\* then the request's Arc of the new runtime is dropped with the error.
InsertTab(r) ==
  LET n == job[r].id
      w == job[r].ws
  IN  /\ job[r].stage = "insert" /\ job[r].kind = "tab"
      /\ IF StillOpen(w)
           THEN /\ workspaces' = [workspaces EXCEPT ![w].tabs = Append(@, n)]
                /\ tabs' = Insert(tabs, n, [ws |-> w, panes |-> <<n>>])
                /\ panes' = Insert(panes, n, [ws |-> w, tab |-> n, term |-> n])
                /\ Register(n)
                /\ focus' = IF job[r].focus \/ LacksFocus(focus)
                              THEN [ws |-> w, tab |-> n, pane |-> n] ELSE focus
                /\ Commit(r)
           ELSE /\ runtimes' = Release({n}, "request")
                /\ Step(r, Idle)
                /\ UNCHANGED <<workspaces, tabs, panes, focus, unannounced>>
      /\ UNCHANGED <<nextId, bereft>>

\* workspace.rename and tab.rename change a label, which the model leaves out.
Rename(r) ==
  /\ Arrives(r, "rename")
  /\ DOMAIN workspaces # {}
  /\ Commit(r)
  /\ UNCHANGED <<nextId, workspaces, tabs, panes, runtimes, focus, bereft>>

CloseWorkspace(r, w) ==
  /\ Arrives(r, "workspace.close")
  /\ w \in DOMAIN workspaces
  /\ DropWorkspaces({w})
  /\ Refocus(focus)
  /\ Commit(r)
  /\ UNCHANGED <<nextId, bereft>>

CloseTab(r, t) ==
  /\ Arrives(r, "tab.close")
  /\ t \in DOMAIN tabs
  /\ DropTab(t)
  /\ Refocus(focus)
  /\ Commit(r)
  /\ UNCHANGED <<nextId, bereft>>

\* close_pane: the last pane takes its tab with it (and tab.closed is
\* published there and then, under the lock).
ClosePane(r, p) ==
  LET t    == panes[p].tab
      left == Without(tabs[t].panes, p)
  IN  /\ Arrives(r, "pane.close")
      /\ p \in DOMAIN panes
      /\ DropPanes({p})
      /\ IF left = <<>>
           THEN /\ tabs' = Restrict(tabs, DOMAIN tabs \ {t})
                /\ workspaces' = [workspaces EXCEPT ![tabs[t].ws].tabs = Without(@, t)]
           ELSE /\ tabs' = [tabs EXCEPT ![t].panes = left]
                /\ UNCHANGED workspaces
      /\ Refocus(focus)
      /\ Commit(r)
      /\ UNCHANGED <<nextId, bereft>>
-----------------------------------------------------------------------------
\* Mutant: a failed probe falls back to an empty path.
PromoteTabNowhere(r, t, p) ==
  /\ Arrives(r, "tab.promote") /\ Room
  /\ t \in DOMAIN tabs
  /\ Step(r, [stage |-> "promote", tab |-> t, cwd |-> None])
  /\ UNCHANGED registry

\* promote_tab, first part: the tab's ids, then the directory its shell is in
\* now, read without the lock (the pane's own directory if there is none).
PromoteTab(r, t, p) ==
  /\ Arrives(r, "tab.promote") /\ Room
  /\ t \in DOMAIN tabs
  /\ Step(r, [stage |-> "promote", tab |-> t, cwd |-> p])
  /\ UNCHANGED registry

\* Re-parents tab t, and its panes with it, from workspace old to w; W holds
\* both.  A workspace this empties is dropped; the runtimes are not touched.
MoveTab(W, t, old, w) ==
  LET left  == [W EXCEPT ![old].tabs = Without(@, t)]
      moved == [left EXCEPT ![w].tabs = Append(@, t)]
      mine  == Range(tabs[t].panes)
  IN  /\ workspaces' = Restrict(moved, DOMAIN moved \ {v \in {old} : moved[v].tabs = <<>>})
      /\ tabs' = [tabs EXCEPT ![t].ws = w]
      /\ panes' = [q \in DOMAIN panes |->
                     IF q \in mine THEN [panes[q] EXCEPT !.ws = w] ELSE panes[q]]
      /\ Refocus([ws |-> w, tab |-> t, pane |-> FirstOrNone(tabs[t].panes)])

\* promote_tab, second part, under the lock: the tab is looked up again, and
\* the workspace at the live directory is found or created.
PromoteCommit(r) ==
  LET t   == job[r].tab
      p   == job[r].cwd
      old == tabs[t].ws
  IN  /\ job[r].stage = "promote"
      /\ \/ /\ t \in DOMAIN tabs => workspaces[old].cwd = p
            /\ Fail(r)
         \/ /\ t \in DOMAIN tabs /\ workspaces[old].cwd # p
            /\ \E w \in At(p) : MoveTab(workspaces, t, old, w)
            /\ Commit(r)
            /\ UNCHANGED <<nextId, runtimes, bereft>>
         \/ /\ t \in DOMAIN tabs /\ At(p) = {}
            /\ MoveTab(Insert(workspaces, nextId, [cwd |-> p, tabs |-> <<>>]), t, old, nextId)
            /\ nextId' = nextId + 1
            /\ Commit(r)
            /\ UNCHANGED <<runtimes, bereft>>
-----------------------------------------------------------------------------
\* worktree_open: an open checkout is focused with its first tab and pane;
\* otherwise the lock is released and create_workspace is called.
OpenCheckout(r, p, shell) ==
  \/ \E w \in At(p) :
       LET t == FirstOrNone(workspaces[w].tabs)
       IN  /\ focus' = [ws |-> w, tab |-> t,
                        pane |-> IF t \in DOMAIN tabs THEN FirstOrNone(tabs[t].panes) ELSE None]
           /\ Commit(r)
           /\ UNCHANGED <<nextId, workspaces, tabs, panes, runtimes, bereft>>
  \/ /\ At(p) = {} /\ Room
     /\ Step(r, [stage |-> "open", cwd |-> p, shell |-> shell])
     /\ UNCHANGED registry

WorktreeOpen(r, p, shell) == Arrives(r, "worktree.open") /\ OpenCheckout(r, p, shell)

\* worktree_create opens the checkout `git worktree add` has just made.
WorktreeCreate(r, p) == Arrives(r, "worktree.create") /\ OpenCheckout(r, p, TRUE)

OpenUnmatched(r) ==
  job[r].stage = "open" /\ AllocateWorkspace(r, job[r].cwd, TRUE, job[r].shell)

\* worktree_remove: the workspaces to close are matched before git runs.
WorktreeRemove(r, p) ==
  /\ Arrives(r, "worktree.remove")
  /\ Step(r, [stage |-> "git", cwd |-> p, matches |-> At(p)])
  /\ UNCHANGED registry

GitRemove(r) ==
  /\ job[r].stage = "git"
  /\ \/ Fail(r)
     \/ /\ Step(r, [job[r] EXCEPT !.stage = "teardown"])
        /\ bereft' = bereft \cup At(job[r].cwd)
        /\ UNCHANGED <<nextId, workspaces, tabs, panes, runtimes, focus, unannounced>>

TearDownWorktree(r) ==
  /\ job[r].stage = "teardown"
  /\ DropWorkspaces(job[r].matches \cap DOMAIN workspaces)
  /\ Refocus(focus)
  /\ Commit(r)
  /\ UNCHANGED <<nextId, bereft>>
-----------------------------------------------------------------------------
\* publish_success_event, after the lock is released.  A client refetches the
\* snapshot on an event, so it sees every change committed before.
PublishEvent(r) ==
  /\ job[r] = Publish
  /\ Step(r, Idle)
  /\ unannounced' = FALSE
  /\ UNCHANGED <<nextId, workspaces, tabs, panes, runtimes, focus, bereft>>

\* The shell ends by itself: the reader thread meets end of file, and it and
\* the sweeper let go of the runtime.  The pane stays until a client closes it.
ShellExits(t) ==
  /\ t \in DOMAIN runtimes /\ runtimes[t].running
  /\ runtimes' = LET left == Release({t}, "threads")
                 IN  [u \in DOMAIN left |->
                        IF u = t THEN [left[u] EXCEPT !.running = FALSE] ELSE left[u]]
  /\ UNCHANGED <<nextId, workspaces, tabs, panes, focus, job, unannounced, bereft>>

\* What a client asks for.
Asks(r) ==
  \/ \E p \in Paths : \E shell \in BOOLEAN : CreateWorkspace(r, p, shell)
  \/ \E p \in Paths : StartAgent(r, p)
  \/ \E w \in DOMAIN workspaces : \E focused \in BOOLEAN : CreateTab(r, w, focused)
  \/ Rename(r)
  \/ \E w \in DOMAIN workspaces : CloseWorkspace(r, w)
  \/ \E t \in DOMAIN tabs : CloseTab(r, t)
  \/ \E p \in DOMAIN panes : ClosePane(r, p)
  \/ \E t \in DOMAIN tabs : \E p \in Paths : PromoteTab(r, t, p)
  \/ \E p \in Paths : \E shell \in BOOLEAN : WorktreeOpen(r, p, shell)
  \/ \E p \in Paths : WorktreeCreate(r, p)
  \/ \E p \in Paths : WorktreeRemove(r, p)

\* What the thread that serves a request does next.
Continues(r) ==
  \/ SpawnShell(r) \/ InsertWorkspace(r) \/ InsertBareWorkspace(r) \/ InsertTab(r)
  \/ PromoteCommit(r) \/ OpenUnmatched(r) \/ GitRemove(r) \/ TearDownWorktree(r)
  \/ PublishEvent(r)

Next ==
  \/ \E r \in Requests : Asks(r) \/ Continues(r)
  \/ \E t \in DOMAIN runtimes : ShellExits(t)

Spec == Init /\ [][Next]_vars
-----------------------------------------------------------------------------
\* A HashMap from ids to S.
IsMap(f, S) == f \in [DOMAIN f -> S] /\ DOMAIN f \subseteq Ids

\* What BuiltinData, the runtimes and the requests in flight can hold.
TypeOK ==
  /\ nextId \in Ids
  /\ IsMap(workspaces, Workspace) /\ IsMap(tabs, Tab) /\ IsMap(panes, Pane)
  /\ IsMap(runtimes, Runtime)
  /\ focus \in Focus
  /\ job \in [Requests -> Job]
  /\ unannounced \in BOOLEAN
  /\ bereft \subseteq Ids

\* A workspace's id list holds each of its tabs once, and nothing else.
WorkspacesOwnTabs ==
  /\ \A w \in DOMAIN workspaces :
       /\ IsInjective(workspaces[w].tabs)
       /\ Range(workspaces[w].tabs) = {t \in DOMAIN tabs : tabs[t].ws = w}
  /\ \A t \in DOMAIN tabs : tabs[t].ws \in DOMAIN workspaces

\* A tab has a pane and lists each of its panes once; a pane is in the
\* workspace its tab is in.
TabsOwnPanes ==
  /\ \A t \in DOMAIN tabs :
       /\ tabs[t].panes # <<>> /\ IsInjective(tabs[t].panes)
       /\ Range(tabs[t].panes) = {p \in DOMAIN panes : panes[p].tab = t}
  /\ \A p \in DOMAIN panes :
       panes[p].tab \in DOMAIN tabs /\ panes[p].ws = tabs[panes[p].tab].ws

\* Each pane has a terminal of its own in the map, and the map no other.
PanesOwnTerminals ==
  /\ \A p, q \in DOMAIN panes : panes[p].term = panes[q].term => p = q
  /\ Terminals = {panes[p].term : p \in DOMAIN panes}

\* The three maps stay one tree through every interleaving of creations,
\* promotions and closes: nothing is orphaned, listed twice or left behind.
TreeCoherent == WorkspacesOwnTabs /\ TabsOwnPanes /\ PanesOwnTerminals

\* The focus names a pane of a tab of a workspace that all exist, or stops at
\* a workspace without tabs; it never stops short of a tab that is there.
FocusCoherent ==
  LET inWorkspace == {t \in DOMAIN tabs : tabs[t].ws = focus.ws}
      inTab       == {p \in DOMAIN panes : panes[p].tab = focus.tab}
  IN  /\ focus.ws \in DOMAIN workspaces \cup {None}
      /\ IF inWorkspace = {} THEN focus.tab = None ELSE focus.tab \in inWorkspace
      /\ IF inTab = {} THEN focus.pane = None ELSE focus.pane \in inTab

\* A registry change no event has followed yet is followed by one: some request
\* that has released the lock still has its event to publish.
ChangesAnnounced == unannounced => \E r \in Requests : job[r] = Publish

\* tab.promote is registry-only: a tab that changes workspace keeps its panes
\* and its running shell, nothing is closed with it, and it gets the focus.
PromoteKeepsShell ==
  [][\A t \in DOMAIN tabs \cap DOMAIN tabs' : tabs'[t].ws # tabs[t].ws =>
       /\ runtimes' = runtimes
       /\ DOMAIN tabs' = DOMAIN tabs /\ tabs'[t].panes = tabs[t].panes
       /\ focus'.tab = t]_vars

\* Closing tabs never takes the focus away from a workspace that stays open,
\* even if that leaves it without a tab.
CloseKeepsFocusedWorkspace ==
  [][/\ DOMAIN tabs' \subseteq DOMAIN tabs /\ tabs' # tabs
     /\ focus.ws \in DOMAIN workspaces'
     /\ DOMAIN tabs' # DOMAIN tabs
     => focus'.ws = focus.ws]_vars

\* What docs/features.md and worktree_remove's comment say of a close: panes
\* and PTYs are torn down.  A child that still runs has its pane, or belongs to
\* a request that is about to register it.
ClosedPanesReleaseShells ==
  \A t \in DOMAIN runtimes : runtimes[t].running =>
    t \in Terminals \/ "request" \in runtimes[t].arcs

\* worktree_remove's comment: every workspace rooted in a removed checkout is
\* closed.  One that is still open is among those a teardown is about to close.
RemovedCheckoutsClosed ==
  \A w \in bereft \cap DOMAIN workspaces :
    \E r \in Requests : job[r].stage = "teardown" /\ w \in job[r].matches
=============================================================================
