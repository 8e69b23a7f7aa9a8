--------------------------- MODULE WorkspacePanes ---------------------------
(***************************************************************************)
(* The panes of one workspace on the desktop page                          *)
(* (src/src/assets/desktop/app_js/workspace_panes.js): a tree of splits    *)
(* whose leaves are panes with tabs, kept in step with the terminal tabs   *)
(* that the backend lists.                                                 *)
(*                                                                         *)
(* Only leaves are ever split, in two, so the tree is binary: a pane is    *)
(* where its path of lefts (0) and rights (1) leads.  Left out are the     *)
(* orientation and the sizes of a split and the DOM.                       *)
(***************************************************************************)
EXTENDS Integers, Sequences, FiniteSets, SequencesExt, SequenceParts

CONSTANTS
  Panels,    \* ids of terminal tabs
  Files,     \* ids of the page's own tabs: editors and git views
  Seed,      \* TERMINAL_TAB_PLACEHOLDER
  NoTab,
  MaxLeaves, \* bound on the panes of the tree
  MaxPanes   \* bound on the panes ever made

ASSUME PanesAssumption ==
  /\ {MaxLeaves, MaxPanes} \subseteq Nat \ {0}
  /\ Panels \subseteq Nat \ {0} /\ IsFiniteSet(Panels) /\ Panels \cap Files = {}
  /\ {Seed, NoTab} \cap (Panels \cup Files) = {} /\ Seed # NoTab

VARIABLES
  tree,    \* the entry of state.workspacePanes
  paneIds, \* paneIdCounter
  panels,  \* the ids in state.tabs, in their order
  route,   \* state.tab
  synced,  \* lastSyncedRouteTab, Unsynced before the first render
  nextPane, \* the pane of the "__next__" placement, or NoPane
  pageTabs \* the page's own tabs that have been opened and not closed

paneVars == <<tree, paneIds, panels, route, synced, nextPane, pageTabs>>
-----------------------------------------------------------------------------
NoPane   == 0
Unsynced == 0
Tabs     == Panels \cup Files \cup {Seed}

\* One pane with the seed, newLeaf("p1").
FreshTree == [at |-> [l \in {1} |-> <<>>], tabs |-> [l \in {1} |-> <<Seed>>],
              active |-> [l \in {1} |-> Seed], focus |-> NoPane, max |-> NoPane]

Leaves(t) == DOMAIN t.at

\* The order of paneLeaves.
LeftOf(p, q) == \E i \in 1 .. Len(p) : /\ i <= Len(q) /\ p[i] < q[i]
                                       /\ SubSeq(p, 1, i - 1) = SubSeq(q, 1, i - 1)
FirstOf(t, S) == CHOOSE l \in S : \A k \in S \ {l} : LeftOf(t.at[l], t.at[k])
LastOf(t, S)  == CHOOSE l \in S : \A k \in S \ {l} : LeftOf(t.at[k], t.at[l])

\* paneForTab and activeLeaf.
Holders(t, tab) == {l \in Leaves(t) : Contains(t.tabs[l], tab)}
Home(t, tab)    == LET H == Holders(t, tab) IN IF H = {} THEN NoPane ELSE FirstOf(t, H)
Housed(t)       == UNION {ToSet(t.tabs[l]) : l \in Leaves(t)}
ActiveLeaf(t)   == IF t.focus \in Leaves(t) THEN t.focus ELSE FirstOf(t, Leaves(t))

\* `leaf.tabs[0] || null`.
FirstTab(tabs) == IF tabs = <<>> THEN NoTab ELSE Head(tabs)

PanesTypeOK ==
  /\ Leaves(tree) \subseteq 1 .. paneIds /\ Cardinality(Leaves(tree)) \in 1 .. MaxLeaves
  /\ \A l \in Leaves(tree) : /\ tree.tabs[l] \in Seq(Tabs) /\ IsInjective(tree.tabs[l])
                             /\ tree.active[l] \in Tabs \cup {NoTab}
                             /\ tree.at[l] \in Seq({0, 1})
  /\ paneIds \in 1 .. MaxPanes
  /\ panels \in Seq(Panels) /\ IsInjective(panels)
  /\ route \in Panels \cup {NoTab, Seed} /\ synced \in Panels \cup {NoTab, Seed, Unsynced}
  /\ {nextPane, tree.focus, tree.max} \subseteq 0 .. paneIds
  /\ pageTabs \subseteq Files

PanesInit ==
  /\ tree = FreshTree /\ paneIds = 1
  /\ panels = <<>> /\ route = NoTab /\ synced = Unsynced
  /\ nextPane = NoPane /\ pageTabs = {}
-----------------------------------------------------------------------------
\* The subtree beside a pane, and the pane of it that migrationTargetForClosed-
\* Leaf picks: the last one if the closed pane comes first, else the first.
Parent(t, l)   == Front(t.at[l])
Beside(t, l)   == Append(Parent(t, l), 1 - Last(t.at[l]))
Survivor(t, l) ==
  LET near == {k \in Leaves(t) : IsPrefix(Beside(t, l), t.at[k])}
  IN  IF Last(t.at[l]) = 0 THEN LastOf(t, near) ELSE FirstOf(t, near)

\* The subtree beside a pane takes the place of their split: its paths lose the
\* turn that they took there.
Promote(t, l) ==
  LET rest  == Leaves(t) \ {l}
      up(p) == IF IsPrefix(Beside(t, l), p) THEN RemoveAt(p, Len(t.at[l])) ELSE p
  IN  [t EXCEPT !.at = [k \in rest |-> up(t.at[k])],
                !.tabs = Restrict(@, rest), !.active = Restrict(@, rest),
                !.max = IF @ = l THEN NoPane ELSE @]

\* Mutant: an emptied pane stays.
CollapseNever(t, l) == t

\* collapseEmptyLeafInTree: a pane without tabs goes, unless it is the only one.
Collapse(t, l) ==
  IF t.tabs[l] # <<>> \/ Leaves(t) = {l} THEN t
  ELSE [Promote(t, l) EXCEPT !.focus = Survivor(t, l)]
-----------------------------------------------------------------------------
\* terminalLeafForSync: the pane that waits for the next terminal tab, if one
\* has no home yet; else the first one with a terminal tab; else the active one.
SyncTarget(t, listed, wait) ==
  LET terminal == {l \in Leaves(t) : \E tab \in ToSet(t.tabs[l]) : tab = Seed \/ Contains(listed, tab)}
  IN  IF wait \in Leaves(t) /\ ~(ToSet(listed) \subseteq Housed(t)) THEN wait
      ELSE IF terminal # {} THEN FirstOf(t, terminal) ELSE ActiveLeaf(t)

\* The seed gives way to all the listed tabs; otherwise those without a home
\* are appended.
Seat(t, listed, target) ==
  LET tabs == t.tabs[target]
      seed == CHOOSE i \in DOMAIN tabs : tabs[i] = Seed
      held == Housed(t)
  IN  IF Contains(tabs, Seed) /\ listed # <<>>
        THEN [t EXCEPT !.tabs[target] = SubSeq(tabs, 1, seed - 1) \o listed \o SubSeq(tabs, seed + 1, Len(tabs)),
                       !.active[target] = IF @ = Seed THEN Head(listed) ELSE @]
        ELSE [t EXCEPT !.tabs[target] = @ \o Without(listed, held)]

\* Tabs of closed terminals go, from every pane; a list without any is no news.
Kept(tabs, listed) ==
  IF listed = <<>> THEN tabs ELSE Without(tabs, (Panels \cup {Seed}) \ ToSet(listed))
Prune(t, listed) == [t EXCEPT !.tabs = [l \in Leaves(t) |-> Kept(t.tabs[l], listed)]]
Emptied(t, listed) == {l \in Leaves(t) : t.tabs[l] # <<>> /\ Kept(t.tabs[l], listed) = <<>>}

\* Panes that the prune emptied collapse, in their order, by a walk from the
\* root that the sync was given.  Once that root has been replaced, a split
\* that hangs on it is replaced in the old tree only: `view` is the part of
\* the tree that the old root still leads to.
CollapseFrom(r, l) ==
  LET t == r.tree IN
  IF Leaves(t) = {l} \/ ~IsPrefix(r.view, t.at[l]) THEN r
  ELSE IF r.replaced /\ Parent(t, l) = r.view
         THEN [r EXCEPT !.view = Beside(t, l),
                        !.tree = [t EXCEPT !.focus = Survivor(t, l), !.max = IF @ = l THEN NoPane ELSE @]]
         ELSE [r EXCEPT !.tree = Collapse(t, l), !.replaced = @ \/ Parent(t, l) = <<>>]

\* The next of the panes that are left to collapse.
CollapseNext(r) ==
  LET l == FirstOf(r.tree, r.todo) IN [CollapseFrom(r, l) EXCEPT !.todo = @ \ {l}]

CollapseEmptied(t, S) ==
  LET walk[i \in 0 .. Cardinality(S)] ==
        IF i = 0 THEN [tree |-> t, replaced |-> FALSE, view |-> <<>>, todo |-> S]
        ELSE CollapseNext(walk[i - 1])
  IN  walk[Cardinality(S)]

\* A route that has moved to a listed tab takes the pointer of the pane that
\* holds it, and the focus, which a replaced root does not pass on; but the
\* first sync leaves a pointer alone that has just been set.
FollowRoute(r, listed, to, touched) ==
  LET t     == r.tree
      owner == Home(t, to)
  IN  IF /\ synced # to /\ to \in ToSet(listed) /\ ~(synced = Unsynced /\ touched)
         /\ owner # NoPane /\ IsPrefix(r.view, t.at[owner]) /\ t.active[owner] # to
        THEN [t EXCEPT !.active[owner] = to, !.focus = IF r.replaced THEN @ ELSE owner]
        ELSE t

\* A pointer to a tab that its pane does not hold moves to one that it does.
Heal(t, listed, view) ==
  LET healed(l) == LET shown == Kept(t.tabs[l], listed)
                   IN  IF shown # <<>> THEN Head(shown) ELSE FirstTab(t.tabs[l])
  IN  [t EXCEPT !.active = [l \in Leaves(t) |->
         IF Contains(t.tabs[l], @[l]) \/ ~IsPrefix(view, t.at[l]) THEN @[l] ELSE healed(l)]]

\* syncTerminalTabsIntoTree, and a maximized pane that is gone is forgotten.
SyncTabs(t, listed, to, touched) ==
  LET seated == Seat(t, listed, SyncTarget(t, listed, nextPane))
      r      == CollapseEmptied(Prune(seated, listed), Emptied(seated, listed))
      done   == Heal(FollowRoute(r, listed, to, touched), listed, r.view)
  IN  [done EXCEPT !.max = IF @ \in Leaves(done) THEN @ ELSE NoPane]

\* renderWorkspacePanes of a tree; every sync uses the placement up.
Render(t, listed, to, touched) ==
  /\ tree' = SyncTabs(t, listed, to, touched)
  /\ synced' = to /\ nextPane' = NoPane
Show(t) == Render(t, panels, route, FALSE)
-----------------------------------------------------------------------------
\* A refresh brings the tabs of the workspace; a route to a tab that is gone
\* falls back to another one.
Lists == {s \in UNION {[1 .. n -> Panels] : n \in 0 .. Cardinality(Panels)} :
            \A i, j \in DOMAIN s : i < j => s[i] < s[j]}
RefreshLists ==
  /\ panels' \in Lists
  /\ route' \in IF route \in ToSet(panels') THEN {route} ELSE ToSet(panels') \cup {NoTab}
  /\ Render(tree, panels', route', FALSE)
  /\ UNCHANGED <<paneIds, pageTabs>>

\* A map with one entry more.
With(f, new, v) == [l \in DOMAIN f \cup {new} |-> IF l = new THEN v ELSE f[l]]

\* splitActivePane, splitPaneFor: the pane and an empty one share its place.
SplitPane(l) ==
  /\ Cardinality(Leaves(tree)) < MaxLeaves /\ paneIds < MaxPanes
  /\ paneIds' = paneIds + 1
  /\ Show([at     |-> With([tree.at EXCEPT ![l] = Append(@, 0)], paneIds', Append(tree.at[l], 1)),
           tabs   |-> With(tree.tabs, paneIds', <<>>),
           active |-> With(tree.active, paneIds', NoTab),
           focus  |-> paneIds', max |-> NoPane])
  /\ UNCHANGED <<panels, route, pageTabs>>

\* splitPaneFor when the split around the pane has the other orientation.
FlipSplit(l) ==
  /\ Leaves(tree) # {l}
  /\ Show([tree EXCEPT !.focus = l, !.max = NoPane])
  /\ UNCHANGED <<paneIds, panels, route, pageTabs>>

\* closeActivePane, closePaneFor: its tabs move next door, and the first of the
\* others, which keep their order, takes the focus; then the page goes to the
\* terminal that is shown next door.
ClosePane(l) == \E next \in Leaves(tree) \ {l} :
  LET joined == tree.tabs[next] \o Without(tree.tabs[l], ToSet(tree.tabs[next]))
      shown  == IF Contains(joined, tree.active[next]) THEN tree.active[next]
                ELSE IF Contains(joined, route) THEN route ELSE FirstTab(joined)
      closed == [Promote(tree, l) EXCEPT !.tabs[next] = joined, !.active[next] = shown]
  IN  /\ next = Survivor(tree, l)
      /\ Show([closed EXCEPT !.focus = FirstOf(tree, Leaves(tree) \ {l})])
      /\ route' = IF tree'.active[next] \in Panels \cup {Seed} THEN tree'.active[next] ELSE route
      /\ UNCHANGED <<paneIds, panels, pageTabs>>

\* maximizeActivePane, maximizePaneFor.
MaximizePane(l) ==
  /\ Leaves(tree) # {l}
  /\ Show([tree EXCEPT !.max = IF @ = l THEN NoPane ELSE l, !.focus = l])
  /\ UNCHANGED <<paneIds, panels, route, pageTabs>>

\* newTabForPane: the next terminal tab shall come here.
NewTabFor(l) ==
  /\ nextPane' = l
  /\ UNCHANGED <<tree, paneIds, panels, route, synced, pageTabs>>
-----------------------------------------------------------------------------
Pointed(t, tab) == [t EXCEPT !.active[Home(t, tab)] = tab, !.focus = Home(t, tab)]

\* Mutant: the tab is opened in the active pane, wherever it is already.
EnsureTabHere(f) ==
  /\ pageTabs' = pageTabs \cup {f}
  /\ LET l == ActiveLeaf(tree) IN
       Show(IF Contains(tree.tabs[l], f) THEN tree ELSE [tree EXCEPT !.tabs[l] = Append(@, f)])
  /\ UNCHANGED <<paneIds, panels, route>>

\* paneEnsureEditorTab, paneEnsureGitTab: a tab that has a home is shown there.
EnsureTab(f) ==
  /\ pageTabs' = pageTabs \cup {f}
  /\ Show(IF Home(tree, f) # NoPane THEN Pointed(tree, f)
                                    ELSE [tree EXCEPT !.tabs[ActiveLeaf(tree)] = Append(@, f)])
  /\ UNCHANGED <<paneIds, panels, route>>

\* setActivePaneTab, by the module that has mounted a tab that is still open.
SetActivePaneTab(f) ==
  /\ Home(tree, f) # NoPane
  /\ Render(Pointed(tree, f), panels, route, TRUE)
  /\ UNCHANGED <<paneIds, panels, route, pageTabs>>

\* activatePaneTab: a tab of a hidden pane ends the maximized view first.  The
\* page's own tabs are shown by their module, a terminal by going there.
Unmaximized(tab) ==
  IF tree.max # NoPane /\ Home(tree, tab) # tree.max
    THEN [tree EXCEPT !.max = NoPane, !.focus = Home(tree, tab)] ELSE tree
ActivateTab(tab) ==
  /\ Home(tree, tab) # NoPane
  /\ \/ /\ tab \in Files /\ UNCHANGED route
        /\ Show(Unmaximized(tab)) \/ Show(Pointed(Unmaximized(tab), tab))
     \/ /\ tab = route /\ UNCHANGED route
        /\ LET t == Unmaximized(tab) IN
             IF t.active[ActiveLeaf(t)] = tab THEN Show(t) ELSE Render(Pointed(t, tab), panels, route, TRUE)
     \/ tab \in ToSet(panels) \ {route} /\ route' = tab /\ Show(Unmaximized(tab))
  /\ UNCHANGED <<paneIds, panels, pageTabs>>

\* go() from elsewhere: the route moves, and the next render follows.
Go(p) ==
  /\ p \in ToSet(panels) /\ route' = p
  /\ UNCHANGED <<tree, paneIds, panels, synced, nextPane, pageTabs>>

\* movePaneTabTo, moveActiveTabToNextPane: within a pane, or to another, which
\* is then shown; the pane that it emptied collapses.
MoveTab(f, to, i) ==
  LET from == Home(tree, f)
      left == Without(tree.tabs[from], {f})
      moved == [tree EXCEPT !.tabs[from] = left, !.active[from] = FirstTab(left),
                            !.tabs[to] = InsertAt(@, i, f), !.active[to] = f, !.focus = to]
  IN  /\ from # NoPane
      /\ \/ /\ to = from /\ i \in 1 .. Len(left) + 1
            /\ Show([tree EXCEPT !.tabs[from] = InsertAt(left, i, f), !.focus = from])
         \/ /\ to # from /\ i \in 1 .. Len(tree.tabs[to]) + 1
            /\ Show(Collapse(moved, from))
      /\ UNCHANGED <<paneIds, panels, route, pageTabs>>

\* closeEditorTabImmediate, closeGitTabImmediate: the tab after it is shown, or
\* the one before, and the page goes there if it is a terminal.
ClosePageTab(f) ==
  LET l    == Home(tree, f)
      i    == CHOOSE k \in DOMAIN tree.tabs[l] : tree.tabs[l][k] = f
      left == Without(tree.tabs[l], {f})
      next == IF left = <<>> THEN NoTab ELSE left[IF i <= Len(left) THEN i ELSE i - 1]
      gone == [tree EXCEPT !.tabs[l] = left, !.active[l] = IF @ = f THEN next ELSE @]
  IN  /\ l # NoPane /\ pageTabs' = pageTabs \ {f}
      /\ route' = IF tree.active[l] = f /\ next \in Panels \cup {Seed} THEN next ELSE route
      /\ Render(Collapse(gone, l), panels, route', FALSE)
      /\ UNCHANGED <<paneIds, panels>>

\* A terminal tab is closed here or elsewhere: collapseLeafForClosedTab, and if
\* the page was on it, it shows another one.
CloseTerminal(p) ==
  LET l    == Home(tree, p)
      left == Without(tree.tabs[l], {p})
      gone == IF l = NoPane \/ Leaves(tree) = {l} THEN tree
              ELSE Collapse([tree EXCEPT !.tabs[l] = left, !.active[l] = IF @ = p THEN FirstTab(left) ELSE @], l)
  IN  /\ p \in ToSet(panels) /\ panels' = Without(panels, {p})
      /\ IF route = p
           THEN route' \in ToSet(panels') \cup {NoTab} /\ Render(gone, panels', route', FALSE)
           ELSE tree' = gone /\ UNCHANGED <<route, synced, nextPane>>
      /\ UNCHANGED <<paneIds, pageTabs>>

\* forgetWorkspacePanes, when the workspace is closed.
ForgetPanes ==
  /\ tree' = FreshTree /\ panels' = <<>> /\ route' = NoTab /\ pageTabs' = {}
  /\ UNCHANGED <<paneIds, synced, nextPane>>
-----------------------------------------------------------------------------
PanesNext ==
  \/ RefreshLists \/ ForgetPanes
  \/ \E l \in Leaves(tree) :
       SplitPane(l) \/ FlipSplit(l) \/ ClosePane(l) \/ MaximizePane(l) \/ NewTabFor(l)
  \/ \E f \in Files : \/ EnsureTab(f) \/ SetActivePaneTab(f) \/ ClosePageTab(f)
                      \/ \E l \in Leaves(tree) : \E i \in 1 .. Len(tree.tabs[l]) + 1 : MoveTab(f, l, i)
  \/ \E p \in Panels : Go(p) \/ CloseTerminal(p)
  \/ \E tab \in Panels \cup Files : ActivateTab(tab)

PanesSpec == PanesInit /\ [][PanesNext]_paneVars
-----------------------------------------------------------------------------
(***************************************************************************)
(* Every terminal that the backend lists and every file or git view that   *)
(* has been opened and not closed is a tab of one pane, of one only,       *)
(* whatever splits, moves, closed panes and late lists there were: "a tab  *)
(* id belongs to one leaf" (paneEnsureGitTab, closeActivePane's migration, *)
(* syncTerminalTabsIntoTree).                                              *)
(***************************************************************************)
TabsHaveOneHome ==
  \A tab \in Panels \cup Files :
    Cardinality(Holders(tree, tab)) \in
      IF tab \in ToSet(panels) \cup pageTabs THEN {1} ELSE IF tab \in Files THEN {0} ELSE {0, 1}

\* A pane loses its last tab in this step and stays, beside others.
StaysEmpty(l) == tree.tabs[l] # <<>> /\ tree'.tabs[l] = <<>> /\ Leaves(tree') # {l}

(***************************************************************************)
(* A pane of a split that loses its last tab goes with it, except that of  *)
(* several that one list empties some may stay (collapseEmptyLeafInTree).  *)
(***************************************************************************)
EmptiedPaneGoes ==
  [][\/ Leaves(tree) \ Leaves(tree') # {}
     \/ ~ \E l \in Leaves(tree) \cap Leaves(tree') : StaysEmpty(l)]_paneVars
=============================================================================
