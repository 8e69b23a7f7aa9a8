---------------------------- MODULE RegistryProofs ----------------------------
(***************************************************************************)
(* Theorems about BuiltinRegistry for every set of requests, directories   *)
(* and methods and every id bound: its types, that its maps form one tree  *)
(* and its focus stays inside it, and what a step may do: a change is      *)
(* followed by an event, a promotion closes nothing, and a close keeps the *)
(* focused workspace.                                                      *)
(***************************************************************************)
EXTENDS BuiltinRegistry, SequenceTheorems, TLAPS

(***************************************************************************)
(* Removing an id from a list (Vec::retain in close_tab_locked,            *)
(* close_pane_locked and promote_tab).                                     *)
(***************************************************************************)

\* retain yields an id list again.
LEMMA WithoutIsSeq ==
  ASSUME NEW S, NEW s \in Seq(S), NEW x
  PROVE  Without(s, x) \in Seq(S)
<1>1. CASE x \notin Range(s)
  BY <1>1 DEF Without
<1>2. CASE x \in Range(s)
  <2> DEFINE i == CHOOSE j \in DOMAIN s : s[j] = x
             n == Len(s) - 1
             left == [j \in 1 .. n |-> IF j < i THEN s[j] ELSE s[j + 1]]
  <2>1. Len(s) \in Nat /\ DOMAIN s = 1 .. Len(s) /\ \A j \in 1 .. Len(s) : s[j] \in S
    BY LenProperties, ElementOfSeq
  <2>2. i \in 1 .. Len(s) /\ s[i] = x
    BY <1>2, <2>1 DEF Range
  <2>3. n \in Nat
    BY <2>1, <2>2
  <2>4. left \in [1 .. n -> S]
    BY <2>1, <2>2
  <2>5. left \in Seq(S)
    <3> HIDE DEF left, n
    <3> QED BY <2>3, <2>4, SeqDef
  <2> QED BY <1>2, <2>5 DEF Without
<1> QED BY <1>1, <1>2

\* On a list without repetitions retain removes exactly the one id.
LEMMA WithoutRange ==
  ASSUME NEW S, NEW s \in Seq(S), IsInjective(s), NEW x
  PROVE  /\ Range(Without(s, x)) = Range(s) \ {x}
         /\ IsInjective(Without(s, x))
<1>1. CASE x \notin Range(s)
  BY <1>1 DEF Without
<1>2. CASE x \in Range(s)
  <2> DEFINE i == CHOOSE j \in DOMAIN s : s[j] = x
             n == Len(s) - 1
             left == [j \in 1 .. n |-> IF j < i THEN s[j] ELSE s[j + 1]]
  <2>1. Len(s) \in Nat /\ DOMAIN s = 1 .. Len(s)
    BY LenProperties
  <2>2. i \in 1 .. Len(s) /\ s[i] = x
    BY <1>2, <2>1 DEF Range
  <2>3. DOMAIN left = 1 .. n /\ n \in Nat
    BY <2>1, <2>2
  <2>4. \A j \in 1 .. n : left[j] = IF j < i THEN s[j] ELSE s[j + 1]
    OBVIOUS
  <2>5. \A j, k \in 1 .. Len(s) : s[j] = s[k] => j = k
    BY <2>1 DEF IsInjective
  <2> HIDE DEF left, n, i
  <2>6. \A j \in 1 .. n : left[j] \in Range(s) \ {x}
    BY <2>1, <2>2, <2>4, <2>5 DEF Range, n
  <2>7. ASSUME NEW y \in Range(s) \ {x} PROVE \E j \in 1 .. n : left[j] = y
    <3>1. PICK k \in 1 .. Len(s) : s[k] = y
      BY <2>1, <2>7 DEF Range
    <3>2. k # i
      BY <2>2, <2>7, <3>1
    <3>3. CASE k < i
      BY <2>1, <2>2, <2>4, <3>1, <3>3 DEF n
    <3>4. CASE k > i
      <4>1. k - 1 \in 1 .. n /\ ~(k - 1 < i) /\ (k - 1) + 1 = k
        BY <2>1, <2>2, <3>1, <3>4 DEF n
      <4> QED BY <2>4, <3>1, <4>1
    <3> QED BY <2>2, <3>1, <3>2, <3>3, <3>4
  <2>8. Range(left) = Range(s) \ {x}
    BY <2>3, <2>6, <2>7 DEF Range
  <2>9. IsInjective(left)
    <3> SUFFICES ASSUME NEW j \in 1 .. n, NEW k \in 1 .. n, left[j] = left[k]
                 PROVE  j = k
      BY <2>3 DEF IsInjective
    <3> QED BY <2>1, <2>2, <2>4, <2>5 DEF n
  <2>10. Without(s, x) = left
    BY <1>2 DEF Without, left, n, i
  <2> QED BY <2>8, <2>9, <2>10
<1> QED BY <1>1, <1>2

\* push of a new id.
LEMMA AppendRange ==
  ASSUME NEW S, NEW s \in Seq(S), NEW x \in S
  PROVE  /\ Append(s, x) \in Seq(S) /\ Append(s, x) # <<>>
         /\ Range(Append(s, x)) = Range(s) \cup {x}
         /\ IsInjective(s) /\ x \notin Range(s) => IsInjective(Append(s, x))
<1>1. Len(s) \in Nat /\ DOMAIN s = 1 .. Len(s)
  BY LenProperties
<1>2. /\ Append(s, x) \in Seq(S)
      /\ Len(Append(s, x)) = Len(s) + 1
      /\ \A i \in 1 .. Len(s) + 1 :
           Append(s, x)[i] = IF i = Len(s) + 1 THEN x ELSE s[i]
  BY <1>1
<1>3. DOMAIN Append(s, x) = 1 .. Len(s) + 1
  BY <1>2, LenProperties
<1>4. Append(s, x) # <<>>
  BY <1>1, <1>2, EmptySeq
<1>5. Range(Append(s, x)) = Range(s) \cup {x}
  <2>1. Range(Append(s, x)) \subseteq Range(s) \cup {x}
    BY <1>1, <1>2, <1>3 DEF Range
  <2>2. ASSUME NEW y \in Range(s) PROVE y \in Range(Append(s, x))
    <3>1. PICK i \in 1 .. Len(s) : s[i] = y
      BY <1>1, <2>2 DEF Range
    <3>2. i \in 1 .. Len(s) + 1 /\ i # Len(s) + 1
      BY <1>1, <3>1
    <3> QED BY <1>2, <1>3, <3>1, <3>2 DEF Range
  <2>3. x \in Range(Append(s, x))
    BY <1>1, <1>2, <1>3 DEF Range
  <2> QED BY <2>1, <2>2, <2>3
<1>6. ASSUME IsInjective(s), x \notin Range(s) PROVE IsInjective(Append(s, x))
  <2> SUFFICES ASSUME NEW j \in 1 .. Len(s) + 1, NEW k \in 1 .. Len(s) + 1,
                      Append(s, x)[j] = Append(s, x)[k]
               PROVE  j = k
    BY <1>3 DEF IsInjective
  <2> QED BY <1>1, <1>2, <1>6 DEF IsInjective, Range
<1> QED BY <1>2, <1>4, <1>5, <1>6

\* The first id of a list, if it has one, is one of the list's ids.
LEMMA FirstInRange ==
  ASSUME NEW S, NEW s \in Seq(S)
  PROVE  /\ s = <<>> => FirstOrNone(s) = None
         /\ s # <<>> => FirstOrNone(s) \in S /\ FirstOrNone(s) \in Range(s)
  BY LenProperties, EmptySeq, HeadTailProperties DEF FirstOrNone, Range
-----------------------------------------------------------------------------
(***************************************************************************)
(* Type correctness.                                                       *)
(***************************************************************************)

\* The maps of a new registry.
LEMMA EmptyMap == \A S : IsMap(<<>>, S) /\ DOMAIN <<>> = {}
<1> SUFFICES ASSUME NEW S PROVE IsMap(<<>>, S) /\ DOMAIN <<>> = {}
  OBVIOUS
<1>1. <<>> \in Seq(S) /\ Len(<<>>) = 0
  BY EmptySeq
<1>2. DOMAIN <<>> = {} /\ <<>> \in [1 .. 0 -> S]
  BY <1>1, LenProperties
<1> QED BY <1>2 DEF IsMap

\* HashMap::insert yields a map again.
LEMMA InsertIsMap ==
  ASSUME NEW S, NEW f, IsMap(f, S), NEW k \in Ids, NEW v \in S
  PROVE  IsMap(Insert(f, k, v), S)
  BY DEF IsMap, Insert

\* HashMap::remove and retain yield a map again.
LEMMA RestrictIsMap ==
  ASSUME NEW S, NEW f, IsMap(f, S), NEW D \in SUBSET DOMAIN f
  PROVE  IsMap(Restrict(f, D), S)
  BY DEF IsMap, Restrict

\* Dropping one owner's Arcs leaves a map of runtimes that still have owners.
LEMMA ReleaseIsMap ==
  ASSUME IsMap(runtimes, Runtime), NEW T, NEW o
  PROVE  IsMap(Release(T, o), Runtime)
<1> DEFINE left == [t \in DOMAIN runtimes |->
                      IF t \in T THEN [runtimes[t] EXCEPT !.arcs = @ \ {o}] ELSE runtimes[t]]
<1>1. IsMap(left, Runtime)
  BY DEF IsMap, Runtime
<1> HIDE DEF left
<1>2. {t \in DOMAIN left : left[t].arcs # {}} \in SUBSET DOMAIN left
  OBVIOUS
<1>3. IsMap(Restrict(left, {t \in DOMAIN left : left[t].arcs # {}}), Runtime)
  BY <1>1, <1>2, RestrictIsMap
<1> QED BY <1>3 DEF Release, left

\* normalize_focus settles on ids or on nothing.
LEMMA NormalFocusType ==
  ASSUME NEW W, IsMap(W, Workspace), NEW T, IsMap(T, Tab), NEW P, IsMap(P, Pane),
         NEW f \in Focus, NEW g \in NormalFocus(W, T, P, f)
  PROVE  g \in Focus
<1> DEFINE tabIn(w)  == IF f.tab \in DOMAIN T /\ T[f.tab].ws = w THEN f.tab
                        ELSE FirstOrNone(W[w].tabs)
           paneIn(t) == IF f.pane \in DOMAIN P /\ P[f.pane].tab = t THEN f.pane
                        ELSE IF t \in DOMAIN T THEN FirstOrNone(T[t].panes) ELSE None
<1>1. \A w \in DOMAIN W : tabIn(w) \in Ids \cup {None}
  <2> SUFFICES ASSUME NEW w \in DOMAIN W PROVE FirstOrNone(W[w].tabs) \in Ids \cup {None}
    BY DEF IsMap
  <2>1. W[w].tabs \in Seq(Ids)
    BY DEF IsMap, Workspace
  <2> QED BY <2>1, FirstInRange
<1>2. \A t : paneIn(t) \in Ids \cup {None}
  <2> SUFFICES ASSUME NEW t \in DOMAIN T PROVE FirstOrNone(T[t].panes) \in Ids \cup {None}
    BY DEF IsMap
  <2>1. T[t].panes \in Seq(Ids)
    BY DEF IsMap, Tab
  <2> QED BY <2>1, FirstInRange
<1>3. FocusTargets(W, f) \subseteq DOMAIN W \cup {None} /\ DOMAIN W \subseteq Ids
  BY DEF FocusTargets, IsMap
<1>4. PICK w \in FocusTargets(W, f) :
        g = IF w = None THEN [ws |-> None, tab |-> None, pane |-> None]
            ELSE [ws |-> w, tab |-> tabIn(w), pane |-> paneIn(tabIn(w))]
  BY DEF NormalFocus
<1> HIDE DEF tabIn, paneIn
<1> QED BY <1>1, <1>2, <1>3, <1>4 DEF Focus

\* What a request holds in each stage.
LEMMA JobFields ==
  ASSUME job \in [Requests -> Job], NEW r \in Requests
  PROVE  /\ job[r].stage \in {"spawn", "insert"} =>
              /\ job[r].id \in Ids /\ job[r].ws \in Ids /\ job[r].cwd \in Paths
              /\ job[r].kind \in {"workspace", "bare", "tab"} /\ job[r].focus \in BOOLEAN
              /\ [job[r] EXCEPT !.stage = "insert"] \in Job
         /\ job[r].stage = "open" => job[r].cwd \in Paths /\ job[r].shell \in BOOLEAN
         /\ job[r].stage = "promote" => job[r].tab \in Ids /\ job[r].cwd \in Paths
         /\ job[r].stage \in {"git", "teardown"} =>
              /\ job[r].cwd \in Paths /\ job[r].matches \subseteq Ids
              /\ [job[r] EXCEPT !.stage = "teardown"] \in Job
<1> DEFINE Creation == [stage : {"spawn", "insert"}, kind : {"workspace", "bare", "tab"},
                        id : Ids, ws : Ids, cwd : Paths, focus : BOOLEAN]
           Opening  == [stage : {"open"}, cwd : Paths, shell : BOOLEAN]
           Moving   == [stage : {"promote"}, tab : Ids, cwd : Paths]
           Removal  == [stage : {"git", "teardown"}, cwd : Paths, matches : SUBSET Ids]
<1>1. job[r] \in [stage : {"idle", "publish"}] \cup Creation \cup Opening \cup Moving \cup Removal
  BY DEF Job
<1>2. CASE job[r] \in [stage : {"idle", "publish"}]
  BY <1>2
<1>3. CASE job[r] \in Creation
  <2>1. [job[r] EXCEPT !.stage = "insert"] \in Creation
    BY <1>3
  <2>2. Creation \subseteq Job
    BY DEF Job
  <2> QED BY <1>3, <2>1, <2>2
<1>4. CASE job[r] \in Opening
  BY <1>4
<1>5. CASE job[r] \in Moving
  BY <1>5
<1>6. CASE job[r] \in Removal
  <2>1. [job[r] EXCEPT !.stage = "teardown"] \in Removal
    BY <1>6
  <2>2. Removal \subseteq Job
    BY DEF Job
  <2> QED BY <1>6, <2>1, <2>2
<1> QED BY <1>1, <1>2, <1>3, <1>4, <1>5, <1>6

\* A request moves to a stage.
LEMMA StepType ==
  ASSUME job \in [Requests -> Job], NEW r \in Requests, NEW next \in Job, Step(r, next)
  PROVE  job' \in [Requests -> Job]
  BY DEF Step

\* The teardown of panes leaves well-typed maps.
LEMMA DropPanesType ==
  ASSUME TypeOK, NEW Q, DropPanes(Q)
  PROVE  IsMap(panes, Pane)' /\ IsMap(runtimes, Runtime)'
<1>1. IsMap(panes, Pane) /\ IsMap(runtimes, Runtime)
  BY DEF TypeOK
<1>2. DOMAIN panes \ Q \in SUBSET DOMAIN panes
  OBVIOUS
<1>3. IsMap(Restrict(panes, DOMAIN panes \ Q), Pane)
  BY <1>1, <1>2, RestrictIsMap
<1>4. IsMap(Release({panes[p].term : p \in Q}, "registry"), Runtime)
  BY <1>1, ReleaseIsMap
<1> QED BY <1>3, <1>4 DEF DropPanes, IsMap

\* Taking a tab off a workspace's list leaves a well-typed map.
LEMMA UnlistType ==
  ASSUME NEW W, IsMap(W, Workspace), NEW w, NEW t
  PROVE  IsMap([W EXCEPT ![w].tabs = Without(@, t)], Workspace)
<1>1. CASE w \notin DOMAIN W
  BY <1>1 DEF IsMap
<1>2. CASE w \in DOMAIN W
  <2>1. W[w] \in Workspace /\ W[w].tabs \in Seq(Ids)
    BY <1>2 DEF IsMap, Workspace
  <2>2. Without(W[w].tabs, t) \in Seq(Ids)
    BY <2>1, WithoutIsSeq
  <2>3. [W[w] EXCEPT !.tabs = Without(@, t)] \in Workspace
    BY <2>1, <2>2 DEF Workspace
  <2> QED BY <2>3 DEF IsMap
<1> QED BY <1>1, <1>2

\* Pushing a tab on a workspace's list leaves a well-typed map.
LEMMA EnlistType ==
  ASSUME NEW W, IsMap(W, Workspace), NEW w, NEW t \in Ids
  PROVE  IsMap([W EXCEPT ![w].tabs = Append(@, t)], Workspace)
<1>1. CASE w \notin DOMAIN W
  BY <1>1 DEF IsMap
<1>2. CASE w \in DOMAIN W
  <2>1. W[w] \in Workspace /\ W[w].tabs \in Seq(Ids)
    BY <1>2 DEF IsMap, Workspace
  <2>2. Append(W[w].tabs, t) \in Seq(Ids)
    BY <2>1, AppendRange
  <2>3. [W[w] EXCEPT !.tabs = Append(@, t)] \in Workspace
    BY <2>1, <2>2 DEF Workspace
  <2> QED BY <2>3 DEF IsMap
<1> QED BY <1>1, <1>2

\* promote_tab's re-parenting leaves well-typed maps.
LEMMA MoveTabType ==
  ASSUME TypeOK, NEW W, IsMap(W, Workspace), NEW t \in DOMAIN tabs, NEW old, NEW w \in Ids,
         MoveTab(W, t, old, w)
  PROVE  /\ IsMap(workspaces, Workspace)' /\ IsMap(tabs, Tab)' /\ IsMap(panes, Pane)'
         /\ focus' \in Focus
<1> DEFINE left  == [W EXCEPT ![old].tabs = Without(@, t)]
           moved == [left EXCEPT ![w].tabs = Append(@, t)]
<1>0. t \in Ids /\ tabs[t] \in Tab /\ IsMap(tabs, Tab) /\ IsMap(panes, Pane)
  BY DEF TypeOK, IsMap
<1>1. IsMap(moved, Workspace)
  <2>1. IsMap(left, Workspace)
    BY UnlistType
  <2> HIDE DEF left
  <2> QED BY <1>0, <2>1, EnlistType
<1>2. IsMap(workspaces', Workspace)
  <2>1. workspaces' = Restrict(moved, DOMAIN moved \ {v \in {old} : moved[v].tabs = <<>>})
    BY DEF MoveTab
  <2> HIDE DEF moved
  <2>2. DOMAIN moved \ {v \in {old} : moved[v].tabs = <<>>} \in SUBSET DOMAIN moved
    OBVIOUS
  <2> QED BY <1>1, <2>1, <2>2, RestrictIsMap
<1>3. IsMap(tabs', Tab)
  <2>1. tabs' = [tabs EXCEPT ![t].ws = w]
    BY DEF MoveTab
  <2> QED BY <1>0, <2>1 DEF IsMap, Tab
<1>4. IsMap(panes', Pane)
  <2>1. panes' = [q \in DOMAIN panes |->
                    IF q \in Range(tabs[t].panes) THEN [panes[q] EXCEPT !.ws = w] ELSE panes[q]]
    BY DEF MoveTab
  <2> QED BY <1>0, <2>1 DEF IsMap, Pane
<1>5. focus' \in Focus
  <2> DEFINE f == [ws |-> w, tab |-> t, pane |-> FirstOrNone(tabs[t].panes)]
  <2>1. f \in Focus
    BY <1>0, FirstInRange DEF Focus, Tab
  <2>2. focus' \in NormalFocus(workspaces', tabs', panes', f)
    BY DEF MoveTab, Refocus
  <2> HIDE DEF f
  <2> QED BY <1>2, <1>3, <1>4, <2>1, <2>2, NormalFocusType
<1> QED BY <1>2, <1>3, <1>4, <1>5 DEF IsMap

\* A registry update inside one lock scope keeps the types.
LEMMA CommitType ==
  ASSUME TypeOK, NEW r \in Requests, Commit(r)
  PROVE  job' \in [Requests -> Job] /\ unannounced' \in BOOLEAN
  BY StepType DEF Commit, Publish, Job, TypeOK

\* A failed request leaves the registry alone.
LEMMA FailType ==
  ASSUME TypeOK, NEW r \in Requests, Fail(r)
  PROVE  TypeOK'
<1>1. job' \in [Requests -> Job]
  BY StepType DEF Fail, Idle, Job, TypeOK
<1> QED BY <1>1 DEF Fail, registry, TypeOK, IsMap

\* Drawing ids for a creation.
LEMMA AllocateType ==
  ASSUME TypeOK, NEW r \in Requests, NEW kind \in {"workspace", "bare", "tab"},
         NEW w \in Ids, NEW p \in Paths, NEW focused \in BOOLEAN,
         Allocate(r, kind, w, p, focused)
  PROVE  TypeOK'
<1>1. [stage |-> IF kind = "bare" THEN "insert" ELSE "spawn", kind |-> kind,
       id |-> nextId, ws |-> w, cwd |-> p, focus |-> focused] \in Job
  BY DEF Job, TypeOK
<1>2. job' \in [Requests -> Job]
  BY <1>1, StepType DEF Allocate, TypeOK
<1>3. nextId' \in Ids
  BY DEF Allocate, TypeOK, Ids, None
<1> QED BY <1>2, <1>3 DEF Allocate, TypeOK, IsMap

\* The creation of a workspace, from each of the methods that create one.
LEMMA AllocateWorkspaceType ==
  ASSUME TypeOK, NEW r \in Requests, NEW p \in Paths, NEW focused \in BOOLEAN,
         NEW shell \in BOOLEAN, AllocateWorkspace(r, p, focused, shell)
  PROVE  TypeOK'
<1>1. nextId \in Ids
  BY DEF TypeOK
<1>2. CASE shell
  BY <1>1, <1>2, AllocateType DEF AllocateWorkspace
<1>3. CASE ~shell
  BY <1>1, <1>3, AllocateType DEF AllocateWorkspace
<1> QED BY <1>2, <1>3

\* The close of one tab or of one pane, and the focus that follows.
LEMMA RefocusType ==
  ASSUME IsMap(workspaces, Workspace)', IsMap(tabs, Tab)', IsMap(panes, Pane)',
         focus \in Focus, Refocus(focus)
  PROVE  focus' \in Focus
  BY NormalFocusType DEF Refocus, IsMap

\* The spawning request hands its Arc over.
LEMMA RegisterType ==
  ASSUME IsMap(runtimes, Runtime), NEW t, Register(t)
  PROVE  IsMap(runtimes, Runtime)'
  BY DEF Register, IsMap, Runtime, Owners

\* Every request of a client keeps the types.
LEMMA AsksType ==
  ASSUME TypeOK, NEW r \in Requests, Asks(r)
  PROVE  TypeOK'
<1>0. /\ IsMap(workspaces, Workspace) /\ IsMap(tabs, Tab) /\ IsMap(panes, Pane)
      /\ IsMap(runtimes, Runtime) /\ focus \in Focus /\ nextId \in Ids /\ bereft \subseteq Ids
      /\ job \in [Requests -> Job] /\ unannounced \in BOOLEAN
      /\ \A w \in DOMAIN workspaces : w \in Ids /\ workspaces[w].cwd \in Paths
      /\ DOMAIN tabs \subseteq Ids
  BY DEF TypeOK, IsMap, Workspace
<1>a. ASSUME NEW next \in Job, Step(r, next), UNCHANGED registry
      PROVE  TypeOK'
  BY <1>0, <1>a, StepType DEF registry, TypeOK, IsMap
<1>b. ASSUME Commit(r), UNCHANGED <<nextId, bereft>>, IsMap(workspaces, Workspace)',
             IsMap(tabs, Tab)', IsMap(panes, Pane)', IsMap(runtimes, Runtime)', focus' \in Focus
      PROVE  TypeOK'
  BY <1>0, <1>b, CommitType DEF TypeOK, IsMap
<1>1. ASSUME NEW p \in Paths, NEW shell \in BOOLEAN, CreateWorkspace(r, p, shell)
      PROVE  TypeOK'
  BY <1>1, AllocateWorkspaceType DEF CreateWorkspace
<1>2. ASSUME NEW p \in Paths, StartAgent(r, p)
      PROVE  TypeOK'
  BY <1>0, <1>2, AllocateType DEF StartAgent
<1>3. ASSUME NEW w \in DOMAIN workspaces, NEW focused \in BOOLEAN, CreateTab(r, w, focused)
      PROVE  TypeOK'
  BY <1>0, <1>3, AllocateType DEF CreateTab
<1>4. ASSUME Rename(r)
      PROVE  TypeOK'
  BY <1>0, <1>4, <1>b DEF Rename, IsMap
<1>5. ASSUME NEW w \in DOMAIN workspaces, CloseWorkspace(r, w)
      PROVE  TypeOK'
  <2>1. IsMap(workspaces, Workspace)' /\ IsMap(tabs, Tab)'
    BY <1>0, <1>5, RestrictIsMap DEF CloseWorkspace, DropWorkspaces, IsMap, Restrict
  <2>2. IsMap(panes, Pane)' /\ IsMap(runtimes, Runtime)'
    BY <1>5, DropPanesType DEF CloseWorkspace, DropWorkspaces
  <2>3. focus' \in Focus
    BY <1>0, <1>5, <2>1, <2>2, RefocusType DEF CloseWorkspace
  <2> QED BY <1>5, <1>b, <2>1, <2>2, <2>3 DEF CloseWorkspace
<1>6. ASSUME NEW t \in DOMAIN tabs, CloseTab(r, t)
      PROVE  TypeOK'
  <2>1. IsMap(workspaces, Workspace)' /\ IsMap(tabs, Tab)'
    <3>1. workspaces' = [workspaces EXCEPT ![tabs[t].ws].tabs = Without(@, t)]
      BY <1>6 DEF CloseTab, DropTab
    <3>2. IsMap(workspaces', Workspace)
      BY <1>0, <3>1, UnlistType
    <3>3. IsMap(tabs', Tab)
      BY <1>0, <1>6 DEF CloseTab, DropTab, IsMap, Restrict
    <3> QED BY <3>2, <3>3 DEF IsMap
  <2>2. IsMap(panes, Pane)' /\ IsMap(runtimes, Runtime)'
    BY <1>6, DropPanesType DEF CloseTab, DropTab
  <2>3. focus' \in Focus
    BY <1>0, <1>6, <2>1, <2>2, RefocusType DEF CloseTab
  <2> QED BY <1>6, <1>b, <2>1, <2>2, <2>3 DEF CloseTab
<1>7. ASSUME NEW p \in DOMAIN panes, ClosePane(r, p)
      PROVE  TypeOK'
  <2> DEFINE t == panes[p].tab
             left == Without(tabs[t].panes, p)
  <2>1. IsMap(workspaces, Workspace)' /\ IsMap(tabs, Tab)'
    <3>1. CASE left = <<>>
      <4>1. /\ workspaces' = [workspaces EXCEPT ![tabs[t].ws].tabs = Without(@, t)]
            /\ tabs' = Restrict(tabs, DOMAIN tabs \ {t})
        BY <1>7, <3>1 DEF ClosePane
      <4>2. IsMap(workspaces', Workspace)
        BY <1>0, <4>1, UnlistType
      <4>3. IsMap(tabs', Tab)
        BY <1>0, <4>1 DEF IsMap, Restrict
      <4> QED BY <4>2, <4>3 DEF IsMap
    <3>2. CASE left # <<>>
      <4>1. tabs' = [tabs EXCEPT ![t].panes = left] /\ workspaces' = workspaces
        BY <1>7, <3>2 DEF ClosePane
      <4>2. CASE t \in DOMAIN tabs
        <5>1. tabs[t].panes \in Seq(Ids)
          BY <1>0, <4>2 DEF IsMap, Tab
        <5>2. left \in Seq(Ids)
          BY <5>1, WithoutIsSeq
        <5> HIDE DEF left, t
        <5> QED BY <1>0, <4>1, <4>2, <5>2 DEF IsMap, Tab
      <4>3. CASE t \notin DOMAIN tabs
        BY <1>0, <4>1, <4>3 DEF IsMap
      <4> QED BY <4>2, <4>3
    <3> QED BY <3>1, <3>2
  <2>2. IsMap(panes, Pane)' /\ IsMap(runtimes, Runtime)'
    BY <1>7, DropPanesType DEF ClosePane
  <2>3. focus' \in Focus
    BY <1>0, <1>7, <2>1, <2>2, RefocusType DEF ClosePane
  <2> QED BY <1>7, <1>b, <2>1, <2>2, <2>3 DEF ClosePane
<1>8. ASSUME NEW t \in DOMAIN tabs, NEW p \in Paths, PromoteTab(r, t, p)
      PROVE  TypeOK'
  <2>1. [stage |-> "promote", tab |-> t, cwd |-> p] \in Job
    BY <1>0 DEF Job
  <2> QED BY <1>8, <1>a, <2>1 DEF PromoteTab
<1>9. ASSUME NEW p \in Paths, NEW shell \in BOOLEAN, OpenCheckout(r, p, shell)
      PROVE  TypeOK'
  <2>1. ASSUME NEW w \in At(p),
               focus' = [ws |-> w, tab |-> FirstOrNone(workspaces[w].tabs),
                         pane |-> IF FirstOrNone(workspaces[w].tabs) \in DOMAIN tabs
                                    THEN FirstOrNone(tabs[FirstOrNone(workspaces[w].tabs)].panes)
                                    ELSE None],
               Commit(r),
               UNCHANGED <<nextId, workspaces, tabs, panes, runtimes, bereft>>
        PROVE  TypeOK'
    <3>1. w \in Ids /\ workspaces[w].tabs \in Seq(Ids)
      BY <1>0 DEF At, IsMap, Workspace
    <3>2. \A t \in DOMAIN tabs : FirstOrNone(tabs[t].panes) \in Ids \cup {None}
      <4> SUFFICES ASSUME NEW t \in DOMAIN tabs
                   PROVE  FirstOrNone(tabs[t].panes) \in Ids \cup {None}
        OBVIOUS
      <4>1. tabs[t].panes \in Seq(Ids)
        BY <1>0 DEF IsMap, Tab
      <4> QED BY <4>1, FirstInRange
    <3>3. FirstOrNone(workspaces[w].tabs) \in Ids \cup {None}
      BY <3>1, FirstInRange
    <3>4. focus' \in Focus
      BY <2>1, <3>1, <3>2, <3>3 DEF Focus
    <3> QED BY <1>0, <2>1, <1>b, <3>4 DEF IsMap
  <2>2. ASSUME Step(r, [stage |-> "open", cwd |-> p, shell |-> shell]), UNCHANGED registry
        PROVE  TypeOK'
    <3>1. [stage |-> "open", cwd |-> p, shell |-> shell] \in Job
      BY DEF Job
    <3> QED BY <1>a, <2>2, <3>1
  <2> QED BY <1>9, <2>1, <2>2 DEF OpenCheckout
<1>10. ASSUME NEW p \in Paths, WorktreeRemove(r, p)
       PROVE  TypeOK'
  <2>1. [stage |-> "git", cwd |-> p, matches |-> At(p)] \in Job
    BY <1>0 DEF Job, At
  <2> QED BY <1>10, <1>a, <2>1 DEF WorktreeRemove
<1> QED BY <1>1, <1>2, <1>3, <1>4, <1>5, <1>6, <1>7, <1>8, <1>9, <1>10
        DEF Asks, WorktreeOpen, WorktreeCreate

\* So does every later step of a request.
LEMMA ContinuesType ==
  ASSUME TypeOK, NEW r \in Requests, Continues(r)
  PROVE  TypeOK'
<1>0. /\ IsMap(workspaces, Workspace) /\ IsMap(tabs, Tab) /\ IsMap(panes, Pane)
      /\ IsMap(runtimes, Runtime) /\ focus \in Focus /\ nextId \in Ids /\ bereft \subseteq Ids
      /\ job \in [Requests -> Job] /\ unannounced \in BOOLEAN
      /\ \A w \in DOMAIN workspaces : w \in Ids /\ workspaces[w].cwd \in Paths
      /\ DOMAIN tabs \subseteq Ids
  BY DEF TypeOK, IsMap, Workspace
<1>b. ASSUME Commit(r), nextId' \in Ids, UNCHANGED bereft, IsMap(workspaces, Workspace)',
             IsMap(tabs, Tab)', IsMap(panes, Pane)', IsMap(runtimes, Runtime)', focus' \in Focus
      PROVE  TypeOK'
  BY <1>0, <1>b, CommitType DEF TypeOK, IsMap
<1>1. CASE SpawnShell(r)
  <2>1. ASSUME Step(r, [job[r] EXCEPT !.stage = "insert"]), job[r].stage = "spawn",
               runtimes' = Insert(runtimes, job[r].id,
                                  [running |-> TRUE, arcs |-> {"request", "threads"}]),
               UNCHANGED <<nextId, workspaces, tabs, panes, focus, unannounced, bereft>>
        PROVE  TypeOK'
    <3>1. job[r].id \in Ids /\ [job[r] EXCEPT !.stage = "insert"] \in Job
      BY <1>0, <2>1, JobFields
    <3>2. [running |-> TRUE, arcs |-> {"request", "threads"}] \in Runtime
      BY DEF Runtime, Owners
    <3>3. IsMap(runtimes', Runtime)
      BY <1>0, <2>1, <3>1, <3>2, InsertIsMap
    <3>4. job' \in [Requests -> Job]
      BY <1>0, <2>1, <3>1, StepType
    <3> QED BY <1>0, <2>1, <3>3, <3>4 DEF TypeOK, IsMap
  <2> QED BY <1>1, <2>1, FailType DEF SpawnShell
<1>2. CASE InsertWorkspace(r)
  <2> DEFINE n == job[r].id
  <2>1. n \in Ids /\ job[r].cwd \in Paths
    BY <1>0, <1>2, JobFields DEF InsertWorkspace
  <2>2. /\ [cwd |-> job[r].cwd, tabs |-> <<n>>] \in Workspace
        /\ [ws |-> n, panes |-> <<n>>] \in Tab
        /\ [ws |-> n, tab |-> n, term |-> n] \in Pane
    BY <2>1 DEF Workspace, Tab, Pane
  <2>3. /\ IsMap(workspaces', Workspace) /\ IsMap(tabs', Tab) /\ IsMap(panes', Pane)
    BY <1>0, <1>2, <2>1, <2>2, InsertIsMap DEF InsertWorkspace
  <2>4. IsMap(runtimes, Runtime)'
    BY <1>0, <1>2, RegisterType DEF InsertWorkspace
  <2>5. focus' \in Focus
    BY <1>0, <1>2, <2>1 DEF InsertWorkspace, Focus
  <2> QED BY <1>0, <1>2, <1>b, <2>3, <2>4, <2>5 DEF InsertWorkspace, IsMap
<1>3. CASE InsertBareWorkspace(r)
  <2> DEFINE n == job[r].id
  <2>1. n \in Ids /\ job[r].cwd \in Paths
    BY <1>0, <1>3, JobFields DEF InsertBareWorkspace
  <2>2. [cwd |-> job[r].cwd, tabs |-> <<>>] \in Workspace
    BY <2>1 DEF Workspace
  <2>3. IsMap(workspaces', Workspace)
    BY <1>0, <1>3, <2>1, <2>2, InsertIsMap DEF InsertBareWorkspace
  <2>4. focus' \in Focus
    BY <1>0, <1>3, <2>1 DEF InsertBareWorkspace, Focus
  <2> QED BY <1>0, <1>3, <1>b, <2>3, <2>4 DEF InsertBareWorkspace, IsMap
<1>4. CASE InsertTab(r)
  <2> DEFINE n == job[r].id
             w == job[r].ws
  <2>1. n \in Ids /\ w \in Ids
    BY <1>0, <1>4, JobFields DEF InsertTab
  <2>2. CASE StillOpen(w)
    <3>1. [ws |-> w, panes |-> <<n>>] \in Tab /\ [ws |-> w, tab |-> n, term |-> n] \in Pane
      BY <2>1 DEF Tab, Pane
    <3>2. /\ workspaces' = [workspaces EXCEPT ![w].tabs = Append(@, n)]
          /\ tabs' = Insert(tabs, n, [ws |-> w, panes |-> <<n>>])
          /\ panes' = Insert(panes, n, [ws |-> w, tab |-> n, term |-> n])
          /\ Register(n) /\ Commit(r) /\ UNCHANGED <<nextId, bereft>>
          /\ focus' \in {[ws |-> w, tab |-> n, pane |-> n], focus}
      BY <1>4, <2>2 DEF InsertTab
    <3>3. IsMap(workspaces', Workspace)
      BY <1>0, <2>1, <3>2, EnlistType
    <3>4. IsMap(tabs', Tab) /\ IsMap(panes', Pane)
      BY <1>0, <2>1, <3>1, <3>2, InsertIsMap
    <3>5. IsMap(runtimes, Runtime)'
      BY <1>0, <3>2, RegisterType
    <3>6. focus' \in Focus
      BY <1>0, <2>1, <3>2 DEF Focus
    <3> QED BY <1>0, <1>b, <3>2, <3>3, <3>4, <3>5, <3>6 DEF IsMap
  <2>3. CASE ~StillOpen(w)
    <3>1. /\ runtimes' = Release({n}, "request") /\ Step(r, Idle)
          /\ UNCHANGED <<workspaces, tabs, panes, focus, unannounced, nextId, bereft>>
      BY <1>4, <2>3 DEF InsertTab
    <3>2. IsMap(runtimes', Runtime)
      BY <1>0, <3>1, ReleaseIsMap
    <3>3. job' \in [Requests -> Job]
      BY <1>0, <3>1, StepType DEF Idle, Job
    <3> QED BY <1>0, <3>1, <3>2, <3>3 DEF TypeOK, IsMap
  <2> QED BY <2>2, <2>3
<1>5. CASE PromoteCommit(r)
  <2> DEFINE t == job[r].tab
             p == job[r].cwd
             old == tabs[t].ws
  <2>1. p \in Paths
    BY <1>0, <1>5, JobFields DEF PromoteCommit
  <2>2. ASSUME t \in DOMAIN tabs, NEW w \in At(p), MoveTab(workspaces, t, old, w),
               Commit(r), UNCHANGED <<nextId, runtimes, bereft>>
        PROVE  TypeOK'
    <3>1. w \in Ids
      BY <1>0 DEF At
    <3> HIDE DEF t, old
    <3>2. /\ IsMap(workspaces, Workspace)' /\ IsMap(tabs, Tab)' /\ IsMap(panes, Pane)'
          /\ focus' \in Focus
      BY <1>0, <2>2, <3>1, MoveTabType
    <3> QED BY <1>0, <1>b, <2>2, <3>2 DEF IsMap
  <2>3. ASSUME t \in DOMAIN tabs, nextId' = nextId + 1, Commit(r),
               UNCHANGED <<runtimes, bereft>>,
               MoveTab(Insert(workspaces, nextId, [cwd |-> p, tabs |-> <<>>]), t, old, nextId)
        PROVE  TypeOK'
    <3>1. [cwd |-> p, tabs |-> <<>>] \in Workspace
      BY <2>1 DEF Workspace
    <3> HIDE DEF t, p, old
    <3>2. IsMap(Insert(workspaces, nextId, [cwd |-> p, tabs |-> <<>>]), Workspace)
      BY <1>0, <3>1, InsertIsMap
    <3>3. /\ IsMap(workspaces, Workspace)' /\ IsMap(tabs, Tab)' /\ IsMap(panes, Pane)'
          /\ focus' \in Focus
      BY <1>0, <2>3, <3>2, MoveTabType
    <3>4. nextId' \in Ids
      BY <1>0, <2>3 DEF Ids, None
    <3> QED BY <1>0, <1>b, <2>3, <3>3, <3>4 DEF IsMap
  <2> QED BY <1>5, <2>2, <2>3, FailType DEF PromoteCommit
<1>6. CASE OpenUnmatched(r)
  <2>1. job[r].cwd \in Paths /\ job[r].shell \in BOOLEAN
    BY <1>0, <1>6, JobFields DEF OpenUnmatched
  <2> QED BY <1>6, <2>1, AllocateWorkspaceType DEF OpenUnmatched
<1>7. CASE GitRemove(r)
  <2>1. ASSUME Step(r, [job[r] EXCEPT !.stage = "teardown"]), job[r].stage = "git",
               bereft' = bereft \cup At(job[r].cwd),
               UNCHANGED <<nextId, workspaces, tabs, panes, runtimes, focus, unannounced>>
        PROVE  TypeOK'
    <3>1. [job[r] EXCEPT !.stage = "teardown"] \in Job
      BY <1>0, <2>1, JobFields
    <3>2. job' \in [Requests -> Job]
      BY <1>0, <2>1, <3>1, StepType
    <3>3. bereft' \subseteq Ids
      BY <1>0, <2>1 DEF At
    <3> QED BY <1>0, <2>1, <3>2, <3>3 DEF TypeOK, IsMap
  <2> QED BY <1>7, <2>1, FailType DEF GitRemove
<1>8. CASE TearDownWorktree(r)
  <2>1. IsMap(workspaces, Workspace)' /\ IsMap(tabs, Tab)'
    BY <1>0, <1>8 DEF TearDownWorktree, DropWorkspaces, IsMap, Restrict
  <2>2. IsMap(panes, Pane)' /\ IsMap(runtimes, Runtime)'
    BY <1>8, DropPanesType DEF TearDownWorktree, DropWorkspaces
  <2>3. focus' \in Focus
    BY <1>0, <1>8, <2>1, <2>2, RefocusType DEF TearDownWorktree
  <2> QED BY <1>0, <1>8, <1>b, <2>1, <2>2, <2>3 DEF TearDownWorktree
<1>9. CASE PublishEvent(r)
  <2>1. job' \in [Requests -> Job]
    BY <1>0, <1>9, StepType DEF PublishEvent, Idle, Job
  <2> QED BY <1>0, <1>9, <2>1 DEF PublishEvent, TypeOK, IsMap
<1> QED BY <1>1, <1>2, <1>3, <1>4, <1>5, <1>6, <1>7, <1>8, <1>9 DEF Continues

\* Type correctness of the registry, for any number of concurrent requests
\* (BuiltinData and what each request thread holds between two lock scopes).
THEOREM RegistryTypeCorrect == Spec => []TypeOK
<1>1. Init => TypeOK
  <2> SUFFICES ASSUME Init PROVE TypeOK
    OBVIOUS
  <2>1. /\ IsMap(workspaces, Workspace) /\ IsMap(tabs, Tab) /\ IsMap(panes, Pane)
        /\ IsMap(runtimes, Runtime)
    BY EmptyMap DEF Init
  <2>2. Idle \in Job
    BY DEF Idle, Job
  <2>3. job \in [Requests -> Job]
    BY <2>2 DEF Init
  <2>4. nextId \in Ids /\ focus \in Focus /\ unannounced \in BOOLEAN /\ bereft \subseteq Ids
    <3>1. /\ nextId = 1 /\ focus = [ws |-> None, tab |-> None, pane |-> None]
          /\ unannounced = FALSE /\ bereft = {}
      BY Zenon DEF Init
    <3>2. nextId \in Ids
      BY <3>1 DEF Ids, None
    <3>3. focus \in Focus
      BY <3>1 DEF Focus
    <3> QED BY <3>1, <3>2, <3>3
  <2> QED BY <2>1, <2>3, <2>4 DEF TypeOK
<1>2. TypeOK /\ [Next]_vars => TypeOK'
  <2> SUFFICES ASSUME TypeOK, [Next]_vars PROVE TypeOK'
    OBVIOUS
  <2>1. ASSUME NEW t \in DOMAIN runtimes, ShellExits(t) PROVE TypeOK'
    <3> DEFINE left == Release({t}, "threads")
    <3>1. IsMap(left, Runtime)
      BY ReleaseIsMap DEF TypeOK
    <3>2. runtimes' = [u \in DOMAIN left |->
                         IF u = t THEN [left[u] EXCEPT !.running = FALSE] ELSE left[u]]
      BY <2>1 DEF ShellExits
    <3> HIDE DEF left
    <3>3. IsMap(runtimes', Runtime)
      BY <3>1, <3>2 DEF IsMap, Runtime
    <3> QED BY <2>1, <3>3 DEF ShellExits, TypeOK, IsMap
  <2>2. CASE UNCHANGED vars
    BY <2>2 DEF vars, TypeOK, IsMap
  <2> QED BY <2>1, <2>2, AsksType, ContinuesType DEF Next
<1> QED BY <1>1, <1>2, PTL DEF Spec

-----------------------------------------------------------------------------
(***************************************************************************)
(* The registry's maps form one tree and its focus stays inside it.        *)
(***************************************************************************)

(***************************************************************************)
(* The tree, over the maps it is made of.                                  *)
(***************************************************************************)
\* WorkspacesOwnTabs, of workspaces W and tabs T.
OwnTabs(W, T) ==
  /\ \A w \in DOMAIN W :
       IsInjective(W[w].tabs) /\ Range(W[w].tabs) = {t \in DOMAIN T : T[t].ws = w}
  /\ \A t \in DOMAIN T : T[t].ws \in DOMAIN W

\* TabsOwnPanes, of tabs T and panes P.
OwnPanes(T, P) ==
  /\ \A t \in DOMAIN T :
       /\ T[t].panes # <<>> /\ IsInjective(T[t].panes)
       /\ Range(T[t].panes) = {p \in DOMAIN P : P[p].tab = t}
  /\ \A p \in DOMAIN P : P[p].tab \in DOMAIN T /\ P[p].ws = T[P[p].tab].ws

\* PanesOwnTerminals, of panes P and registered terminals X.
OwnTerminals(P, X) ==
  /\ \A p, q \in DOMAIN P : P[p].term = P[q].term => p = q
  /\ X = {P[p].term : p \in DOMAIN P}

\* FocusCoherent, of focus g.
FocusIn(W, T, P, g) ==
  /\ g.ws \in DOMAIN W \cup {None}
  /\ IF {t \in DOMAIN T : T[t].ws = g.ws} = {} THEN g.tab = None
     ELSE g.tab \in DOMAIN T /\ T[g.tab].ws = g.ws
  /\ IF {p \in DOMAIN P : P[p].tab = g.tab} = {} THEN g.pane = None
     ELSE g.pane \in DOMAIN P /\ P[g.pane].tab = g.tab

\* The types of the three maps.
Maps(W, T, P) == IsMap(W, Workspace) /\ IsMap(T, Tab) /\ IsMap(P, Pane)

\* The invariants of the model in these terms.
LEMMA TreeOf ==
  /\ TreeCoherent <=> /\ OwnTabs(workspaces, tabs) /\ OwnPanes(tabs, panes)
                      /\ OwnTerminals(panes, Terminals)
  /\ FocusCoherent <=> FocusIn(workspaces, tabs, panes, focus)
<1>1. TreeCoherent <=> /\ OwnTabs(workspaces, tabs) /\ OwnPanes(tabs, panes)
                       /\ OwnTerminals(panes, Terminals)
  BY DEF TreeCoherent, WorkspacesOwnTabs, TabsOwnPanes, PanesOwnTerminals, OwnTabs, OwnPanes, OwnTerminals
<1>2. FocusCoherent <=> FocusIn(workspaces, tabs, panes, focus)
  BY DEF FocusCoherent, FocusIn
<1> QED BY <1>1, <1>2

\* A list of one id.
LEMMA SingleList ==
  ASSUME NEW n
  PROVE  <<n>> # <<>> /\ IsInjective(<<n>>) /\ Range(<<n>>) = {n}
  BY DEF IsInjective, Range

\* A new tab at the end of a workspace's list (create_tab, promote_tab).
LEMMA AddTab ==
  ASSUME NEW W, NEW T, IsMap(W, Workspace), IsMap(T, Tab), OwnTabs(W, T),
         NEW w \in DOMAIN W, NEW n \in Ids, n \notin DOMAIN T, NEW x, x.ws = w
  PROVE  OwnTabs([W EXCEPT ![w].tabs = Append(@, n)], Insert(T, n, x))
<1> DEFINE V == [W EXCEPT ![w].tabs = Append(@, n)]
           U == Insert(T, n, x)
<1>1. W[w] \in Workspace /\ W[w].tabs \in Seq(Ids) /\ IsInjective(W[w].tabs)
      /\ Range(W[w].tabs) = {t \in DOMAIN T : T[t].ws = w}
  BY DEF IsMap, Workspace, OwnTabs
<1>2. IsInjective(Append(W[w].tabs, n)) /\ Range(Append(W[w].tabs, n)) = Range(W[w].tabs) \cup {n}
  BY <1>1, AppendRange
<1>3. /\ DOMAIN V = DOMAIN W /\ V[w].tabs = Append(W[w].tabs, n)
      /\ \A v \in DOMAIN W \ {w} : V[v] = W[v]
  BY <1>1 DEF IsMap, Workspace
<1>4. /\ DOMAIN U = DOMAIN T \cup {n} /\ U[n].ws = w
      /\ \A t \in DOMAIN T : U[t] = T[t]
  BY DEF Insert
<1> HIDE DEF V, U
<1>5. ASSUME NEW v \in DOMAIN V
      PROVE  IsInjective(V[v].tabs) /\ Range(V[v].tabs) = {t \in DOMAIN U : U[t].ws = v}
  <2>1. CASE v = w
    BY <1>1, <1>2, <1>3, <1>4, <2>1, ZenonT(60)
  <2>2. CASE v # w
    BY <1>3, <1>4, <2>2 DEF OwnTabs
  <2> QED BY <2>1, <2>2
<1>6. \A t \in DOMAIN U : U[t].ws \in DOMAIN V
  BY <1>3, <1>4 DEF OwnTabs
<1> QED BY <1>5, <1>6 DEF OwnTabs, V, U

\* A new workspace without tabs.
LEMMA AddBareWorkspace ==
  ASSUME NEW W, NEW T, OwnTabs(W, T), NEW n, n \notin DOMAIN W, NEW x, x.tabs = <<>>
  PROVE  OwnTabs(Insert(W, n, x), T)
<1>1. IsInjective(<<>>) /\ Range(<<>>) = {}
  BY EmptyMap DEF IsInjective, Range
<1>2. \A t \in DOMAIN T : T[t].ws # n
  BY DEF OwnTabs
<1> QED BY <1>1, <1>2 DEF OwnTabs, Insert

\* A new workspace with its first tab (create_workspace).
LEMMA AddWorkspace ==
  ASSUME NEW W, NEW T, OwnTabs(W, T), NEW n, n \notin DOMAIN W, n \notin DOMAIN T,
         NEW x, x.tabs = <<n>>, NEW y, y.ws = n
  PROVE  OwnTabs(Insert(W, n, x), Insert(T, n, y))
<1>1. IsInjective(<<n>>) /\ Range(<<n>>) = {n}
  BY SingleList
<1>2. \A t \in DOMAIN T : T[t].ws # n
  BY DEF OwnTabs
<1> QED BY <1>1, <1>2 DEF OwnTabs, Insert

\* A new tab's pane.
LEMMA AddPane ==
  ASSUME NEW T, NEW P, OwnPanes(T, P), NEW n, n \notin DOMAIN T, n \notin DOMAIN P,
         NEW y, y.panes = <<n>>, NEW z, z.tab = n, z.ws = y.ws
  PROVE  OwnPanes(Insert(T, n, y), Insert(P, n, z))
<1>1. <<n>> # <<>> /\ IsInjective(<<n>>) /\ Range(<<n>>) = {n}
  BY SingleList
<1>2. \A p \in DOMAIN P : P[p].tab # n
  BY DEF OwnPanes
<1> DEFINE U == Insert(T, n, y)
           Q == Insert(P, n, z)
<1>3. /\ DOMAIN U = DOMAIN T \cup {n} /\ U[n].panes = <<n>> /\ U[n].ws = y.ws
      /\ \A t \in DOMAIN T : U[t] = T[t]
      /\ DOMAIN Q = DOMAIN P \cup {n} /\ Q[n].tab = n /\ Q[n].ws = y.ws
      /\ \A p \in DOMAIN P : Q[p] = P[p]
  <2>1. DOMAIN U = DOMAIN T \cup {n} /\ U[n] = y /\ \A t \in DOMAIN T : U[t] = T[t]
    BY DEF Insert
  <2>2. DOMAIN Q = DOMAIN P \cup {n} /\ Q[n] = z /\ \A p \in DOMAIN P : Q[p] = P[p]
    BY DEF Insert
  <2> HIDE DEF U, Q
  <2> QED BY <2>1, <2>2
<1> HIDE DEF U, Q
<1>4. ASSUME NEW t \in DOMAIN U
      PROVE  /\ U[t].panes # <<>> /\ IsInjective(U[t].panes)
             /\ Range(U[t].panes) = {p \in DOMAIN Q : Q[p].tab = t}
  <2>1. CASE t = n
    BY <1>1, <1>2, <1>3, <2>1
  <2>2. CASE t # n
    BY <1>3, <2>2 DEF OwnPanes
  <2> QED BY <2>1, <2>2
<1>5. ASSUME NEW p \in DOMAIN Q PROVE Q[p].tab \in DOMAIN U /\ Q[p].ws = U[Q[p].tab].ws
  BY <1>3 DEF OwnPanes
<1> QED BY <1>4, <1>5 DEF OwnPanes, U, Q

\* A new pane's terminal.
LEMMA AddTerminal ==
  ASSUME NEW P, NEW X, OwnTerminals(P, X), NEW n, n \notin DOMAIN P, n \notin X,
         NEW z, z.term = n
  PROVE  OwnTerminals(Insert(P, n, z), X \cup {n})
<1> DEFINE Q == Insert(P, n, z)
<1>1. DOMAIN Q = DOMAIN P \cup {n} /\ Q[n] = z /\ \A p \in DOMAIN P : Q[p] = P[p]
  BY DEF Insert
<1> HIDE DEF Q
<1>2. \A p, q \in DOMAIN Q : Q[p].term = Q[q].term => p = q
  BY <1>1 DEF OwnTerminals
<1>3. X \cup {n} = {Q[p].term : p \in DOMAIN Q}
  BY <1>1 DEF OwnTerminals
<1> QED BY <1>2, <1>3 DEF OwnTerminals, Q

-----------------------------------------------------------------------------
\* Workspaces removed with their tabs.
LEMMA DropOwnedTabs ==
  ASSUME NEW W, NEW T, OwnTabs(W, T), NEW V, NEW S, S = {t \in DOMAIN T : T[t].ws \in V}
  PROVE  OwnTabs(Restrict(W, DOMAIN W \ V), Restrict(T, DOMAIN T \ S))
  BY DEF OwnTabs, Restrict

\* Tabs removed with their panes.
LEMMA DropOwnedPanes ==
  ASSUME NEW T, NEW P, OwnPanes(T, P), NEW S, NEW Q, Q = {p \in DOMAIN P : P[p].tab \in S}
  PROVE  OwnPanes(Restrict(T, DOMAIN T \ S), Restrict(P, DOMAIN P \ Q))
  BY DEF OwnPanes, Restrict

\* A closed tab leaves its workspace's list, also when that leaves it empty.
LEMMA DropListed ==
  ASSUME NEW W, NEW T, IsMap(W, Workspace), OwnTabs(W, T), NEW t \in DOMAIN T
  PROVE  OwnTabs([W EXCEPT ![T[t].ws].tabs = Without(@, t)], Restrict(T, DOMAIN T \ {t}))
<1> DEFINE w == T[t].ws
           V == [W EXCEPT ![w].tabs = Without(@, t)]
           U == Restrict(T, DOMAIN T \ {t})
<1>1. /\ w \in DOMAIN W /\ W[w] \in Workspace /\ W[w].tabs \in Seq(Ids) /\ IsInjective(W[w].tabs)
      /\ Range(W[w].tabs) = {u \in DOMAIN T : T[u].ws = w}
  BY DEF IsMap, Workspace, OwnTabs
<1>2. IsInjective(Without(W[w].tabs, t)) /\ Range(Without(W[w].tabs, t)) = Range(W[w].tabs) \ {t}
  BY <1>1, WithoutRange
<1>3. /\ DOMAIN V = DOMAIN W /\ V[w].tabs = Without(W[w].tabs, t)
      /\ \A v \in DOMAIN W \ {w} : V[v] = W[v]
  BY <1>1 DEF IsMap, Workspace
<1>4. DOMAIN U = DOMAIN T \ {t} /\ \A u \in DOMAIN U : U[u] = T[u]
  BY DEF Restrict
<1>5. T[t].ws = w
  OBVIOUS
<1> HIDE DEF V, U, w
<1>6. ASSUME NEW v \in DOMAIN V
      PROVE  IsInjective(V[v].tabs) /\ Range(V[v].tabs) = {u \in DOMAIN U : U[u].ws = v}
  <2>1. CASE v = w
    BY <1>1, <1>2, <1>3, <1>4, <2>1
  <2>2. CASE v # w
    BY <1>3, <1>4, <1>5, <2>2 DEF OwnTabs
  <2> QED BY <2>1, <2>2
<1>7. \A u \in DOMAIN U : U[u].ws \in DOMAIN V
  BY <1>3, <1>4 DEF OwnTabs
<1> QED BY <1>6, <1>7 DEF OwnTabs, V, U, w

\* One of a tab's panes is closed and others stay.
LEMMA DropOnePane ==
  ASSUME NEW T, NEW P, IsMap(T, Tab), OwnPanes(T, P), NEW p \in DOMAIN P,
         Without(T[P[p].tab].panes, p) # <<>>
  PROVE  OwnPanes([T EXCEPT ![P[p].tab].panes = Without(T[P[p].tab].panes, p)],
                  Restrict(P, DOMAIN P \ {p}))
<1> DEFINE t == P[p].tab
           U == [T EXCEPT ![t].panes = Without(T[t].panes, p)]
           Q == Restrict(P, DOMAIN P \ {p})
<1>1. /\ t \in DOMAIN T /\ T[t] \in Tab /\ T[t].panes \in Seq(Ids) /\ IsInjective(T[t].panes)
      /\ Range(T[t].panes) = {q \in DOMAIN P : P[q].tab = t}
  BY DEF IsMap, Tab, OwnPanes
<1>2. IsInjective(Without(T[t].panes, p)) /\ Range(Without(T[t].panes, p)) = Range(T[t].panes) \ {p}
  BY <1>1, WithoutRange
<1>3. /\ DOMAIN U = DOMAIN T /\ U[t].panes = Without(T[t].panes, p) /\ U[t].ws = T[t].ws
      /\ \A u \in DOMAIN T \ {t} : U[u] = T[u]
  BY <1>1 DEF IsMap, Tab
<1>4. DOMAIN Q = DOMAIN P \ {p} /\ \A q \in DOMAIN Q : Q[q] = P[q]
  BY DEF Restrict
<1>5. P[p].tab = t /\ Without(T[t].panes, p) # <<>>
  OBVIOUS
<1> HIDE DEF U, Q, t
<1>6. ASSUME NEW u \in DOMAIN U
      PROVE  /\ U[u].panes # <<>> /\ IsInjective(U[u].panes)
             /\ Range(U[u].panes) = {q \in DOMAIN Q : Q[q].tab = u}
  <2>1. CASE u = t
    BY <1>1, <1>2, <1>3, <1>4, <1>5, <2>1
  <2>2. CASE u # t
    BY <1>3, <1>4, <1>5, <2>2 DEF OwnPanes
  <2> QED BY <2>1, <2>2
<1>7. ASSUME NEW q \in DOMAIN Q PROVE Q[q].tab \in DOMAIN U /\ Q[q].ws = U[Q[q].tab].ws
  <2>1. q \in DOMAIN P /\ Q[q] = P[q] /\ P[q].tab \in DOMAIN T /\ P[q].ws = T[P[q].tab].ws
    BY <1>4, <1>7 DEF OwnPanes
  <2> QED BY <1>3, <2>1
<1> QED BY <1>6, <1>7 DEF OwnPanes, U, Q, t

\* A pane is the last of its tab if the list without it is empty.
LEMMA LastPane ==
  ASSUME NEW T, NEW P, IsMap(T, Tab), OwnPanes(T, P), NEW p \in DOMAIN P,
         Without(T[P[p].tab].panes, p) = <<>>
  PROVE  {p} = {q \in DOMAIN P : P[q].tab \in {P[p].tab}}
<1>1. /\ P[p].tab \in DOMAIN T /\ T[P[p].tab].panes \in Seq(Ids) /\ IsInjective(T[P[p].tab].panes)
      /\ Range(T[P[p].tab].panes) = {q \in DOMAIN P : P[q].tab = P[p].tab}
  BY DEF IsMap, Tab, OwnPanes
<1>2. Range(Without(T[P[p].tab].panes, p)) = Range(T[P[p].tab].panes) \ {p}
  BY <1>1, WithoutRange
<1>3. Range(<<>>) = {}
  BY EmptyMap DEF Range
<1> QED BY <1>1, <1>2, <1>3

\* Tab t moves to workspace w with its panes, and the workspace it leaves goes
\* if this empties it: V, U and Q are what becomes of W, T and P.
Moved(W, T, P, t, w, V, U, Q) ==
  LET old  == T[t].ws
      left == Without(W[old].tabs, t)
  IN  /\ t \in DOMAIN T /\ w \in DOMAIN W /\ w # old
      /\ DOMAIN V = DOMAIN W \ (IF left = <<>> THEN {old} ELSE {})
      /\ left # <<>> => V[old].tabs = left
      /\ V[w].tabs = Append(W[w].tabs, t)
      /\ \A v \in DOMAIN W \ {old, w} : V[v] = W[v]
      /\ DOMAIN U = DOMAIN T /\ U[t].ws = w
      /\ \A u \in DOMAIN T : U[u].panes = T[u].panes
      /\ \A u \in DOMAIN T \ {t} : U[u].ws = T[u].ws
      /\ DOMAIN Q = DOMAIN P
      /\ \A q \in DOMAIN P : Q[q].tab = P[q].tab /\ Q[q].term = P[q].term
      /\ \A q \in DOMAIN P : Q[q].ws = IF P[q].tab = t THEN w ELSE P[q].ws

\* A moved tab keeps both lists true (promote_tab).
LEMMA MoveOwned ==
  ASSUME NEW W, NEW T, NEW P, NEW t, NEW w, NEW V, NEW U, NEW Q,
         Maps(W, T, P), OwnTabs(W, T), OwnPanes(T, P), Moved(W, T, P, t, w, V, U, Q)
  PROVE  OwnTabs(V, U) /\ OwnPanes(U, Q)
<1> DEFINE old  == T[t].ws
           left == Without(W[old].tabs, t)
<1>0. /\ t \in DOMAIN T /\ w \in DOMAIN W /\ w # old
      /\ DOMAIN V = DOMAIN W \ (IF left = <<>> THEN {old} ELSE {})
      /\ left # <<>> => V[old].tabs = left
      /\ V[w].tabs = Append(W[w].tabs, t)
      /\ \A v \in DOMAIN W \ {old, w} : V[v] = W[v]
  BY DEF Moved
<1>1. /\ old \in DOMAIN W /\ t \in Ids
      /\ W[old].tabs \in Seq(Ids) /\ W[w].tabs \in Seq(Ids)
      /\ IsInjective(W[old].tabs) /\ IsInjective(W[w].tabs)
      /\ Range(W[old].tabs) = {u \in DOMAIN T : T[u].ws = old}
      /\ Range(W[w].tabs) = {u \in DOMAIN T : T[u].ws = w}
  BY <1>0 DEF Maps, IsMap, Workspace, OwnTabs
<1>2. IsInjective(left) /\ Range(left) = {u \in DOMAIN T : T[u].ws = old} \ {t}
  BY <1>1, WithoutRange
<1>3. /\ IsInjective(Append(W[w].tabs, t))
      /\ Range(Append(W[w].tabs, t)) = {u \in DOMAIN T : T[u].ws = w} \cup {t}
  BY <1>0, <1>1, AppendRange
<1>4. T[t].ws = old
  OBVIOUS
<1>5. /\ DOMAIN U = DOMAIN T /\ U[t].ws = w /\ \A u \in DOMAIN T : U[u].panes = T[u].panes
      /\ \A u \in DOMAIN T \ {t} : U[u].ws = T[u].ws
  BY DEF Moved
<1>6. /\ DOMAIN Q = DOMAIN P /\ \A q \in DOMAIN P : Q[q].tab = P[q].tab
      /\ \A q \in DOMAIN P : Q[q].ws = IF P[q].tab = t THEN w ELSE P[q].ws
  BY DEF Moved
<1> HIDE DEF old, left
<1>7. ASSUME NEW v \in DOMAIN V
      PROVE  IsInjective(V[v].tabs) /\ Range(V[v].tabs) = {u \in DOMAIN U : U[u].ws = v}
  <2>1. CASE v = old
    <3>1. V[v].tabs = left
      BY <1>0, <2>1
    <3>2. {u \in DOMAIN U : U[u].ws = v} = {u \in DOMAIN T : T[u].ws = old} \ {t}
      BY <1>0, <1>5, <2>1
    <3> QED BY <1>2, <3>1, <3>2
  <2>2. CASE v = w
    <3>1. {u \in DOMAIN U : U[u].ws = v} = {u \in DOMAIN T : T[u].ws = w} \cup {t}
      BY <1>0, <1>5, <2>2
    <3> QED BY <1>0, <1>3, <2>2, <3>1
  <2>3. CASE v # old /\ v # w
    <3>1. V[v] = W[v] /\ v \in DOMAIN W
      BY <1>0, <2>3
    <3>2. {u \in DOMAIN U : U[u].ws = v} = {u \in DOMAIN T : T[u].ws = v}
      BY <1>4, <1>5, <2>3
    <3> QED BY <3>1, <3>2 DEF OwnTabs
  <2> QED BY <2>1, <2>2, <2>3
<1>8. ASSUME NEW u \in DOMAIN U
      PROVE  U[u].ws \in DOMAIN V
  <2>1. CASE u = t
    BY <1>0, <1>5, <2>1
  <2>2. CASE u # t
    <3>1. U[u].ws = T[u].ws /\ u \in DOMAIN T /\ T[u].ws \in DOMAIN W
      BY <1>5, <2>2 DEF OwnTabs
    <3>2. T[u].ws = old => u \in Range(left)
      BY <1>2, <2>2, <3>1
    <3>3. Range(<<>>) = {}
      BY EmptyMap DEF Range
    <3> QED BY <1>0, <3>1, <3>2, <3>3
  <2> QED BY <2>1, <2>2
<1>9. ASSUME NEW u \in DOMAIN U
      PROVE  /\ U[u].panes # <<>> /\ IsInjective(U[u].panes)
             /\ Range(U[u].panes) = {q \in DOMAIN Q : Q[q].tab = u}
  <2>1. U[u].panes = T[u].panes /\ u \in DOMAIN T
    BY <1>5
  <2>2. {q \in DOMAIN Q : Q[q].tab = u} = {q \in DOMAIN P : P[q].tab = u}
    BY <1>6
  <2> QED BY <2>1, <2>2 DEF OwnPanes
<1>10. ASSUME NEW q \in DOMAIN Q PROVE Q[q].tab \in DOMAIN U /\ Q[q].ws = U[Q[q].tab].ws
  <2>1. q \in DOMAIN P /\ Q[q].tab = P[q].tab /\ P[q].tab \in DOMAIN T /\ P[q].ws = T[P[q].tab].ws
    BY <1>6 DEF OwnPanes
  <2> QED BY <1>5, <1>6, <2>1
<1> QED BY <1>7, <1>8, <1>9, <1>10 DEF OwnTabs, OwnPanes
-----------------------------------------------------------------------------
\* The first tab of a workspace and the first pane of a tab.
LEMMA FirstOwned ==
  ASSUME NEW W, NEW T, NEW P, Maps(W, T, P), OwnTabs(W, T), OwnPanes(T, P)
  PROVE  /\ \A w \in DOMAIN W :
              IF {t \in DOMAIN T : T[t].ws = w} = {} THEN FirstOrNone(W[w].tabs) = None
              ELSE FirstOrNone(W[w].tabs) \in DOMAIN T /\ T[FirstOrNone(W[w].tabs)].ws = w
         /\ \A t \in DOMAIN T :
              FirstOrNone(T[t].panes) \in DOMAIN P /\ P[FirstOrNone(T[t].panes)].tab = t
<1>0. Range(<<>>) = {}
  BY EmptyMap DEF Range
<1>1. ASSUME NEW w \in DOMAIN W
      PROVE  IF {t \in DOMAIN T : T[t].ws = w} = {} THEN FirstOrNone(W[w].tabs) = None
             ELSE FirstOrNone(W[w].tabs) \in DOMAIN T /\ T[FirstOrNone(W[w].tabs)].ws = w
  <2>1. W[w].tabs \in Seq(Ids) /\ Range(W[w].tabs) = {t \in DOMAIN T : T[t].ws = w}
    BY DEF Maps, IsMap, Workspace, OwnTabs
  <2>2. CASE W[w].tabs = <<>>
    BY <1>0, <2>1, <2>2, FirstInRange
  <2>3. CASE W[w].tabs # <<>>
    BY <2>1, <2>3, FirstInRange
  <2> QED BY <2>2, <2>3
<1>2. ASSUME NEW t \in DOMAIN T
      PROVE  FirstOrNone(T[t].panes) \in DOMAIN P /\ P[FirstOrNone(T[t].panes)].tab = t
  <2>1. T[t].panes \in Seq(Ids) /\ T[t].panes # <<>>
        /\ Range(T[t].panes) = {p \in DOMAIN P : P[p].tab = t}
    BY DEF Maps, IsMap, Tab, OwnPanes
  <2> QED BY <2>1, FirstInRange
<1> QED BY <1>1, <1>2

\* normalize_focus settles inside the tree, wherever it starts.
LEMMA NormalFocusIn ==
  ASSUME NEW W, NEW T, NEW P, Maps(W, T, P), OwnTabs(W, T), OwnPanes(T, P),
         NEW f, NEW g \in NormalFocus(W, T, P, f)
  PROVE  FocusIn(W, T, P, g)
<1> DEFINE tabIn(w)  == IF f.tab \in DOMAIN T /\ T[f.tab].ws = w THEN f.tab
                        ELSE FirstOrNone(W[w].tabs)
           paneIn(t) == IF f.pane \in DOMAIN P /\ P[f.pane].tab = t THEN f.pane
                        ELSE IF t \in DOMAIN T THEN FirstOrNone(T[t].panes) ELSE None
<1>0. /\ None \notin DOMAIN W /\ None \notin DOMAIN T
      /\ \A t \in DOMAIN T : T[t].ws \in DOMAIN W
      /\ \A p \in DOMAIN P : P[p].tab \in DOMAIN T
  BY DEF Maps, IsMap, Ids, OwnTabs, OwnPanes
<1>1. ASSUME NEW w \in DOMAIN W
      PROVE  IF {t \in DOMAIN T : T[t].ws = w} = {} THEN tabIn(w) = None
             ELSE tabIn(w) \in DOMAIN T /\ T[tabIn(w)].ws = w
  BY FirstOwned
<1>2. ASSUME NEW t \in DOMAIN T
      PROVE  paneIn(t) \in DOMAIN P /\ P[paneIn(t)].tab = t
  BY FirstOwned
<1>3. paneIn(None) = None /\ {p \in DOMAIN P : P[p].tab = None} = {}
  BY <1>0
<1>4. PICK w \in FocusTargets(W, f) :
        g = IF w = None THEN [ws |-> None, tab |-> None, pane |-> None]
            ELSE [ws |-> w, tab |-> tabIn(w), pane |-> paneIn(tabIn(w))]
  BY DEF NormalFocus
<1>5. w \in DOMAIN W \cup {None}
  BY DEF FocusTargets
<1> HIDE DEF tabIn, paneIn
<1>6. CASE w = None
  BY <1>0, <1>3, <1>4, <1>6 DEF FocusIn
<1>7. CASE w # None
  <2>1. w \in DOMAIN W /\ g.ws = w /\ g.tab = tabIn(w) /\ g.pane = paneIn(tabIn(w))
    BY <1>4, <1>5, <1>7
  <2>2. CASE {t \in DOMAIN T : T[t].ws = w} = {}
    BY <1>1, <1>3, <2>1, <2>2 DEF FocusIn
  <2>3. CASE {t \in DOMAIN T : T[t].ws = w} # {}
    <3>1. tabIn(w) \in DOMAIN T /\ T[tabIn(w)].ws = w
      BY <1>1, <2>1, <2>3
    <3>2. paneIn(tabIn(w)) \in DOMAIN P /\ P[paneIn(tabIn(w))].tab = tabIn(w)
      BY <1>2, <3>1
    <3> QED BY <2>1, <2>3, <3>1, <3>2 DEF FocusIn
  <2> QED BY <2>2, <2>3
<1> QED BY <1>6, <1>7

-----------------------------------------------------------------------------
(***************************************************************************)
(* The inductive invariant.  A request that has drawn an id and released   *)
(* the lock inserts under it later, so the tree stays a tree only because  *)
(* no other request and no map has that id.                                *)
(***************************************************************************)
InFlight == {r \in Requests : job[r].stage \in {"spawn", "insert"}}

\* The runtimes that owner a keeps alive.
Held(R, a) == {t \in DOMAIN R : a \in R[t].arcs}

\* No id in use is the counter's next.
IdsBelow ==
  /\ \A i \in DOMAIN workspaces \cup DOMAIN tabs \cup DOMAIN panes \cup DOMAIN runtimes : i < nextId
  /\ \A r \in InFlight : job[r].id < nextId

\* Ids that a request has drawn are not in the maps yet, and are its own.
IdsFresh ==
  /\ \A r \in InFlight :
       job[r].id \notin DOMAIN workspaces \cup DOMAIN tabs \cup DOMAIN panes
  /\ \A r, q \in InFlight : job[r].id = job[q].id => r = q

\* A shell that is not registered yet belongs to the request that spawned it.
ShellsInFlight ==
  \A r \in InFlight :
    /\ job[r].stage = "spawn" => job[r].id \notin DOMAIN runtimes
    /\ job[r].stage = "insert" /\ job[r].kind # "bare" => job[r].id \in Held(runtimes, "request")
    /\ job[r].id \notin Held(runtimes, "registry")

\* The inductive invariant, next to TypeOK.
TreeInv == TreeCoherent /\ FocusCoherent /\ IdsBelow /\ IdsFresh /\ ShellsInFlight

\* What the steps below start from.
LEMMA Pieces ==
  ASSUME TypeOK, TreeInv
  PROVE  /\ Maps(workspaces, tabs, panes) /\ IsMap(runtimes, Runtime)
         /\ job \in [Requests -> Job] /\ nextId \in Ids
         /\ OwnTabs(workspaces, tabs) /\ OwnPanes(tabs, panes)
         /\ OwnTerminals(panes, Held(runtimes, "registry"))
         /\ FocusIn(workspaces, tabs, panes, focus)
         /\ IdsBelow /\ IdsFresh /\ ShellsInFlight
<1>1. Terminals = Held(runtimes, "registry")
  BY DEF Terminals, Held
<1>2. /\ OwnTabs(workspaces, tabs) /\ OwnPanes(tabs, panes)
      /\ OwnTerminals(panes, Held(runtimes, "registry"))
      /\ FocusIn(workspaces, tabs, panes, focus)
  BY <1>1, TreeOf DEF TreeInv
<1> QED BY <1>2 DEF TreeInv, TypeOK, Maps

\* What they show.
LEMMA Assembled ==
  ASSUME OwnTabs(workspaces', tabs'), OwnPanes(tabs', panes'),
         OwnTerminals(panes', Held(runtimes', "registry")),
         FocusIn(workspaces', tabs', panes', focus'),
         IdsBelow', IdsFresh', ShellsInFlight'
  PROVE  TreeInv'
<1>1. Terminals' = Held(runtimes', "registry")
  BY DEF Terminals, Held
<1>2. OwnTerminals(panes', Terminals')
  BY <1>1
<1>3. WorkspacesOwnTabs' /\ TabsOwnPanes'
  BY DEF WorkspacesOwnTabs, TabsOwnPanes, OwnTabs, OwnPanes
<1>4. PanesOwnTerminals'
  BY <1>2 DEF PanesOwnTerminals, OwnTerminals
<1>5. FocusCoherent'
  BY DEF FocusCoherent, FocusIn
<1> QED BY <1>3, <1>4, <1>5 DEF TreeInv, TreeCoherent

\* A request that lands is out of flight; the others fly on.
LEMMA Lands ==
  ASSUME job \in [Requests -> Job], NEW r \in Requests, NEW next, Step(r, next),
         next.stage \notin {"spawn", "insert"}
  PROVE  InFlight' = InFlight \ {r} /\ \A q \in InFlight' : job'[q] = job[q]
  BY DEF Step, InFlight

\* The bookkeeping of a step that draws no id for a request: what it adds to
\* the maps nobody else in flight has, and it leaves their shells alone.
LEMMA FlightKept ==
  ASSUME TypeOK, TypeOK', TreeInv, nextId <= nextId',
         InFlight' \subseteq InFlight, \A q \in InFlight' : job'[q] = job[q],
         \A i \in DOMAIN workspaces' \cup DOMAIN tabs' \cup DOMAIN panes' :
           \/ i \in DOMAIN workspaces \cup DOMAIN tabs \cup DOMAIN panes
           \/ i < nextId' /\ \A q \in InFlight' : job[q].id # i,
         DOMAIN runtimes' \subseteq DOMAIN runtimes,
         \A q \in InFlight' :
           /\ job[q].id \in Held(runtimes, "request") => job[q].id \in Held(runtimes', "request")
           /\ job[q].id \notin Held(runtimes', "registry")
  PROVE  IdsBelow' /\ IdsFresh' /\ ShellsInFlight'
<1>0. /\ nextId \in Nat /\ nextId' \in Nat
      /\ DOMAIN workspaces \cup DOMAIN tabs \cup DOMAIN panes \cup DOMAIN runtimes \subseteq Nat
      /\ \A q \in InFlight : job[q].id \in Nat
  <2>1. /\ nextId \in Nat /\ nextId' \in Nat
        /\ DOMAIN workspaces \cup DOMAIN tabs \cup DOMAIN panes \cup DOMAIN runtimes \subseteq Nat
    BY DEF TypeOK, IsMap, Ids
  <2>2. \A q \in InFlight : job[q].id \in Nat
    BY JobFields DEF TypeOK, InFlight, Ids
  <2> QED BY <2>1, <2>2
<1>1. IdsBelow /\ IdsFresh /\ ShellsInFlight
  BY DEF TreeInv
<1>2. IdsBelow'
  <2>1. ASSUME NEW i \in (DOMAIN workspaces \cup DOMAIN tabs \cup DOMAIN panes \cup DOMAIN runtimes)'
        PROVE  i < nextId'
    BY <1>0, <1>1 DEF IdsBelow
  <2>2. \A q \in InFlight' : job'[q].id < nextId'
    BY <1>0, <1>1 DEF IdsBelow
  <2> QED BY <2>1, <2>2 DEF IdsBelow
<1>3. IdsFresh'
  <2>1. ASSUME NEW q \in InFlight'
        PROVE  job'[q].id \notin (DOMAIN workspaces \cup DOMAIN tabs \cup DOMAIN panes)'
    BY <1>1 DEF IdsFresh
  <2>2. \A q, s \in InFlight' : job'[q].id = job'[s].id => q = s
    BY <1>1 DEF IdsFresh
  <2> QED BY <2>1, <2>2 DEF IdsFresh
<1>4. ShellsInFlight'
  BY <1>1 DEF ShellsInFlight
<1> QED BY <1>2, <1>3, <1>4
-----------------------------------------------------------------------------
\* Release takes the runtimes of T from owner o and from nobody else.
LEMMA ReleaseHeld ==
  ASSUME IsMap(runtimes, Runtime), NEW T, NEW o
  PROVE  /\ DOMAIN Release(T, o) \subseteq DOMAIN runtimes
         /\ Held(Release(T, o), o) = Held(runtimes, o) \ T
         /\ \A a : a # o => Held(Release(T, o), a) = Held(runtimes, a)
<1> DEFINE left == [t \in DOMAIN runtimes |->
                      IF t \in T THEN [runtimes[t] EXCEPT !.arcs = @ \ {o}] ELSE runtimes[t]]
           D == {t \in DOMAIN left : left[t].arcs # {}}
<1>1. /\ DOMAIN left = DOMAIN runtimes
      /\ \A t \in DOMAIN runtimes :
           left[t].arcs = IF t \in T THEN runtimes[t].arcs \ {o} ELSE runtimes[t].arcs
  BY DEF IsMap, Runtime
<1>2. Release(T, o) = Restrict(left, D)
  BY DEF Release
<1> HIDE DEF left
<1>3. DOMAIN Restrict(left, D) = D /\ \A t \in D : Restrict(left, D)[t] = left[t]
  BY DEF Restrict
<1>4. Held(Restrict(left, D), o) = Held(runtimes, o) \ T
  BY <1>1, <1>3 DEF Held
<1>5. ASSUME NEW a, a # o
      PROVE  Held(Restrict(left, D), a) = Held(runtimes, a)
  BY <1>1, <1>3, <1>5 DEF Held
<1>6. D \subseteq DOMAIN runtimes
  BY <1>1
<1> QED BY <1>2, <1>3, <1>4, <1>5, <1>6

\* Registering a new runtime moves it from its request to the registry.
LEMMA RegisterHeld ==
  ASSUME IsMap(runtimes, Runtime), NEW n, n \in Held(runtimes, "request"), Register(n)
  PROVE  /\ DOMAIN runtimes' = DOMAIN runtimes
         /\ Held(runtimes', "registry") = Held(runtimes, "registry") \cup {n}
         /\ Held(runtimes', "request") = Held(runtimes, "request") \ {n}
<1>1. /\ DOMAIN runtimes' = DOMAIN runtimes
      /\ runtimes'[n].arcs = (runtimes[n].arcs \ {"request"}) \cup {"registry"}
      /\ \A t \in DOMAIN runtimes \ {n} : runtimes'[t] = runtimes[t]
  BY DEF Register, IsMap, Runtime, Held
<1> QED BY <1>1 DEF Held

\* Closed panes take their terminals out of the registry, and no others.
LEMMA DropTerminals ==
  ASSUME IsMap(runtimes, Runtime), OwnTerminals(panes, Held(runtimes, "registry")),
         NEW Q, Q \subseteq DOMAIN panes, DropPanes(Q)
  PROVE  /\ OwnTerminals(panes', Held(runtimes', "registry"))
         /\ DOMAIN runtimes' \subseteq DOMAIN runtimes
         /\ Held(runtimes', "registry") \subseteq Held(runtimes, "registry")
         /\ Held(runtimes', "request") = Held(runtimes, "request")
<1> DEFINE X == {panes[p].term : p \in Q}
<1>1. /\ runtimes' = Release(X, "registry") /\ panes' = Restrict(panes, DOMAIN panes \ Q)
  BY DEF DropPanes
<1>2. /\ DOMAIN runtimes' \subseteq DOMAIN runtimes
      /\ Held(runtimes', "registry") = Held(runtimes, "registry") \ X
      /\ Held(runtimes', "request") = Held(runtimes, "request")
  BY <1>1, ReleaseHeld
<1>3. DOMAIN panes' = DOMAIN panes \ Q /\ \A p \in DOMAIN panes' : panes'[p] = panes[p]
  BY <1>1 DEF Restrict
<1>4. Held(runtimes, "registry") \ X = {panes'[p].term : p \in DOMAIN panes'}
  BY <1>3 DEF OwnTerminals
<1>5. \A p, q \in DOMAIN panes' : panes'[p].term = panes'[q].term => p = q
  BY <1>3 DEF OwnTerminals
<1> QED BY <1>2, <1>4, <1>5 DEF OwnTerminals
-----------------------------------------------------------------------------
(***************************************************************************)
(* The steps.  The first is any that leaves the maps and the focus alone.  *)
(***************************************************************************)
LEMMA QuietStep ==
  ASSUME TypeOK, TypeOK', TreeInv, NEW r \in Requests, NEW next, Step(r, next),
         next.stage \notin {"spawn", "insert"},
         UNCHANGED <<nextId, workspaces, tabs, panes, runtimes, focus>>
  PROVE  TreeInv'
<1>1. InFlight' \subseteq InFlight /\ \A q \in InFlight' : job'[q] = job[q]
  BY Lands, Pieces
<1>2. nextId <= nextId'
  BY Pieces DEF Ids
<1>3. \A q \in InFlight' : job[q].id \notin Held(runtimes, "registry")
  BY <1>1 DEF TreeInv, ShellsInFlight
<1>4. IdsBelow' /\ IdsFresh' /\ ShellsInFlight'
  BY <1>1, <1>2, <1>3, FlightKept
<1> QED BY <1>4, Pieces, Assembled

\* A request that fails answers with an error.
LEMMA FailTree ==
  ASSUME TypeOK, TypeOK', TreeInv, NEW r \in Requests, Fail(r)
  PROVE  TreeInv'
<1>1. Step(r, Idle) /\ UNCHANGED <<nextId, workspaces, tabs, panes, runtimes, focus>>
  BY DEF Fail, registry
<1>2. Idle.stage \notin {"spawn", "insert"}
  BY DEF Idle
<1> QED BY <1>1, <1>2, QuietStep

\* Drawing an id: nothing has it yet.
LEMMA AllocateTree ==
  ASSUME TypeOK, TypeOK', TreeInv, NEW r \in Requests,
         NEW kind \in {"workspace", "bare", "tab"}, NEW w, NEW p, NEW focused,
         Allocate(r, kind, w, p, focused)
  PROVE  TreeInv'
<1> DEFINE next == [stage |-> IF kind = "bare" THEN "insert" ELSE "spawn", kind |-> kind,
                    id |-> nextId, ws |-> w, cwd |-> p, focus |-> focused]
<1>0. /\ job' = [job EXCEPT ![r] = next] /\ nextId' = nextId + 1
      /\ UNCHANGED <<workspaces, tabs, panes, runtimes, focus>>
      /\ job \in [Requests -> Job] /\ nextId \in Nat
  BY Pieces DEF Allocate, Step, Ids
<1>1. /\ next.id = nextId /\ next.kind = kind
      /\ next.stage = IF kind = "bare" THEN "insert" ELSE "spawn"
  OBVIOUS
<1> HIDE DEF next
<1>2. /\ job'[r] = next /\ \A q \in Requests \ {r} : job'[q] = job[q]
      /\ InFlight' = InFlight \cup {r}
  BY <1>0, <1>1 DEF InFlight
<1>3. /\ IdsBelow /\ IdsFresh /\ ShellsInFlight
      /\ DOMAIN workspaces \cup DOMAIN tabs \cup DOMAIN panes \cup DOMAIN runtimes \subseteq Nat
      /\ \A q \in InFlight : job[q].id \in Nat
  <2>1. DOMAIN workspaces \cup DOMAIN tabs \cup DOMAIN panes \cup DOMAIN runtimes \subseteq Nat
    BY DEF TypeOK, IsMap, Ids
  <2>2. \A q \in InFlight : job[q].id \in Nat
    BY JobFields DEF TypeOK, InFlight, Ids
  <2> QED BY <2>1, <2>2 DEF TreeInv
<1>4. /\ nextId \notin DOMAIN workspaces \cup DOMAIN tabs \cup DOMAIN panes \cup DOMAIN runtimes
      /\ \A q \in InFlight : job[q].id # nextId
  BY <1>0, <1>3 DEF IdsBelow
<1>5. IdsBelow'
  BY <1>0, <1>1, <1>2, <1>3 DEF IdsBelow
<1>6. IdsFresh'
  <2>1. ASSUME NEW q \in InFlight'
        PROVE  job'[q].id \notin (DOMAIN workspaces \cup DOMAIN tabs \cup DOMAIN panes)'
    BY <1>0, <1>1, <1>2, <1>3, <1>4 DEF IdsFresh, InFlight
  <2>2. ASSUME NEW q \in InFlight', NEW s \in InFlight', job'[q].id = job'[s].id
        PROVE  q = s
    BY <1>0, <1>1, <1>2, <1>3, <1>4, <2>2 DEF IdsFresh, InFlight
  <2> QED BY <2>1, <2>2 DEF IdsFresh
<1>7. ShellsInFlight'
  <2>1. ASSUME NEW q \in InFlight', q # r
        PROVE  /\ job'[q].stage = "spawn" => job'[q].id \notin DOMAIN runtimes'
               /\ job'[q].stage = "insert" /\ job'[q].kind # "bare" =>
                    job'[q].id \in Held(runtimes', "request")
               /\ job'[q].id \notin Held(runtimes', "registry")
    BY <1>0, <1>2, <1>3, <2>1 DEF ShellsInFlight, InFlight
  <2>2. /\ job'[r].stage = "spawn" => job'[r].id \notin DOMAIN runtimes'
        /\ job'[r].stage = "insert" /\ job'[r].kind # "bare" =>
             job'[r].id \in Held(runtimes', "request")
        /\ job'[r].id \notin Held(runtimes', "registry")
    BY <1>0, <1>1, <1>2, <1>4 DEF Held
  <2> QED BY <2>1, <2>2 DEF ShellsInFlight
<1> QED BY <1>0, <1>5, <1>6, <1>7, Pieces, Assembled

\* The shell of a request has been spawned.
LEMMA SpawnTree ==
  ASSUME TypeOK, TypeOK', TreeInv, NEW r \in Requests, SpawnShell(r)
  PROVE  TreeInv'
<1> DEFINE n == job[r].id
           new == [running |-> TRUE, arcs |-> {"request", "threads"}]
           next == [job[r] EXCEPT !.stage = "insert"]
<1>0. /\ job \in [Requests -> Job] /\ IdsBelow /\ IdsFresh /\ ShellsInFlight
      /\ job[r].stage = "spawn" /\ r \in InFlight
  BY Pieces DEF SpawnShell, InFlight
<1>1. SUFFICES ASSUME Step(r, next), runtimes' = Insert(runtimes, n, new),
                      UNCHANGED <<nextId, workspaces, tabs, panes, focus, unannounced, bereft>>
               PROVE  TreeInv'
  BY FailTree DEF SpawnShell
<1>2. next.stage = "insert" /\ next.id = n
  <2>1. job[r] \in [stage : {"spawn", "insert"}, kind : {"workspace", "bare", "tab"},
                    id : Ids, ws : Ids, cwd : Paths, focus : BOOLEAN]
    BY <1>0 DEF Job
  <2> QED BY <2>1
<1> HIDE DEF next
<1>3. /\ job'[r] = next /\ \A q \in Requests \ {r} : job'[q] = job[q]
      /\ InFlight' = InFlight /\ \A q \in InFlight : job'[q].id = job[q].id
  BY <1>0, <1>1, <1>2 DEF Step, InFlight
<1>4. n \notin DOMAIN runtimes /\ \A q \in InFlight \ {r} : job[q].id # n
  BY <1>0 DEF ShellsInFlight, IdsFresh
<1>5. DOMAIN runtimes' = DOMAIN runtimes \cup {n}
  BY <1>1 DEF Insert
<1>6. /\ Held(runtimes', "registry") = Held(runtimes, "registry")
      /\ Held(runtimes', "request") = Held(runtimes, "request") \cup {n}
  <2>1. runtimes'[n].arcs = {"request", "threads"} /\ \A t \in DOMAIN runtimes : runtimes'[t] = runtimes[t]
    BY <1>1, <1>4 DEF Insert
  <2> QED BY <1>4, <1>5, <2>1 DEF Held
<1>7. IdsBelow'
  BY <1>0, <1>1, <1>3, <1>5 DEF IdsBelow
<1>8. IdsFresh'
  BY <1>0, <1>1, <1>3 DEF IdsFresh
<1>9. ShellsInFlight'
  <2>1. ASSUME NEW q \in InFlight
        PROVE  /\ job'[q].stage = "spawn" => job'[q].id \notin DOMAIN runtimes'
               /\ job'[q].stage = "insert" /\ job'[q].kind # "bare" =>
                    job'[q].id \in Held(runtimes', "request")
               /\ job'[q].id \notin Held(runtimes', "registry")
    <3>1. CASE q = r
      BY <1>0, <1>2, <1>3, <1>6, <3>1 DEF ShellsInFlight
    <3>2. CASE q # r
      <4>1. job'[q] = job[q]
        BY <1>3, <3>2 DEF InFlight
      <4> QED BY <1>0, <1>4, <1>5, <1>6, <3>2, <4>1 DEF ShellsInFlight
    <3> QED BY <3>1, <3>2
  <2> QED BY <1>3, <2>1 DEF ShellsInFlight
<1> QED BY <1>1, <1>6, <1>7, <1>8, <1>9, Pieces, Assembled

\* A focus elsewhere is still right when a tab with its pane is added.
LEMMA FocusStays ==
  ASSUME NEW W, NEW T, NEW P, NEW g, FocusIn(W, T, P, g), NEW V, DOMAIN W \subseteq DOMAIN V,
         NEW n \in Ids, n \notin DOMAIN T, n \notin DOMAIN P,
         NEW y, y.ws # g.ws \/ g.tab # None, NEW z, z.tab = n
  PROVE  FocusIn(V, Insert(T, n, y), Insert(P, n, z), g)
<1> DEFINE U == Insert(T, n, y)
           Q == Insert(P, n, z)
<1>1. DOMAIN U = DOMAIN T \cup {n} /\ U[n] = y /\ \A t \in DOMAIN T : U[t] = T[t]
  BY DEF Insert
<1>2. DOMAIN Q = DOMAIN P \cup {n} /\ Q[n] = z /\ \A p \in DOMAIN P : Q[p] = P[p]
  BY DEF Insert
<1>3. g.ws \in DOMAIN V \cup {None}
  BY DEF FocusIn
<1>4. g.tab \in DOMAIN T \cup {None} /\ n # g.tab
  BY DEF FocusIn, Ids
<1> HIDE DEF U, Q
<1>5. IF {t \in DOMAIN U : U[t].ws = g.ws} = {} THEN g.tab = None
      ELSE g.tab \in DOMAIN U /\ U[g.tab].ws = g.ws
  BY <1>1 DEF FocusIn
<1>6. {p \in DOMAIN Q : Q[p].tab = g.tab} = {p \in DOMAIN P : P[p].tab = g.tab}
  BY <1>2, <1>4
<1>7. IF {p \in DOMAIN Q : Q[p].tab = g.tab} = {} THEN g.pane = None
      ELSE g.pane \in DOMAIN Q /\ Q[g.pane].tab = g.tab
  BY <1>2, <1>6 DEF FocusIn
<1> QED BY <1>3, <1>5, <1>7 DEF FocusIn, U, Q

\* The bookkeeping of a creation's last step: the request lands with its id.
LEMMA InsertFlight ==
  ASSUME TypeOK, TypeOK', TreeInv, NEW r \in InFlight, NEW next, Step(r, next),
         next.stage \notin {"spawn", "insert"}, nextId' = nextId,
         DOMAIN workspaces' \subseteq DOMAIN workspaces \cup {job[r].id},
         DOMAIN tabs' \subseteq DOMAIN tabs \cup {job[r].id},
         DOMAIN panes' \subseteq DOMAIN panes \cup {job[r].id},
         DOMAIN runtimes' \subseteq DOMAIN runtimes,
         Held(runtimes, "request") \ {job[r].id} \subseteq Held(runtimes', "request"),
         Held(runtimes', "registry") \subseteq Held(runtimes, "registry") \cup {job[r].id}
  PROVE  IdsBelow' /\ IdsFresh' /\ ShellsInFlight'
<1>0. job \in [Requests -> Job] /\ r \in Requests /\ IdsBelow /\ IdsFresh /\ ShellsInFlight
      /\ nextId \in Nat
  BY Pieces DEF InFlight, Ids
<1>1. InFlight' = InFlight \ {r} /\ \A q \in InFlight' : job'[q] = job[q]
  BY <1>0, Lands
<1>2. job[r].id < nextId' /\ \A q \in InFlight' : job[q].id # job[r].id
  BY <1>0, <1>1 DEF IdsBelow, IdsFresh
<1>3. \A i \in DOMAIN workspaces' \cup DOMAIN tabs' \cup DOMAIN panes' :
        \/ i \in DOMAIN workspaces \cup DOMAIN tabs \cup DOMAIN panes
        \/ i < nextId' /\ \A q \in InFlight' : job[q].id # i
  BY <1>2
<1>4. \A q \in InFlight' :
        /\ job[q].id \in Held(runtimes, "request") => job[q].id \in Held(runtimes', "request")
        /\ job[q].id \notin Held(runtimes', "registry")
  BY <1>0, <1>1, <1>2 DEF ShellsInFlight
<1>5. nextId <= nextId' /\ InFlight' \subseteq InFlight
  BY <1>0, <1>1
<1> QED BY <1>1, <1>3, <1>4, <1>5, FlightKept

\* create_workspace's last step.
LEMMA InsertWorkspaceTree ==
  ASSUME TypeOK, TypeOK', TreeInv, NEW r \in Requests, InsertWorkspace(r)
  PROVE  TreeInv'
<1> DEFINE n == job[r].id
           x == [cwd |-> job[r].cwd, tabs |-> <<n>>]
           y == [ws |-> n, panes |-> <<n>>]
           z == [ws |-> n, tab |-> n, term |-> n]
<1>0. /\ job[r].stage = "insert" /\ job[r].kind = "workspace"
      /\ workspaces' = Insert(workspaces, n, x) /\ tabs' = Insert(tabs, n, y)
      /\ panes' = Insert(panes, n, z)
      /\ Register(n) /\ Step(r, Publish) /\ nextId' = nextId
      /\ focus' = IF job[r].focus THEN [ws |-> n, tab |-> n, pane |-> n] ELSE focus
  BY DEF InsertWorkspace, Commit
<1>1. /\ r \in InFlight /\ n \in Ids
      /\ n \notin DOMAIN workspaces /\ n \notin DOMAIN tabs /\ n \notin DOMAIN panes
      /\ n \in Held(runtimes, "request") /\ n \notin Held(runtimes, "registry")
  BY <1>0, Pieces, JobFields DEF InFlight, IdsFresh, ShellsInFlight
<1>2. /\ x.tabs = <<n>> /\ y.ws = n /\ y.panes = <<n>> /\ z.tab = n /\ z.ws = y.ws /\ z.term = n
  OBVIOUS
<1> HIDE DEF x, y, z, n
<1>3. OwnTabs(workspaces', tabs') /\ OwnPanes(tabs', panes')
  BY <1>0, <1>1, <1>2, Pieces, AddWorkspace, AddPane
<1>4. /\ DOMAIN runtimes' = DOMAIN runtimes
      /\ Held(runtimes', "registry") = Held(runtimes, "registry") \cup {n}
      /\ Held(runtimes', "request") = Held(runtimes, "request") \ {n}
  BY <1>0, <1>1, Pieces, RegisterHeld
<1>5. OwnTerminals(panes', Held(runtimes', "registry"))
  BY <1>0, <1>1, <1>2, <1>4, Pieces, AddTerminal
<1>6. FocusIn(workspaces', tabs', panes', focus')
  <2>1. /\ DOMAIN workspaces' = DOMAIN workspaces \cup {n} /\ DOMAIN tabs' = DOMAIN tabs \cup {n}
        /\ DOMAIN panes' = DOMAIN panes \cup {n} /\ tabs'[n] = y /\ panes'[n] = z
    BY <1>0 DEF Insert
  <2>2. CASE job[r].focus
    <3>1. focus'.ws = n /\ focus'.tab = n /\ focus'.pane = n
      BY <1>0, <2>2
    <3> QED BY <1>2, <2>1, <3>1 DEF FocusIn
  <2>3. CASE ~job[r].focus
    <3>1. FocusIn(workspaces, tabs, panes, focus)
      BY Pieces
    <3>2. y.ws # focus.ws
      BY <1>1, <1>2, <3>1 DEF FocusIn, Ids
    <3>3. FocusIn(workspaces', tabs', panes', focus)
      BY <1>0, <1>1, <1>2, <2>1, <3>1, <3>2, FocusStays
    <3> QED BY <1>0, <2>3, <3>3
  <2> QED BY <2>2, <2>3
<1>7. IdsBelow' /\ IdsFresh' /\ ShellsInFlight'
  <2>1. Publish.stage \notin {"spawn", "insert"}
    BY DEF Publish
  <2>2. /\ DOMAIN workspaces' = DOMAIN workspaces \cup {n} /\ DOMAIN tabs' = DOMAIN tabs \cup {n}
        /\ DOMAIN panes' = DOMAIN panes \cup {n}
    BY <1>0 DEF Insert
  <2> QED BY <1>0, <1>1, <1>4, <2>1, <2>2, InsertFlight DEF n
<1> QED BY <1>3, <1>5, <1>6, <1>7, Assembled

\* create_workspace's last step for a checkout that asks for no shell.
LEMMA InsertBareTree ==
  ASSUME TypeOK, TypeOK', TreeInv, NEW r \in Requests, InsertBareWorkspace(r)
  PROVE  TreeInv'
<1> DEFINE n == job[r].id
           x == [cwd |-> job[r].cwd, tabs |-> <<>>]
<1>0. /\ job[r].stage = "insert" /\ workspaces' = Insert(workspaces, n, x)
      /\ Step(r, Publish) /\ UNCHANGED <<nextId, tabs, panes, runtimes>>
      /\ focus' = IF job[r].focus \/ focus.ws = None
                    THEN [ws |-> n, tab |-> None, pane |-> None] ELSE focus
  BY DEF InsertBareWorkspace, Commit
<1>1. r \in InFlight /\ n \notin DOMAIN workspaces
  BY <1>0, Pieces DEF InFlight, IdsFresh
<1>2. x.tabs = <<>>
  OBVIOUS
<1> HIDE DEF x, n
<1>3. DOMAIN workspaces' = DOMAIN workspaces \cup {n}
  BY <1>0 DEF Insert
<1>4. OwnTabs(workspaces', tabs')
  BY <1>0, <1>1, <1>2, Pieces, AddBareWorkspace
<1>5. FocusIn(workspaces', tabs', panes', focus')
  <2>1. CASE job[r].focus \/ focus.ws = None
    <3>1. focus'.ws = n /\ focus'.tab = None /\ focus'.pane = None
      BY <1>0, <2>1
    <3>2. {t \in DOMAIN tabs : tabs[t].ws = n} = {}
      BY <1>1, Pieces DEF OwnTabs
    <3>3. {p \in DOMAIN panes : panes[p].tab = None} = {}
      BY Pieces DEF OwnPanes, Maps, IsMap, Ids
    <3> QED BY <1>0, <1>3, <3>1, <3>2, <3>3 DEF FocusIn
  <2>2. CASE ~(job[r].focus \/ focus.ws = None)
    BY <1>0, <1>3, <2>2, Pieces DEF FocusIn
  <2> QED BY <2>1, <2>2
<1>6. IdsBelow' /\ IdsFresh' /\ ShellsInFlight'
  <2>1. Publish.stage \notin {"spawn", "insert"}
    BY DEF Publish
  <2> QED BY <1>0, <1>1, <1>3, <2>1, InsertFlight DEF n
<1> QED BY <1>0, <1>4, <1>5, <1>6, Pieces, Assembled

\* create_tab's last step, into a workspace that is still open or not.
LEMMA InsertTabTree ==
  ASSUME TypeOK, TypeOK', TreeInv, NEW r \in Requests, InsertTab(r)
  PROVE  TreeInv'
<1> DEFINE n == job[r].id
           w == job[r].ws
           y == [ws |-> w, panes |-> <<n>>]
           z == [ws |-> w, tab |-> n, term |-> n]
<1>0. job[r].stage = "insert" /\ job[r].kind = "tab" /\ nextId' = nextId
  BY DEF InsertTab
<1>1. /\ r \in InFlight /\ n \in Ids
      /\ n \notin DOMAIN workspaces /\ n \notin DOMAIN tabs /\ n \notin DOMAIN panes
      /\ n \in Held(runtimes, "request") /\ n \notin Held(runtimes, "registry")
  BY <1>0, Pieces, JobFields DEF InFlight, IdsFresh, ShellsInFlight
<1>2. CASE StillOpen(w)
  <2>0. /\ workspaces' = [workspaces EXCEPT ![w].tabs = Append(@, n)]
        /\ tabs' = Insert(tabs, n, y) /\ panes' = Insert(panes, n, z)
        /\ Register(n) /\ Step(r, Publish)
        /\ focus' = IF job[r].focus \/ LacksFocus(focus)
                      THEN [ws |-> w, tab |-> n, pane |-> n] ELSE focus
    BY <1>2 DEF InsertTab, Commit
  <2>1. /\ y.ws = w /\ y.panes = <<n>> /\ z.tab = n /\ z.ws = y.ws /\ z.term = n
        /\ w \in DOMAIN workspaces
    BY <1>2 DEF StillOpen
  <2> HIDE DEF y, z, n, w
  <2>2. DOMAIN workspaces' = DOMAIN workspaces
    BY <2>0
  <2>3. OwnTabs(workspaces', tabs')
    BY <1>1, <2>0, <2>1, Pieces, AddTab DEF Maps
  <2>4. OwnPanes(tabs', panes')
    BY <1>1, <2>0, <2>1, Pieces, AddPane
  <2>5. /\ DOMAIN runtimes' = DOMAIN runtimes
        /\ Held(runtimes', "registry") = Held(runtimes, "registry") \cup {n}
        /\ Held(runtimes', "request") = Held(runtimes, "request") \ {n}
    BY <1>1, <2>0, Pieces, RegisterHeld
  <2>6. OwnTerminals(panes', Held(runtimes', "registry"))
    BY <1>1, <2>0, <2>1, <2>5, Pieces, AddTerminal
  <2>7. FocusIn(workspaces', tabs', panes', focus')
    <3>1. /\ DOMAIN tabs' = DOMAIN tabs \cup {n} /\ DOMAIN panes' = DOMAIN panes \cup {n}
          /\ tabs'[n] = y /\ panes'[n] = z
      BY <2>0 DEF Insert
    <3>2. CASE job[r].focus \/ LacksFocus(focus)
      <4>1. focus'.ws = w /\ focus'.tab = n /\ focus'.pane = n
        BY <2>0, <3>2
      <4> QED BY <2>1, <2>2, <3>1, <4>1 DEF FocusIn
    <3>3. CASE ~(job[r].focus \/ LacksFocus(focus))
      <4>1. focus' = focus /\ focus.tab # None
        BY <2>0, <3>3 DEF LacksFocus
      <4>2. FocusIn(workspaces', tabs', panes', focus)
        BY <1>1, <2>0, <2>1, <2>2, <4>1, Pieces, FocusStays
      <4> QED BY <4>1, <4>2
    <3> QED BY <3>2, <3>3
  <2>8. IdsBelow' /\ IdsFresh' /\ ShellsInFlight'
    <3>1. Publish.stage \notin {"spawn", "insert"}
      BY DEF Publish
    <3>2. DOMAIN tabs' = DOMAIN tabs \cup {n} /\ DOMAIN panes' = DOMAIN panes \cup {n}
      BY <2>0 DEF Insert
    <3> QED BY <1>0, <1>1, <2>0, <2>2, <2>5, <3>1, <3>2, InsertFlight DEF n
  <2> QED BY <2>3, <2>4, <2>6, <2>7, <2>8, Assembled
<1>3. CASE ~StillOpen(w)
  <2>0. /\ runtimes' = Release({n}, "request") /\ Step(r, Idle)
        /\ UNCHANGED <<workspaces, tabs, panes, focus>>
    BY <1>3 DEF InsertTab
  <2> HIDE DEF n, w
  <2>1. /\ DOMAIN runtimes' \subseteq DOMAIN runtimes
        /\ Held(runtimes', "request") = Held(runtimes, "request") \ {n}
        /\ Held(runtimes', "registry") = Held(runtimes, "registry")
    BY <2>0, Pieces, ReleaseHeld
  <2>2. IdsBelow' /\ IdsFresh' /\ ShellsInFlight'
    <3>1. Idle.stage \notin {"spawn", "insert"}
      BY DEF Idle
    <3> QED BY <1>0, <1>1, <2>0, <2>1, <3>1, InsertFlight DEF n
  <2> QED BY <2>0, <2>1, <2>2, Pieces, Assembled
<1> QED BY <1>2, <1>3
-----------------------------------------------------------------------------
\* A close: some records go, with their panes, and the focus is normalized.
LEMMA ClosingTree ==
  ASSUME TypeOK, TypeOK', TreeInv, NEW r \in Requests,
         OwnTabs(workspaces', tabs'), OwnPanes(tabs', panes'),
         DOMAIN workspaces' \subseteq DOMAIN workspaces, DOMAIN tabs' \subseteq DOMAIN tabs,
         NEW Q, Q \subseteq DOMAIN panes, DropPanes(Q),
         Refocus(focus), Commit(r), nextId' = nextId
  PROVE  TreeInv'
<1>1. /\ OwnTerminals(panes', Held(runtimes', "registry"))
      /\ DOMAIN runtimes' \subseteq DOMAIN runtimes
      /\ Held(runtimes', "registry") \subseteq Held(runtimes, "registry")
      /\ Held(runtimes', "request") = Held(runtimes, "request")
  BY Pieces, DropTerminals
<1>2. DOMAIN panes' \subseteq DOMAIN panes
  BY DEF DropPanes, Restrict
<1>3. FocusIn(workspaces', tabs', panes', focus')
  <2>1. Maps(workspaces', tabs', panes')
    BY DEF TypeOK, Maps, IsMap
  <2> QED BY <2>1, NormalFocusIn DEF Refocus
<1>4. Step(r, Publish) /\ Publish.stage \notin {"spawn", "insert"}
  BY DEF Commit, Publish
<1>5. InFlight' \subseteq InFlight /\ \A q \in InFlight' : job'[q] = job[q]
  BY <1>4, Lands, Pieces
<1>6. nextId <= nextId' /\ ShellsInFlight
  BY Pieces DEF Ids
<1>7. IdsBelow' /\ IdsFresh' /\ ShellsInFlight'
  BY <1>1, <1>2, <1>5, <1>6, FlightKept DEF ShellsInFlight
<1> QED BY <1>1, <1>3, <1>7, Assembled

\* The panes of a set of tabs.
LEMMA PanesOfTabs ==
  ASSUME OwnPanes(tabs, panes), NEW S, S \subseteq DOMAIN tabs
  PROVE  PanesOf(S) = {p \in DOMAIN panes : panes[p].tab \in S}
<1>1. \A t \in S : Range(tabs[t].panes) = {p \in DOMAIN panes : panes[p].tab = t}
  BY DEF OwnPanes
<1> QED BY <1>1 DEF PanesOf

\* close_workspace, and the teardown of a removed checkout.
LEMMA DropWorkspacesTree ==
  ASSUME TypeOK, TypeOK', TreeInv, NEW r \in Requests, NEW V, V \subseteq DOMAIN workspaces,
         DropWorkspaces(V), Refocus(focus), Commit(r), nextId' = nextId
  PROVE  TreeInv'
<1> DEFINE S == UNION {Range(workspaces[w].tabs) : w \in V}
<1>1. /\ workspaces' = Restrict(workspaces, DOMAIN workspaces \ V)
      /\ tabs' = Restrict(tabs, DOMAIN tabs \ S) /\ DropPanes(PanesOf(S))
  BY DEF DropWorkspaces
<1>2. S = {t \in DOMAIN tabs : tabs[t].ws \in V}
  <2>1. \A w \in V : Range(workspaces[w].tabs) = {t \in DOMAIN tabs : tabs[t].ws = w}
    BY Pieces DEF OwnTabs
  <2> QED BY <2>1
<1> HIDE DEF S
<1>3. PanesOf(S) = {p \in DOMAIN panes : panes[p].tab \in S}
  BY <1>2, Pieces, PanesOfTabs
<1>4. panes' = Restrict(panes, DOMAIN panes \ PanesOf(S))
  BY <1>1 DEF DropPanes
<1>5. OwnTabs(workspaces', tabs') /\ OwnPanes(tabs', panes')
  BY <1>1, <1>2, <1>3, <1>4, Pieces, DropOwnedTabs, DropOwnedPanes
<1>6. DOMAIN workspaces' \subseteq DOMAIN workspaces /\ DOMAIN tabs' \subseteq DOMAIN tabs
  BY <1>1 DEF Restrict
<1>7. PanesOf(S) \subseteq DOMAIN panes
  BY <1>3
<1> QED BY <1>1, <1>5, <1>6, <1>7, ClosingTree

\* close_tab.
LEMMA CloseTabTree ==
  ASSUME TypeOK, TypeOK', TreeInv, NEW r \in Requests, NEW t \in DOMAIN tabs, CloseTab(r, t)
  PROVE  TreeInv'
<1>1. /\ tabs' = Restrict(tabs, DOMAIN tabs \ {t})
      /\ workspaces' = [workspaces EXCEPT ![tabs[t].ws].tabs = Without(@, t)]
      /\ DropPanes(PanesOf({t})) /\ Refocus(focus) /\ Commit(r) /\ nextId' = nextId
  BY DEF CloseTab, DropTab
<1>2. PanesOf({t}) = {p \in DOMAIN panes : panes[p].tab \in {t}}
  BY Pieces, PanesOfTabs
<1>3. panes' = Restrict(panes, DOMAIN panes \ PanesOf({t}))
  BY <1>1 DEF DropPanes
<1>4. OwnTabs(workspaces', tabs')
  BY <1>1, Pieces, DropListed DEF Maps
<1>5. OwnPanes(tabs', panes')
  BY <1>1, <1>2, <1>3, Pieces, DropOwnedPanes
<1>6. DOMAIN workspaces' \subseteq DOMAIN workspaces /\ DOMAIN tabs' \subseteq DOMAIN tabs
  BY <1>1 DEF Restrict
<1>7. PanesOf({t}) \subseteq DOMAIN panes
  BY <1>2
<1> QED BY <1>1, <1>4, <1>5, <1>6, <1>7, ClosingTree

\* close_pane, with and without its tab.
LEMMA ClosePaneTree ==
  ASSUME TypeOK, TypeOK', TreeInv, NEW r \in Requests, NEW p \in DOMAIN panes, ClosePane(r, p)
  PROVE  TreeInv'
<1> DEFINE t == panes[p].tab
           left == Without(tabs[t].panes, p)
<1>1. DropPanes({p}) /\ Refocus(focus) /\ Commit(r) /\ nextId' = nextId
  BY DEF ClosePane
<1>2. t \in DOMAIN tabs /\ panes' = Restrict(panes, DOMAIN panes \ {p}) /\ {p} \subseteq DOMAIN panes
  BY <1>1, Pieces DEF OwnPanes, DropPanes
<1>3. CASE left = <<>>
  <2>1. /\ tabs' = Restrict(tabs, DOMAIN tabs \ {t})
        /\ workspaces' = [workspaces EXCEPT ![tabs[t].ws].tabs = Without(@, t)]
    BY <1>3 DEF ClosePane
  <2>2. {p} = {q \in DOMAIN panes : panes[q].tab \in {t}}
    BY <1>3, Pieces, LastPane DEF Maps
  <2> HIDE DEF t, left
  <2>3. OwnTabs(workspaces', tabs')
    BY <1>2, <2>1, Pieces, DropListed DEF Maps
  <2>4. OwnPanes(tabs', panes')
    BY <1>2, <2>1, <2>2, Pieces, DropOwnedPanes
  <2>5. DOMAIN workspaces' \subseteq DOMAIN workspaces /\ DOMAIN tabs' \subseteq DOMAIN tabs
    BY <2>1 DEF Restrict
  <2> QED BY <1>1, <1>2, <2>3, <2>4, <2>5, ClosingTree
<1>4. CASE left # <<>>
  <2>1. tabs' = [tabs EXCEPT ![t].panes = left] /\ workspaces' = workspaces
    BY <1>4 DEF ClosePane
  <2>2. OwnPanes(tabs', panes')
    BY <1>2, <1>4, <2>1, Pieces, DropOnePane DEF Maps
  <2> HIDE DEF left
  <2>3. DOMAIN tabs' = DOMAIN tabs /\ \A u \in DOMAIN tabs : tabs'[u].ws = tabs[u].ws
    BY <2>1, Pieces DEF Maps, IsMap, Tab
  <2>4. OwnTabs(workspaces', tabs')
    BY <2>1, <2>3, Pieces DEF OwnTabs
  <2> QED BY <1>1, <1>2, <2>1, <2>2, <2>3, <2>4, ClosingTree
<1> QED BY <1>3, <1>4
-----------------------------------------------------------------------------
\* Re-parenting a tab, within the map W of the open workspaces and possibly a
\* new one.
LEMMA MoveTabTree ==
  ASSUME TypeOK, TypeOK', TreeInv, NEW r \in Requests, NEW W, IsMap(W, Workspace),
         OwnTabs(W, tabs), NEW t \in DOMAIN tabs, NEW old, old = tabs[t].ws,
         NEW w \in DOMAIN W, w # old, MoveTab(W, t, old, w), Commit(r),
         nextId <= nextId', runtimes' = runtimes,
         \A v \in DOMAIN W \ DOMAIN workspaces : v < nextId' /\ \A q \in InFlight : job[q].id # v
  PROVE  TreeInv'
<1> DEFINE moved == [[W EXCEPT ![old].tabs = Without(@, t)] EXCEPT ![w].tabs = Append(@, t)]
           gone == {v \in {old} : moved[v].tabs = <<>>}
<1>0. Maps(W, tabs, panes)
  BY Pieces DEF Maps
<1>1. /\ workspaces' = Restrict(moved, DOMAIN moved \ gone)
      /\ tabs' = [tabs EXCEPT ![t].ws = w]
      /\ panes' = [q \in DOMAIN panes |->
                     IF q \in Range(tabs[t].panes) THEN [panes[q] EXCEPT !.ws = w] ELSE panes[q]]
      /\ Refocus([ws |-> w, tab |-> t, pane |-> FirstOrNone(tabs[t].panes)])
  BY DEF MoveTab
<1>2. /\ DOMAIN moved = DOMAIN W /\ \A v \in DOMAIN W \ {old, w} : moved[v] = W[v]
      /\ moved[old].tabs = Without(W[old].tabs, t) /\ moved[w].tabs = Append(W[w].tabs, t)
  <2>1. old \in DOMAIN W
    BY DEF OwnTabs
  <2> QED BY <2>1 DEF IsMap, Workspace
<1> HIDE DEF moved
<1>3. /\ DOMAIN workspaces' = DOMAIN W \ gone
      /\ \A v \in DOMAIN W \ gone : workspaces'[v] = moved[v]
  BY <1>1, <1>2 DEF Restrict
<1>4. Moved(W, tabs, panes, t, w, workspaces', tabs', panes')
  <2>1. gone = IF Without(W[old].tabs, t) = <<>> THEN {old} ELSE {}
    BY <1>2
  <2> HIDE DEF gone
  <2>2. /\ DOMAIN workspaces' = DOMAIN W \ (IF Without(W[old].tabs, t) = <<>> THEN {old} ELSE {})
        /\ Without(W[old].tabs, t) # <<>> => workspaces'[old].tabs = Without(W[old].tabs, t)
        /\ workspaces'[w].tabs = Append(W[w].tabs, t)
        /\ \A v \in DOMAIN W \ {old, w} : workspaces'[v] = W[v]
    <3>1. old \in DOMAIN W
      BY DEF OwnTabs
    <3> QED BY <1>2, <1>3, <2>1, <3>1
  <2>3. /\ DOMAIN tabs' = DOMAIN tabs /\ tabs'[t].ws = w
        /\ \A u \in DOMAIN tabs : tabs'[u].panes = tabs[u].panes
        /\ \A u \in DOMAIN tabs \ {t} : tabs'[u].ws = tabs[u].ws
    BY <1>0, <1>1 DEF Maps, IsMap, Tab
  <2>4. /\ DOMAIN panes' = DOMAIN panes
        /\ \A q \in DOMAIN panes : panes'[q].tab = panes[q].tab /\ panes'[q].term = panes[q].term
        /\ \A q \in DOMAIN panes : panes'[q].ws = IF panes[q].tab = t THEN w ELSE panes[q].ws
    BY <1>0, <1>1, Pieces DEF Maps, IsMap, Pane, OwnPanes
  <2> QED BY <2>2, <2>3, <2>4 DEF Moved
<1>5. OwnTabs(workspaces', tabs') /\ OwnPanes(tabs', panes')
  BY <1>0, <1>4, Pieces, MoveOwned
<1>6. OwnTerminals(panes', Held(runtimes', "registry"))
  <2>1. DOMAIN panes' = DOMAIN panes /\ \A q \in DOMAIN panes : panes'[q].term = panes[q].term
    BY <1>4 DEF Moved
  <2> QED BY <2>1, Pieces DEF OwnTerminals
<1>7. FocusIn(workspaces', tabs', panes', focus')
  <2>1. Maps(workspaces', tabs', panes')
    BY DEF TypeOK, Maps, IsMap
  <2> QED BY <1>1, <1>5, <2>1, NormalFocusIn DEF Refocus
<1>8. IdsBelow' /\ IdsFresh' /\ ShellsInFlight'
  <2>1. Step(r, Publish) /\ Publish.stage \notin {"spawn", "insert"}
    BY DEF Commit, Publish
  <2>2. InFlight' \subseteq InFlight /\ \A q \in InFlight' : job'[q] = job[q]
    BY <2>1, Lands, Pieces
  <2>3. \A i \in DOMAIN workspaces' \cup DOMAIN tabs' \cup DOMAIN panes' :
          \/ i \in DOMAIN workspaces \cup DOMAIN tabs \cup DOMAIN panes
          \/ i < nextId' /\ \A q \in InFlight' : job[q].id # i
    BY <1>3, <1>4, <2>2 DEF Moved
  <2>4. \A q \in InFlight' : job[q].id \notin Held(runtimes', "registry")
    BY <2>2, Pieces DEF ShellsInFlight
  <2> QED BY <2>2, <2>3, <2>4, FlightKept
<1> QED BY <1>5, <1>6, <1>7, <1>8, Assembled

\* promote_tab's second part, into an open workspace or a new one.
LEMMA PromoteTree ==
  ASSUME TypeOK, TypeOK', TreeInv, NEW r \in Requests, PromoteCommit(r)
  PROVE  TreeInv'
<1> DEFINE t == job[r].tab
           p == job[r].cwd
           old == tabs[t].ws
<1>0. /\ IsMap(workspaces, Workspace) /\ OwnTabs(workspaces, tabs) /\ nextId \in Ids
      /\ job[r].stage = "promote" /\ p \in Paths
  BY Pieces, JobFields DEF Maps, PromoteCommit
<1>1. ASSUME t \in DOMAIN tabs, workspaces[old].cwd # p, NEW w \in At(p),
             MoveTab(workspaces, t, old, w), Commit(r), UNCHANGED <<nextId, runtimes>>
      PROVE  TreeInv'
  <2>1. w \in DOMAIN workspaces /\ w # old
    BY <1>1 DEF At
  <2>2. nextId <= nextId'
    BY <1>0, <1>1 DEF Ids
  <2>3. \A v \in DOMAIN workspaces \ DOMAIN workspaces :
          v < nextId' /\ \A q \in InFlight : job[q].id # v
    OBVIOUS
  <2>4. old = tabs[t].ws /\ t \in DOMAIN tabs /\ MoveTab(workspaces, t, old, w) /\ Commit(r) /\ runtimes' = runtimes
    BY <1>1
  <2> HIDE DEF t, p, old
  <2> QED BY <1>0, <2>1, <2>2, <2>3, <2>4, MoveTabTree
<1>2. ASSUME t \in DOMAIN tabs,
             MoveTab(Insert(workspaces, nextId, [cwd |-> p, tabs |-> <<>>]), t, old, nextId),
             nextId' = nextId + 1, Commit(r), runtimes' = runtimes
      PROVE  TreeInv'
  <2> DEFINE x == [cwd |-> p, tabs |-> <<>>]
  <2>1. x \in Workspace /\ x.tabs = <<>>
    BY <1>0 DEF Workspace
  <2> HIDE DEF x, t, p
  <2>2. nextId \notin DOMAIN workspaces /\ \A q \in InFlight : job[q].id # nextId
    BY <1>0, Pieces DEF IdsBelow, Ids
  <2> DEFINE new == Insert(workspaces, nextId, x)
  <2>3. PICK W : W = new
    <3> HIDE DEF new
    <3> QED OBVIOUS
  <2>4. IsMap(W, Workspace) /\ OwnTabs(W, tabs) /\ DOMAIN W = DOMAIN workspaces \cup {nextId}
    <3>1. IsMap(W, Workspace)
      BY <1>0, <2>1, <2>3, InsertIsMap
    <3>2. OwnTabs(W, tabs)
      BY <1>0, <2>1, <2>2, <2>3, AddBareWorkspace
    <3>3. DOMAIN W = DOMAIN workspaces \cup {nextId}
      BY <2>3 DEF Insert
    <3> QED BY <3>1, <3>2, <3>3
  <2>5. old \in DOMAIN workspaces /\ nextId # old
    BY <1>0, <1>2, <2>2 DEF OwnTabs
  <2>6. MoveTab(W, t, old, nextId)
    BY <1>2, <2>3 DEF x
  <2>7. nextId <= nextId' /\ nextId < nextId'
    BY <1>0, <1>2 DEF Ids
  <2>8. /\ nextId \in DOMAIN W
        /\ \A v \in DOMAIN W \ DOMAIN workspaces : v < nextId' /\ \A q \in InFlight : job[q].id # v
    BY <2>2, <2>4, <2>7
  <2>9. old = tabs[t].ws /\ t \in DOMAIN tabs /\ Commit(r) /\ runtimes' = runtimes
    BY <1>2
  <2> HIDE DEF old
  <2> QED BY <2>4, <2>5, <2>6, <2>7, <2>8, <2>9, MoveTabTree
<1>3. \/ Fail(r)
      \/ /\ t \in DOMAIN tabs /\ workspaces[old].cwd # p
         /\ \E w \in At(p) : MoveTab(workspaces, t, old, w)
         /\ Commit(r) /\ UNCHANGED <<nextId, runtimes>>
      \/ /\ t \in DOMAIN tabs
         /\ MoveTab(Insert(workspaces, nextId, [cwd |-> p, tabs |-> <<>>]), t, old, nextId)
         /\ nextId' = nextId + 1 /\ Commit(r) /\ runtimes' = runtimes
  BY DEF PromoteCommit
<1> HIDE DEF t, p, old
<1> QED BY <1>1, <1>2, <1>3, FailTree

\* worktree_open and worktree_create.
LEMMA OpenCheckoutTree ==
  ASSUME TypeOK, TypeOK', TreeInv, NEW r \in Requests, NEW p, NEW shell, OpenCheckout(r, p, shell)
  PROVE  TreeInv'
<1>1. ASSUME NEW w \in At(p),
             focus' = [ws |-> w, tab |-> FirstOrNone(workspaces[w].tabs),
                       pane |-> IF FirstOrNone(workspaces[w].tabs) \in DOMAIN tabs
                                  THEN FirstOrNone(tabs[FirstOrNone(workspaces[w].tabs)].panes)
                                  ELSE None],
             Commit(r), UNCHANGED <<nextId, workspaces, tabs, panes, runtimes>>
      PROVE  TreeInv'
  <2> DEFINE t == FirstOrNone(workspaces[w].tabs)
  <2>1. Step(r, Publish) /\ Publish.stage \notin {"spawn", "insert"} /\ w \in DOMAIN workspaces
    BY <1>1 DEF Commit, Publish, At
  <2>2. focus'.ws = w /\ focus'.tab = t
        /\ focus'.pane = IF t \in DOMAIN tabs THEN FirstOrNone(tabs[t].panes) ELSE None
    BY <1>1
  <2>3. /\ IF {u \in DOMAIN tabs : tabs[u].ws = w} = {} THEN t = None
           ELSE t \in DOMAIN tabs /\ tabs[t].ws = w
        /\ t \in DOMAIN tabs =>
             FirstOrNone(tabs[t].panes) \in DOMAIN panes /\ panes[FirstOrNone(tabs[t].panes)].tab = t
    BY <2>1, Pieces, FirstOwned
  <2> HIDE DEF t
  <2>4. t \notin DOMAIN tabs => {q \in DOMAIN panes : panes[q].tab = t} = {}
    BY Pieces DEF OwnPanes
  <2>5. FocusIn(workspaces', tabs', panes', focus')
    BY <1>1, <2>1, <2>2, <2>3, <2>4 DEF FocusIn
  <2>6. InFlight' \subseteq InFlight /\ \A q \in InFlight' : job'[q] = job[q]
    BY <2>1, Lands, Pieces
  <2>7. nextId <= nextId'
    BY <1>1, Pieces DEF Ids
  <2>8. \A q \in InFlight' : job[q].id \notin Held(runtimes, "registry")
    BY <2>6, Pieces DEF ShellsInFlight
  <2>9. IdsBelow' /\ IdsFresh' /\ ShellsInFlight'
    BY <1>1, <2>6, <2>7, <2>8, FlightKept
  <2> QED BY <1>1, <2>5, <2>9, Pieces, Assembled
<1>2. ASSUME Step(r, [stage |-> "open", cwd |-> p, shell |-> shell]), UNCHANGED registry
      PROVE  TreeInv'
  BY <1>2, QuietStep DEF registry
<1> QED BY <1>1, <1>2 DEF OpenCheckout

\* A shell that ends by itself stays registered until its pane is closed.
LEMMA ShellExitsTree ==
  ASSUME TypeOK, TypeOK', TreeInv, NEW t \in DOMAIN runtimes, ShellExits(t)
  PROVE  TreeInv'
<1> DEFINE left == Release({t}, "threads")
<1>1. /\ runtimes' = [u \in DOMAIN left |->
                        IF u = t THEN [left[u] EXCEPT !.running = FALSE] ELSE left[u]]
      /\ UNCHANGED <<nextId, workspaces, tabs, panes, focus, job>>
  BY DEF ShellExits
<1>2. /\ DOMAIN left \subseteq DOMAIN runtimes
      /\ Held(left, "request") = Held(runtimes, "request")
      /\ Held(left, "registry") = Held(runtimes, "registry")
  BY Pieces, ReleaseHeld
<1>3. IsMap(left, Runtime)
  BY Pieces, ReleaseIsMap
<1> HIDE DEF left
<1>4. DOMAIN runtimes' = DOMAIN left /\ \A u \in DOMAIN left : runtimes'[u].arcs = left[u].arcs
  BY <1>1, <1>3 DEF IsMap, Runtime
<1>5. \A a : Held(runtimes', a) = Held(left, a)
  BY <1>4 DEF Held
<1>6. InFlight' = InFlight /\ nextId <= nextId'
  BY <1>1, Pieces DEF InFlight, Ids
<1>7. \A q \in InFlight : job[q].id \notin Held(runtimes, "registry")
  BY Pieces DEF ShellsInFlight
<1>8. IdsBelow' /\ IdsFresh' /\ ShellsInFlight'
  BY <1>1, <1>2, <1>4, <1>5, <1>6, <1>7, FlightKept
<1> QED BY <1>1, <1>2, <1>5, <1>8, Pieces, Assembled
-----------------------------------------------------------------------------
\* Every request of a client keeps the tree.
LEMMA AsksTree ==
  ASSUME TypeOK, TypeOK', TreeInv, NEW r \in Requests, Asks(r)
  PROVE  TreeInv'
<1>1. ASSUME NEW p \in Paths, NEW shell \in BOOLEAN, CreateWorkspace(r, p, shell)
      PROVE  TreeInv'
  BY <1>1, AllocateTree DEF CreateWorkspace, AllocateWorkspace
<1>2. ASSUME NEW p \in Paths, StartAgent(r, p)
      PROVE  TreeInv'
  BY <1>2, AllocateTree DEF StartAgent
<1>3. ASSUME NEW w \in DOMAIN workspaces, NEW focused \in BOOLEAN, CreateTab(r, w, focused)
      PROVE  TreeInv'
  BY <1>3, AllocateTree DEF CreateTab
<1>4. ASSUME Rename(r)
      PROVE  TreeInv'
  <2>1. Publish.stage \notin {"spawn", "insert"}
    BY DEF Publish
  <2> QED BY <1>4, <2>1, QuietStep DEF Rename, Commit
<1>5. ASSUME NEW w \in DOMAIN workspaces, CloseWorkspace(r, w)
      PROVE  TreeInv'
  BY <1>5, DropWorkspacesTree DEF CloseWorkspace
<1>6. ASSUME NEW t \in DOMAIN tabs, NEW p \in Paths, PromoteTab(r, t, p)
      PROVE  TreeInv'
  BY <1>6, QuietStep DEF PromoteTab, registry
<1>7. ASSUME NEW p \in Paths, WorktreeRemove(r, p)
      PROVE  TreeInv'
  BY <1>7, QuietStep DEF WorktreeRemove, registry
<1> QED BY <1>1, <1>2, <1>3, <1>4, <1>5, <1>6, <1>7, CloseTabTree, ClosePaneTree,
           OpenCheckoutTree DEF Asks, WorktreeOpen, WorktreeCreate

\* So does every later step of a request.
LEMMA ContinuesTree ==
  ASSUME TypeOK, TypeOK', TreeInv, NEW r \in Requests, Continues(r)
  PROVE  TreeInv'
<1>1. CASE OpenUnmatched(r)
  BY <1>1, AllocateTree DEF OpenUnmatched, AllocateWorkspace
<1>2. CASE GitRemove(r)
  <2>1. ASSUME Step(r, [job[r] EXCEPT !.stage = "teardown"]), job[r].stage = "git",
               UNCHANGED <<nextId, workspaces, tabs, panes, runtimes, focus>>
        PROVE  TreeInv'
    <3>1. job[r] \in [stage : {"git", "teardown"}, cwd : Paths, matches : SUBSET Ids]
      BY <2>1, Pieces DEF Job
    <3>2. [job[r] EXCEPT !.stage = "teardown"].stage \notin {"spawn", "insert"}
      BY <3>1
    <3> QED BY <2>1, <3>2, QuietStep
  <2> QED BY <1>2, <2>1, FailTree DEF GitRemove
<1>3. CASE TearDownWorktree(r)
  <2>1. job[r].matches \cap DOMAIN workspaces \subseteq DOMAIN workspaces
    OBVIOUS
  <2> QED BY <1>3, <2>1, DropWorkspacesTree DEF TearDownWorktree
<1>4. CASE PublishEvent(r)
  <2>1. Idle.stage \notin {"spawn", "insert"}
    BY DEF Idle
  <2> QED BY <1>4, <2>1, QuietStep DEF PublishEvent
<1> QED BY <1>1, <1>2, <1>3, <1>4, SpawnTree, InsertWorkspaceTree, InsertBareTree,
           InsertTabTree, PromoteTree DEF Continues

\* The inductive invariant holds whatever the interleaving of the requests.
LEMMA TreeInvariant == Spec => []TreeInv
<1>1. Init => TreeInv
  <2> SUFFICES ASSUME Init PROVE TreeInv
    OBVIOUS
  <2>1. DOMAIN workspaces = {} /\ DOMAIN tabs = {} /\ DOMAIN panes = {} /\ DOMAIN runtimes = {}
    BY EmptyMap DEF Init
  <2>2. focus.ws = None /\ focus.tab = None /\ focus.pane = None /\ InFlight = {}
    <3>1. focus = [ws |-> None, tab |-> None, pane |-> None] /\ job = [r \in Requests |-> Idle]
      BY Zenon DEF Init
    <3> QED BY <3>1 DEF InFlight, Idle
  <2>3. TreeCoherent
    BY <2>1 DEF TreeCoherent, WorkspacesOwnTabs, TabsOwnPanes, PanesOwnTerminals, Terminals
  <2>4. FocusCoherent
    BY <2>1, <2>2 DEF FocusCoherent
  <2>5. IdsBelow /\ IdsFresh /\ ShellsInFlight
    BY <2>1, <2>2 DEF IdsBelow, IdsFresh, ShellsInFlight
  <2> QED BY <2>3, <2>4, <2>5 DEF TreeInv
<1>2. TypeOK /\ TypeOK' /\ TreeInv /\ [Next]_vars => TreeInv'
  <2> SUFFICES ASSUME TypeOK, TypeOK', TreeInv, [Next]_vars PROVE TreeInv'
    OBVIOUS
  <2>1. CASE UNCHANGED vars
    BY <2>1 DEF vars, TreeInv, TreeCoherent, WorkspacesOwnTabs, TabsOwnPanes, PanesOwnTerminals,
                Terminals, FocusCoherent, IdsBelow, IdsFresh, ShellsInFlight, InFlight
  <2> QED BY <2>1, AsksTree, ContinuesTree, ShellExitsTree DEF Next
<1> QED BY <1>1, <1>2, RegistryTypeCorrect, PTL DEF Spec

\* The maps of BuiltinData stay one tree: a tab is listed once, by the
\* workspace it is in, a pane once by its tab, and each pane has the one
\* terminal that the registry keeps for it.
THEOREM RegistryTree == Spec => []TreeCoherent
<1>1. TreeInv => TreeCoherent
  BY DEF TreeInv
<1> QED BY <1>1, TreeInvariant, PTL

\* The focused ids name records that exist and belong together, after every
\* creation, close, promotion and checkout.
THEOREM RegistryFocus == Spec => []FocusCoherent
<1>1. TreeInv => FocusCoherent
  BY DEF TreeInv
<1> QED BY <1>1, TreeInvariant, PTL

-----------------------------------------------------------------------------
(***************************************************************************)
(* What a step may do.                                                     *)
(***************************************************************************)

(***************************************************************************)
(* Every change is announced.                                              *)
(***************************************************************************)

\* A request that commits has its event to publish.
LEMMA CommitAnnounces ==
  ASSUME TypeOK, NEW r \in Requests, Commit(r)
  PROVE  ChangesAnnounced'
  BY DEF TypeOK, Commit, Step, ChangesAnnounced

\* A request that does not publish leaves the others' events to come.
LEMMA OthersAnnounce ==
  ASSUME TypeOK, ChangesAnnounced, NEW r \in Requests, NEW next, Step(r, next),
         job[r].stage # "publish", unannounced' = unannounced
  PROVE  ChangesAnnounced'
<1>1. SUFFICES ASSUME unannounced PROVE \E q \in Requests : job'[q] = Publish
  BY DEF ChangesAnnounced
<1>2. PICK q \in Requests : job[q] = Publish
  BY <1>1 DEF ChangesAnnounced
<1>3. q # r
  BY <1>2 DEF Publish
<1> QED BY <1>2, <1>3 DEF TypeOK, Step

\* Neither does one that fails.
LEMMA FailAnnounces ==
  ASSUME TypeOK, ChangesAnnounced, NEW r \in Requests, Fail(r), job[r].stage # "publish"
  PROVE  ChangesAnnounced'
  BY OthersAnnounce DEF Fail, registry

\* or that draws an id.
LEMMA AllocateAnnounces ==
  ASSUME TypeOK, ChangesAnnounced, NEW r \in Requests, job[r].stage # "publish",
         NEW kind, NEW w, NEW p, NEW focused, Allocate(r, kind, w, p, focused)
  PROVE  ChangesAnnounced'
  BY OthersAnnounce DEF Allocate

\* A new request takes an idle thread, which has nothing to publish.
LEMMA AsksAnnounces ==
  ASSUME TypeOK, ChangesAnnounced, NEW r \in Requests, Asks(r)
  PROVE  ChangesAnnounced'
<1>0. ASSUME job[r] = Idle
      PROVE  job[r].stage # "publish"
  BY <1>0 DEF Idle
<1>1. ASSUME NEW p \in Paths, NEW shell \in BOOLEAN, CreateWorkspace(r, p, shell)
      PROVE  ChangesAnnounced'
  BY <1>0, <1>1, AllocateAnnounces DEF CreateWorkspace, AllocateWorkspace, Arrives
<1>2. ASSUME NEW p \in Paths, StartAgent(r, p)
      PROVE  ChangesAnnounced'
  BY <1>0, <1>2, AllocateAnnounces DEF StartAgent, Arrives
<1>3. ASSUME NEW w \in DOMAIN workspaces, NEW focused \in BOOLEAN, CreateTab(r, w, focused)
      PROVE  ChangesAnnounced'
  BY <1>0, <1>3, AllocateAnnounces DEF CreateTab, Arrives
<1>4. ASSUME NEW t \in DOMAIN tabs, NEW p \in Paths, PromoteTab(r, t, p)
      PROVE  ChangesAnnounced'
  BY <1>0, <1>4, OthersAnnounce DEF PromoteTab, registry, Arrives
<1>5. ASSUME NEW p \in Paths, NEW shell \in BOOLEAN, OpenCheckout(r, p, shell), job[r] = Idle
      PROVE  ChangesAnnounced'
  BY <1>0, <1>5, OthersAnnounce, CommitAnnounces DEF OpenCheckout, registry
<1>6. ASSUME NEW p \in Paths, WorktreeRemove(r, p)
      PROVE  ChangesAnnounced'
  BY <1>0, <1>6, OthersAnnounce DEF WorktreeRemove, registry, Arrives
<1>7. CASE Commit(r)
  BY <1>7, CommitAnnounces
<1> QED BY <1>1, <1>2, <1>3, <1>4, <1>5, <1>6, <1>7
        DEF Asks, WorktreeOpen, WorktreeCreate, Arrives, Rename, CloseWorkspace, CloseTab, ClosePane

\* A request in progress commits, fails, goes on or publishes.
LEMMA ContinuesAnnounces ==
  ASSUME TypeOK, ChangesAnnounced, NEW r \in Requests, Continues(r)
  PROVE  ChangesAnnounced'
<1>1. CASE SpawnShell(r)
  BY <1>1, OthersAnnounce, FailAnnounces DEF SpawnShell
<1>2. CASE InsertTab(r)
  <2>1. CASE StillOpen(job[r].ws)
    BY <1>2, <2>1, CommitAnnounces DEF InsertTab
  <2>2. CASE ~StillOpen(job[r].ws)
    BY <1>2, <2>2, OthersAnnounce DEF InsertTab
  <2> QED BY <2>1, <2>2
<1>3. CASE PromoteCommit(r)
  BY <1>3, CommitAnnounces, FailAnnounces DEF PromoteCommit
<1>4. CASE OpenUnmatched(r)
  BY <1>4, AllocateAnnounces DEF OpenUnmatched, AllocateWorkspace
<1>5. CASE GitRemove(r)
  BY <1>5, OthersAnnounce, FailAnnounces DEF GitRemove
<1>6. CASE PublishEvent(r)
  BY <1>6 DEF PublishEvent, ChangesAnnounced
<1>7. CASE InsertWorkspace(r) \/ InsertBareWorkspace(r) \/ TearDownWorktree(r)
  BY <1>7, CommitAnnounces DEF InsertWorkspace, InsertBareWorkspace, TearDownWorktree
<1> QED BY <1>1, <1>2, <1>3, <1>4, <1>5, <1>6, <1>7 DEF Continues

\* publish_success_event follows every change a handler makes: while clients
\* have not been told, some request still has its event to publish.
THEOREM RegistryAnnounces == Spec => []ChangesAnnounced
<1>1. Init => ChangesAnnounced
  <2> SUFFICES ASSUME Init PROVE ~unannounced
    BY DEF ChangesAnnounced
  <2> QED BY Zenon DEF Init
<1>2. TypeOK /\ ChangesAnnounced /\ [Next]_vars => ChangesAnnounced'
  <2> SUFFICES ASSUME TypeOK, ChangesAnnounced, [Next]_vars PROVE ChangesAnnounced'
    OBVIOUS
  <2>1. CASE UNCHANGED vars
    BY <2>1 DEF vars, ChangesAnnounced
  <2>2. ASSUME NEW t \in DOMAIN runtimes, ShellExits(t) PROVE ChangesAnnounced'
    BY <2>2 DEF ShellExits, ChangesAnnounced
  <2> QED BY <2>1, <2>2, AsksAnnounces, ContinuesAnnounces DEF Next
<1> QED BY <1>1, <1>2, RegistryTypeCorrect, PTL DEF Spec
-----------------------------------------------------------------------------
(***************************************************************************)
(* What a promotion and a close do to the rest.                            *)
(***************************************************************************)

\* A focused workspace that is still open stays the focused one.
LEMMA NormalFocusKeeps ==
  ASSUME NEW W, NEW T, NEW P, NEW f, f.ws \in DOMAIN W, None \notin DOMAIN W,
         NEW g \in NormalFocus(W, T, P, f)
  PROVE  /\ g.ws = f.ws
         /\ f.tab \in DOMAIN T /\ T[f.tab].ws = f.ws => g.tab = f.tab
  BY DEF NormalFocus, FocusTargets

\* The part of PromoteKeepsShell and of CloseKeepsFocusedWorkspace in a step.
MovesKeep ==
  \A t \in DOMAIN tabs \cap DOMAIN tabs' : tabs'[t].ws # tabs[t].ws =>
    /\ runtimes' = runtimes
    /\ DOMAIN tabs' = DOMAIN tabs /\ tabs'[t].panes = tabs[t].panes
    /\ focus'.tab = t
ClosesKeep ==
  DOMAIN tabs' \subseteq DOMAIN tabs /\ DOMAIN tabs' # DOMAIN tabs /\ focus.ws \in DOMAIN workspaces'
    => focus'.ws = focus.ws

\* A step that leaves the tabs alone.
LEMMA SameTabs ==
  ASSUME tabs' = tabs
  PROVE  MovesKeep /\ ClosesKeep
  BY DEF MovesKeep, ClosesKeep

\* A step that adds a tab under a fresh id.
LEMMA NewTab ==
  ASSUME NEW n, n \notin DOMAIN tabs, NEW y, tabs' = Insert(tabs, n, y)
  PROVE  MovesKeep /\ ClosesKeep
  BY DEF MovesKeep, ClosesKeep, Insert

\* A step that closes tabs, or panes in them, and normalizes the focus.
LEMMA ClosedTabs ==
  ASSUME TypeOK', DOMAIN tabs' \subseteq DOMAIN tabs,
         \A t \in DOMAIN tabs' : tabs'[t].ws = tabs[t].ws, Refocus(focus)
  PROVE  MovesKeep /\ ClosesKeep
<1>1. None \notin DOMAIN workspaces'
  BY DEF TypeOK, IsMap, Ids
<1>2. focus.ws \in DOMAIN workspaces' => focus'.ws = focus.ws
  BY <1>1, NormalFocusKeeps DEF Refocus
<1> QED BY <1>2 DEF MovesKeep, ClosesKeep

\* Among the requests only the closes change the tabs.
LEMMA AsksKeep ==
  ASSUME TypeOK, TypeOK', TreeInv, NEW r \in Requests, Asks(r)
  PROVE  MovesKeep /\ ClosesKeep
<1>1. ASSUME NEW w \in DOMAIN workspaces, CloseWorkspace(r, w)
      PROVE  MovesKeep /\ ClosesKeep
  BY <1>1, ClosedTabs DEF CloseWorkspace, DropWorkspaces, Restrict
<1>2. ASSUME NEW t \in DOMAIN tabs, CloseTab(r, t)
      PROVE  MovesKeep /\ ClosesKeep
  BY <1>2, ClosedTabs DEF CloseTab, DropTab, Restrict
<1>3. ASSUME NEW p \in DOMAIN panes, ClosePane(r, p)
      PROVE  MovesKeep /\ ClosesKeep
  <2>1. CASE Without(tabs[panes[p].tab].panes, p) = <<>>
    BY <1>3, <2>1, ClosedTabs DEF ClosePane, Restrict
  <2>2. CASE Without(tabs[panes[p].tab].panes, p) # <<>>
    <3>1. tabs' = [tabs EXCEPT ![panes[p].tab].panes = Without(tabs[panes[p].tab].panes, p)]
          /\ Refocus(focus)
      BY <1>3, <2>2 DEF ClosePane
    <3>2. DOMAIN tabs' = DOMAIN tabs /\ \A t \in DOMAIN tabs : tabs'[t].ws = tabs[t].ws
      BY <3>1, Pieces DEF Maps, IsMap, Tab
    <3> QED BY <3>1, <3>2, ClosedTabs
  <2> QED BY <2>1, <2>2
<1>4. ASSUME tabs' # tabs
      PROVE  \/ \E w \in DOMAIN workspaces : CloseWorkspace(r, w)
             \/ \E t \in DOMAIN tabs : CloseTab(r, t)
             \/ \E p \in DOMAIN panes : ClosePane(r, p)
  BY <1>4 DEF Asks, CreateWorkspace, AllocateWorkspace, StartAgent, CreateTab, Allocate, Rename,
              PromoteTab, WorktreeOpen, WorktreeCreate, OpenCheckout, WorktreeRemove, registry
<1> QED BY <1>1, <1>2, <1>3, <1>4, SameTabs

\* promote_tab's second part.
LEMMA MoveTabKeeps ==
  ASSUME TypeOK, TypeOK', TreeInv, NEW W, NEW t \in DOMAIN tabs, NEW old,
         NEW w \in DOMAIN W, w # old, MoveTab(W, t, old, w), runtimes' = runtimes
  PROVE  MovesKeep /\ ClosesKeep
<1>1. tabs' = [tabs EXCEPT ![t].ws = w]
      /\ Refocus([ws |-> w, tab |-> t, pane |-> FirstOrNone(tabs[t].panes)])
  BY DEF MoveTab
<1>2. /\ DOMAIN tabs' = DOMAIN tabs /\ tabs'[t].ws = w /\ tabs'[t].panes = tabs[t].panes
      /\ \A u \in DOMAIN tabs \ {t} : tabs'[u] = tabs[u]
  BY <1>1, Pieces DEF Maps, IsMap, Tab
<1>3. w \in DOMAIN workspaces'
  BY DEF MoveTab, Restrict
<1>4. None \notin DOMAIN workspaces'
  BY DEF TypeOK, IsMap, Ids
<1>5. focus'.tab = t
  <2>1. PICK f : f = [ws |-> w, tab |-> t, pane |-> FirstOrNone(tabs[t].panes)]
    OBVIOUS
  <2>2. f.ws = w /\ f.tab = t /\ Refocus(f)
    BY <1>1, <2>1
  <2> QED BY <1>2, <1>3, <1>4, <2>2, NormalFocusKeeps DEF Refocus
<1> QED BY <1>2, <1>5 DEF MovesKeep, ClosesKeep

\* Among the later steps only two creations, the teardown and the promotion do.
LEMMA ContinuesKeep ==
  ASSUME TypeOK, TypeOK', TreeInv, NEW r \in Requests, Continues(r)
  PROVE  MovesKeep /\ ClosesKeep
<1>1. CASE InsertWorkspace(r) \/ InsertTab(r)
  <2>1. r \in InFlight
    BY <1>1 DEF InsertWorkspace, InsertTab, InFlight
  <2>2. job[r].id \notin DOMAIN tabs
    BY <2>1, Pieces DEF IdsFresh
  <2>3. tabs' = tabs \/ \E y : tabs' = Insert(tabs, job[r].id, y)
    BY <1>1 DEF InsertWorkspace, InsertTab
  <2> QED BY <2>2, <2>3, NewTab, SameTabs
<1>2. CASE TearDownWorktree(r)
  BY <1>2, ClosedTabs DEF TearDownWorktree, DropWorkspaces, Restrict
<1>3. CASE PromoteCommit(r)
  <2> DEFINE t == job[r].tab
             p == job[r].cwd
             old == tabs[t].ws
             new == Insert(workspaces, nextId, [cwd |-> p, tabs |-> <<>>])
  <2>1. ASSUME t \in DOMAIN tabs, workspaces[old].cwd # p, NEW w \in At(p),
               MoveTab(workspaces, t, old, w), runtimes' = runtimes
        PROVE  MovesKeep /\ ClosesKeep
    <3>1. w \in DOMAIN workspaces /\ w # old
      BY <2>1 DEF At
    <3> HIDE DEF t, p, old
    <3> QED BY <2>1, <3>1, MoveTabKeeps
  <2>2. ASSUME t \in DOMAIN tabs, MoveTab(new, t, old, nextId), runtimes' = runtimes
        PROVE  MovesKeep /\ ClosesKeep
    <3>1. nextId \in DOMAIN new
      BY DEF Insert
    <3>2. nextId # old
      BY <2>2, Pieces DEF OwnTabs, IdsBelow, Ids
    <3> HIDE DEF t, p, old, new
    <3>3. PICK W : W = new
      OBVIOUS
    <3> QED BY <2>2, <3>1, <3>2, <3>3, MoveTabKeeps
  <2>3. \/ Fail(r)
        \/ /\ t \in DOMAIN tabs /\ workspaces[old].cwd # p
           /\ \E w \in At(p) : MoveTab(workspaces, t, old, w)
           /\ runtimes' = runtimes
        \/ t \in DOMAIN tabs /\ MoveTab(new, t, old, nextId) /\ runtimes' = runtimes
    BY <1>3 DEF PromoteCommit
  <2>4. Fail(r) => tabs' = tabs
    BY DEF Fail, registry
  <2> HIDE DEF t, p, old, new
  <2> QED BY <2>1, <2>2, <2>3, <2>4, SameTabs
<1>4. ASSUME tabs' # tabs
      PROVE  InsertWorkspace(r) \/ InsertTab(r) \/ TearDownWorktree(r) \/ PromoteCommit(r)
  BY <1>4 DEF Continues, SpawnShell, InsertBareWorkspace, OpenUnmatched, AllocateWorkspace,
              Allocate, GitRemove, PublishEvent, Fail, registry
<1> QED BY <1>1, <1>2, <1>3, <1>4, SameTabs

\* So both hold in every step from a state of the tree.
LEMMA NextKeeps ==
  TypeOK /\ TypeOK' /\ TreeInv /\ [Next]_vars => MovesKeep /\ ClosesKeep
<1> SUFFICES ASSUME TypeOK, TypeOK', TreeInv, [Next]_vars PROVE MovesKeep /\ ClosesKeep
  OBVIOUS
<1>1. CASE UNCHANGED vars
  BY <1>1, SameTabs DEF vars
<1>2. ASSUME NEW t \in DOMAIN runtimes, ShellExits(t) PROVE MovesKeep /\ ClosesKeep
  BY <1>2, SameTabs DEF ShellExits
<1> QED BY <1>1, <1>2, AsksKeep, ContinuesKeep DEF Next

\* promote_tab is registry-only: whatever other requests do in between, a tab
\* that changes workspace keeps its panes and its shell, and gets the focus.
THEOREM RegistryPromotes == Spec => PromoteKeepsShell
<1>1. TypeOK /\ TypeOK' /\ TreeInv /\ [Next]_vars =>
        [\A t \in DOMAIN tabs \cap DOMAIN tabs' : tabs'[t].ws # tabs[t].ws =>
           /\ runtimes' = runtimes
           /\ DOMAIN tabs' = DOMAIN tabs /\ tabs'[t].panes = tabs[t].panes
           /\ focus'.tab = t]_vars
  BY NextKeeps DEF MovesKeep
<1> QED BY <1>1, RegistryTypeCorrect, TreeInvariant, PTL DEF Spec, PromoteKeepsShell

\* normalize_focus after a close: a workspace that stays open keeps the focus.
THEOREM RegistryKeepsFocus == Spec => CloseKeepsFocusedWorkspace
<1>1. TypeOK /\ TypeOK' /\ TreeInv /\ [Next]_vars =>
        [/\ DOMAIN tabs' \subseteq DOMAIN tabs /\ tabs' # tabs
         /\ focus.ws \in DOMAIN workspaces'
         /\ DOMAIN tabs' # DOMAIN tabs
         => focus'.ws = focus.ws]_vars
  BY NextKeeps DEF ClosesKeep
<1> QED BY <1>1, RegistryTypeCorrect, TreeInvariant, PTL DEF Spec, CloseKeepsFocusedWorkspace
=============================================================================
