------------------------------ MODULE MCUpkeep ------------------------------
(***************************************************************************)
(* Model values for components that must come to rest where they should:   *)
(* NoSleep, ServerSettings and WorktreeRows of the server, PageTerminal of *)
(* the desktop page.  They share no state; a behaviour is one of one of    *)
(* them, while the others stay as they begin.                              *)
(***************************************************************************)
EXTENDS NoSleep, ServerSettings, WorktreeRows, PageTerminal

VARIABLE component

upkeepVars == <<component, noSleepVars, settingsVars, rowVars, panelVars>>

UpkeepInit ==
  /\ component \in {"nosleep", "settings", "rows", "panel"}
  /\ NoSleepInit /\ SettingsInit /\ RowsInit /\ PanelInit
  /\ page.hidden <=> component # "panel"
  /\ component # "settings" => others = {} /\ live.endpoint = [port |-> FirstPort, both |-> TRUE]
  /\ component # "rows" => heads = CHOOSE h \in Listings : h[Main] # Gone /\ OneCheckoutEach(h)

\* A step of one component, the one the behaviour is about.
InNoSleep(A) ==
  component = "nosleep" /\ A /\ UNCHANGED <<component, settingsVars, rowVars, panelVars>>
InSettings(A) ==
  component = "settings" /\ A /\ UNCHANGED <<component, noSleepVars, rowVars, panelVars>>
InRows(A) ==
  component = "rows" /\ A /\ UNCHANGED <<component, noSleepVars, settingsVars, panelVars>>
InPanel(A) ==
  component = "panel" /\ A /\ UNCHANGED <<component, noSleepVars, settingsVars, rowVars>>

UpkeepNext ==
  InNoSleep(NoSleepNext) \/ InSettings(SettingsNext) \/ InRows(RowsNext) \/ InPanel(PanelNext)

\* NoSleepFairness, SettingsFairness, RowsFairness and PanelFairness, of the
\* component's own steps.
UpkeepFairness ==
  /\ \A n \in NoSleepPosts : WF_upkeepVars(InNoSleep(LoopStep(n)))
  /\ WF_upkeepVars(InSettings(ServeStep))
  /\ \A p \in Ports : WF_upkeepVars(InSettings(\E l \in listeners : l.port = p /\ ListenerStops(l)))
  /\ \A s \in Snapshots : WF_upkeepVars(InRows(SnapshotStep(s)))
  /\ \A c \in Checkouts : WF_upkeepVars(InRows(\E e \in cache : e.cwd = c /\ EntryExpires(e)))
  /\ WF_upkeepVars(InPanel(SnapshotLands)) /\ WF_upkeepVars(InPanel(LayoutLands))
  /\ WF_upkeepVars(InPanel(Making)) /\ WF_upkeepVars(InPanel(SocketOpens))
  /\ WF_upkeepVars(InPanel(Hears)) /\ WF_upkeepVars(InPanel(SocketDue /\ TermSocketCloses))
  /\ WF_upkeepVars(InPanel(WatchdogFires)) /\ WF_upkeepVars(InPanel(BackoffEnds))
  /\ WF_upkeepVars(InPanel(RetryTimer))
  /\ WF_upkeepVars(InPanel(Raf)) /\ WF_upkeepVars(InPanel(Reveal))

UpkeepSpec == UpkeepInit /\ [][UpkeepNext]_upkeepVars /\ UpkeepFairness

\* The type invariants of the four.
UpkeepTypeOK == NoSleepTypeOK /\ SettingsTypeOK /\ RowsTypeOK /\ PanelTypeOK

\* LatestIsServed, where the listeners are what moves.
EndpointIsServed == component = "settings" => LatestIsServed

\* RowsCatchUp, where the worktrees are what moves.
StampsCatchUp == component = "rows" => RowsCatchUp
=============================================================================
