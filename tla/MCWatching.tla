----------------------------- MODULE MCWatching -----------------------------
(***************************************************************************)
(* Model values for the components that keep what a browser shows in step  *)
(* with the terminals and their agents: AgentStatus, EventFanout, ChatLens.*)
(* They share no state; a behaviour is one of one of them, while the       *)
(* others stay as they begin.                                              *)
(***************************************************************************)
EXTENDS AgentStatus, EventFanout, ChatLens

CONSTANTS qb, j2

\* One session runs in the process tree of a pane, the others in none.
TreeOf == [s \in ChatSessions |-> IF s = j2 THEN qb ELSE NoOne]

VARIABLE component

watchVars == <<component, agentVars, fanVars, lensVars>>

WatchInit ==
  /\ component \in {"agent", "fan", "lens"}
  /\ AgentInit /\ FanInit /\ ChatInit
  /\ alive
  /\ component # "fan" => \A b \in Browsers : kind[b] = "mobile"
  /\ marker[qb] = NoOne \* its process tree tells qb's session
  /\ component # "lens" => ~lensOpen /\ marker = [p \in ChatPanes |-> NoOne]

\* A step of one component, the one the behaviour is about.
InAgent(A) == component = "agent" /\ A /\ UNCHANGED <<component, fanVars, lensVars>>
InFan(A)   == component = "fan" /\ A /\ UNCHANGED <<component, agentVars, lensVars>>
InLens(A)  == component = "lens" /\ A /\ UNCHANGED <<component, agentVars, fanVars>>

WatchNext == InAgent(AgentNext) \/ InFan(FanNext) \/ InLens(ChatNext)

\* AgentFairness, FanFairness and ChatFairness, of the component's own steps.
WatchFairness ==
  /\ WF_watchVars(InAgent(ReaderStep)) /\ WF_watchVars(InAgent(SweeperStep))
  /\ WF_watchVars(InAgent(WindowExpires))
  /\ \A p \in Passers : WF_watchVars(InAgent(PassStep(p)))
  /\ WF_watchVars(InFan(Publish))
  /\ \A b \in Browsers :
       /\ WF_watchVars(InFan(RelaySteps(b))) /\ WF_watchVars(InFan(ConnectEvents(b)))
       /\ WF_watchVars(InFan(TimerFires(b))) /\ WF_watchVars(InFan(FetchSteps(b)))
       /\ \A f \in FrameKinds : WF_watchVars(InFan(f \in frames[b] /\ OnFrame(b, f)))
  /\ WF_watchVars(InLens(PollSteps)) /\ WF_watchVars(InLens(OnPaneChanged))
  /\ \A k \in Fetchers : WF_watchVars(InLens(ServerSteps(k)))
  /\ \A o \in Loads : WF_watchVars(InLens(OlderHears(o)))

WatchSpec == WatchInit /\ [][WatchNext]_watchVars /\ WatchFairness

\* The type invariants of the three.
WatchTypeOK == AgentTypeOK /\ FanTypeOK /\ ChatTypeOK
=============================================================================
