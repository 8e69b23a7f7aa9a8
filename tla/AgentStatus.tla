---------------------------- MODULE AgentStatus ----------------------------
(***************************************************************************)
(* How one terminal runtime of the built-in backend decides what its agent *)
(* is doing, and how a composer message is refused while a dialog is open  *)
(* (src/src/builtin_backend.rs: append_output, detect_and_publish_agent_-  *)
(* status, the sweeper thread of spawn, notify_exited, agent_prompt).      *)
(*                                                                         *)
(* Detection passes run on the PTY reader thread, on the sweeper thread    *)
(* and on the threads of agent.prompt requests.  What the per-agent rules  *)
(* make of a screen is abstracted to the status a text shows and to the    *)
(* status a terminal title tells, which outranks it.                       *)
(***************************************************************************)
EXTENDS Integers, Sequences, FiniteSets, FiniteSetsExt

CONSTANTS
  Prompts,    \* agent.prompt requests
  AgentEvents \* bound on what the environment does: output, and the agent's
              \* process starting and ending

ASSUME AgentAssumption ==
  /\ AgentEvents \in Nat
  /\ Prompts \cap {"reader", "sweeper"} = {}

VARIABLES
  appended,   \* the scrollback: the look of each chunk, oldest first
  observed,   \* how many of them the OSC tracker has seen
  reading,    \* where the PTY reader thread is
  sweeping,   \* where the sweeper thread is
  windowOpen, \* have 500 ms passed since last_status_check?
  pendingCheck, \* pending_status_check
  gone,       \* exited: the terminal's shell is gone
  alive,      \* is an agent's process in the pane's process tree?
  lastLive,   \* last_live_process_agent is set
  exitRecord, \* recent_agent_process_exit is set
  agentEvents, \* how much the environment has done
  detectionSeq, \* detection_seq
  pass,       \* the detection pass of each thread, or NoPass
  lastState,  \* last_agent_state, or NoState; `tail` is what it was judged by
  asking,     \* where each agent.prompt request is
  typedInto   \* for each request that has pasted, had it been shown a dialog
              \* at every moment since it asked?

environment == <<appended, observed, alive, agentEvents>>
threads     == <<reading, sweeping, windowOpen, pendingCheck, gone>>
records     == <<lastLive, exitRecord>>
prompting   == <<asking, typedInto>>
agentVars   == <<environment, threads, records, detectionSeq, pass, lastState, prompting>>
-----------------------------------------------------------------------------
Passers == {"reader", "sweeper"} \cup Prompts

\* What a chunk leaves on the screen, and the title or the progress payload it
\* carries: an idle composer or an open dialog, silent or not on the side
\* channels.
Looks ==
  {[text |-> t, title |-> "none", progress |-> "none"] : t \in {"idle", "blocked"}} \cup
  {[text |-> "idle", title |-> "working", progress |-> "none"],
   [text |-> "idle", title |-> "none", progress |-> "blocked"]}

Statuses == {"idle", "blocked", "working", "done", "unknown"}

NoOsc   == [title |-> "none", progress |-> "none"]
NoPass  == [stage |-> "none", seq |-> 0, tail |-> 0, osc |-> NoOsc, live |-> FALSE, agent |-> FALSE]
NoState == [agent |-> FALSE, status |-> "unknown", seq |-> 0, tail |-> 0]

PassStages == {"none", "reserved", "tailed", "tracked", "probed", "recorded", "judged"}

\* Osc9Tracker keeps the latest title and the latest progress that were not
\* empty, of the first n chunks.
Latest(n, payload) ==
  LET told == {i \in 1 .. n : payload[i] # "none"}
  IN  IF told = {} THEN "none" ELSE payload[Max(told)]

Tracked(n) == [title    |-> Latest(n, [i \in DOMAIN appended |-> appended[i].title]),
               progress |-> Latest(n, [i \in DOMAIN appended |-> appended[i].progress])]

\* The rules of the agent's screen.
ScreenStatus(n) == IF n = 0 THEN "idle" ELSE appended[n].text

\* detect_agent_status_with_osc: the title, the progress, then the screen.
DetectStatus(agent, n, osc) ==
  IF ~agent THEN "unknown"
  ELSE IF osc.title # "none" THEN osc.title
  ELSE IF osc.progress # "none" THEN osc.progress
  ELSE ScreenStatus(n)

\* The label: a process, or what the text still tells.
DetectLabel(live, n) == live \/ n > 0

\* What agent.list says of the pane: the committed state, unless the terminal
\* or the agent is gone, or nothing has been committed yet.
Presentation ==
  LET shown(agent, status) == [agent |-> agent, status |-> status]
      label == ~exitRecord /\ DetectLabel(alive /\ ~gone, Len(appended))
  IN  IF ~gone /\ ~exitRecord /\ lastState # NoState THEN shown(lastState.agent, lastState.status)
      ELSE IF gone THEN shown(label, IF label THEN "done" ELSE "unknown")
      ELSE shown(label, DetectStatus(label, Len(appended), Tracked(observed)))

\* A dialog of an agent that has not been recorded as gone.
ShowsDialog == ~exitRecord /\ DetectStatus(TRUE, Len(appended), Tracked(observed)) = "blocked"
-----------------------------------------------------------------------------
DetectionPass ==
  [stage : PassStages, seq : Nat, tail : Nat,
   osc : [title : {"none", "working"}, progress : {"none", "blocked"}],
   live : BOOLEAN, agent : BOOLEAN]

\* What the runtime, its passes and its requests can hold.
AgentTypeOK ==
  /\ appended \in Seq(Looks) /\ observed \in 0 .. Len(appended)
  /\ reading \in {"reading", "appended", "checking", "exiting", "over"}
  /\ sweeping \in {"asleep", "forced", "over"}
  /\ windowOpen \in BOOLEAN /\ pendingCheck \in BOOLEAN /\ gone \in BOOLEAN
  /\ alive \in BOOLEAN /\ lastLive \in BOOLEAN /\ exitRecord \in BOOLEAN
  /\ agentEvents \in 0 .. AgentEvents /\ detectionSeq \in Nat
  /\ pass \in [Passers -> DetectionPass]
  /\ lastState \in [agent : BOOLEAN, status : Statuses, seq : Nat, tail : Nat]
  /\ asking \in [Prompts -> {"new", "detecting", "deciding", "pasted", "entered", "refused"}]
  /\ typedInto \in [Prompts -> BOOLEAN]

AgentInit ==
  /\ appended = <<>> /\ observed = 0
  /\ reading = "reading" /\ sweeping = "asleep"
  /\ windowOpen = TRUE /\ pendingCheck = FALSE /\ gone = FALSE
  /\ alive \in BOOLEAN
  /\ lastLive = FALSE /\ exitRecord = FALSE
  /\ agentEvents = 0 /\ detectionSeq = 0
  /\ pass = [p \in Passers |-> NoPass]
  /\ lastState = NoState
  /\ asking = [r \in Prompts |-> "new"]
  /\ typedInto = [r \in Prompts |-> TRUE]
-----------------------------------------------------------------------------
\* A request stops being about a dialog when the screen stops showing one.
Witness == typedInto' = [r \in Prompts |->
             typedInto[r] /\ (asking[r] \in {"detecting", "deciding"} => ShowsDialog')]

\* append_output: the scrollback, then the tracker, each under its own lock;
\* the subscribers are TerminalAttach's.
AppendOutput ==
  /\ reading = "reading" /\ pass["reader"] = NoPass /\ agentEvents < AgentEvents
  /\ \E l \in Looks : appended' = Append(appended, l)
  /\ reading' = "appended" /\ agentEvents' = agentEvents + 1
  /\ UNCHANGED <<observed, alive, sweeping, windowOpen, pendingCheck, gone, records, detectionSeq,
                 pass, lastState, asking>>
  /\ Witness

ObserveOsc ==
  /\ reading = "appended"
  /\ observed' = Len(appended)
  /\ reading' = "checking"
  /\ UNCHANGED <<appended, alive, agentEvents, sweeping, windowOpen, pendingCheck, gone, records,
                 detectionSeq, pass, lastState, asking>>
  /\ Witness

\* A detection pass reserves its number before it reads anything.
Reserve(p) ==
  /\ detectionSeq' = detectionSeq + 1
  /\ pass' = [pass EXCEPT ![p] = [NoPass EXCEPT !.stage = "reserved", !.seq = detectionSeq + 1]]

\* publish_agent_status_if_changed: at most once per window; a check that
\* comes too early is left to the sweeper.
PublishIfChanged ==
  /\ reading = "checking" /\ pass["reader"] = NoPass
  /\ reading' = "reading"
  /\ IF windowOpen
       THEN windowOpen' = FALSE /\ pendingCheck' = FALSE /\ Reserve("reader")
       ELSE pendingCheck' = TRUE /\ UNCHANGED <<windowOpen, detectionSeq, pass>>
  /\ UNCHANGED <<environment, sweeping, gone, records, lastState, prompting>>

WindowExpires ==
  /\ ~windowOpen
  /\ windowOpen' = TRUE
  /\ UNCHANGED <<environment, reading, sweeping, pendingCheck, gone, records, detectionSeq, pass,
                 lastState, prompting>>

\* The sweeper thread of spawn: every 100 ms it takes the flag, if it is set.
SweeperTick ==
  /\ sweeping = "asleep"
  /\ \/ gone /\ sweeping' = "over" /\ UNCHANGED pendingCheck
     \/ ~gone /\ pendingCheck /\ sweeping' = "forced" /\ pendingCheck' = FALSE
  /\ UNCHANGED <<environment, reading, windowOpen, gone, records, detectionSeq, pass, lastState, prompting>>

\* run_status_detection, called by the sweeper.
RunStatusDetection ==
  /\ sweeping = "forced" /\ pass["sweeper"] = NoPass
  /\ sweeping' = "asleep"
  /\ IF gone \/ ~windowOpen
       THEN /\ pendingCheck' = (pendingCheck \/ ~gone)
            /\ UNCHANGED <<windowOpen, detectionSeq, pass>>
       ELSE windowOpen' = FALSE /\ Reserve("sweeper") /\ UNCHANGED pendingCheck
  /\ UNCHANGED <<environment, reading, gone, records, lastState, prompting>>
-----------------------------------------------------------------------------
InPass(p, s) == pass[p].stage = s

ReadTail(p) ==
  /\ InPass(p, "reserved")
  /\ pass' = [pass EXCEPT ![p].stage = "tailed", ![p].tail = Len(appended)]
  /\ UNCHANGED <<environment, threads, records, detectionSeq, lastState, prompting>>

\* The tracker is reset when the terminal exits.
ReadTracker(p) ==
  /\ InPass(p, "tailed")
  /\ pass' = [pass EXCEPT ![p].stage = "tracked",
                          ![p].osc = IF reading = "over" THEN NoOsc ELSE Tracked(observed)]
  /\ UNCHANGED <<environment, threads, records, detectionSeq, lastState, prompting>>

\* probe_live_process_agent; a probe that fails changes no record and reports
\* no agent.
Probe(p) ==
  /\ InPass(p, "tracked")
  /\ \/ pass' = [pass EXCEPT ![p].stage = "probed", ![p].live = alive]
     \/ pass' = [pass EXCEPT ![p].stage = "recorded", ![p].live = FALSE]
  /\ UNCHANGED <<environment, threads, records, detectionSeq, lastState, prompting>>

\* update_agent_exit_record, for a probe that worked.
UpdateExitRecord(p) ==
  /\ InPass(p, "probed")
  /\ pass' = [pass EXCEPT ![p].stage = "recorded"]
  /\ lastLive' = pass[p].live
  /\ exitRecord' = (~pass[p].live /\ (exitRecord \/ lastLive))
  /\ UNCHANGED <<environment, threads, detectionSeq, lastState, asking>>
  /\ Witness

\* recent_agent_exit_active suppresses a label that only lingers on screen.
Judge(p) ==
  /\ InPass(p, "recorded")
  /\ pass' = [pass EXCEPT ![p].stage = "judged",
                          ![p].agent = ~exitRecord /\ DetectLabel(pass[p].live, pass[p].tail)]
  /\ UNCHANGED <<environment, threads, records, detectionSeq, lastState, prompting>>

Judged(p) == [agent |-> pass[p].agent, seq |-> pass[p].seq, tail |-> pass[p].tail,
              status |-> DetectStatus(pass[p].agent, pass[p].tail, pass[p].osc)]

\* Mutant: the last pass to arrive wins, whatever its number.
CommitAnyway(p) ==
  /\ InPass(p, "judged")
  /\ lastState' = Judged(p)
  /\ pass' = [pass EXCEPT ![p] = NoPass]
  /\ UNCHANGED <<environment, threads, records, detectionSeq, prompting>>

\* The compare-and-set on last_agent_state: a pass with a lower number than the
\* committed one is dropped.  The event that follows a change is left out.
Commit(p) ==
  /\ InPass(p, "judged")
  /\ lastState' = IF lastState = NoState \/ lastState.seq < pass[p].seq THEN Judged(p) ELSE lastState
  /\ pass' = [pass EXCEPT ![p] = NoPass]
  /\ UNCHANGED <<environment, threads, records, detectionSeq, prompting>>
-----------------------------------------------------------------------------
\* notify_exited: `exited` first, then the tracker and the last state.
NotifyExited ==
  /\ reading = "reading" /\ pass["reader"] = NoPass
  /\ gone' = TRUE /\ reading' = "exiting"
  /\ UNCHANGED <<environment, sweeping, windowOpen, pendingCheck, records, detectionSeq, pass,
                 lastState, prompting>>

ForgetState ==
  /\ reading = "exiting"
  /\ reading' = "over" /\ lastState' = NoState
  /\ UNCHANGED <<environment, sweeping, windowOpen, pendingCheck, gone, records, detectionSeq, pass,
                 prompting>>

\* The agent's process starts or ends inside the pane's shell, without output.
AgentProcess ==
  /\ agentEvents < AgentEvents
  /\ alive' = ~alive /\ agentEvents' = agentEvents + 1
  /\ UNCHANGED <<appended, observed, threads, records, detectionSeq, pass, lastState, prompting>>
-----------------------------------------------------------------------------
\* Mutant: the cached status alone decides.
PromptUnchecked(r) ==
  /\ asking[r] = "new"
  /\ asking' = [asking EXCEPT ![r] = IF gone \/ lastState.status = "blocked" THEN "refused" ELSE "deciding"]
  /\ typedInto' = [typedInto EXCEPT ![r] = ShowsDialog /\ observed = Len(appended)]
  /\ UNCHANGED <<environment, threads, records, lastState, detectionSeq, pass>>

\* agent.prompt: a terminal that has exited or is known to be blocked refuses
\* at once.
Prompt(r) ==
  /\ asking[r] = "new"
  /\ IF gone \/ lastState.status = "blocked"
       THEN /\ asking' = [asking EXCEPT ![r] = "refused"]
            /\ UNCHANGED <<detectionSeq, pass, typedInto>>
       ELSE /\ asking' = [asking EXCEPT ![r] = "detecting"]
            /\ typedInto' = [typedInto EXCEPT ![r] = ShowsDialog /\ observed = Len(appended)]
            /\ Reserve(r)
  /\ UNCHANGED <<environment, threads, records, lastState>>

\* Its own pass is over; last_agent_status is read again.
Decide(r) ==
  /\ asking[r] = "detecting" /\ pass[r] = NoPass
  /\ asking' = [asking EXCEPT ![r] = IF lastState.status = "blocked" THEN "refused" ELSE "deciding"]
  /\ UNCHANGED <<environment, threads, records, detectionSeq, pass, lastState, typedInto>>

\* write_input of the paste; a dead terminal may refuse it.
Paste(r) ==
  /\ asking[r] = "deciding"
  /\ \/ asking' = [asking EXCEPT ![r] = "pasted"]
     \/ gone /\ asking' = [asking EXCEPT ![r] = "refused"]
  /\ UNCHANGED <<environment, threads, records, detectionSeq, pass, lastState, typedInto>>

\* The Enter, 300 ms later on a thread of its own, unless the terminal is gone.
Enter(r) ==
  /\ asking[r] = "pasted"
  /\ asking' = [asking EXCEPT ![r] = "entered"]
  /\ UNCHANGED <<environment, threads, records, detectionSeq, pass, lastState, typedInto>>
-----------------------------------------------------------------------------
PassStep(p) ==
  \/ ReadTail(p) \/ ReadTracker(p) \/ Probe(p) \/ UpdateExitRecord(p) \/ Judge(p)
  \/ Commit(p)

ReaderStep == ObserveOsc \/ PublishIfChanged \/ ForgetState

SweeperStep == SweeperTick \/ RunStatusDetection

AgentNext ==
  \/ AppendOutput \/ ReaderStep \/ WindowExpires \/ SweeperStep \/ NotifyExited \/ AgentProcess
  \/ \E p \in Passers : PassStep(p)
  \/ \E r \in Prompts : Prompt(r) \/ Decide(r) \/ Paste(r) \/ Enter(r)

\* Threads run while they can and time passes; nothing makes a terminal print
\* or exit, or a browser prompt.
AgentFairness ==
  /\ WF_agentVars(ReaderStep) /\ WF_agentVars(SweeperStep) /\ WF_agentVars(WindowExpires)
  /\ \A p \in Passers : WF_agentVars(PassStep(p))

AgentSpec == AgentInit /\ [][AgentNext]_agentVars /\ AgentFairness
-----------------------------------------------------------------------------
(***************************************************************************)
(* A message is never typed into a dialog that was on the screen when the  *)
(* request came and has been there since: the request's own pass, or one   *)
(* numbered after it, has read the dialog (agent_prompt's refusal).        *)
(***************************************************************************)
NeverTypedIntoDialog == \A r \in Prompts : asking[r] = "pasted" /\ ~gone => ~typedInto[r]

\* agent.list says what the whole output says of an agent that it lists.
Settled ==
  Presentation.agent => Presentation.status =
    IF gone THEN "done" ELSE DetectStatus(TRUE, Len(appended), Tracked(Len(appended)))

(***************************************************************************)
(* Once the terminal is silent, agent.list says what its whole output says *)
(* of an agent that it lists: the throttle leaves the last bytes of a      *)
(* burst to the sweeper, and no late pass overwrites the final one         *)
(* (pending_status_check, detection_seq, pane_agent_presentation).         *)
(***************************************************************************)
StatusSettles == <>[]Settled
=============================================================================
