------------------------------ MODULE NoSleep ------------------------------
(***************************************************************************)
(* The no-sleep guard (src/src/main.rs): the mode that a browser selects,  *)
(* the inhibitor process, the timer that ends a timed mode, and the loop   *)
(* that follows the agents in auto mode.                                   *)
(***************************************************************************)
EXTENDS Integers, FiniteSets

CONSTANTS
  NoSleepPosts, \* requests that select a mode
  NoPost,       \* no request
  Cooldown,     \* no_sleep_auto_cooldown_seconds: 0, or what it takes to pass
  WorkTurns,    \* how often the agents start or stop to work
  NoSleepFails  \* how often the inhibitor cannot start, or agent.list fails

ASSUME NoSleepAssumption ==
  /\ NoPost \notin NoSleepPosts
  /\ {Cooldown, WorkTurns, NoSleepFails} \subseteq Nat

VARIABLES
  mode,     \* NoSleepState.mode; one name for 1h, 2h and 4h
  until,    \* until_ms, as the request that it is the deadline of
  guard,    \* does the inhibitor run?
  autoGen,  \* auto_generation, as the request that set it
  idle,     \* auto_idle_since_ms: "none", "since", or "over" the cool-down
  post,     \* where each request is: "new", "probing", a probe's answer, "done"
  timers,   \* the timer tasks that sleep
  loops,    \* the auto loops that live: "tick", "asking", or an answer
  working,  \* does an agent work?
  turns, failed

noSleepVars == <<mode, until, guard, autoGen, idle, post, timers, loops, working, turns, failed>>
selection == <<mode, until, guard, autoGen, idle>>
-----------------------------------------------------------------------------
Answers == {"working", "resting", "error"}

NoSleepTypeOK ==
  /\ mode \in {"off", "auto", "timed", "infinite"}
  /\ until \in NoSleepPosts \cup {NoPost} /\ autoGen \in NoSleepPosts \cup {NoPost}
  /\ guard \in BOOLEAN /\ working \in BOOLEAN
  /\ idle \in {"none", "since", "over"}
  /\ post \in [NoSleepPosts -> {"new", "done"} \cup Answers]
  /\ timers \subseteq NoSleepPosts
  /\ loops \in [NoSleepPosts -> {"gone", "tick"} \cup Answers]
  /\ turns \in 0..WorkTurns /\ failed \in 0..NoSleepFails

NoSleepInit ==
  /\ mode = "off" /\ until = NoPost /\ guard = FALSE /\ autoGen = NoPost /\ idle = "none"
  /\ post = [p \in NoSleepPosts |-> "new"] /\ timers = {}
  /\ loops = [p \in NoSleepPosts |-> "gone"]
  /\ working = FALSE /\ turns = 0 /\ failed = 0
-----------------------------------------------------------------------------
\* start_no_sleep_guard: the process starts, or it does not.
Starting == {TRUE} \cup (IF failed < NoSleepFails THEN {FALSE} ELSE {})

\* agents_working_from_value: what agent.list may answer now.
ListAnswers == {IF working THEN "working" ELSE "resting"}
               \cup (IF failed < NoSleepFails THEN {"error"} ELSE {})
CountFailure(f) == failed' = failed + (IF f THEN 1 ELSE 0)

\* sync_auto_no_sleep in a given state: nothing unless the mode is auto. Agents
\* at work keep the machine awake; when none is, the cool-down begins, and once
\* it is over the mode ends.
Sync(st, busy, started) ==
  IF st.mode # "auto" THEN st
  ELSE IF busy THEN [st EXCEPT !.idle = "none", !.guard = @ \/ started]
  ELSE IF st.idle = "over" \/ Cooldown = 0
         THEN [mode |-> "off", until |-> NoPost, guard |-> FALSE, gen |-> st.gen, idle |-> "none"]
         ELSE [st EXCEPT !.idle = "since"]

Selection == [mode |-> mode, until |-> until, guard |-> guard, gen |-> autoGen, idle |-> idle]
Becomes(st) == /\ mode' = st.mode /\ until' = st.until /\ guard' = st.guard
               /\ autoGen' = st.gen /\ idle' = st.idle

SyncNow(busy, started) ==
  /\ Becomes(Sync(Selection, busy, started))
  /\ CountFailure(mode = "auto" /\ busy /\ ~guard /\ ~started)

\* apply_no_sleep_mode: a new generation, and what was before is dropped.
Applied(p, m, started) ==
  [mode |-> IF m \in {"off", "auto"} \/ started THEN m ELSE "off",
   until |-> IF m = "timed" /\ started THEN p ELSE NoPost,
   guard |-> m \notin {"off", "auto"} /\ started,
   gen |-> p, idle |-> "none"]

\* update_no_sleep asks for the agents first, if the mode is auto, ...
ProbeAgents(p) ==
  /\ post[p] = "new"
  /\ \E a \in ListAnswers : post' = [post EXCEPT ![p] = a] /\ CountFailure(a = "error")
  /\ UNCHANGED <<selection, timers, loops, working, turns>>

\* Mutant: no loop is spawned while one lives.
SelectAutoOnce(p) ==
  /\ post[p] \in Answers /\ post' = [post EXCEPT ![p] = "done"]
  /\ \E started \in Starting :
       LET fresh == Applied(p, "auto", started) IN
         /\ Becomes(IF post[p] = "error" THEN fresh ELSE Sync(fresh, post[p] = "working", started))
         /\ CountFailure(post[p] = "working" /\ ~started)
  /\ loops' = IF \E q \in NoSleepPosts : loops[q] # "gone" THEN loops
                                                        ELSE [loops EXCEPT ![p] = "tick"]
  /\ UNCHANGED <<timers, working, turns>>

\* ... and then selects it, looks at what they did, and spawns the loop, ...
SelectAuto(p) ==
  /\ post[p] \in Answers /\ post' = [post EXCEPT ![p] = "done"]
  /\ \E started \in Starting :
       LET fresh == Applied(p, "auto", started) IN
         /\ Becomes(IF post[p] = "error" THEN fresh ELSE Sync(fresh, post[p] = "working", started))
         /\ CountFailure(post[p] = "working" /\ ~started)
  /\ loops' = [loops EXCEPT ![p] = "tick"]
  /\ UNCHANGED <<timers, working, turns>>

\* ... or selects another mode, and spawns the timer.
SelectMode(p) ==
  /\ post[p] = "new" /\ post' = [post EXCEPT ![p] = "done"]
  /\ \E m \in {"off", "timed", "infinite"}, started \in Starting :
       /\ Becomes(Applied(p, m, started)) /\ CountFailure(m # "off" /\ ~started)
       /\ timers' = IF m = "timed" /\ started THEN timers \cup {p} ELSE timers
  /\ UNCHANGED <<loops, working, turns>>

\* Mutant: the timer does not ask whose deadline it is.
TimerEndsAnything(p) ==
  /\ p \in timers /\ timers' = timers \ {p}
  /\ guard' = FALSE /\ mode' = "off" /\ until' = NoPost
  /\ UNCHANGED <<autoGen, idle, post, loops, working, turns, failed>>

\* The timer's sleep is over.
TimerEnds(p) ==
  /\ p \in timers /\ timers' = timers \ {p}
  /\ IF until = p THEN guard' = FALSE /\ mode' = "off" /\ until' = NoPost
                  ELSE UNCHANGED <<guard, mode, until>>
  /\ UNCHANGED <<autoGen, idle, post, loops, working, turns, failed>>

\* run_auto_no_sleep_loop: every five seconds the loop goes on, if it is still
\* the mode's own, and asks for the agents, ...
LoopTick(p) ==
  /\ loops[p] = "tick"
  /\ IF mode = "auto" /\ autoGen = p
       THEN \E a \in ListAnswers : loops' = [loops EXCEPT ![p] = a] /\ CountFailure(a = "error")
       ELSE loops' = [loops EXCEPT ![p] = "gone"] /\ UNCHANGED failed
  /\ UNCHANGED <<selection, post, timers, working, turns>>

\* ... and applies the answer, to whatever the mode is by then: only an error
\* asks again whether the generation is its own.
LoopAnswer(p) ==
  /\ loops[p] \in Answers /\ loops' = [loops EXCEPT ![p] = "tick"]
  /\ IF loops[p] = "error"
       THEN /\ guard' = (guard /\ ~(mode = "auto" /\ autoGen = p))
            /\ UNCHANGED <<mode, until, autoGen, idle, failed>>
       ELSE \E started \in Starting : SyncNow(loops[p] = "working", started)
  /\ UNCHANGED <<post, timers, working, turns>>

\* An events socket relays a status event and syncs with that agent's status
\* alone: resting, though another may work.
EventSync ==
  /\ mode = "auto"
  /\ \E busy \in {FALSE, working}, started \in Starting : SyncNow(busy, started)
  /\ UNCHANGED <<post, timers, loops, working, turns>>

\* The cool-down passes, and agents start and stop to work.
CooldownPasses ==
  /\ idle = "since" /\ idle' = "over"
  /\ UNCHANGED <<mode, until, guard, autoGen, post, timers, loops, working, turns, failed>>
WorkTurn ==
  /\ turns < WorkTurns /\ turns' = turns + 1 /\ working' = ~working
  /\ UNCHANGED <<selection, post, timers, loops, failed>>
-----------------------------------------------------------------------------
LoopStep(p) == LoopTick(p) \/ LoopAnswer(p)

NoSleepNext ==
  \/ EventSync \/ CooldownPasses \/ WorkTurn
  \/ \E p \in NoSleepPosts : \/ ProbeAgents(p) \/ SelectAuto(p) \/ SelectMode(p)
                             \/ TimerEnds(p) \/ LoopStep(p)

\* The runtime polls the loops' interval and their blocking requests.
NoSleepFairness == \A p \in NoSleepPosts : WF_noSleepVars(LoopStep(p))
NoSleepSpec == NoSleepInit /\ [][NoSleepNext]_noSleepVars /\ NoSleepFairness
-----------------------------------------------------------------------------
\* The timer of the selected mode ends in this step.
Expired == mode = "timed" /\ autoGen \in timers /\ autoGen \notin timers'

(***************************************************************************)
(* A mode that a browser selected for a time or for good is ended by that  *)
(* request's own timer or by a later request and by nothing else: not by   *)
(* the timer of an earlier one, nor by an auto loop that is still asking   *)
(* (the until_ms and generation tests of update_no_sleep).                 *)
(***************************************************************************)
OnlyItsOwnEnd ==
  [][\/ mode \notin {"timed", "infinite"}
     \/ UNCHANGED <<mode, guard, until>>
     \/ autoGen' # autoGen \/ Expired]_noSleepVars

(***************************************************************************)
(* If auto mode stays on and agents keep working, the machine is in the    *)
(* end kept awake for good: whatever earlier modes, loops and failures     *)
(* there were, a loop of the last generation still asks                    *)
(* (run_auto_no_sleep_loop).                                               *)
(***************************************************************************)
AutoKeepsAwake == <>[](mode = "auto" /\ working) => <>[]guard
=============================================================================
