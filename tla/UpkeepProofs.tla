----------------------------- MODULE UpkeepProofs -----------------------------
(***************************************************************************)
(* The components that MCUpkeep composes, for every number of requests,    *)
(* ports, lanes, panes and changes: their types, that a no-sleep mode is   *)
(* ended by its own timer or a later request, and that the screen is of    *)
(* one socket.                                                             *)
(***************************************************************************)
EXTENDS MCUpkeep, FiniteSetTheorems, SequenceTheorems, TLAPS

-----------------------------------------------------------------------------
(***************************************************************************)
(* NoSleep: a no-sleep mode that a browser selected for a time or for good *)
(* is ended by its own timer or by a later request.                        *)
(***************************************************************************)

\* Whose deadline it is: a timed mode has its own request's, the others have
\* none; and the generation is of a request that is done.
Deadlines ==
  /\ mode = "timed" => until = autoGen
  /\ mode # "timed" => until = NoPost
  /\ autoGen # NoPost => post[autoGen] = "done"

NoSleepInv == NoSleepTypeOK /\ Deadlines
-----------------------------------------------------------------------------
\* What sync_auto_no_sleep makes of a state: nothing unless the mode is auto,
\* and then it stays so or is off, without a deadline either way.
Selections == [mode : {"off", "auto", "timed", "infinite"}, until : NoSleepPosts \cup {NoPost},
               guard : BOOLEAN, gen : NoSleepPosts \cup {NoPost}, idle : {"none", "since", "over"}]

LEMMA SyncType ==
  ASSUME NEW st \in Selections, NEW busy \in BOOLEAN, NEW started \in BOOLEAN
  PROVE  /\ Sync(st, busy, started) \in Selections
         /\ Sync(st, busy, started).gen = st.gen
         /\ st.mode # "auto" => Sync(st, busy, started) = st
         /\ st.mode = "auto" => /\ Sync(st, busy, started).mode \in {"auto", "off"}
                                /\ Sync(st, busy, started).until \in {st.until, NoPost}
BY DEF Sync, Selections

LEMMA AppliedType ==
  ASSUME NEW p \in NoSleepPosts, NEW m \in {"off", "auto", "timed", "infinite"}, NEW started \in BOOLEAN
  PROVE  /\ Applied(p, m, started) \in Selections
         /\ Applied(p, m, started).gen = p
         /\ Applied(p, m, started).mode \in {m, "off"}
         /\ Applied(p, m, started).until =
              IF Applied(p, m, started).mode = "timed" THEN p ELSE NoPost
BY DEF Applied, Selections

LEMMA SelectionType == NoSleepTypeOK => Selection \in Selections
BY DEF NoSleepTypeOK, Selection, Selections

LEMMA AnswersType ==
  ASSUME NoSleepTypeOK
  PROVE  /\ Starting \subseteq BOOLEAN /\ ListAnswers \subseteq Answers
         /\ \A a \in ListAnswers : failed + (IF a = "error" THEN 1 ELSE 0) \in 0..NoSleepFails
         /\ \A s \in Starting : failed + (IF ~s THEN 1 ELSE 0) \in 0..NoSleepFails
<1>1. NoSleepFails \in Nat /\ failed \in 0..NoSleepFails
  BY NoSleepAssumption DEF NoSleepTypeOK
<1>2. Starting \subseteq BOOLEAN /\ ListAnswers \subseteq Answers
  BY DEF Starting, ListAnswers, Answers
<1>3. \A a \in ListAnswers : a = "error" => failed < NoSleepFails
  BY DEF ListAnswers
<1>4. \A s \in Starting : ~s => failed < NoSleepFails
  BY DEF Starting
<1> QED BY <1>1, <1>2, <1>3, <1>4

LEMMA SyncNowKeeps ==
  ASSUME NoSleepInv, NEW busy \in BOOLEAN, NEW started \in Starting, SyncNow(busy, started),
         post' = post
  PROVE  /\ mode' \in {"off", "auto", "timed", "infinite"} /\ guard' \in BOOLEAN
         /\ until' \in NoSleepPosts \cup {NoPost} /\ autoGen' = autoGen
         /\ idle' \in {"none", "since", "over"} /\ failed' \in 0..NoSleepFails
         /\ Deadlines'
         /\ mode # "auto" => UNCHANGED <<mode, until, guard>>
<1> DEFINE s == Sync(Selection, busy, started)
<1>1. started \in BOOLEAN /\ failed + (IF ~started THEN 1 ELSE 0) \in 0..NoSleepFails
  BY AnswersType DEF NoSleepInv
<1>2. Selection \in Selections /\ Selection.mode = mode /\ Selection.gen = autoGen
      /\ Selection.until = until /\ Selection.guard = guard
  BY SelectionType DEF NoSleepInv, Selection
<1>3. /\ s \in Selections /\ s.gen = autoGen
      /\ mode # "auto" => s = Selection
      /\ mode = "auto" => s.mode \in {"auto", "off"} /\ s.until \in {until, NoPost}
  BY <1>1, <1>2, SyncType
<1> HIDE DEF s
<1>4. /\ mode' = s.mode /\ until' = s.until /\ guard' = s.guard /\ autoGen' = s.gen /\ idle' = s.idle
  BY DEF SyncNow, Becomes, s
<1>5. failed' \in 0..NoSleepFails
  BY <1>1 DEF SyncNow, CountFailure, NoSleepInv, NoSleepTypeOK
<1> QED BY <1>2, <1>3, <1>4, <1>5 DEF NoSleepInv, Deadlines, Selections
-----------------------------------------------------------------------------
LEMMA SelectKeeps ==
  ASSUME NoSleepInv, NEW p \in NoSleepPosts, SelectAuto(p) \/ SelectMode(p)
  PROVE  NoSleepInv' /\ autoGen' = p /\ autoGen # p
<1> USE NoSleepAssumption DEF NoSleepInv
<1>1. autoGen # p
  BY DEF NoSleepTypeOK, Deadlines, SelectAuto, SelectMode, Answers
<1>2. CASE SelectAuto(p)
  <2>1. PICK started \in Starting :
          LET fresh == Applied(p, "auto", started) IN
            /\ Becomes(IF post[p] = "error" THEN fresh ELSE Sync(fresh, post[p] = "working", started))
            /\ CountFailure(post[p] = "working" /\ ~started)
    BY <1>2 DEF SelectAuto
  <2> DEFINE fresh == Applied(p, "auto", started)
             s == IF post[p] = "error" THEN fresh ELSE Sync(fresh, post[p] = "working", started)
  <2>2. started \in BOOLEAN /\ failed + (IF ~started THEN 1 ELSE 0) \in 0..NoSleepFails
    BY AnswersType
  <2>3. fresh \in Selections /\ fresh.gen = p /\ fresh.until = NoPost /\ fresh.mode \in {"auto", "off"}
    BY <2>2, AppliedType
  <2>4. /\ s \in Selections /\ s.gen = p
        /\ s.mode \in {"auto", "off"} /\ s.until = NoPost
    <3> HIDE DEF fresh
    <3> DEFINE busy == post[p] = "working"
               synced == Sync(fresh, busy, started)
    <3>1. busy \in BOOLEAN
      OBVIOUS
    <3> HIDE DEF busy
    <3>2. /\ synced \in Selections /\ synced.gen = fresh.gen
          /\ fresh.mode # "auto" => synced = fresh
          /\ fresh.mode = "auto" => synced.mode \in {"auto", "off"} /\ synced.until \in {fresh.until, NoPost}
      BY <2>2, <2>3, <3>1, SyncType
    <3> HIDE DEF synced
    <3>3. s = IF post[p] = "error" THEN fresh ELSE synced
      BY DEF synced, busy
    <3> HIDE DEF s
    <3> QED BY <2>3, <3>2, <3>3
  <2> HIDE DEF s
  <2>5. /\ mode' = s.mode /\ until' = s.until /\ guard' = s.guard /\ autoGen' = s.gen /\ idle' = s.idle
    BY <2>1 DEF Becomes, s
  <2>6. failed' \in 0..NoSleepFails
    BY <2>1, <2>2 DEF CountFailure, NoSleepTypeOK
  <2>7. /\ post' = [post EXCEPT ![p] = "done"] /\ loops' = [loops EXCEPT ![p] = "tick"]
        /\ UNCHANGED <<timers, working, turns>>
    BY <1>2 DEF SelectAuto
  <2>8. NoSleepTypeOK'
    BY <2>4, <2>5, <2>6, <2>7 DEF NoSleepTypeOK, Selections
  <2>9. Deadlines' /\ autoGen' = p
    BY <2>4, <2>5, <2>7 DEF Deadlines, NoSleepTypeOK
  <2> QED BY <1>1, <2>8, <2>9
<1>3. CASE SelectMode(p)
  <2>1. PICK m \in {"off", "timed", "infinite"}, started \in Starting :
          /\ Becomes(Applied(p, m, started)) /\ CountFailure(m # "off" /\ ~started)
          /\ timers' = IF m = "timed" /\ started THEN timers \cup {p} ELSE timers
    BY <1>3 DEF SelectMode
  <2> DEFINE s == Applied(p, m, started)
  <2>2. started \in BOOLEAN /\ failed + (IF ~started THEN 1 ELSE 0) \in 0..NoSleepFails
    BY AnswersType
  <2>3. /\ s \in Selections /\ s.gen = p
        /\ s.until = IF s.mode = "timed" THEN p ELSE NoPost
    BY <2>2, AppliedType
  <2> HIDE DEF s
  <2>4. /\ mode' = s.mode /\ until' = s.until /\ guard' = s.guard /\ autoGen' = s.gen /\ idle' = s.idle
    BY <2>1 DEF Becomes, s
  <2>5. failed' \in 0..NoSleepFails
    BY <2>1, <2>2 DEF CountFailure, NoSleepTypeOK
  <2>6. /\ post' = [post EXCEPT ![p] = "done"] /\ timers' \subseteq NoSleepPosts
        /\ UNCHANGED <<loops, working, turns>>
    BY <1>3, <2>1 DEF SelectMode, NoSleepTypeOK
  <2>7. NoSleepTypeOK'
    BY <2>3, <2>4, <2>5, <2>6 DEF NoSleepTypeOK, Selections
  <2>8. Deadlines' /\ autoGen' = p
    BY <2>3, <2>4, <2>6 DEF Deadlines, NoSleepTypeOK
  <2> QED BY <1>1, <2>7, <2>8
<1> QED BY <1>2, <1>3

\* The steps of the auto loops and of the event sockets.
LEMMA LoopStepKeeps ==
  ASSUME NoSleepInv, EventSync \/ \E p \in NoSleepPosts : LoopStep(p)
  PROVE  NoSleepInv' /\ (mode # "auto" => UNCHANGED <<mode, guard, until>>)
<1> USE DEF NoSleepInv
<1>1. CASE EventSync
  <2>1. PICK busy \in {FALSE, working}, started \in Starting : SyncNow(busy, started)
    BY <1>1 DEF EventSync
  <2>2. busy \in BOOLEAN /\ UNCHANGED <<post, timers, loops, working, turns>>
    BY <1>1 DEF EventSync, NoSleepTypeOK
  <2> QED BY <2>1, <2>2, SyncNowKeeps DEF NoSleepTypeOK
<1>2. ASSUME NEW p \in NoSleepPosts, LoopTick(p)
      PROVE  NoSleepInv' /\ UNCHANGED <<mode, guard, until>>
  <2>1. failed' \in 0..NoSleepFails /\ loops' \in [NoSleepPosts -> {"gone", "tick"} \cup Answers]
    BY <1>2, AnswersType DEF LoopTick, CountFailure, NoSleepTypeOK
  <2>2. UNCHANGED <<selection, post, timers, working, turns>>
    BY <1>2 DEF LoopTick
  <2> QED BY <2>1, <2>2 DEF NoSleepTypeOK, Deadlines, selection
<1>3. ASSUME NEW p \in NoSleepPosts, LoopAnswer(p)
      PROVE  NoSleepInv' /\ (mode # "auto" => UNCHANGED <<mode, guard, until>>)
  <2>1. /\ loops' \in [NoSleepPosts -> {"gone", "tick"} \cup Answers]
        /\ UNCHANGED <<post, timers, working, turns>>
    BY <1>3 DEF LoopAnswer, NoSleepTypeOK
  <2>2. CASE loops[p] = "error"
    <3>1. /\ guard' = (guard /\ ~(mode = "auto" /\ autoGen = p))
          /\ UNCHANGED <<mode, until, autoGen, idle, failed>>
      BY <1>3, <2>2 DEF LoopAnswer
    <3>2. guard' \in BOOLEAN /\ (mode # "auto" => guard' = guard)
      BY <3>1, Zenon DEF NoSleepTypeOK
    <3> QED BY <2>1, <3>1, <3>2 DEF NoSleepTypeOK, Deadlines
  <2>3. CASE loops[p] # "error"
    <3>1. PICK started \in Starting : SyncNow(loops[p] = "working", started)
      BY <1>3, <2>3 DEF LoopAnswer
    <3>2. (loops[p] = "working") \in BOOLEAN
      OBVIOUS
    <3> QED BY <2>1, <3>1, <3>2, SyncNowKeeps DEF NoSleepTypeOK
  <2> QED BY <2>2, <2>3
<1> QED BY <1>1, <1>2, <1>3 DEF LoopStep

\* A timer ends the mode it is the timer of, and no other.
LEMMA TimerKeeps ==
  ASSUME NoSleepInv, NEW p \in NoSleepPosts, TimerEnds(p)
  PROVE  NoSleepInv' /\ (mode \in {"timed", "infinite"} => UNCHANGED <<mode, guard, until>> \/ Expired)
<1> USE NoSleepAssumption DEF NoSleepInv
<1>1. NoSleepTypeOK'
  BY DEF NoSleepTypeOK, TimerEnds
<1>2. Deadlines'
  BY DEF NoSleepTypeOK, TimerEnds, Deadlines
<1>3. ASSUME mode \in {"timed", "infinite"} PROVE UNCHANGED <<mode, guard, until>> \/ Expired
  BY <1>3 DEF NoSleepTypeOK, TimerEnds, Deadlines, Expired
<1> QED BY <1>1, <1>2, <1>3

LEMMA OthersKeep ==
  ASSUME NoSleepInv,
         \/ CooldownPasses \/ WorkTurn \/ UNCHANGED noSleepVars
         \/ \E p \in NoSleepPosts : ProbeAgents(p)
  PROVE  NoSleepInv' /\ UNCHANGED <<mode, guard, until>>
<1> USE DEF NoSleepInv
<1>1. CASE CooldownPasses \/ UNCHANGED noSleepVars
  BY <1>1 DEF CooldownPasses, noSleepVars, NoSleepTypeOK, Deadlines
<1>2. CASE WorkTurn
  <2>1. working' \in BOOLEAN /\ turns' \in 0..WorkTurns
    BY <1>2, NoSleepAssumption DEF WorkTurn, NoSleepTypeOK
  <2> QED BY <1>2, <2>1 DEF WorkTurn, NoSleepTypeOK, Deadlines, selection
<1>3. ASSUME NEW p \in NoSleepPosts, ProbeAgents(p)
      PROVE  NoSleepInv' /\ UNCHANGED <<mode, guard, until>>
  <2>1. PICK a \in ListAnswers : post' = [post EXCEPT ![p] = a] /\ CountFailure(a = "error")
    BY <1>3 DEF ProbeAgents
  <2>2. a \in Answers /\ failed' \in 0..NoSleepFails
    BY <2>1, AnswersType DEF CountFailure
  <2>3. post[p] = "new" /\ UNCHANGED <<selection, timers, loops, working, turns>>
    BY <1>3 DEF ProbeAgents
  <2>4. Deadlines'
    BY <2>1, <2>3 DEF Deadlines, NoSleepTypeOK, selection
  <2>5. NoSleepTypeOK'
    BY <2>1, <2>2, <2>3 DEF NoSleepTypeOK, selection
  <2> QED BY <2>3, <2>4, <2>5 DEF selection
<1> QED BY <1>1, <1>2, <1>3
-----------------------------------------------------------------------------
LEMMA NoSleepStep ==
  ASSUME NoSleepInv, [NoSleepNext]_noSleepVars
  PROVE  /\ NoSleepInv'
         /\ \/ mode \notin {"timed", "infinite"}
            \/ UNCHANGED <<mode, guard, until>>
            \/ autoGen' # autoGen \/ Expired
BY SelectKeeps, LoopStepKeeps, TimerKeeps, OthersKeep DEF NoSleepNext

LEMMA NoSleepInvInit == NoSleepInit => NoSleepInv
<1> SUFFICES ASSUME NoSleepInit PROVE NoSleepInv
  OBVIOUS
<1>1. turns \in 0..WorkTurns /\ failed \in 0..NoSleepFails
  BY NoSleepAssumption DEF NoSleepInit
<1>2. NoSleepTypeOK
  BY <1>1 DEF NoSleepInit, NoSleepTypeOK
<1>3. Deadlines
  BY DEF NoSleepInit, Deadlines
<1> QED BY <1>2, <1>3 DEF NoSleepInv

LEMMA NoSleepInvInductive == NoSleepSpec => []NoSleepInv
BY NoSleepInvInit, NoSleepStep, PTL DEF NoSleepSpec

(***************************************************************************)
(* The guard's state is well typed: in particular every failure counts     *)
(* within its bound, and a deadline or a generation is some request's.     *)
(***************************************************************************)
THEOREM NoSleepTypeCorrect == NoSleepSpec => []NoSleepTypeOK
BY NoSleepInvInductive, PTL DEF NoSleepInv

(***************************************************************************)
(* A timed or an endless mode is ended by its own timer or by a later      *)
(* request only, however many timers and auto loops of earlier requests    *)
(* are still about (update_no_sleep, run_auto_no_sleep_loop).              *)
(***************************************************************************)
THEOREM ModeEndsByItsOwn == NoSleepSpec => OnlyItsOwnEnd
<1>1. NoSleepInv /\ [NoSleepNext]_noSleepVars =>
        [\/ mode \notin {"timed", "infinite"}
         \/ UNCHANGED <<mode, guard, until>>
         \/ autoGen' # autoGen \/ Expired]_noSleepVars
  BY NoSleepStep
<1> QED BY <1>1, NoSleepInvInductive, PTL DEF NoSleepSpec, OnlyItsOwnEnd

-----------------------------------------------------------------------------
(***************************************************************************)
(* ServerSettings: the settings are those of one request, and no port is   *)
(* held twice.                                                             *)
(***************************************************************************)

\* The requests that are over; a rebind is sent by one that ends.
Over == {s \in SettingSaves : saving[s].at = "done"}

SettingsInv == SettingsTypeOK /\ sent.version <= Cardinality(Over)

LEMMA SettingsBounds ==
  /\ FirstPort \in Ports /\ Ports \subseteq Nat /\ MaxRequests \in Nat
  /\ IsFiniteSet(SettingSaves) /\ Cardinality(SettingSaves) \in Nat
BY SettingsAssumption, FS_CardinalityType DEF Ports

\* There are no more of those requests than of all of them.
LEMMA OverBounded ==
  ASSUME NEW S \in SUBSET SettingSaves
  PROVE  IsFiniteSet(S) /\ Cardinality(S) \in Nat /\ Cardinality(S) <= Cardinality(SettingSaves)
BY SettingsBounds, FS_Subset, FS_CardinalityType

LEMMA OverGrows ==
  ASSUME NEW S \in SUBSET SettingSaves, NEW s \in SettingSaves \ S
  PROVE  Cardinality(S \cup {s}) = Cardinality(S) + 1
BY OverBounded, FS_AddElement

\* The port after that of an endpoint, or the last one.
LEMMA HttpsPortType == ASSUME NEW e \in Endpoints PROVE HttpsPort(e) \in Ports
<1>1. e.port \in FirstPort..LastPort
  BY DEF Endpoints, Ports
<1>2. FirstPort \in Nat /\ LastPort \in Nat
  BY SettingsAssumption
<1> QED BY <1>1, <1>2 DEF HttpsPort, Ports

LEMMA SettingsInvInit == SettingsInit => SettingsInv
<1> SUFFICES ASSUME SettingsInit PROVE SettingsInv
  OBVIOUS
<1>1. PICK e \in Endpoints :
         /\ live = [endpoint |-> e, recent |-> {}] /\ sent = [value |-> e, version |-> 0]
         /\ loop = [at |-> "top", for |-> e, seen |-> 0]
  BY DEF SettingsInit
<1>2. live \in Settings /\ onDisk \in Settings
  BY <1>1 DEF Settings, SettingsInit
<1>3. saving \in [SettingSaves -> SettingSave] /\ editing \in [RecentEdits -> RecentEdit]
  BY DEF SettingsInit, SettingSave, RecentEdit
<1>4. sent.version = 0 /\ sent \in [value : Endpoints, version : 0 .. Cardinality(SettingSaves)]
  BY <1>1, SettingsBounds
<1>5. loop \in [at : {"top", "primary", "https", "serving", "exited"}, for : Endpoints, seen : 0 .. sent.version]
  BY <1>1, <1>4
<1>6. Cardinality(Over) \in Nat
  BY OverBounded DEF Over
<1> QED BY <1>2, <1>3, <1>4, <1>5, <1>6 DEF SettingsInit, SettingsInv, SettingsTypeOK

-----------------------------------------------------------------------------
\* What a step of a request leaves alone: the loop, its listeners, the ports.
LEMMA SettingsSaved ==
  ASSUME SettingsInv, NEW s \in SettingSaves, NEW t \in SettingSave, saving' = [saving EXCEPT ![s] = t],
         saving[s].at # "done", {live', onDisk'} \subseteq Settings, UNCHANGED <<editing, loop, listeners, others>>,
         sent' \in [value : Endpoints, version : Nat],
         sent' = sent \/ (t.at = "done" /\ sent'.version = sent.version + 1)
  PROVE  SettingsInv'
<1>1. saving \in [SettingSaves -> SettingSave] /\ saving' \in [SettingSaves -> SettingSave]
  BY DEF SettingsInv, SettingsTypeOK
<1>2. sent.version \in Nat /\ sent.version <= Cardinality(Over)
  BY SettingsBounds DEF SettingsInv, SettingsTypeOK
<1>3. Over \in SUBSET SettingSaves /\ Over' \in SUBSET SettingSaves /\ s \notin Over
  BY DEF Over
<1>4. Over' = (IF t.at = "done" THEN Over \cup {s} ELSE Over)
  BY <1>1 DEF Over
<1>5. sent.version <= sent'.version /\ sent'.version <= Cardinality(Over')
  <2>1. Cardinality(Over) \in Nat /\ Cardinality(Over \cup {s}) = Cardinality(Over) + 1
    BY <1>3, OverBounded, OverGrows
  <2> QED BY <1>2, <1>4, <2>1
<1>6. Cardinality(Over') \in Nat /\ Cardinality(Over') <= Cardinality(SettingSaves)
  BY <1>3, OverBounded
<1>7. sent'.version \in 0..Cardinality(SettingSaves)
  BY <1>5, <1>6, SettingsBounds
<1>8. sent' \in [value : Endpoints, version : 0 .. Cardinality(SettingSaves)]
  BY <1>7
<1>9. loop' \in [at : {"top", "primary", "https", "serving", "exited"}, for : Endpoints, seen : 0 .. sent'.version]
  BY <1>2, <1>5 DEF SettingsInv, SettingsTypeOK
<1> QED BY <1>1, <1>5, <1>8, <1>9 DEF SettingsInv, SettingsTypeOK

LEMMA RequestStepTyped == ASSUME SettingsInv, NEW s \in SettingSaves, RequestStep(s) PROVE SettingsInv'
<1>1. /\ saving \in [SettingSaves -> SettingSave] /\ live \in Settings /\ onDisk \in Settings
      /\ sent \in [value : Endpoints, version : Nat]
  BY SettingsBounds DEF SettingsInv, SettingsTypeOK
<1>2. CASE MergeSettings(s)
  <2>1. PICK e \in Endpoints :
           saving' = [saving EXCEPT ![s] = [at |-> "merged", read |-> live, next |-> [live EXCEPT !.endpoint = e]]]
    BY <1>2 DEF MergeSettings
  <2>2. PICK n : n = [live EXCEPT !.endpoint = e]
    OBVIOUS
  <2>3. n \in Settings
    BY <1>1, <2>2 DEF Settings
  <2>4. PICK t : t = [at |-> "merged", read |-> live, next |-> n]
    OBVIOUS
  <2>5. t \in SettingSave
    BY <1>1, <2>3, <2>4 DEF SettingSave
  <2>6. saving' = [saving EXCEPT ![s] = t]
    BY <2>1, <2>2, <2>4, Zenon
  <2> QED BY <1>1, <1>2, <2>5, <2>6, SettingsSaved DEF MergeSettings
<1>3. ASSUME saving[s].at # "new", saving[s].at # "done"
      PROVE  /\ {saving[s].read, saving[s].next} \subseteq Settings
             /\ \A a \in {"saved", "stored", "done"} :
                  \E t \in SettingSave : t = [saving[s] EXCEPT !.at = a] /\ t.at = a
  <2>1. PICK o \in SettingSave : o = saving[s]
    BY <1>1
  <2>2. o \in [at : {"merged", "saved", "stored", "done"}, read : Settings, next : Settings]
    BY <1>3, <2>1 DEF SettingSave
  <2>3. ASSUME NEW a \in {"saved", "stored", "done"}, NEW t, t = [o EXCEPT !.at = a]
        PROVE  t \in SettingSave /\ t.at = a
    BY <2>2, <2>3 DEF SettingSave
  <2> QED BY <2>1, <2>2, <2>3
<1>4. CASE SaveSettings(s)
  <2>1. saving[s].at = "merged"
    BY <1>4 DEF SaveSettings
  <2>2. PICK a \in {"saved", "done"} : saving' = [saving EXCEPT ![s].at = a]
    BY <1>4 DEF SaveSettings
  <2>3. PICK t \in SettingSave : t = [saving[s] EXCEPT !.at = a] /\ t.at = a
    BY <1>3, <2>1
  <2>4. saving' = [saving EXCEPT ![s] = t]
    BY <2>2, <2>3
  <2>5. onDisk' \in Settings
    BY <1>1, <1>3, <1>4, <2>1 DEF SaveSettings
  <2> QED BY <1>1, <1>4, <2>1, <2>4, <2>5, SettingsSaved DEF SaveSettings
<1>5. CASE StoreSettings(s)
  <2>1. saving[s].at = "saved"
    BY <1>5 DEF StoreSettings
  <2>3. PICK t \in SettingSave : t = [saving[s] EXCEPT !.at = "stored"]
    BY <1>3, <2>1
  <2>4. saving' = [saving EXCEPT ![s] = t]
    BY <1>5, <2>3 DEF StoreSettings
  <2>5. live' \in Settings
    BY <1>1, <1>3, <1>5, <2>1 DEF StoreSettings
  <2> QED BY <1>1, <1>5, <2>1, <2>4, <2>5, SettingsSaved DEF StoreSettings
<1>6. CASE SendRebind(s)
  <2>1. saving[s].at = "stored"
    BY <1>6 DEF SendRebind
  <2>2. PICK t \in SettingSave : t = [saving[s] EXCEPT !.at = "done"] /\ t.at = "done"
    BY <1>3, <2>1
  <2>3. saving' = [saving EXCEPT ![s] = t]
    BY <1>6, <2>2 DEF SendRebind
  <2>4. saving[s].next.endpoint \in Endpoints
    BY <1>3, <2>1 DEF Settings
  <2>5. sent' \in [value : Endpoints, version : Nat] /\ (sent' = sent \/ sent'.version = sent.version + 1)
    BY <1>1, <1>6, <2>4 DEF SendRebind
  <2> QED BY <1>1, <1>6, <2>1, <2>2, <2>3, <2>5, SettingsSaved DEF SendRebind
<1> QED BY <1>2, <1>4, <1>5, <1>6 DEF RequestStep

LEMMA EditStepTyped == ASSUME SettingsInv, NEW r \in RecentEdits, EditStep(r) PROVE SettingsInv'
<1>1. editing \in [RecentEdits -> RecentEdit] /\ live \in Settings /\ onDisk \in Settings
  BY DEF SettingsInv, SettingsTypeOK
<1>2. UNCHANGED <<saving, sent, loop, listeners, others>>
  BY DEF EditStep, EditRecent, CopySettings, SaveCopy
<1>3. live' \in Settings
  <2>1. CASE EditRecent(r)
    <3>1. PICK list \in Recorded \cup Removed \cup Cleared \cup Pruned : live' = [live EXCEPT !.recent = list]
      BY <2>1 DEF EditRecent
    <3>2. live.recent \in SUBSET Folders
      BY <1>1 DEF Settings
    <3>3. list \in SUBSET Folders
      BY <3>1, <3>2 DEF Recorded, Removed, Cleared, Pruned
    <3> QED BY <1>1, <3>1, <3>3 DEF Settings
  <2> QED BY <1>1, <2>1 DEF EditStep, CopySettings, SaveCopy
<1>4. onDisk' \in Settings
  <2>1. ASSUME editing[r].at = "copied" PROVE editing[r].copy \in Settings
    BY <1>1, <2>1 DEF RecentEdit
  <2> QED BY <1>1, <2>1 DEF EditStep, EditRecent, CopySettings, SaveCopy
<1>5. editing' \in [RecentEdits -> RecentEdit]
  <2>1. \A t \in {[at |-> "edited"], [at |-> "copied", copy |-> live], [at |-> "done"]} : t \in RecentEdit
    BY <1>1 DEF RecentEdit
  <2>2. \E t \in {[at |-> "edited"], [at |-> "copied", copy |-> live], [at |-> "done"]} :
           editing' = [editing EXCEPT ![r] = t]
    BY DEF EditStep, EditRecent, CopySettings, SaveCopy
  <2> QED BY <1>1, <2>1, <2>2
<1>6. Over' = Over
  BY <1>2 DEF Over
<1> QED BY <1>2, <1>3, <1>4, <1>5, <1>6 DEF SettingsInv, SettingsTypeOK

-----------------------------------------------------------------------------
\* A step of the loop, a listener or another program.
LEMMA LoopKeeps ==
  ASSUME SettingsInv, UNCHANGED requestVars,
         loop' \in [at : {"top", "primary", "https", "serving", "exited"}, for : Endpoints, seen : 0 .. sent.version],
         listeners' \subseteq Listeners, others' \subseteq Ports,
         \A a, b \in listeners' : a # b => a.port # b.port,
         {a.port : a \in listeners'} \cap others' = {}
  PROVE  SettingsInv'
<1>1. Over' = Over
  BY DEF requestVars, Over
<1> QED BY <1>1 DEF SettingsInv, SettingsTypeOK, requestVars

LEMMA BindKeeps ==
  ASSUME SettingsInv, NEW port \in Ports, NEW kind \in Kinds, Bind(port, kind)
  PROVE  /\ listeners' \subseteq Listeners /\ \A a, b \in listeners' : a # b => a.port # b.port
         /\ {a.port : a \in listeners'} \cap others = {}
<1>1. PICK l : l = [port |-> port, kind |-> kind, seen |-> loop.seen]
  OBVIOUS
<1>2. loop.seen \in Nat
  BY SettingsBounds DEF SettingsInv, SettingsTypeOK
<1>3. l \in Listeners /\ l.port = port
  BY <1>1, <1>2 DEF Listeners
<1>4. CASE Taken(port)
  BY <1>4 DEF Bind, SettingsInv, SettingsTypeOK
<1>5. CASE ~Taken(port)
  <2>1. listeners' = listeners \cup {l} /\ port \notin others /\ \A k \in listeners : k.port # port
    BY <1>1, <1>5 DEF Bind, Taken
  <2> QED BY <1>3, <2>1 DEF SettingsInv, SettingsTypeOK
<1> QED BY <1>4, <1>5

LEMMA ServeStepTyped == ASSUME SettingsInv, ServeStep \/ Terminate PROVE SettingsInv'
<1>1. /\ loop \in [at : {"top", "primary", "https", "serving", "exited"}, for : Endpoints, seen : 0 .. sent.version]
      /\ sent.value \in Endpoints /\ sent.version \in Nat /\ others \subseteq Ports
      /\ listeners \subseteq Listeners /\ \A a, b \in listeners : a # b => a.port # b.port
      /\ {a.port : a \in listeners} \cap others = {}
  BY SettingsBounds DEF SettingsInv, SettingsTypeOK
<1>2. loop.for \in Endpoints /\ loop.for.port \in Ports /\ HttpsPort(loop.for) \in Ports
  BY <1>1, HttpsPortType DEF Endpoints
<1>3. ASSUME NEW a \in {"top", "https", "serving", "exited"}, NEW l, l = [loop EXCEPT !.at = a]
      PROVE  l \in [at : {"top", "primary", "https", "serving", "exited"}, for : Endpoints, seen : 0 .. sent.version]
  BY <1>1, <1>3
<1>4. /\ UNCHANGED <<requestVars, others>>
      /\ loop' \in [at : {"top", "primary", "https", "serving", "exited"}, for : Endpoints, seen : 0 .. sent.version]
  <2>1. CASE TakeEndpoint
    BY <1>1, <1>3, <2>1 DEF TakeEndpoint
  <2>2. CASE BindPrimary
    BY <1>3, <2>2 DEF BindPrimary
  <2>3. CASE BindHttps
    BY <1>3, <2>3 DEF BindHttps
  <2>4. CASE Rebuild \/ Terminate
    BY <1>3, <2>4 DEF Rebuild, Terminate
  <2> QED BY <2>1, <2>2, <2>3, <2>4 DEF ServeStep
<1>5. /\ listeners' \subseteq Listeners /\ \A a, b \in listeners' : a # b => a.port # b.port
      /\ {a.port : a \in listeners'} \cap others = {}
  <2>1. CASE BindPrimary
    BY <1>2, <2>1, BindKeeps DEF BindPrimary, Kinds
  <2>2. CASE BindHttps
    BY <1>2, <2>2, BindKeeps DEF BindHttps, Kinds
  <2>3. CASE listeners' \subseteq listeners
    BY <1>1, <2>3
  <2> QED BY <2>1, <2>2, <2>3 DEF ServeStep, TakeEndpoint, Rebuild, Terminate
<1> QED BY <1>1, <1>4, <1>5, LoopKeeps

LEMMA PortStepTyped ==
  ASSUME SettingsInv, OtherProgram \/ \E l \in listeners : ListenerStops(l) \/ ListenerFails(l)
  PROVE  SettingsInv'
<1>1. UNCHANGED <<requestVars, loop>> /\ listeners' \subseteq listeners
  BY DEF OtherProgram, ListenerStops, ListenerFails
<1>2. others' \subseteq Ports /\ {a.port : a \in listeners'} \cap others' = {}
  BY <1>1 DEF OtherProgram, ListenerStops, ListenerFails, Taken, SettingsInv, SettingsTypeOK
<1> QED BY <1>1, <1>2, LoopKeeps DEF SettingsInv, SettingsTypeOK

LEMMA SettingsInvStep == SettingsInv /\ [SettingsNext]_settingsVars => SettingsInv'
<1>1. ASSUME SettingsInv, UNCHANGED settingsVars PROVE SettingsInv'
  BY <1>1 DEF SettingsInv, SettingsTypeOK, settingsVars, Over
<1> QED BY <1>1, RequestStepTyped, EditStepTyped, ServeStepTyped, PortStepTyped DEF SettingsNext

(***************************************************************************)
(* Settings in memory, on the disk and in hand have all their fields, no   *)
(* two listeners hold a port and none holds another program's, and no more *)
(* rebinds are sent than requests have ended (update_server_settings,      *)
(* serve_rebindable), for any number of requests and ports.                *)
(***************************************************************************)
THEOREM SettingsTypeCorrect == SettingsSpec => []SettingsTypeOK
<1>1. SettingsInv => SettingsTypeOK
  BY DEF SettingsInv
<1> QED BY <1>1, SettingsInvInit, SettingsInvStep, PTL DEF SettingsSpec

-----------------------------------------------------------------------------
(***************************************************************************)
(* WorktreeRows: one entry per checkout, and listings of all of them.      *)
(***************************************************************************)

Listed == [Checkouts -> Listings]
Asked  == {"idle", "look", "list", "put", "done"}
Entry  == [cwd : Checkouts, list : Listings, fresh : BOOLEAN]

\* A key is dropped no more often than the repository has changed.
Drops == \A c \in Checkouts : dropping[c] <= gitTurns

RowsInv == RowsTypeOK /\ OneCheckoutEach(heads) /\ cache \subseteq Entry

LEMMA RowsBounds == Main \in Checkouts /\ Main \notin Lanes /\ Gone \notin Branches /\ GitTurns \in Nat
BY WorktreeRowsAssumption DEF Checkouts

LEMMA NothingListed == Nothing \in Listings
BY DEF Nothing, Listings

LEMMA RowsInvInit == RowsInit => RowsInv
<1> SUFFICES ASSUME RowsInit PROVE RowsInv
  OBVIOUS
<1>1. Nothing \in Listings /\ [c \in Checkouts |-> Nothing] \in Listed
  BY NothingListed DEF Listed
<1>2. /\ ask \in [Snapshots -> [Checkouts -> Asked]] /\ got \in [Snapshots -> Listed]
      /\ rows \in [Snapshots -> Listings]
  BY <1>1 DEF RowsInit, Asked
<1>3. dropping \in [Checkouts -> 0..GitTurns] /\ gitTurns \in 0..GitTurns
  BY RowsBounds DEF RowsInit
<1> QED BY <1>2, <1>3 DEF RowsInit, RowsInv, RowsTypeOK, Listed, Asked

LEMMA DropsInit == RowsInit => Drops
BY RowsBounds DEF RowsInit, Drops

-----------------------------------------------------------------------------
\* A page's request moves on at one checkout, with what it got there.
LEMMA SnapshotTyped ==
  ASSUME RowsInv, NEW s \in Snapshots, NEW c \in Checkouts,
         LookUp(s, c) \/ ListRows(s, c) \/ ListFails(s, c) \/ PutRows(s, c)
  PROVE  RowsInv'
<1>1. /\ ask \in [Snapshots -> [Checkouts -> Asked]] /\ got \in [Snapshots -> Listed]
      /\ cache \subseteq Entry /\ heads \in Listings
      /\ \A e, f \in cache : e.cwd = f.cwd => e = f
  BY DEF RowsInv, RowsTypeOK, Asked, Listed
<1>2. PICK a \in Asked : ask' = [ask EXCEPT ![s][c] = a]
  BY DEF LookUp, ListRows, ListFails, PutRows, Asked
<1>3. ask' \in [Snapshots -> [Checkouts -> Asked]]
  <2>1. PICK f \in [Checkouts -> Asked] : f = [ask[s] EXCEPT ![c] = a]
    BY <1>1
  <2> QED BY <1>1, <1>2, <2>1
<1>4. got' = got \/ \E l \in Listings : got' = [got EXCEPT ![s][c] = l]
  <2>1. CASE LookUp(s, c)
    BY <1>1, <2>1 DEF LookUp, Get, Entry
  <2>2. CASE ListRows(s, c)
    BY <1>1, <2>2, NothingListed DEF ListRows, ListFrom
  <2>3. CASE ListFails(s, c)
    BY <2>3, NothingListed DEF ListFails
  <2>4. CASE PutRows(s, c)
    BY <2>4 DEF PutRows
  <2> QED BY <2>1, <2>2, <2>3, <2>4
<1>5. got' \in [Snapshots -> Listed]
  <2>1. ASSUME NEW l \in Listings, got' = [got EXCEPT ![s][c] = l] PROVE got' \in [Snapshots -> Listed]
    <3>1. PICK f \in Listed : f = [got[s] EXCEPT ![c] = l]
      BY <1>1 DEF Listed
    <3> QED BY <1>1, <2>1, <3>1
  <2> QED BY <1>1, <1>4, <2>1
<1>6. cache' \subseteq Entry /\ \A e, f \in cache' : e.cwd = f.cwd => e = f
  <2>1. CASE PutRows(s, c)
    <3>1. got[s][c] \in Listings
      BY <1>1 DEF Listed
    <3>2. PICK e : e = [cwd |-> c, list |-> got[s][c], fresh |-> TRUE]
      OBVIOUS
    <3>3. e \in Entry /\ e.cwd = c
      BY <3>1, <3>2 DEF Entry
    <3>4. cache' = {f \in cache : f.cwd # c} \cup {e}
      BY <2>1, <3>2 DEF PutRows, Put
    <3> QED BY <1>1, <3>3, <3>4
  <2> QED BY <1>1, <2>1 DEF LookUp, ListRows, ListFails
<1>7. UNCHANGED <<heads, rows, dropping, gitTurns>>
  BY DEF LookUp, ListRows, ListFails, PutRows
<1> QED BY <1>3, <1>5, <1>6, <1>7 DEF RowsInv, RowsTypeOK, Asked, Listed, Entry, OneCheckoutEach

LEMMA AskTyped == ASSUME RowsInv, NEW s \in Snapshots, AskRows(s) \/ AnswerRows(s) PROVE RowsInv'
<1>1. ask \in [Snapshots -> [Checkouts -> Asked]] /\ got \in [Snapshots -> Listed] /\ rows \in [Snapshots -> Listings]
  BY DEF RowsInv, RowsTypeOK, Asked, Listed
<1>2. ask' \in [Snapshots -> [Checkouts -> Asked]]
  <2>1. PICK a \in Asked : ask' = [ask EXCEPT ![s] = [c \in Checkouts |-> a]]
    BY DEF AskRows, AnswerRows, Asked
  <2> QED BY <1>1, <2>1
<1>3. got' \in [Snapshots -> Listed]
  BY <1>1, NothingListed DEF AskRows, AnswerRows, Listed
<1>4. rows' \in [Snapshots -> Listings]
  <2>1. Stamps(got[s]) \in Listings
    BY <1>1 DEF Stamps, Listed, Listings
  <2> QED BY <1>1, <2>1 DEF AskRows, AnswerRows
<1>5. UNCHANGED <<heads, cache, dropping, gitTurns>>
  BY DEF AskRows, AnswerRows
<1> QED BY <1>2, <1>3, <1>4, <1>5 DEF RowsInv, RowsTypeOK, Asked, Listed, OneCheckoutEach

LEMMA CacheTyped ==
  ASSUME RowsInv, (\E e \in cache : EntryExpires(e)) \/ \E c \in Checkouts : DropKey(c)
  PROVE  RowsInv'
<1>1. cache \subseteq Entry /\ \A e, f \in cache : e.cwd = f.cwd => e = f
  BY DEF RowsInv, RowsTypeOK
<1>2. CASE \E e \in cache : EntryExpires(e)
  <2>1. PICK e \in cache : EntryExpires(e)
    BY <1>2
  <2>2. PICK o \in Entry : o = e
    BY <1>1
  <2>3. PICK f : f = [o EXCEPT !.fresh = FALSE]
    OBVIOUS
  <2>4. f \in Entry /\ f.cwd = e.cwd
    BY <2>2, <2>3 DEF Entry
  <2>5. cache' = (cache \ {e}) \cup {f}
    BY <2>1, <2>2, <2>3, Zenon DEF EntryExpires
  <2>6. cache' \subseteq Entry /\ \A d, k \in cache' : d.cwd = k.cwd => d = k
    BY <1>1, <2>4, <2>5
  <2> QED BY <2>1, <2>6 DEF RowsInv, RowsTypeOK, EntryExpires, Entry, OneCheckoutEach
<1>3. ASSUME NEW c \in Checkouts, DropKey(c) PROVE RowsInv'
  <2>1. dropping \in [Checkouts -> 0..GitTurns] /\ dropping[c] > 0 /\ dropping' = [dropping EXCEPT ![c] = @ - 1]
    BY <1>3 DEF DropKey, RowsInv, RowsTypeOK
  <2>2. dropping' \in [Checkouts -> 0..GitTurns]
    BY <2>1, RowsBounds
  <2>3. cache' \subseteq cache
    BY <1>3 DEF DropKey, Invalidate
  <2> QED BY <1>1, <1>3, <2>2, <2>3 DEF RowsInv, RowsTypeOK, DropKey, OneCheckoutEach
<1> QED BY <1>2, <1>3

-----------------------------------------------------------------------------
LEMMA GitTyped ==
  ASSUME RowsInv, Drops, NEW h \in Listings, NEW keys, h[Main] # Gone, Git(h, keys)
  PROVE  RowsInv' /\ Drops'
<1>1. dropping \in [Checkouts -> 0..GitTurns] /\ gitTurns \in 0..GitTurns /\ gitTurns < GitTurns
  BY DEF RowsInv, RowsTypeOK, Git
<1>2. gitTurns' = gitTurns + 1 /\ gitTurns' \in 0..GitTurns
  BY <1>1, RowsBounds DEF Git
<1>3. dropping' \in [Checkouts -> 0..GitTurns] /\ Drops'
  <2>1. \A c \in Checkouts : dropping[c] \in Nat /\ dropping[c] + 1 <= gitTurns + 1
    BY <1>1, RowsBounds DEF Drops
  <2>2. dropping' = [c \in Checkouts |-> dropping[c] + (IF c \in keys THEN 1 ELSE 0)]
    BY DEF Git
  <2>3. \A c \in Checkouts : dropping'[c] \in 0..gitTurns'
    BY <1>1, <1>2, <2>1, <2>2, RowsBounds
  <2> QED BY <1>2, <2>2, <2>3, RowsBounds DEF Drops
<1>4. heads' = h /\ OneCheckoutEach(h) /\ UNCHANGED <<cache, ask, got, rows>>
  BY DEF Git
<1> QED BY <1>2, <1>3, <1>4 DEF RowsInv, RowsTypeOK

LEMMA RepositoryTyped ==
  ASSUME RowsInv, Drops, NEW c \in Checkouts,
         \/ \E b \in Branches : SwitchBranch(c, b)
         \/ \E lane \in Lanes, b \in Branches : CreateLane(c, lane, b)
         \/ \E lane \in Lanes : RemoveLane(c, lane)
         \/ \E gone \in SUBSET Lanes : PruneLanes(c, gone)
  PROVE  RowsInv' /\ Drops'
<1>1. heads \in Listings /\ heads[Main] # Gone
  BY DEF RowsInv, RowsTypeOK
<1>2. ASSUME NEW d \in Checkouts, NEW b \in Branches \cup {Gone}, d = Main => b # Gone
      PROVE  [heads EXCEPT ![d] = b] \in Listings /\ [heads EXCEPT ![d] = b][Main] # Gone
  BY <1>1, <1>2, RowsBounds DEF Listings
<1>3. CASE \E b \in Branches : SwitchBranch(c, b)
  BY <1>2, <1>3, GitTyped, RowsBounds DEF SwitchBranch
<1>4. CASE \E lane \in Lanes, b \in Branches : CreateLane(c, lane, b)
  BY <1>2, <1>4, GitTyped, RowsBounds DEF CreateLane, Checkouts
<1>5. CASE \E lane \in Lanes : RemoveLane(c, lane)
  BY <1>2, <1>5, GitTyped, RowsBounds DEF RemoveLane, Checkouts
<1>6. ASSUME NEW gone \in SUBSET Lanes, PruneLanes(c, gone) PROVE RowsInv' /\ Drops'
  <2>1. PICK h : h = [l \in Checkouts |-> IF l \in gone THEN Gone ELSE heads[l]]
    OBVIOUS
  <2>2. h \in Listings /\ h[Main] # Gone
    BY <1>1, <2>1, RowsBounds DEF Listings
  <2>3. Git(h, {c})
    BY <1>6, <2>1 DEF PruneLanes
  <2> QED BY <2>2, <2>3, GitTyped
<1> QED BY <1>3, <1>4, <1>5, <1>6

LEMMA DropsKept ==
  ASSUME RowsInv, Drops, UNCHANGED <<dropping, gitTurns>> \/ \E c \in Checkouts : DropKey(c)
  PROVE  Drops'
<1>1. CASE UNCHANGED <<dropping, gitTurns>>
  BY <1>1 DEF Drops
<1>2. ASSUME NEW c \in Checkouts, DropKey(c) PROVE Drops'
  <2>1. dropping \in [Checkouts -> 0..GitTurns] /\ dropping' = [dropping EXCEPT ![c] = @ - 1] /\ gitTurns' = gitTurns
    BY <1>2 DEF DropKey, RowsInv, RowsTypeOK
  <2>2. \A d \in Checkouts : dropping'[d] <= dropping[d]
    BY <2>1, RowsBounds
  <2>3. gitTurns \in Nat /\ \A d \in Checkouts : dropping[d] \in Nat /\ dropping'[d] \in Int
    BY <2>1, RowsBounds DEF RowsInv, RowsTypeOK
  <2> QED BY <2>1, <2>2, <2>3 DEF Drops
<1> QED BY <1>1, <1>2

LEMMA RowsInvStep == RowsInv /\ Drops /\ [RowsNext]_rowVars => RowsInv' /\ Drops'
<1> SUFFICES ASSUME RowsInv, Drops, [RowsNext]_rowVars PROVE RowsInv' /\ Drops'
  OBVIOUS
<1>1. CASE UNCHANGED rowVars
  BY <1>1 DEF RowsInv, RowsTypeOK, OneCheckoutEach, Drops, rowVars
<1>2. ASSUME NEW s \in Snapshots, AskRows(s) \/ AnswerRows(s) PROVE RowsInv' /\ Drops'
  BY <1>2, AskTyped, DropsKept DEF AskRows, AnswerRows
<1>3. ASSUME NEW s \in Snapshots, NEW c \in Checkouts,
             LookUp(s, c) \/ ListRows(s, c) \/ ListFails(s, c) \/ PutRows(s, c)
      PROVE  RowsInv' /\ Drops'
  BY <1>3, SnapshotTyped, DropsKept DEF LookUp, ListRows, ListFails, PutRows
<1>4. CASE (\E e \in cache : EntryExpires(e)) \/ \E c \in Checkouts : DropKey(c)
  BY <1>4, CacheTyped, DropsKept DEF EntryExpires
<1> QED BY <1>1, <1>2, <1>3, <1>4, RepositoryTyped DEF RowsNext, SnapshotStep

(***************************************************************************)
(* The cache has one entry per checkout, the main checkout always has a    *)
(* branch, and no key is dropped more often than the repository has        *)
(* changed (WorktreeListCache, stamp_workspace_worktrees), for any number  *)
(* of lanes, branches and pages.                                           *)
(***************************************************************************)
THEOREM RowsTypeCorrect == RowsSpec => []RowsTypeOK
<1>1. RowsInv => RowsTypeOK
  BY DEF RowsInv
<1> QED BY <1>1, RowsInvInit, DropsInit, RowsInvStep, PTL DEF RowsSpec

-----------------------------------------------------------------------------
(***************************************************************************)
(* PageTerminal: the screen and the waiting input are of the socket's      *)
(* terminal.                                                               *)
(***************************************************************************)

LEMMA PageBounds ==
  /\ FirstPane \in Panes /\ NoPane \notin Panes /\ PageTurns \in Nat /\ PageFaults \in Nat
  /\ Creations \in Nat \ {0}
BY PageAssumption

\* What of the panel is somebody's output or input.
Held(q) == q.screen \cup {f[2] : f \in {g \in q.queue : g[1] = q.conn}} \cup ({q.input} \ {NoPane})

Explained(q, t) == t = q.ws.term \/ \E o \in q.orphans : o.key = q.ws.key /\ o.term = t

\* A socket is the one of the connected target; a target without a socket has
\* been reset; what is held is explained by the socket and those it replaced.
Neat(q) ==
  /\ q.ws # NoSocket => q.conn = q.ws.key /\ \A t \in Held(q) : Explained(q, t)
  /\ q.ws = NoSocket /\ q.conn # NoKey => Held(q) = {}

Blank(q) == q.screen = {} /\ q.queue = {} /\ q.input = NoPane /\ q.ws = NoSocket /\ q.conn = NoKey

LEMMA SocketsAre ==
  /\ NoKey \in Keys /\ NoSocket \notin Sockets
  /\ \A w \in Sockets \cup {NoSocket} :
       w.key \in Keys /\ w.term \in Panes \cup {NoPane} /\ w.ready \in {"connecting", "open", "closing", "closed"}
  /\ \A w \in Sockets, r \in {"connecting", "open", "closing"} :
       [w EXCEPT !.ready = r] \in Sockets /\ [w EXCEPT !.ready = r].key = w.key
       /\ [w EXCEPT !.ready = r].term = w.term
BY DEF NoKey, Keys, Sockets, NoSocket

LEMMA NoKeyIs == NoKey \in Keys
BY SocketsAre

LEMMA ClearedNeat == ASSUME NEW q, Blank(q) PROVE Neat(q)
BY DEF Blank, Neat

LEMMA PaintedIs ==
  ASSUME NEW q \in Panel, NEW key \in Keys
  PROVE  /\ Painted(q, key) \in Panel
         /\ Painted(q, key).creating = q.creating /\ Painted(q, key).orphans = q.orphans
         /\ Painted(q, key).ws = q.ws /\ Painted(q, key).conn = q.conn
         /\ Painted(q, key).input = q.input
         /\ Painted(q, key).made = q.made
         /\ key = q.conn => Held(Painted(q, key)) \subseteq Held(q)
<1> DEFINE mine == {f \in q.queue : f[1] = key}
<1>1. CASE ~q.made
  BY <1>1 DEF Painted
<1>2. CASE q.made
  <2>1. PICK a : a = q.queue \ mine
    OBVIOUS
  <2>2. PICK b : b = q.screen \cup {f[2] : f \in mine}
    OBVIOUS
  <2>3. Painted(q, key) = [q EXCEPT !.queue = a, !.screen = b]
    BY <1>2, <2>1, <2>2 DEF Painted
  <2>4. a \in SUBSET (Keys \X Panes)
    BY <2>1 DEF Panel
  <2>5. b \in SUBSET Panes
    BY <2>2 DEF Panel
  <2>6. PICK r : r = [q EXCEPT !.queue = a, !.screen = b]
    OBVIOUS
  <2>7. r \in Panel
    BY <2>4, <2>5, <2>6 DEF Panel
  <2>8. /\ r.creating = q.creating /\ r.orphans = q.orphans /\ r.ws = q.ws /\ r.conn = q.conn
        /\ r.input = q.input /\ r.made = q.made /\ r.queue = a /\ r.screen = b
    BY <2>6 DEF Panel
  <2>9. key = q.conn => Held(r) \subseteq Held(q)
    BY <2>1, <2>2, <2>8 DEF Held
  <2> QED BY <2>3, <2>6, <2>7, <2>8, <2>9
<1> QED BY <1>1, <1>2

LEMMA OverlayIs ==
  ASSUME NEW q \in Panel
  PROVE  /\ Loading(q) \in Panel /\ Revealed(q) \in Panel
         /\ Neat(q) => Neat(Loading(q)) /\ Neat(Revealed(q))
         /\ Blank(q) => Blank(Loading(q)) /\ Blank(Revealed(q))
         /\ Loading(q).creating = q.creating /\ Revealed(q).creating = q.creating
<1>1. ASSUME NEW o \in {"hidden", "connecting", "failed"}, NEW r, r = [q EXCEPT !.overlay = o]
      PROVE  /\ r \in Panel /\ r.creating = q.creating
             /\ Neat(q) => Neat(r)
             /\ Blank(q) => Blank(r)
  <2>1. r \in Panel
    BY <1>1 DEF Panel
  <2>2. /\ r.creating = q.creating /\ r.orphans = q.orphans /\ r.ws = q.ws /\ r.conn = q.conn
        /\ r.input = q.input /\ r.queue = q.queue /\ r.screen = q.screen
    BY <1>1 DEF Panel
  <2> QED BY <2>1, <2>2 DEF Neat, Blank, Held, Explained
<1>2. PICK o \in {"hidden", "connecting", "failed"} : Loading(q) = [q EXCEPT !.overlay = o]
  BY DEF Loading, Panel
<1> QED BY <1>1, <1>2 DEF Revealed

LEMMA FlushIs ==
  ASSUME NEW q \in Panel
  PROVE  /\ FlushFrames(q) \in Panel
         /\ FlushFrames(q).creating = q.creating /\ FlushFrames(q).orphans = q.orphans
         /\ FlushFrames(q).ws = q.ws /\ FlushFrames(q).conn = q.conn /\ FlushFrames(q).made = q.made
         /\ Held(FlushFrames(q)) \subseteq Held(q)
<1>1. q.conn \in Keys
  BY DEF Panel
<1>2. PICK r \in Panel : /\ r = Painted(q, q.conn) /\ r.creating = q.creating /\ r.orphans = q.orphans
                         /\ r.ws = q.ws /\ r.conn = q.conn /\ r.made = q.made
                         /\ Held(r) \subseteq Held(q)
  BY <1>1, PaintedIs
<1>3. PICK p : p = [r EXCEPT !.raf = FALSE]
  OBVIOUS
<1>4. /\ p \in Panel /\ p.creating = r.creating /\ p.orphans = r.orphans /\ p.ws = r.ws /\ p.conn = r.conn
      /\ p.made = r.made /\ p.queue = r.queue /\ p.screen = r.screen /\ p.input = r.input
  BY <1>3 DEF Panel
<1>5. PICK u : u = [p EXCEPT !.pending = FALSE, !.reveal = TRUE]
  OBVIOUS
<1>6. /\ u \in Panel /\ u.creating = r.creating /\ u.orphans = r.orphans /\ u.ws = r.ws /\ u.conn = r.conn
      /\ u.made = r.made /\ u.queue = r.queue /\ u.screen = r.screen /\ u.input = r.input
  BY <1>4, <1>5 DEF Panel
<1>7. FlushFrames(q) = p \/ FlushFrames(q) = u
  BY <1>2, <1>3, <1>5 DEF FlushFrames
<1>8. Held(p) = Held(r) /\ Held(u) = Held(r)
  BY <1>4, <1>6 DEF Held
<1> QED BY <1>2, <1>4, <1>6, <1>7, <1>8

LEMMA ResetIs ==
  ASSUME NEW q \in Panel, NEW destroy \in BOOLEAN
  PROVE  Reset(q, destroy) \in Panel /\ Blank(Reset(q, destroy)) /\ Reset(q, destroy).creating = q.creating
<1>1. PICK r \in Panel : r = FlushFrames(q) /\ r.creating = q.creating
  BY FlushIs
<1>2. PICK m \in BOOLEAN : m = (r.made /\ ~destroy)
  OBVIOUS
<1>3. PICK p : p = [r EXCEPT !.dog = FALSE, !.raf = FALSE, !.pending = FALSE, !.screen = {},
                             !.ws = NoSocket, !.attempt = FALSE, !.conn = NoKey, !.made = m]
  OBVIOUS
<1>4. p = ResetKeepingQueues(q, destroy)
  BY <1>1, <1>2, <1>3 DEF ResetKeepingQueues
<1>5. p \in Panel /\ p.creating = q.creating /\ p.screen = {} /\ p.ws = NoSocket /\ p.conn = NoKey
  <2>1. PICK a : a = [r EXCEPT !.dog = FALSE, !.raf = FALSE, !.pending = FALSE, !.screen = {}]
    OBVIOUS
  <2>2. a \in Panel /\ a.creating = r.creating /\ a.screen = {}
    BY <2>1 DEF Panel
  <2>3. PICK b : b = [a EXCEPT !.ws = NoSocket, !.attempt = FALSE]
    OBVIOUS
  <2>4. b \in Panel /\ b.creating = r.creating /\ b.screen = {} /\ b.ws = NoSocket
    BY <2>2, <2>3 DEF Panel
  <2>5. p = [b EXCEPT !.conn = NoKey, !.made = m]
    BY <1>3, <2>1, <2>3
  <2>6. p \in Panel /\ p.creating = r.creating /\ p.screen = {} /\ p.ws = NoSocket /\ p.conn = NoKey
    BY <2>4, <2>5, NoKeyIs DEF Panel
  <2> QED BY <1>1, <2>6
<1>6. PICK u : u = [p EXCEPT !.queue = {}, !.input = NoPane]
  OBVIOUS
<1>7. u = Reset(q, destroy)
  BY <1>4, <1>6 DEF Reset
<1>8. /\ u \in Panel /\ u.creating = q.creating /\ u.screen = {} /\ u.ws = NoSocket /\ u.conn = NoKey
      /\ u.queue = {} /\ u.input = NoPane
  BY <1>5, <1>6 DEF Panel
<1> QED BY <1>7, <1>8 DEF Blank

\* The socket of the connected target, which may replace another of the same.
LEMMA OpenSocketIs ==
  ASSUME NEW q \in Panel, Neat(q), NEW key \in Keys, key = q.conn, key # NoKey,
         NEW term \in Panes \cup {NoPane}
  PROVE  /\ OpenSocket(q, key, term) \in Panel /\ Neat(OpenSocket(q, key, term))
         /\ OpenSocket(q, key, term).creating = q.creating
<1>1. PICK w \in Sockets : w = [key |-> key, term |-> term, ready |-> "connecting", silent |-> FALSE]
  BY DEF Sockets
<1>2. PICK os : os = IF q.ws = NoSocket THEN q.orphans ELSE q.orphans \cup {[q.ws EXCEPT !.ready = "open"]}
  OBVIOUS
<1>3. os \subseteq Sockets
  BY <1>2, SocketsAre, ZenonT(60) DEF Panel
<1>4. PICK b \in BOOLEAN : b = (q.failed = key)
  OBVIOUS
<1>5. PICK p : p = [q EXCEPT !.orphans = os, !.ws = w, !.attempt = b]
  OBVIOUS
<1>6. p = OpenSocketUnwatched(q, key, term)
  BY <1>1, <1>2, <1>4, <1>5 DEF OpenSocketUnwatched
<1>7. /\ p \in Panel /\ p.creating = q.creating /\ p.orphans = os /\ p.ws = w /\ p.conn = q.conn
      /\ p.queue = q.queue /\ p.screen = q.screen /\ p.input = q.input
  BY <1>3, <1>5 DEF Panel
<1>8. PICK u : u = [p EXCEPT !.dog = TRUE]
  OBVIOUS
<1>9. u = OpenSocket(q, key, term)
  BY <1>6, <1>8 DEF OpenSocket
<1>10. /\ u \in Panel /\ u.creating = q.creating /\ u.orphans = os /\ u.ws = w /\ u.conn = key
       /\ u.queue = q.queue /\ u.screen = q.screen /\ u.input = q.input
  BY <1>7, <1>8 DEF Panel
<1>11. Held(u) = Held(q) /\ u.ws.key = key /\ u.ws # NoSocket
  <2>1. w.key = key /\ w # NoSocket
    BY <1>1 DEF NoSocket
  <2> QED BY <1>10, <2>1 DEF Held
<1>12. ASSUME NEW t \in Held(q) PROVE Explained(u, t)
  <2>1. q.ws # NoSocket /\ q.ws.key = key /\ Explained(q, t)
    BY <1>12 DEF Neat
  <2>2. CASE t = q.ws.term
    <3>1. PICK o : o = [q.ws EXCEPT !.ready = "open"]
      OBVIOUS
    <3>2. q.ws \in Sockets
      BY <2>1 DEF Panel
    <3>3. o.key = key /\ o.term = t
      BY <2>1, <2>2, <3>1, <3>2 DEF Sockets
    <3>4. o \in u.orphans
      BY <1>2, <1>10, <2>1, <3>1
    <3> QED BY <1>11, <3>3, <3>4 DEF Explained
  <2>3. CASE \E o \in q.orphans : o.key = q.ws.key /\ o.term = t
    BY <1>2, <1>10, <1>11, <2>1, <2>3 DEF Explained
  <2> QED BY <2>1, <2>2, <2>3 DEF Explained
<1>13. Neat(u)
  BY <1>10, <1>11, <1>12 DEF Neat
<1> QED BY <1>9, <1>10, <1>13

\* connectTerminal keeps a panel neat, whatever the page shows.
LEMMA ConnectIs ==
  ASSUME NEW q \in Panel, Neat(q), NEW g \in Page, NEW changed \in BOOLEAN
  PROVE  Connect(q, g, changed) \in Panel /\ Neat(Connect(q, g, changed))
<1>1. /\ Revealed(q) \in Panel /\ Neat(Revealed(q))
  BY OverlayIs
<1>2. PICK z \in Panel : z = Reset(q, FALSE) /\ Blank(z)
  BY ResetIs
<1>3. Revealed(z) \in Panel /\ Neat(Revealed(z)) /\ Loading(z) \in Panel /\ Blank(Loading(z))
  BY <1>2, ClearedNeat, OverlayIs
<1>4. CASE g.term # NoPane
  <2>1. PICK target \in Keys : target = <<g.pane, g.term>> /\ target # NoKey
    <3>1. g.pane \in Panes \cup {NoPane} /\ g.term \in Panes \cup {NoPane}
      BY DEF Page
    <3>2. PICK a \in Panes \cup {NoPane}, b \in Panes : a = g.pane /\ b = g.term
      BY <1>4, <3>1
    <3>3. <<a, b>> \in Keys
      BY DEF Keys
    <3>4. <<a, b>> # <<NoPane, NoPane>>
      BY PageBounds
    <3> QED BY <3>2, <3>3, <3>4 DEF NoKey
  <2>2. PICK l \in Panel : l = Loading(z) /\ Blank(l)
    BY <1>3
  <2>3. PICK p : p = [l EXCEPT !.conn = target]
    OBVIOUS
  <2>4. p \in Panel /\ Neat(p) /\ p.conn = target
    <3>1. /\ p \in Panel /\ p.conn = target /\ p.ws = NoSocket
          /\ p.screen = {} /\ p.queue = {} /\ p.input = NoPane
      BY <2>1, <2>2, <2>3, ZenonT(60) DEF Blank, Panel
    <3> QED BY <3>1 DEF Neat, Held
  <2>5. OpenSocket(p, target, g.term) \in Panel /\ Neat(OpenSocket(p, target, g.term))
    BY <2>1, <2>4, OpenSocketIs DEF Page
  <2>6. PICK c \in Seq(Keys \ {NoKey}) : c = Append(p.creating, target)
    BY <2>1, <2>4, AppendProperties DEF Panel
  <2>7. PICK u : u = [p EXCEPT !.creating = c]
    OBVIOUS
  <2>8. u \in Panel /\ Neat(u)
    <3>1. /\ u \in Panel /\ u.orphans = p.orphans /\ u.ws = p.ws /\ u.conn = p.conn
          /\ u.queue = p.queue /\ u.screen = p.screen /\ u.input = p.input
      BY <2>4, <2>6, <2>7, ZenonT(60) DEF Panel
    <3>2. Held(u) = Held(p)
      BY <3>1 DEF Held
    <3>3. \A t : Explained(p, t) => Explained(u, t)
      BY <3>1 DEF Explained
    <3> QED BY <2>4, <3>1, <3>2, <3>3 DEF Neat
  <2>9. Connect(q, g, changed) \in {q, Revealed(q), OpenSocket(p, target, g.term), u}
    BY <1>2, <1>4, <2>1, <2>2, <2>3, <2>6, <2>7 DEF Connect
  <2> QED BY <1>1, <2>5, <2>8, <2>9
<1>5. CASE g.term = NoPane
  BY <1>2, <1>3, <1>5 DEF Connect
<1> QED BY <1>4, <1>5
-----------------------------------------------------------------------------
(***************************************************************************)
(* The inductive invariant, and the steps that keep it.                    *)
(***************************************************************************)
PanelInv == PanelTypeOK /\ Neat(panel)

LEMMA PanelInitHolds == PanelInit => PanelInv
<1> SUFFICES ASSUME PanelInit PROVE PanelInv
  OBVIOUS
<1>1. PICK e \in Seq(Keys \ {NoKey}) : e = <<>> /\ Len(e) = 0
  BY EmptySeq
<1>2. page \in Page
  <2>1. 0 \in 0..PageTurns /\ 0 \in 0..PageFaults /\ FirstPane \in Panes
    BY PageBounds
  <2> QED BY <2>1 DEF PanelInit, Page
<1>3. panel \in Panel /\ panel.creating = e
  BY <1>1, NoKeyIs DEF PanelInit, Panel
<1>4. Blank(panel)
  BY DEF PanelInit, Blank
<1> QED BY <1>1, <1>2, <1>3, <1>4, ClearedNeat, PageBounds DEF PanelInv, PanelTypeOK

LEMMA PageSteps ==
  ASSUME page \in Page
  PROVE  /\ Turns => page.turns + 1 \in 0..PageTurns
         /\ Fault => page.faults + 1 \in 0..PageFaults /\ Faulty \in Page
<1>1. Turns => page.turns + 1 \in 0..PageTurns
  BY PageBounds DEF Page, Turns
<1>2. Fault => page.faults + 1 \in 0..PageFaults
  BY PageBounds DEF Page, Fault
<1>3. ASSUME Fault PROVE Faulty \in Page
  <2>1. PICK n \in 0..PageFaults : n = page.faults + 1
    BY <1>2, <1>3
  <2>2. Faulty = [page EXCEPT !.faults = n]
    BY <2>1 DEF Faulty
  <2> QED BY <2>2 DEF Page
<1> QED BY <1>1, <1>2, <1>3

LEMMA PanelIsKept == ASSUME NEW q \in Panel, Neat(q), PanelIs(q), page' \in Page PROVE PanelInv'
BY DEF PanelIs, PanelInv, PanelTypeOK

\* A panel that differs in what the invariant does not speak of.
Alike(q, p) ==
  /\ q.creating = p.creating /\ q.orphans = p.orphans /\ q.ws = p.ws /\ q.conn = p.conn
  /\ q.queue = p.queue /\ q.screen = p.screen /\ q.input = p.input

LEMMA AlikeNeat == ASSUME NEW q, NEW p, Alike(q, p), Neat(p) PROVE Neat(q)
<1>1. Held(q) = Held(p)
  BY DEF Held, Alike
<1>2. \A t : Explained(p, t) => Explained(q, t)
  BY DEF Explained, Alike
<1> QED BY <1>1, <1>2 DEF Neat, Alike

LEMMA AlikeKept ==
  ASSUME PanelInv, panel' \in Panel, Alike(panel', panel), page' \in Page PROVE PanelInv'
BY AlikeNeat DEF PanelInv, PanelTypeOK, Alike

LEMMA KeptByRoutes ==
  ASSUME PanelInv, NEW p \in Panes, Go(p) \/ GoBack(p) \/ PaneCloses(p) \/ HearClosed(p) PROVE PanelInv'
<1>1. page \in Page /\ panel \in Panel /\ Neat(panel)
  BY DEF PanelInv, PanelTypeOK
<1>2. ASSUME Route(p) PROVE page' \in Page
  <2>1. PICK n \in 0..PageTurns : n = page.turns + 1
    BY <1>1, <1>2, PageSteps DEF Route
  <2>2. page' = [page EXCEPT !.turns = n, !.pane = p, !.asked = TRUE, !.layout = FALSE]
    BY <1>2, <2>1 DEF Route
  <2> QED BY <1>1, <2>2 DEF Page
<1>3. CASE Go(p)
  <2>1. PICK z \in Panel : z = Reset(panel, FALSE) /\ Neat(z)
    BY <1>1, ResetIs, ClearedNeat
  <2>2. Loading(z) \in Panel /\ Neat(Loading(z)) /\ PanelIs(Loading(z))
    BY <1>3, <2>1, OverlayIs DEF Go
  <2>3. page' \in Page
    BY <1>2, <1>3 DEF Go
  <2> QED BY <2>2, <2>3, PanelIsKept
<1>4. CASE GoBack(p)
  BY <1>2, <1>4 DEF GoBack, PanelInv, PanelTypeOK
<1>5. CASE PaneCloses(p)
  <2>1. PICK n \in 0..PageTurns : n = page.turns + 1
    BY <1>1, <1>5, PageSteps DEF PaneCloses
  <2>2. PICK a \in SUBSET Panes, c \in SUBSET Panes : a = page.alive \ {p} /\ c = page.closed \cup {p}
    BY <1>1 DEF Page
  <2>3. page' = [page EXCEPT !.turns = n, !.alive = a, !.closed = c]
    BY <1>5, <2>1, <2>2 DEF PaneCloses
  <2>4. page' \in Page
    BY <1>1, <2>3 DEF Page
  <2> QED BY <1>5, <2>4 DEF PaneCloses, PanelInv, PanelTypeOK
<1>6. CASE HearClosed(p)
  <2>1. PICK c \in SUBSET Panes, l \in SUBSET Panes : c = page.closed \ {p} /\ l = page.list \ {p}
    BY <1>1 DEF Page
  <2>2. PICK told : told = [page EXCEPT !.closed = c, !.list = l, !.asked = TRUE]
    OBVIOUS
  <2>3. told \in Page /\ told.list = l
    BY <1>1, <2>2 DEF Page
  <2>4. CASE page' = told /\ UNCHANGED panel
    BY <2>3, <2>4 DEF PanelInv, PanelTypeOK
  <2>5. ASSUME NEW next \in IF told.list = {} THEN {NoPane} ELSE told.list,
               page' = [told EXCEPT !.pane = next, !.term = next],
               PanelIs(Connect(Reset(panel, TRUE), page', FALSE))
        PROVE  PanelInv'
    <3>1. next \in Panes \cup {NoPane}
      BY <2>3
    <3>2. page' \in Page
      BY <2>3, <2>5, <3>1 DEF Page
    <3>3. PICK z \in Panel : z = Reset(panel, TRUE) /\ Neat(z)
      BY <1>1, ResetIs, ClearedNeat
    <3>4. Connect(z, page', FALSE) \in Panel /\ Neat(Connect(z, page', FALSE))
      BY <3>2, <3>3, ConnectIs
    <3> QED BY <2>5, <3>2, <3>3, <3>4, PanelIsKept
  <2> QED BY <1>6, <2>1, <2>2, <2>4, <2>5 DEF HearClosed
<1> QED BY <1>3, <1>4, <1>5, <1>6

LEMMA KeptByUser ==
  ASSUME PanelInv, ResizePage \/ ReconnectNow \/ TypeMuch \/ HidePage \/ ShowPage \/ FlushInput
  PROVE  PanelInv'
<1>1. page \in Page /\ panel \in Panel /\ Neat(panel)
  BY DEF PanelInv, PanelTypeOK
<1>2. ASSUME Turns, NEW h \in BOOLEAN, NEW i \in BOOLEAN, page' = [page EXCEPT !.turns = @ + 1, !.hidden = h, !.hiding = i]
      PROVE  page' \in Page
  <2>1. PICK n \in 0..PageTurns : n = page.turns + 1
    BY <1>1, <1>2, PageSteps
  <2>2. page' = [page EXCEPT !.turns = n, !.hidden = h, !.hiding = i]
    BY <1>2, <2>1
  <2> QED BY <1>1, <2>2 DEF Page
<1>3. ASSUME Turns, page' = [page EXCEPT !.turns = @ + 1] PROVE page' \in Page
  <2>1. PICK n \in 0..PageTurns : n = page.turns + 1
    BY <1>1, <1>3, PageSteps
  <2>2. page' = [page EXCEPT !.turns = n]
    BY <1>3, <2>1
  <2> QED BY <1>1, <2>2 DEF Page
<1>4. CASE ResizePage
  <2>1. page' \in Page
    BY <1>3, <1>4 DEF ResizePage
  <2> QED BY <1>1, <1>4, <2>1, ConnectIs, PanelIsKept DEF ResizePage
<1>5. CASE ReconnectNow
  <2>1. page' \in Page
    BY <1>3, <1>5 DEF ReconnectNow
  <2>2. PICK l \in Panel : l = Loading(panel) /\ Neat(l)
    BY <1>1, OverlayIs
  <2>3. Connect(l, page, FALSE) \in Panel /\ Neat(Connect(l, page, FALSE))
    BY <1>1, <2>2, ConnectIs
  <2> QED BY <1>5, <2>1, <2>2, <2>3, PanelIsKept DEF ReconnectNow
<1>6. CASE TypeMuch
  <2>1. PICK t \in Panes \cup {NoPane} : t = panel.ws.term
    BY <1>1, SocketsAre DEF Panel
  <2>2. panel' = [panel EXCEPT !.input = t] /\ panel.ws # NoSocket /\ page' = page
    BY <1>6, <2>1 DEF TypeMuch, NoSocket
  <2>3. /\ panel' \in Panel /\ panel'.creating = panel.creating /\ panel'.orphans = panel.orphans
        /\ panel'.ws = panel.ws /\ panel'.conn = panel.conn /\ panel'.queue = panel.queue
        /\ panel'.screen = panel.screen /\ panel'.input = t
    BY <1>1, <2>2 DEF Panel
  <2>4. Held(panel') \subseteq Held(panel) \cup {t}
    BY <2>3 DEF Held
  <2>5. \A u \in Held(panel') : Explained(panel', u)
    BY <1>1, <2>1, <2>2, <2>3, <2>4 DEF Neat, Explained
  <2>6. Neat(panel')
    BY <1>1, <2>2, <2>3, <2>5 DEF Neat
  <2> QED BY <1>1, <2>2, <2>3, <2>6 DEF PanelInv, PanelTypeOK
<1>7. CASE FlushInput
  <2>1. panel' = [panel EXCEPT !.input = NoPane] /\ page' = page
    BY <1>7 DEF FlushInput
  <2>2. /\ panel' \in Panel /\ panel'.creating = panel.creating /\ panel'.orphans = panel.orphans
        /\ panel'.ws = panel.ws /\ panel'.conn = panel.conn /\ panel'.queue = panel.queue
        /\ panel'.screen = panel.screen /\ panel'.input = NoPane
    BY <1>1, <2>1 DEF Panel
  <2>3. Held(panel') \subseteq Held(panel)
    BY <2>2 DEF Held
  <2>4. \A u : Explained(panel, u) => Explained(panel', u)
    BY <2>2 DEF Explained
  <2>5. Neat(panel')
    BY <1>1, <2>2, <2>3, <2>4 DEF Neat
  <2> QED BY <1>1, <2>1, <2>2, <2>5 DEF PanelInv, PanelTypeOK
<1>8. CASE HidePage
  BY <1>2, <1>8 DEF HidePage, PanelInv, PanelTypeOK
<1>9. CASE ShowPage
  <2>1. page' \in Page
    BY <1>1, <1>9 DEF ShowPage, Page
  <2> QED BY <1>9, <2>1 DEF ShowPage, PanelInv, PanelTypeOK
<1> QED BY <1>4, <1>5, <1>6, <1>7, <1>8, <1>9

LEMMA KeptByRefresh ==
  ASSUME PanelInv, SnapshotLands \/ LayoutLands PROVE PanelInv'
<1>1. page \in Page /\ panel \in Panel /\ Neat(panel)
  BY DEF PanelInv, PanelTypeOK
<1>2. ASSUME NEW q \in Panel, Neat(q), NEW g \in Page, NEW changed \in BOOLEAN
      PROVE  Shown(q, g, changed) \in Panel /\ Neat(Shown(q, g, changed))
  BY <1>2, ConnectIs, OverlayIs DEF Shown
<1>3. CASE SnapshotLands
  <2>1. PICK p \in IF page.pane \in page.alive THEN {page.pane}
                   ELSE IF page.alive = {} THEN {NoPane} ELSE page.alive,
             cached \in BOOLEAN, changed \in BOOLEAN :
          LET g == [page EXCEPT !.asked = FALSE, !.list = page.alive, !.pane = p, !.term = p,
                                !.layout = ~cached /\ p # NoPane]
              q == IF p = page.pane THEN panel ELSE Reset(panel, TRUE)
          IN page' = g /\ PanelIs(IF g.layout THEN q ELSE Shown(q, g, changed))
    BY <1>3 DEF SnapshotLands
  <2>2. p \in Panes \cup {NoPane}
    BY <1>1, <2>1 DEF Page
  <2>3. PICK b \in BOOLEAN : b = (~cached /\ p # NoPane)
    OBVIOUS
  <2>4. PICK g : g = [page EXCEPT !.asked = FALSE, !.list = page.alive, !.pane = p, !.term = p, !.layout = b]
    OBVIOUS
  <2>5. g \in Page
    BY <1>1, <2>2, <2>4 DEF Page
  <2>6. PICK q \in Panel : q = (IF p = page.pane THEN panel ELSE Reset(panel, TRUE)) /\ Neat(q)
    BY <1>1, ResetIs, ClearedNeat
  <2>7. page' = g /\ PanelIs(IF g.layout THEN q ELSE Shown(q, g, changed))
    BY <2>1, <2>3, <2>4, <2>6
  <2>8. PICK u \in Panel : u = (IF g.layout THEN q ELSE Shown(q, g, changed)) /\ Neat(u)
    BY <1>2, <2>5, <2>6
  <2> QED BY <2>5, <2>7, <2>8, PanelIsKept
<1>4. CASE LayoutLands
  <2>1. page' \in Page
    BY <1>1, <1>4 DEF LayoutLands, Page
  <2>2. PICK changed \in BOOLEAN : PanelIs(Shown(panel, page, changed))
    BY <1>4 DEF LayoutLands
  <2> QED BY <1>1, <1>2, <2>1, <2>2, PanelIsKept
<1> QED BY <1>3, <1>4

\* The socket changes its state, not its target or its terminal.
LEMMA SocketMoves ==
  ASSUME NEW q \in Panel, Neat(q), q.ws # NoSocket, NEW w \in Sockets, w.key = q.ws.key, w.term = q.ws.term
  PROVE  /\ [q EXCEPT !.ws = w] \in Panel /\ Neat([q EXCEPT !.ws = w])
         /\ [q EXCEPT !.ws = w].creating = q.creating
<1>1. PICK u : u = [q EXCEPT !.ws = w]
  OBVIOUS
<1>2. /\ u \in Panel /\ u.creating = q.creating /\ u.orphans = q.orphans /\ u.ws = w /\ u.conn = q.conn
      /\ u.queue = q.queue /\ u.screen = q.screen /\ u.input = q.input
  BY <1>1 DEF Panel
<1>3. Held(u) = Held(q)
  BY <1>2 DEF Held
<1>4. \A t : Explained(q, t) => Explained(u, t)
  BY <1>2 DEF Explained
<1>5. w # NoSocket
  BY SocketsAre
<1>6. Neat(u)
  BY <1>2, <1>3, <1>4, <1>5 DEF Neat
<1> QED BY <1>1, <1>2, <1>6

LEMMA KeptBySocket ==
  ASSUME PanelInv, HiddenLong \/ SocketOpens \/ ErrorFrame \/ GoesSilent PROVE PanelInv'
<1>1. page \in Page /\ panel \in Panel /\ Neat(panel)
  BY DEF PanelInv, PanelTypeOK
<1>3. panel.ws.ready \in {"connecting", "open", "closing"} => panel.ws # NoSocket /\ panel.ws.silent \in BOOLEAN
  BY <1>1 DEF Panel, Sockets, NoSocket
<1>4. ASSUME panel.ws # NoSocket, page' \in Page, panel' = [panel EXCEPT !.ws.ready = "closing"] PROVE PanelInv'
  <2>1. PICK w \in Sockets : w = [panel.ws EXCEPT !.ready = "closing"] /\ w.key = panel.ws.key /\ w.term = panel.ws.term
    BY <1>1, <1>4, SocketsAre DEF Panel
  <2>2. panel' = [panel EXCEPT !.ws = w]
    BY <1>1, <1>4, <2>1 DEF Panel
  <2> QED BY <1>1, <1>4, <2>1, <2>2, SocketMoves DEF PanelInv, PanelTypeOK
<1>5. CASE HiddenLong
  <2>1. page' \in Page
    BY <1>1, <1>5 DEF HiddenLong, Page
  <2> QED BY <1>4, <1>5, <2>1 DEF HiddenLong, PanelInv, PanelTypeOK
<1>6. CASE ErrorFrame
  <2>1. page' \in Page
    BY <1>1, <1>6, PageSteps DEF ErrorFrame
  <2> QED BY <1>3, <1>4, <1>6, <2>1 DEF ErrorFrame
<1>7. CASE SocketOpens
  <2>1. PICK w \in Sockets : w = [panel.ws EXCEPT !.ready = "open"] /\ w.key = panel.ws.key /\ w.term = panel.ws.term
    BY <1>1, <1>3, <1>7, SocketsAre, ZenonT(60) DEF Panel, SocketOpens
  <2>2. PICK q : q = [panel EXCEPT !.ws = w]
    OBVIOUS
  <2>3. q \in Panel /\ Neat(q) /\ q.creating = panel.creating
    BY <1>1, <1>3, <1>7, <2>1, <2>2, SocketMoves DEF SocketOpens
  <2>4. panel' = [q EXCEPT !.pending = TRUE] /\ page' = page
    <3>1. panel' = [panel EXCEPT !.ws = w, !.pending = TRUE]
      BY <1>1, <1>7, <2>1 DEF SocketOpens, Panel
    <3> QED BY <1>7, <2>2, <3>1 DEF SocketOpens
  <2>5. panel' \in Panel /\ Alike(panel', q)
    BY <2>3, <2>4 DEF Panel, Alike
  <2> QED BY <1>1, <2>3, <2>4, <2>5, AlikeNeat DEF PanelInv, PanelTypeOK, Alike
<1>8. CASE GoesSilent
  <2>1. page' \in Page
    BY <1>1, <1>8, PageSteps DEF GoesSilent
  <2>2. panel.ws # NoSocket /\ panel.ws \in Sockets
    BY <1>1, <1>3, <1>8 DEF GoesSilent, Panel
  <2>3. PICK w \in Sockets : w = [panel.ws EXCEPT !.silent = TRUE] /\ w.key = panel.ws.key /\ w.term = panel.ws.term
    <3>1. PICK o \in Sockets : o = panel.ws
      BY <2>2
    <3>2. PICK w : w = [o EXCEPT !.silent = TRUE]
      OBVIOUS
    <3>3. w \in Sockets /\ w.key = o.key /\ w.term = o.term
      BY <3>1, <3>2 DEF Sockets
    <3> QED BY <3>1, <3>2, <3>3
  <2>4. panel' = [panel EXCEPT !.ws = w]
    BY <1>1, <1>8, <2>3 DEF GoesSilent, Panel
  <2> QED BY <1>1, <2>1, <2>2, <2>3, <2>4, SocketMoves DEF PanelInv, PanelTypeOK
<1> QED BY <1>5, <1>6, <1>7, <1>8

LEMMA RemoveAtType ==
  ASSUME NEW S, NEW s \in Seq(S), NEW i \in 1..Len(s)
  PROVE  RemoveAt(s, i) \in Seq(S) /\ Len(RemoveAt(s, i)) <= Len(s)
<1>1. PICK n \in Nat : n = Len(s)
  BY LenProperties
<1>2. PICK a : a = SubSeq(s, 1, i - 1)
  OBVIOUS
<1>3. PICK b : b = SubSeq(s, i + 1, Len(s))
  OBVIOUS
<1>4. \A k \in 1..n : s[k] \in S
  BY <1>1, ElementOfSeq
<1>5. a \in Seq(S) /\ Len(a) = i - 1
  BY <1>1, <1>2, <1>4, SubSeqProperties
<1>6. b \in Seq(S) /\ Len(b) = n - i
  BY <1>1, <1>3, <1>4, SubSeqProperties
<1>7. a \o b \in Seq(S) /\ Len(a \o b) = Len(a) + Len(b)
  BY <1>5, <1>6, ConcatProperties
<1>8. RemoveAt(s, i) = a \o b
  BY <1>2, <1>3 DEF RemoveAt
<1> QED BY <1>1, <1>5, <1>6, <1>7, <1>8

LEMMA KeptByRenderer == ASSUME PanelInv, Making PROVE PanelInv'
<1>1. page \in Page /\ panel \in Panel /\ Neat(panel)
  BY DEF PanelInv, PanelTypeOK
<1>2. PICK i \in DOMAIN panel.creating : RendererMade(i)
  BY DEF Making
<1>3. panel.creating \in Seq(Keys \ {NoKey}) /\ i \in 1..Len(panel.creating)
  BY <1>1, <1>2, LenProperties DEF Panel
<1>4. PICK key \in Keys \ {NoKey} : key = panel.creating[i]
  BY <1>3, ElementOfSeq
<1>5. PICK c \in Seq(Keys \ {NoKey}) : c = RemoveAt(panel.creating, i)
  BY <1>3, RemoveAtType
<1>6. PICK q : q = [panel EXCEPT !.made = TRUE, !.creating = c]
  OBVIOUS
<1>7. /\ q \in Panel /\ q.orphans = panel.orphans /\ q.ws = panel.ws /\ q.conn = panel.conn
      /\ q.queue = panel.queue /\ q.screen = panel.screen /\ q.input = panel.input
  BY <1>1, <1>6 DEF Panel
<1>8. Neat(q)
  <2>1. Held(q) = Held(panel)
    BY <1>7 DEF Held
  <2>2. \A t : Explained(panel, t) => Explained(q, t)
    BY <1>7 DEF Explained
  <2> QED BY <1>1, <1>7, <2>1, <2>2 DEF Neat
<1>9. PanelIs(IF q.conn = key THEN OpenSocket(q, key, page.term) ELSE q) /\ page' = page
  BY <1>2, <1>4, <1>5, <1>6 DEF RendererMade
<1>10. PICK u \in Panel : u = (IF q.conn = key THEN OpenSocket(q, key, page.term) ELSE q) /\ Neat(u)
  <2>1. page.term \in Panes \cup {NoPane}
    BY <1>1 DEF Page
  <2> QED BY <1>4, <1>7, <1>8, <2>1, OpenSocketIs
<1> QED BY <1>1, <1>9, <1>10, PanelIsKept

LEMMA KeptByFrames == ASSUME PanelInv, Hears PROVE PanelInv'
<1>1. page \in Page /\ panel \in Panel /\ Neat(panel)
  BY DEF PanelInv, PanelTypeOK
<1>2. PICK w \in panel.orphans \cup {panel.ws}, large \in BOOLEAN : FrameArrives(w, large)
  BY DEF Hears
<1>3. w = panel.ws /\ panel.conn = w.key /\ panel.ws # NoSocket /\ page' = page
  BY <1>2 DEF FrameArrives, Heard, NoSocket
<1>4. PICK t \in Panes : t = panel.ws.term
  BY <1>1, <1>2, <1>3 DEF FrameArrives, Page
<1>5. PICK q : q = AttachWorks(panel)
  OBVIOUS
<1>6. q \in Panel /\ Alike(q, panel)
  BY <1>1, <1>5, NoKeyIs DEF AttachWorks, Panel, Alike
<1>7. PICK p : p = [q EXCEPT !.pending = FALSE]
  OBVIOUS
<1>8. p \in Panel /\ Alike(p, panel)
  BY <1>6, <1>7 DEF Panel, Alike
<1>9. PICK v : v = [p EXCEPT !.overlay = "hidden"]
  OBVIOUS
<1>10. v \in Panel /\ Alike(v, panel)
  BY <1>8, <1>9 DEF Panel, Alike
<1>11. PICK seen \in Panel : seen = (IF large /\ q.pending THEN q ELSE Revealed(p)) /\ Alike(seen, panel)
  BY <1>6, <1>9, <1>10 DEF Revealed
<1>12. PICK a \in SUBSET (Keys \X Panes) : a = panel.queue \cup {<<panel.conn, t>>}
  <2>1. panel.conn \in Keys /\ panel.queue \in SUBSET (Keys \X Panes)
    BY <1>1 DEF Panel
  <2>2. PICK k \in Keys : k = panel.conn
    BY <2>1
  <2>3. <<k, t>> \in Keys \X Panes
    BY <2>2
  <2> QED BY <2>1, <2>2, <2>3
<1>13. PICK b \in SUBSET Panes : b = panel.screen \cup {t}
  BY <1>1 DEF Panel
<1>14. \/ panel' = [seen EXCEPT !.queue = a, !.raf = TRUE]
       \/ panel' = [seen EXCEPT !.screen = b]
  BY <1>2, <1>3, <1>4, <1>5, <1>6, <1>7, <1>11, <1>12, <1>13 DEF FrameArrives, Alike
<1>15. /\ panel' \in Panel /\ panel'.creating = panel.creating /\ panel'.orphans = panel.orphans
       /\ panel'.ws = panel.ws /\ panel'.conn = panel.conn /\ panel'.input = panel.input
       /\ \/ panel'.queue = a /\ panel'.screen = panel.screen
          \/ panel'.queue = panel.queue /\ panel'.screen = b
  BY <1>11, <1>12, <1>13, <1>14, ZenonT(60) DEF Panel, Alike
<1>16. Held(panel') \subseteq Held(panel) \cup {t}
  BY <1>12, <1>13, <1>15 DEF Held
<1>17. \A u \in Held(panel') : Explained(panel', u)
  BY <1>1, <1>3, <1>4, <1>15, <1>16 DEF Neat, Explained
<1>18. Neat(panel')
  BY <1>1, <1>3, <1>15, <1>17 DEF Neat
<1> QED BY <1>1, <1>3, <1>15, <1>18 DEF PanelInv, PanelTypeOK

LEMMA KeptByPaint == ASSUME PanelInv, Raf \/ Reveal \/ BackoffEnds PROVE PanelInv'
<1>1. page \in Page /\ panel \in Panel /\ Neat(panel)
  BY DEF PanelInv, PanelTypeOK
<1>2. CASE Raf
  <2>1. PICK q \in Panel : /\ q = FlushFrames(panel) /\ q.creating = panel.creating
                           /\ q.orphans = panel.orphans /\ q.ws = panel.ws /\ q.conn = panel.conn
                           /\ Held(q) \subseteq Held(panel)
    BY <1>1, FlushIs
  <2>2. Neat(q)
    <3>1. \A t : Explained(panel, t) => Explained(q, t)
      BY <2>1 DEF Explained
    <3> QED BY <1>1, <2>1, <3>1 DEF Neat
  <2> QED BY <1>1, <1>2, <2>1, <2>2 DEF Raf, PanelInv, PanelTypeOK
<1>3. CASE Reveal
  <2>1. PICK q \in Panel : q = Revealed(panel) /\ Neat(q) /\ q.creating = panel.creating
    BY <1>1, OverlayIs
  <2>2. panel' = [q EXCEPT !.reveal = FALSE] /\ page' = page
    BY <1>3, <2>1 DEF Reveal
  <2>3. panel' \in Panel /\ Alike(panel', q)
    BY <2>1, <2>2 DEF Panel, Alike
  <2> QED BY <1>1, <2>1, <2>2, <2>3, AlikeNeat DEF PanelInv, PanelTypeOK, Alike
<1>4. CASE BackoffEnds
  <2>1. panel' \in Panel /\ Alike(panel', panel) /\ page' = page
    BY <1>1, <1>4 DEF BackoffEnds, Panel, Alike
  <2> QED BY <1>1, <2>1, AlikeKept
<1> QED BY <1>2, <1>3, <1>4

LEMMA KeptByFailures == ASSUME PanelInv, TermSocketCloses \/ WatchdogFires \/ RetryTimer PROVE PanelInv'
<1>1. page \in Page /\ panel \in Panel /\ Neat(panel)
  BY DEF PanelInv, PanelTypeOK
<1>2. PICK key \in Keys : key = panel.ws.key
  BY <1>1, SocketsAre DEF Panel
<1>3. ASSUME NEW q \in Panel, q.ws = NoSocket, q.conn = NoKey, q.creating = panel.creating,
             panel' = AttachFailed(q, key), page' \in Page
      PROVE  PanelInv'
  <2>1. panel' = [q EXCEPT !.failed = key, !.attempt = FALSE, !.timer = "window"]
    BY <1>3 DEF AttachFailed
  <2>2. panel' \in Panel /\ panel'.ws = NoSocket /\ panel'.conn = NoKey /\ panel'.creating = panel.creating
    BY <1>3, <2>1, ZenonT(60) DEF Panel
  <2>3. Neat(panel')
    BY <2>2 DEF Neat
  <2> QED BY <1>3, <2>2, <2>3 DEF PanelInv, PanelTypeOK
<1>4. CASE TermSocketCloses
  <2>1. PICK p \in Panel : p = Painted(panel, key) /\ p.creating = panel.creating
    BY <1>1, PaintedIs
  <2>2. PICK o \in {"hidden", "connecting", "failed"} : o = IF panel.failed = key THEN "failed" ELSE "hidden"
    OBVIOUS
  <2>3. PICK q : q = [p EXCEPT !.dog = FALSE, !.ws = NoSocket, !.conn = NoKey, !.overlay = o]
    OBVIOUS
  <2>4. q \in Panel /\ q.ws = NoSocket /\ q.conn = NoKey /\ q.creating = panel.creating
    BY <2>1, <2>3, NoKeyIs DEF Panel
  <2>5. panel' = AttachFailed(q, key)
    BY <1>2, <1>4, <2>1, <2>2, <2>3 DEF TermSocketCloses
  <2>6. page' \in Page
    <3>1. PICK n \in 0..PageFaults : n = IF SocketDue THEN page.faults ELSE page.faults + 1
      BY <1>1, <1>4, PageSteps DEF TermSocketCloses, Page
    <3>2. page' = [page EXCEPT !.asked = TRUE, !.faults = n]
      BY <1>4, <3>1 DEF TermSocketCloses
    <3> QED BY <1>1, <3>2 DEF Page
  <2> QED BY <1>3, <2>4, <2>5, <2>6
<1>5. CASE WatchdogFires
  <2>1. PICK q : q = [panel EXCEPT !.dog = FALSE, !.ws = NoSocket, !.conn = NoKey, !.overlay = "failed"]
    OBVIOUS
  <2>2. q \in Panel /\ q.ws = NoSocket /\ q.conn = NoKey /\ q.creating = panel.creating
    BY <1>1, <2>1, NoKeyIs DEF Panel
  <2>3. panel' = AttachFailed(q, key) /\ page' \in Page
    BY <1>1, <1>2, <1>5, <2>1 DEF WatchdogFires
  <2> QED BY <1>3, <2>2, <2>3
<1>6. CASE RetryTimer
  <2>1. PICK q : q = [panel EXCEPT !.timer = "no"]
    OBVIOUS
  <2>2. q \in Panel /\ Alike(q, panel)
    BY <1>1, <2>1 DEF Panel, Alike
  <2>3. Neat(q)
    BY <1>1, <2>2, AlikeNeat
  <2>4. PICK u \in Panel : u = (IF q.failed # NoKey /\ ~InFlight(q) THEN Connect(q, page, FALSE) ELSE q) /\ Neat(u)
    BY <1>1, <2>2, <2>3, ConnectIs
  <2>5. PanelIs(u) /\ page' = page
    BY <1>6, <2>1, <2>4 DEF RetryTimer
  <2> QED BY <1>1, <2>4, <2>5, PanelIsKept
<1> QED BY <1>4, <1>5, <1>6
-----------------------------------------------------------------------------
(***************************************************************************)
(* The results.                                                            *)
(***************************************************************************)
LEMMA PanelStep == PanelInv /\ [PanelNext]_panelVars => PanelInv'
<1> SUFFICES ASSUME PanelInv, [PanelNext]_panelVars PROVE PanelInv'
  OBVIOUS
<1>1. CASE UserStep
  BY <1>1, KeptByRoutes, KeptByUser, KeptBySocket DEF UserStep
<1>2. CASE RefreshStep \/ TimerStep \/ PaintStep \/ Hears \/ Making
  BY <1>2, KeptByRefresh, KeptByUser, KeptByFailures, KeptByPaint, KeptByFrames, KeptByRenderer
     DEF RefreshStep, TimerStep, PaintStep
<1>3. CASE SocketOpens \/ ErrorFrame \/ TermSocketCloses \/ GoesSilent
  BY <1>3, KeptBySocket, KeptByFailures
<1>4. CASE \E p \in Panes : HearClosed(p)
  BY <1>4, KeptByRoutes
<1>5. CASE UNCHANGED panelVars
  BY <1>5 DEF panelVars, PanelInv, PanelTypeOK
<1> QED BY <1>1, <1>2, <1>3, <1>4, <1>5 DEF PanelNext

LEMMA PanelInvariant == PanelSpec => []PanelInv
BY PanelInitHolds, PanelStep, PTL DEF PanelSpec

\* The page and its panel keep their types, and no connectTerminal waits for a
\* renderer without a target.
THEOREM PanelTypeCorrect == PanelSpec => []PanelTypeOK
<1>1. PanelInv => PanelTypeOK
  BY DEF PanelInv
<1> QED BY <1>1, PanelInvariant, PTL

\* The desktop page never shows one terminal's output, or keeps input for it,
\* under another's socket, but for a socket it replaced for the same target:
\* for any panes, any number of renderers in the making, and any interleaving
\* of navigation, refreshes, frames, closes and timers.
THEOREM ScreenIsOfOneSocket == PanelSpec => []PanelIsOne
<1>1. PanelInv => PanelIsOne
  BY DEF PanelInv, Neat, Held, Explained, PanelIsOne
<1> QED BY <1>1, PanelInvariant, PTL

-----------------------------------------------------------------------------
(***************************************************************************)
(* The composition: a step of one component leaves the others as they are, *)
(* so that their invariants hold together.                                 *)
(***************************************************************************)

LEMMA UpkeepInvStep ==
  NoSleepInv /\ SettingsInv /\ RowsInv /\ Drops /\ PanelInv /\ [UpkeepNext]_upkeepVars =>
    (NoSleepInv /\ SettingsInv /\ RowsInv /\ Drops /\ PanelInv)'
<1> SUFFICES ASSUME NoSleepInv, SettingsInv, RowsInv, Drops, PanelInv, [UpkeepNext]_upkeepVars
             PROVE  (NoSleepInv /\ SettingsInv /\ RowsInv /\ Drops /\ PanelInv)'
  OBVIOUS
<1>1. /\ [NoSleepNext]_noSleepVars /\ [SettingsNext]_settingsVars /\ [RowsNext]_rowVars
      /\ [PanelNext]_panelVars
  BY DEF UpkeepNext, InNoSleep, InSettings, InRows, InPanel, upkeepVars
<1> QED BY <1>1, NoSleepStep, SettingsInvStep, RowsInvStep, PanelStep

(***************************************************************************)
(* The four components stay well typed, for any number of requests, ports, *)
(* lanes, panes and changes.                                               *)
(***************************************************************************)
THEOREM UpkeepTypeCorrect == UpkeepSpec => []UpkeepTypeOK
<1>1. UpkeepInit => NoSleepInv /\ SettingsInv /\ RowsInv /\ Drops /\ PanelInv
  BY NoSleepInvInit, SettingsInvInit, RowsInvInit, DropsInit, PanelInitHolds DEF UpkeepInit
<1>2. NoSleepInv /\ SettingsInv /\ RowsInv /\ PanelInv => UpkeepTypeOK
  BY DEF NoSleepInv, SettingsInv, RowsInv, PanelInv, UpkeepTypeOK
<1> QED BY <1>1, <1>2, UpkeepInvStep, PTL DEF UpkeepSpec
=============================================================================
