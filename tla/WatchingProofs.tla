---------------------------- MODULE WatchingProofs ----------------------------
(***************************************************************************)
(* Theorems about the components that keep what a browser shows in step    *)
(* with the terminals and their agents. AgentStatus: types, and that no    *)
(* message is typed into a dialog that was there all along. EventFanout:   *)
(* types, and that a page never goes back to an older state. ChatLens:     *)
(* types, of its requests and cursors among them. And the types of the     *)
(* three as MCWatching checks them.                                        *)
(***************************************************************************)
EXTENDS MCWatching, SequenceLemmas

-----------------------------------------------------------------------------
(***************************************************************************)
(* AgentStatus: the tracker, the composer and the sweeper.                 *)
(***************************************************************************)

LEMMA AgentBounds == AgentEvents \in Nat
BY AgentAssumption
-----------------------------------------------------------------------------
(***************************************************************************)
(* What the tracker keeps.                                                 *)
(***************************************************************************)
LEMMA LatestIs ==
  ASSUME NEW n \in Nat, NEW payload
  PROVE  \/ (\A i \in 1..n : payload[i] = "none") /\ Latest(n, payload) = "none"
         \/ \E i \in 1..n : payload[i] # "none" /\ Latest(n, payload) = payload[i]
<1> DEFINE T == {i \in 1..n : payload[i] # "none"}
<1>1. CASE T = {}
  BY <1>1 DEF Latest
<1>2. CASE T # {}
  <2>1. \E m \in T : \A k \in T : m >= k
    <3>1. T \subseteq 1..n
      OBVIOUS
    <3> HIDE DEF T
    <3> QED BY <1>2, <3>1, GreatestNumber
  <2>2. Max(T) \in T
    <3> HIDE DEF T
    <3> QED BY <2>1, Zenon DEF Max
  <2>3. Latest(n, payload) = payload[Max(T)]
    BY <1>2 DEF Latest
  <2> QED BY <2>2, <2>3
<1> QED BY <1>1, <1>2

TitleOf(a, n)    == Latest(n, [i \in DOMAIN a |-> a[i].title])
ProgressOf(a, n) == Latest(n, [i \in DOMAIN a |-> a[i].progress])

Signals(a, n) == \E i \in 1..n : a[i].progress = "blocked"

LEMMA LooksAre ==
  \A l \in Looks : /\ l.text \in {"idle", "blocked"}
                   /\ l.title \in {"none", "working"} /\ l.progress \in {"none", "blocked"}
BY DEF Looks

LEMMA TrackerIs ==
  ASSUME NEW a \in Seq(Looks), NEW n \in 0..Len(a)
  PROVE  /\ TitleOf(a, n) \in {"none", "working"}
         /\ n = 0 => TitleOf(a, n) = "none"
         /\ ProgressOf(a, n) = IF Signals(a, n) THEN "blocked" ELSE "none"
<1>1. n \in Nat /\ DOMAIN a = 1..Len(a) /\ \A i \in 1..n : i \in DOMAIN a /\ a[i] \in Looks
  BY LenProperties, ElementOfSeq
<1>2. PICK t : t = [i \in DOMAIN a |-> a[i].title]
  OBVIOUS
<1>3. PICK p : p = [i \in DOMAIN a |-> a[i].progress]
  OBVIOUS
<1>4. \A i \in 1..n : t[i] \in {"none", "working"} /\ p[i] = a[i].progress /\ p[i] \in {"none", "blocked"}
  BY <1>1, <1>2, <1>3, LooksAre
<1>5. TitleOf(a, n) = Latest(n, t) /\ ProgressOf(a, n) = Latest(n, p)
  BY <1>2, <1>3 DEF TitleOf, ProgressOf
<1>6. TitleOf(a, n) \in {"none", "working"} /\ (n = 0 => TitleOf(a, n) = "none")
  BY <1>1, <1>4, <1>5, LatestIs
<1>7. CASE Signals(a, n)
  <2>1. PICK i \in 1..n : p[i] = "blocked"
    BY <1>4, <1>7 DEF Signals
  <2>2. PICK k \in 1..n : p[k] # "none" /\ Latest(n, p) = p[k]
    BY <1>1, <2>1, LatestIs
  <2> QED BY <1>4, <1>5, <1>6, <1>7, <2>2
<1>8. CASE ~Signals(a, n)
  <2>1. \A i \in 1..n : p[i] = "none"
    BY <1>4, <1>8 DEF Signals
  <2>2. Latest(n, p) = "none"
    BY <1>1, <2>1, LatestIs
  <2> QED BY <1>5, <1>6, <1>8, <2>2
<1> QED BY <1>7, <1>8

\* What has been signalled stays signalled.
LEMMA SignalsStay ==
  ASSUME NEW a \in Seq(Looks), NEW n \in 0..Len(a), Signals(a, n),
         NEW b \in Seq(Looks), NEW m \in 0..Len(b), n <= m, \A i \in 1..Len(a) : b[i] = a[i]
  PROVE  Signals(b, m)
<1>1. PICK i \in 1..n : a[i].progress = "blocked"
  BY DEF Signals
<1>2. Len(a) \in Nat /\ Len(b) \in Nat
  BY LenProperties
<1>3. i \in 1..m /\ i \in 1..Len(a)
  BY <1>2
<1> QED BY <1>1, <1>3 DEF Signals
-----------------------------------------------------------------------------
(***************************************************************************)
(* Types, and the bounds they need: a pass is numbered before it starts    *)
(* and reads no further than the scrollback.                               *)
(***************************************************************************)
Numbered ==
  /\ \A p \in Passers : pass[p].seq <= detectionSeq /\ pass[p].tail <= Len(appended)
  /\ lastState.seq <= detectionSeq

Typed == AgentTypeOK /\ Numbered

LEMMA PassRecords ==
  ASSUME NEW x \in DetectionPass
  PROVE  /\ x.stage \in PassStages /\ x.seq \in Nat /\ x.tail \in Nat
         /\ x.osc.title \in {"none", "working"} /\ x.osc.progress \in {"none", "blocked"}
         /\ x.osc \in [title : {"none", "working"}, progress : {"none", "blocked"}]
         /\ x.live \in BOOLEAN /\ x.agent \in BOOLEAN
BY DEF DetectionPass

LEMMA Constants ==
  /\ NoPass \in DetectionPass /\ NoPass.stage = "none" /\ NoPass.seq = 0 /\ NoPass.tail = 0
  /\ NoState \in [agent : BOOLEAN, status : Statuses, seq : Nat, tail : Nat]
  /\ NoState.seq = 0
  /\ NoOsc \in [title : {"none", "working"}, progress : {"none", "blocked"}]
  /\ "reader" \in Passers /\ "sweeper" \in Passers /\ Prompts \subseteq Passers
BY DEF NoPass, NoState, NoOsc, DetectionPass, PassStages, Statuses, Passers

\* The passes of the three kinds of thread are different ones.
LEMMA OwnPasses == \A r \in Prompts : r # "reader" /\ r # "sweeper"
BY AgentAssumption

LEMMA TrackedIs ==
  ASSUME AgentTypeOK
  PROVE  /\ Tracked(observed) \in [title : {"none", "working"}, progress : {"none", "blocked"}]
         /\ Tracked(observed).title = TitleOf(appended, observed)
         /\ Tracked(observed).progress = IF Signals(appended, observed) THEN "blocked" ELSE "none"
<1>1. appended \in Seq(Looks) /\ observed \in 0..Len(appended)
  BY DEF AgentTypeOK
<1>2. Tracked(observed) = [title |-> TitleOf(appended, observed), progress |-> ProgressOf(appended, observed)]
  BY DEF Tracked, TitleOf, ProgressOf
<1> QED BY <1>1, <1>2, TrackerIs

LEMMA JudgedType ==
  ASSUME Typed, NEW p \in Passers
  PROVE  /\ Judged(p) \in [agent : BOOLEAN, status : Statuses, seq : Nat, tail : Nat]
         /\ Judged(p).seq = pass[p].seq
         /\ Judged(p).status = DetectStatus(pass[p].agent, pass[p].tail, pass[p].osc)
<1>1. PICK x \in DetectionPass : x = pass[p]
  BY DEF Typed, AgentTypeOK
<1>2. x.tail \in Nat /\ x.tail <= Len(appended) /\ appended \in Seq(Looks) /\ Len(appended) \in Nat
  BY <1>1, PassRecords, LenProperties DEF Typed, Numbered, AgentTypeOK
<1>3. ScreenStatus(x.tail) \in {"idle", "blocked"}
  <2>1. CASE x.tail = 0
    BY <2>1 DEF ScreenStatus
  <2>2. CASE x.tail # 0
    <3>1. x.tail \in 1..Len(appended)
      BY <1>2, <2>2
    <3> QED BY <1>2, <2>2, <3>1, ElementOfSeq, LooksAre DEF ScreenStatus
  <2> QED BY <2>1, <2>2
<1>4. DetectStatus(x.agent, x.tail, x.osc) \in Statuses
  BY <1>3, PassRecords DEF DetectStatus, Statuses
<1> QED BY <1>1, <1>4, PassRecords DEF Judged

LEMMA AgentInitTyped == AgentInit => Typed
<1> SUFFICES ASSUME AgentInit PROVE Typed
  OBVIOUS
<1>1. appended \in Seq(Looks) /\ Len(appended) = 0 /\ observed \in 0..Len(appended)
  BY EmptySeq DEF AgentInit
<1>2. pass \in [Passers -> DetectionPass] /\ lastState \in [agent : BOOLEAN, status : Statuses, seq : Nat, tail : Nat]
  BY Constants DEF AgentInit
<1>3. agentEvents \in 0..AgentEvents /\ detectionSeq \in Nat
  BY AgentBounds DEF AgentInit
<1>4. AgentTypeOK
  BY <1>1, <1>2, <1>3 DEF AgentInit, AgentTypeOK
<1>5. Numbered
  BY <1>1, Constants DEF AgentInit, Numbered
<1> QED BY <1>4, <1>5 DEF Typed
-----------------------------------------------------------------------------
(***************************************************************************)
(* What each step of a pass makes of its record.                           *)
(***************************************************************************)
Moves(p, x) ==
  /\ x \in DetectionPass /\ pass' = [pass EXCEPT ![p] = x]
  /\ pass[p].stage # "none" /\ x.stage # "none" /\ x.seq = pass[p].seq /\ x.tail <= Len(appended)

LEMMA Reserves ==
  ASSUME Typed, NEW p \in Passers, Reserve(p)
  PROVE  /\ detectionSeq' = detectionSeq + 1
         /\ \E x \in DetectionPass : /\ pass' = [pass EXCEPT ![p] = x]
                                     /\ x.stage = "reserved" /\ x.seq = detectionSeq + 1 /\ x.tail = 0
<1>1. PICK d \in Nat : d = detectionSeq + 1
  BY DEF Typed, AgentTypeOK
<1>2. PICK x : x = [NoPass EXCEPT !.stage = "reserved", !.seq = d]
  OBVIOUS
<1>3. x \in DetectionPass /\ x.stage = "reserved" /\ x.seq = d /\ x.tail = 0
  BY <1>1, <1>2 DEF NoPass, NoOsc, DetectionPass, PassStages
<1>4. pass' = [pass EXCEPT ![p] = x] /\ detectionSeq' = detectionSeq + 1
  BY <1>1, <1>2 DEF Reserve
<1>5. x.seq = detectionSeq + 1
  BY <1>1, <1>3
<1> QED BY <1>3, <1>4, <1>5, Zenon

LEMMA TailRead ==
  ASSUME Typed, NEW p \in Passers, ReadTail(p)
  PROVE  \E x : Moves(p, x) /\ pass[p].stage = "reserved" /\ x.stage = "tailed" /\ x.tail = Len(appended)
<1>1. PICK y \in DetectionPass : y = pass[p] /\ y.stage = "reserved"
  BY DEF Typed, AgentTypeOK, ReadTail, InPass
<1>2. PICK n \in Nat : n = Len(appended)
  BY LenProperties DEF Typed, AgentTypeOK
<1>3. PICK x : x = [y EXCEPT !.stage = "tailed", !.tail = n]
  OBVIOUS
<1>4. x \in DetectionPass /\ x.stage = "tailed" /\ x.seq = y.seq /\ x.tail = n
  BY <1>1, <1>2, <1>3 DEF DetectionPass, PassStages
<1>5. pass' = [pass EXCEPT ![p] = x]
  BY <1>1, <1>2, <1>3 DEF ReadTail, Typed, AgentTypeOK
<1>6. n <= n /\ "tailed" # "none" /\ "reserved" # "none"
  OBVIOUS
<1>7. Moves(p, x)
  BY <1>1, <1>2, <1>4, <1>5, <1>6, Zenon DEF Moves
<1> QED BY <1>1, <1>2, <1>4, <1>7, Zenon

LEMMA TrackerRead ==
  ASSUME Typed, NEW p \in Passers, ReadTracker(p)
  PROVE  \E x : /\ Moves(p, x) /\ pass[p].stage = "tailed" /\ x.stage = "tracked" /\ x.tail = pass[p].tail
                /\ reading # "over" => x.osc = Tracked(observed)
<1>1. PICK y \in DetectionPass : y = pass[p] /\ y.stage = "tailed" /\ y.tail <= Len(appended)
  BY DEF Typed, AgentTypeOK, ReadTracker, InPass, Numbered
<1>2. PICK o \in [title : {"none", "working"}, progress : {"none", "blocked"}] :
        o = IF reading = "over" THEN NoOsc ELSE Tracked(observed)
  BY TrackedIs, Constants DEF Typed
<1>3. PICK x : x = [y EXCEPT !.stage = "tracked", !.osc = o]
  OBVIOUS
<1>4. x \in DetectionPass /\ x.stage = "tracked" /\ x.seq = y.seq /\ x.tail = y.tail /\ x.osc = o
  BY <1>1, <1>2, <1>3 DEF DetectionPass, PassStages
<1>5. pass' = [pass EXCEPT ![p] = x]
  BY <1>1, <1>2, <1>3 DEF ReadTracker, Typed, AgentTypeOK
<1> QED BY <1>1, <1>2, <1>4, <1>5 DEF Moves

LEMMA Probed ==
  ASSUME Typed, NEW p \in Passers, Probe(p)
  PROVE  \E x : /\ Moves(p, x) /\ pass[p].stage = "tracked" /\ x.stage \in {"probed", "recorded"}
                /\ x.tail = pass[p].tail /\ x.osc = pass[p].osc
<1>1. PICK y \in DetectionPass : y = pass[p] /\ y.stage = "tracked" /\ y.tail <= Len(appended)
  BY DEF Typed, AgentTypeOK, Probe, InPass, Numbered
<1>2. PICK s \in {"probed", "recorded"}, l \in BOOLEAN :
        pass' = [pass EXCEPT ![p].stage = s, ![p].live = l]
  BY DEF Probe, Typed, AgentTypeOK
<1>3. PICK x : x = [y EXCEPT !.stage = s, !.live = l]
  OBVIOUS
<1>4. x \in DetectionPass /\ x.stage = s /\ x.seq = y.seq /\ x.tail = y.tail /\ x.osc = y.osc
  BY <1>1, <1>2, <1>3 DEF DetectionPass, PassStages
<1>5. pass' = [pass EXCEPT ![p] = x]
  BY <1>1, <1>2, <1>3 DEF Typed, AgentTypeOK
<1> QED BY <1>1, <1>2, <1>4, <1>5 DEF Moves

LEMMA Recorded ==
  ASSUME Typed, NEW p \in Passers, UpdateExitRecord(p)
  PROVE  \E x : /\ Moves(p, x) /\ pass[p].stage = "probed" /\ x.stage = "recorded"
                /\ x.tail = pass[p].tail /\ x.osc = pass[p].osc
<1>1. PICK y \in DetectionPass : y = pass[p] /\ y.stage = "probed" /\ y.tail <= Len(appended)
  BY DEF Typed, AgentTypeOK, UpdateExitRecord, InPass, Numbered
<1>2. PICK x : x = [y EXCEPT !.stage = "recorded"]
  OBVIOUS
<1>3. x \in DetectionPass /\ x.stage = "recorded" /\ x.seq = y.seq /\ x.tail = y.tail /\ x.osc = y.osc
  BY <1>1, <1>2 DEF DetectionPass, PassStages
<1>4. pass' = [pass EXCEPT ![p] = x]
  BY <1>1, <1>2 DEF UpdateExitRecord, Typed, AgentTypeOK
<1> QED BY <1>1, <1>3, <1>4 DEF Moves

LEMMA JudgedBy ==
  ASSUME Typed, NEW p \in Passers, Judge(p)
  PROVE  \E x : /\ Moves(p, x) /\ pass[p].stage = "recorded" /\ x.stage = "judged"
                /\ x.tail = pass[p].tail /\ x.osc = pass[p].osc
                /\ ~exitRecord /\ x.tail > 0 => x.agent
<1>1. PICK y \in DetectionPass : y = pass[p] /\ y.stage = "recorded" /\ y.tail <= Len(appended)
  BY DEF Typed, AgentTypeOK, Judge, InPass, Numbered
<1>2. PICK b \in BOOLEAN : b = (~exitRecord /\ DetectLabel(y.live, y.tail))
  OBVIOUS
<1>3. PICK x : x = [y EXCEPT !.stage = "judged", !.agent = b]
  OBVIOUS
<1>4. x \in DetectionPass /\ x.stage = "judged" /\ x.seq = y.seq /\ x.tail = y.tail /\ x.osc = y.osc /\ x.agent = b
  BY <1>1, <1>2, <1>3 DEF DetectionPass, PassStages
<1>5. pass' = [pass EXCEPT ![p] = x]
  BY <1>1, <1>2, <1>3 DEF Judge, Typed, AgentTypeOK
<1>6. ~exitRecord /\ x.tail > 0 => x.agent
  BY <1>2, <1>4 DEF DetectLabel
<1> QED BY <1>1, <1>4, <1>5, <1>6 DEF Moves
-----------------------------------------------------------------------------
(***************************************************************************)
(* Every step keeps the types.                                             *)
(***************************************************************************)
LEMMA PassTyped ==
  ASSUME Typed, NEW p \in Passers, NEW x \in DetectionPass, pass' = [pass EXCEPT ![p] = x],
         x.seq <= detectionSeq', x.tail <= Len(appended), appended' = appended,
         lastState' = lastState, detectionSeq' \in Nat, detectionSeq <= detectionSeq'
  PROVE  pass' \in [Passers -> DetectionPass] /\ Numbered'
<1>1. pass \in [Passers -> DetectionPass]
  BY DEF Typed, AgentTypeOK
<1>2. ASSUME NEW q \in Passers PROVE pass'[q].seq <= detectionSeq' /\ pass'[q].tail <= Len(appended')
  <2>1. CASE q = p
    BY <1>1, <2>1
  <2>2. CASE q # p
    <3>1. pass'[q] = pass[q] /\ pass[q].seq \in Nat /\ pass[q].seq <= detectionSeq
      BY <1>1, <2>2, PassRecords DEF Typed, Numbered
    <3>2. detectionSeq \in Nat
      BY DEF Typed, AgentTypeOK
    <3> QED BY <3>1, <3>2 DEF Typed, Numbered
  <2> QED BY <2>1, <2>2
<1>3. lastState.seq \in Nat /\ lastState.seq <= detectionSeq /\ detectionSeq \in Nat
  BY DEF Typed, AgentTypeOK, Numbered
<1> QED BY <1>1, <1>2, <1>3 DEF Numbered

LEMMA ReserveTyped ==
  ASSUME Typed, NEW p \in Passers, Reserve(p), appended' = appended, lastState' = lastState
  PROVE  pass' \in [Passers -> DetectionPass] /\ detectionSeq' \in Nat /\ Numbered'
<1>1. PICK x \in DetectionPass : /\ pass' = [pass EXCEPT ![p] = x] /\ detectionSeq' = detectionSeq + 1
                                 /\ x.seq = detectionSeq + 1 /\ x.tail = 0
  BY Reserves
<1>2. detectionSeq \in Nat /\ Len(appended) \in Nat
  BY LenProperties DEF Typed, AgentTypeOK
<1>3. x.seq <= detectionSeq' /\ x.tail <= Len(appended) /\ detectionSeq' \in Nat /\ detectionSeq <= detectionSeq'
  BY <1>1, <1>2
<1> QED BY <1>1, <1>3, PassTyped, Zenon

LEMMA MovesTyped ==
  ASSUME Typed, NEW p \in Passers, NEW x, Moves(p, x), UNCHANGED <<appended, lastState, detectionSeq>>
  PROVE  pass' \in [Passers -> DetectionPass] /\ Numbered'
<1>1. detectionSeq \in Nat /\ x.seq <= detectionSeq
  BY DEF Typed, AgentTypeOK, Numbered, Moves
<1>2. /\ x \in DetectionPass /\ pass' = [pass EXCEPT ![p] = x] /\ x.tail <= Len(appended)
      /\ x.seq <= detectionSeq' /\ detectionSeq' \in Nat /\ detectionSeq <= detectionSeq'
      /\ appended' = appended /\ lastState' = lastState
  BY <1>1 DEF Moves
<1> QED BY <1>2, PassTyped, Zenon

LEMMA WitnessTyped == AgentTypeOK /\ Witness => typedInto' \in [Prompts -> BOOLEAN]
BY DEF AgentTypeOK, Witness

LEMMA TypedAppend == Typed /\ AppendOutput => Typed'
<1> SUFFICES ASSUME Typed, AppendOutput PROVE Typed'
  OBVIOUS
<1>1. PICK l \in Looks : appended' = Append(appended, l)
  BY DEF AppendOutput
<1>2. PICK n \in Nat : n = Len(appended) /\ observed \in 0..n /\ appended \in Seq(Looks)
  BY LenProperties DEF Typed, AgentTypeOK
<1>3. appended' \in Seq(Looks) /\ Len(appended') = n + 1
  BY <1>1, <1>2, AppendProperties
<1>4. observed' \in 0..Len(appended')
  BY <1>2, <1>3 DEF AppendOutput
<1>5. agentEvents' \in 0..AgentEvents
  BY AgentBounds DEF AppendOutput, Typed, AgentTypeOK
<1>6. AgentTypeOK'
  BY <1>3, <1>4, <1>5, WitnessTyped DEF Typed, AgentTypeOK, AppendOutput, records
<1>7. ASSUME NEW p \in Passers PROVE pass[p].tail <= n + 1
  <2>1. pass[p].tail \in Nat /\ pass[p].tail <= n
    BY <1>2, PassRecords DEF Typed, AgentTypeOK, Numbered
  <2> QED BY <2>1
<1>8. Numbered'
  BY <1>3, <1>7 DEF AppendOutput, Typed, Numbered
<1> QED BY <1>6, <1>8 DEF Typed

LEMMA TypedReader == Typed /\ (ObserveOsc \/ PublishIfChanged \/ ForgetState \/ NotifyExited) => Typed'
<1> SUFFICES ASSUME Typed, ObserveOsc \/ PublishIfChanged \/ ForgetState \/ NotifyExited PROVE Typed'
  OBVIOUS
<1>1. CASE ObserveOsc
  <2>1. observed' \in 0..Len(appended')
    BY <1>1, LenProperties DEF ObserveOsc, Typed, AgentTypeOK
  <2>2. AgentTypeOK'
    BY <1>1, <2>1, WitnessTyped DEF ObserveOsc, Typed, AgentTypeOK, records
  <2> QED BY <1>1, <2>2 DEF ObserveOsc, Typed, Numbered
<1>2. CASE PublishIfChanged
  <2>1. /\ UNCHANGED <<appended, observed, alive, agentEvents, sweeping, gone, lastLive, exitRecord,
                       lastState, asking, typedInto>>
        /\ reading' = "reading"
    BY <1>2 DEF PublishIfChanged, environment, records, prompting
  <2>2. windowOpen' \in BOOLEAN /\ pendingCheck' \in BOOLEAN
    BY <1>2 DEF PublishIfChanged, Typed, AgentTypeOK
  <2>3. pass' \in [Passers -> DetectionPass] /\ detectionSeq' \in Nat /\ Numbered'
    <3>1. CASE Reserve("reader")
      BY <2>1, <3>1, ReserveTyped, Constants
    <3>2. CASE UNCHANGED <<detectionSeq, pass>>
      BY <2>1, <3>2 DEF Typed, AgentTypeOK, Numbered
    <3> QED BY <1>2, <3>1, <3>2 DEF PublishIfChanged
  <2> QED BY <2>1, <2>2, <2>3 DEF Typed, AgentTypeOK
<1>3. CASE ForgetState
  <2>1. lastState' \in [agent : BOOLEAN, status : Statuses, seq : Nat, tail : Nat] /\ lastState'.seq <= detectionSeq
    BY <1>3, Constants DEF ForgetState, Typed, AgentTypeOK
  <2> QED BY <1>3, <2>1 DEF ForgetState, Typed, AgentTypeOK, Numbered, environment, records, prompting
<1>4. CASE NotifyExited
  BY <1>4 DEF NotifyExited, Typed, AgentTypeOK, Numbered, environment, records, prompting
<1> QED BY <1>1, <1>2, <1>3, <1>4

LEMMA TypedSweeper == Typed /\ (WindowExpires \/ SweeperStep \/ AgentProcess) => Typed'
<1> SUFFICES ASSUME Typed, WindowExpires \/ SweeperStep \/ AgentProcess PROVE Typed'
  OBVIOUS
<1>1. CASE WindowExpires
  BY <1>1 DEF WindowExpires, Typed, AgentTypeOK, Numbered, environment, records, prompting
<1>2. CASE SweeperTick
  <2>1. sweeping' \in {"asleep", "forced", "over"} /\ pendingCheck' \in BOOLEAN
    BY <1>2 DEF SweeperTick, Typed, AgentTypeOK
  <2> QED BY <1>2, <2>1 DEF SweeperTick, Typed, AgentTypeOK, Numbered, environment, records, prompting
<1>3. CASE RunStatusDetection
  <2>1. /\ UNCHANGED <<appended, observed, alive, agentEvents, reading, gone, lastLive, exitRecord,
                       lastState, asking, typedInto>>
        /\ sweeping' = "asleep"
    BY <1>3 DEF RunStatusDetection, environment, records, prompting
  <2>2. windowOpen' \in BOOLEAN /\ pendingCheck' \in BOOLEAN
    BY <1>3 DEF RunStatusDetection, Typed, AgentTypeOK
  <2>3. pass' \in [Passers -> DetectionPass] /\ detectionSeq' \in Nat /\ Numbered'
    <3>1. CASE Reserve("sweeper")
      BY <2>1, <3>1, ReserveTyped, Constants
    <3>2. CASE UNCHANGED <<detectionSeq, pass>>
      BY <2>1, <3>2 DEF Typed, AgentTypeOK, Numbered
    <3> QED BY <1>3, <3>1, <3>2 DEF RunStatusDetection
  <2> QED BY <2>1, <2>2, <2>3 DEF Typed, AgentTypeOK
<1>4. CASE AgentProcess
  <2>1. agentEvents' \in 0..AgentEvents
    BY <1>4, AgentBounds DEF AgentProcess, Typed, AgentTypeOK
  <2> QED BY <1>4, <2>1 DEF AgentProcess, Typed, AgentTypeOK, Numbered, threads, records, prompting
<1> QED BY <1>1, <1>2, <1>3, <1>4 DEF SweeperStep

LEMMA TypedPass ==
  ASSUME Typed, NEW p \in Passers, PassStep(p) PROVE Typed'
<1>1. CASE ReadTail(p) \/ ReadTracker(p) \/ Probe(p) \/ Judge(p)
  <2>1. UNCHANGED <<environment, threads, records, detectionSeq, lastState, prompting>>
    BY <1>1 DEF ReadTail, ReadTracker, Probe, Judge
  <2>2. \E x : Moves(p, x)
    BY <1>1, TailRead, TrackerRead, Probed, JudgedBy
  <2>3. pass' \in [Passers -> DetectionPass] /\ Numbered'
    BY <2>1, <2>2, MovesTyped DEF environment
  <2> QED BY <2>1, <2>3 DEF Typed, AgentTypeOK, environment, threads, records, prompting
<1>2. CASE UpdateExitRecord(p)
  <2>1. UNCHANGED <<environment, threads, detectionSeq, lastState, asking>>
    BY <1>2 DEF UpdateExitRecord
  <2>2. \E x : Moves(p, x)
    BY <1>2, Recorded
  <2>3. pass' \in [Passers -> DetectionPass] /\ Numbered'
    BY <2>1, <2>2, MovesTyped DEF environment
  <2>4. exitRecord' \in BOOLEAN
    BY <1>2 DEF UpdateExitRecord
  <2>5. lastLive' \in BOOLEAN
    <3>1. pass[p].live \in BOOLEAN
      BY PassRecords DEF Typed, AgentTypeOK
    <3> QED BY <1>2, <3>1 DEF UpdateExitRecord
  <2>6. typedInto' \in [Prompts -> BOOLEAN]
    BY <1>2, WitnessTyped DEF UpdateExitRecord, Typed
  <2> QED BY <2>1, <2>3, <2>4, <2>5, <2>6 DEF Typed, AgentTypeOK, environment, threads
<1>3. CASE Commit(p)
  <2>1. UNCHANGED <<environment, threads, records, detectionSeq, prompting>>
    BY <1>3 DEF Commit
  <2>2. /\ lastState' \in [agent : BOOLEAN, status : Statuses, seq : Nat, tail : Nat]
        /\ lastState'.seq <= detectionSeq
    BY <1>3, JudgedType DEF Commit, Typed, AgentTypeOK, Numbered
  <2>3. pass' \in [Passers -> DetectionPass]
    BY <1>3, Constants DEF Commit, Typed, AgentTypeOK
  <2>4. ASSUME NEW q \in Passers PROVE pass'[q].seq <= detectionSeq /\ pass'[q].tail <= Len(appended)
    <3>1. detectionSeq \in Nat /\ Len(appended) \in Nat
      BY LenProperties DEF Typed, AgentTypeOK
    <3>2. pass'[q] = NoPass \/ pass'[q] = pass[q]
      BY <1>3 DEF Commit, Typed, AgentTypeOK
    <3> QED BY <3>1, <3>2, Constants DEF Typed, Numbered
  <2>5. Numbered'
    BY <2>1, <2>2, <2>4 DEF Numbered, environment
  <2> QED BY <2>1, <2>2, <2>3, <2>5 DEF Typed, AgentTypeOK, environment, threads, records, prompting
<1> QED BY <1>1, <1>2, <1>3 DEF PassStep

LEMMA TypedPrompt ==
  ASSUME Typed, NEW r \in Prompts, Prompt(r) \/ Decide(r) \/ Paste(r) \/ Enter(r) PROVE Typed'
<1>1. CASE Prompt(r)
  <2>1. UNCHANGED <<environment, threads, records, lastState>>
    BY <1>1 DEF Prompt
  <2>2. asking' \in [Prompts -> {"new", "detecting", "deciding", "pasted", "entered", "refused"}]
    BY <1>1 DEF Prompt, Typed, AgentTypeOK
  <2>3. typedInto' \in [Prompts -> BOOLEAN]
    <3>1. PICK b \in BOOLEAN : b = (ShowsDialog /\ observed = Len(appended))
      OBVIOUS
    <3>2. typedInto' = typedInto \/ typedInto' = [typedInto EXCEPT ![r] = b]
      BY <1>1, <3>1 DEF Prompt
    <3> QED BY <3>2 DEF Typed, AgentTypeOK
  <2>4. pass' \in [Passers -> DetectionPass] /\ detectionSeq' \in Nat /\ Numbered'
    <3>1. CASE Reserve(r)
      BY <2>1, <3>1, ReserveTyped, Constants DEF environment
    <3>2. CASE UNCHANGED <<detectionSeq, pass>>
      BY <2>1, <3>2 DEF Typed, AgentTypeOK, Numbered, environment
    <3> QED BY <1>1, <3>1, <3>2 DEF Prompt
  <2> QED BY <2>1, <2>2, <2>3, <2>4 DEF Typed, AgentTypeOK, environment, threads, records
<1>2. CASE Decide(r) \/ Paste(r) \/ Enter(r)
  <2>1. UNCHANGED <<environment, threads, records, detectionSeq, pass, lastState, typedInto>>
    BY <1>2 DEF Decide, Paste, Enter
  <2>2. asking' \in [Prompts -> {"new", "detecting", "deciding", "pasted", "entered", "refused"}]
    BY <1>2 DEF Decide, Paste, Enter, Typed, AgentTypeOK
  <2> QED BY <2>1, <2>2 DEF Typed, AgentTypeOK, Numbered, environment, threads, records
<1> QED BY <1>1, <1>2
-----------------------------------------------------------------------------
(***************************************************************************)
(* The inductive invariant.  While a dialog has been on the screen since a *)
(* request came, every pass numbered from the request's own on has read    *)
(* that dialog, whatever it has read so far; so the committed state says   *)
(* "blocked" as soon as one of them commits.                               *)
(***************************************************************************)
\* A pass that has read the scrollback has the dialog in what it read, or the
\* tracker has it for the pass to read; one that has read the tracker has it.
Coherent(x, a, n) ==
  /\ x.stage = "tailed" =>
       x.tail \in 1..Len(a) /\ (a[x.tail].text = "blocked" \/ Signals(a, n))
  /\ x.stage \in {"tracked", "probed", "recorded", "judged"} =>
       /\ x.tail \in 1..Len(a) /\ x.osc.title = "none"
       /\ x.osc.progress = "blocked" \/ (x.osc.progress = "none" /\ a[x.tail].text = "blocked")
  /\ x.stage = "judged" => x.agent

\* s is the number of the request's own pass.
Guarded(r, s) ==
  /\ (pass[r].stage # "none" /\ pass[r].seq = s) \/ lastState.seq >= s
  /\ \A p \in Passers : pass[p].stage # "none" /\ pass[p].seq >= s => Coherent(pass[p], appended, observed)
  /\ lastState.seq >= s => lastState.status = "blocked"

Safe(r) ==
  ~gone /\ typedInto[r] =>
    /\ asking[r] \notin {"deciding", "pasted"}
    /\ asking[r] = "detecting" => ShowsDialog /\ \E s \in Nat \ {0} : Guarded(r, s)

ExitOrder == reading \in {"exiting", "over"} => gone

AgentInv == Typed /\ ExitOrder /\ \A r \in Prompts : Safe(r)

LEMMA DialogIs ==
  ASSUME AgentTypeOK, ShowsDialog
  PROVE  /\ ~exitRecord /\ Len(appended) \in Nat /\ Len(appended) >= 1
         /\ TitleOf(appended, observed) = "none"
         /\ Signals(appended, observed) \/ appended[Len(appended)].text = "blocked"
<1>1. appended \in Seq(Looks) /\ Len(appended) \in Nat /\ observed \in 0..Len(appended)
  BY LenProperties DEF AgentTypeOK
<1>2. PICK o : o = Tracked(observed)
  OBVIOUS
<1>3. /\ o.title \in {"none", "working"} /\ o.title = TitleOf(appended, observed)
      /\ o.progress = IF Signals(appended, observed) THEN "blocked" ELSE "none"
  BY <1>2, TrackedIs
<1>4. ~exitRecord /\ DetectStatus(TRUE, Len(appended), o) = "blocked"
  BY <1>2 DEF ShowsDialog
<1>5. o.title = "none"
  BY <1>3, <1>4 DEF DetectStatus
<1>6. Signals(appended, observed) \/ ScreenStatus(Len(appended)) = "blocked"
  BY <1>3, <1>4, <1>5 DEF DetectStatus
<1>7. Len(appended) # 0
  BY <1>1, <1>6 DEF Signals, ScreenStatus
<1>8. Signals(appended, observed) \/ appended[Len(appended)].text = "blocked"
  BY <1>6, <1>7 DEF ScreenStatus
<1> QED BY <1>1, <1>3, <1>4, <1>5, <1>7, <1>8

LEMMA CoherentStays ==
  ASSUME NEW x \in DetectionPass, NEW a \in Seq(Looks), NEW n \in 0..Len(a), Coherent(x, a, n),
         NEW b \in Seq(Looks), NEW m \in 0..Len(b), n <= m, Len(a) <= Len(b),
         \A i \in 1..Len(a) : b[i] = a[i]
  PROVE  Coherent(x, b, m)
<1>1. x.tail \in 1..Len(a) => x.tail \in 1..Len(b) /\ b[x.tail] = a[x.tail]
  BY LenProperties
<1>2. Signals(a, n) => Signals(b, m)
  BY SignalsStay
<1> QED BY <1>1, <1>2 DEF Coherent

\* A judged pass that is coherent says "blocked".
LEMMA CoherentBlocks ==
  ASSUME Typed, NEW p \in Passers, pass[p].stage = "judged", Coherent(pass[p], appended, observed)
  PROVE  Judged(p).status = "blocked"
<1>1. PICK x : x = pass[p] /\ x.tail \in Nat
  BY PassRecords DEF Typed, AgentTypeOK
<1>2. /\ x.agent /\ x.tail # 0 /\ x.osc.title = "none"
      /\ x.osc.progress = "blocked" \/ (x.osc.progress = "none" /\ appended[x.tail].text = "blocked")
  BY <1>1 DEF Coherent
<1>3. DetectStatus(x.agent, x.tail, x.osc) = "blocked"
  BY <1>2 DEF DetectStatus, ScreenStatus
<1> QED BY <1>1, <1>3, JudgedType

\* What a step has to show for a request that it does not move.
LEMMA SafeKept ==
  ASSUME NEW r \in Prompts, Safe(r), asking'[r] = asking[r],
         ~gone' /\ typedInto'[r] => ~gone /\ typedInto[r],
         asking[r] = "detecting" /\ typedInto'[r] /\ ShowsDialog => ShowsDialog',
         \A s \in Nat \ {0} : ShowsDialog /\ ~gone /\ Guarded(r, s) => Guarded(r, s)'
  PROVE  Safe(r)'
BY DEF Safe

LEMMA DialogUnchanged ==
  ASSUME UNCHANGED <<appended, observed, exitRecord>> PROVE ShowsDialog' = ShowsDialog
BY DEF ShowsDialog, DetectStatus, ScreenStatus, Tracked, Latest

LEMMA WitnessIs ==
  ASSUME Witness, NEW r \in Prompts
  PROVE  typedInto'[r] => typedInto[r] /\ (asking[r] \in {"detecting", "deciding"} => ShowsDialog')
BY DEF Witness

LEMMA AgentInitHolds == AgentInit => AgentInv
<1> SUFFICES ASSUME AgentInit PROVE AgentInv
  OBVIOUS
<1>1. \A r \in Prompts : asking[r] = "new"
  BY DEF AgentInit
<1>2. \A r \in Prompts : Safe(r)
  BY <1>1 DEF Safe
<1>3. ExitOrder
  BY DEF AgentInit, ExitOrder
<1> QED BY <1>2, <1>3, AgentInitTyped DEF AgentInv
-----------------------------------------------------------------------------
(***************************************************************************)
(* Every step keeps it.                                                    *)
(***************************************************************************)
\* Output is appended and tracked.
LEMMA GuardedGrows ==
  ASSUME Typed, NEW r, NEW s, Guarded(r, s), pass' = pass, lastState' = lastState,
         appended' \in Seq(Looks), observed' \in 0..Len(appended'), observed <= observed',
         Len(appended) <= Len(appended'), \A i \in 1..Len(appended) : appended'[i] = appended[i]
  PROVE  Guarded(r, s)'
<1>1. ASSUME NEW p \in Passers, Coherent(pass[p], appended, observed)
      PROVE  Coherent(pass[p], appended', observed')
  <2>1. pass[p] \in DetectionPass /\ appended \in Seq(Looks) /\ observed \in 0..Len(appended)
    BY DEF Typed, AgentTypeOK
  <2> QED BY <1>1, <2>1, CoherentStays
<1> QED BY <1>1 DEF Guarded

LEMMA SafeOutput ==
  ASSUME AgentInv, AppendOutput \/ ObserveOsc, NEW r \in Prompts PROVE Safe(r)'
<1>1. Typed /\ Safe(r) /\ Typed'
  BY TypedAppend, TypedReader DEF AgentInv
<1>2. appended \in Seq(Looks) /\ Len(appended) \in Nat /\ observed \in 0..Len(appended)
  BY <1>1, LenProperties DEF Typed, AgentTypeOK
<1>3. /\ appended' \in Seq(Looks) /\ observed' \in 0..Len(appended') /\ observed <= observed'
      /\ Len(appended) <= Len(appended') /\ \A i \in 1..Len(appended) : appended'[i] = appended[i]
  <2>1. appended' \in Seq(Looks) /\ observed' \in 0..Len(appended')
    BY <1>1 DEF Typed, AgentTypeOK
  <2>2. CASE AppendOutput
    <3>1. PICK l \in Looks : appended' = Append(appended, l) /\ observed' = observed
      BY <2>2 DEF AppendOutput
    <3>2. Len(appended') = Len(appended) + 1 /\ \A i \in 1..Len(appended) : appended'[i] = appended[i]
      BY <1>2, <3>1, AppendProperties
    <3> QED BY <1>2, <2>1, <3>1, <3>2
  <2>3. CASE ObserveOsc
    BY <1>2, <2>1, <2>3 DEF ObserveOsc
  <2> QED BY <2>2, <2>3
<1>4. UNCHANGED <<pass, lastState, gone, asking>> /\ Witness
  BY DEF AppendOutput, ObserveOsc
<1>5. \A s \in Nat \ {0} : Guarded(r, s) => Guarded(r, s)'
  BY <1>1, <1>3, <1>4, GuardedGrows
<1>6. typedInto'[r] => typedInto[r] /\ (asking[r] \in {"detecting", "deciding"} => ShowsDialog')
  BY <1>4, WitnessIs
<1> QED BY <1>1, <1>4, <1>5, <1>6, SafeKept

\* A new pass is numbered.
LEMMA GuardedReserve ==
  ASSUME Typed, NEW p \in Passers, Reserve(p), NEW r, r # p, NEW s, Guarded(r, s),
         UNCHANGED <<lastState, appended, observed>>
  PROVE  Guarded(r, s)'
<1>1. PICK x \in DetectionPass : pass' = [pass EXCEPT ![p] = x] /\ x.stage = "reserved"
  BY Reserves
<1>2. Coherent(x, appended, observed)
  BY <1>1 DEF Coherent
<1>3. pass \in [Passers -> DetectionPass]
  BY DEF Typed, AgentTypeOK
<1>4. pass'[r] = pass[r]
  BY <1>1, <1>3
<1>5. ASSUME NEW q \in Passers, pass'[q].stage # "none", pass'[q].seq >= s
      PROVE  Coherent(pass'[q], appended, observed)
  <2>1. CASE q = p
    BY <1>1, <1>2, <1>3, <2>1
  <2>2. CASE q # p
    BY <1>1, <1>3, <1>5, <2>2 DEF Guarded
  <2> QED BY <2>1, <2>2
<1> QED BY <1>4, <1>5 DEF Guarded

LEMMA SafeQuiet ==
  ASSUME NEW r \in Prompts, Safe(r), UNCHANGED <<appended, observed, exitRecord, pass, lastState>>,
         asking'[r] = asking[r], typedInto'[r] = typedInto[r], gone' = gone
  PROVE  Safe(r)'
<1>1. ShowsDialog' = ShowsDialog
  BY DialogUnchanged
<1>2. \A s \in Nat \ {0} : Guarded(r, s) => Guarded(r, s)'
  BY DEF Guarded
<1> QED BY <1>1, <1>2, SafeKept

LEMMA SafeReserve ==
  ASSUME Typed, NEW p \in Passers, Reserve(p), NEW r \in Prompts, r # p, Safe(r),
         UNCHANGED <<appended, observed, exitRecord, lastState>>,
         asking'[r] = asking[r], typedInto'[r] = typedInto[r], gone' = gone
  PROVE  Safe(r)'
<1>1. ShowsDialog' = ShowsDialog
  BY DialogUnchanged
<1>2. \A s \in Nat \ {0} : Guarded(r, s) => Guarded(r, s)'
  BY GuardedReserve
<1> QED BY <1>1, <1>2, SafeKept

\* A pass reads on.
LEMMA GuardedMoves ==
  ASSUME Typed, NEW p \in Passers, NEW x, Moves(p, x), NEW r, NEW s \in Nat, Guarded(r, s),
         Coherent(pass[p], appended, observed) => Coherent(x, appended, observed),
         UNCHANGED <<lastState, appended, observed>>
  PROVE  Guarded(r, s)'
<1>1. pass \in [Passers -> DetectionPass] /\ pass' = [pass EXCEPT ![p] = x]
  BY DEF Typed, AgentTypeOK, Moves
<1>2. ASSUME NEW q \in Passers, pass'[q].stage # "none", pass'[q].seq >= s
      PROVE  Coherent(pass'[q], appended, observed)
  <2>1. CASE q = p
    <3>1. pass'[q] = x /\ pass[p].stage # "none" /\ pass[p].seq >= s
      BY <1>1, <1>2, <2>1 DEF Moves
    <3> QED BY <3>1 DEF Guarded
  <2>2. CASE q # p
    BY <1>1, <1>2, <2>2 DEF Guarded
  <2> QED BY <2>1, <2>2
<1>3. pass[r].stage # "none" /\ pass[r].seq = s => pass'[r].stage # "none" /\ pass'[r].seq = s
  BY <1>1 DEF Moves
<1> QED BY <1>2, <1>3 DEF Guarded

LEMMA SafeMoves ==
  ASSUME AgentInv, NEW p \in Passers,
         ReadTail(p) \/ ReadTracker(p) \/ Probe(p) \/ UpdateExitRecord(p) \/ Judge(p),
         NEW r \in Prompts
  PROVE  Safe(r)'
<1>1. Typed /\ Safe(r) /\ AgentTypeOK /\ ExitOrder
  BY DEF AgentInv, Typed
<1>2. UNCHANGED <<lastState, appended, observed, gone, asking>>
  BY DEF ReadTail, ReadTracker, Probe, UpdateExitRecord, Judge, environment, threads, prompting
<1>3. /\ typedInto'[r] => typedInto[r]
      /\ asking[r] = "detecting" /\ typedInto'[r] /\ ShowsDialog => ShowsDialog'
  <2>1. CASE UpdateExitRecord(p)
    BY <2>1, WitnessIs DEF UpdateExitRecord
  <2>2. CASE ~UpdateExitRecord(p)
    <3>1. UNCHANGED <<exitRecord, typedInto>>
      BY <2>2 DEF ReadTail, ReadTracker, Probe, Judge, records, prompting
    <3> QED BY <1>2, <3>1, DialogUnchanged
  <2> QED BY <2>1, <2>2
<1>4. ASSUME ShowsDialog, ~gone
      PROVE  \E x : /\ Moves(p, x)
                    /\ Coherent(pass[p], appended, observed) => Coherent(x, appended, observed)
  <2>1. /\ ~exitRecord /\ Len(appended) \in Nat /\ Len(appended) >= 1
        /\ TitleOf(appended, observed) = "none"
        /\ Signals(appended, observed) \/ appended[Len(appended)].text = "blocked"
    BY <1>1, <1>4, DialogIs
  <2>2. CASE ReadTail(p)
    <3>1. PICK x : Moves(p, x) /\ x.stage = "tailed" /\ x.tail = Len(appended)
      BY <1>1, <2>2, TailRead
    <3>2. x.tail \in 1..Len(appended)
      BY <2>1, <3>1
    <3> QED BY <2>1, <3>1, <3>2 DEF Coherent
  <2>3. CASE ReadTracker(p)
    <3>1. PICK x : /\ Moves(p, x) /\ pass[p].stage = "tailed" /\ x.stage = "tracked"
                   /\ x.tail = pass[p].tail /\ x.osc = Tracked(observed)
      BY <1>1, <1>4, <2>3, TrackerRead DEF ExitOrder
    <3>2. x.osc.title = "none" /\ x.osc.progress = IF Signals(appended, observed) THEN "blocked" ELSE "none"
      BY <1>1, <2>1, <3>1, TrackedIs
    <3> QED BY <3>1, <3>2 DEF Coherent
  <2>4. CASE Probe(p)
    <3>1. PICK x : /\ Moves(p, x) /\ pass[p].stage = "tracked" /\ x.stage \in {"probed", "recorded"}
                   /\ x.tail = pass[p].tail /\ x.osc = pass[p].osc
      BY <1>1, <2>4, Probed
    <3> QED BY <3>1 DEF Coherent
  <2>5. CASE UpdateExitRecord(p)
    <3>1. PICK x : /\ Moves(p, x) /\ pass[p].stage = "probed" /\ x.stage = "recorded"
                   /\ x.tail = pass[p].tail /\ x.osc = pass[p].osc
      BY <1>1, <2>5, Recorded
    <3> QED BY <3>1 DEF Coherent
  <2>6. CASE Judge(p)
    <3>1. PICK x : /\ Moves(p, x) /\ pass[p].stage = "recorded" /\ x.stage = "judged"
                   /\ x.tail = pass[p].tail /\ x.osc = pass[p].osc
                   /\ x.tail > 0 => x.agent
      BY <1>1, <2>1, <2>6, JudgedBy
    <3>2. pass[p].tail \in 1..Len(appended) => pass[p].tail > 0
      BY <2>1
    <3> QED BY <3>1, <3>2 DEF Coherent
  <2> QED BY <2>2, <2>3, <2>4, <2>5, <2>6
<1>5. \A s \in Nat \ {0} : ShowsDialog /\ ~gone /\ Guarded(r, s) => Guarded(r, s)'
  BY <1>1, <1>2, <1>4, GuardedMoves
<1> QED BY <1>1, <1>2, <1>3, <1>5, SafeKept

\* A pass commits, or finds a later one committed.
LEMMA SafeCommit ==
  ASSUME AgentInv, NEW p \in Passers, Commit(p), NEW r \in Prompts
  PROVE  Safe(r)'
<1>1. Typed /\ Safe(r)
  BY DEF AgentInv
<1>2. UNCHANGED <<appended, observed, exitRecord, gone, asking, typedInto>>
  BY DEF Commit, environment, threads, records, prompting
<1>3. /\ pass \in [Passers -> DetectionPass] /\ pass' = [pass EXCEPT ![p] = NoPass]
      /\ pass[p].stage = "judged"
  BY <1>1 DEF Typed, AgentTypeOK, Commit, InPass
<1>4. /\ pass[p].seq \in Nat /\ lastState.seq \in Nat
      /\ \/ lastState' = Judged(p) /\ (lastState.seq < pass[p].seq \/ lastState.seq = 0)
         \/ lastState' = lastState /\ lastState.seq >= pass[p].seq
  <2>1. pass[p].seq \in Nat /\ lastState.seq \in Nat
    BY <1>1, PassRecords DEF Typed, AgentTypeOK
  <2>2. CASE lastState = NoState
    BY <2>1, <2>2, Constants DEF Commit
  <2>3. CASE lastState # NoState
    BY <2>1, <2>3 DEF Commit
  <2> QED BY <2>1, <2>2, <2>3
<1>5. Judged(p).seq = pass[p].seq
  BY <1>1, JudgedType
<1>6. ASSUME NEW s \in Nat \ {0}, Guarded(r, s) PROVE Guarded(r, s)'
  <2>1. ASSUME NEW q \in Passers, pass'[q].stage # "none", pass'[q].seq >= s
        PROVE  Coherent(pass'[q], appended, observed)
    <3>1. q # p /\ pass'[q] = pass[q]
      BY <1>3, <2>1, Constants
    <3> QED BY <1>6, <2>1, <3>1 DEF Guarded
  <2>2. pass[p].seq >= s => Judged(p).status = "blocked"
    BY <1>1, <1>3, <1>6, CoherentBlocks DEF Guarded
  <2>3. lastState'.seq >= s => lastState'.status = "blocked"
    BY <1>4, <1>5, <1>6, <2>2 DEF Guarded
  <2>4. (pass'[r].stage # "none" /\ pass'[r].seq = s) \/ lastState'.seq >= s
    <3>1. CASE r = p /\ pass[r].seq = s
      BY <1>4, <1>5, <3>1
    <3>2. CASE r # p /\ pass[r].stage # "none" /\ pass[r].seq = s
      BY <1>3, <3>2
    <3>3. CASE lastState.seq >= s
      BY <1>4, <1>5, <3>3
    <3> QED BY <1>6, <3>1, <3>2, <3>3 DEF Guarded
  <2> QED BY <1>2, <2>1, <2>3, <2>4 DEF Guarded
<1>7. ShowsDialog' = ShowsDialog
  BY <1>2, DialogUnchanged
<1> QED BY <1>1, <1>2, <1>6, <1>7, SafeKept

\* The request itself.
LEMMA SafePrompt ==
  ASSUME AgentInv, NEW q \in Prompts, Prompt(q), NEW r \in Prompts
  PROVE  Safe(r)'
<1>1. Typed /\ Safe(r) /\ q \in Passers
  BY Constants DEF AgentInv
<1>2. UNCHANGED <<appended, observed, exitRecord, lastState, gone>>
  BY DEF Prompt, environment, threads, records
<1>3. asking \in [Prompts -> {"new", "detecting", "deciding", "pasted", "entered", "refused"}]
      /\ typedInto \in [Prompts -> BOOLEAN]
  BY <1>1 DEF Typed, AgentTypeOK
<1>4. CASE UNCHANGED <<detectionSeq, pass, typedInto>> /\ asking' = [asking EXCEPT ![q] = "refused"]
  <2>1. CASE r = q
    BY <1>3, <1>4, <2>1 DEF Safe
  <2>2. CASE r # q
    BY <1>1, <1>2, <1>3, <1>4, <2>2, SafeQuiet
  <2> QED BY <2>1, <2>2
<1>5. CASE /\ asking' = [asking EXCEPT ![q] = "detecting"] /\ Reserve(q)
           /\ typedInto' = [typedInto EXCEPT ![q] = ShowsDialog /\ observed = Len(appended)]
  <2>1. CASE r # q
    BY <1>1, <1>2, <1>3, <1>5, <2>1, SafeReserve
  <2>2. CASE r = q
    <3>1. PICK x \in DetectionPass : /\ pass' = [pass EXCEPT ![q] = x]
                                     /\ x.stage = "reserved" /\ x.seq = detectionSeq + 1
      BY <1>1, <1>5, Reserves
    <3>2. pass \in [Passers -> DetectionPass] /\ detectionSeq \in Nat /\ lastState.seq \in Nat
      BY <1>1 DEF Typed, AgentTypeOK
    <3>3. PICK s \in Nat \ {0} : s = detectionSeq + 1
      BY <3>2
    <3>4. ~(lastState.seq >= s)
      BY <1>1, <3>2, <3>3 DEF Typed, Numbered
    <3>5. pass'[r] = x
      BY <1>1, <2>2, <3>1, <3>2
    <3>6. ASSUME NEW p \in Passers, pass'[p].seq >= s PROVE Coherent(pass'[p], appended, observed)
      <4>1. CASE p = q
        BY <2>2, <3>1, <3>5, <4>1 DEF Coherent
      <4>2. CASE p # q
        <5>1. pass'[p] = pass[p] /\ pass[p].seq \in Nat /\ pass[p].seq <= detectionSeq
          BY <1>1, <3>1, <3>2, <4>2, PassRecords DEF Typed, Numbered
        <5> QED BY <3>2, <3>3, <3>6, <5>1
      <4> QED BY <4>1, <4>2
    <3>7. Guarded(r, s)'
      BY <1>2, <3>1, <3>3, <3>4, <3>5, <3>6 DEF Guarded
    <3>8. asking'[r] = "detecting" /\ (typedInto'[r] => ShowsDialog)
      BY <1>3, <1>5, <2>2
    <3>9. ShowsDialog' = ShowsDialog
      BY <1>2, DialogUnchanged
    <3> QED BY <3>7, <3>8, <3>9 DEF Safe
  <2> QED BY <2>1, <2>2
<1> QED BY <1>4, <1>5 DEF Prompt

LEMMA SafeDecide ==
  ASSUME AgentInv, NEW q \in Prompts, Decide(q) \/ Paste(q) \/ Enter(q), NEW r \in Prompts
  PROVE  Safe(r)'
<1>1. Typed /\ Safe(r)
  BY DEF AgentInv
<1>2. UNCHANGED <<appended, observed, exitRecord, pass, lastState, gone, typedInto>>
  BY DEF Decide, Paste, Enter, environment, threads, records
<1>3. asking \in [Prompts -> {"new", "detecting", "deciding", "pasted", "entered", "refused"}]
  BY <1>1 DEF Typed, AgentTypeOK
<1>4. CASE r # q
  <2>1. asking'[r] = asking[r]
    BY <1>3, <1>4 DEF Decide, Paste, Enter
  <2> QED BY <1>1, <1>2, <2>1, SafeQuiet
<1>5. CASE r = q /\ Decide(q)
  <2>1. /\ asking[r] = "detecting" /\ pass[r] = NoPass
        /\ asking'[r] = IF lastState.status = "blocked" THEN "refused" ELSE "deciding"
    BY <1>3, <1>5 DEF Decide
  <2>2. CASE ~gone /\ typedInto[r]
    <3>1. PICK s \in Nat \ {0} : Guarded(r, s)
      BY <1>1, <2>1, <2>2 DEF Safe
    <3>2. lastState.status = "blocked"
      BY <2>1, <3>1, Constants DEF Guarded
    <3>3. asking'[r] = "refused"
      BY <2>1, <3>2
    <3> QED BY <3>3 DEF Safe
  <2>3. CASE ~(~gone /\ typedInto[r])
    BY <1>2, <2>3 DEF Safe
  <2> QED BY <2>2, <2>3
<1>6. CASE r = q /\ Paste(q)
  <2>1. asking[r] = "deciding" /\ ~(~gone' /\ typedInto'[r])
    BY <1>1, <1>2, <1>6 DEF Paste, Safe
  <2> QED BY <2>1 DEF Safe
<1>7. CASE r = q /\ Enter(q)
  <2>1. asking'[r] = "entered"
    BY <1>3, <1>7 DEF Enter
  <2> QED BY <2>1 DEF Safe
<1> QED BY <1>4, <1>5, <1>6, <1>7
-----------------------------------------------------------------------------
(***************************************************************************)
(* The results.                                                            *)
(***************************************************************************)
LEMMA KeptByThreads ==
  ASSUME AgentInv,
         AppendOutput \/ ReaderStep \/ WindowExpires \/ SweeperStep \/ NotifyExited \/ AgentProcess
  PROVE  AgentInv'
<1>1. Typed'
  BY TypedAppend, TypedReader, TypedSweeper DEF AgentInv, ReaderStep
<1>2. ExitOrder'
  BY DEF AgentInv, ExitOrder, AppendOutput, ReaderStep, ObserveOsc, PublishIfChanged, ForgetState,
         WindowExpires, SweeperStep, SweeperTick, RunStatusDetection, NotifyExited, AgentProcess, threads
<1>3. ASSUME NEW r \in Prompts PROVE Safe(r)'
  <2>1. Typed /\ Safe(r) /\ r # "reader" /\ r # "sweeper"
    BY OwnPasses DEF AgentInv
  <2>2. CASE AppendOutput \/ ObserveOsc
    BY <2>2, SafeOutput
  <2>3. CASE PublishIfChanged
    <3>1. UNCHANGED <<appended, observed, exitRecord, lastState, asking, typedInto, gone>>
      BY <2>3 DEF PublishIfChanged, environment, records, prompting
    <3>2. Reserve("reader") \/ pass' = pass
      BY <2>3 DEF PublishIfChanged
    <3> QED BY <2>1, <3>1, <3>2, SafeQuiet, SafeReserve, Constants
  <2>4. CASE RunStatusDetection
    <3>1. UNCHANGED <<appended, observed, exitRecord, lastState, asking, typedInto, gone>>
      BY <2>4 DEF RunStatusDetection, environment, records, prompting
    <3>2. Reserve("sweeper") \/ pass' = pass
      BY <2>4 DEF RunStatusDetection
    <3> QED BY <2>1, <3>1, <3>2, SafeQuiet, SafeReserve, Constants
  <2>5. CASE WindowExpires \/ SweeperTick \/ AgentProcess
    <3>1. UNCHANGED <<appended, observed, exitRecord, pass, lastState, asking, typedInto, gone>>
      BY <2>5 DEF WindowExpires, SweeperTick, AgentProcess, environment, threads, records, prompting
    <3> QED BY <2>1, <3>1, SafeQuiet
  <2>6. CASE NotifyExited \/ ForgetState
    <3>1. gone'
      BY <2>6 DEF NotifyExited, ForgetState, AgentInv, ExitOrder
    <3> QED BY <3>1 DEF Safe
  <2> QED BY <2>2, <2>3, <2>4, <2>5, <2>6 DEF ReaderStep, SweeperStep
<1> QED BY <1>1, <1>2, <1>3 DEF AgentInv

LEMMA AgentStep == AgentInv /\ [AgentNext]_agentVars => AgentInv'
<1> SUFFICES ASSUME AgentInv, [AgentNext]_agentVars PROVE AgentInv'
  OBVIOUS
<1>1. CASE AppendOutput \/ ReaderStep \/ WindowExpires \/ SweeperStep \/ NotifyExited \/ AgentProcess
  BY <1>1, KeptByThreads
<1>2. ASSUME NEW p \in Passers, PassStep(p) PROVE AgentInv'
  <2>1. Typed'
    BY <1>2, TypedPass DEF AgentInv
  <2>2. ExitOrder'
    BY <1>2 DEF AgentInv, ExitOrder, PassStep, ReadTail, ReadTracker, Probe, UpdateExitRecord, Judge,
                Commit, threads
  <2>3. \A r \in Prompts : Safe(r)'
    BY <1>2, SafeMoves, SafeCommit DEF PassStep
  <2> QED BY <2>1, <2>2, <2>3 DEF AgentInv
<1>3. ASSUME NEW q \in Prompts, Prompt(q) \/ Decide(q) \/ Paste(q) \/ Enter(q) PROVE AgentInv'
  <2>1. Typed'
    BY <1>3, TypedPrompt DEF AgentInv
  <2>2. ExitOrder'
    BY <1>3 DEF AgentInv, ExitOrder, Prompt, Decide, Paste, Enter, threads
  <2>3. \A r \in Prompts : Safe(r)'
    BY <1>3, SafePrompt, SafeDecide
  <2> QED BY <2>1, <2>2, <2>3 DEF AgentInv
<1>4. CASE UNCHANGED agentVars
  <2>1. Typed' /\ ExitOrder'
    BY <1>4 DEF AgentInv, Typed, AgentTypeOK, Numbered, ExitOrder, agentVars, environment, threads,
                records, prompting
  <2>2. ASSUME NEW r \in Prompts PROVE Safe(r)'
    BY <1>4, SafeQuiet DEF AgentInv, agentVars, environment, threads, records, prompting
  <2> QED BY <2>1, <2>2 DEF AgentInv
<1> QED BY <1>1, <1>2, <1>3, <1>4 DEF AgentNext

LEMMA AgentInvariant == AgentSpec => []AgentInv
BY AgentInitHolds, AgentStep, PTL DEF AgentSpec

\* The runtime's records, its passes and its requests keep their types; the
\* numbers of passes and of the chunks they have read are natural numbers.
THEOREM AgentTypeCorrect == AgentSpec => []AgentTypeOK
<1>1. AgentInv => AgentTypeOK
  BY DEF AgentInv, Typed
<1> QED BY <1>1, AgentInvariant, PTL

\* agent_prompt pastes nothing into a dialog that was on the screen when it was
\* called and has been there since, for any number of requests and of passes by
\* the reader, the sweeper and the other requests, in any interleaving.
THEOREM DialogIsNotTypedInto == AgentSpec => []NeverTypedIntoDialog
<1>1. AgentInv => NeverTypedIntoDialog
  BY DEF AgentInv, Safe, NeverTypedIntoDialog
<1> QED BY <1>1, AgentInvariant, PTL

-----------------------------------------------------------------------------
(***************************************************************************)
(* EventFanout: pages that refetch when an event says so.                  *)
(***************************************************************************)

LEMMA FanBounds ==
  Subscribed \in Nat \ {0} /\ Refreshes \in Nat \ {0} /\ Commits \in Nat /\ Troubles \in Nat
BY FanoutAssumption

\* The refreshes q of a page that shows version s of v: one of them at most is
\* current, and it will not show an older version.
Fresh(q, s, v) ==
  /\ q \in Seq(Fetches) /\ Len(q) <= Refreshes /\ s \in {Nothing} \cup Nat /\ s <= v
  /\ \A i \in 1..Len(q) : /\ q[i].read <= v
                          /\ q[i].current /\ q[i].read # Unread => s <= q[i].read
  /\ \A i, j \in 1..Len(q) : q[i].current /\ q[j].current => i = j

\* An event is published of a change that has been made.
FanInv ==
  /\ FanTypeOK /\ DOMAIN fetches = Browsers /\ unpublished <= version
  /\ \A b \in Browsers : Fresh(fetches[b], shown[b], version)

LEMMA FanInvInit == FanInit => FanInv
<1> SUFFICES ASSUME FanInit PROVE FanInv
  OBVIOUS
<1>1. <<>> \in Seq(Fetches) /\ Len(<<>>) = 0
  BY EmptySeq
<1>2. ASSUME NEW b \in Browsers PROVE fetches[b] = <<>> /\ shown[b] = Nothing
  BY DEF FanInit
<1>3. Fresh(<<>>, Nothing, 0)
  BY <1>1, FanBounds DEF Fresh, Nothing
<1>4. \A b \in Browsers : fetches[b] \in Seq(Fetches) /\ Len(fetches[b]) <= Refreshes
  <2>1. 0 <= Refreshes
    BY FanBounds
  <2>2. <<>> \in Seq(Fetches) /\ Len(<<>>) <= Refreshes
    BY <1>1, <2>1, Zenon
  <2> QED BY <1>2, <2>2, Zenon
<1>5. FanTypeOK
  <2>1. unpublished \in 0..Commits /\ trouble \in 0..Troubles /\ queue \in [Browsers -> 0..Subscribed]
    BY FanBounds DEF FanInit
  <2> QED BY <1>4, <2>1 DEF FanInit, FanTypeOK
<1> QED BY <1>2, <1>3, <1>5 DEF FanInit, FanInv

-----------------------------------------------------------------------------
\* The registry only moves on.
LEMMA FreshLater ==
  ASSUME NEW q, NEW s, NEW v \in Nat, NEW w \in Nat, v <= w, Fresh(q, s, v)
  PROVE  Fresh(q, s, w)
<1>1. \A i \in 1..Len(q) : q[i] \in Fetches
  BY ElementOfSeq DEF Fresh
<1>2. \A i \in 1..Len(q) : q[i].read \in Int
  BY <1>1 DEF Fetches, Unread
<1> QED BY <1>2 DEF Fresh, Nothing

\* A step of the backend or of a relay: what a page has asked for and shows
\* stays as it is.
LEMMA BackendTyped ==
  ASSUME FanInv, CommitChange \/ Publish \/ BackendDies \/ BackendReturns
  PROVE  FanInv' /\ UNCHANGED <<fetches, shown>>
<1>1. /\ version \in Nat /\ unpublished \in 0..Commits /\ trouble \in 0..Troubles /\ unpublished <= version
      /\ queue \in [Browsers -> 0..Subscribed] /\ listed \in [Browsers -> BOOLEAN] /\ up \in BOOLEAN
  BY DEF FanInv, FanTypeOK
<1>2. UNCHANGED <<relay, frames, kind, hidden, timer, bootstrap, fetches, shown>>
  BY DEF CommitChange, Publish, BackendDies, BackendReturns, fanRelays, fanPages
<1>3. version' \in Nat /\ version <= version'
  BY <1>1 DEF CommitChange, Publish, BackendDies, BackendReturns
<1>4. unpublished' \in 0..Commits /\ unpublished' <= version' /\ up' \in BOOLEAN /\ trouble' \in 0..Troubles
  <2>1. CASE CommitChange
    BY <1>1, <2>1, FanBounds DEF CommitChange
  <2>2. CASE Publish
    BY <1>1, <2>2, FanBounds DEF Publish
  <2>3. CASE BackendDies
    <3>1. up' = FALSE /\ unpublished' = 0 /\ trouble' = trouble + 1 /\ trouble < Troubles
      BY <2>3 DEF BackendDies
    <3>2. unpublished' \in 0..Commits /\ unpublished' <= version'
      <4>1. version' \in Nat /\ Commits \in Nat
        BY <1>3, FanBounds
      <4> QED BY <3>1, <4>1
    <3>3. trouble' \in 0..Troubles
      BY <1>1, <3>1, FanBounds
    <3> QED BY <3>1, <3>2, <3>3
  <2>4. CASE BackendReturns
    BY <1>1, <2>4, FanBounds DEF BackendReturns
  <2> QED BY <2>1, <2>2, <2>3, <2>4
<1>5. queue' \in [Browsers -> 0..Subscribed] /\ listed' \in [Browsers -> BOOLEAN]
  <2>1. CASE Publish
    BY <1>1, <2>1, FanBounds DEF Publish
  <2>2. CASE BackendDies
    BY <1>1, <2>2, FanBounds DEF BackendDies
  <2>3. CASE CommitChange \/ BackendReturns
    BY <1>1, <2>3 DEF CommitChange, BackendReturns, fanRelays
  <2> QED BY <2>1, <2>2, <2>3
<1>6. \A b \in Browsers : Fresh(fetches'[b], shown'[b], version')
  BY <1>1, <1>2, <1>3, FreshLater DEF FanInv
<1>7. FanTypeOK'
  BY <1>2, <1>3, <1>4, <1>5 DEF FanInv, FanTypeOK
<1> QED BY <1>2, <1>4, <1>6, <1>7 DEF FanInv

LEMMA RelayTyped ==
  ASSUME FanInv, NEW b \in Browsers,
         RelaySteps(b) \/ ConnectEvents(b) \/ SocketCloses(b) \/ Hide(b) \/ \E f \in frames[b] : OnFrame(b, f)
  PROVE  FanInv' /\ UNCHANGED <<fetches, shown>>
<1>1. /\ trouble \in 0..Troubles /\ frames \in [Browsers -> SUBSET FrameKinds]
      /\ queue \in [Browsers -> 0..Subscribed] /\ listed \in [Browsers -> BOOLEAN]
      /\ relay \in [Browsers -> {"none", "subscribing", "streaming", "waiting"}]
      /\ timer \in [Browsers -> BOOLEAN] /\ hidden \in [Browsers -> BOOLEAN]
  BY DEF FanInv, FanTypeOK
<1>2. UNCHANGED <<up, version, unpublished, kind, bootstrap, fetches, shown>>
  BY DEF RelaySteps, Subscribe, Forward, StreamEnds, BackoffOver, ConnectEvents, SocketCloses, Hide,
         OnFrame, fanBackend, fanPages
<1>3. trouble' \in 0..Troubles
  BY <1>1, FanBounds DEF RelaySteps, Subscribe, Forward, StreamEnds, BackoffOver, ConnectEvents,
     SocketCloses, Hide, OnFrame, fanBackend
<1>4. /\ relay' \in [Browsers -> {"none", "subscribing", "streaming", "waiting"}]
      /\ listed' \in [Browsers -> BOOLEAN]
  BY <1>1 DEF RelaySteps, Subscribe, Forward, StreamEnds, BackoffOver, ConnectEvents, SocketCloses, Hide,
     OnFrame, Unplug
<1>5. queue' \in [Browsers -> 0..Subscribed]
  BY <1>1, FanBounds DEF RelaySteps, Subscribe, Forward, StreamEnds, BackoffOver, ConnectEvents,
     SocketCloses, Hide, OnFrame, Unplug
<1>6. frames' \in [Browsers -> SUBSET FrameKinds]
  BY <1>1 DEF RelaySteps, Subscribe, Forward, StreamEnds, BackoffOver, ConnectEvents, SocketCloses, Hide,
     OnFrame, Unplug, Send, FrameKinds
<1>7. hidden' \in [Browsers -> BOOLEAN]
  BY <1>1 DEF RelaySteps, Subscribe, Forward, StreamEnds, BackoffOver, ConnectEvents, SocketCloses, Hide,
     OnFrame, fanPages
<1>8. timer' \in [Browsers -> BOOLEAN]
  <2>1. timer' = timer \/ \E t \in BOOLEAN : timer' = [timer EXCEPT ![b] = t]
    <3>1. CASE Hide(b)
      BY <3>1 DEF Hide
    <3>2. ASSUME NEW f, OnFrame(b, f) PROVE \E t \in BOOLEAN : timer' = [timer EXCEPT ![b] = t]
      BY <3>2 DEF OnFrame
    <3> QED BY <3>1, <3>2 DEF RelaySteps, Subscribe, Forward, StreamEnds, BackoffOver, ConnectEvents,
                              SocketCloses, fanPages
  <2> QED BY <1>1, <2>1
<1>9. FanTypeOK'
  BY <1>2, <1>3, <1>4, <1>5, <1>6, <1>7, <1>8 DEF FanInv, FanTypeOK
<1> QED BY <1>2, <1>9 DEF FanInv

-----------------------------------------------------------------------------
\* A page's refreshes and what it shows become q and s.
LEMMA PageKeeps ==
  ASSUME FanInv, NEW b \in Browsers, NEW q, NEW s,
         fetches' = [fetches EXCEPT ![b] = q], shown' = [shown EXCEPT ![b] = s], Fresh(q, s, version),
         {timer', hidden', bootstrap'} \subseteq [Browsers -> BOOLEAN],
         UNCHANGED <<fanBackend, fanRelays, kind>>
  PROVE  FanInv'
<1>1. /\ \A a \in Browsers : Fresh(fetches'[a], shown'[a], version)
      /\ DOMAIN fetches' = Browsers /\ shown \in [Browsers -> {Nothing} \cup Nat]
  BY DEF FanInv, FanTypeOK
<1>2. version' = version /\ unpublished' = unpublished
  BY DEF fanBackend
<1>3. \A a \in Browsers : fetches'[a] \in Seq(Fetches) /\ Len(fetches'[a]) <= Refreshes
  BY <1>1 DEF Fresh
<1>4. shown' \in [Browsers -> {Nothing} \cup Nat]
  <2>1. s \in {Nothing} \cup Nat
    BY DEF Fresh
  <2> QED BY <1>1, <2>1
<1>5. FanTypeOK'
  BY <1>3, <1>4 DEF FanInv, FanTypeOK, fanBackend, fanRelays
<1> QED BY <1>1, <1>2, <1>5 DEF FanInv

LEMMA FreshWithout ==
  ASSUME NEW v \in Nat, NEW q, NEW s, NEW t, NEW i \in 1..Len(q), Fresh(q, s, v),
         t = s \/ t = Nothing \/ (q[i].current /\ t = q[i].read /\ t # Unread)
  PROVE  Fresh(RemoveAt(q, i), t, v) /\ (t # Nothing => s <= t)
<1>1. PICK n \in Nat : n = Len(q)
  BY LenProperties DEF Fresh
<1>2. \A k \in 1..n : q[k] \in Fetches /\ q[k].read \in {Unread} \cup Nat
  <2>1. q \in Seq(Fetches)
    BY DEF Fresh
  <2>2. \A k \in 1..n : q[k] \in Fetches
    BY <1>1, <2>1, ElementOfSeq
  <2> QED BY <2>2 DEF Fetches
<1>3. i \in 1..n /\ q[i].read \in {Unread} \cup Nat
  BY <1>1, <1>2
<1>4. t \in {Nothing} \cup Nat /\ t <= v /\ (t # Nothing => s <= t) /\ s \in Int /\ t \in Int
  BY <1>3 DEF Fresh, Nothing, Unread
<1>5. PICK r : r = RemoveAt(q, i)
  OBVIOUS
<1>6. /\ r \in Seq(Fetches) /\ Len(r) = n - 1
      /\ \A k \in 1..n - 1 : r[k] = q[IF k < i THEN k ELSE k + 1]
  BY <1>1, <1>5, RemoveAtIs DEF Fresh
<1>7. \A k \in 1..n - 1 : \E m \in 1..n : r[k] = q[m] /\ m # i
  BY <1>1, <1>6, SMTT(30)
<1>8. \A j, k \in 1..n - 1 : r[j].current /\ r[k].current => j = k
  <2> SUFFICES ASSUME NEW j \in 1..n - 1, NEW k \in 1..n - 1, r[j].current, r[k].current PROVE j = k
    OBVIOUS
  <2>1. PICK a \in 1..n : a = (IF j < i THEN j ELSE j + 1) /\ r[j] = q[a]
    BY <1>1, <1>6
  <2>2. PICK c \in 1..n : c = (IF k < i THEN k ELSE k + 1) /\ r[k] = q[c]
    BY <1>1, <1>6
  <2>3. a = c
    BY <1>1, <2>1, <2>2 DEF Fresh
  <2> QED BY <1>1, <2>1, <2>2, <2>3
<1>9. \A k \in 1..n - 1 : r[k].read <= v /\ (r[k].current /\ r[k].read # Unread => t <= r[k].read)
  <2> SUFFICES ASSUME NEW k \in 1..n - 1
               PROVE  r[k].read <= v /\ (r[k].current /\ r[k].read # Unread => t <= r[k].read)
    OBVIOUS
  <2>1. PICK m \in 1..n : r[k] = q[m] /\ m # i
    BY <1>7
  <2>2. q[m].read <= v /\ (q[m].current /\ q[m].read # Unread => s <= q[m].read)
    BY <1>1 DEF Fresh
  <2>3. ~(q[i].current /\ q[m].current)
    BY <1>1, <2>1 DEF Fresh
  <2>4. q[m].read \in {Unread} \cup Nat
    BY <1>2
  <2> QED BY <2>1, <2>2, <2>3, <2>4 DEF Nothing, Unread
<1>10. n - 1 <= Refreshes
  BY <1>1, FanBounds DEF Fresh
<1> QED BY <1>4, <1>5, <1>6, <1>8, <1>9, <1>10 DEF Fresh

\* A refresh has got its answer, or goes on with the older calls.
LEMMA FreshAnswered ==
  ASSUME NEW v \in Nat, NEW q, NEW s, NEW i \in 1..Len(q), Fresh(q, s, v), NEW e \in Fetches,
         e.current = q[i].current, e.read \in {Unread, v}
  PROVE  Fresh([q EXCEPT ![i] = e], s, v)
<1>1. PICK n \in Nat : n = Len(q)
  BY LenProperties DEF Fresh
<1>2. PICK r : r = [q EXCEPT ![i] = e]
  OBVIOUS
<1>3. r \in Seq(Fetches) /\ Len(r) = n /\ \A k \in 1..n : r[k] = IF k = i THEN e ELSE q[k]
  BY <1>1, <1>2, ExceptSeq DEF Fresh
<1>4. \A k \in 1..n : r[k].current = q[k].current
  BY <1>3
<1>5. s <= v
  BY DEF Fresh
<1>6. \A k \in 1..n : r[k].read <= v /\ (r[k].current /\ r[k].read # Unread => s <= r[k].read)
  <2>1. e.read <= v /\ (e.read # Unread => s <= e.read)
    BY <1>5 DEF Unread
  <2>2. \A k \in 1..n : q[k].read <= v /\ (q[k].current /\ q[k].read # Unread => s <= q[k].read)
    BY <1>1 DEF Fresh
  <2> QED BY <1>3, <2>1, <2>2
<1> QED BY <1>1, <1>2, <1>3, <1>4, <1>6 DEF Fresh

\* A refresh starts and is the only current one.
LEMMA FreshStarted ==
  ASSUME FanInv, NEW b \in Browsers, StartRefresh(b)
  PROVE  \E q : fetches' = [fetches EXCEPT ![b] = q] /\ Fresh(q, shown[b], version)
<1>1. PICK o : o = fetches[b]
  OBVIOUS
<1>2. Fresh(o, shown[b], version) /\ DOMAIN fetches = Browsers /\ bootstrap[b] \in BOOLEAN
  BY <1>1 DEF FanInv, FanTypeOK
<1>3. PICK n \in Nat : n = Len(o) /\ n < Refreshes
  BY <1>1, <1>2, LenProperties, FanBounds DEF Fresh, StartRefresh
<1>4. \A i \in 1..n : o[i] \in Fetches
  BY <1>2, <1>3, ElementOfSeq DEF Fresh
<1>5. PICK old : old = [i \in 1..n |-> [o[i] EXCEPT !.current = FALSE]]
  OBVIOUS
<1>6. ASSUME NEW i \in 1..n
      PROVE  old[i] \in Fetches /\ old[i].read = o[i].read /\ old[i].current = FALSE
  <2>1. PICK e \in Fetches : e = o[i]
    BY <1>4
  <2>2. PICK f : f = [e EXCEPT !.current = FALSE]
    OBVIOUS
  <2>3. f \in Fetches /\ f.read = e.read /\ f.current = FALSE
    BY <2>2 DEF Fetches
  <2>4. old[i] = f
    BY <1>5, <2>1, <2>2
  <2> QED BY <2>1, <2>3, <2>4
<1>7. old \in Seq(Fetches) /\ Len(old) = n
  <2>1. old \in [1..n -> Fetches]
    BY <1>5, <1>6
  <2> QED BY <1>3, <2>1, SeqDef
<1>8. PICK e : e = [step |-> IF bootstrap[b] THEN "snapshot" ELSE "legacy", read |-> Unread, current |-> TRUE]
  OBVIOUS
<1>9. e \in Fetches /\ e.read = Unread /\ e.current = TRUE
  BY <1>8 DEF Fetches
<1>10. PICK q : q = Append(old, e)
  OBVIOUS
<1>11. q \in Seq(Fetches) /\ Len(q) = n + 1 /\ \A i \in 1..n + 1 : q[i] = IF i = n + 1 THEN e ELSE old[i]
  BY <1>7, <1>9, <1>10, AppendProperties
<1>12. fetches' = [fetches EXCEPT ![b] = q]
  BY <1>1, <1>2, <1>3, <1>5, <1>8, <1>10 DEF StartRefresh
<1>13. \A i \in 1..n + 1 : q[i].read <= version /\ (q[i].current => q[i].read = Unread /\ i = n + 1)
  <2>1. Unread <= version
    BY DEF FanInv, FanTypeOK, Unread
  <2>2. \A i \in 1..n : o[i].read <= version
    BY <1>2, <1>3 DEF Fresh
  <2> SUFFICES ASSUME NEW i \in 1..n + 1
               PROVE  q[i].read <= version /\ (q[i].current => q[i].read = Unread /\ i = n + 1)
    OBVIOUS
  <2>3. CASE i = n + 1
    BY <1>9, <1>11, <2>1, <2>3
  <2>4. CASE i # n + 1
    <3>1. i \in 1..n /\ q[i] = old[i]
      BY <1>3, <1>11, <2>4
    <3> QED BY <1>6, <2>2, <3>1
  <2> QED BY <2>3, <2>4
<1>14. Fresh(q, shown[b], version)
  <2>1. n + 1 <= Refreshes
    BY <1>3, FanBounds
  <2> QED BY <1>2, <1>11, <1>13, <2>1 DEF Fresh
<1> QED BY <1>12, <1>14

-----------------------------------------------------------------------------
\* A step of a page, with what becomes of its screen.
ShownGrows == \A b \in Browsers : shown'[b] # Nothing => shown[b] <= shown'[b]

LEMMA ShownStays == FanInv /\ UNCHANGED shown => ShownGrows
<1> SUFFICES ASSUME FanInv, UNCHANGED shown, NEW b \in Browsers PROVE shown[b] <= shown'[b]
  BY DEF ShownGrows
<1>1. shown[b] \in {Nothing} \cup Nat
  BY DEF FanInv, FanTypeOK
<1> QED BY <1>1 DEF Nothing

LEMMA StartKeeps ==
  ASSUME FanInv, NEW b \in Browsers, TimerFires(b) \/ Show(b)
  PROVE  FanInv' /\ ShownGrows
<1>1. StartRefresh(b) /\ UNCHANGED <<fanBackend, fanRelays, kind, bootstrap, shown>>
  BY DEF TimerFires, Show
<1>2. PICK q : fetches' = [fetches EXCEPT ![b] = q] /\ Fresh(q, shown[b], version)
  BY <1>1, FreshStarted
<1>3. /\ {timer, hidden, bootstrap} \subseteq [Browsers -> BOOLEAN]
      /\ shown \in [Browsers -> {Nothing} \cup Nat]
  BY DEF FanInv, FanTypeOK
<1>4. timer' \in [Browsers -> BOOLEAN] /\ hidden' \in [Browsers -> BOOLEAN]
  BY <1>3 DEF TimerFires, Show
<1>5. shown' = [shown EXCEPT ![b] = shown[b]]
  BY <1>1, <1>3
<1>6. FanInv'
  BY <1>1, <1>2, <1>3, <1>4, <1>5, PageKeeps
<1> QED BY <1>1, <1>6, ShownStays

LEMMA ReadKeeps ==
  ASSUME FanInv, NEW b \in Browsers, NEW i \in DOMAIN fetches[b], ServerReads(b, i)
  PROVE  FanInv' /\ ShownGrows
<1>1. PICK o : o = fetches[b]
  OBVIOUS
<1>2. Fresh(o, shown[b], version) /\ DOMAIN fetches = Browsers /\ version \in Nat
  BY <1>1 DEF FanInv, FanTypeOK
<1>3. o \in Seq(Fetches) /\ i \in 1..Len(o)
  BY <1>1, <1>2, LenProperties DEF Fresh
<1>4. PICK e \in Fetches : e = o[i]
  BY <1>3, ElementOfSeq
<1>5. PICK f : f = [e EXCEPT !.read = version]
  OBVIOUS
<1>6. f \in Fetches /\ f.current = e.current /\ f.read = version
  BY <1>2, <1>5 DEF Fetches
<1>7. Fresh([o EXCEPT ![i] = f], shown[b], version)
  BY <1>2, <1>3, <1>4, <1>6, FreshAnswered
<1>8. fetches' = [fetches EXCEPT ![b] = [o EXCEPT ![i] = f]]
  BY <1>1, <1>2, <1>4, <1>5 DEF ServerReads
<1>9. /\ UNCHANGED <<fanBackend, fanRelays, kind, hidden, timer, bootstrap, shown>>
      /\ {timer, hidden, bootstrap} \subseteq [Browsers -> BOOLEAN]
      /\ shown \in [Browsers -> {Nothing} \cup Nat]
  BY DEF ServerReads, FanInv, FanTypeOK
<1>10. shown' = [shown EXCEPT ![b] = shown[b]]
  BY <1>9
<1>11. FanInv'
  BY <1>7, <1>8, <1>9, <1>10, PageKeeps
<1> QED BY <1>9, <1>11, ShownStays

\* An answer that is dropped, shown or failed: the refresh is over.
LEMMA OverKeeps ==
  ASSUME FanInv, NEW b \in Browsers, NEW i \in DOMAIN fetches[b], NEW t,
         t = shown[b] \/ t = Nothing
           \/ (fetches[b][i].current /\ t = fetches[b][i].read /\ t # Unread),
         fetches' = [fetches EXCEPT ![b] = RemoveAt(@, i)], shown' = [shown EXCEPT ![b] = t],
         bootstrap' \in [Browsers -> BOOLEAN],
         UNCHANGED <<fanBackend, fanRelays, kind, hidden, timer>>
  PROVE  FanInv' /\ ShownGrows
<1>1. PICK o : o = fetches[b]
  OBVIOUS
<1>2. Fresh(o, shown[b], version) /\ DOMAIN fetches = Browsers /\ version \in Nat
  BY <1>1 DEF FanInv, FanTypeOK
<1>3. i \in 1..Len(o)
  BY <1>1, <1>2, LenProperties DEF Fresh
<1>4. Fresh(RemoveAt(o, i), t, version) /\ (t # Nothing => shown[b] <= t)
  BY <1>1, <1>2, <1>3, FreshWithout
<1>5. fetches' = [fetches EXCEPT ![b] = RemoveAt(o, i)]
  BY <1>1, <1>2
<1>6. {timer, hidden} \subseteq [Browsers -> BOOLEAN] /\ shown \in [Browsers -> {Nothing} \cup Nat]
  BY DEF FanInv, FanTypeOK
<1>7. FanInv'
  BY <1>4, <1>5, <1>6, PageKeeps
<1>8. ShownGrows
  <2>1. \A a \in Browsers : shown[a] <= shown[a]
    BY <1>6 DEF Nothing
  <2> QED BY <1>4, <1>6, <2>1 DEF ShownGrows
<1> QED BY <1>7, <1>8

LEMMA FetchKeeps ==
  ASSUME FanInv, NEW b \in Browsers, FetchSteps(b)
  PROVE  FanInv' /\ ShownGrows
<1>1. PICK i \in DOMAIN fetches[b] :
        ServerReads(b, i) \/ Apply(b, i) \/ SnapshotFails(b, i) \/ RefreshFails(b, i)
  BY DEF FetchSteps
<1>2. /\ bootstrap \in [Browsers -> BOOLEAN] /\ shown \in [Browsers -> {Nothing} \cup Nat]
      /\ DOMAIN fetches = Browsers
  BY DEF FanInv, FanTypeOK
<1>3. CASE ServerReads(b, i)
  BY <1>3, ReadKeeps
<1>4. CASE Apply(b, i)
  <2>1. PICK t : t = IF fetches[b][i].current THEN fetches[b][i].read ELSE shown[b]
    OBVIOUS
  <2>2. shown' = [shown EXCEPT ![b] = t]
    BY <1>2, <1>4, <2>1 DEF Apply
  <2>3. /\ fetches' = [fetches EXCEPT ![b] = RemoveAt(@, i)] /\ fetches[b][i].read # Unread
        /\ UNCHANGED <<fanBackend, fanRelays, kind, hidden, timer, bootstrap>>
    BY <1>4 DEF Apply
  <2>4. t = shown[b] \/ (fetches[b][i].current /\ t = fetches[b][i].read /\ t # Unread)
    BY <2>1, <2>3
  <2> QED BY <1>2, <2>2, <2>3, <2>4, OverKeeps
<1>5. CASE RefreshFails(b, i)
  <2>1. PICK t : t = IF kind[b] = "desktop" THEN Nothing ELSE shown[b]
    OBVIOUS
  <2>2. shown' = [shown EXCEPT ![b] = t]
    BY <1>2, <1>5, <2>1 DEF RefreshFails
  <2>3. /\ fetches' = [fetches EXCEPT ![b] = RemoveAt(@, i)]
        /\ UNCHANGED <<fanBackend, fanRelays, kind, hidden, timer, bootstrap>>
    BY <1>5 DEF RefreshFails
  <2> QED BY <1>2, <2>1, <2>2, <2>3, OverKeeps
<1>6. CASE SnapshotFails(b, i)
  <2>1. /\ bootstrap' \in [Browsers -> BOOLEAN] /\ shown' = [shown EXCEPT ![b] = shown[b]]
        /\ UNCHANGED <<fanBackend, fanRelays, kind, hidden, timer, shown>>
    BY <1>2, <1>6 DEF SnapshotFails
  <2>2. CASE ~fetches[b][i].current
    <3>1. fetches' = [fetches EXCEPT ![b] = RemoveAt(@, i)]
      BY <1>6, <2>2 DEF SnapshotFails
    <3> QED BY <2>1, <3>1, OverKeeps
  <2>3. CASE fetches[b][i].current
    <3>1. PICK o : o = fetches[b]
      OBVIOUS
    <3>2. Fresh(o, shown[b], version) /\ version \in Nat
      BY <3>1 DEF FanInv, FanTypeOK
    <3>3. o \in Seq(Fetches) /\ i \in 1..Len(o)
      BY <1>1, <3>1, <3>2, LenProperties DEF Fresh
    <3>4. PICK e \in Fetches : e = o[i]
      BY <3>3, ElementOfSeq
    <3>5. PICK f : f = [e EXCEPT !.step = "legacy"]
      OBVIOUS
    <3>6. f \in Fetches /\ f.current = e.current /\ f.read = e.read
      BY <3>5 DEF Fetches
    <3>7. e.read = Unread
      BY <1>6, <3>1, <3>4 DEF SnapshotFails
    <3>8. Fresh([o EXCEPT ![i] = f], shown[b], version)
      BY <3>2, <3>3, <3>4, <3>6, <3>7, FreshAnswered
    <3>9. fetches' = [fetches EXCEPT ![b] = [o EXCEPT ![i] = f]]
      BY <1>2, <1>6, <2>3, <3>1, <3>4, <3>5 DEF SnapshotFails
    <3>10. {timer', hidden', bootstrap'} \subseteq [Browsers -> BOOLEAN]
      BY <2>1 DEF FanInv, FanTypeOK
    <3>11. FanInv'
      BY <2>1, <3>8, <3>9, <3>10, PageKeeps
    <3> QED BY <2>1, <3>11, ShownStays
  <2> QED BY <2>2, <2>3
<1> QED BY <1>1, <1>3, <1>4, <1>5, <1>6

LEMMA FanInvStep == FanInv /\ [FanNext]_fanVars => FanInv' /\ ShownGrows
<1>1. ASSUME FanInv, UNCHANGED fanVars PROVE FanInv' /\ ShownGrows
  <2>1. UNCHANGED <<up, version, unpublished, trouble, kind, hidden, relay, queue, listed, frames,
                    timer, bootstrap, fetches, shown>>
    BY <1>1 DEF fanVars, fanBackend, fanRelays, fanPages
  <2>2. FanInv'
    BY <1>1, <2>1 DEF FanInv, FanTypeOK
  <2> QED BY <1>1, <2>1, <2>2, ShownStays
<1>2. ASSUME FanInv, CommitChange \/ Publish \/ BackendDies \/ BackendReturns
      PROVE  FanInv' /\ ShownGrows
  BY <1>2, BackendTyped, ShownStays
<1>3. ASSUME FanInv, NEW b \in Browsers,
             FetchSteps(b) \/ RelaySteps(b) \/ PageSteps(b) \/ Show(b) \/ SocketCloses(b) \/ Hide(b)
      PROVE  FanInv' /\ ShownGrows
  <2>1. CASE FetchSteps(b)
    BY <1>3, <2>1, FetchKeeps
  <2>2. CASE Show(b) \/ TimerFires(b)
    BY <1>3, <2>2, StartKeeps
  <2>3. CASE RelaySteps(b) \/ ConnectEvents(b) \/ SocketCloses(b) \/ Hide(b) \/ \E f \in frames[b] : OnFrame(b, f)
    BY <1>3, <2>3, RelayTyped, ShownStays
  <2> QED BY <1>3, <2>1, <2>2, <2>3 DEF PageSteps
<1> QED BY <1>1, <1>2, <1>3 DEF FanNext

-----------------------------------------------------------------------------
(***************************************************************************)
(* The fan-out keeps its types: a subscriber's channel never holds more    *)
(* than its capacity, a page has no more refreshes in flight than the      *)
(* bound, and every refresh and screen is of a version.                    *)
(***************************************************************************)
THEOREM FanTypeCorrect == FanSpec => []FanTypeOK
<1>1. FanInv => FanTypeOK
  BY DEF FanInv
<1> QED BY <1>1, FanInvInit, FanInvStep, PTL DEF FanSpec

(***************************************************************************)
(* A page never goes back to an older state than it has shown since it was *)
(* last emptied, however many refreshes overtake each other: refresh       *)
(* compares its number with refreshSeq.  The invariant the proof rests on  *)
(* is that one refresh at most is current and will not show an older       *)
(* version than the screen does.                                           *)
(***************************************************************************)
THEOREM ScreensOnlyMoveOn == FanSpec => ShownNeverGoesBack
<1>1. FanInv /\ [FanNext]_fanVars => [\A b \in Browsers : shown'[b] # Nothing => shown[b] <= shown'[b]]_fanVars
  BY FanInvStep DEF ShownGrows
<1> QED BY <1>1, FanInvInit, FanInvStep, PTL DEF FanSpec, ShownNeverGoesBack

-----------------------------------------------------------------------------
(***************************************************************************)
(* ChatLens: the poll, the walk back, and the server's cached turns.       *)
(***************************************************************************)

\* A request that has not been answered is of a session and its stamps.
Sound(f) == f.at # "answered" => f.of \in ChatSessions /\ f.gen \in FileStamps

\* A request without a tag is not answered "same".
Plain(f) == f.tag = NoOne /\ f.kind # "same"

\* The requests in flight, while the poll is at a stage.
Mail(out, stage) ==
  /\ out \in [Fetchers -> Requests \cup {NoOne}] /\ \A k \in Fetchers : out[k] # NoOne => Sound(out[k])
  /\ stage \in Polls /\ (stage.at = "walk" => stage.steps < WalkPages)
  /\ out["poll"] # NoOne <=> stage.at # "idle"
  /\ stage.at \in {"walk", "fresh", "again"} => Plain(out["poll"])

FilesOK ==
  /\ snapshot \in [ChatSessions -> Files] /\ journal \in [ChatSessions -> Files]
  /\ marker \in [ChatPanes -> ChatSessions \cup {NoOne}] /\ lensTurns \in 0..LensTurns
  /\ \E n \in Nat : \A s \in ChatSessions : snapshot[s].stamp <= n /\ journal[s].stamp <= n

ViewOK ==
  /\ inView \in LensPanes /\ lastPane \in LensPanes
  /\ lensOpen \in BOOLEAN /\ reopen \in BOOLEAN /\ hurried \in BOOLEAN

PageOK == chat \in Chats /\ pollTimer \in BOOLEAN /\ pollQueued \in BOOLEAN

CacheOK == turnsCache \in [ChatSessions -> Cached]

LensInv == FilesOK /\ CacheOK /\ Mail(fetched, polling) /\ ViewOK /\ PageOK

LEMMA LensTyped == LensInv => ChatTypeOK
BY DEF LensInv, FilesOK, CacheOK, Mail, ViewOK, PageOK, ChatTypeOK, Fetching

LEMMA LensBounds ==
  /\ ChatPanes \subseteq LensPanes /\ FirstInView \in ChatPanes
  /\ NoOne \notin LensPanes /\ NoOne \notin ChatSessions /\ NoOne \notin Tags /\ NoOne \notin Requests
  /\ WalkPages \in Nat \ {0} /\ PageTurns \in Nat \ {0} /\ LensTurns \in Nat /\ Written \in Nat
  /\ "poll" \in Fetchers
BY LensAssumption DEF Fetchers

LEMMA NoTurnsTyped == <<>> \in Seq(TurnIds)
BY EmptySeq

LEMMA NoPageTyped == NoPage \in Pages
BY NoTurnsTyped DEF NoPage, Pages

-----------------------------------------------------------------------------
\* What the operators return.
LEMMA JoinedTyped ==
  ASSUME NEW S, NEW older \in Seq(S), NEW newer \in Seq(S)
  PROVE  Joined(older, newer) \in Seq(S)
<1>1. PICK q \in Seq(S) : q = Without(newer, ToSet(older))
  BY WithoutProperties
<1>2. older \o q \in Seq(S)
  BY ConcatProperties
<1> QED BY <1>1, <1>2 DEF Joined

LEMMA FilesTyped ==
  ASSUME FilesOK, NEW s \in ChatSessions
  PROVE  /\ snapshot[s] \in Files /\ journal[s] \in Files
         /\ snapshot[s].stamp \in Nat /\ snapshot[s].turns \in Seq(TurnIds)
         /\ journal[s].stamp \in Nat /\ journal[s].turns \in Seq(TurnIds)
         /\ Transcript(s) \in Seq(TurnIds) /\ Generation(s) \in FileStamps
<1>1. snapshot[s] \in Files /\ journal[s] \in Files
  BY DEF FilesOK
<1>2. /\ snapshot[s].stamp \in Nat /\ snapshot[s].turns \in Seq(TurnIds)
      /\ journal[s].stamp \in Nat /\ journal[s].turns \in Seq(TurnIds)
  BY <1>1 DEF Files
<1>3. Transcript(s) \in Seq(TurnIds)
  BY <1>2, JoinedTyped DEF Transcript
<1>4. Generation(s) \in FileStamps
  BY <1>2 DEF Generation, FileStamps
<1> QED BY <1>1, <1>2, <1>3, <1>4

LEMMA ResolveIn == \A p : Resolve(p) \in ChatSessions \cup {NoOne}
<1> SUFFICES ASSUME NEW p PROVE Resolve(p) \in ChatSessions \cup {NoOne}
  OBVIOUS
<1>1. \A S : S \subseteq ChatSessions /\ (\E s \in S : S = {s}) => (CHOOSE s \in S : TRUE) \in ChatSessions
  OBVIOUS
<1>2. {s \in ChatSessions : InTree[s] = p} \subseteq ChatSessions /\ {marker[p]} \cap ChatSessions \subseteq ChatSessions
  OBVIOUS
<1> QED BY <1>1, <1>2, Zenon DEF Resolve

LEMMA AnswerIs ==
  ASSUME NEW f \in Requests, NEW page \in Pages, NEW r, NEW how,
         how \in {"none", "page", "same", "changed", "refused", "failed"}, r = Answer(f, how, page)
  PROVE  r \in Requests /\ r.at = "answered" /\ r.kind = how /\ r.tag = NoOne /\ r.page = page
<1>1. <<>> \in Seq(TurnIds)
  BY EmptySeq
<1> QED BY <1>1 DEF Answer, Requests

LEMMA RequestIs ==
  ASSUME FilesOK, NEW p \in ChatPanes, NEW before \in Cursors \cup {NoOne}, NEW from \in Cursors \cup {NoOne},
         NEW tag \in Tags \cup {NoOne}
  PROVE  /\ Request(p, before, from, tag) \in Requests /\ Sound(Request(p, before, from, tag))
         /\ tag = NoOne => Plain(Request(p, before, from, tag))
<1>1. PICK s \in ChatSessions \cup {NoOne} : s = Resolve(p)
  BY ResolveIn
<1>2. PICK f : f = [at |-> "stamped", pane |-> p, before |-> before, from |-> from, tag |-> tag,
                    of |-> s, gen |-> NoOne, base |-> <<>>, kind |-> "none", page |-> NoPage]
  OBVIOUS
<1>3. f \in Requests /\ f.tag = tag /\ f.of = s /\ f.kind = "none"
  BY <1>2, NoTurnsTyped, NoPageTyped DEF Requests
<1>4. PICK r : r = Request(p, before, from, tag)
  OBVIOUS
<1>5. r = IF s = NoOne THEN Answer(f, "refused", NoPage)
          ELSE IF \E c \in {before, from} \ {NoOne} : c.turn[1] # s THEN Answer(f, "changed", NoPage)
          ELSE [f EXCEPT !.gen = Generation(s)]
  BY <1>1, <1>2, <1>4, Zenon DEF Request
<1>6. \/ r = Answer(f, "refused", NoPage) \/ r = Answer(f, "changed", NoPage)
      \/ s \in ChatSessions /\ r = [f EXCEPT !.gen = Generation(s)]
  BY <1>1, <1>5
<1>7. CASE r = Answer(f, "refused", NoPage) \/ r = Answer(f, "changed", NoPage)
  <2>1. PICK how \in {"refused", "changed"} : r = Answer(f, how, NoPage)
    BY <1>7
  <2>2. how \in {"none", "page", "same", "changed", "refused", "failed"}
    BY <2>1
  <2>3. r \in Requests /\ r.at = "answered" /\ r.kind = how /\ r.tag = NoOne
    BY <1>3, <2>1, <2>2, AnswerIs, NoPageTyped
  <2> QED BY <1>4, <2>1, <2>3 DEF Sound, Plain
<1>8. CASE s \in ChatSessions /\ r = [f EXCEPT !.gen = Generation(s)]
  <2>1. PICK g \in FileStamps : g = Generation(s)
    BY <1>8, FilesTyped
  <2>2. r = [f EXCEPT !.gen = g]
    BY <1>8, <2>1
  <2>3. r \in Requests /\ r.of = s /\ r.gen = g /\ r.tag = tag /\ r.kind = "none"
    BY <1>3, <2>2 DEF Requests
  <2> QED BY <1>4, <1>8, <2>1, <2>3 DEF Sound, Plain
<1> QED BY <1>6, <1>7, <1>8

LEMMA PlaceIs ==
  ASSUME NEW q \in Seq(TurnIds), NEW cursor, Contains(q, cursor.turn)
  PROVE  PlaceOf(q, cursor) \in 1..Len(q)
<1> DEFINE I == {i \in 1..Len(q) : q[i] = cursor.turn}
<1>1. I \subseteq Nat /\ I # {}
  BY DEF Contains
<1>2. \E i \in I : \A j \in I : i <= j
  <2> HIDE DEF I
  <2> QED BY <1>1, LeastNumber
<1>3. Min(I) \in I
  <2> HIDE DEF I
  <2> QED BY <1>2, Zenon DEF Min
<1>4. PlaceOf(q, cursor) = Min(I)
  BY <1>1 DEF PlaceOf, SelectInSeq
<1> QED BY <1>3, <1>4

LEMMA CutPageTyped ==
  ASSUME NEW f \in Requests, f.of \in ChatSessions, f.gen \in FileStamps, NEW turns \in Seq(TurnIds),
         f.before # NoOne => Contains(turns, f.before.turn),
         f.from # NoOne => Contains(turns, f.from.turn)
  PROVE  CutPage(f, turns) \in Pages
<1>1. PICK n \in Nat : n = Len(turns)
  BY LenProperties
<1>2. PICK cut : cut = IF f.before = NoOne THEN Len(turns) ELSE PlaceOf(turns, f.before) - 1
  OBVIOUS
<1>3. PICK anchor : anchor = IF f.from = NoOne THEN 1 ELSE PlaceOf(turns, f.from)
  OBVIOUS
<1>4. PICK held : held = IF anchor <= cut THEN anchor ELSE 1
  OBVIOUS
<1>5. PICK start : start = IF cut - PageTurns + 1 > held THEN cut - PageTurns + 1 ELSE held
  OBVIOUS
<1>6. CutPage(f, turns) =
        [turns |-> SubSeq(turns, start, cut), tag |-> <<f.of, f.gen>>,
         cursor |-> IF start > 1 THEN [gen |-> f.gen, turn |-> turns[start]] ELSE NoOne]
  BY <1>2, <1>3, <1>4, <1>5, Zenon DEF CutPage
<1>7. f.before # NoOne => PlaceOf(turns, f.before) \in 1..n
  BY <1>1, PlaceIs
<1>8. f.from # NoOne => PlaceOf(turns, f.from) \in 1..n
  BY <1>1, PlaceIs
<1>9. cut \in 0..n
  BY <1>1, <1>2, <1>7
<1>10. anchor \in Nat \ {0}
  BY <1>3, <1>8
<1>11. start \in Nat \ {0} /\ (start > 1 => start <= cut)
  <2>1. held \in Nat \ {0} /\ (held > 1 => held <= cut)
    BY <1>4, <1>9, <1>10
  <2> QED BY <1>5, <1>9, <2>1, LensBounds
<1>12. \A i \in 1..n : turns[i] \in TurnIds
  BY <1>1, ElementOfSeq
<1>13. SubSeq(turns, start, cut) \in Seq(TurnIds)
  <2>1. \A i \in start..cut : turns[i] \in TurnIds
    BY <1>9, <1>11, <1>12
  <2> QED BY <1>9, <1>11, <2>1, SubSeqProperties
<1>14. PICK c \in Cursors \cup {NoOne} : c = IF start > 1 THEN [gen |-> f.gen, turn |-> turns[start]] ELSE NoOne
  <2>1. start > 1 => turns[start] \in TurnIds
    BY <1>9, <1>11, <1>12
  <2> QED BY <2>1 DEF Cursors
<1>15. <<f.of, f.gen>> \in Tags
  BY DEF Tags
<1> QED BY <1>6, <1>13, <1>14, <1>15 DEF Pages

\* An answer is typed, and without a tag not "same".
LEMMA ReplyIs ==
  ASSUME NEW f \in Requests, f.of \in ChatSessions, f.gen \in FileStamps, NEW turns \in Seq(TurnIds)
  PROVE  /\ Reply(f, turns) \in Requests /\ Sound(Reply(f, turns)) /\ Reply(f, turns).at = "answered"
         /\ Plain(f) => Plain(Reply(f, turns))
<1>1. PICK r : r = Reply(f, turns)
  OBVIOUS
<1>2. PICK lost \in BOOLEAN : lost = \E c \in {f.before, f.from} \ {NoOne} : ~Contains(turns, c.turn)
  OBVIOUS
<1>3. \/ lost /\ r = Answer(f, "changed", NoPage)
      \/ f.tag = <<f.of, f.gen>> /\ r = Answer(f, "same", NoPage)
      \/ ~lost /\ r = Answer(f, "page", CutPage(f, turns))
  BY <1>1, <1>2, Zenon DEF Reply
<1>4. CASE lost /\ r = Answer(f, "changed", NoPage)
  <2>1. r \in Requests /\ r.at = "answered" /\ r.kind = "changed" /\ r.tag = NoOne
    BY <1>4, AnswerIs, NoPageTyped
  <2> QED BY <1>1, <2>1 DEF Sound, Plain
<1>5. CASE f.tag = <<f.of, f.gen>> /\ r = Answer(f, "same", NoPage)
  <2>1. <<f.of, f.gen>> \in Tags
    BY DEF Tags
  <2>2. ~Plain(f)
    BY <1>5, <2>1, LensBounds DEF Plain
  <2>3. r \in Requests /\ r.at = "answered"
    BY <1>5, AnswerIs, NoPageTyped
  <2> QED BY <1>1, <2>2, <2>3 DEF Sound
<1>6. CASE ~lost /\ r = Answer(f, "page", CutPage(f, turns))
  <2>1. /\ f.before # NoOne => Contains(turns, f.before.turn)
        /\ f.from # NoOne => Contains(turns, f.from.turn)
    BY <1>2, <1>6
  <2>2. PICK page \in Pages : page = CutPage(f, turns)
    BY <2>1, CutPageTyped
  <2>3. r \in Requests /\ r.at = "answered" /\ r.kind = "page" /\ r.tag = NoOne
    BY <1>6, <2>2, AnswerIs
  <2> QED BY <1>1, <2>3 DEF Sound, Plain
<1> QED BY <1>3, <1>4, <1>5, <1>6

-----------------------------------------------------------------------------
\* The agent's files.
LEMMA FilesStay ==
  ASSUME FilesOK, UNCHANGED <<snapshot, journal, marker>>, lensTurns' = lensTurns \/ Turns
  PROVE  FilesOK'
<1>1. lensTurns' \in 0..LensTurns
  BY LensBounds DEF FilesOK, Turns
<1> QED BY <1>1 DEF FilesOK

LEMMA NextStampIs ==
  ASSUME FilesOK
  PROVE  /\ NextStamp \in Nat
         /\ \A s \in ChatSessions : snapshot[s].stamp < NextStamp /\ journal[s].stamp < NextStamp
<1>1. PICK n \in Nat : \A s \in ChatSessions : snapshot[s].stamp <= n /\ journal[s].stamp <= n
  BY DEF FilesOK
<1>2. \A k \in Stamps : k \in 0..n
  BY <1>1, FilesTyped DEF Stamps
<1>3. 0 \in Stamps /\ \A s \in ChatSessions : snapshot[s].stamp \in Stamps /\ journal[s].stamp \in Stamps
  BY DEF Stamps
<1>4. PICK T : T = {k \in 1..n + 1 : k - 1 \in Stamps}
  OBVIOUS
<1>5. T \subseteq 1..n + 1 /\ 1 \in T /\ n + 1 \in Nat
  BY <1>3, <1>4
<1>6. PICK m \in T : \A k \in T : m >= k
  BY <1>5, GreatestNumber
<1>7. \A k \in Stamps : m - 1 >= k
  <2> SUFFICES ASSUME NEW k \in Stamps PROVE m - 1 >= k
    OBVIOUS
  <2>1. k \in 0..n /\ k + 1 - 1 = k
    BY <1>2
  <2>2. k + 1 \in T
    BY <1>4, <2>1
  <2> QED BY <1>5, <1>6, <2>1, <2>2
<1>8. m - 1 \in Stamps
  BY <1>4, <1>6
<1>9. Max(Stamps) \in Stamps /\ \A k \in Stamps : Max(Stamps) >= k
  BY <1>7, <1>8, Zenon DEF Max
<1>10. PICK x \in Nat : x = Max(Stamps)
  BY <1>2, <1>9
<1>11. NextStamp = x + 1 /\ \A k \in Stamps : k < x + 1
  BY <1>2, <1>9, <1>10 DEF NextStamp
<1> QED BY <1>3, <1>11

LEMMA WriteKeeps ==
  ASSUME FilesOK, NEW s \in ChatSessions, NEW f \in Files, f.stamp = NextStamp \/ f.stamp = 0,
         \/ snapshot' = [snapshot EXCEPT ![s] = f] /\ UNCHANGED journal
         \/ journal' = [journal EXCEPT ![s] = f] /\ UNCHANGED snapshot,
         UNCHANGED marker, lensTurns' = lensTurns \/ Turns
  PROVE  FilesOK'
<1>1. NextStamp \in Nat /\ f.stamp <= NextStamp
  BY NextStampIs
<1>2. snapshot' \in [ChatSessions -> Files] /\ journal' \in [ChatSessions -> Files]
  BY DEF FilesOK
<1>3. \A t \in ChatSessions : snapshot[t].stamp <= NextStamp /\ journal[t].stamp <= NextStamp
  BY <1>1, NextStampIs, FilesTyped
<1>4. \A t \in ChatSessions : snapshot'[t].stamp <= NextStamp /\ journal'[t].stamp <= NextStamp
  BY <1>1, <1>3 DEF FilesOK
<1>5. lensTurns' \in 0..LensTurns
  BY LensBounds DEF FilesOK, Turns
<1> QED BY <1>1, <1>2, <1>4, <1>5 DEF FilesOK

LEMMA AgentsKeep == ASSUME FilesOK, Agents PROVE FilesOK' /\ Untouched
<1>1. ASSUME NEW s \in ChatSessions, AgentAppends(s) PROVE FilesOK' /\ Untouched
  <2>1. PICK n \in Nat : n = Len(Transcript(s))
    BY FilesTyped, LenProperties
  <2>2. PICK turn : turn = <<s, Len(Transcript(s)) + 1>>
    OBVIOUS
  <2>3. turn \in TurnIds
    BY <2>1, <2>2 DEF TurnIds
  <2>4. PICK q \in Seq(TurnIds) : q = Append(journal[s].turns, turn)
    BY <2>3, FilesTyped, AppendProperties
  <2>5. PICK f : f = [stamp |-> NextStamp, turns |-> q]
    OBVIOUS
  <2>6. f \in Files /\ f.stamp = NextStamp
    BY <2>5, NextStampIs DEF Files
  <2>7. journal' = [journal EXCEPT ![s] = f]
    BY <1>1, <2>2, <2>4, <2>5 DEF AgentAppends, FilesOK
  <2>8. UNCHANGED <<snapshot, marker>> /\ Turns /\ Untouched
    BY <1>1 DEF AgentAppends
  <2> QED BY <2>6, <2>7, <2>8, WriteKeeps
<1>2. ASSUME NEW s \in ChatSessions, AgentCheckpoints(s) PROVE FilesOK' /\ Untouched
  <2>1. PICK f : f = [stamp |-> NextStamp, turns |-> Transcript(s)]
    OBVIOUS
  <2>2. f \in Files /\ f.stamp = NextStamp
    BY <2>1, NextStampIs, FilesTyped DEF Files
  <2>3. snapshot' = [snapshot EXCEPT ![s] = f] /\ UNCHANGED <<journal, marker, lensTurns>> /\ Untouched
    BY <1>2, <2>1 DEF AgentCheckpoints
  <2> QED BY <2>2, <2>3, WriteKeeps
<1>3. ASSUME NEW s \in ChatSessions, AgentDropsJournal(s) PROVE FilesOK' /\ Untouched
  <2>1. PICK f : f = [stamp |-> 0, turns |-> <<>>]
    OBVIOUS
  <2>2. f \in Files /\ f.stamp = 0
    BY <2>1, NoTurnsTyped DEF Files
  <2>3. journal' = [journal EXCEPT ![s] = f] /\ UNCHANGED <<snapshot, marker, lensTurns>> /\ Untouched
    BY <1>3, <2>1 DEF AgentDropsJournal
  <2> QED BY <2>2, <2>3, WriteKeeps
<1>4. ASSUME NEW p \in ChatPanes, NEW s \in ChatSessions \cup {NoOne}, ClientShows(p, s)
      PROVE  FilesOK' /\ Untouched
  <2>1. Turns /\ marker' = [marker EXCEPT ![p] = s] /\ UNCHANGED <<snapshot, journal>> /\ Untouched
    BY <1>4 DEF ClientShows
  <2>2. marker' \in [ChatPanes -> ChatSessions \cup {NoOne}] /\ lensTurns' \in 0..LensTurns
    BY <2>1, LensBounds DEF FilesOK, Turns
  <2> QED BY <2>1, <2>2 DEF FilesOK
<1> QED BY <1>1, <1>2, <1>3, <1>4 DEF Agents

-----------------------------------------------------------------------------
\* The requests in flight.
LEMMA MailReplaced ==
  ASSUME NEW out, NEW stage, Mail(out, stage), NEW k \in Fetchers, out[k] # NoOne,
         NEW g \in Requests, Sound(g), Plain(out[k]) => Plain(g)
  PROVE  Mail([out EXCEPT ![k] = g], stage)
BY LensBounds DEF Mail

LEMMA MailLoads ==
  ASSUME NEW out, NEW stage, Mail(out, stage), NEW o \in Loads, NEW g \in Requests \cup {NoOne},
         g # NoOne => Sound(g)
  PROVE  Mail([out EXCEPT ![o] = g], stage)
<1>1. o \in Fetchers /\ o # "poll"
  BY LensAssumption DEF Fetchers
<1> QED BY <1>1, LensBounds DEF Mail

LEMMA MailAsks ==
  ASSUME NEW out, NEW stage, Mail(out, stage), NEW next \in Polls, next.at # "idle",
         next.at = "walk" => next.steps < WalkPages, NEW g \in Requests, Sound(g),
         next.at \in {"walk", "fresh", "again"} => Plain(g)
  PROVE  Mail([out EXCEPT !["poll"] = g], next)
BY LensBounds DEF Mail

LEMMA IdleIs == Idle \in Polls /\ Idle.at = "idle" /\ Idle.steps = 0
BY LensBounds DEF Idle, Polls

LEMMA MailEnds ==
  ASSUME NEW out, NEW stage, Mail(out, stage)
  PROVE  Mail([out EXCEPT !["poll"] = NoOne], Idle)
BY LensBounds, IdleIs DEF Mail

-----------------------------------------------------------------------------
\* The server.
LEMMA ServerKeeps ==
  ASSUME LensInv, NEW k \in Fetchers, ServerSteps(k)
  PROVE  CacheOK' /\ Mail(fetched', polling) /\ ServerOnly
<1>1. PICK f : f = fetched[k]
  OBVIOUS
<1>2. /\ FilesOK /\ CacheOK /\ Mail(fetched, polling)
      /\ f \in Requests /\ f # NoOne /\ Sound(f) /\ f.at \in {"stamped", "reading"}
  BY <1>1 DEF LensInv, Mail, ServerSteps, Look, ReadJournal, Fetching
<1>3. f.of \in ChatSessions /\ f.gen \in FileStamps
  BY <1>2 DEF Sound
<1>4. PICK c \in Cached : c = turnsCache[f.of]
  BY <1>2, <1>3 DEF CacheOK
<1>5. ASSUME NEW turns \in Seq(TurnIds), fetched' = [fetched EXCEPT ![k] = Reply(f, turns)]
      PROVE  Mail(fetched', polling)
  <2>1. PICK g \in Requests : g = Reply(f, turns) /\ Sound(g) /\ (Plain(f) => Plain(g))
    BY <1>2, <1>3, ReplyIs
  <2> QED BY <1>1, <1>2, <1>5, <2>1, MailReplaced
<1>6. CASE Look(k) /\ c.sig = f.gen
  <2>1. fetched' = [fetched EXCEPT ![k] = Reply(f, c.turns)] /\ UNCHANGED turnsCache /\ ServerOnly
    BY <1>1, <1>4, <1>6 DEF Look
  <2>2. c.turns \in Seq(TurnIds)
    BY DEF Cached
  <2> QED BY <1>2, <1>5, <2>1, <2>2 DEF CacheOK
<1>7. CASE Look(k) /\ c.sig # f.gen
  <2>1. PICK e : e = [sig |-> NoOne, turns |-> <<>>]
    OBVIOUS
  <2>2. e \in Cached
    BY <2>1, NoTurnsTyped DEF Cached
  <2>3. PICK g : g = [f EXCEPT !.at = "reading", !.base = snapshot[f.of].turns]
    OBVIOUS
  <2>4. g \in Requests /\ g.at = "reading" /\ g.of = f.of /\ g.gen = f.gen /\ g.tag = f.tag /\ g.kind = f.kind
    <3>1. snapshot[f.of].turns \in Seq(TurnIds)
      BY <1>2, <1>3, FilesTyped
    <3> QED BY <1>2, <2>3, <3>1 DEF Requests
  <2>5. /\ fetched' = [fetched EXCEPT ![k] = g] /\ turnsCache' = [turnsCache EXCEPT ![f.of] = e]
        /\ ServerOnly
    BY <1>1, <1>4, <1>7, <2>1, <2>3 DEF Look
  <2>6. CacheOK'
    BY <1>2, <1>3, <2>2, <2>5 DEF CacheOK
  <2>7. Sound(g) /\ (Plain(f) => Plain(g))
    BY <1>3, <2>4 DEF Sound, Plain
  <2> QED BY <1>1, <1>2, <2>4, <2>5, <2>6, <2>7, MailReplaced
<1>8. CASE ReadJournal(k)
  <2>1. PICK turns : turns = Joined(f.base, journal[f.of].turns)
    OBVIOUS
  <2>2. turns \in Seq(TurnIds)
    <3>1. f.base \in Seq(TurnIds)
      BY <1>2 DEF Requests
    <3> QED BY <1>2, <1>3, <2>1, <3>1, FilesTyped, JoinedTyped
  <2>3. PICK e : e = [sig |-> f.gen, turns |-> turns]
    OBVIOUS
  <2>4. e \in Cached
    BY <1>3, <2>2, <2>3 DEF Cached
  <2>5. /\ turnsCache' = [turnsCache EXCEPT ![f.of] = e]
        /\ fetched' = [fetched EXCEPT ![k] = Reply(f, turns)] /\ ServerOnly
    BY <1>1, <1>8, <2>1, <2>3 DEF ReadJournal
  <2> QED BY <1>2, <1>3, <1>5, <2>2, <2>4, <2>5 DEF CacheOK
<1> QED BY <1>6, <1>7, <1>8 DEF ServerSteps

LEMMA FailKeeps ==
  ASSUME LensInv, NEW k \in Fetchers, RequestFails(k)
  PROVE  Mail(fetched', polling) /\ FilesOK'
<1>1. PICK f : f = fetched[k]
  OBVIOUS
<1>2. FilesOK /\ Mail(fetched, polling) /\ f \in Requests /\ f # NoOne
  BY <1>1 DEF LensInv, Mail, RequestFails, Fetching
<1>3. PICK g : g = Answer(f, "failed", NoPage)
  OBVIOUS
<1>4. g \in Requests /\ g.at = "answered" /\ g.kind = "failed" /\ g.tag = NoOne
  BY <1>2, <1>3, AnswerIs, NoPageTyped
<1>5. fetched' = [fetched EXCEPT ![k] = g]
  BY <1>1, <1>2, <1>3 DEF RequestFails, Mail
<1>6. Mail(fetched', polling)
  BY <1>1, <1>2, <1>4, <1>5, MailReplaced DEF Sound, Plain
<1>7. FilesOK'
  BY <1>2, FilesStay DEF RequestFails
<1> QED BY <1>6, <1>7

-----------------------------------------------------------------------------
\* The page's conversation.
LEMMA ResetTyped == ASSUME NEW p \in ChatPanes \cup {NoOne} PROVE ResetChat(p) \in Chats
BY NoTurnsTyped DEF ResetChat, Chats

LEMMA AnchoredTyped ==
  ASSUME NEW c \in Chats, Chatting(inView)
  PROVE  Anchored(c) \in Chats
BY ResetTyped DEF Anchored, Chatting

LEMMA DropTyped ==
  ASSUME NEW c \in Chats, NEW d, d = DropOlder(c)
  PROVE  d \in Chats /\ d.pane = c.pane /\ d.turns = c.turns /\ d.error = c.error
BY DEF DropOlder, Chats

LEMMA PollKeeps ==
  ASSUME FilesOK, PageOK, NEW c \in Chats, NEW out, Mail(out, polling), PollConversation(c, out)
  PROVE  chat' \in Chats /\ Mail(fetched', polling') /\ pollQueued' \in BOOLEAN
<1>1. CASE ~lensOpen \/ ~Chatting(inView)
  BY <1>1 DEF PollConversation, PageOK
<1>2. CASE lensOpen /\ Chatting(inView)
  <2>1. PICK d \in Chats : d = Anchored(c)
    BY <1>2, AnchoredTyped
  <2>2. chat' = d
    BY <1>2, <2>1 DEF PollConversation
  <2>3. CASE polling.at # "idle"
    BY <1>2, <2>2, <2>3 DEF PollConversation
  <2>4. CASE polling.at = "idle"
    <3>1. PICK tag \in Tags \cup {NoOne} : tag = IF d.from = d.held THEN d.tag ELSE NoOne
      BY DEF Chats
    <3>2. PICK held \in Cursors \cup {NoOne} : held = d.held
      BY DEF Chats
    <3>3. PICK g \in Requests : g = Request(inView, NoOne, held, tag) /\ Sound(g)
      BY <1>2, RequestIs DEF Chatting
    <3>4. PICK next : next = [Idle EXCEPT !.at = "newest"]
      OBVIOUS
    <3>5. next \in Polls /\ next.at = "newest"
      BY <3>4, IdleIs DEF Polls
    <3>6. polling' = next /\ fetched' = [out EXCEPT !["poll"] = g] /\ UNCHANGED pollQueued
      BY <1>2, <2>2, <2>4, <3>1, <3>2, <3>3, <3>4, Zenon DEF PollConversation
    <3>7. Mail(fetched', polling')
      BY <3>3, <3>5, <3>6, MailAsks
    <3> QED BY <2>2, <3>6, <3>7 DEF PageOK
  <2> QED BY <2>3, <2>4
<1> QED BY <1>1, <1>2

LEMMA RefreshKeeps ==
  ASSUME FilesOK, PageOK, NEW c \in Chats, NEW out, Mail(out, polling), Refresh(c, out)
  PROVE  PageOK' /\ Mail(fetched', polling')
<1>1. pollTimer' \in BOOLEAN
  BY Zenon DEF Refresh, PageOK
<1>2. CASE PollConversation(c, out)
  BY <1>1, <1>2, PollKeeps DEF PageOK
<1>3. CASE chat' = c /\ fetched' = out /\ pollQueued' = TRUE /\ UNCHANGED polling
  BY <1>1, <1>3 DEF PageOK
<1> QED BY <1>2, <1>3 DEF Refresh

-----------------------------------------------------------------------------
\* A poll hears its answer.
LEMMA EndsKeeps ==
  ASSUME Mail(fetched, polling), chat' \in Chats, PollEnds
  PROVE  PageOK' /\ Mail(fetched', polling')
<1>1. fetched' = [fetched EXCEPT !["poll"] = NoOne] /\ polling' = Idle /\ pollQueued' = FALSE
  BY DEF PollEnds
<1>2. pollTimer' \in BOOLEAN
  BY Zenon DEF PollEnds
<1> QED BY <1>1, <1>2, MailEnds DEF PageOK

LEMMA AsksKeeps ==
  ASSUME FilesOK, PageOK, Mail(fetched, polling), fetched["poll"] # NoOne, chat' \in Chats,
         NEW stage \in Polls, stage.at \in {"walk", "fresh", "again"},
         stage.at = "walk" => stage.steps < WalkPages,
         NEW before \in Cursors \cup {NoOne}, PollAsks(stage, before)
  PROVE  PageOK' /\ Mail(fetched', polling')
<1>1. PICK f \in Requests : f = fetched["poll"]
  BY LensBounds DEF Mail
<1>2. PICK p \in ChatPanes : p = f.pane
  BY DEF Requests
<1>3. PICK g \in Requests : g = Request(p, before, NoOne, NoOne) /\ Sound(g) /\ Plain(g)
  BY RequestIs
<1>4. /\ fetched' = [fetched EXCEPT !["poll"] = g] /\ polling' = stage
      /\ UNCHANGED <<pollQueued, pollTimer>>
  BY <1>1, <1>2, <1>3, LensBounds DEF PollAsks, Mail
<1>5. Mail(fetched', polling')
  BY <1>3, <1>4, MailAsks
<1> QED BY <1>4, <1>5 DEF PageOK

LEMMA PollHearsKeeps ==
  ASSUME LensInv,
         HearsNothing \/ HearsFailure \/ HearsChanged \/ HearsPage \/ WalksBack
           \/ HearsFresh("fresh") \/ HearsFresh("again")
  PROVE  PageOK' /\ Mail(fetched', polling') /\ PageOnly /\ UNCHANGED viewedVars
<1>1. /\ FilesOK /\ PageOK /\ Mail(fetched, polling) /\ chat \in Chats /\ polling \in Polls
      /\ fetched["poll"] # NoOne /\ PageOnly /\ UNCHANGED viewedVars
  BY DEF LensInv, PageOK, Mail, HearsNothing, HearsFailure, HearsChanged, HearsPage, WalksBack,
         HearsFresh, PollHears, Answered, Fetching
<1>2. PICK f \in Requests : f = fetched["poll"]
  BY <1>1, LensBounds DEF Mail
<1>3. PICK page \in Pages : page = f.page
  BY DEF Requests
<1>4. PICK from \in Cursors \cup {NoOne} : from = f.from
  BY DEF Requests
<1>5. CASE HearsNothing
  BY <1>1, <1>5, EndsKeeps DEF HearsNothing
<1>6. CASE HearsFailure
  <2>1. PICK how \in {"refused", "failed"} : how = f.kind
    BY <1>2, <1>6 DEF HearsFailure
  <2>2. chat' = [chat EXCEPT !.error = how] /\ PollEnds
    BY <1>2, <1>6, <2>1 DEF HearsFailure
  <2>3. chat' \in Chats
    BY <1>1, <2>2 DEF Chats
  <2> QED BY <1>1, <2>2, <2>3, EndsKeeps
<1>7. CASE HearsChanged
  <2>1. PICK d \in Chats : d = DropOlder(chat)
    BY <1>1, DropTyped
  <2>2. chat' = [d EXCEPT !.error = "none", !.from = NoOne, !.tag = NoOne]
    BY <1>7, <2>1 DEF HearsChanged
  <2>3. chat' \in Chats
    BY <2>2 DEF Chats
  <2>4. PICK stage : stage = [Idle EXCEPT !.at = "again"]
    OBVIOUS
  <2>5. stage \in Polls /\ stage.at = "again"
    BY <2>4, IdleIs DEF Polls
  <2>6. PollAsks(stage, NoOne)
    BY <1>7, <2>4 DEF HearsChanged
  <2> QED BY <1>1, <2>3, <2>5, <2>6, AsksKeeps
<1>8. CASE HearsPage
  <2>1. PICK cursor \in Cursors \cup {NoOne} : cursor = IF chat.held = NoOne THEN page.cursor ELSE chat.cursor
    BY <1>1 DEF Chats, Pages
  <2>2. PICK held \in Cursors \cup {NoOne} : held = IF page.cursor = NoOne THEN NoOne ELSE chat.held
    BY <1>1 DEF Chats
  <2>3. PICK d : d = [chat EXCEPT !.turns = page.turns, !.error = "none", !.from = from,
                                  !.tag = page.tag, !.cursor = cursor, !.held = held]
    OBVIOUS
  <2>4. d \in Chats
    BY <1>1, <2>3 DEF Chats, Pages
  <2>5. PICK slid \in BOOLEAN : slid = (chat.held # NoOne /\ page.cursor \notin {NoOne, chat.held})
    OBVIOUS
  <2>6. PICK stage : stage = [Idle EXCEPT !.at = "walk", !.held = chat.held, !.start = page.cursor]
    OBVIOUS
  <2>7. /\ chat' = d
        /\ IF slid THEN PollAsks(stage, page.cursor) ELSE PollEnds
    BY <1>2, <1>3, <1>4, <1>8, <2>1, <2>2, <2>3, <2>5, <2>6, Zenon DEF HearsPage
  <2>8. page.cursor \in Cursors \cup {NoOne} /\ chat.held \in Cursors \cup {NoOne}
    BY <1>1 DEF Pages, Chats
  <2>9. stage \in Polls /\ stage.at = "walk" /\ stage.steps < WalkPages
    <3>1. PICK z \in Polls : z = Idle /\ z.steps = 0
      BY IdleIs
    <3>2. stage = [z EXCEPT !.at = "walk", !.held = chat.held, !.start = page.cursor]
      BY <2>6, <3>1
    <3>3. stage \in Polls /\ stage.at = "walk" /\ stage.steps = 0
      BY <2>8, <3>1, <3>2 DEF Polls
    <3> QED BY <3>3, LensBounds
  <2>10. CASE PollAsks(stage, page.cursor)
    BY <1>1, <2>4, <2>7, <2>8, <2>9, <2>10, AsksKeeps
  <2>11. CASE PollEnds
    BY <1>1, <2>4, <2>7, <2>11, EndsKeeps
  <2> QED BY <2>7, <2>10, <2>11
<1>9. CASE WalksBack
  <2>1. PICK steps \in Nat : steps = polling.steps + 1 /\ steps <= WalkPages
    <3>1. polling.at = "walk" /\ polling.steps \in Nat /\ polling.steps < WalkPages
      BY <1>1, <1>9 DEF WalksBack, PollHears, Mail, Polls
    <3> QED BY <3>1, LensBounds
  <2>2. PICK d \in Chats : d = DropOlder(chat)
    BY <1>1, DropTyped
  <2>3. PICK fresh : fresh = [Idle EXCEPT !.at = "fresh"]
    OBVIOUS
  <2>4. PICK bounded : bounded = [Idle EXCEPT !.at = "fresh", !.steps = steps]
    OBVIOUS
  <2>5. PICK on : on = [polling EXCEPT !.steps = steps]
    OBVIOUS
  <2>6. PICK joined : joined = [chat EXCEPT !.held = polling.start]
    OBVIOUS
  <2>7. /\ fresh \in Polls /\ fresh.at = "fresh" /\ bounded \in Polls /\ bounded.at = "fresh"
        /\ on \in Polls /\ on.at = polling.at /\ on.steps = steps
    <3>1. steps \in 0..WalkPages
      BY <2>1, LensBounds
    <3>2. PICK z \in Polls : z = Idle
      BY IdleIs
    <3>3. fresh \in Polls /\ fresh.at = "fresh"
      BY <2>3, <3>2 DEF Polls
    <3>4. bounded \in Polls /\ bounded.at = "fresh"
      BY <2>4, <3>1, <3>2 DEF Polls
    <3>5. on \in Polls /\ on.at = polling.at /\ on.steps = steps
      BY <1>1, <2>5, <3>1 DEF Polls
    <3> QED BY <3>3, <3>4, <3>5
  <2>8. joined \in Chats
    BY <1>1, <2>6 DEF Chats, Polls
  <2>9. \/ chat' = d /\ PollAsks(fresh, NoOne)
        \/ chat' = joined /\ PollEnds
        \/ chat' = d /\ PollAsks(bounded, NoOne)
        \/ steps # WalkPages /\ PollAsks(on, page.cursor) /\ UNCHANGED chat
    BY <1>2, <1>3, <1>9, <2>1, <2>2, <2>3, <2>4, <2>5, <2>6, Zenon DEF WalksBack
  <2>10. CASE chat' = d /\ (PollAsks(fresh, NoOne) \/ PollAsks(bounded, NoOne))
    BY <1>1, <2>7, <2>10, AsksKeeps
  <2>11. CASE chat' = joined /\ PollEnds
    BY <1>1, <2>8, <2>11, EndsKeeps
  <2>12. CASE steps # WalkPages /\ PollAsks(on, page.cursor) /\ UNCHANGED chat
    <3>1. on.at = "walk" /\ on.steps < WalkPages
      BY <1>9, <2>1, <2>7, <2>12, LensBounds DEF WalksBack, PollHears
    <3>2. page.cursor \in Cursors \cup {NoOne}
      BY DEF Pages
    <3> QED BY <1>1, <2>7, <2>12, <3>1, <3>2, AsksKeeps
  <2> QED BY <2>9, <2>10, <2>11, <2>12
<1>10. ASSUME NEW at \in {"fresh", "again"}, HearsFresh(at) PROVE chat' \in Chats /\ PollEnds
  <2>1. Plain(f)
    BY <1>1, <1>2, <1>10 DEF HearsFresh, PollHears, Mail
  <2>2. \/ chat' = chat
        \/ /\ f.kind = "page"
           /\ \E cursor \in {page.cursor, chat.cursor} :
                chat' = [chat EXCEPT !.turns = page.turns, !.from = NoOne, !.tag = page.tag,
                                     !.cursor = cursor]
        \/ chat' = [chat EXCEPT !.error = "changed"]
        \/ f.kind # "page" /\ chat' = [chat EXCEPT !.error = f.kind]
    <3>1. PICK bounded \in BOOLEAN : bounded = (polling.steps # 0 /\ page.cursor # NoOne)
      OBVIOUS
    <3>2. chat' = IF f.kind = "page"
                    THEN IF ~Mine(f) THEN chat
                         ELSE [chat EXCEPT !.turns = page.turns, !.from = NoOne, !.tag = page.tag,
                                           !.cursor = IF bounded THEN page.cursor ELSE chat.cursor]
                  ELSE IF at = "again" THEN [chat EXCEPT !.error = "changed"]
                  ELSE IF Mine(f) THEN [chat EXCEPT !.error = f.kind]
                  ELSE chat
      BY <1>1, <1>2, <1>3, <1>10, <3>1 DEF HearsFresh, Chats
    <3>3. PICK cursor \in {page.cursor, chat.cursor} : cursor = IF bounded THEN page.cursor ELSE chat.cursor
      OBVIOUS
    <3> QED BY <3>2, <3>3, Zenon
  <2>4. ASSUME NEW cursor \in {page.cursor, chat.cursor},
               chat' = [chat EXCEPT !.turns = page.turns, !.from = NoOne, !.tag = page.tag, !.cursor = cursor]
        PROVE  chat' \in Chats
    BY <1>1, <2>4 DEF Chats, Pages
  <2>5. ASSUME NEW how, how = "changed" \/ (how = f.kind /\ f.kind # "page"),
               chat' = [chat EXCEPT !.error = how]
        PROVE  chat' \in Chats
    <3>1. how \in {"none", "refused", "failed", "changed"}
      BY <2>1, <2>5 DEF Plain, Requests
    <3> QED BY <1>1, <2>5, <3>1 DEF Chats
  <2>6. PollEnds
    BY <1>10 DEF HearsFresh
  <2>7. chat' \in Chats
    <3>1. CASE chat' = chat
      BY <1>1, <3>1
    <3>2. CASE \E cursor \in {page.cursor, chat.cursor} :
                 chat' = [chat EXCEPT !.turns = page.turns, !.from = NoOne, !.tag = page.tag,
                                      !.cursor = cursor]
      BY <2>4, <3>2
    <3>3. CASE chat' = [chat EXCEPT !.error = "changed"]
      BY <2>5, <3>3
    <3>4. CASE f.kind # "page" /\ chat' = [chat EXCEPT !.error = f.kind]
      BY <2>5, <3>4
    <3> QED BY <2>2, <3>1, <3>2, <3>3, <3>4
  <2> QED BY <2>6, <2>7
<1>11. CASE HearsFresh("fresh") \/ HearsFresh("again")
  BY <1>1, <1>10, <1>11, EndsKeeps
<1> QED BY <1>5, <1>6, <1>7, <1>8, <1>9, <1>11

-----------------------------------------------------------------------------
\* What a step leaves alone.
LEMMA LensStays ==
  /\ FilesOK /\ UNCHANGED fileVars => FilesOK'
  /\ CacheOK /\ UNCHANGED turnsCache => CacheOK'
  /\ Mail(fetched, polling) /\ UNCHANGED <<fetched, polling>> => Mail(fetched', polling')
  /\ ViewOK /\ UNCHANGED viewedVars => ViewOK'
  /\ PageOK /\ UNCHANGED <<chat, pollTimer, pollQueued>> => PageOK'
BY DEF FilesOK, CacheOK, ViewOK, PageOK, fileVars, viewedVars

LEMMA PollStepsKeep == ASSUME LensInv, PollSteps PROVE LensInv'
<1>1. CASE PollTimerFires
  <2>1. PageOnly /\ UNCHANGED viewedVars /\ pollTimer' = FALSE /\ PollConversation(chat, fetched)
    BY <1>1 DEF PollTimerFires
  <2>2. FilesOK /\ CacheOK /\ ViewOK /\ PageOK /\ Mail(fetched, polling) /\ chat \in Chats
    BY DEF LensInv, PageOK
  <2>3. chat' \in Chats /\ Mail(fetched', polling') /\ pollQueued' \in BOOLEAN
    BY <2>1, <2>2, PollKeeps
  <2>4. PageOK'
    BY <2>1, <2>3 DEF PageOK
  <2> QED BY <2>1, <2>2, <2>3, <2>4, LensStays DEF LensInv, PageOnly
<1>2. CASE HearsNothing \/ HearsFailure \/ HearsChanged \/ HearsPage \/ WalksBack
             \/ HearsFresh("fresh") \/ HearsFresh("again")
  <2>1. PageOK' /\ Mail(fetched', polling') /\ PageOnly /\ UNCHANGED viewedVars
    BY <1>2, PollHearsKeeps
  <2> QED BY <2>1, LensStays DEF LensInv, PageOnly
<1> QED BY <1>1, <1>2 DEF PollSteps

LEMMA OlderKeeps ==
  ASSUME LensInv, NEW o \in Loads, OlderHears(o)
  PROVE  LensInv'
<1>1. /\ FilesOK /\ CacheOK /\ ViewOK /\ PageOK /\ Mail(fetched, polling) /\ chat \in Chats
      /\ fetched[o] # NoOne /\ o \in Fetchers /\ PageOnly /\ UNCHANGED viewedVars
  BY DEF LensInv, PageOK, OlderHears, Answered, Fetching, Fetchers
<1>2. PICK f \in Requests : f = fetched[o]
  BY <1>1 DEF Mail
<1>3. PICK out : out = [fetched EXCEPT ![o] = NoOne]
  OBVIOUS
<1>4. Mail(out, polling)
  BY <1>1, <1>3, MailLoads
<1>5. PICK held \in Cursors \cup {NoOne} : held = IF chat.held = NoOne THEN f.before ELSE chat.held
  BY <1>1 DEF Chats, Requests
<1>6. PICK cursor \in Cursors \cup {NoOne} : cursor = f.page.cursor
  BY DEF Requests, Pages
<1>7. PICK more : more = [chat EXCEPT !.held = held, !.cursor = cursor, !.loading = "idle"]
  OBVIOUS
<1>8. more \in Chats
  BY <1>1, <1>7 DEF Chats
<1>9. PICK d \in Chats : d = DropOlder(chat)
  BY <1>1, DropTyped
<1>10. PICK failed : failed = [chat EXCEPT !.loading = "failed"]
  OBVIOUS
<1>11. failed \in Chats
  BY <1>1, <1>10 DEF Chats
<1>12. \/ /\ chat' = chat \/ chat' = failed \/ chat' = more
          /\ fetched' = out /\ UNCHANGED <<polling, pollTimer, pollQueued>>
       \/ Refresh(d, out) \/ Refresh(more, out)
  BY <1>2, <1>3, <1>5, <1>6, <1>7, <1>9, <1>10, Zenon DEF OlderHears
<1>13. PageOK' /\ Mail(fetched', polling')
  <2>1. CASE Refresh(d, out) \/ Refresh(more, out)
    BY <1>1, <1>4, <1>8, <2>1, RefreshKeeps
  <2>2. CASE /\ chat' = chat \/ chat' = failed \/ chat' = more
             /\ fetched' = out /\ UNCHANGED <<polling, pollTimer, pollQueued>>
    BY <1>1, <1>4, <1>8, <1>11, <2>2 DEF PageOK
  <2> QED BY <1>12, <2>1, <2>2
<1> QED BY <1>1, <1>13, LensStays DEF LensInv, PageOnly

LEMMA LoadKeeps ==
  ASSUME LensInv, NEW o \in Loads, LoadOlder(o)
  PROVE  LensInv'
<1>1. /\ FilesOK /\ CacheOK /\ ViewOK /\ PageOK /\ Mail(fetched, polling) /\ chat \in Chats /\ Turns
      /\ inView = chat.pane /\ chat.cursor # NoOne
      /\ UNCHANGED <<snapshot, journal, marker, turnsCache, viewedVars, polling, pollTimer, pollQueued>>
  BY DEF LensInv, PageOK, LoadOlder
<1>2. PICK p \in ChatPanes : p = chat.pane
  BY <1>1, LensBounds DEF Chats, ViewOK
<1>3. PICK cursor \in Cursors : cursor = chat.cursor
  BY <1>1 DEF Chats
<1>4. PICK g \in Requests : g = Request(p, cursor, NoOne, NoOne) /\ Sound(g)
  BY <1>1, RequestIs
<1>5. fetched' = [fetched EXCEPT ![o] = g] /\ chat' = [chat EXCEPT !.loading = "loading"]
  BY <1>2, <1>3, <1>4 DEF LoadOlder
<1>6. Mail(fetched', polling')
  BY <1>1, <1>4, <1>5, MailLoads
<1>7. PageOK'
  BY <1>1, <1>5 DEF PageOK, Chats
<1>8. FilesOK'
  BY <1>1, FilesStay
<1> QED BY <1>1, <1>6, <1>7, <1>8, LensStays DEF LensInv

LEMMA ViewerKeeps ==
  ASSUME LensInv, Viewer \/ OnPaneChanged
  PROVE  LensInv'
<1>1. FilesOK /\ CacheOK /\ ViewOK /\ PageOK /\ Mail(fetched, polling) /\ chat \in Chats
  BY DEF LensInv, PageOK
<1>2. CASE Submitted
  <2>1. /\ Turns /\ Refresh(chat, fetched)
        /\ UNCHANGED <<snapshot, journal, marker, turnsCache, viewedVars>>
    BY <1>2 DEF Submitted
  <2> QED BY <1>1, <2>1, RefreshKeeps, FilesStay, LensStays DEF LensInv
<1>3. ASSUME OpenLens \/ CloseLens \/ (\E p \in LensPanes : GoToPane(p)) \/ OnPaneChanged
      PROVE  FilesOK' /\ ViewOnly
  <2>1. ViewOnly /\ (lensTurns' = lensTurns \/ Turns)
    BY <1>3 DEF OpenLens, CloseLens, GoToPane, OnPaneChanged, Turns
  <2> QED BY <1>1, <2>1, FilesStay DEF ViewOnly
<1>4. ASSUME FilesOK', ViewOnly, ViewOK', chat' \in Chats, pollTimer' \in BOOLEAN PROVE LensInv'
  BY <1>1, <1>4, LensStays DEF LensInv, PageOK, ViewOnly
<1>5. CASE OpenLens
  <2>1. ViewOK'
    BY <1>1, <1>5 DEF OpenLens, ViewOK
  <2>2. chat' \in Chats /\ pollTimer' \in BOOLEAN
    BY <1>1, <1>5, AnchoredTyped DEF OpenLens, PageOK
  <2> QED BY <1>3, <1>4, <1>5, <2>1, <2>2
<1>6. CASE CloseLens
  <2>1. ViewOK' /\ chat' \in Chats /\ pollTimer' \in BOOLEAN
    BY <1>1, <1>6 DEF CloseLens, ViewOK
  <2> QED BY <1>3, <1>4, <1>6, <2>1
<1>7. ASSUME NEW p \in LensPanes, GoToPane(p) PROVE LensInv'
  <2>1. hurried' \in BOOLEAN
    BY <1>7, Zenon DEF GoToPane
  <2>2. ViewOK' /\ chat' \in Chats /\ pollTimer' \in BOOLEAN
    BY <1>1, <1>7, <2>1 DEF GoToPane, ViewOK, PageOK
  <2> QED BY <1>3, <1>4, <1>7, <2>2
<1>8. CASE OnPaneChanged
  <2>1. lensOpen' \in BOOLEAN /\ reopen' \in BOOLEAN
    BY <1>8, Zenon DEF OnPaneChanged
  <2>2. ViewOK'
    BY <1>1, <1>8, <2>1 DEF OnPaneChanged, ViewOK
  <2>3. chat' \in Chats
    BY <1>1, <1>8, AnchoredTyped DEF OnPaneChanged
  <2>4. pollTimer' \in BOOLEAN
    BY <1>8, Zenon DEF OnPaneChanged
  <2> QED BY <1>3, <1>4, <1>8, <2>2, <2>3, <2>4
<1> QED BY <1>2, <1>5, <1>6, <1>7, <1>8 DEF Viewer

LEMMA LensInvStep == LensInv /\ [ChatNext]_lensVars => LensInv'
<1>1. ASSUME LensInv, UNCHANGED lensVars PROVE LensInv'
  BY <1>1, LensStays DEF LensInv, lensVars, fileVars, pollVars
<1>2. ASSUME LensInv, Agents PROVE LensInv'
  <2>1. FilesOK' /\ Untouched
    BY <1>2, AgentsKeep DEF LensInv
  <2> QED BY <1>2, <2>1, LensStays DEF LensInv, Untouched, pollVars
<1>3. ASSUME LensInv, NEW k \in Fetchers, ServerSteps(k) PROVE LensInv'
  <2>1. CacheOK' /\ Mail(fetched', polling) /\ ServerOnly
    BY <1>3, ServerKeeps
  <2> QED BY <1>3, <2>1, LensStays DEF LensInv, ServerOnly, pollVars
<1>4. ASSUME LensInv, NEW k \in Fetchers, RequestFails(k) PROVE LensInv'
  <2>1. Mail(fetched', polling) /\ FilesOK' /\ UNCHANGED <<turnsCache, viewedVars, pollVars>>
    BY <1>4, FailKeeps DEF RequestFails
  <2> QED BY <1>4, <2>1, LensStays DEF LensInv, pollVars
<1> QED BY <1>1, <1>2, <1>3, <1>4, PollStepsKeep, OlderKeeps, LoadKeeps, ViewerKeeps DEF ChatNext

LEMMA LensInvInit == ChatInit => LensInv
<1> SUFFICES ASSUME ChatInit PROVE LensInv
  OBVIOUS
<1>1. \A s \in ChatSessions : [n \in 1..Written |-> <<s, n>>] \in Seq(TurnIds)
  <2> SUFFICES ASSUME NEW s \in ChatSessions PROVE [n \in 1..Written |-> <<s, n>>] \in Seq(TurnIds)
    OBVIOUS
  <2>1. \A n \in 1..Written : <<s, n>> \in TurnIds
    BY DEF TurnIds
  <2>2. [n \in 1..Written |-> <<s, n>>] \in [1..Written -> TurnIds]
    BY <2>1
  <2> QED BY <2>2, SeqDef, LensBounds
<1>2. /\ \A s \in ChatSessions : [stamp |-> 1, turns |-> [n \in 1..Written |-> <<s, n>>]] \in Files
      /\ [stamp |-> 0, turns |-> <<>>] \in Files /\ [sig |-> NoOne, turns |-> <<>>] \in Cached
  BY <1>1, NoTurnsTyped DEF Files, Cached
<1>3. FilesOK
  <2>1. \A s \in ChatSessions : snapshot[s].stamp <= 1 /\ journal[s].stamp <= 1
    BY DEF ChatInit
  <2>2. lensTurns \in 0..LensTurns
    BY LensBounds DEF ChatInit
  <2>3. snapshot \in [ChatSessions -> Files] /\ journal \in [ChatSessions -> Files]
    BY <1>2 DEF ChatInit
  <2> QED BY <2>1, <2>2, <2>3 DEF ChatInit, FilesOK
<1>4. CacheOK
  BY <1>2 DEF ChatInit, CacheOK
<1>5. Mail(fetched, polling)
  BY IdleIs, LensBounds DEF ChatInit, Mail
<1>6. ViewOK
  BY LensBounds DEF ChatInit, ViewOK
<1>7. PageOK
  <2>1. PICK p \in ChatPanes \cup {NoOne} : chat = ResetChat(p)
    BY LensBounds DEF ChatInit
  <2>2. chat \in Chats
    BY <2>1, ResetTyped
  <2> QED BY <2>2 DEF ChatInit, PageOK
<1> QED BY <1>3, <1>4, <1>5, <1>6, <1>7 DEF LensInv

(***************************************************************************)
(* The lens keeps its types, whatever files are written between two reads: *)
(* every cursor that a page keeps, or a request carries, names a turn of a *)
(* session, a poll has a request exactly while it is under way, and        *)
(* turnsBetween never asks for more pages than its bound.                  *)
(***************************************************************************)
THEOREM LensTypeCorrect == ChatSpec => []ChatTypeOK
BY LensTyped, LensInvInit, LensInvStep, PTL DEF ChatSpec

-----------------------------------------------------------------------------
\* A step of MCWatching is one of one component; the others stay.
LEMMA WatchInvStep ==
  AgentInv /\ FanInv /\ LensInv /\ [WatchNext]_watchVars => (AgentInv /\ FanInv /\ LensInv)'
<1> SUFFICES ASSUME AgentInv, FanInv, LensInv, [WatchNext]_watchVars
             PROVE  (AgentInv /\ FanInv /\ LensInv)'
  OBVIOUS
<1>1. [AgentNext]_agentVars /\ [FanNext]_fanVars /\ [ChatNext]_lensVars
  BY DEF WatchNext, InAgent, InFan, InLens, watchVars
<1> QED BY <1>1, AgentStep, FanInvStep, LensInvStep

(***************************************************************************)
(* The three components stay well typed, for any number of terminals,      *)
(* browsers, sessions and turns.                                           *)
(***************************************************************************)
THEOREM WatchTypeCorrect == WatchSpec => []WatchTypeOK
<1>1. WatchInit => AgentInv /\ FanInv /\ LensInv
  BY AgentInitHolds, FanInvInit, LensInvInit DEF WatchInit
<1>2. AgentInv /\ FanInv /\ LensInv => WatchTypeOK
  BY LensTyped DEF AgentInv, Typed, FanInv, WatchTypeOK
<1> QED BY <1>1, <1>2, WatchInvStep, PTL DEF WatchSpec
=============================================================================
