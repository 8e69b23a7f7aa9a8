---------------------------- MODULE ServicesProofs ----------------------------
(***************************************************************************)
(* The components that MCServices composes, for every set of requests.     *)
(* What the server keeps on the disk: the file that login sessions survive *)
(* restarts in converges to them, browsers are told of notes that are      *)
(* there, and no save replaces a text that its editor has not shown.  Then *)
(* the marker of a temporary tab, the life of a session, the language      *)
(* servers and the terminal client; and that the composition is of the     *)
(* seven components.                                                       *)
(***************************************************************************)
EXTENDS MCServices, SequenceLemmas, FiniteSetTheorems

-----------------------------------------------------------------------------
(***************************************************************************)
(* AuthSessions: the file of the login sessions.                           *)
(***************************************************************************)

\* The inductive invariant: a writer that was let through holds the live set,
\* and while the file differs from it somebody is about to save it.
Tidy(s, n) ==
  s \in TokenSeqs /\ ToSet(s) \subseteq 1..n /\ Len(s) <= MaxSessions /\ IsInjective(s)

AllTidy == Tidy(live, minted) /\ Tidy(sidecar, minted) /\ \A w \in writers : Tidy(w.kept, minted)

InStep == ToSet(sidecar) \ lapsed = ToSet(live) \ lapsed

Converging ==
  /\ \A w \in writers : w.checked => ToSet(w.kept) = ToSet(live)
  /\ saving > 0 \/ InStep \/ \E w \in writers : w.rev = rev

AuthInv == AuthTypeOK /\ AllTidy /\ (~raced => Converging)

LEMMA AuthInvInit == AuthInit => AuthInv
<1> SUFFICES ASSUME AuthInit PROVE AuthInv
  OBVIOUS
<1> USE AuthAssumption DEF AuthInit
<1>1. live \in TokenSeqs /\ Len(live) = 0 /\ ToSet(live) = {} /\ IsInjective(live) /\ sidecar = live
  <2>1. <<>> \in Seq(1..Tokens) /\ Len(<<>>) = 0
    OBVIOUS
  <2>2. ToSet(<<>>) = {} /\ IsInjective(<<>>)
    BY DEF ToSet, IsInjective
  <2> QED BY <2>1, <2>2 DEF TokenSeqs
<1>2. 0 <= MaxSessions /\ 0 \in 0..Tokens /\ 0 \in 0..Epochs
  OBVIOUS
<1>3. AuthTypeOK
  BY <1>1, <1>2 DEF AuthTypeOK
<1>4. AllTidy
  BY <1>1, <1>2 DEF AllTidy, Tidy
<1>5. Converging
  BY <1>1 DEF Converging, InStep
<1> QED BY <1>3, <1>4, <1>5 DEF AuthInv

LEMMA AuthBounds ==
  MaxSessions \in Nat \ {0} /\ Tokens \in Nat /\ Epochs \in Nat
BY AuthAssumption

LEMMA TidyGrows ==
  ASSUME NEW s, NEW n \in Nat, NEW m \in Nat, n <= m, Tidy(s, n)
  PROVE  Tidy(s, m)
BY DEF Tidy

LEMMA TidyWithout ==
  ASSUME NEW s, NEW n, NEW out, Tidy(s, n)
  PROVE  Tidy(Without(s, out), n) /\ ToSet(Without(s, out)) = ToSet(s) \ out
<1>1. s \in Seq(1..Tokens) /\ Len(s) \in Nat
  BY DEF Tidy, TokenSeqs
<1>2. /\ Without(s, out) \in Seq(1..Tokens) /\ Len(Without(s, out)) <= Len(s)
      /\ ToSet(Without(s, out)) = ToSet(s) \ out
      /\ IsInjective(s) => IsInjective(Without(s, out))
  BY <1>1, WithoutProperties
<1>3. Len(Without(s, out)) \in Nat
  BY <1>2
<1> QED BY <1>1, <1>2, <1>3, AuthBounds DEF Tidy, TokenSeqs

LEMMA TidyTail ==
  ASSUME NEW S, NEW s \in Seq(S), s # <<>>, IsInjective(s)
  PROVE  /\ Tail(s) \in Seq(S) /\ Len(Tail(s)) = Len(s) - 1 /\ ToSet(Tail(s)) \subseteq ToSet(s)
         /\ IsInjective(Tail(s))
<1>1. PICK t \in Seq(S) : t = Tail(s)
  BY HeadTailProperties
<1>2. /\ Len(s) \in Nat \ {0} /\ Len(t) = Len(s) - 1
      /\ DOMAIN t = 1..Len(s) - 1 /\ DOMAIN s = 1..Len(s)
      /\ \A i \in 1..Len(s) - 1 : t[i] = s[i + 1]
  <2>1. Len(s) \in Nat \ {0} /\ Len(t) = Len(s) - 1
    BY <1>1, HeadTailProperties, EmptySeq
  <2>2. \A i \in 1..Len(t) : t[i] = s[i + 1]
    BY <1>1, HeadTailProperties
  <2> QED BY <2>1, <2>2
<1>3. ToSet(t) \subseteq ToSet(s)
  BY <1>2 DEF ToSet
<1>4. IsInjective(t)
  <2> SUFFICES ASSUME NEW a \in 1..Len(s) - 1, NEW b \in 1..Len(s) - 1, t[a] = t[b] PROVE a = b
    BY <1>2 DEF IsInjective
  <2>1. a + 1 \in DOMAIN s /\ b + 1 \in DOMAIN s /\ s[a + 1] = s[b + 1]
    BY <1>2
  <2>2. a + 1 = b + 1
    BY <2>1 DEF IsInjective
  <2> QED BY <1>2, <2>2
<1> QED BY <1>1, <1>2, <1>3, <1>4

\* A handler changes the set, or not, and will save.
LEMMA MemberKeeps ==
  ASSUME AuthInv, NEW tokens, NEW n \in Nat, Membership(tokens, n), BeginSave,
         minted' \in minted..Tokens, Tidy(tokens, minted'), epoch' \in 0..Epochs,
         UNCHANGED <<lapsed, writers, sidecar>>
  PROVE  AuthInv'
<1>1. live' = tokens /\ rev' = n /\ saving' = saving + 1
  BY DEF Membership, BeginSave
<1>2. raced' = (raced \/ (ToSet(tokens) # ToSet(live) /\ \E w \in writers : w.checked))
  BY DEF Membership
<1>3. minted \in Nat /\ minted' \in Nat /\ minted <= minted' /\ minted' \in 0..Tokens
  BY AuthBounds DEF AuthInv, AuthTypeOK
<1>4. AllTidy'
  BY <1>1, <1>3, TidyGrows DEF AuthInv, AllTidy
<1>5. AuthTypeOK'
  <2>1. saving' \in Nat /\ raced' \in BOOLEAN
    BY <1>1, <1>2 DEF AuthInv, AuthTypeOK
  <2>2. lapsed' \subseteq 1..minted'
    BY <1>3 DEF AuthInv, AuthTypeOK
  <2> QED BY <1>1, <1>3, <2>1, <2>2 DEF AuthInv, AuthTypeOK, Tidy
<1>6. ASSUME ~raced' PROVE Converging'
  <2>1. \A w \in writers : w.checked => ToSet(w.kept) = ToSet(live')
    BY <1>1, <1>2, <1>6 DEF AuthInv, Converging
  <2>2. saving' > 0
    BY <1>1 DEF AuthInv, AuthTypeOK
  <2> QED BY <2>1, <2>2 DEF Converging
<1> QED BY <1>4, <1>5, <1>6 DEF AuthInv

LEMMA LoginKeeps == AuthInv /\ Login => AuthInv'
<1> SUFFICES ASSUME AuthInv, Login PROVE AuthInv'
  OBVIOUS
<1>1. /\ minted \in Nat /\ minted' = minted + 1 /\ minted' \in minted..Tokens /\ minted' \in 1..Tokens
      /\ rev \in Nat /\ epoch' \in 0..Epochs
  BY AuthBounds DEF AuthInv, AuthTypeOK, Login
<1>2. PICK kept : kept = Valid(live) /\ Tidy(kept, minted)
  BY TidyWithout DEF Valid, AuthInv, AllTidy
<1>3. PICK issued : issued = Append(kept, minted + 1)
  OBVIOUS
<1>4. /\ issued \in Seq(1..Tokens) /\ Len(issued) = Len(kept) + 1 /\ Len(kept) \in Nat
      /\ ToSet(issued) = ToSet(kept) \cup {minted'} /\ IsInjective(issued)
  <2>1. kept \in Seq(1..Tokens) /\ minted + 1 \in 1..Tokens /\ minted + 1 \notin ToSet(kept)
    BY <1>1, <1>2 DEF Tidy, TokenSeqs
  <2>2. /\ issued \in Seq(1..Tokens) /\ Len(issued) = Len(kept) + 1
        /\ ToSet(issued) = ToSet(kept) \cup {minted + 1}
        /\ IsInjective(kept) /\ minted + 1 \notin ToSet(kept) => IsInjective(issued)
    BY <1>3, <2>1, AppendOnce
  <2>3. Len(kept) \in Nat /\ IsInjective(kept)
    BY <1>2, <2>1 DEF Tidy
  <2> QED BY <1>1, <2>1, <2>2, <2>3
<1>5. ToSet(issued) \subseteq 1..minted'
  BY <1>1, <1>2, <1>4 DEF Tidy
<1>6. PICK tokens : tokens = IF Len(issued) > MaxSessions THEN Tail(issued) ELSE issued
  OBVIOUS
<1>7. PICK n \in Nat : Membership(tokens, n)
  <2>1. Issue
    BY DEF Login
  <2>2. rev + (IF kept = live THEN 0 ELSE 1) + 1 \in Nat
    BY <1>1
  <2> QED BY <1>2, <1>3, <1>6, <2>1, <2>2 DEF Issue
<1>8. Tidy(tokens, minted')
  <2>1. CASE Len(issued) > MaxSessions
    <3>1. issued # <<>> /\ Len(issued) - 1 <= MaxSessions
      BY <1>2, <1>4, <2>1, AuthBounds DEF Tidy
    <3>2. /\ Tail(issued) \in Seq(1..Tokens) /\ Len(Tail(issued)) = Len(issued) - 1
          /\ ToSet(Tail(issued)) \subseteq ToSet(issued) /\ IsInjective(Tail(issued))
      BY <1>4, <3>1, TidyTail
    <3> QED BY <1>5, <1>6, <2>1, <3>1, <3>2 DEF Tidy, TokenSeqs
  <2>2. CASE ~(Len(issued) > MaxSessions)
    BY <1>4, <1>5, <1>6, <2>2, AuthBounds DEF Tidy, TokenSeqs
  <2> QED BY <2>1, <2>2
<1> QED BY <1>1, <1>7, <1>8, MemberKeeps DEF Login

LEMMA LogoutKeeps == \A t \in 1..minted : AuthInv /\ Logout(t) => AuthInv'
<1> SUFFICES ASSUME NEW t \in 1..minted, AuthInv, Logout(t) PROVE AuthInv'
  OBVIOUS
<1>1. Tidy(Without(live, {t}), minted)
  BY TidyWithout DEF AuthInv, AllTidy
<1>2. PICK n \in Nat : Membership(Without(live, {t}), n)
  <2>1. (IF t \in ToSet(live) THEN rev + 1 ELSE rev) \in Nat
    BY DEF AuthInv, AuthTypeOK
  <2> QED BY <2>1 DEF Logout
<1>3. minted' = minted /\ minted' \in minted..Tokens /\ epoch' \in 0..Epochs
  BY AuthBounds DEF AuthInv, AuthTypeOK, Logout
<1> QED BY <1>1, <1>2, <1>3, MemberKeeps DEF Logout

LEMMA CredentialsKeep == AuthInv /\ ChangeCredentials => AuthInv'
<1> SUFFICES ASSUME AuthInv, ChangeCredentials PROVE AuthInv'
  OBVIOUS
<1>1. /\ minted' = minted + 1 /\ minted' \in minted..Tokens /\ minted' \in 1..Tokens
      /\ epoch' \in 0..Epochs
  BY AuthBounds DEF AuthInv, AuthTypeOK, ChangeCredentials
<1>2. PICK one : one = <<minted + 1>>
  OBVIOUS
<1>3. one \in Seq(1..Tokens) /\ Len(one) = 1 /\ DOMAIN one = {1} /\ one[1] = minted'
  BY <1>1, <1>2
<1>4. ToSet(one) = {minted'} /\ IsInjective(one)
  BY <1>3 DEF ToSet, IsInjective
<1>5. Tidy(one, minted')
  BY <1>1, <1>3, <1>4, AuthBounds DEF Tidy, TokenSeqs
<1>6. Membership(one, 2)
  BY <1>2 DEF ChangeCredentials
<1> QED BY <1>1, <1>5, <1>6, MemberKeeps DEF ChangeCredentials

\* A request moves its token to the end: the set is the same.
LEMMA TouchKeeps == \A t \in 1..minted : AuthInv /\ Touch(t) => AuthInv'
<1> SUFFICES ASSUME NEW t \in 1..minted, AuthInv, Touch(t) PROVE AuthInv'
  OBVIOUS
<1>1. t \in ToSet(live)
  <2>1. ToSet(Valid(live)) = ToSet(live) \ lapsed
    BY TidyWithout DEF Valid, AuthInv, AllTidy
  <2> QED BY <2>1 DEF Touch
<1>2. live \in Seq(1..Tokens) /\ Len(live) \in Nat /\ t \in 1..Tokens
  BY AuthBounds DEF AuthInv, AuthTypeOK, TokenSeqs
<1>3. PICK kept : kept = Without(live, {t})
  OBVIOUS
<1>4. /\ kept \in Seq(1..Tokens) /\ ToSet(kept) = ToSet(live) \ {t} /\ IsInjective(kept)
      /\ Len(kept) < Len(live) /\ Len(kept) \in Nat
  <2>1. ToSet(live) \cap {t} # {} /\ IsInjective(live)
    BY <1>1 DEF AuthInv, AuthTypeOK
  <2> QED BY <1>2, <1>3, <2>1, WithoutProperties
<1>5. /\ live' = Append(kept, t) /\ live' \in Seq(1..Tokens) /\ Len(live') = Len(kept) + 1
      /\ ToSet(live') = ToSet(live) /\ IsInjective(live')
  <2>1. PICK moved : moved = Append(kept, t)
    OBVIOUS
  <2>2. /\ moved \in Seq(1..Tokens) /\ Len(moved) = Len(kept) + 1
        /\ ToSet(moved) = ToSet(kept) \cup {t} /\ IsInjective(moved)
    <3>1. t \notin ToSet(kept)
      BY <1>4
    <3>2. /\ Append(kept, t) \in Seq(1..Tokens) /\ Len(Append(kept, t)) = Len(kept) + 1
          /\ ToSet(Append(kept, t)) = ToSet(kept) \cup {t}
          /\ IsInjective(kept) /\ t \notin ToSet(kept) => IsInjective(Append(kept, t))
      BY <1>2, <1>4, AppendOnce
    <3> QED BY <1>4, <2>1, <3>1, <3>2
  <2>3. live' = moved
    BY <1>3, <2>1 DEF Touch
  <2> QED BY <1>1, <1>4, <2>1, <2>2, <2>3
<1>6. Tidy(live', minted)
  BY <1>2, <1>4, <1>5, AuthBounds DEF Tidy, TokenSeqs, AuthInv, AllTidy
<1>7. UNCHANGED <<lapsed, minted, rev, epoch, saving, writers, sidecar, raced>>
  BY DEF Touch
<1>8. AuthTypeOK' /\ AllTidy'
  BY <1>6, <1>7 DEF AuthInv, AuthTypeOK, AllTidy, Tidy
<1>9. Converging => Converging'
  BY <1>5, <1>7 DEF Converging, InStep
<1> QED BY <1>7, <1>8, <1>9 DEF AuthInv

LEMMA WriterType ==
  ASSUME AuthInv, NEW w \in writers
  PROVE  /\ w \in Writers /\ w.kept \in TokenSeqs
         /\ [w EXCEPT !.checked = TRUE] \in Writers
         /\ [w EXCEPT !.checked = TRUE].kept = w.kept /\ [w EXCEPT !.checked = TRUE].rev = w.rev
BY DEF AuthInv, AuthTypeOK, Writers

LEMMA SpawnKeeps == AuthInv /\ SpawnWriter => AuthInv'
<1> SUFFICES ASSUME AuthInv, SpawnWriter PROVE AuthInv'
  OBVIOUS
<1>1. PICK v : v = [rev |-> rev, epoch |-> epoch, kept |-> live, checked |-> FALSE]
  OBVIOUS
<1>2. v \in Writers /\ v.kept = live /\ v.rev = rev /\ ~v.checked
  BY <1>1, AuthBounds DEF Writers, AuthInv, AuthTypeOK
<1>3. /\ UNCHANGED <<live, lapsed, minted, rev, epoch, sidecar, raced>>
      /\ writers' = writers \cup {v} /\ saving' \in Nat
  BY <1>1 DEF SpawnWriter, AuthInv, AuthTypeOK
<1>4. AuthTypeOK' /\ AllTidy'
  BY <1>2, <1>3 DEF AuthInv, AuthTypeOK, AllTidy
<1>5. Converging => Converging'
  BY <1>2, <1>3 DEF Converging
<1> QED BY <1>3, <1>4, <1>5 DEF AuthInv

\* A writer is let through with the live set, or there was a race.
LEMMA CheckRevisionKeeps == \A w \in writers : AuthInv /\ CheckRevision(w) => AuthInv'
<1> SUFFICES ASSUME NEW w \in writers, AuthInv, CheckRevision(w) PROVE AuthInv'
  OBVIOUS
<1>1. PICK v : v = [w EXCEPT !.checked = TRUE]
  OBVIOUS
<1>2. v \in Writers /\ v.kept = w.kept /\ v.rev = w.rev
  BY <1>1, WriterType
<1>3. /\ UNCHANGED <<live, lapsed, minted, rev, epoch, saving, sidecar>>
      /\ writers' = (writers \ {w}) \cup (IF rev = w.rev THEN {v} ELSE {})
      /\ raced' = (raced \/ (rev = w.rev /\ ToSet(w.kept) # ToSet(live)))
  BY <1>1 DEF CheckRevision
<1>4. AuthTypeOK' /\ AllTidy'
  <2>1. raced' \in BOOLEAN /\ writers' \subseteq writers \cup {v}
    BY <1>3 DEF AuthInv, AuthTypeOK
  <2> QED BY <1>2, <1>3, <2>1 DEF AuthInv, AuthTypeOK, AllTidy
<1>5. ASSUME ~raced' PROVE Converging'
  <2>1. Converging /\ (rev = w.rev => ToSet(w.kept) = ToSet(live))
    BY <1>3, <1>5 DEF AuthInv
  <2>2. \A x \in writers' : x.checked => ToSet(x.kept) = ToSet(live')
    BY <1>2, <1>3, <2>1 DEF Converging
  <2>3. ASSUME NEW x \in writers, x.rev = rev PROVE \E y \in writers' : y.rev = rev'
    BY <1>2, <1>3, <2>3
  <2>4. saving' > 0 \/ InStep' \/ \E y \in writers' : y.rev = rev'
    BY <1>3, <2>1, <2>3 DEF Converging, InStep
  <2> QED BY <2>2, <2>4 DEF Converging
<1> QED BY <1>4, <1>5 DEF AuthInv

LEMMA WriteFileKeeps == \A w \in writers : AuthInv /\ WriteFile(w) => AuthInv'
<1> SUFFICES ASSUME NEW w \in writers, AuthInv, WriteFile(w) PROVE AuthInv'
  OBVIOUS
<1>1. /\ w.checked /\ writers' = writers \ {w} /\ sidecar' = w.kept
      /\ UNCHANGED <<live, lapsed, minted, rev, epoch, saving, raced>>
  BY DEF WriteFile
<1>2. AuthTypeOK' /\ AllTidy'
  BY <1>1, WriterType DEF AuthInv, AuthTypeOK, AllTidy
<1>3. Converging => Converging'
  BY <1>1 DEF Converging, InStep
<1> QED BY <1>1, <1>2, <1>3 DEF AuthInv

LEMMA RestartKeeps == AuthInv /\ Restart => AuthInv'
<1> SUFFICES ASSUME AuthInv, Restart PROVE AuthInv'
  OBVIOUS
<1>1. /\ live' = Valid(sidecar) /\ rev' = 1 /\ saving' = 0 /\ writers' = {}
      /\ epoch' \in 0..Epochs /\ UNCHANGED <<lapsed, minted, sidecar, raced>>
  BY AuthBounds DEF Restart, AuthInv, AuthTypeOK
<1>2. Tidy(live', minted) /\ ToSet(live') = ToSet(sidecar) \ lapsed
  BY <1>1, TidyWithout DEF Valid, AuthInv, AllTidy
<1>3. AuthTypeOK' /\ AllTidy'
  BY <1>1, <1>2 DEF AuthInv, AuthTypeOK, AllTidy, Tidy
<1>4. Converging'
  BY <1>1, <1>2 DEF Converging, InStep
<1> QED BY <1>3, <1>4 DEF AuthInv

LEMMA AuthInvStep == AuthInv /\ [AuthNext]_authVars => AuthInv'
<1> SUFFICES ASSUME AuthInv, [AuthNext]_authVars PROVE AuthInv'
  OBVIOUS
<1>1. CASE UNCHANGED authVars
  BY <1>1 DEF authVars, AuthInv, AuthTypeOK, AllTidy, Converging, InStep
<1>2. CASE ChangePolicy
  <2>1. /\ UNCHANGED <<live, minted, epoch, writers, sidecar, raced>>
        /\ lapsed' \subseteq lapsed /\ rev' \in Nat /\ saving' \in Nat /\ saving' > 0
    BY <1>2 DEF ChangePolicy, BeginSave, AuthInv, AuthTypeOK
  <2> QED BY <2>1 DEF AuthInv, AuthTypeOK, AllTidy, Converging
<1>3. ASSUME NEW t \in 1..minted, Lapse(t) PROVE AuthInv'
  BY <1>3 DEF Lapse, AuthInv, AuthTypeOK, AllTidy, Converging, InStep
<1>4. ASSUME NEW t \in 1..minted, Logout(t) \/ Touch(t) PROVE AuthInv'
  BY <1>4, LogoutKeeps, TouchKeeps
<1>5. ASSUME NEW w \in writers, CheckRevision(w) \/ WriteFile(w) PROVE AuthInv'
  BY <1>5, CheckRevisionKeeps, WriteFileKeeps
<1> QED BY <1>1, <1>2, <1>3, <1>4, <1>5, LoginKeeps, CredentialsKeep, SpawnKeeps, RestartKeeps
        DEF AuthNext

\* There are never more sessions than MAX_SESSIONS, and no token twice, after
\* any sequence of logins, evictions, restarts and writes (issue_session).
THEOREM AuthTypeCorrect == AuthSpec => []AuthTypeOK
<1>1. AuthInv => AuthTypeOK
  BY DEF AuthInv
<1> QED BY <1>1, AuthInvInit, AuthInvStep, PTL DEF AuthSpec

\* Once the writers are done the file holds the live sessions, unless one of
\* the two races that persist_session_token leaves open has happened.
THEOREM SessionFileConverges == AuthSpec => []SidecarConverges
<1>1. AuthInv => SidecarConverges
  BY DEF AuthInv, AuthTypeOK, Converging, InStep, SidecarConverges
<1> QED BY <1>1, AuthInvInit, AuthInvStep, PTL DEF AuthSpec

-----------------------------------------------------------------------------
(***************************************************************************)
(* NotesStore: what browsers were told of the notes is on the disk.        *)
(***************************************************************************)

\* What the steps of a save need to know of their variables' types.
NotesTyped ==
  /\ noting \in [NoteRequests -> {"new", "mutated", "opened", "written", "renamed", "answered",
                                  "failed", "refused"}]
  /\ DOMAIN snapshot = NoteRequests
  /\ opened \subseteq NoteRequests
  /\ overlap \in BOOLEAN

\* How far the one save that runs has got.
SaveInHand ==
  \A r \in Saving :
    /\ noting[r] \in {"opened", "written"} => opened = {r}
    /\ noting[r] = "written" => temp = File(snapshot[r], TRUE)
    /\ noting[r] = "renamed" => disk = File(snapshot[r], TRUE)

NoneRenamed == \A r \in Saving : noting[r] # "renamed"

NotesInv ==
  /\ NotesTyped
  /\ ~overlap => /\ \A q, r \in Saving : q = r
                 /\ disk.whole = TRUE
                 /\ SaveInHand
                 /\ NoneRenamed => told = disk.of

-----------------------------------------------------------------------------
LEMMA MutateKeeps == ASSUME NotesInv, NEW r \in NoteRequests, Mutate(r) PROVE NotesInv'
<1> USE DEF NotesInv, NotesTyped
<1>1. PICK after : snapshot' = [snapshot EXCEPT ![r] = after]
  BY DEF Mutate
<1>2. noting[r] = "new" /\ noting' = [noting EXCEPT ![r] = "mutated"]
  BY DEF Mutate
<1>3. overlap' = (overlap \/ Saving # {})
  BY DEF Mutate
<1>4. Saving' = Saving \cup {r}
  BY <1>2 DEF Saving
<1>5. NotesTyped'
  <2>1. opened' = opened /\ overlap' \in BOOLEAN
    BY <1>3 DEF Mutate
  <2> QED BY <1>1, <1>2, <2>1
<1>6. ASSUME ~overlap' PROVE ~overlap /\ Saving = {}
  BY <1>3, <1>6
<1>7. UNCHANGED <<temp, opened, disk, told>>
  BY DEF Mutate
<1> QED BY <1>1, <1>2, <1>4, <1>5, <1>6, <1>7 DEF SaveInHand, NoneRenamed

LEMMA NotesSaveKeeps == ASSUME NotesInv, NEW r \in NoteRequests, SaveStep(r) PROVE NotesInv'
<1> USE DEF NotesInv, NotesTyped
<1>1. CASE OpenTemp(r)
  <2>1. Saving' = Saving /\ r \in Saving
    BY <1>1 DEF OpenTemp, Saving
  <2>2. ~overlap => opened' = {r}
    BY <1>1, <2>1 DEF OpenTemp, Saving
  <2>3. NotesTyped' /\ UNCHANGED <<overlap, snapshot, disk, told>>
    BY <1>1 DEF OpenTemp
  <2>4. noting[r] = "mutated" /\ noting' = [noting EXCEPT ![r] = "opened"]
    BY <1>1 DEF OpenTemp
  <2>5. ASSUME ~overlap PROVE SaveInHand' /\ (NoneRenamed' => told' = disk'.of)
    <3>1. Saving = {r}
      BY <2>1, <2>5
    <3> QED BY <3>1, <2>1, <2>2, <2>3, <2>4, <2>5 DEF SaveInHand, NoneRenamed
  <2> QED BY <2>1, <2>3, <2>5
<1>2. CASE WriteTemp(r)
  <2>1. Saving' = Saving /\ r \in Saving
    BY <1>2 DEF WriteTemp, Saving
  <2>2. ~overlap => opened = {r}
    BY <1>2, <2>1 DEF WriteTemp, SaveInHand
  <2>3. ~overlap => temp' = File(snapshot[r], TRUE) /\ disk' = disk
    BY <1>2, <2>2 DEF WriteTemp
  <2>4. NotesTyped' /\ UNCHANGED <<overlap, snapshot, opened, told>>
    BY <1>2 DEF WriteTemp
  <2>5. noting[r] = "opened" /\ noting' = [noting EXCEPT ![r] = "written"]
    BY <1>2 DEF WriteTemp
  <2>6. ASSUME ~overlap PROVE SaveInHand' /\ (NoneRenamed' => told' = disk'.of)
    <3>1. Saving = {r}
      BY <2>1, <2>6
    <3> QED BY <3>1, <2>1, <2>2, <2>3, <2>4, <2>5, <2>6 DEF SaveInHand, NoneRenamed
  <2> QED BY <2>1, <2>3, <2>4, <2>6
<1>3. CASE RenameTemp(r)
  <2>1. r \in Saving /\ Saving' \subseteq Saving
    BY <1>3 DEF RenameTemp, Saving
  <2>2. ~overlap => opened = {r} /\ temp = File(snapshot[r], TRUE)
    BY <1>3, <2>1 DEF RenameTemp, SaveInHand
  <2>3. ~overlap => noting' = [noting EXCEPT ![r] = "renamed"] /\ disk' = File(snapshot[r], TRUE)
    BY <1>3, <2>2 DEF RenameTemp
  <2>4. NotesTyped' /\ UNCHANGED <<snapshot, overlap>>
    BY <1>3 DEF RenameTemp
  <2>5. ~overlap => disk'.whole = TRUE
    BY <2>3 DEF File
  <2>6. ~overlap => r \in Saving' /\ noting'[r] = "renamed"
    BY <2>3 DEF Saving
  <2> QED BY <2>1, <2>3, <2>4, <2>5, <2>6 DEF SaveInHand, NoneRenamed
<1>4. CASE SaveFails(r)
  <2>1. r \in Saving /\ Saving' = Saving \ {r}
    BY <1>4 DEF SaveFails, Saving
  <2> QED BY <1>4, <2>1 DEF SaveFails, SaveInHand, NoneRenamed
<1> QED BY <1>1, <1>2, <1>3, <1>4 DEF SaveStep

LEMMA BroadcastKeeps == ASSUME NotesInv, NEW r \in NoteRequests, Broadcast(r) PROVE NotesInv'
<1> USE DEF NotesInv, NotesTyped
<1>1. r \in Saving /\ Saving' = Saving \ {r}
  BY DEF Broadcast, Saving
<1>2. ~overlap => disk.of = snapshot[r]
  BY <1>1 DEF Broadcast, SaveInHand, File
<1>3. ~overlap => Saving' = {}
  BY <1>1
<1> QED BY <1>1, <1>2, <1>3 DEF Broadcast, SaveInHand

LEMMA NotesRestartKeeps == ASSUME NotesInv, NotesRestart PROVE NotesInv'
<1> USE DEF NotesInv, NotesTyped
<1>1. noting' = [r \in NoteRequests |-> IF r \in Saving THEN "failed" ELSE noting[r]]
  BY DEF NotesRestart
<1>2. Saving' = {}
  BY <1>1 DEF Saving
<1>3. NotesTyped'
  BY <1>1 DEF NotesRestart
<1>4. ~overlap => told' = disk.of
  BY DEF NotesRestart
<1> QED BY <1>2, <1>3, <1>4 DEF NotesRestart, SaveInHand

LEMMA NotesInvInductive == NotesSpec => []NotesInv
<1>1. NotesInit => NotesInv
  <2> SUFFICES ASSUME NotesInit PROVE NotesInv
    OBVIOUS
  <2>1. Saving = {}
    BY DEF NotesInit, Saving
  <2> QED BY <2>1 DEF NotesInit, NotesInv, NotesTyped, SaveInHand, File
<1>2. ASSUME NotesInv, NEW r \in NoteRequests, RefuseMutation(r) PROVE NotesInv'
  <2>1. Saving' = Saving
    BY <1>2 DEF NotesInv, NotesTyped, RefuseMutation, Saving
  <2> QED BY <1>2, <2>1 DEF NotesInv, NotesTyped, RefuseMutation, SaveInHand, NoneRenamed, Saving
<1>3. ASSUME NotesInv, UNCHANGED noteVars PROVE NotesInv'
  BY <1>3 DEF NotesInv, NotesTyped, SaveInHand, NoneRenamed, Saving, noteVars
<1>4. NotesInv /\ [NotesNext]_noteVars => NotesInv'
  BY <1>2, <1>3, MutateKeeps, NotesSaveKeeps, BroadcastKeeps, NotesRestartKeeps DEF NotesNext
<1> QED BY <1>1, <1>4, PTL DEF NotesSpec

(***************************************************************************)
(* While no two saves overlap, notes.json is whole wherever the server     *)
(* dies, and holds what was broadcast and answered (atomic_write,          *)
(* apply_notes), for any number of requests.                               *)
(***************************************************************************)
THEOREM NotesReachTheDisk == NotesSpec => []BroadcastIsOnDisk
<1>1. NotesInv => BroadcastIsOnDisk
  BY DEF NotesInv, BroadcastIsOnDisk, NoneRenamed
<1> QED BY <1>1, NotesInvInductive, PTL

(***************************************************************************)
(* The limit on the notes holds in the memory, in every snapshot and in    *)
(* the files, so that what a restart loads is within it.                   *)
(***************************************************************************)
Limited(s) == s \in SUBSET Note /\ IsFiniteSet(s) /\ Cardinality(s) <= MaxNotes

NotesLimited ==
  /\ Limited(notes) /\ told \in SUBSET Note
  /\ noting \in [NoteRequests -> {"new", "mutated", "opened", "written", "renamed", "answered",
                                  "failed", "refused"}]
  /\ DOMAIN snapshot = NoteRequests /\ \A r \in NoteRequests : Limited(snapshot[r])
  /\ Limited(temp.of) /\ Limited(disk.of) /\ {temp.whole, disk.whole} \subseteq BOOLEAN
  /\ opened \subseteq NoteRequests /\ answered \subseteq NoteRequests /\ overlap \in BOOLEAN

LEMMA EmptyLimited == Limited({})
BY NotesAssumption, FS_EmptySet DEF Limited

\* A note taken out, changed or put in where there is room.
LEMMA MutationsLimited ==
  ASSUME Limited(notes), NEW r \in NoteRequests, NEW after \in Mutations(r)
  PROVE  Limited(after)
<1>1. IsFiniteSet(notes) /\ notes \subseteq Note /\ Cardinality(notes) \in Nat /\ Cardinality(notes) <= MaxNotes
  BY FS_CardinalityType DEF Limited
<1>2. MaxNotes \in Nat
  BY NotesAssumption
<1>3. ASSUME NEW n \in notes
      PROVE  /\ IsFiniteSet(notes \ {n}) /\ notes \ {n} \subseteq Note
             /\ Cardinality(notes \ {n}) = Cardinality(notes) - 1
  BY <1>1, <1>3, FS_RemoveElement
<1>4. ASSUME NEW s \in SUBSET Note, IsFiniteSet(s), Cardinality(s) < MaxNotes, NEW n \in Note
      PROVE  Limited(s \cup {n})
  <2>1. IsFiniteSet(s \cup {n}) /\ (Cardinality(s \cup {n}) = Cardinality(s) \/ Cardinality(s \cup {n}) = Cardinality(s) + 1)
    BY <1>4, FS_AddElement
  <2>2. Cardinality(s) \in Nat
    BY <1>4, FS_CardinalityType
  <2> QED BY <1>2, <1>4, <2>1, <2>2 DEF Limited
<1>5. CASE Cardinality(notes) < MaxNotes /\ after = notes \cup {[note |-> r, by |-> r]}
  <2>1. [note |-> r, by |-> r] \in Note
    BY DEF Note
  <2> QED BY <1>1, <1>4, <1>5, <2>1
<1>6. ASSUME NEW n \in notes, after = (notes \ {n}) \cup {[n EXCEPT !.by = r]} PROVE Limited(after)
  <2>1. PICK m \in Note : m = [n EXCEPT !.by = r]
    <3>1. PICK k \in Note : k = n
      BY <1>1
    <3>2. PICK m : m = [k EXCEPT !.by = r]
      OBVIOUS
    <3>3. m \in Note
      BY <3>2 DEF Note
    <3> QED BY <3>1, <3>2, <3>3
  <2>2. Cardinality(notes \ {n}) < MaxNotes
    BY <1>1, <1>2, <1>3
  <2>3. after = (notes \ {n}) \cup {m}
    BY <1>6, <2>1, Zenon
  <2>4. IsFiniteSet(notes \ {n}) /\ notes \ {n} \in SUBSET Note
    BY <1>3
  <2>5. PICK s \in SUBSET Note : s = notes \ {n}
    BY <2>4
  <2>6. IsFiniteSet(s) /\ Cardinality(s) < MaxNotes
    BY <2>2, <2>4, <2>5
  <2>7. Limited(s \cup {m})
    BY <1>4, <2>6
  <2>8. after = s \cup {m}
    BY <2>3, <2>5
  <2> QED BY <2>7, <2>8
<1>7. ASSUME NEW n \in notes, after = notes \ {n} PROVE Limited(after)
  <2>1. IsFiniteSet(after) /\ after \subseteq Note /\ Cardinality(after) = Cardinality(notes) - 1
    BY <1>3, <1>7, Zenon
  <2> QED BY <1>1, <1>2, <2>1 DEF Limited
<1>8. \/ Cardinality(notes) < MaxNotes /\ after = notes \cup {[note |-> r, by |-> r]}
      \/ \E n \in notes : after = (notes \ {n}) \cup {[n EXCEPT !.by = r]}
      \/ \E n \in notes : after = notes \ {n}
      \/ after = {}
  BY DEF Mutations
<1> QED BY <1>5, <1>6, <1>7, <1>8, EmptyLimited

LEMMA LimitedStep ==
  ASSUME NotesLimited, NEW r \in NoteRequests,
         Mutate(r) \/ RefuseMutation(r) \/ SaveStep(r) \/ Broadcast(r)
  PROVE  NotesLimited'
<1>1. Limited(snapshot[r]) /\ Limited({}) /\ Limited(notes)
  BY EmptyLimited DEF NotesLimited
<1>2. CASE Mutate(r)
  <2>1. PICK after \in Mutations(r) : notes' = after /\ snapshot' = [snapshot EXCEPT ![r] = after]
    BY <1>2 DEF Mutate
  <2>2. Limited(after) /\ Limited(notes')
    BY <1>1, <2>1, MutationsLimited
  <2>3. DOMAIN snapshot' = NoteRequests /\ \A q \in NoteRequests : snapshot'[q] \in {snapshot[q], after}
    BY <2>1 DEF NotesLimited
  <2>4. \A q \in NoteRequests : Limited(snapshot'[q])
    BY <2>2, <2>3 DEF NotesLimited
  <2>5. overlap' \in BOOLEAN
    BY <1>2 DEF Mutate, NotesLimited
  <2> QED BY <1>2, <2>2, <2>3, <2>4, <2>5 DEF Mutate, NotesLimited, Limited
<1>3. CASE RefuseMutation(r)
  BY <1>3 DEF RefuseMutation, NotesLimited, Limited
<1>4. CASE SaveStep(r)
  <2>1. UNCHANGED <<notes, snapshot, told, answered, overlap>>
    BY <1>4 DEF SaveStep, OpenTemp, WriteTemp, RenameTemp, SaveFails
  <2>2. noting' \in [NoteRequests -> {"new", "mutated", "opened", "written", "renamed", "answered",
                                      "failed", "refused"}]
    BY <1>4 DEF SaveStep, OpenTemp, WriteTemp, RenameTemp, SaveFails, NotesLimited
  <2>3. opened' \subseteq NoteRequests
    BY <1>4 DEF SaveStep, OpenTemp, WriteTemp, RenameTemp, SaveFails, NotesLimited
  <2>4. ASSUME NEW f \in {temp', disk'}
        PROVE  f.of \in {{}, snapshot[r], temp.of, disk.of} /\ f.whole \in BOOLEAN
    <3>1. \/ f \in {temp, disk, Truncated}
          \/ \E whole \in BOOLEAN : f = File(snapshot[r], whole)
      BY <1>4, <2>4 DEF SaveStep, OpenTemp, WriteTemp, RenameTemp, SaveFails
    <3>2. temp.whole \in BOOLEAN /\ disk.whole \in BOOLEAN
      BY DEF NotesLimited
    <3>3. \A whole \in BOOLEAN : File(snapshot[r], whole).of = snapshot[r] /\ File(snapshot[r], whole).whole = whole
      BY DEF File
    <3>4. Truncated.of = {} /\ Truncated.whole = FALSE
      BY DEF Truncated, File
    <3> QED BY <3>1, <3>2, <3>3, <3>4
  <2>5. Limited(temp'.of) /\ Limited(disk'.of)
    BY <1>1, <2>4 DEF NotesLimited
  <2> QED BY <2>1, <2>2, <2>3, <2>4, <2>5 DEF NotesLimited, Limited
<1>5. CASE Broadcast(r)
  BY <1>1, <1>5 DEF Broadcast, NotesLimited, Limited
<1> QED BY <1>2, <1>3, <1>4, <1>5

LEMMA LimitedRestart == ASSUME NotesLimited, NotesRestart PROVE NotesLimited'
<1>1. Limited(notes') /\ told' = notes'
  BY EmptyLimited DEF NotesRestart, NotesLimited
<1>2. noting' \in [NoteRequests -> {"new", "mutated", "opened", "written", "renamed", "answered",
                                    "failed", "refused"}]
  BY DEF NotesRestart, NotesLimited
<1> QED BY <1>1, <1>2 DEF NotesRestart, NotesLimited, Limited

LEMMA NotesLimitedInit == NotesInit => NotesLimited
<1> SUFFICES ASSUME NotesInit PROVE NotesLimited
  OBVIOUS
<1>1. temp.of = {} /\ disk.of = {} /\ temp.whole = FALSE /\ disk.whole = TRUE
  BY DEF NotesInit, Truncated, File
<1>2. DOMAIN snapshot = NoteRequests /\ \A r \in NoteRequests : snapshot[r] = {}
  BY DEF NotesInit
<1> QED BY <1>1, <1>2, EmptyLimited DEF NotesInit, NotesLimited

LEMMA NotesLimitedStep == NotesLimited /\ [NotesNext]_noteVars => NotesLimited'
<1>1. ASSUME NotesLimited, UNCHANGED noteVars PROVE NotesLimited'
  BY <1>1 DEF NotesLimited, noteVars, Limited
<1> QED BY <1>1, LimitedStep, LimitedRestart DEF NotesNext

LEMMA LimitedTyped == NotesLimited => NotesTypeOK
BY DEF NotesLimited, NotesTypeOK, Limited

(***************************************************************************)
(* No request, failed save or restart leaves more notes than MAX_NOTES     *)
(* (apply_notes, load_notes), for any number of requests.                  *)
(***************************************************************************)
THEOREM NotesTypeCorrect == NotesSpec => []NotesTypeOK
BY NotesLimitedInit, NotesLimitedStep, LimitedTyped, PTL DEF NotesSpec

-----------------------------------------------------------------------------
(***************************************************************************)
(* FileEditing: no save replaces a text that its editor has not shown.     *)
(***************************************************************************)

\* A deleted file or a closed tab makes a new object while there are fewer than
\* Calls, an opened screen makes one for each request.
ObjectsBounded == \A c \in Editors : object[c] <= Calls + sent

\* An editor's content, hash and draft are texts that it has shown.
Known(c) == shown[c] \cup {NoText}
HoldsKnown(c) == {entry[c].content, entry[c].hash, entry[c].draft} \subseteq Known(c)

\* What a request carries.
CallSafe(r) ==
  /\ r.kind = "save" => r.text \in Known(r.by) /\ r.hash \in Known(r.by)
  /\ Reached(r, {"save"}, "checked") => file = r.hash
  /\ Reached(r, {"save"}, "written") => file = r.text
  /\ Reached(r, {"open", "reload"}, "read") => file = r.text
  /\ Reached(r, {"open", "reload"}, "answered") => r.hash = r.text

AllKnown ==
  /\ lost = {}
  /\ \A c \in Editors : HoldsKnown(c)
  /\ \A r \in calls : CallSafe(r)

EditInv == EditTypeOK /\ ObjectsBounded /\ (~slipped => AllKnown)
-----------------------------------------------------------------------------
LEMMA TextType ==
  /\ Texts \in Nat \ {0} /\ Calls \in Nat /\ {NoText, 1} \subseteq Text
  /\ \A n : n \in Text <=> n \in 0..Texts
BY FileEditingAssumption DEF Text, NoText

LEMMA ClosedType == Closed \in EditorEntry
BY TextType DEF Closed, EditorEntry

LEMMA LoadedType ==
  ASSUME NEW v \in Text, NEW h \in Text
  PROVE  Loaded(v, h) \in EditorEntry /\ Loaded(v, h).content = v /\ Loaded(v, h).hash = h
         /\ Loaded(v, h).draft = v
BY ClosedType DEF Loaded, EditorEntry

LEMMA EditInvInit == EditInit => EditInv
<1> SUFFICES ASSUME EditInit PROVE EditInv
  OBVIOUS
<1> USE TextType DEF EditInit
<1>1. EditTypeOK
  <2>1. file \in Text /\ texts \in Text /\ lost \subseteq Text /\ slipped \in BOOLEAN
    <3>1. 1 \in Text
      BY TextType
    <3> QED BY <3>1
  <2>2. entry \in [Editors -> EditorEntry] /\ shown \in [Editors -> SUBSET Text]
    BY ClosedType
  <2>3. object \in [Editors -> 0..2 * Calls] /\ calls \subseteq FileCall /\ sent \in 0..Calls
    OBVIOUS
  <2> QED BY <2>1, <2>2, <2>3 DEF EditTypeOK
<1>2. ObjectsBounded
  BY DEF ObjectsBounded
<1>3. AllKnown
  BY DEF AllKnown, HoldsKnown, Known, Closed
<1> QED BY <1>1, <1>2, <1>3 DEF EditInv
-----------------------------------------------------------------------------
(***************************************************************************)
(* The steps' effect on the entries and on the requests.                   *)
(***************************************************************************)
\* Editor c holds e now.
Holds(c, e) == e \in EditorEntry /\ entry' = [entry EXCEPT ![c] = e]

LEMMA HoldsType ==
  ASSUME EditTypeOK, NEW c \in Editors, NEW e, Holds(c, e)
  PROVE  /\ entry' \in [Editors -> EditorEntry] /\ entry'[c] = e
         /\ \A d \in Editors : d # c => entry'[d] = entry[d]
BY DEF Holds, EditTypeOK

LEMMA SendType ==
  ASSUME EditTypeOK, ObjectsBounded, object' \in [Editors -> 0..2 * Calls],
         NEW c \in Editors, NEW k \in Kinds, Send(c, k)
  PROVE  /\ calls' \subseteq FileCall /\ sent' \in 0..Calls /\ sent' = sent + 1
         /\ \A r \in calls' \ calls : /\ r.by = c /\ r.kind = k /\ r.stage = "sent"
                                      /\ r.text = entry[c].draft /\ r.hash = entry[c].hash
<1> DEFINE q == [by |-> c, kind |-> k, of |-> object'[c], stage |-> "sent",
                 text |-> entry[c].draft, hash |-> entry[c].hash]
<1>1. q \in FileCall
  BY DEF FileCall, EditTypeOK, EditorEntry, Stages
<1>2. calls' = calls \cup {q}
  BY DEF Send
<1>3. sent' \in 0..Calls /\ sent' = sent + 1
  BY TextType DEF Send, EditTypeOK
<1>4. /\ q.by = c /\ q.kind = k /\ q.stage = "sent"
      /\ q.text = entry[c].draft /\ q.hash = entry[c].hash
  OBVIOUS
<1> HIDE DEF q
<1> QED BY <1>1, <1>2, <1>3, <1>4 DEF EditTypeOK

\* The file is as it was, the editors show what they have shown, and more.
LEMMA Steady ==
  ASSUME EditInv, EditTypeOK', ObjectsBounded', UNCHANGED <<file, slipped, lost>>,
         \A c \in Editors : shown[c] \subseteq shown'[c],
         ~slipped /\ AllKnown => /\ \A c \in Editors : HoldsKnown(c)'
                                 /\ \A r \in calls' \ calls : CallSafe(r)'
  PROVE  EditInv'
<1> SUFFICES ASSUME ~slipped PROVE AllKnown'
  BY DEF EditInv
<1>1. AllKnown
  BY DEF EditInv
<1>2. ASSUME NEW r \in calls' PROVE CallSafe(r)'
  <2>1. CASE r \in calls
    <3>1. CallSafe(r) /\ r.by \in Editors
      BY <1>1, <2>1 DEF AllKnown, EditInv, EditTypeOK, FileCall
    <3>2. Known(r.by) \subseteq Known(r.by)'
      BY <3>1 DEF Known
    <3> QED BY <3>1, <3>2 DEF CallSafe, Reached
  <2> QED BY <1>1, <2>1
<1> QED BY <1>1, <1>2 DEF AllKnown
-----------------------------------------------------------------------------
(***************************************************************************)
(* Requests at the server.                                                 *)
(***************************************************************************)
\* One request is answered or moves on, and no editor notices.
LEMMA ServedType ==
  ASSUME EditInv, NEW r \in calls, NEW next, next \subseteq FileCall, Goes(r, next),
         UNCHANGED <<texts, entry, object, shown>>, file' \in Text, lost' \subseteq Text,
         slipped' \in BOOLEAN
  PROVE  EditTypeOK' /\ ObjectsBounded' /\ calls' \ calls \subseteq next
<1>1. calls' = (calls \ {r}) \cup next /\ sent' = sent
  BY DEF Goes
<1> QED BY <1>1 DEF EditInv, EditTypeOK, ObjectsBounded

LEMMA ServedSteady ==
  ASSUME EditInv, NEW r \in calls, NEW q \in FileCall, Goes(r, {q}),
         UNCHANGED <<file, texts, entry, object, shown, slipped, lost>>,
         ~slipped /\ CallSafe(r) => CallSafe(q)
  PROVE  EditInv'
<1>1. EditTypeOK' /\ ObjectsBounded' /\ calls' \ calls \subseteq {q}
  BY ServedType DEF EditInv, EditTypeOK
<1>2. ASSUME ~slipped, AllKnown
      PROVE  (\A c \in Editors : HoldsKnown(c)') /\ CallSafe(q)'
  <2>1. CallSafe(q)
    BY <1>2 DEF AllKnown
  <2> QED BY <1>2, <2>1 DEF AllKnown, HoldsKnown, Known, CallSafe
<1> QED BY <1>1, <1>2, Steady

LEMMA FinishedSteady ==
  ASSUME EditInv, NEW r \in calls, Finishes(r),
         UNCHANGED <<file, texts, entry, object, shown, slipped, lost>>
  PROVE  EditInv'
<1>1. EditTypeOK' /\ ObjectsBounded' /\ calls' \ calls \subseteq {}
  BY ServedType DEF EditInv, EditTypeOK, Finishes
<1>2. AllKnown => \A c \in Editors : HoldsKnown(c)'
  BY DEF AllKnown, HoldsKnown, Known
<1> QED BY <1>1, <1>2, Steady

LEMMA ReadKeeps == \A r \in calls : EditInv /\ ServeRead(r) => EditInv'
<1> SUFFICES ASSUME NEW r \in calls, EditInv, ServeRead(r) PROVE EditInv'
  OBVIOUS
<1>1. r \in FileCall /\ file \in Text
  BY DEF EditInv, EditTypeOK
<1>2. PICK stage \in {"refused", "read"} : Goes(r, {[r EXCEPT !.stage = stage, !.text = file]})
  BY DEF ServeRead
<1>3. PICK q : q = [r EXCEPT !.stage = stage, !.text = file]
  OBVIOUS
<1>4. q \in FileCall
  BY <1>1, <1>3 DEF FileCall, Stages
<1>5. q.kind = r.kind /\ q.kind # "save" /\ q.stage = stage /\ q.text = file
  BY <1>1, <1>3 DEF FileCall, ServeRead, Reached
<1>6. CallSafe(q)
  BY <1>5 DEF CallSafe, Reached
<1> QED BY <1>2, <1>3, <1>4, <1>6, ServedSteady DEF ServeRead

LEMMA HashKeeps == \A r \in calls : EditInv /\ ServeHash(r) => EditInv'
<1> SUFFICES ASSUME NEW r \in calls, EditInv, ServeHash(r) PROVE EditInv'
  OBVIOUS
<1>1. r \in FileCall /\ file \in Text
  BY DEF EditInv, EditTypeOK
<1>2. PICK stage \in {"refused", "answered"} : Goes(r, {[r EXCEPT !.stage = stage, !.hash = file]})
  BY DEF ServeHash
<1>3. PICK q : q = [r EXCEPT !.stage = stage, !.hash = file]
  OBVIOUS
<1>4. q \in FileCall
  BY <1>1, <1>3 DEF FileCall, Stages
<1>5. q.kind = r.kind /\ q.kind # "save" /\ q.stage = stage /\ q.hash = file /\ q.text = r.text
  BY <1>1, <1>3 DEF FileCall, ServeHash, Reached
<1>6. CallSafe(r) => CallSafe(q)
  BY <1>5 DEF CallSafe, Reached, ServeHash
<1> QED BY <1>2, <1>3, <1>4, <1>6, ServedSteady DEF ServeHash

LEMMA CheckKeeps == \A r \in calls : EditInv /\ (ServeCheck(r) \/ ServeFails(r)) => EditInv'
<1> SUFFICES ASSUME NEW r \in calls, EditInv, ServeCheck(r) \/ ServeFails(r) PROVE EditInv'
  OBVIOUS
<1>1. r \in FileCall /\ file \in Text
  BY DEF EditInv, EditTypeOK
<1>2. PICK stage \in {"refused", "checked"} :
        /\ Goes(r, {[r EXCEPT !.stage = stage]})
        /\ stage = "checked" => r.hash = file
  BY DEF ServeCheck, ServeFails, Moves
<1>3. PICK q : q = [r EXCEPT !.stage = stage]
  OBVIOUS
<1>4. q \in FileCall
  BY <1>1, <1>3 DEF FileCall, Stages
<1>5. q.by = r.by /\ q.kind = r.kind /\ q.stage = stage /\ q.hash = r.hash /\ q.text = r.text
  BY <1>1, <1>3 DEF FileCall
<1>6. CallSafe(r) => CallSafe(q)
  BY <1>2, <1>5 DEF CallSafe, Reached
<1> QED BY <1>2, <1>3, <1>4, <1>6, ServedSteady DEF ServeCheck, ServeFails

LEMMA RehashKeeps == \A r \in calls : EditInv /\ ServeRehash(r) => EditInv'
<1> SUFFICES ASSUME NEW r \in calls, EditInv, ServeRehash(r) PROVE EditInv'
  OBVIOUS
<1>1. r \in FileCall /\ file \in Text
  BY DEF EditInv, EditTypeOK
<1>2. PICK q : q = [r EXCEPT !.stage = "answered", !.hash = file]
  OBVIOUS
<1>3. q \in FileCall
  BY <1>1, <1>2 DEF FileCall, Stages
<1>4. /\ q.by = r.by /\ q.kind = r.kind /\ q.stage = "answered" /\ q.hash = file /\ q.text = r.text
      /\ r.kind = "save" /\ r.stage = "written"
  BY <1>1, <1>2 DEF FileCall, ServeRehash, Reached
<1>5. CallSafe(r) => CallSafe(q)
  BY <1>4 DEF CallSafe, Reached
<1> QED BY <1>2, <1>3, <1>5, ServedSteady DEF ServeRehash

\* The write replaces what the check found, and nobody else is in between.
LEMMA WriteKeeps == \A r \in calls : EditInv /\ ServeWrite(r) => EditInv'
<1> SUFFICES ASSUME NEW r \in calls, EditInv, ServeWrite(r) PROVE EditInv'
  OBVIOUS
<1>1. r \in FileCall /\ file \in Text /\ r.kind = "save" /\ r.stage = "checked"
  BY DEF EditInv, EditTypeOK, ServeWrite, Reached
<1>2. PICK q : q = [r EXCEPT !.stage = "written"]
  OBVIOUS
<1>3. /\ q \in FileCall /\ q.by = r.by /\ q.kind = "save" /\ q.stage = "written"
      /\ q.hash = r.hash /\ q.text = r.text
  BY <1>1, <1>2 DEF FileCall, Stages
<1>4. Goes(r, {q}) /\ file' = r.text /\ UNCHANGED <<texts, entry, object, shown>>
  BY <1>2 DEF ServeWrite, Moves
<1>5. /\ lost' = lost \cup ({file} \ Known(r.by))
      /\ slipped' = (slipped \/ \E p \in calls \ {r} : Inside(p))
  BY DEF ServeWrite, Changes, Known
<1>6. r.text \in Text
  BY <1>1 DEF FileCall
<1>7. lost' \subseteq Text /\ slipped' \in BOOLEAN
  BY <1>1, <1>5 DEF EditInv, EditTypeOK
<1>8. EditTypeOK' /\ ObjectsBounded' /\ calls' \ calls \subseteq {q}
  BY <1>3, <1>4, <1>6, <1>7, ServedType
<1>9. ASSUME ~slipped' PROVE AllKnown'
  <2>1. AllKnown /\ \A p \in calls \ {r} : ~Inside(p)
    BY <1>5, <1>9 DEF EditInv
  <2>2. CallSafe(r)
    BY <2>1 DEF AllKnown
  <2>3. lost' = {}
    BY <1>1, <1>5, <2>1, <2>2 DEF AllKnown, CallSafe, Reached
  <2>4. \A c \in Editors : HoldsKnown(c)'
    BY <1>4, <2>1 DEF AllKnown, HoldsKnown, Known
  <2>5. CallSafe(q)'
    BY <1>3, <1>4, <2>2, <1>1 DEF CallSafe, Reached, Known
  <2>6. ASSUME NEW p \in calls \ {r} PROVE CallSafe(p)'
    BY <1>4, <2>1 DEF AllKnown, CallSafe, Reached, Known, Inside
  <2>7. calls' \subseteq (calls \ {r}) \cup {q}
    BY <1>4 DEF Goes
  <2> QED BY <2>3, <2>4, <2>5, <2>6, <2>7 DEF AllKnown
<1> QED BY <1>8, <1>9 DEF EditInv

\* A program writes or removes the file, or a browser removes it, under no
\* request that has looked at it.
LEMMA ChangeKeeps ==
  ASSUME EditInv, EditTypeOK', ObjectsBounded', Changes({}), UNCHANGED <<calls, shown, lost>>,
         \A c \in Editors : entry'[c] = entry[c] \/ entry'[c] = Closed
  PROVE  EditInv'
<1>1. ASSUME ~slipped' PROVE AllKnown'
  <2>1. AllKnown /\ \A p \in calls : ~Inside(p)
    BY <1>1 DEF EditInv, Changes
  <2>2. \A c \in Editors : HoldsKnown(c)'
    BY <2>1 DEF AllKnown, HoldsKnown, Known, Closed
  <2>3. ASSUME NEW p \in calls PROVE CallSafe(p)'
    BY <2>1 DEF AllKnown, CallSafe, Reached, Known, Inside
  <2> QED BY <2>1, <2>2, <2>3 DEF AllKnown
<1> QED BY <1>1 DEF EditInv
-----------------------------------------------------------------------------
(***************************************************************************)
(* What the editors do.                                                    *)
(***************************************************************************)
\* Editor c comes to hold e, of what it has shown by then.
LEMMA EntrySteady ==
  ASSUME EditInv, NEW c \in Editors, NEW e, Holds(c, e), UNCHANGED <<file, slipped, lost>>,
         texts' \in Text, object' \in [Editors -> 0..2 * Calls], ObjectsBounded',
         shown' \in [Editors -> SUBSET Text], calls' \subseteq FileCall, sent' \in 0..Calls,
         \A d \in Editors : shown[d] \subseteq shown'[d],
         ~slipped /\ AllKnown => /\ {e.content, e.hash, e.draft} \subseteq Known(c)'
                                 /\ \A r \in calls' \ calls : CallSafe(r)'
  PROVE  EditInv'
<1>1. /\ entry' \in [Editors -> EditorEntry] /\ entry'[c] = e
      /\ \A d \in Editors : d # c => entry'[d] = entry[d]
  BY HoldsType DEF EditInv
<1>2. EditTypeOK'
  BY <1>1 DEF EditInv, EditTypeOK
<1>3. ASSUME ~slipped, AllKnown, NEW d \in Editors PROVE HoldsKnown(d)'
  BY <1>1, <1>3 DEF AllKnown, HoldsKnown, Known
<1> QED BY <1>2, <1>3, Steady

\* A new request carries the draft and the hash of its editor.
LEMMA SentSafe ==
  ASSUME AllKnown, NEW c \in Editors, UNCHANGED shown, NEW r, r.by = c, r.stage = "sent",
         r.text = entry[c].draft, r.hash = entry[c].hash
  PROVE  CallSafe(r)'
BY DEF AllKnown, HoldsKnown, CallSafe, Known, Reached

LEMMA EntryType ==
  ASSUME EditInv, NEW c \in Editors
  PROVE  /\ entry[c] \in EditorEntry /\ entry \in [Editors -> EditorEntry]
         /\ object[c] \in Nat /\ object \in [Editors -> 0..2 * Calls] /\ texts \in Text
         /\ shown \in [Editors -> SUBSET Text] /\ calls \subseteq FileCall /\ sent \in 0..Calls
         /\ ~slipped => HoldsKnown(c)
BY TextType DEF EditInv, EditTypeOK, AllKnown

LEMMA TypeKeeps == \A c \in Editors : EditInv /\ Type(c) => EditInv'
<1> SUFFICES ASSUME NEW c \in Editors, EditInv, Type(c) PROVE EditInv'
  OBVIOUS
<1>1. texts' \in Text /\ shown' = [shown EXCEPT ![c] = shown[c] \cup {texts'}]
  BY TextType, EntryType DEF Type
<1>2. PICK e : e = [entry[c] EXCEPT !.draft = texts', !.dirty = (texts' # entry[c].content)]
  OBVIOUS
<1>3. /\ e \in EditorEntry /\ e.content = entry[c].content /\ e.hash = entry[c].hash
      /\ e.draft = texts'
  BY <1>1, <1>2, EntryType DEF EditorEntry
<1>4. entry' = [entry EXCEPT ![c] = e]
  BY <1>2, EntryType DEF Type, EditorEntry
<1>5. Holds(c, e)
  BY <1>3, <1>4 DEF Holds
<1>6. /\ UNCHANGED <<file, object, calls, sent, slipped, lost>>
      /\ shown' \in [Editors -> SUBSET Text]
      /\ \A d \in Editors : shown[d] \subseteq shown'[d]
  BY <1>1, EntryType DEF Type
<1>7. ObjectsBounded'
  BY <1>6 DEF EditInv, ObjectsBounded
<1>8. ~slipped => {e.content, e.hash, e.draft} \subseteq Known(c)'
  BY <1>1, <1>3, EntryType DEF HoldsKnown, Known
<1> QED BY <1>1, <1>5, <1>6, <1>7, <1>8, EntryType, EntrySteady

LEMMA SaveKeeps == \A c \in Editors : EditInv /\ Save(c) => EditInv'
<1> SUFFICES ASSUME NEW c \in Editors, EditInv, Save(c) PROVE EditInv'
  OBVIOUS
<1>1. PICK e : e = [entry[c] EXCEPT !.saving = TRUE]
  OBVIOUS
<1>2. /\ e \in EditorEntry /\ e.content = entry[c].content /\ e.hash = entry[c].hash
      /\ e.draft = entry[c].draft
  BY <1>1, EntryType DEF EditorEntry
<1>3. Holds(c, e)
  BY <1>1, <1>2, EntryType DEF Holds, Save, EditorEntry
<1>4. UNCHANGED <<file, texts, object, shown, slipped, lost>> /\ Send(c, "save") /\ "save" \in Kinds
  BY DEF Save, Kinds
<1>5. /\ calls' \subseteq FileCall /\ sent' \in 0..Calls /\ sent' = sent + 1
      /\ \A r \in calls' \ calls : /\ r.by = c /\ r.kind = "save" /\ r.stage = "sent"
                                   /\ r.text = entry[c].draft /\ r.hash = entry[c].hash
  BY <1>4, EntryType, SendType DEF EditInv
<1>6. ObjectsBounded'
  BY <1>4, <1>5, TextType DEF EditInv, EditTypeOK, ObjectsBounded
<1>7. ~slipped => {e.content, e.hash, e.draft} \subseteq Known(c)'
  BY <1>2, <1>4, EntryType DEF HoldsKnown, Known
<1>8. AllKnown => \A r \in calls' \ calls : CallSafe(r)'
  BY <1>4, <1>5, SentSafe
<1> QED BY <1>3, <1>4, <1>5, <1>6, <1>7, <1>8, EntryType, EntrySteady

LEMMA AskKeeps == \A c \in Editors : EditInv /\ (OpenTab(c) \/ FocusTab(c)) => EditInv'
<1> SUFFICES ASSUME NEW c \in Editors, EditInv, OpenTab(c) \/ FocusTab(c) PROVE EditInv'
  OBVIOUS
<1>1. PICK k \in Kinds : Send(c, k)
  BY DEF OpenTab, FocusTab, Kinds
<1>2. UNCHANGED <<file, texts, entry, object, shown, slipped, lost>>
  BY DEF OpenTab, FocusTab
<1>3. /\ calls' \subseteq FileCall /\ sent' \in 0..Calls /\ sent' = sent + 1
      /\ \A r \in calls' \ calls : /\ r.by = c /\ r.kind = k /\ r.stage = "sent"
                                   /\ r.text = entry[c].draft /\ r.hash = entry[c].hash
  BY <1>1, <1>2, EntryType, SendType DEF EditInv
<1>4. EditTypeOK'
  BY <1>2, <1>3 DEF EditInv, EditTypeOK
<1>5. ObjectsBounded'
  BY <1>2, <1>3, TextType DEF EditInv, EditTypeOK, ObjectsBounded
<1>6. AllKnown => \A r \in calls' \ calls : CallSafe(r)'
  BY <1>2, <1>3, SentSafe
<1>7. AllKnown => \A d \in Editors : HoldsKnown(d)'
  BY <1>2 DEF AllKnown, HoldsKnown, Known
<1> QED BY <1>2, <1>4, <1>5, <1>6, <1>7, Steady

\* The next object of an editor that has fewer than Calls, or that sends a request.
LEMMA NextObject ==
  ASSUME EditInv, NEW c \in Editors, object' = [object EXCEPT ![c] = @ + 1], sent' \in 0..Calls,
         (sent' = sent /\ object[c] < Calls) \/ sent' = sent + 1
  PROVE  object' \in [Editors -> 0..2 * Calls] /\ ObjectsBounded'
<1>1. Calls \in Nat /\ sent \in 0..Calls /\ sent <= sent' /\ object \in [Editors -> 0..2 * Calls]
      /\ \A d \in Editors : object[d] <= Calls + sent
  BY TextType, EntryType DEF EditInv, ObjectsBounded
<1>2. \A d \in Editors : object'[d] \in Nat /\ object'[d] <= Calls + sent'
  BY <1>1
<1>3. \A d \in Editors : object'[d] \in 0..2 * Calls
  BY <1>1, <1>2
<1> QED BY <1>1, <1>2, <1>3 DEF ObjectsBounded

LEMMA DeleteKeeps == \A c \in Editors : EditInv /\ DeleteFile(c) => EditInv'
<1> SUFFICES ASSUME NEW c \in Editors, EditInv, DeleteFile(c) PROVE EditInv'
  OBVIOUS
<1>1. Holds(c, Closed)
  BY ClosedType DEF DeleteFile, Holds
<1>2. UNCHANGED <<texts, calls, sent, shown, lost>> /\ file' = NoText /\ Changes({})
  BY DEF DeleteFile
<1>3. object' \in [Editors -> 0..2 * Calls] /\ ObjectsBounded'
  BY <1>2, EntryType, NextObject DEF DeleteFile
<1>4. EditTypeOK' /\ \A d \in Editors : entry'[d] = entry[d] \/ entry'[d] = Closed
  <2>1. file' \in Text /\ slipped' \in BOOLEAN
    BY <1>2, TextType DEF Changes, EditInv, EditTypeOK
  <2> QED BY <1>1, <1>2, <1>3, <2>1, HoldsType DEF EditInv, EditTypeOK
<1> QED BY <1>2, <1>3, <1>4, ChangeKeeps

LEMMA CloseKeeps == \A c \in Editors : EditInv /\ CloseTab(c) => EditInv'
<1> SUFFICES ASSUME NEW c \in Editors, EditInv, CloseTab(c) PROVE EditInv'
  OBVIOUS
<1>1. Holds(c, Closed) /\ {Closed.content, Closed.hash, Closed.draft} \subseteq Known(c)'
  BY ClosedType DEF CloseTab, Holds, Closed, Known
<1>2. UNCHANGED <<file, texts, calls, sent, shown, slipped, lost>>
  BY DEF CloseTab
<1>3. object' \in [Editors -> 0..2 * Calls] /\ ObjectsBounded'
  BY <1>2, EntryType, NextObject DEF CloseTab
<1> QED BY <1>1, <1>2, <1>3, EntryType, EntrySteady

LEMMA OpenScreenKeeps == \A c \in Editors : EditInv /\ OpenScreen(c) => EditInv'
<1> SUFFICES ASSUME NEW c \in Editors, EditInv, OpenScreen(c) PROVE EditInv'
  OBVIOUS
<1>1. Holds(c, Closed) /\ {Closed.content, Closed.hash, Closed.draft} \subseteq Known(c)'
  BY ClosedType DEF OpenScreen, Holds, Closed, Known
<1>2. /\ UNCHANGED <<file, texts, shown, slipped, lost>> /\ Send(c, "open") /\ "open" \in Kinds
      /\ sent' = sent + 1 /\ sent' \in 0..Calls
  BY TextType, EntryType DEF OpenScreen, Kinds, Send
<1>3. object' \in [Editors -> 0..2 * Calls] /\ ObjectsBounded'
  BY <1>2, EntryType, NextObject DEF OpenScreen
<1>4. /\ calls' \subseteq FileCall
      /\ \A r \in calls' \ calls : /\ r.by = c /\ r.kind = "open" /\ r.stage = "sent"
                                   /\ r.text = entry[c].draft /\ r.hash = entry[c].hash
  BY <1>2, <1>3, SendType DEF EditInv
<1>5. AllKnown => \A r \in calls' \ calls : CallSafe(r)'
  BY <1>2, <1>4, SentSafe
<1> QED BY <1>1, <1>2, <1>3, <1>4, <1>5, EntryType, EntrySteady

LEMMA EditKeeps == \A c \in Editors : EditInv /\ (StartEdit(c) \/ CancelEdit(c)) => EditInv'
<1> SUFFICES ASSUME NEW c \in Editors, EditInv, StartEdit(c) \/ CancelEdit(c) PROVE EditInv'
  OBVIOUS
<1>1. PICK b \in BOOLEAN :
        entry' = [entry EXCEPT ![c] = [entry[c] EXCEPT !.editing = b, !.draft = entry[c].content,
                                                       !.dirty = FALSE]]
  BY DEF StartEdit, CancelEdit
<1>2. PICK e : e = [entry[c] EXCEPT !.editing = b, !.draft = entry[c].content, !.dirty = FALSE]
  OBVIOUS
<1>3. /\ e \in EditorEntry /\ e.content = entry[c].content /\ e.hash = entry[c].hash
      /\ e.draft = entry[c].content
  BY <1>2, EntryType DEF EditorEntry
<1>4. Holds(c, e)
  BY <1>1, <1>2, <1>3 DEF Holds
<1>5. UNCHANGED <<file, texts, object, calls, sent, shown, slipped, lost>>
  BY DEF StartEdit, CancelEdit
<1>6. ~slipped => {e.content, e.hash, e.draft} \subseteq Known(c)'
  BY <1>3, <1>5, EntryType DEF HoldsKnown, Known
<1>7. ObjectsBounded'
  BY <1>5 DEF EditInv, ObjectsBounded
<1> QED BY <1>4, <1>5, <1>6, <1>7, EntryType, EntrySteady
-----------------------------------------------------------------------------
(***************************************************************************)
(* The answers.                                                            *)
(***************************************************************************)
LEMMA FinishedType ==
  ASSUME EditInv, NEW r \in calls, Finishes(r)
  PROVE  calls' \subseteq calls /\ calls' \subseteq FileCall /\ sent' = sent /\ sent' \in 0..Calls
         /\ r \in FileCall /\ r.by \in Editors /\ (~slipped => CallSafe(r))
<1>1. calls' = calls \ {r} /\ sent' = sent
  BY DEF Finishes, Goes
<1> QED BY <1>1 DEF EditInv, EditTypeOK, AllKnown, FileCall

LEMMA CheckAnswerKeeps == \A r \in calls : EditInv /\ CheckAnswer(r) => EditInv'
<1> SUFFICES ASSUME NEW r \in calls, EditInv, CheckAnswer(r) PROVE EditInv'
  OBVIOUS
<1>1. CASE Finishes(r)
  BY <1>1, FinishedSteady DEF CheckAnswer
<1>2. CASE Goes(r, {[r EXCEPT !.kind = "reload", !.stage = "sent"]})
  <2>1. r \in FileCall
    BY DEF EditInv, EditTypeOK
  <2>2. PICK q : q = [r EXCEPT !.kind = "reload", !.stage = "sent"]
    OBVIOUS
  <2>3. q \in FileCall /\ q.kind = "reload" /\ q.stage = "sent"
    BY <2>1, <2>2 DEF FileCall, Kinds, Stages
  <2>4. CallSafe(q)
    BY <2>3 DEF CallSafe, Reached
  <2> QED BY <1>2, <2>2, <2>3, <2>4, ServedSteady DEF CheckAnswer
<1> QED BY <1>1, <1>2 DEF CheckAnswer

\* An editor shows what a request has read, and knows its hash.
LEMMA LoadedKeeps == \A r \in calls : EditInv /\ (TabLoaded(r) \/ ScreenLoaded(r)) => EditInv'
<1> SUFFICES ASSUME NEW r \in calls, EditInv, TabLoaded(r) \/ ScreenLoaded(r) PROVE EditInv'
  OBVIOUS
<1> DEFINE c == r.by
<1>1. /\ Finishes(r) /\ Reached(r, {"open", "reload"}, "answered")
      /\ shown' = [shown EXCEPT ![c] = shown[c] \cup {r.text}]
      /\ UNCHANGED <<file, texts, object, slipped, lost>>
  BY DEF TabLoaded, ScreenLoaded, Reached
<1>2. /\ calls' \subseteq calls /\ calls' \subseteq FileCall /\ sent' = sent /\ sent' \in 0..Calls
      /\ r \in FileCall /\ c \in Editors /\ (~slipped => CallSafe(r))
  BY <1>1, FinishedType
<1>3. r.text \in Text /\ r.hash \in Text
  BY <1>2 DEF FileCall
<1>4. PICK l \in EditorEntry :
        l = Loaded(r.text, r.hash) /\ l.content = r.text /\ l.hash = r.hash /\ l.draft = r.text
  BY <1>3, LoadedType
<1>5. \/ \E b \in BOOLEAN : entry' = [entry EXCEPT ![c] = [l EXCEPT !.editing = b]]
      \/ entry' = [entry EXCEPT ![c] = [l EXCEPT !.draft = NoText]]
  <2>1. CASE TabLoaded(r)
    <3>1. entry[c].editing \in BOOLEAN
      BY <1>2, EntryType DEF EditorEntry
    <3>2. PICK b \in IF r.kind = "open" THEN BOOLEAN ELSE {entry[c].editing} :
            entry' = [entry EXCEPT ![c] = [l EXCEPT !.editing = b]]
      BY <1>4, <2>1 DEF TabLoaded
    <3> QED BY <3>1, <3>2
  <2>2. CASE ScreenLoaded(r)
    BY <1>4, <2>2 DEF ScreenLoaded
  <2> QED BY <2>1, <2>2
<1>6. PICK e \in EditorEntry : /\ entry' = [entry EXCEPT ![c] = e] /\ e.content = r.text
                               /\ e.hash = r.hash /\ e.draft \in {r.text, NoText}
  <2>1. ASSUME NEW b \in BOOLEAN PROVE
          /\ [l EXCEPT !.editing = b] \in EditorEntry
          /\ [l EXCEPT !.editing = b].content = r.text /\ [l EXCEPT !.editing = b].hash = r.hash
          /\ [l EXCEPT !.editing = b].draft = r.text
    BY <1>4 DEF EditorEntry
  <2>2. /\ [l EXCEPT !.draft = NoText] \in EditorEntry
        /\ [l EXCEPT !.draft = NoText].content = r.text
        /\ [l EXCEPT !.draft = NoText].hash = r.hash /\ [l EXCEPT !.draft = NoText].draft = NoText
    BY <1>4, TextType DEF EditorEntry
  <2> QED BY <1>5, <2>1, <2>2
<1>7. Holds(c, e)
  BY <1>6 DEF Holds
<1>8. /\ shown' \in [Editors -> SUBSET Text] /\ \A d \in Editors : shown[d] \subseteq shown'[d]
      /\ r.text \in shown'[c]
  BY <1>1, <1>2, <1>3, EntryType
<1>9. ~slipped => {e.content, e.hash, e.draft} \subseteq Known(c)'
  BY <1>1, <1>2, <1>6, <1>8 DEF CallSafe, Known
<1>10. ObjectsBounded' /\ \A q \in calls' \ calls : CallSafe(q)'
  BY <1>1, <1>2 DEF EditInv, ObjectsBounded
<1>11. texts' \in Text /\ object' \in [Editors -> 0..2 * Calls]
  BY <1>1, <1>2, EntryType
<1> HIDE DEF c
<1> QED BY <1>1, <1>2, <1>7, <1>8, <1>9, <1>10, <1>11, EntrySteady

\* The draft counts as saved, and the hash is the one the server has found.
LEMMA SavedKeeps == \A r \in calls : EditInv /\ (TabSaved(r) \/ ScreenSaved(r)) => EditInv'
<1> SUFFICES ASSUME NEW r \in calls, EditInv, TabSaved(r) \/ ScreenSaved(r) PROVE EditInv'
  OBVIOUS
<1> DEFINE c == r.by
<1>1. /\ Finishes(r) /\ r.kind = "save"
      /\ UNCHANGED <<file, texts, object, shown, slipped, lost>>
  BY DEF TabSaved, ScreenSaved
<1>2. /\ calls' \subseteq calls /\ calls' \subseteq FileCall /\ sent' = sent /\ sent' \in 0..Calls
      /\ r \in FileCall /\ c \in Editors /\ (~slipped => CallSafe(r))
  BY <1>1, FinishedType
<1>3. r.hash \in Text /\ entry[c] \in EditorEntry
  BY <1>2, EntryType DEF FileCall
<1>4. PICK e \in EditorEntry :
        /\ entry' = [entry EXCEPT ![c] = e]
        /\ {e.content, e.hash, e.draft}
             \subseteq {entry[c].content, entry[c].draft, entry[c].hash, r.hash, NoText}
  <2>1. CASE entry' = [entry EXCEPT ![c].saving = FALSE]
    <3>1. PICK e : e = [entry[c] EXCEPT !.saving = FALSE]
      OBVIOUS
    <3>2. /\ e \in EditorEntry /\ e.content = entry[c].content /\ e.hash = entry[c].hash
          /\ e.draft = entry[c].draft /\ entry' = [entry EXCEPT ![c] = e]
      BY <1>3, <2>1, <3>1 DEF EditorEntry
    <3> QED BY <3>2
  <2>2. CASE entry' = [entry EXCEPT ![c] = [@ EXCEPT !.content = entry[c].draft, !.hash = r.hash,
                                                     !.dirty = FALSE, !.saving = FALSE]]
    <3>1. PICK e : e = [entry[c] EXCEPT !.content = entry[c].draft, !.hash = r.hash,
                                        !.dirty = FALSE, !.saving = FALSE]
      OBVIOUS
    <3>2. /\ e \in EditorEntry /\ e.content = entry[c].draft /\ e.hash = r.hash
          /\ e.draft = entry[c].draft
      BY <1>3, <3>1 DEF EditorEntry
    <3> QED BY <2>2, <3>1, <3>2
  <2>3. ASSUME NEW v \in {entry[c].content, entry[c].draft}, NEW h \in {entry[c].hash, r.hash},
               entry' = [entry EXCEPT ![c] =
                          [entry[c] EXCEPT !.content = v, !.hash = h, !.draft = NoText,
                             !.dirty = FALSE, !.editing = FALSE, !.saving = FALSE]]
        PROVE  \E e \in EditorEntry :
                 /\ entry' = [entry EXCEPT ![c] = e]
                 /\ {e.content, e.hash, e.draft}
                      \subseteq {entry[c].content, entry[c].draft, entry[c].hash, r.hash, NoText}
    <3>1. PICK e : e = [entry[c] EXCEPT !.content = v, !.hash = h, !.draft = NoText,
                                        !.dirty = FALSE, !.editing = FALSE, !.saving = FALSE]
      OBVIOUS
    <3>2. v \in Text /\ h \in Text /\ NoText \in Text
      BY <1>3, TextType DEF EditorEntry
    <3>3. e \in EditorEntry /\ e.content = v /\ e.hash = h /\ e.draft = NoText
      BY <1>3, <3>1, <3>2 DEF EditorEntry
    <3> QED BY <2>3, <3>1, <3>3
  <2> QED BY <2>1, <2>2, <2>3 DEF TabSaved, ScreenSaved
<1>5. Holds(c, e)
  BY <1>4 DEF Holds
<1>6. ~slipped => {e.content, e.hash, e.draft} \subseteq Known(c)'
  BY <1>1, <1>2, <1>4, EntryType DEF CallSafe, HoldsKnown, Known
<1>7. ObjectsBounded' /\ \A q \in calls' \ calls : CallSafe(q)'
  BY <1>1, <1>2 DEF EditInv, ObjectsBounded
<1>8. /\ texts' \in Text /\ object' \in [Editors -> 0..2 * Calls]
      /\ shown' \in [Editors -> SUBSET Text] /\ \A d \in Editors : shown[d] \subseteq shown'[d]
  BY <1>1, <1>2, EntryType
<1> HIDE DEF c
<1> QED BY <1>1, <1>2, <1>5, <1>6, <1>7, <1>8, EntrySteady

LEMMA ProgramKeeps == EditInv /\ ProgramWrites => EditInv'
<1> SUFFICES ASSUME EditInv, ProgramWrites PROVE EditInv'
  OBVIOUS
<1>1. texts' \in Text /\ file' \in Text
  BY TextType DEF ProgramWrites, EditInv, EditTypeOK
<1>2. UNCHANGED <<entry, object, calls, sent, shown, lost>> /\ Changes({})
  BY DEF ProgramWrites
<1>3. slipped' \in BOOLEAN
  BY <1>2 DEF Changes, EditInv, EditTypeOK
<1>4. EditTypeOK' /\ ObjectsBounded'
  BY <1>1, <1>2, <1>3 DEF EditInv, EditTypeOK, ObjectsBounded
<1> QED BY <1>2, <1>4, ChangeKeeps

LEMMA EditInvStep == EditInv /\ [EditNext]_editVars => EditInv'
<1> SUFFICES ASSUME EditInv, [EditNext]_editVars PROVE EditInv'
  OBVIOUS
<1>1. CASE ProgramWrites
  BY <1>1, ProgramKeeps
<1>2. ASSUME NEW c \in Editors,
             \/ Type(c) \/ Save(c) \/ DeleteFile(c) \/ OpenTab(c) \/ CloseTab(c)
             \/ FocusTab(c) \/ OpenScreen(c) \/ StartEdit(c) \/ CancelEdit(c)
      PROVE  EditInv'
  BY <1>2, TypeKeeps, SaveKeeps, DeleteKeeps, AskKeeps, CloseKeeps, OpenScreenKeeps, EditKeeps
<1>3. ASSUME NEW r \in calls, Serve(r) PROVE EditInv'
  BY <1>3, ReadKeeps, HashKeeps, CheckKeeps, WriteKeeps, RehashKeeps DEF Serve
<1>4. ASSUME NEW r \in calls, Dropped(r) PROVE EditInv'
  BY <1>4, FinishedSteady DEF Dropped
<1>5. ASSUME NEW r \in calls,
             \/ CheckAnswer(r) \/ TabLoaded(r) \/ TabSaved(r) \/ ScreenLoaded(r) \/ ScreenSaved(r)
      PROVE  EditInv'
  BY <1>5, CheckAnswerKeeps, LoadedKeeps, SavedKeeps
<1>6. CASE UNCHANGED editVars
  BY <1>6 DEF editVars, EditInv, EditTypeOK, ObjectsBounded, AllKnown, HoldsKnown, Known, CallSafe,
              Reached
<1> QED BY <1>1, <1>2, <1>3, <1>4, <1>5, <1>6 DEF EditNext

\* Every state of the editors and of the requests under way is well-formed.
THEOREM EditTypeCorrect == EditSpec => []EditTypeOK
<1>1. EditInv => EditTypeOK
  BY DEF EditInv
<1> QED BY <1>1, EditInvInit, EditInvStep, PTL DEF EditSpec

\* Whatever the order of the answers, no save replaces a text that its editor
\* never showed, unless the file changes inside a handler
\* (file_browser_write_file_payload, saveFile).
THEOREM GuardedSaves == EditSpec => []UnseenNeverOverwritten
<1>1. EditInv => UnseenNeverOverwritten
  BY DEF EditInv, AllKnown, UnseenNeverOverwritten
<1> QED BY <1>1, EditInvInit, EditInvStep, PTL DEF EditSpec

-----------------------------------------------------------------------------
(***************************************************************************)
(* PromoteGuard: the marker of a temporary tab counts the promotes in      *)
(* flight, and the teardown never commits over one.                        *)
(***************************************************************************)

PromoteInv == PromoteTypeOK /\ GuardCounts

-----------------------------------------------------------------------------
(***************************************************************************)
(* Arming adds one request to those without an answer, answering takes one *)
(* away (begin_ and finish_temporary_tab_promote).                         *)
(***************************************************************************)
LEMMA UnansweredFinite == IsFiniteSet(Unanswered) /\ Cardinality(Unanswered) \in Nat
<1>1. IsFiniteSet(Unanswered)
  BY PromoteAssumption, FS_Subset DEF Unanswered
<1> QED BY <1>1, FS_CardinalityType

LEMMA ArmingCounts ==
  ASSUME NEW r \in Promotes, PromoteTypeOK, promote[r] = "transit",
         promote' = [promote EXCEPT ![r] = "armed"]
  PROVE  /\ Cardinality(Unanswered') = Cardinality(Unanswered) + 1
         /\ Succeeded' = Succeeded
<1>1. Unanswered' = Unanswered \cup {r} /\ r \notin Unanswered
  BY DEF Unanswered, PromoteTypeOK
<1>2. Cardinality(Unanswered \cup {r}) = Cardinality(Unanswered) + 1
  BY <1>1, UnansweredFinite, FS_AddElement
<1>3. Succeeded' = Succeeded
  BY DEF Succeeded, PromoteTypeOK
<1> QED BY <1>1, <1>2, <1>3

LEMMA AnsweringCounts ==
  ASSUME NEW r \in Promotes, PromoteTypeOK, promote[r] \in {"promoted", "refused"},
         promote' = [promote EXCEPT ![r] = "failed"]
  PROVE  /\ Cardinality(Unanswered') = Cardinality(Unanswered) - 1
         /\ Cardinality(Unanswered) # 0
         /\ Succeeded' = Succeeded
<1>1. Unanswered' = Unanswered \ {r} /\ r \in Unanswered
  BY DEF Unanswered, PromoteTypeOK
<1>2. Cardinality(Unanswered \ {r}) = Cardinality(Unanswered) - 1
  BY <1>1, UnansweredFinite, FS_RemoveElement
<1>3. Cardinality(Unanswered) # 0
  BY <1>1, UnansweredFinite, FS_EmptySet
<1>4. Succeeded' = Succeeded
  BY DEF Succeeded, PromoteTypeOK
<1> QED BY <1>1, <1>2, <1>3, <1>4

(***************************************************************************)
(* The steps that leave the requests alone, or move one whose standing     *)
(* does not change, keep the count.                                        *)
(***************************************************************************)
LEMMA CountKept ==
  ASSUME GuardCounts, guard' = guard, Unanswered' = Unanswered, Succeeded' = Succeeded
  PROVE  GuardCounts'
BY DEF GuardCounts
-----------------------------------------------------------------------------
LEMMA PromoteTypeKept == PromoteTypeOK /\ [PromoteNext]_promoteVars => PromoteTypeOK'
<1> SUFFICES ASSUME PromoteTypeOK, [PromoteNext]_promoteVars PROVE PromoteTypeOK'
  OBVIOUS
<1> USE DEF PromoteTypeOK, Promoted
<1>1. CASE \E r \in Promotes : BeginPromote(r)
  BY <1>1 DEF BeginPromote
<1>2. CASE \E r \in Promotes : BackendPromotes(r)
  BY <1>2 DEF BackendPromotes
<1>3. CASE \E r \in Promotes : FinishPromote(r)
  BY <1>3 DEF FinishPromote
<1>4. CASE ReleaseToggle \/ SocketEnds
  BY <1>4 DEF ReleaseToggle, SocketEnds
<1>5. CASE FirstLook \/ SecondLook
  BY <1>5 DEF FirstLook, SecondLook
<1>6. CASE AutoClose
  BY <1>6 DEF AutoClose
<1>7. CASE CloseTemporary
  BY <1>7 DEF CloseTemporary
<1>8. CASE UNCHANGED promoteVars
  BY <1>8 DEF promoteVars
<1> QED BY <1>1, <1>2, <1>3, <1>4, <1>5, <1>6, <1>7, <1>8 DEF PromoteNext

LEMMA CountsKept == PromoteInv /\ [PromoteNext]_promoteVars => GuardCounts'
<1> SUFFICES ASSUME PromoteTypeOK, GuardCounts, [PromoteNext]_promoteVars PROVE GuardCounts'
  BY DEF PromoteInv
<1>1. ASSUME NEW r \in Promotes, BeginPromote(r) PROVE GuardCounts'
  <2>1. /\ Cardinality(Unanswered') = Cardinality(Unanswered) + 1
        /\ Succeeded' = Succeeded
    BY <1>1, ArmingCounts DEF BeginPromote
  <2>2. guard' = IF guard = Promoted THEN guard ELSE guard + 1
    BY <1>1 DEF BeginPromote
  <2> QED BY <2>1, <2>2, UnansweredFinite DEF GuardCounts, Promoted
<1>2. ASSUME NEW r \in Promotes, BackendPromotes(r) PROVE GuardCounts'
  <2>1. Unanswered' = Unanswered /\ Succeeded' = Succeeded /\ guard' = guard
    BY <1>2 DEF BackendPromotes, Unanswered, Succeeded, PromoteTypeOK
  <2> QED BY <2>1, CountKept
<1>3. ASSUME NEW r \in Promotes, FinishPromote(r) PROVE GuardCounts'
  <2>1. CASE guard' = Promoted /\ promote' = [promote EXCEPT ![r] = "succeeded"]
    <3>1. r \in Succeeded'
      BY <2>1 DEF Succeeded, PromoteTypeOK
    <3> QED BY <2>1, <3>1 DEF GuardCounts
  <2>2. CASE /\ guard' = IF guard = Promoted \/ guard = 0 THEN guard ELSE guard - 1
             /\ promote' = [promote EXCEPT ![r] = "failed"]
    <3>1. promote[r] \in {"promoted", "refused"}
      BY <1>3 DEF FinishPromote
    <3>2. /\ Cardinality(Unanswered') = Cardinality(Unanswered) - 1
          /\ Cardinality(Unanswered) # 0
          /\ Succeeded' = Succeeded
      BY <2>2, <3>1, AnsweringCounts
    <3> QED BY <2>2, <3>2, UnansweredFinite DEF GuardCounts, Promoted
  <2> QED BY <1>3, <2>1, <2>2 DEF FinishPromote
<1>4. CASE ReleaseToggle \/ SocketEnds \/ FirstLook \/ SecondLook \/ AutoClose
           \/ CloseTemporary \/ UNCHANGED promoteVars
  <2>1. guard' = guard /\ promote' = promote
    BY <1>4 DEF ReleaseToggle, SocketEnds, FirstLook, SecondLook, AutoClose, CloseTemporary,
                promoteVars
  <2>2. Unanswered' = Unanswered /\ Succeeded' = Succeeded
    BY <2>1 DEF Unanswered, Succeeded
  <2> QED BY <2>1, <2>2, CountKept
<1> QED BY <1>1, <1>2, <1>3, <1>4 DEF PromoteNext

LEMMA PromoteInvInductive == PromoteSpec => []PromoteInv
<1>1. PromoteInit => PromoteInv
  <2> SUFFICES ASSUME PromoteInit PROVE PromoteInv
    OBVIOUS
  <2>1. PromoteTypeOK
    BY DEF PromoteInit, PromoteTypeOK
  <2>2. Unanswered = {} /\ Succeeded = {}
    BY DEF PromoteInit, Unanswered, Succeeded
  <2>3. GuardCounts
    BY <2>2, FS_EmptySet DEF PromoteInit, GuardCounts
  <2> QED BY <2>1, <2>3 DEF PromoteInv
<1>2. PromoteInv /\ [PromoteNext]_promoteVars => PromoteInv'
  BY PromoteTypeKept, CountsKept DEF PromoteInv
<1> QED BY <1>1, <1>2, PTL DEF PromoteSpec

(***************************************************************************)
(* The guard is well typed; in particular the count of promotes in flight  *)
(* never wraps below zero (finish_temporary_tab_promote).                  *)
(***************************************************************************)
THEOREM PromoteTypeCorrect == PromoteSpec => []PromoteTypeOK
BY PromoteInvInductive, PTL DEF PromoteInv

(***************************************************************************)
(* The marker counts the promotes in flight until one is known to have     *)
(* worked, for any number of overlapping, failing or unanswered requests.  *)
(***************************************************************************)
THEOREM MarkerCounts == PromoteSpec => []GuardCounts
BY PromoteInvInductive, PTL DEF PromoteInv

(***************************************************************************)
(* The second look of terminal_socket's teardown commits to closing the    *)
(* tab only when no promote is in flight and none has worked.              *)
(***************************************************************************)
THEOREM TeardownSparesPromotes == PromoteSpec => NeverClosesArmed
<1>1. ASSUME PromoteInv, [PromoteNext]_promoteVars, teardown' = "closing", teardown # "closing"
      PROVE  Unanswered = {} /\ Succeeded = {}
  <2>1. SecondLook
    BY <1>1 DEF PromoteNext, BeginPromote, BackendPromotes, FinishPromote, ReleaseToggle,
                SocketEnds, FirstLook, AutoClose, CloseTemporary, promoteVars
  <2>2. guard = 0
    BY <1>1, <2>1 DEF SecondLook, ShouldAutoClose
  <2>3. Succeeded = {} /\ Cardinality(Unanswered) = 0
    BY <1>1, <2>2 DEF PromoteInv, GuardCounts, Promoted
  <2> QED BY <2>3, UnansweredFinite, FS_EmptySet
<1>2. PromoteInv /\ [PromoteNext]_promoteVars =>
        [teardown' = "closing" /\ teardown # "closing"
           => Unanswered = {} /\ Succeeded = {}]_promoteVars
  BY <1>1
<1> QED BY <1>2, PromoteInvInductive, PTL DEF PromoteSpec, NeverClosesArmed

-----------------------------------------------------------------------------
(***************************************************************************)
(* SessionLifecycle: however many requests find a session cold, it is      *)
(* started once.                                                           *)
(***************************************************************************)

\* No close and no clean-up has begun, and none is undone once it has.
Untouched == \A r \in Closes \cup Cleanups : sessionAt[r] = "idle"

LockStages == {"locked", "cold", "starting"}

\* The lock has one holder at most.
OneHolder ==
  \A q, r \in SessionRequests : sessionAt[q] \in LockStages /\ sessionAt[r] \in LockStages => q = r

\* One backend at most was started; it runs, accepts and has the path, and its
\* registration follows in the hands of the request that started it.
FirstBackend ==
  /\ started \in {0, 1}
  /\ running = Started /\ accepting = Started
  /\ path = started /\ registered \in {NoBackend, started}
  /\ \A r \in SessionRequests :
       /\ sessionAt[r] = "cold" => started = 0
       /\ sessionAt[r] = "starting" => started = 1 /\ registered = NoBackend

SessionInv == SessionTypeOK /\ OneHolder /\ (Untouched => FirstBackend)
-----------------------------------------------------------------------------
LEMMA EnsureType ==
  ASSUME SessionTypeOK, NEW r \in SessionRequests, ClearMarker(r) \/ EnsureStep(r)
  PROVE  SessionTypeOK'
<1> USE SessionAssumption DEF SessionTypeOK, Stands, KeepBackends, Started, NoBackend
<1>1. CASE ClearMarker(r)
  BY <1>1 DEF ClearMarker
<1>2. CASE LookForSession(r)
  BY <1>2 DEF LookForSession
<1>3. CASE TakeStartLock(r)
  BY <1>3 DEF TakeStartLock, Evict, DropHandle, Connects
<1>4. CASE SomebodyAnswers(r)
  BY <1>4 DEF SomebodyAnswers, Connects
<1>5. CASE NobodyAnswers(r)
  BY <1>5 DEF NobodyAnswers
<1>6. CASE StartBackend(r)
  BY <1>6 DEF StartBackend
<1>7. CASE RegisterBackend(r)
  BY <1>7 DEF RegisterBackend, DropHandle, Connects
<1> QED BY <1>1, <1>2, <1>3, <1>4, <1>5, <1>6, <1>7 DEF EnsureStep

LEMMA CloseType ==
  ASSUME SessionTypeOK, NEW r \in SessionRequests, CloseStep(r) \/ CleanupStep(r)
  PROVE  SessionTypeOK'
<1> USE DEF SessionTypeOK, Stands, KeepBackends, Started, NoBackend, Connects
<1>1. CASE StopBackend(r)
  BY <1>1 DEF StopBackend
<1>2. CASE RemoveHandle(r)
  BY <1>2 DEF RemoveHandle, DropHandle
<1>3. CASE MarkClosed(r) \/ RemoveSockets(r)
  BY <1>3 DEF MarkClosed, RemoveSockets
<1>4. CASE ListSafeNames(r) \/ ProbeSession(r)
  BY <1>4 DEF ListSafeNames, ProbeSession
<1>5. CASE EraseSession(r) \/ ForgetMarker(r)
  BY <1>5 DEF EraseSession, ForgetMarker
<1> QED BY <1>1, <1>2, <1>3, <1>4, <1>5 DEF CloseStep, CleanupStep

LEMMA BackendType ==
  ASSUME SessionTypeOK, NEW b \in Started,
         AcceptConnection(b) \/ Attach(b) \/ Leave(b) \/ DropBackend(b)
  PROVE  SessionTypeOK'
BY DEF SessionTypeOK, Started, NoBackend, AcceptConnection, Attach, Leave, DropBackend

LEMMA SessionTypeKept ==
  SessionTypeOK /\ [SessionNext]_sessionVars => SessionTypeOK'
<1> SUFFICES ASSUME SessionTypeOK, [SessionNext]_sessionVars PROVE SessionTypeOK'
  OBVIOUS
<1>1. CASE UNCHANGED sessionVars
  BY <1>1 DEF sessionVars, SessionTypeOK, Started
<1>2. CASE \E b \in Started : AcceptConnection(b) \/ Attach(b) \/ Leave(b) \/ DropBackend(b)
  BY <1>2, BackendType
<1> QED BY <1>1, <1>2, EnsureType, CloseType DEF SessionNext
-----------------------------------------------------------------------------
LEMMA HolderKept ==
  ASSUME SessionTypeOK, OneHolder, [SessionNext]_sessionVars
  PROVE  OneHolder'
<1> USE DEF SessionTypeOK, OneHolder, LockStages, Stands
<1>1. CASE UNCHANGED sessionAt
  BY <1>1
<1>2. ASSUME NEW r \in SessionRequests, TakeStartLock(r) PROVE OneHolder'
  BY <1>2 DEF TakeStartLock, StartLockFree
<1>3. ASSUME NEW r \in SessionRequests, ClearMarker(r) \/ LookForSession(r) PROVE OneHolder'
  BY <1>3 DEF ClearMarker, LookForSession
<1>4. ASSUME NEW r \in SessionRequests, SomebodyAnswers(r) \/ NobodyAnswers(r) PROVE OneHolder'
  BY <1>4 DEF SomebodyAnswers, NobodyAnswers
<1>5. ASSUME NEW r \in SessionRequests, StartBackend(r) \/ RegisterBackend(r) PROVE OneHolder'
  BY <1>5 DEF StartBackend, RegisterBackend
<1>6. ASSUME NEW r \in SessionRequests, CloseStep(r) PROVE OneHolder'
  BY <1>6 DEF CloseStep, StopBackend, RemoveHandle, MarkClosed, RemoveSockets
<1>7. ASSUME NEW r \in SessionRequests, CleanupStep(r) PROVE OneHolder'
  BY <1>7 DEF CleanupStep, ListSafeNames, ProbeSession, EraseSession, ForgetMarker
<1>8. CASE \E b \in Started : AcceptConnection(b) \/ Attach(b) \/ Leave(b) \/ DropBackend(b)
  BY <1>1, <1>8 DEF AcceptConnection, Attach, Leave, DropBackend
<1>9. UNCHANGED sessionVars => UNCHANGED sessionAt
  BY DEF sessionVars
<1> QED BY <1>1, <1>2, <1>3, <1>4, <1>5, <1>6, <1>7, <1>8, <1>9 DEF SessionNext, EnsureStep

\* A close or a clean-up that has begun has left "idle" for good.
LEMMA UntouchedBefore ==
  ASSUME SessionTypeOK, [SessionNext]_sessionVars, Untouched'
  PROVE  /\ Untouched
         /\ \A r \in SessionRequests : ~CloseStep(r) /\ ~CleanupStep(r)
<1> USE DEF SessionTypeOK, Untouched, Stands, SessionRequests
<1>1. ASSUME NEW r \in SessionRequests, CloseStep(r) PROVE FALSE
  BY <1>1 DEF CloseStep, StopBackend, RemoveHandle, MarkClosed, RemoveSockets
<1>2. ASSUME NEW r \in SessionRequests, CleanupStep(r) PROVE FALSE
  BY <1>2 DEF CleanupStep, ListSafeNames, ProbeSession, EraseSession, ForgetMarker
<1>3. ASSUME NEW r \in SessionRequests, ClearMarker(r) \/ EnsureStep(r) PROVE Untouched
  <2>1. PICK s \in {"looking", "done", "waiting", "locked", "cold", "starting"} :
          sessionAt' = [sessionAt EXCEPT ![r] = s]
    BY <1>3 DEF ClearMarker, EnsureStep, LookForSession, TakeStartLock, SomebodyAnswers,
                NobodyAnswers, StartBackend, RegisterBackend
  <2>2. \A q \in Closes \cup Cleanups : q # r
    BY <2>1
  <2> QED BY <2>1, <2>2
<1>4. ASSUME UNCHANGED sessionAt PROVE Untouched
  BY <1>4
<1>5. ASSUME \E b \in Started : AcceptConnection(b) \/ Attach(b) \/ Leave(b) \/ DropBackend(b)
      PROVE  Untouched
  BY <1>4, <1>5 DEF AcceptConnection, Attach, Leave, DropBackend
<1>6. UNCHANGED sessionVars => UNCHANGED sessionAt
  BY DEF sessionVars
<1> QED BY <1>1, <1>2, <1>3, <1>4, <1>5, <1>6 DEF SessionNext

\* The steps of a start: only the first holder of the lock finds nobody on the
\* path, and what it has started is neither evicted nor replaced.
LEMMA EnsureKeepsFirst ==
  ASSUME SessionTypeOK, OneHolder, FirstBackend, NEW r \in SessionRequests,
         ClearMarker(r) \/ EnsureStep(r)
  PROVE  FirstBackend'
<1> USE DEF SessionTypeOK, FirstBackend, Stands, KeepBackends, Started, NoBackend, Connects
<1>1. CASE ClearMarker(r) \/ LookForSession(r)
  BY <1>1 DEF ClearMarker, LookForSession
<1>2. CASE TakeStartLock(r)
  <2>1. registered' = registered /\ UNCHANGED <<running, accepting, path, started>>
    BY <1>2 DEF TakeStartLock, Evict, DropHandle
  <2> QED BY <1>2, <2>1 DEF TakeStartLock
<1>3. CASE SomebodyAnswers(r)
  BY <1>3 DEF SomebodyAnswers
<1>4. CASE NobodyAnswers(r)
  BY <1>4 DEF NobodyAnswers
<1>5. CASE StartBackend(r)
  <2>1. started = 0 /\ started' = 1 /\ registered' = NoBackend
    BY <1>5 DEF StartBackend
  <2>2. running' = 1..1 /\ accepting' = 1..1 /\ path' = 1
    BY <1>5, <2>1 DEF StartBackend
  <2>3. \A q \in SessionRequests : sessionAt'[q] # "cold"
    BY <1>5 DEF StartBackend, OneHolder, LockStages
  <2> QED BY <2>1, <2>2, <2>3
<1>6. CASE RegisterBackend(r)
  <2>1. started = 1 /\ started' = 1 /\ registered' = 1
    BY <1>6 DEF RegisterBackend
  <2>2. UNCHANGED <<running, accepting, path>>
    BY <1>6, <2>1 DEF RegisterBackend
  <2>3. \A q \in SessionRequests : sessionAt'[q] \notin {"cold", "starting"}
    BY <1>6, <2>1 DEF RegisterBackend, OneHolder, LockStages
  <2> QED BY <2>1, <2>2, <2>3
<1> QED BY <1>1, <1>2, <1>3, <1>4, <1>5, <1>6 DEF EnsureStep

\* The backend's own steps: it goes on accepting, and is not dropped.
LEMMA BackendKeepsFirst ==
  ASSUME SessionTypeOK, FirstBackend, NEW b \in Started,
         AcceptConnection(b) \/ Attach(b) \/ Leave(b) \/ DropBackend(b)
  PROVE  FirstBackend'
BY DEF SessionTypeOK, FirstBackend, Started, NoBackend, AcceptConnection, Attach, Leave, DropBackend

LEMMA SessionInvStep == SessionInv /\ [SessionNext]_sessionVars => SessionInv'
<1> SUFFICES ASSUME SessionInv, [SessionNext]_sessionVars PROVE SessionInv'
  OBVIOUS
<1> USE DEF SessionInv
<1>1. SessionTypeOK' /\ OneHolder'
  BY SessionTypeKept, HolderKept
<1>2. ASSUME Untouched' PROVE FirstBackend'
  <2>1. FirstBackend /\ \A r \in SessionRequests : ~CloseStep(r) /\ ~CleanupStep(r)
    BY <1>2, UntouchedBefore
  <2>2. CASE UNCHANGED sessionVars
    BY <2>1, <2>2 DEF sessionVars, FirstBackend, Started
  <2> QED BY <2>1, <2>2, EnsureKeepsFirst, BackendKeepsFirst DEF SessionNext
<1> QED BY <1>1, <1>2

LEMMA SessionInvInductive == SessionSpec => []SessionInv
<1>1. SessionInit => SessionInv
  <2> SUFFICES ASSUME SessionInit PROVE SessionInv
    OBVIOUS
  <2> USE DEF SessionInit, Started, NoBackend
  <2>1. SessionTypeOK
    <3>1. started \in 0 .. Backends /\ {path, registered} \subseteq {NoBackend} \cup Started
      BY SessionAssumption
    <3> QED BY <3>1 DEF SessionTypeOK
  <2>2. OneHolder /\ FirstBackend
    BY DEF OneHolder, LockStages, FirstBackend
  <2> QED BY <2>1, <2>2 DEF SessionInv
<1> QED BY <1>1, SessionInvStep, PTL DEF SessionSpec

(***************************************************************************)
(* The session's registry, its backends and the requests are well typed:   *)
(* in particular a handle or a path never names a backend that was not     *)
(* started (ensure_builtin_session, close_session, cleanup_sessions).      *)
(***************************************************************************)
THEOREM SessionTypeCorrect == SessionSpec => []SessionTypeOK
BY SessionInvInductive, PTL DEF SessionInv

(***************************************************************************)
(* Any number of requests that find the session cold start one backend,    *)
(* and register the one its path leads to (builtin_start_lock).            *)
(***************************************************************************)
THEOREM ColdSessionStartsOnce == SessionSpec => []StartedOnce
<1>1. ASSUME SessionInv PROVE StartedOnce
  <2> SUFFICES ASSUME Untouched PROVE Cardinality(running) <= 1 /\ registered \in {NoBackend, path}
    BY DEF StartedOnce, Untouched
  <2>1. FirstBackend
    BY <1>1 DEF SessionInv
  <2>2. running = {} \/ running = {1}
    BY <2>1 DEF FirstBackend, Started
  <2>3. Cardinality(running) \in {0, 1}
    BY <2>2, FS_EmptySet, FS_Singleton, Zenon
  <2> QED BY <2>1, <2>3 DEF FirstBackend
<1> QED BY <1>1, SessionInvInductive, PTL

-----------------------------------------------------------------------------
(***************************************************************************)
(* LspRegistry: a language server that was asked to stop has stopped.      *)
(***************************************************************************)

\* Every id in somebody's hands is one of a server that was spawned.
HandlesSpawned ==
  /\ servers \in [Roots -> Spawned \cup {0}]
  /\ \A q \in Requests : todo[q] \subseteq Spawned /\ found[q] \subseteq Spawned

\* A process that runs is still owned by its handle, so that a kill reaches it.
Owned == alive \subseteq child

\* What a stop request has dealt with is dead.
Stopping ==
  \A q \in Stoppers :
    /\ lsp[q] \in {"stopping", "stoppingAll"} => found[q] \cap alive \subseteq todo[q]
    /\ lsp[q] = "done" => found[q] \cap alive = {}
    /\ lsp[q] \in {"new", "stopping", "stoppingAll", "done"}

LspInv == LspTypeOK /\ HandlesSpawned /\ Owned /\ Stopping

Starts(q) == LookUp(q) \/ LookAtServer(q) \/ BeginCount(q) \/ CountServer(q)
             \/ EndCount(q) \/ InsertServer(q)
Ends(h) == ServerDies(h) \/ ReaderEnds(h) \/ ReaderRemoves(h)
           \/ TimerAsks(h) \/ TimerEndsServer(h) \/ TimerRemoves(h)
Lists(q) == BeginList(q) \/ ListServer(q) \/ EndList(q)

-----------------------------------------------------------------------------
(***************************************************************************)
(* The registry holds handles that were spawned.                           *)
(***************************************************************************)
LEMMA RegisteredSpawned == HandlesSpawned => Registered \subseteq Spawned
BY DEF HandlesSpawned, Registered, Range

(***************************************************************************)
(* Who may hold a child's lock.                                            *)
(***************************************************************************)
LEMMA MayHold ==
  Free \in LockHolders /\ \A h \in Handle : Reader(h) \in LockHolders /\ Timer(h) \in LockHolders
BY DEF LockHolders

(***************************************************************************)
(* Only a spawn extends the handles that were spawned and what runs        *)
(* (lsp_start); every other step ends processes or moves requests.         *)
(***************************************************************************)
LEMMA StartsType ==
  ASSUME LspTypeOK, HandlesSpawned, NEW q \in LspStarters, Starts(q)
  PROVE  LspTypeOK' /\ HandlesSpawned' /\ keyOf' = keyOf /\ alive' = alive
<1> USE DEF LspTypeOK, HandlesSpawned, Requests, Handle, Spawned
<1>1. CASE LookUp(q)
  BY <1>1, LspAssumption DEF LookUp, At
<1>2. CASE LookAtServer(q)
  BY <1>2 DEF LookAtServer, Probe
<1>3. CASE BeginCount(q)
  BY <1>3, RegisteredSpawned DEF BeginCount, At
<1>4. CASE CountServer(q)
  BY <1>4 DEF CountServer, Probe
<1>5. CASE EndCount(q)
  BY <1>5 DEF EndCount, At
<1>6. CASE InsertServer(q)
  <2>1. PICK h \in found[q] : servers' = [servers EXCEPT ![keyOf[h]] = h]
    BY <1>6 DEF InsertServer
  <2>2. /\ lsp' = [lsp EXCEPT ![q] = "done"]
        /\ UNCHANGED <<registry, keyOf, alive, child, lock, reader, timer, todo, found>>
    BY <1>6 DEF InsertServer, At
  <2>3. h \in Spawned /\ h \in Handle
    BY <2>1
  <2>4. servers' \in [Roots -> Handle \cup {0}] /\ servers' \in [Roots -> Spawned \cup {0}]
    BY <2>1, <2>3
  <2>5. lsp' \in [Requests -> {"new", "looking", "count", "counting", "spawning", "inserting",
                              "stopping", "stoppingAll", "pruning", "done"}]
    BY <2>2
  <2> QED BY <2>2, <2>4, <2>5
<1> QED BY <1>1, <1>2, <1>3, <1>4, <1>5, <1>6 DEF Starts

LEMMA SpawnsType ==
  ASSUME LspTypeOK, HandlesSpawned, NEW q \in LspStarters, SpawnServer(q)
  PROVE  LspTypeOK' /\ HandlesSpawned' /\ Spawned \subseteq Spawned'
<1> USE DEF LspTypeOK, HandlesSpawned, Requests, Handle, Spawned
<1>1. CASE lsp' = [lsp EXCEPT ![q] = "inserting"]
  <2>1. PICK h \in Handle \ Spawned :
          /\ keyOf' = [g \in Spawned \cup {h} |-> IF g = h THEN RootOf[q] ELSE keyOf[g]]
          /\ alive' = alive \cup {h} /\ child' = child \cup {h}
          /\ found' = [found EXCEPT ![q] = {h}]
    BY <1>1 DEF SpawnServer, At
  <2>2. Spawned' = Spawned \cup {h}
    BY <2>1
  <2>3. UNCHANGED <<servers, registry, lock, reader, timer, todo>>
    BY <1>1 DEF SpawnServer, At
  <2> QED BY <1>1, <2>1, <2>2, <2>3
<1>2. CASE /\ lsp' = [lsp EXCEPT ![q] = "done"]
           /\ UNCHANGED <<servers, registry, keyOf, alive, child, lock, reader, timer, todo, found>>
  BY <1>2
<1> QED BY <1>1, <1>2 DEF SpawnServer, At

LEMMA EndsType ==
  ASSUME LspTypeOK, HandlesSpawned, NEW h \in Handle, Ends(h)
  PROVE  /\ LspTypeOK' /\ HandlesSpawned' /\ alive' \subseteq alive
         /\ UNCHANGED <<lsp, todo, found, keyOf>>
<1> USE DEF LspTypeOK, HandlesSpawned, Requests, Spawned
<1>1. CASE ServerDies(h)
  BY <1>1 DEF ServerDies
<1>2. CASE ReaderEnds(h)
  BY <1>2, MayHold DEF ReaderEnds
<1>3. CASE ReaderRemoves(h)
  BY <1>3, MayHold DEF ReaderRemoves
<1>4. CASE TimerAsks(h)
  BY <1>4 DEF TimerAsks
<1>5. CASE TimerEndsServer(h)
  BY <1>5, MayHold DEF TimerEndsServer
<1>6. CASE TimerRemoves(h)
  BY <1>6, MayHold DEF TimerRemoves
<1> QED BY <1>1, <1>2, <1>3, <1>4, <1>5, <1>6 DEF Ends

LEMMA StopsType ==
  ASSUME LspTypeOK, HandlesSpawned, NEW q \in Stoppers, BeginStop(q) \/ StopServer(q) \/ EndStop(q)
  PROVE  LspTypeOK' /\ HandlesSpawned'
<1> USE DEF LspTypeOK, HandlesSpawned, Requests, Spawned
<1>1. CASE BeginStop(q)
  <2>1. /\ lsp' \in [Requests -> {"new", "looking", "count", "counting", "spawning", "inserting",
                                  "stopping", "stoppingAll", "pruning", "done"}]
        /\ UNCHANGED <<servers, registry, keyOf, alive, child, lock, reader, timer>>
    BY <1>1 DEF BeginStop, At
  <2>2. PICK T \in SUBSET Spawned : todo' = [todo EXCEPT ![q] = T]
    BY <1>1, RegisteredSpawned DEF BeginStop
  <2>3. found' = [found EXCEPT ![q] = T]
    BY <1>1, <2>2 DEF BeginStop
  <2> QED BY <2>1, <2>2, <2>3
<1>2. CASE StopServer(q)
  BY <1>2 DEF StopServer
<1>3. CASE EndStop(q)
  <2>1. /\ lsp' \in [Requests -> {"new", "looking", "count", "counting", "spawning", "inserting",
                                  "stopping", "stoppingAll", "pruning", "done"}]
        /\ UNCHANGED <<registry, keyOf, alive, child, lock, reader, timer, todo, found>>
    BY <1>3 DEF EndStop, At
  <2> QED BY <1>3, <2>1 DEF EndStop
<1> QED BY <1>1, <1>2, <1>3

LEMMA ListsType ==
  ASSUME LspTypeOK, HandlesSpawned, NEW q \in Listers, Lists(q)
  PROVE  LspTypeOK' /\ HandlesSpawned' /\ keyOf' = keyOf /\ alive' = alive
<1> USE DEF LspTypeOK, HandlesSpawned, Requests, Spawned
<1>1. CASE BeginList(q)
  BY <1>1, RegisteredSpawned DEF BeginList, At
<1>2. CASE ListServer(q)
  BY <1>2 DEF ListServer, Probe
<1>3. CASE EndList(q)
  BY <1>3 DEF EndList, At
<1> QED BY <1>1, <1>2, <1>3 DEF Lists
-----------------------------------------------------------------------------
(***************************************************************************)
(* Every process that runs stays owned: is_running takes a process from    *)
(* its handle only when it has ended, a kill takes both.                   *)
(***************************************************************************)
LEMMA OwnedKept ==
  ASSUME LspInv, LspNext
  PROVE  Owned'
<1> USE DEF Owned
<1>1. ASSUME NEW q \in LspStarters, Starts(q) PROVE Owned'
  BY <1>1 DEF LspInv, Starts, LookUp, LookAtServer, BeginCount, CountServer, EndCount,
              InsertServer, Probe, Running
<1>2. ASSUME NEW q \in LspStarters, SpawnServer(q) PROVE Owned'
  BY <1>2 DEF LspInv, SpawnServer
<1>3. ASSUME NEW h \in Handle, Ends(h) PROVE Owned'
  BY <1>3 DEF LspInv, Ends, ServerDies, ReaderEnds, ReaderRemoves, TimerAsks, TimerEndsServer,
              TimerRemoves
<1>4. ASSUME NEW q \in Stoppers, BeginStop(q) \/ StopServer(q) \/ EndStop(q) PROVE Owned'
  BY <1>4 DEF LspInv, BeginStop, StopServer, EndStop
<1>5. ASSUME NEW q \in Listers, Lists(q) PROVE Owned'
  BY <1>5 DEF LspInv, Lists, BeginList, ListServer, EndList, Probe, Running
<1> QED BY <1>1, <1>2, <1>3, <1>4, <1>5 DEF LspNext, Starts, Ends, Lists

(***************************************************************************)
(* A step that leaves the stop requests alone and starts no process among  *)
(* those they found keeps what they have dealt with dead.                  *)
(***************************************************************************)
LEMMA StoppingUndisturbed ==
  ASSUME LspInv,
         \A q \in Stoppers : lsp'[q] = lsp[q] /\ todo'[q] = todo[q] /\ found'[q] = found[q],
         alive' \cap Spawned \subseteq alive
  PROVE  Stopping'
BY DEF LspInv, Stopping, HandlesSpawned, Requests

LEMMA StoppingKept ==
  ASSUME LspInv, LspNext
  PROVE  Stopping'
<1> USE DEF LspInv
<1>1. ASSUME NEW q \in LspStarters, Starts(q) PROVE Stopping'
  <2>1. \A p \in Stoppers : lsp'[p] = lsp[p] /\ todo'[p] = todo[p] /\ found'[p] = found[p]
    BY <1>1, LspAssumption DEF LspTypeOK, Requests, Starts, LookUp, LookAtServer, BeginCount,
       CountServer, EndCount, InsertServer, At
  <2>2. alive' = alive
    BY <1>1, StartsType
  <2> QED BY <2>1, <2>2, StoppingUndisturbed
<1>2. ASSUME NEW q \in LspStarters, SpawnServer(q) PROVE Stopping'
  <2>1. \A p \in Stoppers : lsp'[p] = lsp[p] /\ todo'[p] = todo[p] /\ found'[p] = found[p]
    BY <1>2, LspAssumption, ZenonT(60) DEF LspTypeOK, Requests, SpawnServer, At
  <2>2. alive' \cap Spawned \subseteq alive
    BY <1>2 DEF SpawnServer
  <2> QED BY <2>1, <2>2, StoppingUndisturbed
<1>3. ASSUME NEW h \in Handle, Ends(h) PROVE Stopping'
  <2>1. alive' \subseteq alive /\ UNCHANGED <<lsp, todo, found>>
    BY <1>3, EndsType
  <2> QED BY <2>1, StoppingUndisturbed
<1>4. ASSUME NEW q \in Listers, Lists(q) PROVE Stopping'
  <2>1. \A p \in Stoppers : lsp'[p] = lsp[p] /\ todo'[p] = todo[p] /\ found'[p] = found[p]
    BY <1>4, LspAssumption DEF LspTypeOK, Requests, Lists, BeginList, ListServer, EndList, At
  <2>2. alive' = alive
    BY <1>4, ListsType
  <2> QED BY <2>1, <2>2, StoppingUndisturbed
<1>5. ASSUME NEW q \in Stoppers, BeginStop(q) PROVE Stopping'
  <2>1. PICK T : todo' = [todo EXCEPT ![q] = T]
    BY <1>5 DEF BeginStop
  <2>2. found' = [found EXCEPT ![q] = T] /\ alive' = alive
    BY <1>5, <2>1 DEF BeginStop, LspTypeOK, Requests
  <2>3. \/ lsp' = [lsp EXCEPT ![q] = "stopping"]
        \/ lsp' = [lsp EXCEPT ![q] = "stoppingAll"]
    BY <1>5 DEF BeginStop, At
  <2> QED BY <2>1, <2>2, <2>3 DEF Stopping, LspTypeOK, Requests
<1>6. ASSUME NEW q \in Stoppers, StopServer(q) PROVE Stopping'
  <2>1. PICK h \in todo[q] :
          /\ todo' = [todo EXCEPT ![q] = @ \ {h}]
          /\ child' = child \ {h} /\ alive' = IF h \in child THEN alive \ {h} ELSE alive
    BY <1>6 DEF StopServer
  <2>2. alive' = alive \ {h}
    BY <2>1 DEF Owned
  <2>3. UNCHANGED <<lsp, found>> /\ lsp[q] # "done"
    BY <1>6 DEF StopServer
  <2> QED BY <2>1, <2>2, <2>3 DEF Stopping, LspTypeOK, Requests
<1>7. ASSUME NEW q \in Stoppers, EndStop(q) PROVE Stopping'
  <2>1. /\ lsp[q] \in {"stopping", "stoppingAll"} /\ lsp' = [lsp EXCEPT ![q] = "done"]
        /\ todo[q] = {} /\ UNCHANGED <<alive, todo, found>>
    BY <1>7 DEF EndStop, At
  <2> QED BY <2>1 DEF Stopping, LspTypeOK, Requests
<1> QED BY <1>1, <1>2, <1>3, <1>4, <1>5, <1>6, <1>7 DEF LspNext, Starts, Ends, Lists

LEMMA LspInvInductive == LspSpec => []LspInv
<1>1. LspInit => LspInv
  <2> SUFFICES ASSUME LspInit PROVE LspInv
    OBVIOUS
  <2>1. Spawned = {}
    BY DEF LspInit, Spawned
  <2> QED BY <2>1, MayHold DEF LspInit, LspInv, LspTypeOK, HandlesSpawned, Owned, Stopping, Requests
<1>2. ASSUME LspInv, LspNext PROVE LspInv'
  <2>1. LspTypeOK' /\ HandlesSpawned'
    BY <1>2, StartsType, SpawnsType, EndsType, StopsType, ListsType
       DEF LspInv, LspNext, Starts, Ends, Lists
  <2> QED BY <1>2, <2>1, OwnedKept, StoppingKept DEF LspInv
<1>3. ASSUME LspInv, UNCHANGED lspVars PROVE LspInv'
  BY <1>3 DEF LspInv, LspTypeOK, HandlesSpawned, Owned, Stopping, lspVars, Spawned
<1> QED BY <1>1, <1>2, <1>3, PTL DEF LspSpec

(***************************************************************************)
(* Handles, locks and requests stay well typed for any number of them.     *)
(***************************************************************************)
THEOREM LspTypeCorrect == LspSpec => []LspTypeOK
BY LspInvInductive, PTL DEF LspInv

(***************************************************************************)
(* What a stop request found in the registry is dead when it answers,      *)
(* however many requests, listings, crashes and clean-up tasks meet it     *)
(* (lsp_stop, stop_handle, is_running).                                    *)
(***************************************************************************)
THEOREM StoppedServersAreDead == LspSpec => []StopMeansStopped
<1>1. LspInv => StopMeansStopped
  BY DEF LspInv, Stopping, StopMeansStopped
<1> QED BY <1>1, LspInvInductive, PTL

-----------------------------------------------------------------------------
(***************************************************************************)
(* TuiClient: what the terminal client shows and types into is of the      *)
(* session that it points at.                                              *)
(***************************************************************************)

ServerTyped ==
  /\ up \subseteq TuiSessions /\ panes \in [TuiSessions -> Rows]
  /\ born \in [TuiSessions -> 0..MaxTerms] /\ turnsTaken \in 0..ServerTurns

\* A session lists no more terminals than it has created, and none offline.
RowsBorn ==
  \A s \in TuiSessions : Len(panes[s]) <= born[s] /\ (s \notin up => panes[s] = <<>>)

ViewTyped == snap \in Snapshot /\ sel \in 1..MaxTerms /\ last \in {"never", "fresh", "stale"}

ModeTyped ==
  tuiMode \in Modes /\ stack \in Seq(Modes) /\ Len(stack) <= MaxOverlays /\ quitPrev \in Modes

TargetTyped ==
  /\ session \in TuiSessions /\ bumped \in BOOLEAN
  /\ fetch \in {NoTui} \cup [of : TuiSessions, stage : {"waiting", "failed", "done"}, list : Rows]

InputTyped ==
  /\ screen \in {"terminal", "panel"} /\ prompt \in {"none", "session", "other"}
  /\ listed \subseteq TuiSessions

LEMMA TuiTypeParts ==
  TuiTypeOK <=> /\ ServerTyped /\ ViewTyped /\ ModeTyped /\ TargetTyped /\ InputTyped
                /\ liveTerm \in {NoTui} \cup [of : TuiSessions, term : 1..MaxTerms]
                /\ tuiLoop \in {"keys", "refresh", "over"}
BY DEF TuiTypeOK, ServerTyped, ViewTyped, ModeTyped, TargetTyped, InputTyped

LEMMA TuiTypedNext ==
  /\ ServerTyped' /\ ViewTyped' /\ ModeTyped' /\ TargetTyped' /\ InputTyped'
  /\ liveTerm' \in {NoTui} \cup [of : TuiSessions, term : 1..MaxTerms]
  /\ tuiLoop' \in {"keys", "refresh", "over"}
  => TuiTypeOK'
BY DEF TuiTypeOK, ServerTyped, ViewTyped, ModeTyped, TargetTyped, InputTyped
-----------------------------------------------------------------------------
(***************************************************************************)
(* Lists of terminals.                                                     *)
(***************************************************************************)
LEMMA BoundsType == MaxTerms \in Nat \ {0} /\ MaxOverlays \in Nat /\ ServerTurns \in Nat
BY TuiAssumption

LEMMA RowsAreShort == \A x : x \in Rows <=> x \in Seq(1..MaxTerms) /\ Len(x) <= MaxTerms
<1>1. ASSUME NEW x \in Rows PROVE x \in Seq(1..MaxTerms) /\ Len(x) <= MaxTerms
  <2>1. PICK n \in 0..MaxTerms : x \in [1..n -> 1..MaxTerms]
    BY DEF Rows
  <2>2. n \in Nat /\ n <= MaxTerms
    BY BoundsType
  <2>3. x \in Seq(1..MaxTerms)
    BY <2>1, <2>2, SeqDef
  <2>4. Len(x) = n
    BY <2>1, <2>2, <2>3, LenProperties
  <2> QED BY <2>2, <2>3, <2>4
<1>2. ASSUME NEW x \in Seq(1..MaxTerms), Len(x) <= MaxTerms PROVE x \in Rows
  <2>1. Len(x) \in 0..MaxTerms /\ x \in [1..Len(x) -> 1..MaxTerms]
    BY <1>2, BoundsType
  <2> QED BY <2>1 DEF Rows
<1> QED BY <1>1, <1>2

LEMMA RowsShrink ==
  ASSUME NEW x \in Rows, NEW i \in DOMAIN x
  PROVE  RemoveAt(x, i) \in Rows /\ Len(RemoveAt(x, i)) = Len(x) - 1
<1>1. x \in Seq(1..MaxTerms) /\ Len(x) <= MaxTerms /\ i \in 1..Len(x)
  BY RowsAreShort
<1>2. /\ SubSeq(x, 1, i - 1) \in Seq(1..MaxTerms) /\ Len(SubSeq(x, 1, i - 1)) = i - 1
      /\ SubSeq(x, i + 1, Len(x)) \in Seq(1..MaxTerms) /\ Len(SubSeq(x, i + 1, Len(x))) = Len(x) - i
  <2>1. \A j \in 1..Len(x) : x[j] \in 1..MaxTerms
    BY <1>1, ElementOfSeq
  <2>2. SubSeq(x, 1, i - 1) \in Seq(1..MaxTerms) /\ Len(SubSeq(x, 1, i - 1)) = i - 1
    BY <1>1, <2>1, SubSeqProperties
  <2>3. SubSeq(x, i + 1, Len(x)) \in Seq(1..MaxTerms) /\ Len(SubSeq(x, i + 1, Len(x))) = Len(x) - i
    BY <1>1, <2>1, SubSeqProperties
  <2> QED BY <2>2, <2>3
<1>3. RemoveAt(x, i) \in Seq(1..MaxTerms) /\ Len(RemoveAt(x, i)) = Len(x) - 1
  BY <1>1, <1>2, ConcatProperties, SMTT(30) DEF RemoveAt
<1> QED BY <1>1, <1>3, RowsAreShort, BoundsType

LEMMA RowsGrow ==
  ASSUME NEW x \in Rows, Len(x) < MaxTerms, NEW e \in 1..MaxTerms
  PROVE  Append(x, e) \in Rows /\ Len(Append(x, e)) = Len(x) + 1
<1>1. x \in Seq(1..MaxTerms)
  BY RowsAreShort
<1>2. Append(x, e) \in Seq(1..MaxTerms) /\ Len(Append(x, e)) = Len(x) + 1
  BY <1>1
<1>3. Len(x) + 1 <= MaxTerms
  BY <1>1, BoundsType
<1> QED BY <1>2, <1>3, RowsAreShort

LEMMA EmptyRows == <<>> \in Rows /\ Len(<<>>) = 0
<1>1. <<>> \in Seq(1..MaxTerms) /\ Len(<<>>) = 0
  BY EmptySeq
<1>2. Len(<<>>) <= MaxTerms
  BY <1>1, BoundsType
<1> QED BY <1>1, <1>2, RowsAreShort

LEMMA LastRowType == \A x \in Rows : LastRow(x) \in 1..MaxTerms
<1> SUFFICES ASSUME NEW x \in Rows PROVE LastRow(x) \in 1..MaxTerms
  OBVIOUS
<1>1. x \in Seq(1..MaxTerms) /\ Len(x) <= MaxTerms
  BY RowsAreShort
<1>2. x # <<>> => Len(x) # 0
  BY <1>1
<1> QED BY <1>1, <1>2, BoundsType DEF LastRow
-----------------------------------------------------------------------------
(***************************************************************************)
(* The sessions' own steps.                                                *)
(***************************************************************************)
LEMMA ServerKept ==
  ASSUME ServerTyped, RowsBorn, NEW s \in TuiSessions,
         Change(s) \/ Shut(s) \/ Launch(s) \/ UNCHANGED serverVars
  PROVE  ServerTyped' /\ RowsBorn'
<1> USE BoundsType DEF ServerTyped, RowsBorn
<1>0. \A q \in TuiSessions : Len(panes[q]) \in Nat
  BY RowsAreShort
<1>1. CASE UNCHANGED serverVars
  BY <1>1 DEF serverVars
<1>2. CASE CreateTerminal(s)
  <2>1. /\ s \in up /\ born[s] < MaxTerms /\ turnsTaken' \in 0..ServerTurns /\ up' = up
        /\ born' = [born EXCEPT ![s] = born[s] + 1]
        /\ panes' = [panes EXCEPT ![s] = Append(panes[s], born[s] + 1)]
    BY <1>2 DEF CreateTerminal, Turn
  <2>2. /\ Append(panes[s], born[s] + 1) \in Rows
        /\ Len(Append(panes[s], born[s] + 1)) = Len(panes[s]) + 1
    <3>1. panes[s] \in Rows /\ Len(panes[s]) < MaxTerms /\ born[s] + 1 \in 1..MaxTerms
      BY <1>0, <2>1
    <3> QED BY <3>1, RowsGrow
  <2> QED BY <1>0, <2>1, <2>2
<1>3. CASE CloseTerminal(s)
  <2>1. PICK i \in DOMAIN panes[s] : panes' = [panes EXCEPT ![s] = RemoveAt(panes[s], i)]
    BY <1>3 DEF CloseTerminal
  <2>2. s \in up /\ UNCHANGED <<up, born>> /\ turnsTaken' \in 0..ServerTurns
    BY <1>3 DEF CloseTerminal, Turn
  <2>3. RemoveAt(panes[s], i) \in Rows /\ Len(RemoveAt(panes[s], i)) = Len(panes[s]) - 1
    BY RowsShrink
  <2> QED BY <1>0, <2>1, <2>2, <2>3
<1>4. CASE Shut(s) /\ s \in up
  <2>1. /\ up' = up \ {s} /\ panes' = [panes EXCEPT ![s] = <<>>] /\ born' = born
        /\ turnsTaken' \in 0..ServerTurns
    BY <1>4 DEF Shut, Turn
  <2> QED BY <2>1, EmptyRows
<1>5. CASE Launch(s) /\ s \notin up
  <2>1. /\ up' = up \cup {s} /\ born' = [born EXCEPT ![s] = 0] /\ panes' = panes
        /\ turnsTaken' \in 0..ServerTurns
    BY <1>5 DEF Launch, Turn
  <2> QED BY <1>5, <2>1, EmptyRows
<1> QED BY <1>1, <1>2, <1>3, <1>4, <1>5 DEF Change, Shut, Launch
-----------------------------------------------------------------------------
(***************************************************************************)
(* What the parts of a key's handler do to what is shown and pointed at.   *)
(***************************************************************************)
LEMMA RefreshApplies ==
  ASSUME ViewTyped, NEW s \in TuiSessions, NEW list \in Rows, NEW first \in BOOLEAN,
         ApplyRefresh(s, list, first)
  PROVE  ViewTyped' /\ snap'.of = s
<1>1. LastRow(list) \in 1..MaxTerms
  BY LastRowType
<1>2. snap' = [of |-> s, list |-> list] /\ last' = "fresh"
  BY DEF ApplyRefresh
<1>3. sel' \in 1..MaxTerms
  BY <1>1, BoundsType DEF ApplyRefresh, ViewTyped
<1> QED BY <1>2, <1>3 DEF ViewTyped, Snapshot

LEMMA SelectShows == ViewTyped /\ SelectRow => ViewTyped' /\ snap' = snap
<1> SUFFICES ASSUME ViewTyped, SelectRow PROVE ViewTyped' /\ snap' = snap
  OBVIOUS
<1>1. LastRow(snap.list) \in 1..MaxTerms
  BY LastRowType DEF ViewTyped, Snapshot
<1> QED BY <1>1, BoundsType DEF SelectRow, ViewTyped

LEMMA RefreshShows ==
  ASSUME ViewTyped, ServerTyped', session \in TuiSessions, Refresh
  PROVE  ViewTyped' /\ snap'.of \in {snap.of, session}
<1>1. CASE session \in up'
  <2>1. ApplyRefresh(session, panes'[session], last = "never")
    BY <1>1 DEF Refresh
  <2>2. panes'[session] \in Rows /\ (last = "never") \in BOOLEAN
    BY DEF ServerTyped
  <2> QED BY <2>1, <2>2, RefreshApplies
<1>2. CASE session \notin up'
  BY <1>2 DEF Refresh, viewVars, ViewTyped
<1> QED BY <1>1, <1>2

LEMMA FrontShorter ==
  ASSUME NEW S, NEW q \in Seq(S), q # <<>>
  PROVE  Front(q) \in Seq(S) /\ Len(Front(q)) = Len(q) - 1
<1>1. Len(q) \in Nat \ {0} /\ \A i \in 1..Len(q) : q[i] \in S
  BY EmptySeq, ElementOfSeq
<1>2. PICK n \in Nat : n = Len(q) - 1
  BY <1>1
<1>3. \A i \in 1..n : q[i] \in S
  BY <1>1, <1>2
<1>4. /\ SubSeq(q, 1, n) \in Seq(S)
      /\ Len(SubSeq(q, 1, n)) = IF 1 <= n THEN n - 1 + 1 ELSE 0
  BY <1>3, SubSeqProperties
<1> QED BY <1>2, <1>4 DEF Front

LEMMA ModesKept ==
  ASSUME ModeTyped,
         \/ \E o \in Overlays : OpenOverlay(o)
         \/ CloseOverlay \/ LeaveOverlays \/ RequestQuit \/ UNCHANGED modeVars
         \/ \E m \in Modes : GoTo(m)
  PROVE  ModeTyped'
<1> USE BoundsType DEF ModeTyped
<1>1. ASSUME NEW o \in Overlays, OpenOverlay(o) PROVE ModeTyped'
  <2>1. CASE UNCHANGED modeVars
    BY <2>1 DEF modeVars
  <2>2. CASE /\ Len(stack) < MaxOverlays /\ stack' = Append(stack, tuiMode) /\ tuiMode' = o
             /\ UNCHANGED quitPrev
    <3>1. stack' \in Seq(Modes) /\ Len(stack') = Len(stack) + 1
      BY <2>2, AppendProperties
    <3>2. Len(stack) \in Nat
      BY LenProperties
    <3> QED BY <2>2, <3>1, <3>2 DEF Modes
  <2> QED BY <1>1, <2>1, <2>2 DEF OpenOverlay
<1>2. CASE CloseOverlay
  <2>1. CASE stack = <<>>
    BY <1>2, <2>1 DEF CloseOverlay, Modes, Base
  <2>2. CASE stack # <<>>
    <3>1. Len(stack) \in Nat \ {0}
      BY <2>2, EmptySeq
    <3>2. \A i \in 1..Len(stack) : stack[i] \in Modes
      BY ElementOfSeq
    <3>3. Last(stack) \in Modes
      BY <3>1, <3>2 DEF Last
    <3>4. Front(stack) \in Seq(Modes) /\ Len(Front(stack)) = Len(stack) - 1
      BY <2>2, FrontShorter
    <3> QED BY <1>2, <2>2, <3>1, <3>3, <3>4 DEF CloseOverlay
  <2> QED BY <2>1, <2>2
<1>3. CASE LeaveOverlays
  <2>1. <<>> \in Seq(Modes) /\ Len(<<>>) = 0
    BY EmptySeq
  <2> QED BY <1>3, <2>1 DEF LeaveOverlays, Modes, Base
<1>4. CASE RequestQuit \/ UNCHANGED modeVars \/ \E m \in Modes : GoTo(m)
  BY <1>4 DEF RequestQuit, modeVars, GoTo, Modes
<1> QED BY <1>1, <1>2, <1>3, <1>4

\* The client goes on with its session, or it turns to another one, with no
\* worker out, no overlay open, and the loop told.
Stays == UNCHANGED targetVars /\ snap'.of \in {snap.of, session}
Switches ==
  /\ session' \in TuiSessions /\ bumped' = TRUE /\ fetch' = NoTui /\ tuiMode' = "navigate"
  /\ snap'.of \in {session', NoTui}

LEMMA StaysTyped == TargetTyped /\ (Stays \/ Switches) => TargetTyped'
BY DEF TargetTyped, Stays, Switches, targetVars

LEMMA RetargetTurns ==
  ASSUME ViewTyped, ModeTyped, ServerTyped', NEW s \in TuiSessions, Retarget(s)
  PROVE  ViewTyped' /\ ModeTyped' /\ (Stays \/ Switches)
<1>1. CASE s = session
  BY <1>1 DEF Retarget, viewVars, modeVars, ViewTyped, ModeTyped, Stays
<1>2. CASE s # session
  <2>1. session' = s /\ bumped' = TRUE /\ fetch' = NoTui /\ LeaveOverlays
    BY <1>2 DEF Retarget
  <2>2. ModeTyped' /\ tuiMode' = "navigate"
    BY <2>1, ModesKept DEF LeaveOverlays
  <2>3. CASE s \in up'
    <3>1. ApplyRefresh(s, panes'[s], TRUE)
      BY <1>2, <2>3 DEF Retarget
    <3>2. panes'[s] \in Rows
      BY DEF ServerTyped
    <3>3. ViewTyped' /\ snap'.of = s
      BY <3>1, <3>2, RefreshApplies
    <3> QED BY <2>1, <2>2, <3>3 DEF Switches
  <2>4. CASE s \notin up'
    <3>1. snap' = NoSnapshot /\ sel' = 1 /\ last' = "never"
      BY <1>2, <2>4 DEF Retarget
    <3>2. ViewTyped' /\ snap'.of = NoTui
      BY <3>1, EmptyRows, BoundsType DEF NoSnapshot, ViewTyped, Snapshot
    <3> QED BY <2>1, <2>2, <3>2 DEF Switches
  <2> QED BY <2>3, <2>4
<1> QED BY <1>1, <1>2
-----------------------------------------------------------------------------
(***************************************************************************)
(* The keys.                                                               *)
(***************************************************************************)
KeyReady == ServerTyped /\ RowsBorn /\ ViewTyped /\ ModeTyped /\ TargetTyped /\ InputTyped
KeyDone  == ServerTyped' /\ RowsBorn' /\ ViewTyped' /\ ModeTyped' /\ InputTyped' /\ (Stays \/ Switches)

LEMMA LeftAlone ==
  ASSUME KeyReady
  PROVE  /\ UNCHANGED serverVars => ServerTyped' /\ RowsBorn'
         /\ UNCHANGED viewVars => ViewTyped' /\ snap' = snap
         /\ UNCHANGED modeVars => ModeTyped'
         /\ UNCHANGED inputVars => InputTyped'
         /\ UNCHANGED targetVars /\ snap' = snap => Stays
BY DEF KeyReady, serverVars, viewVars, modeVars, inputVars, targetVars, ServerTyped, RowsBorn,
       ViewTyped, ModeTyped, InputTyped, Stays

LEMMA ReloadTyped == ServerTyped' /\ ReloadRows => listed' \subseteq TuiSessions
BY DEF ServerTyped, ReloadRows

LEMMA OpenedShows ==
  ASSUME KeyReady, Opened
  PROVE  ServerTyped' /\ RowsBorn' /\ ViewTyped' /\ snap'.of = session
<1>1. session \in TuiSessions
  BY DEF KeyReady, TargetTyped
<1>2. ServerTyped' /\ RowsBorn'
  BY <1>1, ServerKept DEF KeyReady, Opened, Change
<1>3. panes'[session] \in Rows /\ LastRow(panes'[session]) \in 1..MaxTerms
  BY <1>1, <1>2, LastRowType DEF ServerTyped
<1>4. sel' \in 1..MaxTerms
  BY <1>3, BoundsType DEF Opened
<1>5. snap' = [of |-> session, list |-> panes'[session]] /\ last' = "fresh"
  BY DEF Opened
<1>6. ViewTyped'
  BY <1>1, <1>3, <1>4, <1>5 DEF ViewTyped, Snapshot
<1> QED BY <1>2, <1>5, <1>6

LEMMA RefreshedAfter ==
  ASSUME KeyReady, Change(session) \/ UNCHANGED serverVars, Refresh, UNCHANGED targetVars
  PROVE  ServerTyped' /\ RowsBorn' /\ ViewTyped' /\ Stays
<1>1. session \in TuiSessions
  BY DEF KeyReady, TargetTyped
<1>2. ServerTyped' /\ RowsBorn'
  BY <1>1, ServerKept DEF KeyReady
<1>3. ViewTyped' /\ snap'.of \in {snap.of, session}
  BY <1>1, <1>2, RefreshShows DEF KeyReady
<1> QED BY <1>2, <1>3 DEF Stays

LEMMA ShortcutKept == KeyReady /\ Shortcut => KeyDone
<1> SUFFICES ASSUME KeyReady, Shortcut PROVE KeyDone
  OBVIOUS
<1> USE DEF KeyReady, KeyDone
<1>1. CASE /\ \E o \in Overlays \ {"sessions"} : OpenOverlay(o)
           /\ UNCHANGED <<serverVars, targetVars, viewVars, inputVars>>
  BY <1>1, ModesKept, LeftAlone
<1>2. CASE /\ OpenOverlay("sessions") /\ UNCHANGED serverVars /\ ReloadRows
           /\ UNCHANGED <<targetVars, viewVars, screen, prompt>>
  <2>1. ModeTyped'
    BY <1>2, ModesKept DEF Overlays
  <2> QED BY <1>2, <2>1, LeftAlone, ReloadTyped DEF InputTyped
<1>3. CASE RequestQuit /\ UNCHANGED <<serverVars, targetVars, viewVars, inputVars>>
  BY <1>3, ModesKept, LeftAlone
<1>4. CASE /\ screen' \in {"terminal", "panel"}
           /\ UNCHANGED <<serverVars, targetVars, viewVars, modeVars, prompt, listed>>
  BY <1>4, LeftAlone DEF InputTyped
<1>5. CASE /\ prompt' = "other"
           /\ UNCHANGED <<serverVars, targetVars, viewVars, modeVars, screen, listed>>
  BY <1>5, LeftAlone DEF InputTyped
<1>6. CASE /\ Change(session) \/ UNCHANGED serverVars
           /\ Refresh /\ UNCHANGED <<targetVars, modeVars, inputVars>>
  BY <1>6, LeftAlone, RefreshedAfter
<1>7. CASE SelectRow /\ UNCHANGED <<serverVars, targetVars, modeVars, inputVars>>
  BY <1>7, LeftAlone, SelectShows
<1> QED BY <1>1, <1>2, <1>3, <1>4, <1>5, <1>6, <1>7 DEF Shortcut

LEMMA LaunchTurns ==
  ASSUME KeyReady, NEW s \in TuiSessions, Launch(s) \/ UNCHANGED serverVars, Retarget(s)
  PROVE  ServerTyped' /\ RowsBorn' /\ ViewTyped' /\ ModeTyped' /\ (Stays \/ Switches)
<1>1. ServerTyped' /\ RowsBorn'
  BY ServerKept DEF KeyReady
<1> QED BY <1>1, RetargetTurns DEF KeyReady

LEMMA PromptKept == KeyReady /\ PromptKey => KeyDone
<1> SUFFICES ASSUME KeyReady, PromptKey PROVE KeyDone
  OBVIOUS
<1> USE DEF KeyReady, KeyDone
<1>0. InputTyped'
  BY DEF PromptKey, InputTyped
<1>1. CASE UNCHANGED <<serverVars, targetVars, viewVars, modeVars>>
  BY <1>0, <1>1, LeftAlone
<1>2. CASE Change(session) /\ Refresh /\ UNCHANGED <<targetVars, modeVars>>
  BY <1>0, <1>2, LeftAlone, RefreshedAfter
<1>3. CASE \E s \in TuiSessions : Launch(s) /\ Retarget(s)
  BY <1>0, <1>3, LaunchTurns
<1> QED BY <1>1, <1>2, <1>3 DEF PromptKey

LEMMA SessionsKept == KeyReady /\ SessionsKey => KeyDone
<1> SUFFICES ASSUME KeyReady, SessionsKey PROVE KeyDone
  OBVIOUS
<1> USE DEF KeyReady, KeyDone
<1>1. CASE CloseOverlay /\ UNCHANGED <<serverVars, targetVars, viewVars, inputVars>>
  BY <1>1, LeftAlone, ModesKept
<1>2. CASE \E s \in listed : UNCHANGED serverVars /\ Retarget(s) /\ UNCHANGED inputVars
  <2>1. PICK s \in TuiSessions : UNCHANGED serverVars /\ Retarget(s) /\ UNCHANGED inputVars
    BY <1>2 DEF InputTyped
  <2> QED BY <2>1, LaunchTurns, LeftAlone
<1>3. CASE \E s \in TuiSessions : Launch(s) /\ Retarget(s) /\ UNCHANGED inputVars
  BY <1>3, LaunchTurns, LeftAlone
<1>4. CASE /\ UNCHANGED serverVars \/ \E s \in TuiSessions : Shut(s)
           /\ ReloadRows /\ UNCHANGED <<targetVars, viewVars, modeVars, screen, prompt>>
  <2>1. ServerTyped' /\ RowsBorn'
    BY <1>4, LeftAlone, ServerKept
  <2>2. InputTyped'
    BY <1>4, <2>1, ReloadTyped DEF InputTyped
  <2> QED BY <1>4, <2>1, <2>2, LeftAlone
<1>5. CASE /\ prompt' = "session"
           /\ UNCHANGED <<serverVars, targetVars, viewVars, modeVars, screen, listed>>
  BY <1>5, LeftAlone DEF InputTyped
<1> QED BY <1>1, <1>2, <1>3, <1>4, <1>5 DEF SessionsKey

LEMMA WorktreesKept == KeyReady /\ WorktreesKey => KeyDone
<1> SUFFICES ASSUME KeyReady, WorktreesKey PROVE KeyDone
  OBVIOUS
<1> USE DEF KeyReady, KeyDone
<1>1. CASE CloseOverlay /\ UNCHANGED <<serverVars, targetVars, viewVars, inputVars>>
  BY <1>1, LeftAlone, ModesKept
<1>2. CASE OpenCheckout
  BY <1>2, LeftAlone, ModesKept, OpenedShows DEF OpenCheckout, Stays
<1>3. CASE StageFolder
  BY <1>3, LeftAlone, ModesKept DEF StageFolder, InputTyped
<1>4. CASE SwitchBranch
  BY <1>4, LeftAlone, ModesKept, RefreshedAfter DEF SwitchBranch
<1> QED BY <1>1, <1>2, <1>3, <1>4 DEF WorktreesKey

LEMMA PaletteKept == KeyReady /\ PaletteKey => KeyDone
<1> SUFFICES ASSUME KeyReady, PaletteKey PROVE KeyDone
  OBVIOUS
<1> USE DEF KeyReady, KeyDone
<1>0. ModeTyped' /\ UNCHANGED <<targetVars, prompt, listed>>
  BY ModesKept DEF PaletteKey
<1>1. CASE SelectRow /\ UNCHANGED <<serverVars, screen>>
  BY <1>0, <1>1, LeftAlone, SelectShows DEF InputTyped
<1>2. CASE screen' = "panel" /\ UNCHANGED <<serverVars, viewVars>>
  BY <1>0, <1>2, LeftAlone DEF InputTyped
<1>3. CASE Opened /\ UNCHANGED screen
  BY <1>0, <1>3, OpenedShows DEF InputTyped, Stays
<1>4. CASE UNCHANGED <<serverVars, viewVars, screen>>
  BY <1>0, <1>4, LeftAlone DEF InputTyped
<1> QED BY <1>1, <1>2, <1>3, <1>4 DEF PaletteKey, SearchCandidate

LEMMA ModeKeyKept == KeyReady /\ ModeKey => KeyDone
<1> SUFFICES ASSUME KeyReady, ModeKey PROVE KeyDone
  OBVIOUS
<1>1. CASE SessionsKey \/ WorktreesKey \/ PaletteKey
  BY <1>1, SessionsKept, WorktreesKept, PaletteKept
<1> USE DEF KeyReady, KeyDone
<1>2. CASE ConfirmKey
  <2>1. ModeTyped'
    BY <1>2, ModesKept DEF ConfirmKey, ModeTyped
  <2> QED BY <1>2, <2>1, LeftAlone DEF ConfirmKey
<1>3. CASE CloseOverlay /\ UNCHANGED <<serverVars, targetVars, viewVars, inputVars>>
  BY <1>3, LeftAlone, ModesKept
<1>4. CASE PanelKey /\ UNCHANGED <<serverVars, targetVars, viewVars, listed>>
  <2>1. ModeTyped' /\ InputTyped'
    BY <1>4, ModesKept DEF PanelKey, Overlays, InputTyped
  <2> QED BY <1>4, <2>1, LeftAlone
<1>5. CASE NavigationKey /\ UNCHANGED <<targetVars, inputVars>>
  <2>1. CASE (RequestQuit \/ OpenOverlay("help")) /\ UNCHANGED <<serverVars, viewVars>>
    BY <1>5, <2>1, LeftAlone, ModesKept DEF Overlays
  <2>2. CASE UNCHANGED serverVars /\ Refresh /\ UNCHANGED modeVars
    BY <1>5, <2>2, LeftAlone, RefreshedAfter
  <2>3. CASE SelectRow /\ UNCHANGED <<serverVars, modeVars>>
    BY <1>5, <2>3, LeftAlone, SelectShows
  <2>4. CASE GoTo("attach") /\ UNCHANGED <<serverVars, viewVars>>
    BY <1>5, <2>4, LeftAlone, ModesKept DEF Modes, Base
  <2> QED BY <1>5, <2>1, <2>2, <2>3, <2>4 DEF NavigationKey
<1> QED BY <1>1, <1>2, <1>3, <1>4, <1>5 DEF ModeKey
-----------------------------------------------------------------------------
(***************************************************************************)
(* The inductive invariant: a worker is out for the session only, and a    *)
(* live terminal of another session is one that the loop has been told of  *)
(* and will drop before it looks at the next key.                          *)
(***************************************************************************)
OfTarget ==
  /\ SnapshotOfTarget
  /\ fetch # NoTui => fetch.of = session
  /\ bumped => tuiLoop = "refresh" /\ tuiMode = "navigate"
  /\ liveTerm # NoTui /\ ~bumped => liveTerm.of = session

TuiInv == TuiTypeOK /\ RowsBorn /\ OfTarget

LEMMA TuiInvInit == TuiInit => TuiInv
<1> SUFFICES ASSUME TuiInit PROVE TuiInv
  OBVIOUS
<1> USE BoundsType, TuiAssumption DEF TuiInit
<1>1. <<1>> \in Rows /\ Len(<<1>>) = 1 /\ <<>> \in Rows /\ Len(<<>>) = 0
  <2>1. <<1>> \in Seq(1..MaxTerms) /\ Len(<<1>>) = 1 /\ 1 <= MaxTerms
    OBVIOUS
  <2>2. PICK x : x = <<1>>
    OBVIOUS
  <2>3. x \in Rows
    BY <2>1, <2>2, RowsAreShort
  <2> QED BY <2>1, <2>2, <2>3, EmptyRows
<1>2. panes \in [TuiSessions -> Rows] /\ \A s \in TuiSessions : Len(panes[s]) \in 0..1
  BY <1>1
<1>3. born \in [TuiSessions -> 0..MaxTerms] /\ \A s \in TuiSessions : born[s] = Len(panes[s])
  BY <1>2
<1>4. ServerTyped /\ RowsBorn
  <2>1. up \subseteq TuiSessions /\ turnsTaken \in 0..ServerTurns
    OBVIOUS
  <2>2. \A s \in TuiSessions : Len(panes[s]) <= born[s]
    BY <1>2, <1>3
  <2> QED BY <1>2, <1>3, <2>1, <2>2 DEF ServerTyped, RowsBorn
<1>5. ViewTyped /\ snap.of = session
  <2>1. panes[FirstSession] \in Rows
    BY <1>2
  <2> QED BY <2>1 DEF ViewTyped, Snapshot
<1>6. ModeTyped
  <2>1. stack \in Seq(Modes) /\ Len(stack) = 0
    BY EmptySeq
  <2> QED BY <2>1 DEF ModeTyped, Modes, Base
<1>7. TargetTyped /\ InputTyped /\ OfTarget
  BY <1>5 DEF TargetTyped, InputTyped, OfTarget, SnapshotOfTarget
<1> QED BY <1>4, <1>5, <1>6, <1>7, TuiTypeParts DEF TuiInv

\* The terminal that is attached is the selected one, of the session.
LEMMA EnsureLiveType ==
  ASSUME liveTerm \in {NoTui} \cup [of : TuiSessions, term : 1..MaxTerms],
         ViewTyped', TargetTyped', EnsureLive
  PROVE  /\ liveTerm' \in {NoTui} \cup [of : TuiSessions, term : 1..MaxTerms]
         /\ liveTerm' = liveTerm \/ liveTerm'.of = session'
<1>1. CASE UNCHANGED liveTerm
  BY <1>1
<1>2. CASE ~UNCHANGED liveTerm
  <2>1. Selected' # 0 /\ liveTerm' = [of |-> session', term |-> Selected']
    BY <1>2 DEF EnsureLive
  <2>2. PICK list \in Seq(1..MaxTerms) : list = snap'.list
    BY RowsAreShort DEF ViewTyped, Snapshot
  <2>3. Selected' \in 1..MaxTerms
    <3>1. Selected' = IF sel' \in DOMAIN list THEN list[sel'] ELSE 0
      BY <2>2 DEF Selected
    <3>2. \A i \in DOMAIN list : list[i] \in 1..MaxTerms
      <4>1. DOMAIN list = 1..Len(list)
        BY LenProperties
      <4>2. \A i \in 1..Len(list) : list[i] \in 1..MaxTerms
        BY ElementOfSeq, Zenon
      <4> QED BY <4>1, <4>2
    <3> QED BY <2>1, <3>1, <3>2
  <2> QED BY <2>1, <2>3 DEF TargetTyped
<1> QED BY <1>1, <1>2

LEMMA HandleKeyKeeps == TuiInv /\ HandleKey => TuiInv'
<1> SUFFICES ASSUME TuiInv, HandleKey PROVE TuiInv'
  OBVIOUS
<1>1. KeyReady /\ tuiLoop = "keys" /\ tuiLoop' = "refresh" /\ ~bumped
  BY TuiTypeParts DEF TuiInv, KeyReady, HandleKey, OfTarget
<1>2. KeyDone
  BY <1>1, ShortcutKept, PromptKept, ModeKeyKept DEF HandleKey
<1>3. TargetTyped'
  BY <1>1, <1>2, StaysTyped DEF KeyReady, KeyDone
<1>4. liveTerm \in {NoTui} \cup [of : TuiSessions, term : 1..MaxTerms]
  BY DEF TuiInv, TuiTypeOK
<1>5. /\ liveTerm' \in {NoTui} \cup [of : TuiSessions, term : 1..MaxTerms]
      /\ liveTerm' = liveTerm \/ liveTerm'.of = session'
  BY <1>2, <1>3, <1>4, EnsureLiveType DEF HandleKey, KeyDone
<1>6. OfTarget'
  <2>1. CASE Stays
    BY <1>1, <1>5, <2>1 DEF TuiInv, OfTarget, SnapshotOfTarget, Stays, targetVars
  <2>2. CASE Switches
    BY <1>1, <2>2 DEF OfTarget, SnapshotOfTarget, Switches
  <2> QED BY <1>2, <2>1, <2>2 DEF KeyDone
<1> QED BY <1>1, <1>2, <1>3, <1>5, <1>6, TuiTypedNext DEF TuiInv, KeyDone

LEMMA TickKeeps == TuiInv /\ Tick => TuiInv'
<1> SUFFICES ASSUME TuiInv, Tick PROVE TuiInv'
  OBVIOUS
<1>1. KeyReady /\ OfTarget /\ RowsBorn
  BY TuiTypeParts DEF TuiInv, KeyReady
<1>2. /\ UNCHANGED serverVars /\ UNCHANGED modeVars /\ UNCHANGED inputVars /\ session' = session
      /\ bumped' = FALSE /\ tuiLoop' = "keys"
  BY DEF Tick
<1>3. ServerTyped' /\ RowsBorn' /\ ModeTyped' /\ InputTyped'
  BY <1>1, <1>2, LeftAlone
<1>4. ViewTyped' /\ TargetTyped' /\ SnapshotOfTarget' /\ (fetch' # NoTui => fetch'.of = session')
  <2> USE DEF KeyReady, OfTarget, TargetTyped, SnapshotOfTarget
  <2>1. CASE fetch # NoTui /\ fetch.stage = "waiting" /\ UNCHANGED <<viewVars, fetch>>
    BY <1>1, <1>2, <2>1, LeftAlone
  <2>2. CASE /\ fetch # NoTui /\ last' = "fresh" /\ fetch' = NoTui /\ UNCHANGED <<snap, sel>>
    BY <1>1, <1>2, <2>2 DEF ViewTyped
  <2>3. CASE /\ fetch # NoTui /\ fetch' = NoTui
             /\ ApplyRefresh(fetch.of, fetch.list, last = "never")
    <3>1. fetch.of \in TuiSessions /\ fetch.list \in Rows /\ (last = "never") \in BOOLEAN
      BY <1>1, <2>3
    <3>2. ViewTyped' /\ snap'.of = fetch.of
      BY <1>1, <2>3, <3>1, RefreshApplies
    <3> QED BY <1>1, <1>2, <2>3, <3>2
  <2>4. CASE SpawnIfDue
    <3>1. fetch' = NoTui \/ fetch' = [of |-> session, stage |-> "waiting", list |-> <<>>]
      BY <2>4 DEF SpawnIfDue
    <3>2. ViewTyped' /\ snap' = snap
      BY <1>1, <2>4, LeftAlone DEF SpawnIfDue
    <3>3. PICK none \in Rows : none = <<>>
      BY EmptyRows
    <3>4. session \in TuiSessions /\ session' = session /\ bumped' \in BOOLEAN
      BY <1>1, <1>2
    <3>5. fetch' = NoTui \/ fetch' = [of |-> session, stage |-> "waiting", list |-> none]
      BY <3>1, <3>3
    <3>6. fetch' # NoTui => fetch'.of = session'
      BY <3>4, <3>5
    <3>7. TargetTyped'
      BY <3>4, <3>5
    <3> QED BY <1>1, <1>2, <3>2, <3>6, <3>7
  <2> QED BY <2>1, <2>2, <2>3, <2>4 DEF Tick, PollRefresh
<1>5. liveTerm' = NoTui \/ (liveTerm' = liveTerm /\ ~bumped)
  BY DEF Tick
<1>6. liveTerm' \in {NoTui} \cup [of : TuiSessions, term : 1..MaxTerms]
  BY <1>5 DEF TuiInv, TuiTypeOK
<1>7. OfTarget'
  BY <1>1, <1>2, <1>4, <1>5 DEF OfTarget
<1> QED BY <1>2, <1>3, <1>4, <1>6, <1>7, TuiTypedNext DEF TuiInv

LEMMA TuiInvStep == TuiInv /\ [TuiNext]_tuiVars => TuiInv'
<1> SUFFICES ASSUME TuiInv, [TuiNext]_tuiVars PROVE TuiInv'
  OBVIOUS
<1>0. KeyReady /\ OfTarget /\ RowsBorn
  BY TuiTypeParts DEF TuiInv, KeyReady
<1>A. /\ liveTerm \in {NoTui} \cup [of : TuiSessions, term : 1..MaxTerms]
      /\ tuiLoop \in {"keys", "refresh", "over"}
  BY DEF TuiInv, TuiTypeOK
<1>1. CASE Elsewhere
  <2>1. ServerTyped' /\ RowsBorn'
    BY <1>0, <1>1, ServerKept DEF Elsewhere, KeyReady
  <2>2. /\ UNCHANGED viewVars /\ UNCHANGED modeVars /\ UNCHANGED inputVars
        /\ UNCHANGED targetVars /\ UNCHANGED <<liveTerm, tuiLoop>>
    BY <1>1 DEF Elsewhere
  <2>3. ViewTyped' /\ ModeTyped' /\ InputTyped' /\ TargetTyped'
    BY <1>0, <2>2, LeftAlone DEF TargetTyped, targetVars, KeyReady
  <2>4. OfTarget'
    BY <1>0, <2>2 DEF OfTarget, SnapshotOfTarget, viewVars, modeVars, targetVars
  <2> QED BY <1>A, <2>1, <2>2, <2>3, <2>4, TuiTypedNext DEF TuiInv
<1>2. CASE WorkerReplies
  <2>1. PICK f \in [of : TuiSessions, stage : {"waiting", "failed", "done"}, list : Rows] :
          fetch' = f /\ f.of = fetch.of
    <3>1. fetch \in [of : TuiSessions, stage : {"waiting", "failed", "done"}, list : Rows]
      BY <1>0, <1>2 DEF WorkerReplies, KeyReady, TargetTyped
    <3>2. panes[fetch.of] \in Rows
      BY <1>0, <3>1 DEF KeyReady, ServerTyped
    <3>3. \/ fetch' = [of |-> fetch.of, stage |-> "done", list |-> panes[fetch.of]]
          \/ fetch' = [of |-> fetch.of, stage |-> "failed", list |-> fetch.list]
      BY <1>2, <3>1 DEF WorkerReplies
    <3> QED BY <3>1, <3>2, <3>3
  <2>2. /\ UNCHANGED viewVars /\ UNCHANGED modeVars /\ UNCHANGED inputVars
        /\ UNCHANGED serverVars /\ UNCHANGED <<session, bumped, liveTerm, tuiLoop>>
    BY <1>2 DEF WorkerReplies
  <2>3. ServerTyped' /\ RowsBorn' /\ ViewTyped' /\ ModeTyped' /\ InputTyped' /\ TargetTyped'
    BY <1>0, <2>1, <2>2, LeftAlone DEF TargetTyped, KeyReady
  <2>4. OfTarget'
    BY <1>0, <1>2, <2>1, <2>2 DEF OfTarget, SnapshotOfTarget, viewVars, modeVars, WorkerReplies
  <2> QED BY <1>A, <2>2, <2>3, <2>4, TuiTypedNext DEF TuiInv
<1>3. CASE IntervalElapses
  <2>1. UNCHANGED serverVars /\ UNCHANGED modeVars /\ UNCHANGED inputVars /\ UNCHANGED targetVars
    BY <1>3 DEF IntervalElapses
  <2>2. UNCHANGED <<liveTerm, tuiLoop, snap, sel>> /\ last' = "stale"
    BY <1>3 DEF IntervalElapses
  <2>3. ServerTyped' /\ RowsBorn' /\ ViewTyped' /\ ModeTyped' /\ InputTyped' /\ TargetTyped'
    BY <1>0, <2>1, <2>2, LeftAlone DEF TargetTyped, targetVars, KeyReady, ViewTyped
  <2>4. OfTarget'
    BY <1>0, <2>1, <2>2 DEF OfTarget, SnapshotOfTarget, modeVars, targetVars
  <2> QED BY <1>A, <2>2, <2>3, <2>4, TuiTypedNext DEF TuiInv
<1>4. CASE TypeKey \/ NoKey \/ Quit \/ UNCHANGED tuiVars
  <2>1. /\ UNCHANGED serverVars /\ UNCHANGED modeVars /\ UNCHANGED inputVars
        /\ UNCHANGED targetVars /\ UNCHANGED viewVars
        /\ (tuiLoop' \in {"refresh", "over"} /\ tuiLoop = "keys") \/ tuiLoop' = tuiLoop
    BY <1>4 DEF TypeKey, NoKey, Quit, tuiVars
  <2>2. ServerTyped' /\ RowsBorn' /\ ViewTyped' /\ ModeTyped' /\ InputTyped' /\ TargetTyped'
    BY <1>0, <2>1, LeftAlone DEF TargetTyped, targetVars, KeyReady
  <2>3. liveTerm \in {NoTui} \cup [of : TuiSessions, term : 1..MaxTerms]
    BY DEF TuiInv, TuiTypeOK
  <2>4. /\ liveTerm' \in {NoTui} \cup [of : TuiSessions, term : 1..MaxTerms]
        /\ liveTerm' = liveTerm \/ liveTerm'.of = session'
    BY <1>4, <2>2, <2>3, EnsureLiveType DEF TypeKey, NoKey, Quit, tuiVars
  <2>5. OfTarget'
    BY <1>0, <2>1, <2>4 DEF OfTarget, SnapshotOfTarget, viewVars, modeVars, targetVars
  <2>6. tuiLoop' \in {"keys", "refresh", "over"}
    BY <2>1 DEF TuiInv, TuiTypeOK
  <2> QED BY <2>2, <2>4, <2>5, <2>6, TuiTypedNext DEF TuiInv
<1>5. CASE DetachKey
  <2>1. /\ UNCHANGED serverVars /\ UNCHANGED inputVars /\ UNCHANGED targetVars
        /\ UNCHANGED viewVars /\ liveTerm' = NoTui /\ tuiLoop = "keys" /\ tuiLoop' = "refresh"
    BY <1>5 DEF DetachKey
  <2>2. ModeTyped'
    BY <1>0, <1>5, ModesKept DEF DetachKey, Modes, Base, KeyReady
  <2>3. ServerTyped' /\ RowsBorn' /\ ViewTyped' /\ InputTyped' /\ TargetTyped'
    BY <1>0, <2>1, LeftAlone DEF TargetTyped, targetVars, KeyReady
  <2>4. OfTarget'
    BY <1>0, <2>1 DEF OfTarget, SnapshotOfTarget, viewVars, targetVars
  <2> QED BY <1>A, <2>1, <2>2, <2>3, <2>4, TuiTypedNext DEF TuiInv
<1> QED BY <1>1, <1>2, <1>3, <1>4, <1>5, HandleKeyKeeps, TickKeeps DEF TuiNext, Keys

\* Every state of the client is well-formed, whatever the sessions do.
THEOREM TuiTypeCorrect == TuiSpec => []TuiTypeOK
<1>1. TuiInv => TuiTypeOK
  BY DEF TuiInv
<1> QED BY <1>1, TuiInvInit, TuiInvStep, PTL DEF TuiSpec

\* What is shown is of the session the client points at, whenever a worker of an
\* earlier target answers (retarget_session, poll_refresh).
THEOREM ShowsItsTarget == TuiSpec => []SnapshotOfTarget
<1>1. TuiInv => SnapshotOfTarget
  BY DEF TuiInv, OfTarget
<1> QED BY <1>1, TuiInvInit, TuiInvStep, PTL DEF TuiSpec

\* No key reaches a terminal of another session, although ids are not unique
\* across sessions (run_interactive, ensure_live_terminal).
THEOREM TypesIntoItsTarget == TuiSpec => []TypedIntoTarget
<1>1. TuiInv => TypedIntoTarget
  BY DEF TuiInv, OfTarget, TypedIntoTarget, InTerminal
<1> QED BY <1>1, TuiInvInit, TuiInvStep, PTL DEF TuiSpec

-----------------------------------------------------------------------------
(***************************************************************************)
(* A behaviour of the composition is one of each component, whose theorems *)
(* therefore hold of it.                                                   *)
(***************************************************************************)
LEMMA ServicesCompose ==
  ServicesSpec => /\ PromoteSpec /\ SessionSpec /\ AuthSpec /\ NotesSpec /\ EditSpec
                  /\ LspSpec /\ TuiSpec
<1>1. ServicesInit => /\ PromoteInit /\ SessionInit /\ AuthInit /\ NotesInit /\ EditInit
                      /\ LspInit /\ TuiInit
  BY DEF ServicesInit
<1>2. ASSUME [ServicesNext]_serviceVars
      PROVE  /\ [PromoteNext]_promoteVars /\ [SessionNext]_sessionVars /\ [AuthNext]_authVars
             /\ [NotesNext]_noteVars /\ [EditNext]_editVars /\ [LspNext]_lspVars
             /\ [TuiNext]_tuiVars
  BY <1>2 DEF ServicesNext, serviceVars
<1> QED BY <1>1, <1>2, PTL DEF ServicesSpec, PromoteSpec, SessionSpec, AuthSpec, NotesSpec, EditSpec,
                               LspSpec, TuiSpec

(***************************************************************************)
(* The seven components stay well typed, for every set of requests and     *)
(* every bound: sessions, tokens and notes within their limits, records    *)
(* whole, and no id of a backend or server that was never started.         *)
(***************************************************************************)
THEOREM ServicesTypeCorrect == ServicesSpec => []ServicesTypeOK
BY ServicesCompose, PromoteTypeCorrect, SessionTypeCorrect, AuthTypeCorrect, NotesTypeCorrect,
   EditTypeCorrect, LspTypeCorrect, TuiTypeCorrect, PTL DEF ServicesTypeOK
=============================================================================
