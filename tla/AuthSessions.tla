---------------------------- MODULE AuthSessions ----------------------------
(***************************************************************************)
(* The login sessions of the web server and the file they survive restarts *)
(* in (src/src/auth.rs: AuthConfig; src/src/main.rs: login, logout, the    *)
(* session part of update_server_settings, persist_session_token;          *)
(* src/src/server_settings.rs: the persisted record).                      *)
(*                                                                         *)
(* A token is a number; what is left out is how it is minted and compared, *)
(* and the cookie that carries it.                                         *)
(***************************************************************************)
EXTENDS Integers, Sequences, FiniteSets, SequencesExt, SequenceParts

CONSTANTS
  MaxSessions, \* MAX_SESSIONS (8 in the code)
  Tokens,      \* bound on the tokens minted
  Epochs,      \* bound on credential changes and restarts
  Policies,    \* bound on the revision at which the policy is changed
  Saves        \* bound on the handlers and tasks that save at once

ASSUME AuthAssumption ==
  /\ MaxSessions \in Nat \ {0} /\ Tokens \in Nat /\ Epochs \in Nat
  /\ Policies \in Nat /\ Saves \in Nat

VARIABLES
  live,     \* sessions: the tokens, least recently used first
  lapsed,   \* the tokens whose expires_at has passed
  minted,   \* how many tokens have been minted
  rev,      \* sessions_rev
  epoch,    \* how many times sessions_rev has started again
  saving,   \* handlers about to call persist_session_token
  writers,  \* the tasks it has spawned
  sidecar,  \* the tokens in the session-token file
  raced     \* has a writer been let through with an outdated set, or a set
            \* changed under a writer that was let through?

authVars == <<live, lapsed, minted, rev, epoch, saving, writers, sidecar, raced>>
-----------------------------------------------------------------------------
TokenSeqs == Seq(1 .. Tokens)

\* Those that have not lapsed.
Valid(tokens) == Without(tokens, lapsed)

Writers == [rev : Nat, epoch : Nat, kept : TokenSeqs, checked : BOOLEAN]

\* One more handler that will save.
BeginSave == saving + Cardinality(writers) < Saves /\ saving' = saving + 1

AuthTypeOK ==
  /\ live \in TokenSeqs /\ Len(live) <= MaxSessions /\ IsInjective(live)
  /\ sidecar \in TokenSeqs
  /\ minted \in 0 .. Tokens /\ lapsed \subseteq 1 .. minted
  /\ rev \in Nat /\ epoch \in 0 .. Epochs /\ saving \in Nat
  /\ writers \subseteq Writers /\ raced \in BOOLEAN

AuthInit ==
  /\ live = <<>> /\ sidecar = <<>> /\ lapsed = {} /\ minted = 0
  /\ rev = 0 /\ epoch = 0 /\ saving = 0 /\ writers = {} /\ raced = FALSE
-----------------------------------------------------------------------------
\* Every change of membership is a race for a writer that has been let through.
Membership(tokens, n) ==
  /\ live' = tokens /\ rev' = n
  /\ raced' = (raced \/ (ToSet(tokens) # ToSet(live) /\ \E w \in writers : w.checked))

\* Mutant: the new session is not counted when one is evicted.
IssueUncounted ==
  LET kept   == Valid(live)
      issued == Append(kept, minted + 1)
      purges == IF kept = live THEN 0 ELSE 1
  IN  Membership(IF Len(kept) > MaxSessions THEN Tail(issued) ELSE issued, rev + purges + 1)

\* issue_session: purge what has lapsed, append, evict the least recently used.
Issue ==
  LET kept   == Valid(live)
      issued == Append(kept, minted + 1)
      purges == IF kept = live THEN 0 ELSE 1
  IN  Membership(IF Len(issued) > MaxSessions THEN Tail(issued) ELSE issued, rev + purges + 1)

Login ==
  /\ minted < Tokens /\ minted' = minted + 1
  /\ Issue
  /\ BeginSave
  /\ UNCHANGED <<lapsed, epoch, writers, sidecar>>

\* logout revokes the caller's own session; one that is gone by then changes
\* nothing.
Logout(t) ==
  /\ Membership(Without(live, {t}), IF t \in ToSet(live) THEN rev + 1 ELSE rev)
  /\ BeginSave
  /\ UNCHANGED <<lapsed, minted, epoch, writers, sidecar>>

\* An authorized request moves its session to the end (find_valid_session).
Touch(t) ==
  /\ t \in ToSet(Valid(live))
  /\ live' = Append(Without(live, {t}), t)
  /\ UNCHANGED <<lapsed, minted, rev, epoch, saving, writers, sidecar, raced>>

\* The clock passes a session's expires_at.
Lapse(t) ==
  /\ lapsed' = lapsed \cup {t}
  /\ UNCHANGED <<live, minted, rev, epoch, saving, writers, sidecar, raced>>

\* A settings save that changes the credentials: a fresh AuthConfig, whose
\* revision starts again, is reset and issues one session to the caller.
ChangeCredentials ==
  /\ minted < Tokens /\ epoch < Epochs
  /\ minted' = minted + 1 /\ epoch' = epoch + 1
  /\ Membership(<<minted + 1>>, 2)
  /\ BeginSave
  /\ UNCHANGED <<lapsed, writers, sidecar>>

\* One that changes the expiry policy anchors every session anew, those that
\* have lapsed unnoticed as well (reanchor_expiries).
ChangePolicy ==
  /\ live # <<>> /\ rev < Policies
  /\ lapsed' = lapsed \ ToSet(live) /\ rev' = rev + 1
  /\ BeginSave
  /\ UNCHANGED <<live, minted, epoch, writers, sidecar, raced>>
-----------------------------------------------------------------------------
\* persist_session_token: the set and its revision under one lock, then a task.
SpawnWriter ==
  /\ saving > 0 /\ saving' = saving - 1
  /\ writers' = writers \cup {[rev |-> rev, epoch |-> epoch, kept |-> live, checked |-> FALSE]}
  /\ UNCHANGED <<live, lapsed, minted, rev, epoch, sidecar, raced>>

\* Mutant: the revision is not looked at again.
CheckNothing(w) ==
  /\ w \in writers /\ ~w.checked
  /\ writers' = (writers \ {w}) \cup {[w EXCEPT !.checked = TRUE]}
  /\ UNCHANGED <<live, lapsed, minted, rev, epoch, saving, sidecar, raced>>

\* The task goes on if the revision is still its own.
CheckRevision(w) ==
  /\ w \in writers /\ ~w.checked
  /\ writers' = (writers \ {w}) \cup (IF rev = w.rev THEN {[w EXCEPT !.checked = TRUE]} ELSE {})
  /\ raced' = (raced \/ (rev = w.rev /\ ToSet(w.kept) # ToSet(live)))
  /\ UNCHANGED <<live, lapsed, minted, rev, epoch, saving, sidecar>>

\* save_persisted_session_token replaces the file.
WriteFile(w) ==
  /\ w \in writers /\ w.checked
  /\ writers' = writers \ {w} /\ sidecar' = w.kept
  /\ UNCHANGED <<live, lapsed, minted, rev, epoch, saving, raced>>

\* The server starts again from the file, without what has lapsed in it.
Restart ==
  /\ epoch < Epochs /\ epoch' = epoch + 1
  /\ live' = Valid(sidecar) /\ rev' = 1
  /\ saving' = 0 /\ writers' = {}
  /\ UNCHANGED <<lapsed, minted, sidecar, raced>>
-----------------------------------------------------------------------------
AuthNext ==
  \/ Login \/ ChangeCredentials \/ ChangePolicy \/ SpawnWriter \/ Restart
  \/ \E t \in 1 .. minted : Logout(t) \/ Touch(t) \/ Lapse(t)
  \/ \E w \in writers : CheckRevision(w) \/ WriteFile(w)

AuthSpec == AuthInit /\ [][AuthNext]_authVars
-----------------------------------------------------------------------------
(***************************************************************************)
(* Unless a set changes in the window between a writer's check and its     *)
(* write, or an old writer meets a counter that has started again, the     *)
(* sidecar holds the live sessions once the writers are done               *)
(* (persist_session_token).                                                *)
(***************************************************************************)
SidecarConverges ==
  ~raced /\ saving = 0 /\ writers = {} => ToSet(sidecar) \ lapsed = ToSet(live) \ lapsed
=============================================================================
