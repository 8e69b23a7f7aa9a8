-------------------------- MODULE SessionLifecycle --------------------------
(***************************************************************************)
(* One built-in session of the web server: the requests that start it on   *)
(* demand, launch it, close it and clean it up (src/src/main.rs:           *)
(* ensure_builtin_session, launch_session, close_session,                  *)
(* mark_closed_builtin_session, cleanup_sessions), and the life of the     *)
(* backends that serve it one after another (BuiltinBackendHandle in       *)
(* src/src/builtin_backend.rs).                                            *)
(*                                                                         *)
(* The two sockets of a backend are one here: one path, which is some      *)
(* backend's socket file or is not there.                                  *)
(***************************************************************************)
EXTENDS Integers, FiniteSets

CONSTANTS
  Starters,  \* requests that find the session's backend or start it
  Launches,  \* explicit launches
  Closes,    \* closes
  Cleanups,  \* uses of "Clean up closed sessions"
  Backends   \* bound on the backends started

SessionRequests == Starters \cup Launches \cup Closes \cup Cleanups

ASSUME SessionAssumption == Backends \in Nat

VARIABLES
  sessionAt, \* where each request is
  started,   \* how many backends have been started
  running,   \* the backends whose `running` is set
  accepting, \* the backends whose listener threads have not ended
  knocked,   \* the backends that have a connection to accept
  attached,  \* the backends whose connections keep them alive
  dropped,   \* the backends that are gone, their sockets removed
  path,      \* whose socket file the session's path is, or NoBackend
  registered, \* the handle in builtin_sessions, or NoBackend
  closed     \* closed_builtin_sessions has the session

sessionVars ==
  <<sessionAt, started, running, accepting, knocked, attached, dropped, path, registered, closed>>
-----------------------------------------------------------------------------
NoBackend == 0
Started == 1 .. started

\* A connection to the session's path is accepted, or refused.
Connects == path # NoBackend /\ path \in accepting

SessionTypeOK ==
  /\ sessionAt \in [SessionRequests -> {"idle", "looking", "waiting", "locked", "cold", "starting", "stopped",
                                        "removed", "marked", "probing", "erasing", "erased", "done"}]
  /\ started \in 0 .. Backends
  /\ \A s \in {running, accepting, knocked, attached, dropped} : s \subseteq Started
  /\ {path, registered} \subseteq {NoBackend} \cup Started
  /\ closed \in BOOLEAN 

SessionInit ==
  /\ sessionAt = [r \in SessionRequests |-> "idle"]
  /\ started = 0
  /\ running = {} /\ accepting = {} /\ knocked = {} /\ attached = {} /\ dropped = {}
  /\ path = NoBackend /\ registered = NoBackend /\ closed = FALSE
-----------------------------------------------------------------------------
Stands(r, from, to) == sessionAt[r] = from /\ sessionAt' = [sessionAt EXCEPT ![r] = to]

\* Drop of BuiltinBackendHandle: the flag, and one connection to wake whoever
\* listens on the path now.
DropHandle(b) ==
  /\ running' = running \ {b}
  /\ knocked' = knocked \cup (IF Connects THEN {path} ELSE {})

KeepBackends == UNCHANGED <<started, running, accepting, knocked, attached, dropped>>

\* launch_session clears the marker first.
ClearMarker(r) ==
  /\ r \in Launches /\ Stands(r, "idle", "looking")
  /\ closed' = FALSE
  /\ KeepBackends /\ UNCHANGED <<path, registered>>

\* ensure_builtin_session: a closed session is left alone, a running one is
\* good; the others wait for the lock.
LookForSession(r) ==
  /\ \/ r \in Starters /\ sessionAt[r] = "idle"
     \/ r \in Launches /\ sessionAt[r] = "looking"
  /\ sessionAt' = [sessionAt EXCEPT ![r] = IF closed \/ registered \in running THEN "done" ELSE "waiting"]
  /\ KeepBackends /\ UNCHANGED <<path, registered, closed>>

\* builtin_start_lock is held from here until the request is done.
StartLockFree == \A r \in SessionRequests : sessionAt[r] \notin {"locked", "cold", "starting"}

\* A dead handle is evicted.
Evict ==
  /\ registered' = IF registered \in running THEN registered ELSE NoBackend
  /\ IF registered \notin running \cup {NoBackend} THEN DropHandle(registered)
                                                   ELSE UNCHANGED <<running, knocked>>

\* Mutant: cold starts are not serialized.
StartUnlocked(r) ==
  /\ Stands(r, "waiting", "locked") /\ Evict
  /\ UNCHANGED <<started, accepting, attached, dropped, path, closed>>

TakeStartLock(r) ==
  /\ StartLockFree /\ Stands(r, "waiting", "locked") /\ Evict
  /\ UNCHANGED <<started, accepting, attached, dropped, path, closed>>

\* Whoever answers on the path is good enough.
SomebodyAnswers(r) ==
  /\ Connects /\ Stands(r, "locked", "done")
  /\ knocked' = knocked \cup {path}
  /\ UNCHANGED <<started, running, accepting, attached, dropped, path, registered, closed>>

NobodyAnswers(r) ==
  /\ ~Connects /\ Stands(r, "locked", "cold")
  /\ KeepBackends /\ UNCHANGED <<path, registered, closed>>

\* BuiltinBackendHandle::start: the file on the path is replaced.
StartBackend(r) ==
  /\ started < Backends /\ Stands(r, "cold", "starting")
  /\ started' = started + 1
  /\ running' = running \cup {started + 1} /\ accepting' = accepting \cup {started + 1}
  /\ path' = started + 1
  /\ UNCHANGED <<knocked, attached, dropped, registered, closed>>

\* The handle is registered; one it replaces is dropped.
RegisterBackend(r) ==
  /\ Stands(r, "starting", "done")
  /\ registered' = started
  /\ IF registered # NoBackend THEN DropHandle(registered) ELSE UNCHANGED <<running, knocked>>
  /\ UNCHANGED <<started, accepting, attached, dropped, path, closed>>
-----------------------------------------------------------------------------
\* close_session sends server.stop to the path; where nobody accepts there is
\* nothing left to stop, which is as good.
StopBackend(r) ==
  /\ r \in Closes /\ Stands(r, "idle", "stopped")
  /\ running' = IF Connects THEN running \ {path} ELSE running
  /\ knocked' = IF Connects THEN knocked \cup {path} ELSE knocked
  /\ UNCHANGED <<started, accepting, attached, dropped, path, registered, closed>>

RemoveHandle(r) ==
  /\ r \in Closes /\ Stands(r, "stopped", "removed")
  /\ registered' = NoBackend
  /\ IF registered # NoBackend THEN DropHandle(registered) ELSE UNCHANGED <<running, knocked>>
  /\ UNCHANGED <<started, accepting, attached, dropped, path, closed>>

\* mark_closed_builtin_session: the marker, then the files.
MarkClosed(r) ==
  /\ r \in Closes /\ Stands(r, "removed", "marked")
  /\ closed' = TRUE
  /\ KeepBackends /\ UNCHANGED <<path, registered>>

RemoveSockets(r) ==
  /\ r \in Closes /\ Stands(r, "marked", "done")
  /\ path' = NoBackend
  /\ KeepBackends /\ UNCHANGED <<registered, closed>>
-----------------------------------------------------------------------------
\* cleanup_sessions: the names with a handle are safe, then each other name is
\* probed and erased.
ListSafeNames(r) ==
  /\ r \in Cleanups /\ sessionAt[r] = "idle"
  /\ sessionAt' = [sessionAt EXCEPT ![r] = IF registered # NoBackend THEN "done" ELSE "probing"]
  /\ KeepBackends /\ UNCHANGED <<path, registered, closed>>

ProbeSession(r) ==
  /\ r \in Cleanups /\ sessionAt[r] = "probing"
  /\ sessionAt' = [sessionAt EXCEPT ![r] = IF Connects THEN "done" ELSE "erasing"]
  /\ knocked' = IF Connects THEN knocked \cup {path} ELSE knocked
  /\ UNCHANGED <<started, running, accepting, attached, dropped, path, registered, closed>>

EraseSession(r) ==
  /\ r \in Cleanups /\ Stands(r, "erasing", "erased")
  /\ path' = NoBackend
  /\ KeepBackends /\ UNCHANGED <<registered, closed>>

\* An erased session is no longer marked closed.
ForgetMarker(r) ==
  /\ r \in Cleanups /\ Stands(r, "erased", "done")
  /\ closed' = FALSE
  /\ KeepBackends /\ UNCHANGED <<path, registered>>
-----------------------------------------------------------------------------
\* The accept loops of spawn_api_listener and spawn_client_listener: a
\* connection to a backend that should not run ends them.
AcceptConnection(b) ==
  /\ b \in knocked /\ b \in accepting
  /\ knocked' = knocked \ {b}
  /\ accepting' = IF b \in running THEN accepting ELSE accepting \ {b}
  /\ UNCHANGED <<sessionAt, started, running, attached, dropped, path, registered, closed>>

\* Terminal connections come and go; each holds the backend.
Attach(b) ==
  /\ b = path /\ b \in accepting /\ b \in running /\ b \notin attached
  /\ attached' = attached \cup {b}
  /\ UNCHANGED <<sessionAt, started, running, accepting, knocked, dropped, path, registered, closed>>

Leave(b) ==
  /\ b \in attached /\ attached' = attached \ {b}
  /\ UNCHANGED <<sessionAt, started, running, accepting, knocked, dropped, path, registered, closed>>

\* Is the handle of b still held by the registry or by who has just started it?
Held(b) == \/ registered = b
           \/ b = started /\ \E r \in SessionRequests : sessionAt[r] = "starting"

\* Drop of BuiltinBackendInner, with its last owner: it removes what the path
\* is by then.
DropBackend(b) ==
  /\ b \notin accepting \cup attached \cup dropped /\ ~Held(b)
  /\ dropped' = dropped \cup {b} /\ running' = running \ {b}
  /\ path' = NoBackend
  /\ UNCHANGED <<sessionAt, started, accepting, knocked, attached, registered, closed>>
-----------------------------------------------------------------------------
EnsureStep(r) ==
  LookForSession(r) \/ TakeStartLock(r) \/ SomebodyAnswers(r) \/ NobodyAnswers(r)
  \/ StartBackend(r) \/ RegisterBackend(r)

CloseStep(r) == StopBackend(r) \/ RemoveHandle(r) \/ MarkClosed(r) \/ RemoveSockets(r)

CleanupStep(r) == ListSafeNames(r) \/ ProbeSession(r) \/ EraseSession(r) \/ ForgetMarker(r)

SessionNext ==
  \/ \E r \in SessionRequests : ClearMarker(r) \/ EnsureStep(r) \/ CloseStep(r) \/ CleanupStep(r)
  \/ \E b \in Started : AcceptConnection(b) \/ Attach(b) \/ Leave(b) \/ DropBackend(b)

SessionSpec == SessionInit /\ [][SessionNext]_sessionVars
-----------------------------------------------------------------------------
(***************************************************************************)
(* Until the session is closed or cleaned up for the first time, however   *)
(* many requests find it cold at once, one backend at most runs for it,    *)
(* and the one that is registered is the one its path leads to             *)
(* (builtin_start_lock, the second look with a connection).                *)
(***************************************************************************)
StartedOnce ==
  (\A r \in Closes \cup Cleanups : sessionAt[r] = "idle") =>
    Cardinality(running) <= 1 /\ registered \in {NoBackend, path}
=============================================================================
