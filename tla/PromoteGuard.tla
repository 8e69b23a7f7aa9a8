---------------------------- MODULE PromoteGuard ----------------------------
(***************************************************************************)
(* The guard that keeps a temporary terminal tab alive while it is being   *)
(* promoted to a workspace (src/src/main.rs: PromotedTemporaryTabState,    *)
(* promote_tab, the teardown of terminal_socket): one tab, the socket that *)
(* shows it, and the promote requests for it.                              *)
(***************************************************************************)
EXTENDS Integers, FiniteSets

CONSTANT Promotes  \* requests to promote the tab

ASSUME PromoteAssumption == IsFiniteSet(Promotes)

VARIABLES
  guard,    \* what the registry holds for the tab: Promoted, or the number of
            \* requests in flight (0: no entry)
  promote,  \* where each request is
  tabState, \* what the backend makes of the tab
  teardown, \* where the task of the socket is
  released, \* release_armed: the browser has told the socket to let go
  killed    \* the teardown has closed the tab

promoteVars == <<guard, promote, tabState, teardown, released, killed>>
-----------------------------------------------------------------------------
Promoted == -1

\* Requests that have armed the guard and have not been answered yet.
Unanswered == {r \in Promotes : promote[r] \in {"armed", "promoted", "refused"}}

Succeeded == {r \in Promotes : promote[r] = "succeeded"}

PromoteTypeOK ==
  /\ guard \in Nat \cup {Promoted}
  /\ promote \in [Promotes -> {"transit", "armed", "promoted", "refused", "succeeded", "failed"}]
  /\ tabState \in {"temporary", "workspace", "closed"}
  /\ teardown \in {"serving", "ending", "grace", "closing", "over"}
  /\ released \in BOOLEAN /\ killed \in BOOLEAN

PromoteInit ==
  /\ guard = 0
  /\ promote = [r \in Promotes |-> "transit"]
  /\ tabState = "temporary" /\ teardown = "serving"
  /\ released = FALSE /\ killed = FALSE
-----------------------------------------------------------------------------
\* promote_tab arms the guard before it calls the backend
\* (begin_temporary_tab_promote).
BeginPromote(r) ==
  /\ promote[r] = "transit"
  /\ promote' = [promote EXCEPT ![r] = "armed"]
  /\ guard' = IF guard = Promoted THEN guard ELSE guard + 1
  /\ UNCHANGED <<tabState, teardown, released, killed>>

\* The backend answers tab.promote, or the call fails before it gets there.
BackendPromotes(r) ==
  /\ promote[r] = "armed"
  /\ \/ /\ tabState # "closed"
        /\ tabState' = "workspace" /\ promote' = [promote EXCEPT ![r] = "promoted"]
     \/ tabState' = tabState /\ promote' = [promote EXCEPT ![r] = "refused"]
  /\ UNCHANGED <<guard, teardown, released, killed>>

\* Mutant: a failed promote removes the marker, whoever else is in flight.
FinishForgetful(r) ==
  /\ promote[r] \in {"promoted", "refused"}
  /\ \/ /\ promote[r] = "promoted"
        /\ guard' = Promoted /\ promote' = [promote EXCEPT ![r] = "succeeded"]
     \/ /\ guard' = IF guard = Promoted THEN guard ELSE 0
        /\ promote' = [promote EXCEPT ![r] = "failed"]
  /\ UNCHANGED <<tabState, teardown, released, killed>>

\* finish_temporary_tab_promote with what the route was told; the answer of a
\* backend that took longer than the request timeout is lost.
FinishPromote(r) ==
  /\ promote[r] \in {"promoted", "refused"}
  /\ \/ /\ promote[r] = "promoted"
        /\ guard' = Promoted /\ promote' = [promote EXCEPT ![r] = "succeeded"]
     \/ /\ guard' = IF guard = Promoted \/ guard = 0 THEN guard ELSE guard - 1
        /\ promote' = [promote EXCEPT ![r] = "failed"]
  /\ UNCHANGED <<tabState, teardown, released, killed>>
-----------------------------------------------------------------------------
\* A frame of the browser arms the socket, or disarms it: the page has taken the
\* tab over (terminal_release_toggle).
ReleaseToggle ==
  /\ teardown = "serving"
  /\ released' = ~released
  /\ UNCHANGED <<guard, promote, tabState, teardown, killed>>

SocketEnds ==
  /\ teardown = "serving" /\ teardown' = "ending"
  /\ UNCHANGED <<guard, promote, tabState, released, killed>>

ShouldAutoClose == ~released /\ guard = 0

\* The first look; a tab that looks closable is given 250 ms.
FirstLook ==
  /\ teardown = "ending"
  /\ teardown' = IF ShouldAutoClose THEN "grace" ELSE "over"
  /\ UNCHANGED <<guard, promote, tabState, released, killed>>

SecondLook ==
  /\ teardown = "grace"
  /\ teardown' = IF ShouldAutoClose THEN "closing" ELSE "over"
  /\ UNCHANGED <<guard, promote, tabState, released, killed>>

\* The tab.close request of the teardown arrives.
AutoClose ==
  /\ teardown = "closing" /\ teardown' = "over"
  /\ killed' = (killed \/ tabState # "closed") /\ tabState' = "closed"
  /\ UNCHANGED <<guard, promote, released>>

\* Somebody else closes the tab.
CloseTemporary ==
  /\ tabState # "closed" /\ tabState' = "closed"
  /\ UNCHANGED <<guard, promote, teardown, released, killed>>
-----------------------------------------------------------------------------
PromoteNext ==
  \/ \E r \in Promotes : BeginPromote(r) \/ BackendPromotes(r) \/ FinishPromote(r)
  \/ ReleaseToggle \/ SocketEnds \/ FirstLook \/ SecondLook \/ AutoClose \/ CloseTemporary

PromoteSpec == PromoteInit /\ [][PromoteNext]_promoteVars
-----------------------------------------------------------------------------
(***************************************************************************)
(* The marker is what it stands for, however requests overlap, fail or     *)
(* lose their answers: `promoted' once a promote is known to have worked,  *)
(* and until then the number of requests that are not answered             *)
(* (begin_ and finish_temporary_tab_promote).                              *)
(***************************************************************************)
GuardCounts ==
  IF Succeeded # {} THEN guard = Promoted ELSE guard = Cardinality(Unanswered)

(***************************************************************************)
(* The teardown commits to closing the tab only when no promote is in      *)
(* flight and none is known to have worked: an armed guard is always seen  *)
(* by the second look, so a tab is lost only to a promote that arms after  *)
(* it (terminal_socket).                                                   *)
(***************************************************************************)
NeverClosesArmed ==
  [][teardown' = "closing" /\ teardown # "closing" => Unanswered = {} /\ Succeeded = {}]_promoteVars
=============================================================================
