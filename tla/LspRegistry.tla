---------------------------- MODULE LspRegistry ----------------------------
(***************************************************************************)
(* The language servers (src/src/lsp.rs): one registry of handles by       *)
(* language and root, a lock around it and one around each handle's child  *)
(* process, the requests that start, list and stop servers, and the two    *)
(* tasks of every server that clean up behind it.                          *)
(*                                                                         *)
(* A step ends where a task waits for a lock or a process.                 *)
(***************************************************************************)
EXTENDS Integers, FiniteSets, Functions

CONSTANTS
  Roots,        \* language and root, the key of a server
  LspStarters,  \* requests that start one,
  RootOf,       \* and for which key
  Stoppers,     \* requests that stop one or all
  Listers,      \* requests that list them
  Free,         \* nobody holds the lock
  MaxServers,   \* MAX_SERVERS
  LspHandles    \* bound: servers that are spawned

ASSUME LspAssumption ==
  /\ {MaxServers, LspHandles} \subseteq Nat /\ RootOf \in [LspStarters -> Roots]
  /\ LspStarters \cap Stoppers = {}
  /\ (LspStarters \cup Stoppers) \cap Listers = {}

Handle == 1..LspHandles
Requests == LspStarters \cup Stoppers \cup Listers

VARIABLES
  servers,  \* LspRegistry.servers: the handle of a key, 0 if there is none
  registry, \* who holds its lock
  keyOf,    \* the handles that were spawned, and their keys
  alive,    \* the processes that run
  child,    \* the handles that still own their process
  lock,     \* who holds the lock of a handle's child
  reader,   \* where a handle's reader task is,
  timer,    \* and its shutdown timer
  lsp,      \* where a request is
  todo,     \* the handles it has still to probe or to stop,
  found     \* those that it found running, has spawned, or was to stop

lspVars == <<servers, registry, keyOf, alive, child, lock, reader, timer, lsp, todo, found>>
-----------------------------------------------------------------------------
Spawned == DOMAIN keyOf
Reader(h) == <<"reader", h>>
Timer(h) == <<"timer", h>>
LockHolders == {Free} \cup {Reader(h) : h \in Handle} \cup {Timer(h) : h \in Handle}

LspTypeOK ==
  /\ servers \in [Roots -> Handle \cup {0}] /\ Spawned \subseteq Handle
  /\ alive \subseteq Spawned /\ child \subseteq Spawned
  /\ registry \in Requests \cup {Free}
  /\ lock \in [Handle -> LockHolders]
  /\ reader \in [Handle -> {"reading", "removing", "gone"}]
  /\ timer \in [Handle -> {"sleeping", "asking", "removing", "gone"}]
  /\ lsp \in [Requests -> {"new", "looking", "count", "counting", "spawning", "inserting",
                           "stopping", "stoppingAll", "pruning", "done"}]
  /\ todo \in [Requests -> SUBSET Handle] /\ found \in [Requests -> SUBSET Handle]

LspInit ==
  /\ servers = [k \in Roots |-> 0] /\ registry = Free /\ keyOf = <<>>
  /\ alive = {} /\ child = {} /\ lock = [h \in Handle |-> Free]
  /\ reader = [h \in Handle |-> "reading"] /\ timer = [h \in Handle |-> "sleeping"]
  /\ lsp = [q \in Requests |-> "new"]
  /\ todo = [q \in Requests |-> {}] /\ found = [q \in Requests |-> {}]
-----------------------------------------------------------------------------
Registered == Range(servers) \ {0}

At(q, here, there) == lsp[q] = here /\ lsp' = [lsp EXCEPT ![q] = there]

\* LspServerHandle::is_running, under the child's lock: a process that has
\* ended is reaped.
Running(h) == h \in child /\ h \in alive
Probe(h) == lock[h] = Free /\ child' = IF Running(h) THEN child ELSE child \ {h}

\* lsp_start: a look into the registry, ...
LookUp(q) ==
  LET k == RootOf[q] IN
  /\ lsp[q] = "new" /\ registry = Free
  /\ IF servers[k] = 0
       THEN At(q, "new", "count") /\ UNCHANGED registry
       ELSE At(q, "new", "looking") /\ registry' = q
  /\ todo' = [todo EXCEPT ![q] = {servers[k]} \ {0}]
  /\ found' = [found EXCEPT ![q] = {}]
  /\ UNCHANGED <<servers, keyOf, alive, child, lock, reader, timer>>

\* ... which is kept locked while the server that is there is probed, ...
LookAtServer(q) ==
  /\ lsp[q] = "looking"
  /\ \E h \in todo[q] : Probe(h) /\ lsp' = [lsp EXCEPT ![q] = IF Running(h) THEN "done" ELSE "count"]
  /\ registry' = Free
  /\ UNCHANGED <<servers, keyOf, alive, lock, reader, timer, todo, found>>

\* ... and again while all of them are (can_spawn_more), ...
BeginCount(q) ==
  /\ At(q, "count", "counting") /\ registry = Free /\ registry' = q
  /\ todo' = [todo EXCEPT ![q] = Registered]
  /\ UNCHANGED <<servers, keyOf, alive, child, lock, reader, timer, found>>
CountServer(q) ==
  /\ lsp[q] = "counting"
  /\ \E h \in todo[q] :
       /\ Probe(h) /\ todo' = [todo EXCEPT ![q] = @ \ {h}]
       /\ found' = [found EXCEPT ![q] = IF Running(h) THEN @ \cup {h} ELSE @]
  /\ UNCHANGED <<servers, registry, keyOf, alive, lock, reader, timer, lsp>>
EndCount(q) ==
  /\ todo[q] = {} /\ registry' = Free
  /\ At(q, "counting", IF Cardinality(found[q]) < MaxServers THEN "spawning" ELSE "done")
  /\ UNCHANGED <<servers, keyOf, alive, child, lock, reader, timer, todo, found>>

\* ... the process is spawned with its tasks, or cannot be, ...
SpawnServer(q) ==
  LET k == RootOf[q] IN
  \/ /\ At(q, "spawning", "inserting")
     /\ \E h \in Handle \ Spawned :
          /\ \A g \in Handle : g < h => g \in Spawned
          /\ keyOf' = [g \in Spawned \cup {h} |-> IF g = h THEN k ELSE keyOf[g]]
          /\ alive' = alive \cup {h} /\ child' = child \cup {h}
          /\ found' = [found EXCEPT ![q] = {h}]
     /\ UNCHANGED <<servers, registry, lock, reader, timer, todo>>
  \/ /\ At(q, "spawning", "done")
     /\ UNCHANGED <<servers, registry, keyOf, alive, child, lock, reader, timer, todo, found>>

\* ... and the handle goes into the registry, over what is there by now.
InsertServer(q) ==
  /\ At(q, "inserting", "done") /\ registry = Free
  /\ \E h \in found[q] : servers' = [servers EXCEPT ![keyOf[h]] = h]
  /\ UNCHANGED <<registry, keyOf, alive, child, lock, reader, timer, todo, found>>
-----------------------------------------------------------------------------
\* A server dies.
ServerDies(h) ==
  /\ h \in alive /\ alive' = alive \ {h}
  /\ UNCHANGED <<servers, registry, keyOf, child, lock, reader, timer, lsp, todo, found>>

\* The reader task sees the end of the output, or a frame that is too long: it
\* locks the child and kills it, and with that lock waits for the registry, ...
ReaderEnds(h) ==
  /\ h \in Spawned /\ reader[h] = "reading" /\ lock[h] = Free
  /\ reader' = [reader EXCEPT ![h] = "removing"] /\ lock' = [lock EXCEPT ![h] = Reader(h)]
  /\ child' = child \ {h} /\ alive' = alive \ {h}
  /\ UNCHANGED <<servers, registry, keyOf, timer, lsp, todo, found>>

\* ... where it removes whatever its key now stands for.
ReaderRemoves(h) ==
  /\ reader[h] = "removing" /\ registry = Free
  /\ reader' = [reader EXCEPT ![h] = "gone"] /\ lock' = [lock EXCEPT ![h] = Free]
  /\ servers' = [servers EXCEPT ![keyOf[h]] = 0]
  /\ UNCHANGED <<registry, keyOf, alive, child, timer, lsp, todo, found>>

\* IDLE_SHUTDOWN_SECS after the spawn - requests do not put it off - the server
\* is asked to shut down, and cleaned up in the same way.
TimerAsks(h) ==
  /\ h \in Spawned /\ timer[h] = "sleeping" /\ timer' = [timer EXCEPT ![h] = "asking"]
  /\ UNCHANGED <<servers, registry, keyOf, alive, child, lock, reader, lsp, todo, found>>
TimerEndsServer(h) ==
  /\ timer[h] = "asking" /\ lock[h] = Free
  /\ timer' = [timer EXCEPT ![h] = "removing"] /\ lock' = [lock EXCEPT ![h] = Timer(h)]
  /\ child' = child \ {h} /\ alive' = IF h \in child THEN alive \ {h} ELSE alive
  /\ UNCHANGED <<servers, registry, keyOf, reader, lsp, todo, found>>
TimerRemoves(h) ==
  /\ timer[h] = "removing" /\ registry = Free
  /\ timer' = [timer EXCEPT ![h] = "gone"] /\ lock' = [lock EXCEPT ![h] = Free]
  /\ servers' = [servers EXCEPT ![keyOf[h]] = 0]
  /\ UNCHANGED <<registry, keyOf, alive, child, reader, lsp, todo, found>>
-----------------------------------------------------------------------------
\* lsp_stop: the handle of one key, or all of them, ...
BeginStop(q) ==
  /\ registry = Free
  /\ \/ \E k \in Roots : At(q, "new", "stopping") /\ todo' = [todo EXCEPT ![q] = {servers[k]} \ {0}]
     \/ At(q, "new", "stoppingAll") /\ todo' = [todo EXCEPT ![q] = Registered]
  /\ found' = [found EXCEPT ![q] = todo'[q]]
  /\ UNCHANGED <<servers, registry, keyOf, alive, child, lock, reader, timer>>

\* Mutant: a server that does not answer the shutdown is left alone.
StopPolitely(q) ==
  /\ lsp[q] \in {"stopping", "stoppingAll"}
  /\ \E h \in todo[q] :
       /\ lock[h] = Free /\ todo' = [todo EXCEPT ![q] = @ \ {h}]
       /\ \/ child' = child \ {h} /\ alive' = IF h \in child THEN alive \ {h} ELSE alive
          \/ UNCHANGED <<child, alive>>
  /\ UNCHANGED <<servers, registry, keyOf, lock, reader, timer, lsp, found>>

\* ... stop_handle for each, whether it answers or not, ...
StopServer(q) ==
  /\ lsp[q] \in {"stopping", "stoppingAll"}
  /\ \E h \in todo[q] :
       /\ lock[h] = Free /\ todo' = [todo EXCEPT ![q] = @ \ {h}]
       /\ child' = child \ {h} /\ alive' = IF h \in child THEN alive \ {h} ELSE alive
  /\ UNCHANGED <<servers, registry, keyOf, lock, reader, timer, lsp, found>>

\* ... and the keys are removed, with all that was started under them since.
EndStop(q) ==
  /\ todo[q] = {} /\ registry = Free
  /\ \/ /\ At(q, "stopping", "done")
        /\ servers' = [k \in Roots |-> IF \E h \in found[q] : keyOf[h] = k THEN 0 ELSE servers[k]]
     \/ At(q, "stoppingAll", "done") /\ servers' = [k \in Roots |-> 0]
  /\ UNCHANGED <<registry, keyOf, alive, child, lock, reader, timer, todo, found>>

\* status: the handles are copied, probed without the registry, and the keys of
\* the dead are dropped.
BeginList(q) ==
  /\ At(q, "new", "pruning") /\ registry = Free
  /\ todo' = [todo EXCEPT ![q] = Registered] /\ found' = [found EXCEPT ![q] = {}]
  /\ UNCHANGED <<servers, registry, keyOf, alive, child, lock, reader, timer>>
ListServer(q) ==
  /\ lsp[q] = "pruning"
  /\ \E h \in todo[q] : /\ Probe(h) /\ todo' = [todo EXCEPT ![q] = @ \ {h}]
                        /\ found' = [found EXCEPT ![q] = IF Running(h) THEN @ ELSE @ \cup {h}]
  /\ UNCHANGED <<servers, registry, keyOf, alive, lock, reader, timer, lsp>>
EndList(q) ==
  /\ At(q, "pruning", "done") /\ todo[q] = {} /\ registry = Free
  /\ servers' = [k \in Roots |-> IF \E h \in found[q] : keyOf[h] = k THEN 0 ELSE servers[k]]
  /\ UNCHANGED <<registry, keyOf, alive, child, lock, reader, timer, todo, found>>
-----------------------------------------------------------------------------
LspNext ==
  \/ \E q \in LspStarters : \/ LookUp(q) \/ LookAtServer(q) \/ BeginCount(q) \/ CountServer(q)
                         \/ EndCount(q) \/ SpawnServer(q) \/ InsertServer(q)
  \/ \E q \in Stoppers : BeginStop(q) \/ StopServer(q) \/ EndStop(q)
  \/ \E q \in Listers : BeginList(q) \/ ListServer(q) \/ EndList(q)
  \/ \E h \in Handle : \/ ServerDies(h) \/ ReaderEnds(h) \/ ReaderRemoves(h)
                       \/ TimerAsks(h) \/ TimerEndsServer(h) \/ TimerRemoves(h)

LspSpec == LspInit /\ [][LspNext]_lspVars
-----------------------------------------------------------------------------
(***************************************************************************)
(* What a stop request found in the registry is dead when it answers,      *)
(* whatever the servers' own tasks and other requests have done to it in   *)
(* the meantime (lsp_stop, stop_handle).                                   *)
(***************************************************************************)
StopMeansStopped == \A q \in Stoppers : lsp[q] = "done" => found[q] \cap alive = {}

(***************************************************************************)
(* Nobody holds the registry and waits for a child whose holder waits for  *)
(* the registry: "the stdout reader cleanup takes the child lock before    *)
(* the registry lock; avoid the inverse order" (LspRegistry::status).      *)
(***************************************************************************)
NoLockCycle ==
  \A q \in LspStarters : registry = q /\ lsp[q] \in {"looking", "counting"} /\ todo[q] # {}
                        => \E h \in todo[q] : lock[h] = Free
=============================================================================
