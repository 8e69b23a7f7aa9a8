--------------------------- MODULE ServerSettings ---------------------------
(***************************************************************************)
(* The server's settings and the listeners that follow them                *)
(* (src/src/main.rs): requests that read, merge, save and apply settings,  *)
(* the edits of the recent workspaces, and the loop that rebuilds the      *)
(* listeners whenever the endpoint changes.                                *)
(***************************************************************************)
EXTENDS Integers, FiniteSets

CONSTANTS
  SettingSaves,  \* requests to update_server_settings
  RecentEdits,   \* requests that change the list of recent workspaces
  Folders,       \* paths of workspaces
  FirstPort, LastPort, \* the ports of a bind address; there is none after the last
  MaxRequests    \* bound on how many of the requests are made

ASSUME SettingsAssumption ==
  /\ {FirstPort, LastPort, MaxRequests} \subseteq Nat /\ FirstPort < LastPort
  /\ IsFiniteSet(SettingSaves)

VARIABLES
  live,      \* server_settings: the endpoint and the recent workspaces
  onDisk,    \* webui-settings.json
  saving,    \* where each SettingSaves request is
  editing,   \* where each RecentEdits request is
  sent,      \* the rebind watch: its value and its version
  loop,      \* serve_rebindable
  listeners, \* the listeners that hold a port
  others     \* ports that other programs hold

settingsVars == <<live, onDisk, saving, editing, sent, loop, listeners, others>>
-----------------------------------------------------------------------------
Ports     == FirstPort .. LastPort
Endpoints == [port : Ports, both : BOOLEAN]
Settings  == [endpoint : Endpoints, recent : SUBSET Folders]

\* TlsMode::https_bind, which saturates.
HttpsPort(e) == IF e.port < LastPort THEN e.port + 1 ELSE LastPort

Kinds == {"primary", "https"}
Listeners == [port : Ports, kind : Kinds, seen : Nat]

\* A request to update the settings, with what it read and what it made of it;
\* an edit of the recent workspaces, with the copy that it saves.
SettingSave == [at : {"new"}]
               \cup [at : {"merged", "saved", "stored", "done"}, read : Settings, next : Settings]
RecentEdit  == [at : {"new", "edited", "done"}] \cup [at : {"copied"}, copy : Settings]

SettingsTypeOK ==
  /\ live \in Settings /\ onDisk \in Settings
  /\ saving \in [SettingSaves -> SettingSave] /\ editing \in [RecentEdits -> RecentEdit]
  /\ sent \in [value : Endpoints, version : 0 .. Cardinality(SettingSaves)]
  /\ loop \in [at : {"top", "primary", "https", "serving", "exited"}, for : Endpoints,
              seen : 0 .. sent.version]
  /\ listeners \subseteq Listeners /\ others \subseteq Ports
  /\ \A a, b \in listeners : a # b => a.port # b.port
  /\ {a.port : a \in listeners} \cap others = {}

SettingsInit ==
  /\ \E e \in Endpoints : /\ live = [endpoint |-> e, recent |-> {}]
                          /\ sent = [value |-> e, version |-> 0]
                          /\ loop = [at |-> "top", for |-> e, seen |-> 0]
  /\ onDisk = live
  /\ saving = [s \in SettingSaves |-> [at |-> "new"]]
  /\ editing = [r \in RecentEdits |-> [at |-> "new"]]
  /\ listeners = {} /\ others \in SUBSET Ports
-----------------------------------------------------------------------------
running == loop.at # "exited"
mayBegin == /\ running
            /\ Cardinality({s \in SettingSaves : saving[s].at # "new"})
               + Cardinality({r \in RecentEdits : editing[r].at # "new"}) < MaxRequests

\* update_server_settings: the snapshot and what the request makes of it.
MergeSettings(s) ==
  /\ mayBegin /\ saving[s].at = "new"
  /\ \E e \in Endpoints :
       saving' = [saving EXCEPT ![s] = [at |-> "merged", read |-> live, next |-> [live EXCEPT !.endpoint = e]]]
  /\ UNCHANGED <<live, onDisk, editing, sent, loop, listeners, others>>

\* save_runtime_server_settings, on a thread of its own.  A save that fails, or
\* credentials that from_settings refuses after it, end the request.
SaveSettings(s) ==
  /\ running /\ saving[s].at = "merged"
  /\ \/ onDisk' = onDisk /\ saving' = [saving EXCEPT ![s].at = "done"]
     \/ onDisk' = saving[s].next /\ saving' = [saving EXCEPT ![s].at = "done"]
     \/ onDisk' = saving[s].next /\ saving' = [saving EXCEPT ![s].at = "saved"]
  /\ UNCHANGED <<live, editing, sent, loop, listeners, others>>

\* After the sessions have been seen to: the settings are the merged ones.
StoreSettings(s) ==
  /\ running /\ saving[s].at = "saved"
  /\ live' = saving[s].next
  /\ saving' = [saving EXCEPT ![s].at = "stored"]
  /\ UNCHANGED <<onDisk, editing, sent, loop, listeners, others>>

\* The listeners are told if the endpoint is not that of the snapshot.
SendRebind(s) ==
  /\ running /\ saving[s].at = "stored"
  /\ sent' = IF saving[s].read.endpoint # saving[s].next.endpoint
               THEN [value |-> saving[s].next.endpoint, version |-> sent.version + 1] ELSE sent
  /\ saving' = [saving EXCEPT ![s].at = "done"]
  /\ UNCHANGED <<live, onDisk, editing, loop, listeners, others>>

\* What each edit may make of the list of recent workspaces: a folder put
\* first, one taken out, all of them, or those whose folder is missing.
Recorded == {live.recent \cup {f} : f \in Folders}
Removed  == {live.recent \ {f} : f \in Folders}
Cleared  == {{}}
Pruned   == SUBSET live.recent

\* The list is changed in place,
EditRecent(r) ==
  /\ mayBegin /\ editing[r].at = "new"
  /\ \E list \in Recorded \cup Removed \cup Cleared \cup Pruned : live' = [live EXCEPT !.recent = list]
  /\ editing' = [editing EXCEPT ![r] = [at |-> "edited"]]
  /\ UNCHANGED <<onDisk, saving, sent, loop, listeners, others>>

\* then persist_server_settings copies the settings and saves the copy.
CopySettings(r) ==
  /\ running /\ editing[r].at = "edited"
  /\ editing' = [editing EXCEPT ![r] = [at |-> "copied", copy |-> live]]
  /\ UNCHANGED <<live, onDisk, saving, sent, loop, listeners, others>>

SaveCopy(r) ==
  /\ running /\ editing[r].at = "copied"
  /\ onDisk' \in {onDisk, editing[r].copy}
  /\ editing' = [editing EXCEPT ![r] = [at |-> "done"]]
  /\ UNCHANGED <<live, saving, sent, loop, listeners, others>>
-----------------------------------------------------------------------------
requestVars == <<live, onDisk, saving, editing, sent>>
Taken(port) == port \in others \/ \E l \in listeners : l.port = port

\* serve_rebindable: the endpoint is taken from the watch and marked as seen.
\* Without a certificate that can be read, the server ends.
TakeEndpoint ==
  /\ loop.at = "top"
  /\ \/ loop' = [at |-> "primary", for |-> sent.value, seen |-> sent.version]
     \/ loop' = [loop EXCEPT !.at = "exited"] /\ ~sent.value.both
  /\ UNCHANGED <<requestVars, listeners, others>>

\* Mutant: the listener watches for changes from now on.
BindNow(port, kind) ==
  IF Taken(port) THEN UNCHANGED listeners
  ELSE listeners' = listeners \cup {[port |-> port, kind |-> kind, seen |-> sent.version]}

\* bind_listener: the task watches for a change of the endpoint the loop took.
Bind(port, kind) ==
  IF Taken(port) THEN UNCHANGED listeners
  ELSE listeners' = listeners \cup {[port |-> port, kind |-> kind, seen |-> loop.seen]}

\* A port that is taken sends the loop back, after a second, whatever the
\* other listener has.
BindPrimary ==
  /\ loop.at = "primary"
  /\ Bind(loop.for.port, "primary")
  /\ loop' = [loop EXCEPT !.at = IF Taken(loop.for.port) THEN "top" ELSE IF loop.for.both THEN "https" ELSE "serving"]
  /\ UNCHANGED <<requestVars, others>>

BindHttps ==
  /\ loop.at = "https"
  /\ Bind(HttpsPort(loop.for), "https")
  /\ loop' = [loop EXCEPT !.at = IF Taken(HttpsPort(loop.for)) THEN "top" ELSE "serving"]
  /\ UNCHANGED <<requestVars, others>>

\* The select: the watch has changed, or a listener of this round has failed.
Missing == \E k \in IF loop.for.both THEN Kinds ELSE {"primary"} :
             \A l \in listeners : l.kind # k \/ l.seen # loop.seen
Rebuild ==
  /\ loop.at = "serving"
  /\ loop.seen < sent.version \/ Missing
  /\ loop' = [loop EXCEPT !.at = "top"]
  /\ UNCHANGED <<requestVars, listeners, others>>

\* SIGTERM or SIGINT; one that comes while the loop is elsewhere waits until
\* it serves again.
Terminate ==
  /\ loop.at = "serving"
  /\ loop' = [loop EXCEPT !.at = "exited"] /\ listeners' = {}
  /\ UNCHANGED <<requestVars, others>>

\* The graceful shutdown of a listener whose endpoint is not the current one.
ListenerStops(l) ==
  /\ running /\ l \in listeners /\ l.seen < sent.version
  /\ listeners' = listeners \ {l}
  /\ UNCHANGED <<requestVars, loop, others>>

\* The accept loop of a listener fails; it tells the loop of its round.
ListenerFails(l) ==
  /\ running /\ l \in listeners
  /\ listeners' = listeners \ {l}
  /\ UNCHANGED <<requestVars, loop, others>>

\* Another program takes or frees a port.
OtherProgram ==
  /\ \E p \in Ports : \/ p \in others /\ others' = others \ {p}
                      \/ ~Taken(p) /\ others' = others \cup {p}
  /\ UNCHANGED <<requestVars, loop, listeners>>
-----------------------------------------------------------------------------
RequestStep(s) == MergeSettings(s) \/ SaveSettings(s) \/ StoreSettings(s) \/ SendRebind(s)
EditStep(r)    == EditRecent(r) \/ CopySettings(r) \/ SaveCopy(r)
ServeStep      == TakeEndpoint \/ BindPrimary \/ BindHttps \/ Rebuild

SettingsNext ==
  \/ \E s \in SettingSaves : RequestStep(s)
  \/ \E r \in RecentEdits : EditStep(r)
  \/ ServeStep \/ Terminate \/ OtherProgram
  \/ \E l \in listeners : ListenerStops(l) \/ ListenerFails(l)

\* The runtime polls the loop and every listener task.
SettingsFairness ==
  /\ WF_settingsVars(ServeStep)
  /\ \A p \in Ports : WF_settingsVars(\E l \in listeners : l.port = p /\ ListenerStops(l))

SettingsSpec == SettingsInit /\ [][SettingsNext]_settingsVars /\ SettingsFairness
-----------------------------------------------------------------------------
Serves(e) == \E l \in listeners : l.port = e.port /\ l.kind = "primary" /\ l.seen = sent.version

(***************************************************************************)
(* However saves, failing listeners and the old listeners' shutdown        *)
(* interleave with the rebuilding of the listeners, the endpoint that was  *)
(* sent last is served in the end, again and again if its listener keeps   *)
(* failing, once no other program holds its port: no rebind is missed      *)
(* ("the next loop iteration rebuilds both listeners with the fresh        *)
(* endpoint", serve_rebindable).  Not promised are the HTTPS port of the   *)
(* `both` mode, whose round can fail for ever on the port that its own     *)
(* HTTP listener has, and `both` on the last port, which has no port after *)
(* it: there the two listeners want the same one.                          *)
(***************************************************************************)
LatestIsServed ==
  \A e \in Endpoints :
    (HttpsPort(e) # e.port \/ ~e.both) =>
      (<>[](sent.value = e /\ e.port \notin others) => []<>(Serves(e) \/ ~running))
=============================================================================
