----------------------------- MODULE NotesStore -----------------------------
(***************************************************************************)
(* The notes that all browsers share (src/src/notes.rs) and the way a      *)
(* sidecar file is replaced (atomic_write in src/src/server_settings.rs):  *)
(* a mutation under the lock, the save of its snapshot on a blocking       *)
(* thread, the broadcast, and the answer.                                  *)
(*                                                                         *)
(* A note is the request that created it and the request that changed it   *)
(* last; its text is left out.                                             *)
(***************************************************************************)
EXTENDS Integers, FiniteSets

CONSTANTS
  NoteRequests, \* requests that change the notes
  MaxNotes      \* MAX_NOTES (200 in the code)

ASSUME NotesAssumption == MaxNotes \in Nat

VARIABLES
  notes,    \* the store in memory
  noting,   \* where each request is
  snapshot, \* what its mutation left
  temp,     \* the temporary file
  opened,   \* the requests whose writes may meet in it: none, if there is no
            \* such file
  disk,     \* notes.json
  told,     \* the last broadcast
  answered, \* the requests that were told their change is done
  overlap   \* have two saves ever overlapped?

noteVars == <<notes, noting, snapshot, temp, opened, disk, told, answered, overlap>>
-----------------------------------------------------------------------------
Note == [note : NoteRequests, by : NoteRequests]

\* A file: what it holds, and whether that is all of one snapshot.
File(of, whole) == [of |-> of, whole |-> whole]
Truncated == File({}, FALSE)

Saving == {r \in NoteRequests : noting[r] \in {"mutated", "opened", "written", "renamed"}}

NotesTypeOK ==
  /\ \A s \in {notes, told} : s \subseteq Note
  /\ Cardinality(notes) <= MaxNotes
  /\ noting \in [NoteRequests -> {"new", "mutated", "opened", "written", "renamed", "answered", "failed", "refused"}]
  /\ \A r \in NoteRequests : snapshot[r] \subseteq Note
  /\ \A f \in {temp, disk} : f.of \subseteq Note /\ f.whole \in BOOLEAN
  /\ opened \subseteq NoteRequests /\ answered \subseteq NoteRequests /\ overlap \in BOOLEAN

NotesInit ==
  /\ notes = {} /\ noting = [r \in NoteRequests |-> "new"]
  /\ snapshot = [r \in NoteRequests |-> {}]
  /\ temp = Truncated /\ opened = {} /\ disk = File({}, TRUE)
  /\ told = {} /\ answered = {} /\ overlap = FALSE
-----------------------------------------------------------------------------
\* What a request may make of the notes: create, update, delete, clear.
Mutations(r) ==
  (IF Cardinality(notes) < MaxNotes THEN {notes \cup {[note |-> r, by |-> r]}} ELSE {})
  \cup {(notes \ {n}) \cup {[n EXCEPT !.by = r]} : n \in notes}
  \cup {notes \ {n} : n \in notes}
  \cup {{}}

\* apply_notes, up to the end of the lock.
Mutate(r) ==
  /\ noting[r] = "new"
  /\ \E after \in Mutations(r) :
       notes' = after /\ snapshot' = [snapshot EXCEPT ![r] = after]
  /\ noting' = [noting EXCEPT ![r] = "mutated"]
  /\ overlap' = (overlap \/ Saving # {})
  /\ UNCHANGED <<temp, opened, disk, told, answered>>

\* A note that is not there, or one too many.
RefuseMutation(r) ==
  /\ noting[r] = "new" /\ noting' = [noting EXCEPT ![r] = "refused"]
  /\ UNCHANGED <<notes, snapshot, temp, opened, disk, told, answered, overlap>>

\* atomic_write: the temporary file is opened and truncated, under the hands of
\* whoever is writing to it, ...
OpenTemp(r) ==
  /\ noting[r] = "mutated" /\ noting' = [noting EXCEPT ![r] = "opened"]
  /\ temp' = Truncated /\ opened' = {q \in opened : noting[q] = "opened"} \cup {r}
  /\ UNCHANGED <<notes, snapshot, disk, told, answered, overlap>>

\* ... written - into notes.json itself, if somebody has renamed it meanwhile -
\* and whole, unless somebody else has written to it as well, ...
WriteTemp(r) ==
  /\ noting[r] = "opened" /\ noting' = [noting EXCEPT ![r] = "written"]
  /\ \E whole \in {TRUE, opened = {r}} :
       IF r \in opened THEN temp' = File(snapshot[r], whole) /\ UNCHANGED disk
                       ELSE disk' = File(snapshot[r], whole) /\ UNCHANGED temp
  /\ UNCHANGED <<notes, snapshot, opened, told, answered, overlap>>

\* ... and renamed, if it is still there.
RenameTemp(r) ==
  /\ noting[r] = "written"
  /\ IF opened # {}
       THEN /\ noting' = [noting EXCEPT ![r] = "renamed"]
            /\ disk' = temp /\ temp' = Truncated /\ opened' = {}
       ELSE noting' = [noting EXCEPT ![r] = "failed"] /\ UNCHANGED <<disk, temp, opened>>
  /\ UNCHANGED <<notes, snapshot, told, answered, overlap>>

\* The disk is full or the directory cannot be written: the memory keeps the
\* change that the client is told has failed.
SaveFails(r) ==
  /\ noting[r] \in {"mutated", "opened"} /\ noting' = [noting EXCEPT ![r] = "failed"]
  /\ UNCHANGED <<notes, snapshot, temp, opened, disk, told, answered, overlap>>

\* Mutant: the answer does not wait for the save.
AnswerEarly(r) ==
  /\ noting[r] \in {"mutated", "renamed"} /\ noting' = [noting EXCEPT ![r] = "answered"]
  /\ told' = snapshot[r] /\ answered' = answered \cup {r}
  /\ UNCHANGED <<notes, snapshot, temp, opened, disk, overlap>>

\* broadcast_notes, and the answer.
Broadcast(r) ==
  /\ noting[r] = "renamed" /\ noting' = [noting EXCEPT ![r] = "answered"]
  /\ told' = snapshot[r] /\ answered' = answered \cup {r}
  /\ UNCHANGED <<notes, snapshot, temp, opened, disk, overlap>>

\* The server dies and starts again with what load_notes makes of the file;
\* requests under way are lost.
NotesRestart ==
  /\ Saving # {}
  /\ notes' = IF disk.whole THEN disk.of ELSE {}
  /\ noting' = [r \in NoteRequests |-> IF r \in Saving THEN "failed" ELSE noting[r]]
  /\ told' = notes' /\ opened' = {}
  /\ UNCHANGED <<snapshot, temp, disk, answered, overlap>>
-----------------------------------------------------------------------------
SaveStep(r) == OpenTemp(r) \/ WriteTemp(r) \/ RenameTemp(r) \/ SaveFails(r)

NotesNext ==
  \/ NotesRestart
  \/ \E r \in NoteRequests : Mutate(r) \/ RefuseMutation(r) \/ SaveStep(r) \/ Broadcast(r)

NotesSpec == NotesInit /\ [][NotesNext]_noteVars
-----------------------------------------------------------------------------
(***************************************************************************)
(* As long as no two saves overlap, notes.json is whole at every moment -  *)
(* wherever the server may die -, and a browser never shows a note that    *)
(* the file does not have: what was broadcast and answered is on the disk  *)
(* until the next save replaces it (atomic_write, apply_notes).            *)
(***************************************************************************)
BroadcastIsOnDisk ==
  ~overlap => /\ disk.whole
              /\ (\A r \in Saving : noting[r] # "renamed") => told = disk.of
=============================================================================
