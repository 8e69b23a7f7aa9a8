---------------------------- MODULE FileEditing ----------------------------
(***************************************************************************)
(* One file that browsers edit: the read and write handlers of             *)
(* src/src/file_browser.rs, which guard a save by the hash of what the     *)
(* browser has loaded, and the editors of assets/desktop/file_browser.js   *)
(* and assets/mobile/file_browser.js, whose answers arrive late.           *)
(*                                                                         *)
(* A text is a number, fresh whenever somebody types or a program writes   *)
(* the file, and stands for its own hash; NoText is a missing file.        *)
(***************************************************************************)
EXTENDS Integers

CONSTANTS
  Desktops, \* browsers with the desktop front end
  Mobiles,  \* browsers with the mobile one
  Texts,    \* bound: texts that come to be
  Calls     \* bound: requests that are sent

ASSUME FileEditingAssumption == {Texts, Calls} \subseteq Nat /\ Texts # 0

Editors == Desktops \cup Mobiles

VARIABLES
  file,    \* what is on the disk
  texts,   \* the last text
  entry,   \* what an editor holds: fileStates of the desktop, local of the mobile
  object,  \* which of its file objects, or screen requests, is the present one
  calls,   \* the requests under way
  sent,    \* how many were sent
  shown,   \* the texts an editor has shown
  slipped, \* has the file changed in the middle of a request?
  lost     \* texts that a save replaced though its editor never showed them

editVars == <<file, texts, entry, object, calls, sent, shown, slipped, lost>>
-----------------------------------------------------------------------------
NoText == 0
Text == 0..Texts

Closed == [open |-> FALSE, content |-> NoText, hash |-> NoText, draft |-> NoText,
           editing |-> FALSE, dirty |-> FALSE, saving |-> FALSE]
Loaded(v, h) == [Closed EXCEPT !.open = TRUE, !.content = v, !.draft = v, !.hash = h]

Kinds == {"open", "reload", "check", "save"}
Stages == {"sent", "read", "checked", "written", "answered", "refused"}

EditorEntry == [open : BOOLEAN, content : Text, hash : Text, draft : Text,
                editing : BOOLEAN, dirty : BOOLEAN, saving : BOOLEAN]
FileCall == [by : Editors, kind : Kinds, of : 0..2 * Calls, stage : Stages, text : Text, hash : Text]

EditTypeOK ==
  /\ file \in Text /\ texts \in Text /\ lost \subseteq Text /\ slipped \in BOOLEAN
  /\ entry \in [Editors -> EditorEntry] /\ object \in [Editors -> 0..2 * Calls]
  /\ shown \in [Editors -> SUBSET Text] /\ calls \subseteq FileCall /\ sent \in 0..Calls

EditInit ==
  /\ file = 1 /\ texts = 1 /\ calls = {} /\ sent = 0 /\ slipped = FALSE /\ lost = {}
  /\ entry = [c \in Editors |-> Closed] /\ object = [c \in Editors |-> 0]
  /\ shown = [c \in Editors |-> {}]
-----------------------------------------------------------------------------
\* A request is inside its handler, between two looks at the file.
Inside(r) == r.stage \in {"read", "checked", "written"}

\* The file changes under every request but these.
Changes(own) == slipped' = (slipped \/ \E r \in calls \ own : Inside(r))

Send(c, kind) ==
  /\ sent < Calls /\ sent' = sent + 1
  /\ calls' = calls \cup {[by |-> c, kind |-> kind, of |-> object'[c], stage |-> "sent",
                           text |-> entry[c].draft, hash |-> entry[c].hash]}

Goes(r, next) == calls' = (calls \ {r}) \cup next /\ UNCHANGED sent
Moves(r, stage) == Goes(r, {[r EXCEPT !.stage = stage]})
Finishes(r) == Goes(r, {})
Reached(r, kinds, stage) == r.kind \in kinds /\ r.stage = stage

Current(r) == r.of = object[r.by]

\* A program in a terminal writes the file or removes it.
ProgramWrites ==
  /\ texts < Texts /\ texts' = texts + 1 /\ file' \in {texts', NoText}
  /\ Changes({}) /\ UNCHANGED <<entry, object, calls, sent, shown, lost>>

\* file_browser_file_payload: the bytes are read, and the file is hashed
\* afterwards; a check asks for the hash alone.
ServeRead(r) ==
  /\ Reached(r, {"open", "reload"}, "sent")
  /\ Goes(r, {[r EXCEPT !.stage = IF file = NoText THEN "refused" ELSE "read", !.text = file]})
  /\ UNCHANGED <<file, texts, entry, object, shown, slipped, lost>>
ServeHash(r) ==
  /\ Reached(r, {"open", "reload"}, "read") \/ Reached(r, {"check"}, "sent")
  /\ Goes(r, {[r EXCEPT !.stage = IF r.kind = "check" /\ file = NoText THEN "refused" ELSE "answered",
                         !.hash = file]})
  /\ UNCHANGED <<file, texts, entry, object, shown, slipped, lost>>

\* Mutant: the hash is not compared.
ServeNoCheck(r) ==
  /\ Reached(r, {"save"}, "sent") /\ Moves(r, "checked")
  /\ UNCHANGED <<file, texts, entry, object, shown, slipped, lost>>

\* file_browser_write_file_payload: the hash is compared, ...
ServeCheck(r) ==
  /\ Reached(r, {"save"}, "sent")
  /\ Moves(r, IF r.hash = file THEN "checked" ELSE "refused")
  /\ UNCHANGED <<file, texts, entry, object, shown, slipped, lost>>

\* ... the file is written, ...
ServeWrite(r) ==
  /\ Reached(r, {"save"}, "checked") /\ Moves(r, "written")
  /\ file' = r.text /\ Changes({r})
  /\ lost' = lost \cup ({file} \ (shown[r.by] \cup {NoText}))
  /\ UNCHANGED <<texts, entry, object, shown>>

\* ... and hashed again.
ServeRehash(r) ==
  /\ Reached(r, {"save"}, "written")
  /\ Goes(r, {[r EXCEPT !.stage = "answered", !.hash = file]})
  /\ UNCHANGED <<file, texts, entry, object, shown, slipped, lost>>

\* Any handler may fail on the file system.
ServeFails(r) ==
  /\ r.stage = "sent" /\ Moves(r, "refused")
  /\ UNCHANGED <<file, texts, entry, object, shown, slipped, lost>>
-----------------------------------------------------------------------------
\* What every editor does: the user types, ...
Type(c) ==
  /\ entry[c].open /\ entry[c].editing /\ texts < Texts
  /\ texts' = texts + 1 /\ shown' = [shown EXCEPT ![c] = @ \cup {texts'}]
  /\ entry' = [entry EXCEPT ![c].draft = texts', ![c].dirty = texts' # entry[c].content]
  /\ UNCHANGED <<file, object, calls, sent, slipped, lost>>

\* ... and saves (saveFile).
Save(c) ==
  /\ entry[c].open /\ entry[c].editing /\ ~entry[c].saving
  /\ entry' = [entry EXCEPT ![c].saving = TRUE]
  /\ object' = object /\ Send(c, "save")
  /\ UNCHANGED <<file, texts, shown, slipped, lost>>

\* delete: the file goes, and the editor with it.
DeleteFile(c) ==
  /\ entry[c].open /\ file # NoText /\ file' = NoText /\ Changes({})
  /\ entry' = [entry EXCEPT ![c] = Closed] /\ object' = [object EXCEPT ![c] = @ + 1]
  /\ object[c] < Calls
  /\ UNCHANGED <<texts, calls, sent, shown, lost>>

\* An answer that is an error, or that comes for an object that is gone.
Dropped(r) ==
  LET c == r.by IN
  /\ r.stage \in {"answered", "refused"} /\ Finishes(r)
  /\ \/ r.stage = "refused" /\ r.kind # "save"
     \/ ~Current(r) /\ (c \in Desktops \/ r.kind # "save")
  /\ UNCHANGED <<file, texts, entry, object, shown, slipped, lost>>

\* The desktop: openEditorTab fetches the file, unless it holds an entry;
\* closeEditorTab drops it, if need be after a question.
OpenTab(c) ==
  /\ c \in Desktops /\ ~entry[c].open
  /\ ~\E r \in calls : r.by = c /\ r.kind = "open" /\ Current(r)
  /\ object' = object /\ Send(c, "open")
  /\ UNCHANGED <<file, texts, entry, shown, slipped, lost>>
CloseTab(c) ==
  /\ c \in Desktops /\ object[c] < Calls
  /\ entry' = [entry EXCEPT ![c] = Closed] /\ object' = [object EXCEPT ![c] = @ + 1]
  /\ UNCHANGED <<file, texts, calls, sent, shown, slipped, lost>>

\* The window regains the focus: an open file without local edits is hashed
\* again (checkOpenFilesForExternalChanges), ...
FocusTab(c) ==
  /\ c \in Desktops /\ entry[c].open /\ ~entry[c].dirty /\ entry[c].hash # NoText
  /\ ~\E r \in calls : r.by = c /\ r.kind \in {"check", "reload"}
  /\ object' = object /\ Send(c, "check")
  /\ UNCHANGED <<file, texts, entry, shown, slipped, lost>>

\* ... and reloaded, if it differs, there are still no edits, and the user
\* agrees.
CheckAnswer(r) ==
  LET c == r.by IN
  /\ Reached(r, {"check"}, "answered") /\ Current(r)
  /\ \/ /\ ~entry[c].dirty /\ r.hash # entry[c].hash
        /\ Goes(r, {[r EXCEPT !.kind = "reload", !.stage = "sent"]})
     \/ Finishes(r)
  /\ UNCHANGED <<file, texts, entry, object, shown, slipped, lost>>

\* The file is there, for editing unless it is markdown; a reload keeps that,
\* and nothing of a draft that was begun while it was fetched.
TabLoaded(r) ==
  LET c == r.by IN
  /\ c \in Desktops /\ Reached(r, {"open", "reload"}, "answered") /\ Current(r) /\ Finishes(r)
  /\ \E editing \in IF r.kind = "open" THEN BOOLEAN ELSE {entry[c].editing} :
       entry' = [entry EXCEPT ![c] = [Loaded(r.text, r.hash) EXCEPT !.editing = editing]]
  /\ shown' = [shown EXCEPT ![c] = @ \cup {r.text}]
  /\ UNCHANGED <<file, texts, object, slipped, lost>>

\* The answer to a save, good or bad: the draft of this moment counts as saved.
TabSaved(r) ==
  LET c == r.by IN
  /\ c \in Desktops /\ r.kind = "save" /\ Current(r) /\ Finishes(r)
  /\ \/ /\ r.stage = "answered"
        /\ entry' = [entry EXCEPT ![c] = [@ EXCEPT !.content = entry[c].draft, !.hash = r.hash,
                                                   !.dirty = FALSE, !.saving = FALSE]]
     \/ r.stage = "refused" /\ entry' = [entry EXCEPT ![c].saving = FALSE]
  /\ UNCHANGED <<file, texts, object, shown, slipped, lost>>
-----------------------------------------------------------------------------
\* The mobile: openFile claims the screen and forgets what was there. A refresh
\* is the same: it does not wait for the answer to its question.
OpenScreen(c) ==
  /\ c \in Mobiles /\ object' = [object EXCEPT ![c] = @ + 1]
  /\ entry' = [entry EXCEPT ![c] = Closed] /\ Send(c, "open")
  /\ UNCHANGED <<file, texts, shown, slipped, lost>>

ScreenLoaded(r) ==
  LET c == r.by IN
  /\ c \in Mobiles /\ Reached(r, {"open"}, "answered") /\ Current(r) /\ Finishes(r)
  /\ entry' = [entry EXCEPT ![c] = [Loaded(r.text, r.hash) EXCEPT !.draft = NoText]]
  /\ shown' = [shown EXCEPT ![c] = @ \cup {r.text}]
  /\ UNCHANGED <<file, texts, object, slipped, lost>>

\* startEdit, and cancelEdit with or without a question.
StartEdit(c) ==
  /\ c \in Mobiles /\ entry[c].open /\ ~entry[c].editing
  /\ entry' = [entry EXCEPT ![c] = [@ EXCEPT !.editing = TRUE, !.draft = entry[c].content, !.dirty = FALSE]]
  /\ UNCHANGED <<file, texts, object, calls, sent, shown, slipped, lost>>
CancelEdit(c) ==
  /\ c \in Mobiles /\ entry[c].open /\ entry[c].editing
  /\ entry' = [entry EXCEPT ![c] = [@ EXCEPT !.editing = FALSE, !.draft = entry[c].content, !.dirty = FALSE]]
  /\ UNCHANGED <<file, texts, object, calls, sent, shown, slipped, lost>>

\* The answer to a save ends the editing of whatever is on the screen by then;
\* the file it was for learns the draft and the hash.
ScreenSaved(r) ==
  LET c == r.by
      e == entry[c] IN
  /\ c \in Mobiles /\ r.kind = "save" /\ Finishes(r)
  /\ \/ /\ r.stage = "answered"
        /\ entry' = [entry EXCEPT ![c] =
             [e EXCEPT !.content = IF Current(r) THEN e.draft ELSE e.content,
                       !.hash = IF Current(r) THEN r.hash ELSE e.hash,
                       !.draft = NoText, !.dirty = FALSE, !.editing = FALSE, !.saving = FALSE]]
     \/ r.stage = "refused" /\ entry' = [entry EXCEPT ![c].saving = FALSE]
  /\ UNCHANGED <<file, texts, object, shown, slipped, lost>>
-----------------------------------------------------------------------------
Serve(r) == \/ ServeRead(r) \/ ServeHash(r) \/ ServeCheck(r) \/ ServeWrite(r)
            \/ ServeRehash(r) \/ ServeFails(r)

EditNext ==
  \/ ProgramWrites
  \/ \E c \in Editors : \/ Type(c) \/ Save(c) \/ DeleteFile(c) \/ OpenTab(c) \/ CloseTab(c)
                        \/ FocusTab(c) \/ OpenScreen(c) \/ StartEdit(c) \/ CancelEdit(c)
  \/ \E r \in calls : \/ Serve(r) \/ Dropped(r) \/ CheckAnswer(r) \/ TabLoaded(r)
                             \/ TabSaved(r) \/ ScreenLoaded(r) \/ ScreenSaved(r)

EditSpec == EditInit /\ [][EditNext]_editVars
-----------------------------------------------------------------------------
(***************************************************************************)
(* Unless the file changes in the middle of a handler - between a read and *)
(* its hash, a check and its write, a write and its hash -, no save ever   *)
(* replaces a text that its editor has not shown, in whatever order the    *)
(* answers to loads, checks, reloads and saves reach the editors           *)
(* (expected_hash of file_browser_write_file_payload).                     *)
(***************************************************************************)
UnseenNeverOverwritten == ~slipped => lost = {}
=============================================================================
