----------------------------- MODULE MCServices -----------------------------
(***************************************************************************)
(* Model values for the components whose promises are safety properties.   *)
(* They share no state; a behaviour is one of one of them, while the       *)
(* others stay as they begin.                                              *)
(***************************************************************************)
EXTENDS PromoteGuard, SessionLifecycle, AuthSessions, NotesStore, FileEditing, LspRegistry,
        TuiClient

VARIABLE component

OneRoot == [q \in LspStarters |-> CHOOSE k \in Roots : TRUE]

serviceVars == <<component, promoteVars, sessionVars, authVars, noteVars, editVars, lspVars, tuiVars>>

ServicesInit ==
  /\ component \in {"promote", "session", "auth", "notes", "edit", "lsp", "tui"}
  /\ PromoteInit /\ SessionInit /\ AuthInit /\ NotesInit /\ EditInit /\ LspInit /\ TuiInit
  /\ component # "tui" => up = {FirstSession}

ServicesNext ==
  \/ /\ component = "promote" /\ PromoteNext
     /\ UNCHANGED <<component, sessionVars, authVars, noteVars, editVars, lspVars, tuiVars>>
  \/ /\ component = "session" /\ SessionNext
     /\ UNCHANGED <<component, promoteVars, authVars, noteVars, editVars, lspVars, tuiVars>>
  \/ /\ component = "auth" /\ AuthNext
     /\ UNCHANGED <<component, promoteVars, sessionVars, noteVars, editVars, lspVars, tuiVars>>
  \/ /\ component = "notes" /\ NotesNext
     /\ UNCHANGED <<component, promoteVars, sessionVars, authVars, editVars, lspVars, tuiVars>>
  \/ /\ component = "edit" /\ EditNext
     /\ UNCHANGED <<component, promoteVars, sessionVars, authVars, noteVars, lspVars, tuiVars>>
  \/ /\ component = "lsp" /\ LspNext
     /\ UNCHANGED <<component, promoteVars, sessionVars, authVars, noteVars, editVars, tuiVars>>
  \/ /\ component = "tui" /\ TuiNext
     /\ UNCHANGED <<component, promoteVars, sessionVars, authVars, noteVars, editVars, lspVars>>

ServicesSpec == ServicesInit /\ [][ServicesNext]_serviceVars

\* The type invariants of the seven.
ServicesTypeOK ==
  /\ PromoteTypeOK /\ SessionTypeOK /\ AuthTypeOK /\ NotesTypeOK /\ EditTypeOK /\ LspTypeOK
  /\ TuiTypeOK
=============================================================================
