--------------------------- MODULE MCTerminalPage ---------------------------
(***************************************************************************)
(* Model values for what is behind a terminal on a page: the backend's     *)
(* attach that feeds it (TerminalAttach) and the panes that it is shown in *)
(* (WorkspacePanes).  They share no state; a behaviour is one of one of    *)
(* them, while the other stays as it begins.                               *)
(***************************************************************************)
EXTENDS TerminalAttach, WorkspacePanes

VARIABLE component

pageVars == <<component, vars, paneVars>>

PageInit == component \in {"attach", "panes"} /\ Init /\ PanesInit

\* A step of one component, the one the behaviour is about.
InAttach(A) == component = "attach" /\ A /\ UNCHANGED <<component, paneVars>>
InPanes(A)  == component = "panes" /\ A /\ UNCHANGED <<component, vars>>

PageNext == InAttach(Next) \/ InPanes(PanesNext)

\* Fairness of TerminalAttach, of its own steps.
PageFairness ==
  /\ WF_pageVars(InAttach(FanOut \/ NotifyExited))
  /\ \A c \in Clients : WF_pageVars(InAttach(Attaches(c))) /\ WF_pageVars(InAttach(Write(c)))

PageSpec == PageInit /\ [][PageNext]_pageVars /\ PageFairness

\* The type invariants of the two.
PageTypeOK == TypeOK /\ PanesTypeOK
=============================================================================
