---------------------------- MODULE TerminalFeed ----------------------------
(***************************************************************************)
(* What a shared terminal attach promises its viewers: a sequence of       *)
(* frames, numbered from 1, published to everyone watching at once.  A     *)
(* viewer starts at the present, follows without missing a frame, and may  *)
(* be cut off; a viewer that was cut off is given nothing more.            *)
(***************************************************************************)
EXTENDS Naturals

CONSTANTS Viewers, Feeds

VARIABLES
  published,  \* feed -> the frames published so far
  watching,   \* feed -> the viewers that follow it
  upto        \* viewer -> the last frame it has been given while it follows

vars == <<published, watching, upto>>

Init ==
  /\ published = [f \in Feeds |-> 0]
  /\ watching = [f \in Feeds |-> {}]
  /\ upto = [v \in Viewers |-> 0]

\* A new viewer is given the frames so far, which may include the next one.
Join(v, f) ==
  /\ \A g \in Feeds : v \notin watching[g]
  /\ watching' = [watching EXCEPT ![f] = @ \cup {v}]
  /\ \E n \in {published[f], published[f] + 1} : upto' = [upto EXCEPT ![v] = n]
  /\ UNCHANGED published

\* The next frame for those that stay; a viewer that cannot take it is cut off.
Publish(f, stay) ==
  /\ published' = [published EXCEPT ![f] = @ + 1]
  /\ watching' = [watching EXCEPT ![f] = stay]
  /\ upto' = [v \in Viewers |-> IF v \in stay THEN published'[f]
                                ELSE IF v \in watching[f] THEN 0 ELSE upto[v]]

CutOff(f, stay) ==
  /\ watching' = [watching EXCEPT ![f] = stay]
  /\ upto' = [v \in Viewers |-> IF v \in watching[f] \ stay THEN 0 ELSE upto[v]]
  /\ UNCHANGED published

Next ==
  \E f \in Feeds :
    \/ \E v \in Viewers : Join(v, f)
    \/ \E stay \in SUBSET watching[f] : Publish(f, stay) \/ CutOff(f, stay)

Spec == Init /\ [][Next]_vars
=============================================================================
