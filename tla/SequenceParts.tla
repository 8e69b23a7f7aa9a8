---------------------------- MODULE SequenceParts -----------------------------
(***************************************************************************)
(* What several components do with their lists: take members out and keep  *)
(* the others in their order (Vec::retain, filter).  It is SelectSeq of a  *)
(* set, as a function over the length, whose value can be reasoned about.  *)
(***************************************************************************)
EXTENDS Integers, Sequences

\* The members of s that are not in a set, in their order.
Without(s, out) ==
  LET kept[i \in 0 .. Len(s)] ==
        IF i = 0 THEN <<>>
        ELSE IF s[i] \in out THEN kept[i - 1] ELSE Append(kept[i - 1], s[i])
  IN  kept[Len(s)]
=============================================================================
