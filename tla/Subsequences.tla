---------------------------- MODULE Subsequences ----------------------------
(* What is left of a sequence when only some elements are looked at.       *)
EXTENDS Naturals, Sequences

(* The elements of s that are in S, in their order: SelectSeq for a test   *)
(* that is a set, so that facts about one S are facts about all.           *)
Filtered(s, S) ==
  LET kept[n \in 0 .. Len(s)] ==
        IF n = 0 THEN <<>>
        ELSE IF s[n] \in S THEN Append(kept[n - 1], s[n]) ELSE kept[n - 1]
  IN kept[Len(s)]
=============================================================================
