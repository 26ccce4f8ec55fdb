---------------------------- MODULE WholeMessages ----------------------------
(***************************************************************************)
(* What message reassembly promises to the rest of the logger: a message   *)
(* is handed over once, whole, at the moment its last missing fragment is  *)
(* captured, and at no other moment.  No buffers, counters or offsets.     *)
(* Nothing is promised of a message from the moment on when one of its     *)
(* fragments is captured again: it is struck from what was handed over.    *)
(***************************************************************************)
EXTENDS Sequences, Naturals, Subsequences

CONSTANTS Msg,      \* the messages the peers send in fragments
          Count     \* Count[m] is the number of fragments of m

VARIABLES missing,  \* missing[m]: the fragments of m not captured yet
          repeated, \* the messages of which a fragment was captured again
          out       \* the other messages handed over, in order

avars == <<missing, repeated, out>>

Init ==
  /\ missing = [m \in Msg |-> 0 .. Count[m] - 1]
  /\ repeated = {}
  /\ out = <<>>

Capture(m, i) ==
  /\ i \in missing[m]
  /\ missing' = [missing EXCEPT ![m] = @ \ {i}]
  /\ UNCHANGED repeated
  /\ out' = IF missing[m] = {i} /\ m \notin repeated THEN Append(out, m) ELSE out

Repeat(m) ==
  /\ missing[m] # 0 .. Count[m] - 1
  /\ repeated' = repeated \cup {m}
  /\ UNCHANGED missing
  /\ out' = Filtered(out, Msg \ {m})

Next == \E m \in Msg : Repeat(m) \/ \E i \in 0 .. Count[m] - 1 : Capture(m, i)

Spec == Init /\ [][Next]_avars
=============================================================================
