---------------------------- MODULE MCReassembly ----------------------------
(* Constants for the runs of Reassembly.                                   *)
EXTENDS Reassembly, TLC

CONSTANTS m1, m2, m3, Junk

Boundaries(t) == [i \in 0 .. Len(t) - 1 |-> t[i + 1]]

(* m1 has three fragments of different lengths, m2 and m3 have two.        *)
TwoMsg == {m1, m2}
ThreeMsg == {m1, m2, m3}
MCCount == Restrict(m1 :> 3 @@ m2 :> 2 @@ m3 :> 2, Msg)
MCCut == m1 :> Boundaries(<<0, 2, 3, 4>>) @@ m2 :> Boundaries(<<0, 2, 3>>)
         @@ m3 :> Boundaries(<<0, 1, 3>>)

(* Each message has a number of its own, or m2 and m3 come from two        *)
(* streams that use the same one.                                          *)
DistinctSeq == Restrict(m1 :> 1 @@ m2 :> 2 @@ m3 :> 3, Msg)
SharedSeq == Restrict(m1 :> 1 @@ m2 :> 2 @@ m3 :> 2, Msg)

Other(s, count, total, offset, n) ==
  [ startSeq |-> s, fragCount |-> count, totalLen |-> total,
    fragOffset |-> offset, payloadLen |-> n,
    payload |-> [j \in 0 .. n - 1 |-> Junk] ]

(* On number 4 a fragment that opens a buffer of two bytes and one that    *)
(* lies beyond it; a negative offset; on number 5 a fragment that says it  *)
(* is the only one, and is shorter than its message.                       *)
NoNoise == {}
WildNoise == {Other(4, 3, 2, 0, 1), Other(4, 3, 5, 3, 1),
              Other(4, 3, 4, -1, 1), Other(5, 0, 3, 1, 1)}
=============================================================================
