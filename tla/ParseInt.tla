------------------------------ MODULE ParseInt ------------------------------
(***************************************************************************)
(* parseIntStrict (internal/loot/controller.go), which decides whether the *)
(* name that loot was taken from is an object id.  int has Width bits and  *)
(* wraps around; TLC uses a small width.                                   *)
(***************************************************************************)
EXTENDS Ints

CONSTANT Width          \* the width of int

ASSUME WidthAssumption == Width \in Nat \ {0}

Half == PowerOfTwo[Width - 1]

IntType == SignedRange(Width)
Wrapped(n) == WrappedAt(Half, n)
Magnitude(u) == MagnitudeAt(Half, u)

ParseIntStrict_NoSign(s) ==
  IF s = <<>> \/ \E j \in DOMAIN Unsigned(s) : Unsigned(s)[j] \notin Digit
  THEN NotANumber
  ELSE [ok |-> TRUE, n |-> Magnitude(Unsigned(s))]

ParseIntStrict(s) == ParseIntAt(Half, s)

(* A name without a leading zero, a lone minus or as many digits as the    *)
(* greatest int has.                                                       *)
Canonical(s) ==
  /\ Unsigned(s) # <<>> /\ Len(Unsigned(s)) < Len(Numeral[Half])
  /\ Unsigned(s)[1] = 0 => s = <<0>>
=============================================================================
