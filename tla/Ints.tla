-------------------------------- MODULE Ints --------------------------------
(***************************************************************************)
(* Go's integers: their widths, how parseIntStrict reads one (internal/    *)
(* loot/controller.go), and what fmt and strconv print for one.            *)
(* A numeral is a sequence of characters, and a character is a digit       *)
(* 0 .. 9, Minus or something else.                                        *)
(***************************************************************************)
EXTENDS Integers, Sequences

PowerOfTwo[n \in Nat] == IF n = 0 THEN 1 ELSE 2 * PowerOfTwo[n - 1]

SignedRange(bits) == -PowerOfTwo[bits - 1] .. PowerOfTwo[bits - 1] - 1

(* An int with half ints below zero wraps around.                          *)
WrappedAt(half, n) == ((n + half) % (2 * half)) - half

Minus == 10
Digit == 0 .. 9

Negative(s) == s # <<>> /\ s[1] = Minus
Unsigned(s) == IF Negative(s) THEN Tail(s) ELSE s

(* The number that the loop over the runes has after the digits u.         *)
MagnitudeAt(half, u) ==
  LET n[j \in 0 .. Len(u)] ==
        IF j = 0 THEN 0 ELSE WrappedAt(half, n[j - 1] * 10 + u[j])
  IN n[Len(u)]

NotANumber == [ok |-> FALSE, n |-> 0]

ParseIntAt(half, s) ==
  IF s = <<>> \/ \E j \in DOMAIN Unsigned(s) : Unsigned(s)[j] \notin Digit
  THEN NotANumber
  ELSE [ok |-> TRUE, n |-> IF Negative(s) THEN WrappedAt(half, -MagnitudeAt(half, Unsigned(s)))
                                          ELSE MagnitudeAt(half, Unsigned(s))]

-----------------------------------------------------------------------------
(* What is printed for an int: the reference.                              *)
Numeral[n \in Nat] ==
  IF n < 10 THEN <<n>> ELSE Append(Numeral[n \div 10], n % 10)

Decimal(n) == IF n < 0 THEN <<Minus>> \o Numeral[-n] ELSE Numeral[n]
=============================================================================
