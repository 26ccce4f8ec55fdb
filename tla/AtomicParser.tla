---------------------------- MODULE AtomicParser ----------------------------
(***************************************************************************)
(* What Parser.Parse promises its callers: payloads take effect one after  *)
(* the other, each in one step, as a loop over its bytes would do it that  *)
(* nobody else sees.                                                       *)
(***************************************************************************)
CONSTANTS
  Payload,         \* what the capture layer forwards: sequences of bytes
  NewParser,       \* the state of a parser before the first payload
  Parsed(_, _)     \* the state after a payload (of Payloads)

VARIABLES
  table,    \* the fragment buffers
  counts,   \* how many messages were seen and decoded, by kind
  calls,    \* the messages given to the handler, in order
  last      \* the payload that took effect last; history

State == [table |-> table, counts |-> counts, calls |-> calls]

Init == State = NewParser /\ last = <<>>

Parse(b) ==
  /\ last' = b
  /\ State' = Parsed(State, b)

Next == \E b \in Payload : Parse(b)

Spec == Init /\ [][Next]_<<table, counts, calls, last>>
=============================================================================
