---------------------------- MODULE SerialParser ----------------------------
(***************************************************************************)
(* PhotonParser implements AtomicParser: what the goroutines do to the     *)
(* parser, step by step and under the mutex, is what whole packets would   *)
(* do one after the other, in the order in which the mutex was taken.      *)
(*                                                                         *)
(* The history variable base is the parser's state when the mutex was last *)
(* free, with the packet of the goroutine that freed it: that is the state *)
(* of AtomicParser, which changes at Unlock.                               *)
(***************************************************************************)
EXTENDS PhotonParser, Payloads

CONSTANT Byte            \* what payloads are made of

VARIABLE base

(* A packet of PhotonParser stands for the bytes that a peer writes, all   *)
(* of them or the first p.size.                                            *)
Payload == {PacketBytes(p) : p \in Packet}

MessageLen(c) ==
  BodyLen(c) - IF c.type = cmdSendUnreliable THEN UnreliableSeqLen ELSE 0

FragmentOf(n) ==
  [ startSeq : Int32Type, fragCount : Int32Type, totalLen : Int32Type,
    fragOffset : Int32Type, payloadLen : {n}, payload : [0 .. n - 1 -> Byte] ]

(* What a command carries is as long as its length field says.             *)
Consistent(c) ==
  /\ c.type \in 0 .. 255 /\ c.length \in Int32Type
  /\ CarriesMessage(c) /\ ~ ShortBody(c) => c.body \in [0 .. MessageLen(c) - 1 -> Byte]
  /\ CarriesFragment(c) => c.frag \in FragmentOf(BodyLen(c) - FragmentHeaderLen)

ASSUME BytesAssumption ==
  /\ 0 .. 255 \subseteq Byte
  /\ \A p \in Packet :
       /\ p.size <= Len(Written(p)[Len(p.cmds)])
       /\ \A n \in 1 .. Len(p.cmds) : Consistent(p.cmds[n])

State(t, n, c, p) == [table |-> t, counts |-> n, calls |-> c, last |-> p]

SInit == Init /\ base = State(fragments, counts, calls, <<>>)
SNext ==
  /\ Next
  /\ base' = IF mu # NoOne /\ mu' = NoOne
             THEN State(fragments', counts', calls', PacketBytes(packet[mu]))
             ELSE base

SSpec == SInit /\ [][SNext]_<<vars, base>>
SFairSpec == SSpec /\ Fairness

Atomic == INSTANCE AtomicParser WITH
  table <- base.table, counts <- base.counts, calls <- base.calls,
  last <- base.last

(* Parse is atomic, and does what a plain loop over the bytes of the       *)
(* payload does: neither an early return or a panic in a packet, nor       *)
(* another device's packet, shows in what a packet does.                   *)
ParseIsAtomic == Atomic!Spec
=============================================================================
