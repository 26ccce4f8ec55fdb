---------------------------- MODULE PhotonParser ----------------------------
(***************************************************************************)
(* photon.Parser as the goroutines that capture see it: each calls Parse   *)
(* with the payloads of its own device, one at a time, and all share one   *)
(* Parser.  A step of Parse is the work between two points where another   *)
(* goroutine, or a reader of the atomic counters, may get in.              *)
(***************************************************************************)
EXTENDS Packets

CONSTANTS
  Device,       \* the capturing goroutines
  Packet,       \* the payloads the capture layer forwards
  MaxPackets,   \* how many payloads are captured (a bound)
  NoOne         \* the mutex is free

ASSUME ParserAssumption ==
  /\ NoOne \notin Device
  /\ MaxPackets \in Nat

(* After the last command a packet has less than one more header.          *)
Laid(p) == FoldLeft(LAMBDA n, c : n + c.length, HeaderLen, p.cmds)

ASSUME PacketAssumption ==
  \A p \in Packet :
    /\ p.size \in Nat /\ p.count \in 0 .. 255
    /\ Len(p.cmds) \in Nat
    /\ \A n \in 1 .. Len(p.cmds) : p.cmds[n].length \in Int
    /\ p.size - Laid(p) < HeaderLen

VARIABLES
  mu,           \* Parser.mu: the goroutine that holds it, or NoOne
  fragments,    \* Parser.fragments
  packets,      \* Parser.packets
  counts,       \* Parser.messages, .events, .requests and .responses
  calls,        \* the messages given to the handler, in order
  pc,           \* where each goroutine is in Parse
  packet,       \* the payload each goroutine parses
  at,           \* how many of its commands are done
  left,         \* how many of its bytes are unread
  body          \* the message each goroutine is handling

parser == <<mu, fragments, packets, counts, calls>>
frames == <<pc, packet, at, left, body>>
vars == <<parser, frames>>

Kinds == {"events", "requests", "responses"}
Counters == {"messages"} \cup Kinds

NoBody == [k \in {} |-> Zero]

Init ==
  /\ mu = NoOne
  /\ fragments = [s \in {} |-> Zero]
  /\ packets = 0
  /\ counts = [f \in Counters |-> 0]
  /\ calls = <<>>
  /\ pc = [d \in Device |-> "idle"]
  /\ packet = [d \in Device |-> NoPacket]
  /\ at = [d \in Device |-> 0]
  /\ left = [d \in Device |-> 0]
  /\ body = [d \in Device |-> NoBody]

-----------------------------------------------------------------------------
Goes(d, from, to) == pc[d] = from /\ pc' = [pc EXCEPT ![d] = to]

(* Parse is called: the packet is counted before the mutex is taken.       *)
Parse(d, p) ==
  /\ packets < MaxPackets
  /\ Goes(d, "idle", "lock")
  /\ packets' = packets + 1
  /\ packet' = [packet EXCEPT ![d] = p]
  /\ UNCHANGED <<mu, fragments, counts, calls, at, left, body>>

Lock_TakenAnyway(d) ==
  /\ Goes(d, "lock", "header")
  /\ mu' = d
  /\ UNCHANGED <<fragments, packets, counts, calls, packet, at, left, body>>

Lock(d) ==
  /\ Goes(d, "lock", "header")
  /\ mu = NoOne
  /\ mu' = d
  /\ UNCHANGED <<fragments, packets, counts, calls, packet, at, left, body>>

ReadHeader(d) ==
  /\ Goes(d, "header", IF packet[d].size < HeaderLen THEN "unlock" ELSE "commands")
  /\ at' = [at EXCEPT ![d] = 0]
  /\ left' = IF packet[d].size < HeaderLen THEN left
             ELSE [left EXCEPT ![d] = packet[d].size - HeaderLen]
  /\ UNCHANGED <<parser, packet, body>>

EndOfCommands(d) ==
  /\ Goes(d, "commands", "unlock")
  /\ at[d] = packet[d].count
  /\ UNCHANGED <<parser, packet, at, left, body>>

-----------------------------------------------------------------------------
(* parseCommand.                                                           *)
Fits(d) == CommandFits(packet[d], at[d], left[d])
NextCommand(d) == packet[d].cmds[at[d] + 1]

Abort(d) ==
  /\ Goes(d, "commands", "unlock")
  /\ at[d] < packet[d].count
  /\ ~ (Fits(d) /\ ~ ShortBody(NextCommand(d)))
  /\ UNCHANGED <<parser, packet, at, left, body>>

(* The command is read and the loop goes on behind it.                     *)
Consume(d) ==
  /\ at[d] < packet[d].count
  /\ Fits(d)
  /\ at' = [at EXCEPT ![d] = @ + 1]
  /\ left' = [left EXCEPT ![d] = @ - NextCommand(d).length]
  /\ UNCHANGED <<mu, packets, counts, calls, packet>>

Skip(d) ==
  /\ Goes(d, "commands", "commands")
  /\ Consume(d)
  /\ Skipped(NextCommand(d))
  /\ UNCHANGED <<fragments, body>>

TakeMessage(d) ==
  /\ Goes(d, "commands", "message")
  /\ Consume(d)
  /\ CarriesMessage(NextCommand(d)) /\ ~ ShortBody(NextCommand(d))
  /\ body' = [body EXCEPT ![d] = NextCommand(d).body]
  /\ UNCHANGED fragments

Fragment(d) == NextCommand(d).frag
Buffer(d) == BufferFor(fragments, Fragment(d))

(* handleFragment: the four ways a fragment command with a whole header    *)
(* ends.                                                                   *)
Discard(d) ==
  /\ Goes(d, "commands", "commands")
  /\ Consume(d)
  /\ CarriesFragment(NextCommand(d)) /\ Nonsensical(Fragment(d))
  /\ UNCHANGED <<fragments, body>>

(* The panic runs the two deferred functions of Parse: recover, and the    *)
(* mutex is free again.  The rest of the packet is dropped.                *)
Panic_StillLocked(d) ==
  /\ Goes(d, "commands", "idle")
  /\ Consume(d)
  /\ CarriesFragment(NextCommand(d)) /\ ~ Nonsensical(Fragment(d))
  /\ OffsetPanics(Buffer(d), Fragment(d))
  /\ UNCHANGED <<fragments, body>>

Panic_NextCommand(d) ==
  /\ Goes(d, "commands", "commands")
  /\ Consume(d)
  /\ CarriesFragment(NextCommand(d)) /\ ~ Nonsensical(Fragment(d))
  /\ OffsetPanics(Buffer(d), Fragment(d))
  /\ UNCHANGED <<fragments, body>>

Panic(d) ==
  /\ Goes(d, "commands", "unlock")
  /\ Consume(d)
  /\ CarriesFragment(NextCommand(d)) /\ ~ Nonsensical(Fragment(d))
  /\ OffsetPanics(Buffer(d), Fragment(d))
  /\ UNCHANGED <<fragments, body>>

Keep(d) ==
  LET f == Fragment(d)
      b == Filled(Buffer(d), f)
  IN /\ Goes(d, "commands", "commands")
     /\ Consume(d)
     /\ CarriesFragment(NextCommand(d)) /\ ~ Nonsensical(f)
     /\ ~ OffsetPanics(Buffer(d), f) /\ ~ Finished(b)
     /\ fragments' = With(fragments, f.startSeq, b)
     /\ UNCHANGED body

Deliver(d) ==
  LET f == Fragment(d)
      b == Filled(Buffer(d), f)
  IN /\ Goes(d, "commands", "message")
     /\ Consume(d)
     /\ CarriesFragment(NextCommand(d)) /\ ~ Nonsensical(f)
     /\ ~ OffsetPanics(Buffer(d), f) /\ Finished(b)
     /\ fragments' = Without(fragments, f.startSeq)
     /\ body' = [body EXCEPT ![d] = b.data]

-----------------------------------------------------------------------------
(* handleMessage and the three decoders.                                   *)
Ignore(d) ==
  /\ Goes(d, "message", "commands")
  /\ ~ Dispatched(body[d])
  /\ UNCHANGED <<parser, packet, at, left, body>>

CountMessage_NoResponse(d) ==
  /\ Goes(d, "message", "decode")
  /\ Dispatched(body[d])
  /\ counts' = IF Kind(body[d]) = "responses" THEN counts
               ELSE [counts EXCEPT !["messages"] = @ + 1]
  /\ UNCHANGED <<mu, fragments, packets, calls, packet, at, left, body>>

CountMessage(d) ==
  /\ Goes(d, "message", "decode")
  /\ Dispatched(body[d])
  /\ counts' = [counts EXCEPT !["messages"] = @ + 1]
  /\ UNCHANGED <<mu, fragments, packets, calls, packet, at, left, body>>

TooLittleData(d) ==
  /\ Goes(d, "decode", "commands")
  /\ ~ Decodes(body[d])
  /\ UNCHANGED <<parser, packet, at, left, body>>

CountDecoded(d) ==
  /\ Goes(d, "decode", "call")
  /\ Decodes(body[d])
  /\ counts' = [counts EXCEPT ![Kind(body[d])] = @ + 1]
  /\ UNCHANGED <<mu, fragments, packets, calls, packet, at, left, body>>

(* The handler is called and returns.                                      *)
Call(d) ==
  /\ Goes(d, "call", "called")
  /\ calls' = Append(calls, body[d])
  /\ UNCHANGED <<mu, fragments, packets, counts, packet, at, left, body>>

Return(d) ==
  /\ Goes(d, "called", "commands")
  /\ UNCHANGED <<parser, packet, at, left, body>>

Unlock(d) ==
  /\ Goes(d, "unlock", "idle")
  /\ mu' = NoOne
  /\ UNCHANGED <<fragments, packets, counts, calls, packet, at, left, body>>

Work(d) ==
  \/ ReadHeader(d) \/ EndOfCommands(d) \/ Abort(d) \/ Skip(d)
  \/ TakeMessage(d) \/ Discard(d) \/ Panic(d) \/ Keep(d) \/ Deliver(d)
  \/ Ignore(d) \/ CountMessage(d) \/ TooLittleData(d) \/ CountDecoded(d)
  \/ Call(d) \/ Return(d) \/ Unlock(d)

Next == \E d \in Device :
  \/ \E p \in Packet : Parse(d, p)
  \/ Lock(d)
  \/ Work(d)

Spec == Init /\ [][Next]_vars

(* The scheduler runs every goroutine that can run, and a sync.Mutex goes  *)
(* into starvation mode rather than pass over a waiter for ever.  Packets  *)
(* need not arrive.                                                        *)
Fairness == \A d \in Device : WF_vars(Work(d)) /\ SF_vars(Lock(d))

FairSpec == Spec /\ Fairness

-----------------------------------------------------------------------------
(* Properties.                                                             *)

Inside == {"header", "commands", "message", "decode", "call", "called", "unlock"}

(* left is never negative: no command is read beyond the end of a payload. *)
TypeOK ==
  /\ mu \in Device \cup {NoOne}
  /\ packets \in Nat
  /\ counts \in [Counters -> Nat]
  /\ calls \in Seq(Range(calls))
  /\ pc \in [Device -> {"idle", "lock"} \cup Inside]
  /\ packet \in [Device -> Packet \cup {NoPacket}]
  /\ at \in [Device -> Nat]
  /\ left \in [Device -> Nat]
  /\ DOMAIN body = Device

(* A goroutine inside Parse's critical section holds the mutex, so that    *)
(* handler calls never overlap: what the comment on Handler lets an        *)
(* implementation rely on, although the calls come from many goroutines.   *)
Exclusive == \A d \in Device : pc[d] \in Inside <=> mu = d

(* How many messages are between two counters.                             *)
Between(q) == IF \E d \in Device : pc[d] = q THEN 1 ELSE 0

Decoded == counts["events"] + counts["requests"] + counts["responses"]

(* The counters tell the truth about the handler at every instant: a       *)
(* message counted as event, request or response has been given to it, but *)
(* for the one about to be.                                                *)
CountsMatchCalls == Decoded = Len(calls) + Between("call")

(* No decoded message is missing in the message counter, whichever         *)
(* goroutine counted it and whatever panicked.                             *)
DecodedWithinMessages == Decoded + Between("decode") <= counts["messages"]

(* A packet that was counted is parsed to its end or dropped, whatever the *)
(* other goroutines do and whatever panics.                                *)
ParseReturns == \A d \in Device : pc[d] = "lock" ~> pc[d] = "idle"
=============================================================================
