---------------------------- MODULE ParserProofs ----------------------------
(***************************************************************************)
(* The properties of PhotonParser for any number of capturing goroutines,  *)
(* any packets and any number of them, and that SerialParser implements    *)
(* AtomicParser.                                                           *)
(***************************************************************************)
EXTENDS SerialParser, DataLemmas, FiniteSetTheorems

(* The actions of Work(d) that only move d inside the critical section.    *)
Moves(d) ==
  \/ ReadHeader(d) \/ EndOfCommands(d) \/ Abort(d) \/ Skip(d)
  \/ TakeMessage(d) \/ Discard(d) \/ Panic(d) \/ Keep(d) \/ Deliver(d)
  \/ Ignore(d) \/ TooLittleData(d) \/ Return(d)

-----------------------------------------------------------------------------
(* TypeOK holds initially ...                                              *)
LEMMA TypeInit ==
  ASSUME Init PROVE TypeOK
  BY EmptyHistory DEF Init, TypeOK

(* Reading a command leaves no fewer than zero bytes.                      *)
LEMMA ConsumeType ==
  ASSUME TypeOK, NEW d \in Device, Consume(d)
  PROVE  /\ at' \in [Device -> Nat] /\ left' \in [Device -> Nat]
         /\ UNCHANGED <<mu, packets, counts, calls, packet>>
<1>1. /\ packet[d] \in Packet \cup {NoPacket} /\ at[d] \in Nat /\ left[d] \in Nat
      /\ at[d] < Len(packet[d].cmds)
      /\ NextCommand(d).length - HeaderLen <= left[d] - HeaderLen
  BY DEF TypeOK, Consume, Fits, CommandFits, NextCommand, BodyLen
<1>2. NextCommand(d).length \in Int
  <2>1. CASE packet[d] = NoPacket
    BY <1>1, <2>1 DEF NoPacket
  <2>2. CASE packet[d] \in Packet
    BY <1>1, <2>2, PacketAssumption DEF NextCommand
  <2> QED
    BY <1>1, <2>1, <2>2
<1>3. left[d] - NextCommand(d).length \in Nat
  BY <1>1, <1>2 DEF HeaderLen
<1> QED
  BY <1>1, <1>3 DEF Consume, TypeOK

(* ... and every step preserves it.                                        *)
LEMMA TypeNext ==
  ASSUME TypeOK, [Next]_vars PROVE TypeOK'
<1>1. ASSUME NEW d \in Device, NEW p \in Packet, Parse(d, p) PROVE TypeOK'
  BY <1>1 DEF TypeOK, Parse, Goes, Inside
<1>2. ASSUME NEW d \in Device, Lock(d) PROVE TypeOK'
  BY <1>2 DEF TypeOK, Lock, Goes, Inside
<1>3. ASSUME NEW d \in Device, ReadHeader(d) PROVE TypeOK'
  <2>1. packet[d].size \in Nat
    BY PacketAssumption DEF TypeOK, NoPacket
  <2> QED
    BY <1>3, <2>1 DEF TypeOK, ReadHeader, Goes, Inside, parser, HeaderLen
<1>4. ASSUME NEW d \in Device, EndOfCommands(d) \/ Abort(d) PROVE TypeOK'
  BY <1>4 DEF TypeOK, EndOfCommands, Abort, Goes, Inside, parser
<1>5. ASSUME NEW d \in Device, Skip(d) \/ TakeMessage(d) PROVE TypeOK'
  BY <1>5, ConsumeType DEF TypeOK, Skip, TakeMessage, Goes, Inside
<1>6. ASSUME NEW d \in Device, Discard(d) \/ Panic(d) PROVE TypeOK'
  BY <1>6, ConsumeType DEF TypeOK, Discard, Panic, Goes, Inside
<1>7. ASSUME NEW d \in Device, Keep(d) \/ Deliver(d) PROVE TypeOK'
  BY <1>7, ConsumeType DEF TypeOK, Keep, Deliver, Goes, Inside
<1>8. ASSUME NEW d \in Device, Ignore(d) \/ TooLittleData(d) \/ Return(d)
      PROVE  TypeOK'
  BY <1>8 DEF TypeOK, Ignore, TooLittleData, Return, Goes, Inside, parser
<1>9. ASSUME NEW d \in Device, CountMessage(d) \/ CountDecoded(d) PROVE TypeOK'
  <2>1. ASSUME NEW k PROVE [counts EXCEPT ![k] = @ + 1] \in [Counters -> Nat]
    <3>1. counts \in [Counters -> Nat]
      BY DEF TypeOK
    <3>2. CASE k \in Counters
      <4>1. counts[k] + 1 \in Nat
        BY <3>1, <3>2
      <4> QED
        BY <3>1, <4>1
    <3>3. CASE k \notin Counters
      BY <3>1, <3>3
    <3> QED
      BY <3>2, <3>3
  <2>2. counts' \in [Counters -> Nat]
    BY <1>9, <2>1 DEF CountMessage, CountDecoded
  <2> QED
    BY <1>9, <2>2 DEF TypeOK, CountMessage, CountDecoded, Goes, Inside
<1>10. ASSUME NEW d \in Device, Call(d) PROVE TypeOK'
  <2>1. calls' \in Seq(Range(calls'))
    BY <1>10, HistoryAppend DEF TypeOK, Call
  <2> QED
    BY <1>10, <2>1 DEF TypeOK, Call, Goes, Inside
<1>11. ASSUME NEW d \in Device, Unlock(d) PROVE TypeOK'
  BY <1>11 DEF TypeOK, Unlock, Goes, Inside
<1>12. CASE UNCHANGED vars
  BY <1>12 DEF TypeOK, vars, parser, frames
<1> QED
  BY <1>1, <1>2, <1>3, <1>4, <1>5, <1>6, <1>7, <1>8, <1>9, <1>10, <1>11, <1>12
  DEF Next, Work

(* TypeOK in every reachable state; in particular no command is read       *)
(* beyond the end of a payload.                                            *)
THEOREM TypeCorrect == Spec => []TypeOK
  BY TypeInit, TypeNext, PTL DEF Spec

-----------------------------------------------------------------------------
(* The mutex.                                                              *)

(* These actions keep the mutex and touch no counter.                      *)
LEMMA MovesInside ==
  ASSUME NEW d \in Device, Moves(d)
  PROVE  \E q, r \in Inside \ {"call"} :
           /\ Goes(d, q, r) /\ r # "decode"
           /\ UNCHANGED <<mu, counts, calls, packets>>
  BY DEF Moves, ReadHeader, EndOfCommands, Abort, Skip, TakeMessage, Discard,
         Panic, Keep, Deliver, Ignore, TooLittleData, Return, Consume, Goes,
         parser, Inside

(* Every step preserves Exclusive.                                         *)
LEMMA ExclusiveNext ==
  ASSUME TypeOK, Exclusive, [Next]_vars PROVE Exclusive'
<1>1. ASSUME NEW d \in Device, NEW p \in Packet, Parse(d, p) PROVE Exclusive'
  BY <1>1 DEF TypeOK, Exclusive, Parse, Goes, Inside
<1>2. ASSUME NEW d \in Device, Lock(d) PROVE Exclusive'
  BY <1>2, ParserAssumption DEF TypeOK, Exclusive, Lock, Goes, Inside
<1>3. ASSUME NEW d \in Device, Moves(d) PROVE Exclusive'
  BY <1>3, MovesInside DEF TypeOK, Exclusive, Goes
<1>4. ASSUME NEW d \in Device, CountMessage(d) \/ CountDecoded(d) \/ Call(d)
      PROVE  Exclusive'
  BY <1>4 DEF TypeOK, Exclusive, CountMessage, CountDecoded, Call, Goes, Inside
<1>5. ASSUME NEW d \in Device, Unlock(d) PROVE Exclusive'
  BY <1>5, ParserAssumption DEF TypeOK, Exclusive, Unlock, Goes, Inside
<1>6. ASSUME UNCHANGED vars PROVE Exclusive'
  BY <1>6 DEF Exclusive, vars, parser, frames
<1> QED
  BY <1>1, <1>2, <1>3, <1>4, <1>5, <1>6 DEF Next, Work, Moves

(* At most one goroutine is inside Parse's critical section, and it holds  *)
(* the mutex: handler calls do not overlap.                                *)
THEOREM ExclusiveHolds == Spec => []Exclusive
<1>1. Init => Exclusive
  BY ParserAssumption DEF Init, Exclusive, Inside
<1> QED
  BY <1>1, TypeInit, TypeNext, ExclusiveNext, PTL DEF Spec
-----------------------------------------------------------------------------
(* The counters.                                                           *)

(* Only a message that handleMessage dispatches is decoded.                *)
DecodesDispatched ==
  \A d \in Device : pc[d] = "decode" => Dispatched(body[d])

CountsOK == CountsMatchCalls /\ DecodedWithinMessages

(* Only the goroutine that holds the mutex can be between two counters.    *)
LEMMA BetweenHolder ==
  ASSUME Exclusive, NEW d \in Device, mu = d, NEW q \in Inside
  PROVE  Between(q) = IF pc[d] = q THEN 1 ELSE 0
  BY DEF Exclusive, Between

(* A step that counts nothing, calls nothing and brings nobody between two *)
(* counters or away from there.                                            *)
LEMMA CountsSame ==
  ASSUME TypeOK, CountsOK, UNCHANGED <<counts, calls>>,
         Between("call")' = Between("call"),
         Between("decode")' = Between("decode") \/ Between("decode")' = 0
  PROVE  CountsOK'
<1>1. /\ Decoded' = Decoded /\ Len(calls)' = Len(calls)
      /\ counts'["messages"] = counts["messages"]
  BY DEF Decoded
<1>2. Decoded \in Nat /\ counts["messages"] \in Nat
  BY DEF TypeOK, Decoded, Counters, Kinds
<1>3. Between("decode") \in Nat
  BY DEF Between
<1> QED
  BY <1>1, <1>2, <1>3 DEF CountsOK, CountsMatchCalls, DecodedWithinMessages

(* Every step preserves DecodesDispatched.                                 *)
LEMMA DispatchedNext ==
  ASSUME TypeOK, DecodesDispatched, [Next]_vars PROVE DecodesDispatched'
<1>1. ASSUME NEW d \in Device, NEW r \in Inside,
             pc' = [pc EXCEPT ![d] = r], r # "decode",
             \A e \in Device : e # d => body'[e] = body[e]
      PROVE  DecodesDispatched'
  BY <1>1 DEF DecodesDispatched, TypeOK
<1>3. ASSUME NEW d \in Device, NEW p \in Packet, Parse(d, p) PROVE DecodesDispatched'
  BY <1>3 DEF Parse, Goes, DecodesDispatched, TypeOK
<1>4. ASSUME NEW d \in Device, Lock(d) PROVE DecodesDispatched'
  BY <1>4 DEF Lock, Goes, DecodesDispatched, TypeOK
<1>5. ASSUME NEW d \in Device, CountMessage(d) PROVE DecodesDispatched'
  BY <1>5 DEF CountMessage, Goes, DecodesDispatched, TypeOK
<1>6. ASSUME NEW d \in Device, Moves(d) PROVE DecodesDispatched'
  <2>1. PICK r \in Inside \ {"call", "decode"} : pc' = [pc EXCEPT ![d] = r]
    BY <1>6, MovesInside DEF Goes
  <2>2. \A e \in Device : e # d => body'[e] = body[e]
    BY <1>6 DEF Moves, ReadHeader, EndOfCommands, Abort, Skip, TakeMessage,
           Discard, Panic, Keep, Deliver, Ignore, TooLittleData, Return, TypeOK
  <2> QED
    BY <1>1, <2>1, <2>2
<1>7. ASSUME NEW d \in Device, CountDecoded(d) \/ Call(d) \/ Unlock(d)
      PROVE  DecodesDispatched'
  BY <1>7 DEF CountDecoded, Call, Unlock, Goes, DecodesDispatched, TypeOK
<1>8. ASSUME UNCHANGED vars PROVE DecodesDispatched'
  BY <1>8 DEF vars, frames, DecodesDispatched
<1> QED
  BY <1>3, <1>4, <1>5, <1>6, <1>7, <1>8 DEF Next, Work, Moves

(* Every step preserves the laws of the counters.                          *)
LEMMA CountsNext ==
  ASSUME TypeOK, Exclusive, Exclusive', DecodesDispatched, CountsOK, [Next]_vars
  PROVE  CountsOK'
<1> USE DEF Goes
<1>1. "call" \in Inside /\ "decode" \in Inside
  BY DEF Inside
<1>2. ASSUME NEW d \in Device, NEW p \in Packet, Parse(d, p) PROVE CountsOK'
  <2>1. \A e \in Device : \A q \in {"call", "decode"} : pc'[e] = q <=> pc[e] = q
    BY <1>2 DEF Parse, TypeOK
  <2>2. \A q \in {"call", "decode"} : Between(q)' = Between(q)
    BY <2>1 DEF Between
  <2> QED
    BY <1>2, <2>2, CountsSame DEF Parse
<1>3. ASSUME NEW d \in Device, Lock(d) PROVE CountsOK'
  <2>1. \A e \in Device : \A q \in {"call", "decode"} : pc'[e] = q <=> pc[e] = q
    BY <1>3 DEF Lock, TypeOK
  <2>2. \A q \in {"call", "decode"} : Between(q)' = Between(q)
    BY <2>1 DEF Between
  <2> QED
    BY <1>3, <2>2, CountsSame DEF Lock
<1>4. ASSUME NEW d \in Device, Moves(d) PROVE CountsOK'
  <2>1. PICK q \in Inside \ {"call"}, r \in Inside \ {"call", "decode"} :
          Goes(d, q, r) /\ UNCHANGED <<mu, counts, calls>>
    BY <1>4, MovesInside
  <2>2. \A e \in Device : pc'[e] = "call" <=> pc[e] = "call"
    BY <2>1 DEF TypeOK
  <2>3. \A e \in Device : pc'[e] = "decode" => pc[e] = "decode"
    BY <2>1 DEF TypeOK
  <2>4. Between("call")' = Between("call")
    BY <2>2 DEF Between
  <2>5. Between("decode")' = Between("decode") \/ Between("decode")' = 0
    BY <2>3 DEF Between
  <2> QED
    BY <2>1, <2>4, <2>5, CountsSame
<1>5. ASSUME NEW d \in Device, Unlock(d) PROVE CountsOK'
  <2>1. \A e \in Device : \A q \in {"call", "decode"} : pc'[e] = q <=> pc[e] = q
    BY <1>5 DEF Unlock, TypeOK
  <2>2. \A q \in {"call", "decode"} : Between(q)' = Between(q)
    BY <2>1 DEF Between
  <2> QED
    BY <1>5, <2>2, CountsSame DEF Unlock
<1>6. ASSUME NEW d \in Device,
             CountMessage(d) \/ CountDecoded(d) \/ Call(d)
      PROVE  /\ mu = d /\ mu' = d
             /\ \A q \in {"call", "decode"} :
                  /\ Between(q) = IF pc[d] = q THEN 1 ELSE 0
                  /\ Between(q)' = IF pc'[d] = q THEN 1 ELSE 0
  <2>1. mu = d /\ mu' = d
    BY <1>6 DEF Exclusive, CountMessage, CountDecoded, Call, Inside
  <2>2. \A q \in {"call", "decode"} : Between(q) = IF pc[d] = q THEN 1 ELSE 0
    BY <1>1, <2>1, BetweenHolder
  <2>3. \A q \in {"call", "decode"} : Between(q)' = IF pc'[d] = q THEN 1 ELSE 0
    BY <1>1, <2>1 DEF Exclusive, Between
  <2> QED
    BY <2>1, <2>2, <2>3
<1>7. ASSUME NEW d \in Device, CountMessage(d) PROVE CountsOK'
  <2>1. /\ counts'["messages"] = counts["messages"] + 1
        /\ Decoded' = Decoded /\ calls' = calls
    BY <1>7 DEF CountMessage, TypeOK, Decoded, Counters, Kinds
  <2>2. /\ Between("call") = 0 /\ Between("decode") = 0
        /\ Between("call")' = 0 /\ Between("decode")' = 1
    BY <1>6, <1>7 DEF CountMessage, TypeOK
  <2>3. Decoded \in Nat /\ counts["messages"] \in Nat
    BY DEF TypeOK, Decoded, Counters, Kinds
  <2> QED
    BY <2>1, <2>2, <2>3 DEF CountsOK, CountsMatchCalls, DecodedWithinMessages
<1>8. ASSUME NEW d \in Device, CountDecoded(d) PROVE CountsOK'
  <2>1. Kind(body[d]) \in Kinds
    BY <1>8 DEF CountDecoded, DecodesDispatched, Dispatched, Kind, Kinds
  <2>2. /\ counts'["messages"] = counts["messages"]
        /\ Decoded' = Decoded + 1 /\ calls' = calls
    <3>1. PICK k \in Kinds : counts' = [counts EXCEPT ![k] = @ + 1]
      BY <1>8, <2>1 DEF CountDecoded
    <3>2. counts \in [Counters -> Nat] /\ calls' = calls
      BY <1>8 DEF TypeOK, CountDecoded
    <3> QED
      BY <3>1, <3>2 DEF Decoded, Counters, Kinds
  <2>3. /\ Between("call") = 0 /\ Between("decode") = 1
        /\ Between("call")' = 1 /\ Between("decode")' = 0
    BY <1>6, <1>8 DEF CountDecoded, TypeOK
  <2>4. Decoded \in Nat /\ counts["messages"] \in Nat /\ Len(calls) \in Nat
    BY LenProperties DEF TypeOK, Decoded, Counters, Kinds
  <2> QED
    BY <2>2, <2>3, <2>4 DEF CountsOK, CountsMatchCalls, DecodedWithinMessages
<1>9. ASSUME NEW d \in Device, Call(d) PROVE CountsOK'
  <2>1. /\ counts' = counts /\ Decoded' = Decoded
        /\ Len(calls') = Len(calls) + 1
    BY <1>9, HistoryAppend DEF Call, TypeOK, Decoded
  <2>2. /\ Between("call") = 1 /\ Between("decode") = 0
        /\ Between("call")' = 0 /\ Between("decode")' = 0
    BY <1>6, <1>9 DEF Call, TypeOK
  <2>3. Decoded \in Nat /\ counts["messages"] \in Nat /\ Len(calls) \in Nat
    BY LenProperties DEF TypeOK, Decoded, Counters, Kinds
  <2> QED
    BY <2>1, <2>2, <2>3 DEF CountsOK, CountsMatchCalls, DecodedWithinMessages
<1>10. ASSUME UNCHANGED vars PROVE CountsOK'
  <2>1. UNCHANGED <<counts, calls, pc>>
    BY <1>10 DEF vars, parser, frames
  <2> QED
    BY <2>1, CountsSame DEF Between
<1> QED
  BY <1>2, <1>3, <1>4, <1>5, <1>7, <1>8, <1>9, <1>10 DEF Next, Work, Moves
PInv == TypeOK /\ Exclusive /\ DecodesDispatched /\ CountsOK

(* The invariant holds initially ...                                       *)
LEMMA PInvInit ==
  ASSUME Init PROVE PInv
<1>1. Exclusive /\ DecodesDispatched
  BY ParserAssumption DEF Init, Exclusive, Inside, DecodesDispatched
<1>2. Between("call") = 0 /\ Between("decode") = 0
  BY DEF Init, Between
<1>3. Decoded = 0 /\ counts["messages"] = 0 /\ Len(calls) = 0
  BY EmptyHistory DEF Init, Decoded, Counters, Kinds
<1> QED
  BY <1>1, <1>2, <1>3, TypeInit
     DEF PInv, CountsOK, CountsMatchCalls, DecodedWithinMessages

(* ... and always.                                                         *)
LEMMA PInvAlways == Spec => []PInv
<1>1. PInv /\ [Next]_vars => PInv'
  BY TypeNext, ExclusiveNext, DispatchedNext, CountsNext DEF PInv
<1> QED
  BY PInvInit, <1>1, PTL DEF Spec

(* A message counted as decoded was given to the handler, but for one.     *)
THEOREM CountsMatchCallsHolds == Spec => []CountsMatchCalls
  BY PInvAlways, PTL DEF PInv, CountsOK

(* No decoded message is missing in the message counter.                   *)
THEOREM DecodedWithinMessagesHolds == Spec => []DecodedWithinMessages
  BY PInvAlways, PTL DEF PInv, CountsOK

-----------------------------------------------------------------------------
(* The bytes of a payload are read as what they were written from.         *)
(*                                                                         *)
(* The loops over the commands, of the reader and of the writer, are       *)
(* recursive functions: what they are one command further.                 *)

(* The loop over the commands of a payload.                                *)
Start(st, b) ==
  [ table |-> st.table, counts |-> st.counts, calls |-> st.calls,
    rest |-> Unread(b, HeaderLen), open |-> TRUE ]

(* It starts behind the header and takes one command a turn.               *)
LEMMA AfterSteps ==
  ASSUME NEW st, NEW b, NEW N \in Nat, b[4] = N
  PROVE  /\ After(st, b)[0] = Start(st, b)
         /\ \A n \in 1 .. N : After(st, b)[n] = Command(After(st, b)[n - 1])
<1> DEFINE s == Start(st, b)
           Is(f, m) == f = [n \in 0 .. m |-> IF n = 0 THEN s ELSE Command(f[n - 1])]
           S == {m \in Nat : \E f : Is(f, m)}
<1>1. 0 \in S
  <2> DEFINE f == [n \in 0 .. 0 |-> s]
  <2>1. Is(f, 0)
    OBVIOUS
  <2> HIDE DEF f
  <2> QED
    BY <2>1
<1>2. ASSUME NEW m \in Nat, NEW f, Is(f, m) PROVE \E g : Is(g, m + 1)
  <2> DEFINE g == [n \in 0 .. m + 1 |-> IF n = m + 1 THEN Command(f[m]) ELSE f[n]]
  <2>1. ASSUME NEW n \in 0 .. m + 1 PROVE g[n] = IF n = 0 THEN s ELSE Command(g[n - 1])
    <3> HIDE DEF s
    <3>1. CASE n = 0
      BY <1>2, <3>1
    <3>2. CASE n = m + 1
      BY <3>2
    <3>3. CASE n # 0 /\ n # m + 1
      <4>1. n \in 0 .. m /\ n - 1 \in 0 .. m + 1 /\ n - 1 # m + 1
        BY <3>3
      <4>2. g[n] = f[n] /\ g[n - 1] = f[n - 1]
        BY <3>3, <4>1
      <4>3. f[n] = Command(f[n - 1])
        BY <1>2, <3>3, <4>1
      <4> QED
        BY <3>3, <4>2, <4>3
    <3> QED
      BY <3>1, <3>2, <3>3
  <2>2. g = [n \in 0 .. m + 1 |-> g[n]]
    OBVIOUS
  <2> HIDE DEF g, s
  <2>3. Is(g, m + 1)
    BY <2>1, <2>2
  <2> QED
    BY <2>3
<1>3. \A m \in Nat : m \in S => m + 1 \in S
  BY <1>2
<1>4. Nat \subseteq S
  <2> HIDE DEF S
  <2> QED
    BY <1>1, <1>3, Induction
<1>5. PICK h : Is(h, N)
  BY <1>4
<1>6. After(st, b) = CHOOSE f : Is(f, N)
  BY DEF After, Start
<1>7. Is(After(st, b), N)
  BY <1>5, <1>6
<1> HIDE DEF s
<1>8. After(st, b)[0] = s /\ \A n \in 1 .. N : After(st, b)[n] = Command(After(st, b)[n - 1])
  BY <1>7
<1> QED
  BY <1>8 DEF s

(* The bytes of a packet, command by command.                              *)
Further(w, c) == w \o CommandBytes(c)

(* The header, and each command behind those before it.                    *)
LEMMA WrittenSteps ==
  ASSUME NEW p, NEW N \in Nat, Len(p.cmds) = N
  PROVE  /\ Written(p)[0] = <<0, 1, 0, p.count>> \o Zeros(8)
         /\ \A n \in 1 .. N : Written(p)[n] = Written(p)[n - 1] \o CommandBytes(p.cmds[n])
<1> DEFINE s == <<0, 1, 0, p.count>> \o Zeros(8)
           Is(f, m) == f = [n \in 0 .. m |-> IF n = 0 THEN s
                                             ELSE Further(f[n - 1], p.cmds[n])]
           S == {m \in Nat : \E f : Is(f, m)}
<1>1. 0 \in S
  <2> DEFINE f == [n \in 0 .. 0 |-> s]
  <2> HIDE DEF s
  <2>1. Is(f, 0)
    OBVIOUS
  <2> HIDE DEF f
  <2> QED
    BY <2>1
<1>2. ASSUME NEW m \in Nat, NEW f, Is(f, m) PROVE \E g : Is(g, m + 1)
  <2> DEFINE g == [n \in 0 .. m + 1 |-> IF n = m + 1 THEN Further(f[m], p.cmds[m + 1])
                                                     ELSE f[n]]
  <2>1. ASSUME NEW n \in 0 .. m + 1
        PROVE  g[n] = IF n = 0 THEN s ELSE Further(g[n - 1], p.cmds[n])
    <3> HIDE DEF s
    <3>1. CASE n = 0
      BY <1>2, <3>1
    <3>2. CASE n = m + 1
      BY <3>2
    <3>3. CASE n # 0 /\ n # m + 1
      <4>1. n \in 0 .. m /\ n - 1 \in 0 .. m + 1 /\ n - 1 # m + 1
        BY <3>3
      <4>2. g[n] = f[n] /\ g[n - 1] = f[n - 1]
        BY <3>3, <4>1
      <4>3. f[n] = Further(f[n - 1], p.cmds[n])
        BY <1>2, <3>3, <4>1
      <4> QED
        BY <3>3, <4>2, <4>3
    <3> QED
      BY <3>1, <3>2, <3>3
  <2>2. g = [n \in 0 .. m + 1 |-> g[n]]
    OBVIOUS
  <2> HIDE DEF g, s
  <2>3. Is(g, m + 1)
    BY <2>1, <2>2
  <2> QED
    BY <2>3
<1>3. \A m \in Nat : m \in S => m + 1 \in S
  <2> HIDE DEF s
  <2> QED
    BY <1>2
<1>4. Nat \subseteq S
  <2> HIDE DEF S
  <2> QED
    BY <1>1, <1>3, Induction
<1>5. PICK h : Is(h, N)
  BY <1>4
<1>6. Written(p) = CHOOSE f : Is(f, N)
  BY DEF Written, Further
<1>7. Is(Written(p), N)
  BY <1>5, <1>6
<1> HIDE DEF s
<1>8. /\ Written(p)[0] = s
      /\ \A n \in 1 .. N : Written(p)[n] = Further(Written(p)[n - 1], p.cmds[n])
  BY <1>7
<1> QED
  BY <1>8 DEF s, Further

-----------------------------------------------------------------------------
(* Four bytes are read as the number they were written from.               *)
LEMMA Int32Read ==
  ASSUME NEW n \in Int32Type, NEW b, NEW k \in Nat,
         \A j \in 0 .. 3 : b[k + j] = Int32Bytes(n)[j + 1]
  PROVE  Int32(b, k) = n
<1> DEFINE x == High(n)
           y == High(x)
           z == High(y)
<1>1. n \in Int /\ z \in -128 .. 127
  BY DEF Int32Type
<1>2. x \in Int /\ y \in Int /\ z \in Int
  BY <1>1 DEF High
<1>3. n = (x * 256) + (n % 256) /\ x = (y * 256) + (x % 256) /\ y = (z * 256) + (y % 256)
  BY <1>1, <1>2 DEF High
<1>4. /\ b[k] = z % 256 /\ b[k + 1] = y % 256 /\ b[k + 2] = x % 256 /\ b[k + 3] = n % 256
  <2>1. b[k + 0] = Int32Bytes(n)[1] /\ b[k + 1] = Int32Bytes(n)[2]
        /\ b[k + 2] = Int32Bytes(n)[3] /\ b[k + 3] = Int32Bytes(n)[4]
    OBVIOUS
  <2> QED
    BY <2>1 DEF Int32Bytes
<1> HIDE DEF x, y, z
<1>5. (IF b[k] < 128 THEN b[k] ELSE b[k] - 256) = z
  BY <1>1, <1>4
<1>6. n % 256 \in Int /\ x % 256 \in Int /\ y % 256 \in Int
  BY <1>1, <1>2
<1> QED
  BY <1>1, <1>2, <1>3, <1>4, <1>5, <1>6 DEF Int32

(* ... and are four bytes.                                                 *)
LEMMA Int32Written ==
  ASSUME NEW n \in Int32Type
  PROVE  Int32Bytes(n) \in Seq(Byte) /\ Len(Int32Bytes(n)) = 4
<1>1. \A m \in Int : m % 256 \in 0 .. 255
  OBVIOUS
<1>2. n \in Int /\ High(n) \in Int /\ High(High(n)) \in Int /\ High(High(High(n))) \in Int
  BY DEF Int32Type, High
<1>3. n % 256 \in Byte /\ High(n) % 256 \in Byte /\ High(High(n)) % 256 \in Byte
      /\ High(High(High(n))) % 256 \in Byte
  BY <1>1, <1>2, BytesAssumption
<1> QED
  BY <1>3 DEF Int32Bytes

(* What stands where in two sequences behind each other.                   *)
LEMMA Behind ==
  ASSUME NEW s \in Seq(Byte), NEW t \in Seq(Byte)
  PROVE  /\ s \o t \in Seq(Byte) /\ Len(s \o t) = Len(s) + Len(t)
         /\ \A i \in 1 .. Len(s) : (s \o t)[i] = s[i]
         /\ \A i \in 1 .. Len(t) : (s \o t)[Len(s) + i] = t[i]
<1> DEFINE n == Len(s)
<1>1. /\ s \o t \in Seq(Byte) /\ Len(s \o t) = n + Len(t)
      /\ n \in Nat /\ Len(t) \in Nat
      /\ \A i \in 1 .. n + Len(t) : (s \o t)[i] = IF i <= n THEN s[i] ELSE t[i - n]
  BY ConcatProperties, LenProperties
<1> HIDE DEF n
<1>2. \A i \in 1 .. n : (s \o t)[i] = s[i]
  BY <1>1
<1>3. ASSUME NEW i \in 1 .. Len(t) PROVE (s \o t)[n + i] = t[i]
  <2>1. n + i \in 1 .. n + Len(t) /\ ~ (n + i <= n) /\ (n + i) - n = i
    BY <1>1
  <2> QED
    BY <1>1, <2>1
<1> QED
  BY <1>1, <1>2, <1>3 DEF n

(* Padding is bytes, as many as it says.                                   *)
LEMMA ZerosWritten ==
  ASSUME NEW n \in Int
  PROVE  Zeros(n) \in Seq(Byte) /\ Len(Zeros(n)) = IF n < 0 THEN 0 ELSE n
<1>1. 0 \in Byte
  BY BytesAssumption
<1> DEFINE m == IF n < 0 THEN 0 ELSE n
<1>2. m \in Nat /\ 1 .. n = 1 .. m
  OBVIOUS
<1> HIDE DEF m
<1>3. [k \in 1 .. m |-> 0] \in Seq(Byte) /\ Len([k \in 1 .. m |-> 0]) = m
  BY <1>1, <1>2
<1> QED
  BY <1>2, <1>3 DEF Zeros, m

(* A message and the bytes that carry it.                                  *)
LEMMA MessageWritten ==
  ASSUME NEW n \in Int, NEW f \in [0 .. n - 1 -> Byte]
  PROVE  /\ Sliced(f) \in Seq(Byte) /\ Len(Sliced(f)) = IF n < 0 THEN 0 ELSE n
         /\ Slice(Sliced(f)) = f
<1> DEFINE m == IF n < 0 THEN 0 ELSE n
<1>1. m \in Nat /\ 0 .. n - 1 = 0 .. m - 1
  OBVIOUS
<1> HIDE DEF m
<1>2. Size(f) = m
  <2>1. Cardinality(0 .. m - 1) = m
    <3>1. m - 1 \in Int /\ 0 \in Int
      BY <1>1
    <3>2. Cardinality(0 .. m - 1) = IF 0 > m - 1 THEN 0 ELSE (m - 1) - 0 + 1
      BY <3>1, FS_Interval
    <3> QED
      BY <1>1, <3>2
  <2> QED
    BY <1>1, <2>1 DEF Size
<1>3. \A k \in 1 .. m : f[k - 1] \in Byte
  BY <1>1
<1> DEFINE s == [k \in 1 .. m |-> f[k - 1]]
<1>4. Sliced(f) = s
  BY <1>2 DEF Sliced
<1>5. s \in Seq(Byte) /\ Len(s) = m
  BY <1>1, <1>3
<1>6. Slice(s) = [k \in 0 .. m - 1 |-> s[k + 1]]
  BY <1>5 DEF Slice
<1>7. \A k \in 0 .. m - 1 : s[k + 1] = f[k]
  BY <1>1
<1>8. Slice(s) = f
  <2> HIDE DEF s
  <2>1. f = [k \in 0 .. m - 1 |-> f[k]]
    BY <1>1
  <2> QED
    BY <1>6, <1>7, <2>1
<1> QED
  BY <1>4, <1>5, <1>8 DEF m

-----------------------------------------------------------------------------
(* A fragment is read from the body of its command as it was.              *)
LEMMA FragmentWritten ==
  ASSUME NEW n \in Nat, NEW f \in FragmentOf(n)
  PROVE  /\ FragmentBytes(f) \in Seq(Byte)
         /\ Len(FragmentBytes(f)) = FragmentHeaderLen + n
         /\ FragmentIn(FragmentBytes(f)) = f
<1> DEFINE s == Int32Bytes(f.startSeq)
           c == Int32Bytes(f.fragCount)
           z == Zeros(4)
           t == Int32Bytes(f.totalLen)
           o == Int32Bytes(f.fragOffset)
           y == Sliced(f.payload)
           b2 == s \o c
           b3 == b2 \o z
           b4 == b3 \o t
           b5 == b4 \o o
           b  == FragmentBytes(f)
<1>1. /\ f.startSeq \in Int32Type /\ f.fragCount \in Int32Type /\ f.totalLen \in Int32Type
      /\ f.fragOffset \in Int32Type /\ f.payloadLen = n /\ f.payload \in [0 .. n - 1 -> Byte]
      /\ f = [ startSeq |-> f.startSeq, fragCount |-> f.fragCount, totalLen |-> f.totalLen,
               fragOffset |-> f.fragOffset, payloadLen |-> f.payloadLen, payload |-> f.payload ]
  BY DEF FragmentOf
<1>2. /\ s \in Seq(Byte) /\ Len(s) = 4
      /\ c \in Seq(Byte) /\ Len(c) = 4
      /\ t \in Seq(Byte) /\ Len(t) = 4
      /\ o \in Seq(Byte) /\ Len(o) = 4
  BY <1>1, Int32Written
<1>3. z \in Seq(Byte) /\ Len(z) = 4
  <2> DEFINE four == 4
  <2>1. four \in Int /\ ~ (four < 0)
    OBVIOUS
  <2> HIDE DEF four
  <2>2. Zeros(four) \in Seq(Byte) /\ Len(Zeros(four)) = four
    BY <2>1, ZerosWritten
  <2> QED
    BY <2>2 DEF four
<1>4. y \in Seq(Byte) /\ Len(y) = n /\ Slice(y) = f.payload
  BY <1>1, MessageWritten
<1>5. b = b5 \o y
  BY DEF FragmentBytes
<1> HIDE DEF s, c, z, t, o, y, b2, b3, b4, b5, b
<1>6. b2 \in Seq(Byte) /\ Len(b2) = Len(s) + Len(c)
  BY <1>2, Behind DEF b2
<1>7. b3 \in Seq(Byte) /\ Len(b3) = Len(b2) + Len(z)
  BY <1>3, <1>6, Behind DEF b3
<1>8. b4 \in Seq(Byte) /\ Len(b4) = Len(b3) + Len(t)
  BY <1>2, <1>7, Behind DEF b4
<1>9. b5 \in Seq(Byte) /\ Len(b5) = Len(b4) + Len(o)
  BY <1>2, <1>8, Behind DEF b5
<1>10. b \in Seq(Byte) /\ Len(b) = Len(b5) + Len(y)
  BY <1>4, <1>5, <1>9, Behind
<1>11. Len(b2) = 8 /\ Len(b3) = 12 /\ Len(b4) = 16 /\ Len(b5) = 20 /\ Len(b) = 20 + n
  BY <1>2, <1>3, <1>4, <1>6, <1>7, <1>8, <1>9, <1>10
<1>16. /\ \A i \in 1 .. 4 : b2[i] = s[i] /\ b2[4 + i] = c[i]
       /\ \A i \in 1 .. 8 : b3[i] = b2[i]
       /\ \A i \in 1 .. 12 : b4[i] = b3[i]
       /\ \A i \in 1 .. 4 : b4[12 + i] = t[i]
       /\ \A i \in 1 .. 16 : b5[i] = b4[i]
       /\ \A i \in 1 .. 4 : b5[16 + i] = o[i]
       /\ \A i \in 1 .. 20 : b[i] = b5[i]
       /\ \A i \in 1 .. n : b[20 + i] = y[i]
  <2>1. /\ \A i \in 1 .. Len(s) : b2[i] = s[i]
        /\ \A i \in 1 .. Len(c) : b2[Len(s) + i] = c[i]
    BY <1>2, Behind DEF b2
  <2>2. \A i \in 1 .. Len(b2) : b3[i] = b2[i]
    BY <1>3, <1>6, Behind DEF b3
  <2>3. /\ \A i \in 1 .. Len(b3) : b4[i] = b3[i]
        /\ \A i \in 1 .. Len(t) : b4[Len(b3) + i] = t[i]
    BY <1>2, <1>7, Behind DEF b4
  <2>4. /\ \A i \in 1 .. Len(b4) : b5[i] = b4[i]
        /\ \A i \in 1 .. Len(o) : b5[Len(b4) + i] = o[i]
    BY <1>2, <1>8, Behind DEF b5
  <2>5. /\ \A i \in 1 .. Len(b5) : b[i] = b5[i]
        /\ \A i \in 1 .. Len(y) : b[Len(b5) + i] = y[i]
    BY <1>4, <1>5, <1>9, Behind
  <2>6. Len(s) = 4 /\ Len(c) = 4 /\ Len(t) = 4 /\ Len(o) = 4 /\ Len(y) = n
    BY <1>2, <1>4
  <2>11. \A i \in 1 .. 4 : b2[i] = s[i] /\ b2[4 + i] = c[i]
    BY <2>1, <2>6
  <2>12. \A i \in 1 .. 8 : b3[i] = b2[i]
    BY <2>2, <1>11
  <2>13. (\A i \in 1 .. 12 : b4[i] = b3[i]) /\ (\A i \in 1 .. 4 : b4[12 + i] = t[i])
    BY <2>3, <2>6, <1>11
  <2>14. (\A i \in 1 .. 16 : b5[i] = b4[i]) /\ (\A i \in 1 .. 4 : b5[16 + i] = o[i])
    BY <2>4, <2>6, <1>11
  <2>15. (\A i \in 1 .. 20 : b[i] = b5[i]) /\ (\A i \in 1 .. n : b[20 + i] = y[i])
    BY <2>5, <2>6, <1>11
  <2> QED
    BY <2>11, <2>12, <2>13, <2>14, <2>15
<1>17. \A j \in 0 .. 3 : /\ b[1 + j] = s[j + 1] /\ b[5 + j] = c[j + 1]
                         /\ b[13 + j] = t[j + 1] /\ b[17 + j] = o[j + 1]
  <2> SUFFICES ASSUME NEW j \in 0 .. 3
               PROVE  /\ b[1 + j] = s[j + 1] /\ b[5 + j] = c[j + 1]
                      /\ b[13 + j] = t[j + 1] /\ b[17 + j] = o[j + 1]
    OBVIOUS
  <2>1. /\ j + 1 \in 1 .. 4 /\ 1 + j = j + 1 /\ 5 + j = 4 + (j + 1)
        /\ 13 + j = 12 + (j + 1) /\ 17 + j = 16 + (j + 1)
    OBVIOUS
  <2>2. b[1 + j] = s[j + 1]
    BY <2>1, <1>16
  <2>3. b[5 + j] = c[j + 1]
    BY <2>1, <1>16
  <2>4. b[13 + j] = t[j + 1]
    BY <2>1, <1>16
  <2>5. b[17 + j] = o[j + 1]
    BY <2>1, <1>16
  <2> QED
    BY <2>2, <2>3, <2>4, <2>5
<1>12. /\ Int32(b, 1) = f.startSeq /\ Int32(b, 5) = f.fragCount
       /\ Int32(b, 13) = f.totalLen /\ Int32(b, 17) = f.fragOffset
  <2> DEFINE At(k, v) == \A j \in 0 .. 3 : b[k + j] = Int32Bytes(v)[j + 1]
  <2>1. ASSUME NEW k \in Nat, NEW v \in Int32Type, At(k, v) PROVE Int32(b, k) = v
    BY <2>1, Int32Read
  <2>2. At(1, f.startSeq) /\ At(5, f.fragCount) /\ At(13, f.totalLen) /\ At(17, f.fragOffset)
    BY <1>17 DEF s, c, t, o
  <2> HIDE DEF At
  <2> QED
    BY <1>1, <2>1, <2>2
<1>13. Unread(b, 20) = y
  <2> DEFINE u == SubSeq(b, 21, Len(b))
  <2>1. \A i \in 21 .. Len(b) : b[i] \in Byte
    BY <1>10, ElementOfSeq
  <2>2. /\ u \in Seq(Byte)
        /\ Len(u) = IF 21 <= Len(b) THEN Len(b) - 21 + 1 ELSE 0
        /\ \A i \in 1 .. Len(b) - 21 + 1 : u[i] = b[21 + i - 1]
    <3>1. 21 \in Int /\ Len(b) \in Int
      BY <1>11
    <3> QED
      BY <2>1, <3>1, SubSeqProperties
  <2> HIDE DEF u
  <2>3. Len(u) = n
    BY <2>2, <1>11
  <2>4. \A i \in 1 .. n : u[i] = y[i]
    <3> SUFFICES ASSUME NEW i \in 1 .. n PROVE u[i] = y[i]
      OBVIOUS
    <3>1. i \in 1 .. Len(b) - 21 + 1 /\ 21 + i - 1 = 20 + i
      BY <1>11
    <3> QED
      BY <1>16, <2>2, <3>1
  <2>5. u = y
    BY <1>4, <2>2, <2>3, <2>4, SeqEqual
  <2> QED
    BY <2>5 DEF Unread, u
<1>14. FragmentIn(b) = [ startSeq |-> f.startSeq, fragCount |-> f.fragCount,
                         totalLen |-> f.totalLen, fragOffset |-> f.fragOffset,
                         payloadLen |-> n, payload |-> f.payload ]
  <2>1. Len(b) - 20 = n
    BY <1>11
  <2>2. Slice(Unread(b, 20)) = f.payload
    BY <1>4, <1>13
  <2> DEFINE v == Slice(Unread(b, 20))
             m == Len(b) - 20
  <2>3. FragmentIn(b) = [ startSeq |-> Int32(b, 1), fragCount |-> Int32(b, 5),
                          totalLen |-> Int32(b, 13), fragOffset |-> Int32(b, 17),
                          payloadLen |-> m, payload |-> v ]
    BY DEF FragmentIn, FragmentHeaderLen
  <2>4. m = n /\ v = f.payload
    BY <2>1, <2>2
  <2> HIDE DEF v, m
  <2> QED
    BY <1>12, <2>3, <2>4
<1> QED
  BY <1>1, <1>10, <1>11, <1>14 DEF FragmentHeaderLen, b

(* The bytes behind the header of a command are as many as it announces.   *)
LEMMA BodyWritten ==
  ASSUME NEW c, Consistent(c)
  PROVE  /\ BodyLen(c) \in Int /\ BodyBytes(c) \in Seq(Byte)
         /\ BodyLen(c) >= 0 => Len(BodyBytes(c)) = BodyLen(c)
<1> DEFINE n == BodyLen(c)
           b == BodyBytes(c)
<1>1. n \in Int
  BY DEF Consistent, Int32Type, BodyLen, HeaderLen
<1>2. CASE ShortBody(c) \/ Skipped(c)
  <2>1. b = Zeros(n)
    BY <1>2 DEF BodyBytes, ShortBody, Skipped, CarriesMessage, CarriesFragment,
           cmdSendReliable, cmdSendUnreliable, cmdSendFragment
  <2> HIDE DEF n, b
  <2>2. b \in Seq(Byte) /\ Len(b) = IF n < 0 THEN 0 ELSE n
    BY <1>1, <2>1, ZerosWritten
  <2>3. n >= 0 => ~ (n < 0)
    BY <1>1
  <2> QED
    BY <1>1, <2>2, <2>3 DEF n, b
<1>3. CASE c.type = cmdSendReliable
  <2>1. /\ b = Sliced(c.body) /\ CarriesMessage(c) /\ ~ ShortBody(c)
        /\ MessageLen(c) = n - 0
    BY <1>3 DEF BodyBytes, ShortBody, Skipped, CarriesMessage, CarriesFragment,
           cmdSendReliable, cmdSendUnreliable, cmdSendFragment, MessageLen
  <2>2. c.body \in [0 .. n - 1 -> Byte]
    <3>1. MessageLen(c) = n
      BY <1>1, <2>1
    <3> QED
      BY <2>1, <3>1 DEF Consistent
  <2> HIDE DEF n, b
  <2>3. b \in Seq(Byte) /\ Len(b) = IF n < 0 THEN 0 ELSE n
    BY <1>1, <2>1, <2>2, MessageWritten
  <2>4. n >= 0 => ~ (n < 0)
    BY <1>1
  <2> QED
    BY <1>1, <2>3, <2>4 DEF n, b
<1>4. CASE c.type = cmdSendUnreliable /\ ~ ShortBody(c)
  <2> DEFINE z == Zeros(UnreliableSeqLen)
             s == Sliced(c.body)
             m == n - 4
  <2>1. /\ b = z \o s /\ CarriesMessage(c) /\ MessageLen(c) = m /\ m >= 0
    BY <1>1, <1>4 DEF BodyBytes, ShortBody, Skipped, CarriesMessage, CarriesFragment,
           cmdSendReliable, cmdSendUnreliable, cmdSendFragment, MessageLen, UnreliableSeqLen
  <2>2. c.body \in [0 .. m - 1 -> Byte]
    BY <1>4, <2>1 DEF Consistent
  <2>3. m \in Int /\ ~ (m < 0)
    BY <1>1, <2>1
  <2>4. z \in Seq(Byte) /\ Len(z) = 4
    <3> DEFINE four == 4
    <3>1. four \in Int /\ ~ (four < 0)
      OBVIOUS
    <3> HIDE DEF four
    <3>2. Zeros(four) \in Seq(Byte) /\ Len(Zeros(four)) = four
      BY <3>1, ZerosWritten
    <3> QED
      BY <3>2 DEF four, UnreliableSeqLen
  <2>5. s \in Seq(Byte) /\ Len(s) = m
    <3> HIDE DEF m
    <3> QED
      BY <2>2, <2>3, MessageWritten
  <2> HIDE DEF z, s, b
  <2>6. b \in Seq(Byte) /\ Len(b) = Len(z) + Len(s)
    BY <2>1, <2>4, <2>5, Behind
  <2>7. Len(b) = n
    BY <1>1, <2>4, <2>5, <2>6
  <2> QED
    BY <1>1, <2>6, <2>7 DEF b
<1>5. CASE CarriesFragment(c)
  <2> DEFINE m == n - 20
  <2>1. b = FragmentBytes(c.frag) /\ m >= 0
    BY <1>1, <1>5 DEF BodyBytes, ShortBody, Skipped, CarriesMessage, CarriesFragment,
           cmdSendReliable, cmdSendUnreliable, cmdSendFragment, FragmentHeaderLen
  <2>2. c.frag \in FragmentOf(m) /\ m \in Nat
    BY <1>1, <1>5, <2>1 DEF Consistent, FragmentHeaderLen
  <2> HIDE DEF b, m
  <2>3. b \in Seq(Byte) /\ Len(b) = FragmentHeaderLen + m
    BY <2>1, <2>2, FragmentWritten
  <2>4. Len(b) = n
    BY <1>1, <2>3 DEF FragmentHeaderLen, m
  <2> QED
    BY <1>1, <2>3, <2>4 DEF b
<1> QED
  BY <1>2, <1>3, <1>4, <1>5 DEF Skipped, CarriesMessage

(* Where its parts stand in the bytes of a command.                        *)
LEMMA CommandWritten ==
  ASSUME NEW c, Consistent(c)
  PROVE  /\ CommandBytes(c) \in Seq(Byte)
         /\ Len(CommandBytes(c)) = 12 + Len(BodyBytes(c))
         /\ CommandBytes(c)[1] = c.type
         /\ \A j \in 0 .. 3 : CommandBytes(c)[5 + j] = Int32Bytes(c.length)[j + 1]
         /\ \A i \in 1 .. Len(BodyBytes(c)) : CommandBytes(c)[12 + i] = BodyBytes(c)[i]
<1> DEFINE h == <<c.type, 0, 1, 0>>
           l == Int32Bytes(c.length)
           z == Zeros(4)
           y == BodyBytes(c)
           b2 == h \o l
           b3 == b2 \o z
           b  == CommandBytes(c)
<1>1. b = b3 \o y
  BY DEF CommandBytes
<1>2. h \in Seq(Byte) /\ Len(h) = 4 /\ h[1] = c.type
  <2>1. 0 .. 255 \subseteq Byte /\ c.type \in 0 .. 255
    BY BytesAssumption DEF Consistent
  <2>2. c.type \in Byte /\ 0 \in Byte /\ 1 \in Byte
    BY <2>1
  <2> QED
    BY <2>2
<1>3. l \in Seq(Byte) /\ Len(l) = 4
  BY Int32Written DEF Consistent
<1>4. z \in Seq(Byte) /\ Len(z) = 4
  <2> DEFINE four == 4
  <2>1. four \in Int /\ ~ (four < 0)
    OBVIOUS
  <2> HIDE DEF four
  <2>2. Zeros(four) \in Seq(Byte) /\ Len(Zeros(four)) = four
    BY <2>1, ZerosWritten
  <2> QED
    BY <2>2 DEF four
<1>5. y \in Seq(Byte) /\ Len(y) \in Nat
  BY BodyWritten, LenProperties
<1> HIDE DEF h, l, z, y, b2, b3, b
<1>6. b2 \in Seq(Byte) /\ Len(b2) = Len(h) + Len(l)
  BY <1>2, <1>3, Behind DEF b2
<1>7. b3 \in Seq(Byte) /\ Len(b3) = Len(b2) + Len(z)
  BY <1>4, <1>6, Behind DEF b3
<1>8. b \in Seq(Byte) /\ Len(b) = Len(b3) + Len(y)
  BY <1>1, <1>5, <1>7, Behind
<1>9. Len(b2) = 8 /\ Len(b3) = 12 /\ Len(b) = 12 + Len(y)
  BY <1>2, <1>3, <1>4, <1>5, <1>6, <1>7, <1>8
<1>10. /\ \A i \in 1 .. 4 : b2[i] = h[i] /\ b2[4 + i] = l[i]
       /\ \A i \in 1 .. 8 : b3[i] = b2[i]
       /\ \A i \in 1 .. 12 : b[i] = b3[i]
       /\ \A i \in 1 .. Len(y) : b[12 + i] = y[i]
  <2>1. /\ \A i \in 1 .. Len(h) : b2[i] = h[i]
        /\ \A i \in 1 .. Len(l) : b2[Len(h) + i] = l[i]
    BY <1>2, <1>3, Behind DEF b2
  <2>2. \A i \in 1 .. Len(b2) : b3[i] = b2[i]
    BY <1>4, <1>6, Behind DEF b3
  <2>3. /\ \A i \in 1 .. Len(b3) : b[i] = b3[i]
        /\ \A i \in 1 .. Len(y) : b[Len(b3) + i] = y[i]
    BY <1>1, <1>5, <1>7, Behind
  <2>4. Len(h) = 4 /\ Len(l) = 4
    BY <1>2, <1>3
  <2>5. \A i \in 1 .. 4 : b2[i] = h[i] /\ b2[4 + i] = l[i]
    BY <2>1, <2>4
  <2>6. \A i \in 1 .. 8 : b3[i] = b2[i]
    BY <2>2, <1>9
  <2>7. (\A i \in 1 .. 12 : b[i] = b3[i]) /\ (\A i \in 1 .. Len(y) : b[12 + i] = y[i])
    BY <2>3, <1>9
  <2> QED
    BY <2>5, <2>6, <2>7
<1>11. b[1] = c.type
  BY <1>2, <1>10
<1>12. \A j \in 0 .. 3 : b[5 + j] = l[j + 1]
  <2> SUFFICES ASSUME NEW j \in 0 .. 3 PROVE b[5 + j] = l[j + 1]
    OBVIOUS
  <2>1. j + 1 \in 1 .. 4 /\ 5 + j = 4 + (j + 1)
    OBVIOUS
  <2> QED
    BY <2>1, <1>10
<1> QED
  BY <1>8, <1>9, <1>10, <1>11, <1>12 DEF b, l, y

Joins(w, s, t) == w = s \o t

(* The same for any sequence that is two others behind each other.         *)
LEMMA Joined ==
  ASSUME NEW s \in Seq(Byte), NEW t \in Seq(Byte), NEW w, Joins(w, s, t)
  PROVE  /\ w \in Seq(Byte) /\ Len(w) = Len(s) + Len(t)
         /\ \A i \in 1 .. Len(s) : w[i] = s[i]
         /\ \A i \in 1 .. Len(t) : w[Len(s) + i] = t[i]
<1>1. /\ s \o t \in Seq(Byte) /\ Len(s \o t) = Len(s) + Len(t)
      /\ \A i \in 1 .. Len(s) : (s \o t)[i] = s[i]
      /\ \A i \in 1 .. Len(t) : (s \o t)[Len(s) + i] = t[i]
  BY Behind
<1>2. w = s \o t
  BY DEF Joins
<1> DEFINE j == s \o t
<1>3. /\ j \in Seq(Byte) /\ Len(j) = Len(s) + Len(t)
      /\ \A i \in 1 .. Len(s) : j[i] = s[i]
      /\ \A i \in 1 .. Len(t) : j[Len(s) + i] = t[i]
      /\ w = j
  BY <1>1, <1>2
<1> HIDE DEF j
<1> QED
  BY <1>3

(* The bytes that headers are written with.                                *)
LEMMA SmallBytes == 0 \in Byte /\ 1 \in Byte /\ \A k \in 0 .. 255 : k \in Byte
  BY BytesAssumption

(* A packet starts with its header, ...                                    *)
LEMMA HeaderWritten ==
  ASSUME NEW p \in Packet
  PROVE  /\ Written(p)[0] \in Seq(Byte) /\ Len(Written(p)[0]) = HeaderLen
         /\ Written(p)[0][4] = p.count
<1> DEFINE h == <<0, 1, 0, p.count>>
           z == Zeros(8)
           w == Written(p)[0]
<1>1. p.count \in 0 .. 255
  BY PacketAssumption
<1>2. p.count \in Byte /\ 0 \in Byte /\ 1 \in Byte
  BY <1>1, SmallBytes
<1>3. h \in Seq(Byte)
  BY <1>2
<1>4. Len(h) = 4 /\ h[4] = p.count
  OBVIOUS
<1>5. z \in Seq(Byte) /\ Len(z) = 8
  <2> DEFINE eight == 8
  <2>1. eight \in Int /\ ~ (eight < 0)
    OBVIOUS
  <2> HIDE DEF eight
  <2>2. Zeros(eight) \in Seq(Byte) /\ Len(Zeros(eight)) = eight
    BY <2>1, ZerosWritten
  <2> QED
    BY <2>2 DEF eight
<1>6. z \in Seq(Byte)
  BY <1>5
<1>7. Joins(w, h, z)
  <2>1. Len(p.cmds) \in Nat
    BY PacketAssumption
  <2> QED
    BY <2>1, WrittenSteps DEF Joins
<1> HIDE DEF h, z, w
<1>8. /\ w \in Seq(Byte) /\ Len(w) = Len(h) + Len(z)
      /\ \A i \in 1 .. Len(h) : w[i] = h[i]
  BY <1>3, <1>6, <1>7, Joined
<1>9. Len(w) = HeaderLen
  BY <1>4, <1>5, <1>8 DEF HeaderLen
<1>10. w[4] = p.count
  BY <1>4, <1>8
<1> QED
  BY <1>8, <1>9, <1>10 DEF w

(* ... behind which stand the bytes of its commands, ...                   *)
LEMMA PacketWritten ==
  ASSUME NEW p \in Packet, NEW N, N = Len(p.cmds)
  PROVE  /\ N \in Nat
         /\ \A n \in 0 .. N : /\ Written(p)[n] \in Seq(Byte)
                              /\ Len(Written(p)[n]) \in Nat /\ Len(Written(p)[n]) >= 12
                              /\ Written(p)[n][4] = p.count
         /\ \A n \in 1 .. N : Joins(Written(p)[n], Written(p)[n - 1], CommandBytes(p.cmds[n]))
<1> DEFINE W == Written(p)
           OK(n) == /\ W[n] \in Seq(Byte) /\ Len(W[n]) \in Nat /\ Len(W[n]) >= 12
                    /\ W[n][4] = p.count
           S == {n \in Nat : n <= N => OK(n)}
<1>1. N \in Nat
  BY PacketAssumption
<1>2. /\ Joins(W[0], <<0, 1, 0, p.count>>, Zeros(8))
      /\ \A n \in 1 .. N : Joins(W[n], W[n - 1], CommandBytes(p.cmds[n]))
  BY <1>1, WrittenSteps DEF Joins
<1>3. OK(0)
  <2> DEFINE w == W[0]
  <2>1. w \in Seq(Byte) /\ Len(w) = HeaderLen /\ w[4] = p.count
    BY HeaderWritten
  <2> HIDE DEF w
  <2>2. Len(w) \in Nat /\ Len(w) >= 12
    BY <2>1 DEF HeaderLen
  <2> QED
    BY <2>1, <2>2 DEF w
<1>4. ASSUME NEW n \in Nat, n + 1 <= N, OK(n) PROVE OK(n + 1)
  <2> DEFINE c == p.cmds[n + 1]
             b == CommandBytes(c)
  <2>1. n + 1 \in 1 .. N /\ (n + 1) - 1 = n
    BY <1>1, <1>4
  <2>2. Joins(W[n + 1], W[n], b)
    BY <1>2, <2>1
  <2>3. Consistent(c)
    BY <2>1, BytesAssumption
  <2>4. b \in Seq(Byte) /\ Len(b) \in Nat
    <3> HIDE DEF c
    <3>1. b \in Seq(Byte)
      BY <2>3, CommandWritten
    <3> QED
      BY <3>1, LenProperties
  <2> HIDE DEF W, b
  <2>5. W[n + 1] \in Seq(Byte) /\ Len(W[n + 1]) = Len(W[n]) + Len(b)
    BY <1>4, <2>2, <2>4, Joined
  <2>6. \A i \in 1 .. Len(W[n]) : W[n + 1][i] = W[n][i]
    BY <1>4, <2>2, <2>4, Joined
  <2>7. W[n + 1][4] = p.count
    BY <1>4, <2>6
  <2>8. Len(W[n + 1]) \in Nat /\ Len(W[n + 1]) >= 12
    BY <1>4, <2>4, <2>5
  <2> QED
    BY <2>5, <2>7, <2>8
<1>5. \A n \in Nat : n \in S => n + 1 \in S
  <2> HIDE DEF OK
  <2>1. \A n \in Nat : n + 1 <= N => n <= N
    BY <1>1
  <2> QED
    BY <1>4, <2>1
<1>6. Nat \subseteq S
  <2>1. 0 \in S
    BY <1>3
  <2> HIDE DEF S
  <2> QED
    BY <1>5, <2>1, Induction
<1>7. \A n \in 0 .. N : OK(n)
  <2> HIDE DEF OK
  <2> QED
    BY <1>1, <1>6
<1> QED
  BY <1>1, <1>2, <1>7

(* ... which later commands leave where they are.                          *)
LEMMA WrittenGrows ==
  ASSUME NEW p \in Packet, NEW N, N = Len(p.cmds), NEW n \in 0 .. N
  PROVE  \A m \in n .. N : /\ Len(Written(p)[n]) <= Len(Written(p)[m])
                           /\ \A i \in 1 .. Len(Written(p)[n]) : Written(p)[m][i] = Written(p)[n][i]
<1> DEFINE W == Written(p)
           OK(m) == /\ Len(W[n]) <= Len(W[m])
                    /\ \A i \in 1 .. Len(W[n]) : W[m][i] = W[n][i]
           S == {k \in Nat : n + k <= N => OK(n + k)}
<1>1. /\ N \in Nat /\ n \in Nat
      /\ \A m \in 0 .. N : W[m] \in Seq(Byte) /\ Len(W[m]) \in Nat
      /\ \A m \in 1 .. N : Joins(W[m], W[m - 1], CommandBytes(p.cmds[m]))
  BY PacketWritten
<1> HIDE DEF W
<1>2. 0 \in S
  <2>1. n + 0 = n /\ Len(W[n]) <= Len(W[n])
    BY <1>1
  <2> QED
    BY <2>1
<1>3. ASSUME NEW m \in n .. N, m + 1 <= N, OK(m) PROVE OK(m + 1)
  <2> DEFINE c == p.cmds[m + 1]
             b == CommandBytes(c)
  <2>1. m \in 0 .. N /\ m + 1 \in 1 .. N /\ (m + 1) - 1 = m
    BY <1>1, <1>3
  <2>2. Joins(W[m + 1], W[m], b) /\ W[m] \in Seq(Byte) /\ Len(W[m]) \in Nat
    BY <1>1, <2>1
  <2>3. Consistent(c)
    BY <2>1, BytesAssumption
  <2>4. b \in Seq(Byte) /\ Len(b) \in Nat
    <3> HIDE DEF c
    <3>1. b \in Seq(Byte)
      BY <2>3, CommandWritten
    <3> QED
      BY <3>1, LenProperties
  <2> HIDE DEF b
  <2>5. Len(W[m + 1]) = Len(W[m]) + Len(b)
    BY <2>2, <2>4, Joined
  <2>6. \A i \in 1 .. Len(W[m]) : W[m + 1][i] = W[m][i]
    BY <2>2, <2>4, Joined
  <2>7. Len(W[n]) \in Nat
    BY <1>1
  <2>8. Len(W[n]) <= Len(W[m + 1])
    BY <1>3, <2>2, <2>4, <2>5, <2>7
  <2>9. ASSUME NEW i \in 1 .. Len(W[n]) PROVE W[m + 1][i] = W[n][i]
    <3>1. i \in 1 .. Len(W[m])
      BY <1>3, <2>2, <2>7
    <3> QED
      BY <1>3, <2>6, <2>9, <3>1
  <2> QED
    BY <2>8, <2>9
<1>4. \A k \in Nat : k \in S => k + 1 \in S
  <2> SUFFICES ASSUME NEW k \in Nat, k \in S, n + (k + 1) <= N PROVE OK(n + (k + 1))
    OBVIOUS
  <2>1. n + k \in n .. N /\ (n + k) + 1 <= N /\ (n + k) + 1 = n + (k + 1) /\ n + k <= N
    BY <1>1
  <2>2. OK(n + k)
    BY <2>1
  <2> HIDE DEF OK
  <2>3. OK((n + k) + 1)
    BY <1>3, <2>1, <2>2
  <2> QED
    BY <2>1, <2>3
<1>5. Nat \subseteq S
  <2> HIDE DEF S
  <2> QED
    BY <1>2, <1>4, Induction
<1>6. ASSUME NEW m \in n .. N PROVE OK(m)
  <2> HIDE DEF OK
  <2>1. m - n \in Nat /\ n + (m - n) = m /\ m <= N
    BY <1>1
  <2>2. m - n \in S
    BY <1>5, <2>1
  <2> QED
    BY <2>1, <2>2
<1> QED
  BY <1>6 DEF W

-----------------------------------------------------------------------------
(* Reading.                                                                *)

(* What stands where in a part of a sequence.                              *)
LEMMA PartOf ==
  ASSUME NEW s \in Seq(Byte), NEW m \in Int, NEW n \in Int, 1 <= m, n <= Len(s)
  PROVE  /\ SubSeq(s, m, n) \in Seq(Byte)
         /\ Len(SubSeq(s, m, n)) = IF m <= n THEN n - m + 1 ELSE 0
         /\ \A i \in 1 .. n - m + 1 : SubSeq(s, m, n)[i] = s[m + i - 1]
<1>1. Len(s) \in Nat
  BY LenProperties
<1>2. \A i \in m .. n : s[i] \in Byte
  <2> SUFFICES ASSUME NEW i \in m .. n PROVE s[i] \in Byte
    OBVIOUS
  <2>1. i \in 1 .. Len(s)
    BY <1>1
  <2> QED
    BY <2>1, ElementOfSeq
<1> QED
  BY <1>2, SubSeqProperties

(* What is unread of a sequence.                                           *)
LEMMA UnreadPart ==
  ASSUME NEW s \in Seq(Byte), NEW n \in Nat
  PROVE  /\ Unread(s, n) \in Seq(Byte)
         /\ Len(Unread(s, n)) = IF n <= Len(s) THEN Len(s) - n ELSE 0
         /\ \A i \in 1 .. Len(s) - n : Unread(s, n)[i] = s[n + i]
<1> DEFINE m == n + 1
           u == SubSeq(s, m, Len(s))
<1>1. Len(s) \in Nat /\ m \in Int /\ 1 <= m
  BY LenProperties
<1>2. Unread(s, n) = u
  BY DEF Unread
<1>3. /\ u \in Seq(Byte)
      /\ Len(u) = IF m <= Len(s) THEN Len(s) - m + 1 ELSE 0
      /\ \A i \in 1 .. Len(s) - m + 1 : u[i] = s[m + i - 1]
  <2> HIDE DEF m
  <2> QED
    BY <1>1, PartOf
<1> HIDE DEF u
<1>4. Len(u) = IF n <= Len(s) THEN Len(s) - n ELSE 0
  BY <1>1, <1>3
<1>5. ASSUME NEW i \in 1 .. Len(s) - n PROVE u[i] = s[n + i]
  <2>1. i \in 1 .. Len(s) - m + 1 /\ m + i - 1 = n + i
    BY <1>1
  <2> QED
    BY <1>3, <2>1
<1> QED
  BY <1>2, <1>3, <1>4, <1>5

(* What was read twice was read at once.                                   *)
LEMMA UnreadTwice ==
  ASSUME NEW s \in Seq(Byte), NEW n \in Nat, NEW k \in Nat, n <= Len(s)
  PROVE  Unread(Unread(s, n), k) = Unread(s, n + k)
<1> DEFINE u == Unread(s, n)
           v == Unread(u, k)
           m == n + k
           w == Unread(s, m)
           l == Len(s)
<1>1. l \in Nat /\ m \in Nat
  BY LenProperties
<1>2. /\ u \in Seq(Byte) /\ Len(u) = IF n <= l THEN l - n ELSE 0
      /\ \A i \in 1 .. l - n : u[i] = s[n + i]
  BY UnreadPart
<1>3. /\ w \in Seq(Byte) /\ Len(w) = IF m <= l THEN l - m ELSE 0
      /\ \A i \in 1 .. l - m : w[i] = s[m + i]
  <2> HIDE DEF m
  <2> QED
    BY <1>1, UnreadPart
<1> HIDE DEF u
<1>4. /\ v \in Seq(Byte) /\ Len(v) = IF k <= Len(u) THEN Len(u) - k ELSE 0
      /\ \A i \in 1 .. Len(u) - k : v[i] = u[k + i]
  BY <1>2, UnreadPart
<1> HIDE DEF v, w, l
<1>5. Len(u) = l - n
  BY <1>2 DEF l
<1>6. Len(v) = Len(w)
  BY <1>1, <1>3, <1>4, <1>5
<1>7. ASSUME NEW i \in 1 .. Len(w) PROVE v[i] = w[i]
  <2>1. i \in 1 .. l - m /\ i \in 1 .. Len(u) - k /\ k + i \in 1 .. l - n
        /\ n + (k + i) = m + i
    BY <1>1, <1>3, <1>5
  <2> QED
    BY <1>2, <1>3, <1>4, <2>1
<1>8. v = w
  BY <1>3, <1>4, <1>6, <1>7, SeqEqual
<1> QED
  BY <1>8 DEF u, v, w

(* A packet, its size and the commands it says it has.                     *)
LEMMA PacketRead ==
  ASSUME NEW p \in Packet
  PROVE  /\ p.size \in Nat /\ PacketBytes(p) \in Seq(Byte) /\ Len(PacketBytes(p)) = p.size
         /\ p.size <= Len(Written(p)[Len(p.cmds)])
         /\ \A i \in 1 .. p.size : PacketBytes(p)[i] = Written(p)[Len(p.cmds)][i]
         /\ p.size >= HeaderLen => PacketBytes(p)[4] = p.count
<1> DEFINE N == Len(p.cmds)
           w == Written(p)[N]
           n == p.size
           b == PacketBytes(p)
           one == 1
<1>1. n \in Nat /\ n <= Len(w)
  BY PacketAssumption, BytesAssumption
<1>2. w \in Seq(Byte) /\ Len(w) \in Nat /\ w[4] = p.count
  <2> HIDE DEF N
  <2>1. N \in Nat /\ (N \in 0 .. N => w \in Seq(Byte) /\ Len(w) \in Nat /\ w[4] = p.count)
    BY PacketWritten DEF N
  <2> QED
    BY <2>1
<1>3. b = SubSeq(w, one, n)
  BY DEF PacketBytes
<1>4. one \in Int /\ n \in Int /\ 1 <= one
  BY <1>1
<1> HIDE DEF w, n, b, one
<1>5. /\ SubSeq(w, one, n) \in Seq(Byte)
      /\ Len(SubSeq(w, one, n)) = IF one <= n THEN n - one + 1 ELSE 0
      /\ \A i \in 1 .. n - one + 1 : SubSeq(w, one, n)[i] = w[one + i - 1]
  BY <1>1, <1>2, <1>4, PartOf
<1>6. /\ b \in Seq(Byte) /\ Len(b) = IF one <= n THEN n - one + 1 ELSE 0
      /\ \A i \in 1 .. n - one + 1 : b[i] = w[one + i - 1]
  BY <1>3, <1>5
<1>7. Len(b) = n
  BY <1>1, <1>6 DEF one
<1>8. ASSUME NEW i \in 1 .. n PROVE b[i] = w[i]
  <2>1. i \in 1 .. n - one + 1 /\ one + i - 1 = i
    BY <1>1 DEF one
  <2> QED
    BY <1>6, <2>1
<1>9. n >= 12 => b[4] = p.count
  BY <1>1, <1>2, <1>8
<1> QED
  BY <1>1, <1>6, <1>7, <1>8, <1>9 DEF w, n, b, HeaderLen

(* What is left of a packet behind n commands starts with the next one.    *)
Rest(p, n) == Unread(PacketBytes(p), Len(Written(p)[n]))
Left(p, n) == p.size - Len(Written(p)[n])

(* It is as long as what the packet's size leaves, and has the bytes of the*)
(* next command as far as it goes.                                         *)
LEMMA NextRead ==
  ASSUME NEW p \in Packet, NEW n \in Nat, n < Len(p.cmds),
         NEW y, y = CommandBytes(p.cmds[n + 1])
  PROVE  /\ Left(p, n) \in Int /\ Rest(p, n) \in Seq(Byte)
         /\ Len(Rest(p, n)) = IF Left(p, n) >= 0 THEN Left(p, n) ELSE 0
         /\ \A i \in 1 .. Left(p, n) : i <= Len(y) => Rest(p, n)[i] = y[i]
<1> DEFINE N == Len(p.cmds)
           W == Written(p)
           r == Rest(p, n)
           unread == Left(p, n)
           b == PacketBytes(p)
           m == n + 1
           c == CommandBytes(p.cmds[m])
           l == Len(W[n])
           z == p.size
<1>17. N \in Nat
  BY PacketAssumption
<1>18. n < N
  OBVIOUS
<1> HIDE DEF N
<1>1. z \in Nat /\ b \in Seq(Byte) /\ Len(b) = z /\ \A i \in 1 .. z : b[i] = W[N][i]
  BY PacketRead DEF N
<1>2. /\ N \in Nat
      /\ \A k \in 0 .. N : W[k] \in Seq(Byte) /\ Len(W[k]) \in Nat
      /\ \A k \in 1 .. N : Joins(W[k], W[k - 1], CommandBytes(p.cmds[k]))
  BY PacketWritten DEF N
<1>3. n \in 0 .. N /\ m \in 0 .. N /\ m \in 1 .. N /\ m - 1 = n /\ N \in m .. N
  BY <1>17, <1>18
<1>4. l \in Nat /\ Joins(W[m], W[n], c)
  BY <1>2, <1>3
<1>5. Consistent(p.cmds[m])
  BY <1>3, BytesAssumption DEF N
<1>6. c \in Seq(Byte)
  <2> DEFINE d == p.cmds[m]
  <2> HIDE DEF d
  <2>1. CommandBytes(d) \in Seq(Byte)
    BY <1>5, CommandWritten DEF d
  <2> QED
    BY <2>1 DEF d
<1>7. unread = z - l
  BY DEF Left
<1>11. r = Unread(b, l)
  BY DEF Rest
<1> HIDE DEF c
<1>8. W[n] \in Seq(Byte)
  BY <1>2, <1>3
<1>9. \A i \in 1 .. Len(W[m]) : W[N][i] = W[m][i]
  <2> HIDE DEF W, m
  <2>1. \A k \in m .. N : \A i \in 1 .. Len(Written(p)[m]) : Written(p)[k][i] = Written(p)[m][i]
    BY <1>3, WrittenGrows DEF N
  <2> QED
    BY <1>3, <2>1 DEF W
<1> HIDE DEF W, b, l, z, m, r, unread
<1>10. Len(W[m]) = l + Len(c) /\ \A i \in 1 .. Len(c) : W[m][l + i] = c[i]
  <2> DEFINE v == W[n]
             w == W[m]
  <2>1. v \in Seq(Byte) /\ Joins(w, v, c)
    BY <1>4, <1>8
  <2> HIDE DEF v, w
  <2>2. Len(w) = Len(v) + Len(c) /\ \A i \in 1 .. Len(c) : w[Len(v) + i] = c[i]
    BY <1>6, <2>1, Joined
  <2> QED
    BY <2>2 DEF v, w, l
<1>12. /\ r \in Seq(Byte) /\ Len(r) = IF l <= z THEN z - l ELSE 0
       /\ \A i \in 1 .. z - l : r[i] = b[l + i]
  <2> DEFINE u == Unread(b, l)
  <2>1. b \in Seq(Byte) /\ l \in Nat
    BY <1>1, <1>4
  <2>2. /\ u \in Seq(Byte) /\ Len(u) = IF l <= Len(b) THEN Len(b) - l ELSE 0
        /\ \A i \in 1 .. Len(b) - l : u[i] = b[l + i]
    BY <2>1, UnreadPart
  <2>3. r = u /\ Len(b) = z
    BY <1>1, <1>11
  <2> HIDE DEF u
  <2> QED
    BY <2>2, <2>3
<1>13. Len(r) = IF unread >= 0 THEN unread ELSE 0
  BY <1>1, <1>4, <1>7, <1>12
<1>14. Len(c) \in Nat
  BY <1>6, LenProperties
<1>15. ASSUME NEW i \in 1 .. unread, i <= Len(c) PROVE r[i] = c[i]
  <2>1. i \in 1 .. z - l /\ l + i \in 1 .. z /\ i \in 1 .. Len(c) /\ l + i \in 1 .. Len(W[m])
    BY <1>1, <1>4, <1>7, <1>10, <1>14, <1>15
  <2> QED
    BY <1>1, <1>9, <1>10, <1>12, <2>1
<1>16. y = c
  BY DEF c, m
<1> QED
  BY <1>1, <1>4, <1>7, <1>12, <1>13, <1>15, <1>16 DEF r, unread

(* The command that is read is the one that was written.                   *)
LEMMA CommandRead ==
  ASSUME NEW p \in Packet, NEW n \in Nat, n < Len(p.cmds), Left(p, n) >= 12,
         NEW c, c = p.cmds[n + 1]
  PROVE  /\ c.length \in Int /\ Int32(Rest(p, n), 5) = c.length
         /\ c.length >= 12 /\ c.length <= Left(p, n) =>
              /\ Rest(p, n)[1] = c.type
              /\ SubSeq(Rest(p, n), 13, c.length) = BodyBytes(c)
              /\ Left(p, n + 1) = Left(p, n) - c.length
              /\ Unread(Rest(p, n), c.length) = Rest(p, n + 1)
<1> DEFINE cb == CommandBytes(c)
           y == BodyBytes(c)
           r == Rest(p, n)
           unread == Left(p, n)
           N == Len(p.cmds)
<1>1. /\ unread \in Int /\ r \in Seq(Byte) /\ Len(r) = IF unread >= 0 THEN unread ELSE 0
      /\ \A i \in 1 .. unread : i <= Len(cb) => r[i] = cb[i]
  <2>1. cb = CommandBytes(p.cmds[n + 1])
    OBVIOUS
  <2> HIDE DEF cb
  <2> QED
    BY <2>1, NextRead
<1>13. unread >= 12
  OBVIOUS
<1> HIDE DEF r, unread
<1>2. /\ N \in Nat /\ n \in 0 .. N /\ n + 1 \in 1 .. N /\ n + 1 \in 0 .. N /\ (n + 1) - 1 = n
      /\ Consistent(c)
  <2>1. N \in Nat /\ n < N
    BY PacketAssumption
  <2>2. n \in 0 .. N /\ n + 1 \in 1 .. N /\ n + 1 \in 0 .. N /\ (n + 1) - 1 = n
    BY <2>1
  <2>3. Consistent(c)
    BY <2>2, BytesAssumption
  <2> QED
    BY <2>1, <2>2, <2>3
<1>3. /\ cb \in Seq(Byte) /\ Len(cb) = 12 + Len(y)
      /\ cb[1] = c.type
      /\ \A j \in 0 .. 3 : cb[5 + j] = Int32Bytes(c.length)[j + 1]
      /\ \A i \in 1 .. Len(y) : cb[12 + i] = y[i]
  BY <1>2, CommandWritten
<1>4. /\ BodyLen(c) \in Int /\ y \in Seq(Byte) /\ Len(y) \in Nat
      /\ BodyLen(c) >= 0 => Len(y) = BodyLen(c)
  <2>1. y \in Seq(Byte) /\ BodyLen(c) \in Int /\ (BodyLen(c) >= 0 => Len(y) = BodyLen(c))
    BY <1>2, BodyWritten
  <2> QED
    BY <2>1, LenProperties
<1>5. c.length \in Int32Type /\ c.length \in Int
  BY <1>2 DEF Consistent, Int32Type
<1> HIDE DEF cb, y
<1>9. Len(cb) = 12 + Len(y)
  BY <1>3
<1>10. BodyLen(c) \in Int /\ Len(y) \in Nat /\ (BodyLen(c) >= 0 => Len(y) = BodyLen(c))
  BY <1>4
<1>11. ASSUME c.length >= 12 PROVE Len(y) = c.length - 12 /\ Len(cb) = c.length
  <2>1. BodyLen(c) = c.length - 12
    BY DEF BodyLen, HeaderLen
  <2> QED
    BY <1>5, <1>9, <1>10, <1>11, <2>1
<1>12. ASSUME NEW i \in 1 .. unread, i <= Len(cb) PROVE r[i] = cb[i]
  BY <1>1, <1>12
<1>6. Int32(r, 5) = c.length
  <2> DEFINE v == c.length
  <2>1. \A j \in 0 .. 3 : r[5 + j] = Int32Bytes(v)[j + 1]
    <3> SUFFICES ASSUME NEW j \in 0 .. 3 PROVE r[5 + j] = Int32Bytes(v)[j + 1]
      OBVIOUS
    <3>1. 5 + j \in 1 .. unread /\ 5 + j <= Len(cb)
      BY <1>1, <1>3, <1>4, <1>13
    <3> QED
      BY <1>1, <1>3, <3>1
  <2> DEFINE five == 5
  <2>2. five \in Nat /\ \A j \in 0 .. 3 : r[five + j] = Int32Bytes(v)[j + 1]
    BY <2>1
  <2>3. v \in Int32Type
    BY <1>5
  <2> HIDE DEF v, five
  <2>4. Int32(r, five) = v
    BY <2>2, <2>3, Int32Read
  <2> QED
    BY <2>4 DEF v, five
<1>7. ASSUME c.length >= 12, c.length <= unread PROVE r[1] = c.type /\ SubSeq(r, 13, c.length) = y
  <2> DEFINE m == 13
             v == c.length
             s == SubSeq(r, m, v)
  <2>1. Len(y) = v - 12 /\ Len(cb) = v
    BY <1>7, <1>11
  <2>9. unread \in Int /\ 1 \in 1 .. unread /\ 1 <= Len(cb)
    <3>1. unread \in Int
      BY <1>1
    <3> QED
      BY <1>9, <1>10, <1>13, <3>1
  <2>2. r[1] = cb[1]
    BY <1>12, <2>9
  <2>3. m \in Int /\ v \in Int /\ 1 <= m /\ v <= Len(r) /\ m = 13
    BY <1>1, <1>5, <1>7
  <2>4. v >= 12 /\ v <= unread
    BY <1>7
  <2> HIDE DEF m, v
  <2>5. /\ s \in Seq(Byte) /\ Len(s) = IF m <= v THEN v - m + 1 ELSE 0
        /\ \A i \in 1 .. v - m + 1 : s[i] = r[m + i - 1]
    BY <1>1, <2>3, PartOf
  <2> HIDE DEF s
  <2>6. Len(s) = Len(y)
    BY <2>1, <2>3, <2>4, <2>5
  <2>7. ASSUME NEW i \in 1 .. Len(s) PROVE s[i] = y[i]
    <3>1. i \in 1 .. v - m + 1 /\ m + i - 1 = 12 + i /\ i \in 1 .. Len(y)
          /\ 12 + i \in 1 .. unread /\ 12 + i <= Len(cb)
      BY <1>1, <2>1, <2>3, <2>4, <2>5, <2>6
    <3>2. s[i] = r[12 + i] /\ r[12 + i] = cb[12 + i] /\ cb[12 + i] = y[i]
      BY <1>1, <1>3, <2>5, <3>1
    <3> QED
      BY <3>2
  <2>8. s = y
    BY <1>4, <2>5, <2>6, <2>7, SeqEqual
  <2> QED
    BY <1>3, <2>2, <2>8 DEF s, m, v
<1>8. ASSUME c.length >= 12, c.length <= unread
      PROVE  /\ Left(p, n + 1) = unread - c.length
             /\ Unread(r, c.length) = Rest(p, n + 1)
  <2> DEFINE w == Written(p)[n + 1]
             v == Written(p)[n]
             k == c.length
             l == Len(v)
             b == PacketBytes(p)
  <2>1. Len(cb) = k /\ k \in Nat
    BY <1>5, <1>8, <1>11
  <2>2. v \in Seq(Byte) /\ l \in Nat /\ Joins(w, v, cb)
    <3>1. /\ \A i \in 0 .. N : Written(p)[i] \in Seq(Byte) /\ Len(Written(p)[i]) \in Nat
          /\ \A i \in 1 .. N : Joins(Written(p)[i], Written(p)[i - 1], CommandBytes(p.cmds[i]))
      BY PacketWritten
    <3>2. Joins(w, Written(p)[(n + 1) - 1], CommandBytes(p.cmds[n + 1]))
      BY <1>2, <3>1
    <3> QED
      BY <1>2, <3>1, <3>2 DEF cb, N
  <2>3. p.size \in Nat /\ b \in Seq(Byte) /\ Len(b) = p.size
    BY PacketRead
  <2>4. r = Unread(b, l) /\ l <= Len(b)
    <3>1. unread = p.size - l
      BY DEF unread, Left
    <3> QED
      BY <1>13, <2>2, <2>3, <3>1 DEF r, Rest
  <2> HIDE DEF w, v, k, b
  <2>5. Len(w) = Len(v) + Len(cb)
    BY <1>3, <2>2, Joined
  <2> HIDE DEF l
  <2>6. Unread(Unread(b, l), k) = Unread(b, l + k)
    BY <2>1, <2>2, <2>3, <2>4, UnreadTwice
  <2>7. Len(w) = l + k
    BY <2>1, <2>5 DEF l
  <2>8. unread = p.size - l /\ Left(p, n + 1) = p.size - Len(w) /\ Rest(p, n + 1) = Unread(b, Len(w))
    BY DEF unread, Left, Rest, w, v, b, l
  <2>9. Left(p, n + 1) = unread - k
    BY <2>1, <2>2, <2>3, <2>7, <2>8
  <2> QED
    BY <2>4, <2>6, <2>7, <2>8, <2>9 DEF k
<1> QED
  BY <1>5, <1>6, <1>7, <1>8 DEF y, r, unread

(* Behind the first of two sequences the second is unread.                 *)
LEMMA UnreadBehind ==
  ASSUME NEW s \in Seq(Byte), NEW t \in Seq(Byte), NEW w, Joins(w, s, t),
         NEW n, n = Len(s)
  PROVE  Unread(w, n) = t
<1>1. /\ w \in Seq(Byte) /\ Len(w) = n + Len(t) /\ n \in Nat /\ Len(t) \in Nat
      /\ \A i \in 1 .. Len(t) : w[n + i] = t[i]
  <2>1. /\ w \in Seq(Byte) /\ Len(w) = Len(s) + Len(t)
        /\ \A i \in 1 .. Len(t) : w[Len(s) + i] = t[i]
    BY Joined
  <2>2. Len(s) \in Nat /\ Len(t) \in Nat
    BY LenProperties
  <2> DEFINE l == Len(s)
  <2> HIDE DEF l
  <2>3. n = l
    BY DEF l
  <2>4. /\ Len(w) = l + Len(t) /\ \A i \in 1 .. Len(t) : w[l + i] = t[i]
    BY <2>1 DEF l
  <2> QED
    BY <2>1, <2>2, <2>3, <2>4
<1> DEFINE u == Unread(w, n)
<1>2. /\ u \in Seq(Byte) /\ Len(u) = IF n <= Len(w) THEN Len(w) - n ELSE 0
      /\ \A i \in 1 .. Len(w) - n : u[i] = w[n + i]
  BY <1>1, UnreadPart
<1> HIDE DEF u
<1>3. Len(u) = Len(t)
  BY <1>1, <1>2
<1>4. ASSUME NEW i \in 1 .. Len(u) PROVE u[i] = t[i]
  <2>1. i \in 1 .. Len(t) /\ i \in 1 .. Len(w) - n
    BY <1>1, <1>3
  <2> QED
    BY <1>1, <1>2, <2>1
<1>5. u = t
  BY <1>2, <1>3, <1>4, SeqEqual
<1> QED
  BY <1>5 DEF u

(* What a command carries is what was written into it.                     *)
LEMMA CarriedRead ==
  ASSUME NEW c, Consistent(c), BodyLen(c) >= 0, NEW st
  PROVE  Carried(st, c.type, BodyBytes(c)) =
           IF ShortBody(c) THEN Dropped(st)
           ELSE IF CarriesMessage(c) THEN Tell(st, c.body)
           ELSE IF CarriesFragment(c) THEN Reassemble(st, c.frag)
           ELSE st
<1> DEFINE n == BodyLen(c)
           b == BodyBytes(c)
<1> USE DEF cmdSendReliable, cmdSendUnreliable, cmdSendFragment
<1>1. n \in Int /\ b \in Seq(Byte) /\ Len(b) = n
  BY BodyWritten
<1>2. CASE ShortBody(c)
  <2>1. c.type = 7 /\ n < 4
    BY <1>2 DEF ShortBody, UnreliableSeqLen
  <2> HIDE DEF n, b
  <2> QED
    BY <1>1, <1>2, <2>1 DEF Carried, UnreliableSeqLen, b
<1>3. CASE c.type = cmdSendReliable
  <2>1. ~ ShortBody(c) /\ CarriesMessage(c) /\ b = Sliced(c.body)
    BY <1>3 DEF ShortBody, CarriesMessage, CarriesFragment, BodyBytes, Skipped
  <2>2. MessageLen(c) = n
    BY <1>1, <1>3 DEF MessageLen
  <2>3. c.body \in [0 .. n - 1 -> Byte]
    BY <2>1, <2>2 DEF Consistent
  <2> HIDE DEF n, b
  <2>4. Slice(Sliced(c.body)) = c.body
    BY <1>1, <2>3, MessageWritten
  <2>5. Carried(st, c.type, b) = Tell(st, Slice(b))
    BY <1>3 DEF Carried
  <2> QED
    BY <2>1, <2>4, <2>5 DEF b
<1>4. CASE c.type = cmdSendUnreliable /\ ~ ShortBody(c)
  <2> DEFINE z == Zeros(UnreliableSeqLen)
             s == Sliced(c.body)
             m == n - 4
  <2>1. /\ Joins(b, z, s) /\ CarriesMessage(c) /\ MessageLen(c) = m /\ m >= 0 /\ n >= 4
    BY <1>1, <1>4 DEF BodyBytes, ShortBody, Skipped, CarriesMessage, CarriesFragment,
           MessageLen, UnreliableSeqLen, Joins
  <2>2. c.body \in [0 .. m - 1 -> Byte]
    BY <1>4, <2>1 DEF Consistent
  <2>3. m \in Int
    BY <1>1
  <2>4. z \in Seq(Byte) /\ Len(z) = UnreliableSeqLen
    <3>1. UnreliableSeqLen \in Int /\ ~ (UnreliableSeqLen < 0)
      BY DEF UnreliableSeqLen
    <3> QED
      BY <3>1, ZerosWritten
  <2>5. s \in Seq(Byte) /\ Slice(s) = c.body
    <3> HIDE DEF m
    <3> QED
      BY <2>2, <2>3, MessageWritten
  <2> HIDE DEF z, s, b
  <2>6. Unread(b, UnreliableSeqLen) = s
    BY <2>1, <2>4, <2>5, UnreadBehind
  <2>7. Len(b) >= UnreliableSeqLen
    BY <1>1, <2>1 DEF UnreliableSeqLen
  <2>8. Carried(st, c.type, b) = Tell(st, Slice(Unread(b, UnreliableSeqLen)))
    <3>1. ~ (Len(b) < UnreliableSeqLen)
      BY <1>1, <2>7 DEF UnreliableSeqLen
    <3> HIDE DEF n
    <3> QED
      BY <1>4, <2>7, <3>1 DEF Carried
  <2> QED
    BY <1>4, <2>1, <2>5, <2>6, <2>8 DEF b
<1>5. CASE CarriesFragment(c)
  <2> DEFINE m == n - 20
  <2>1. /\ b = FragmentBytes(c.frag) /\ n >= 20 /\ c.type = 8
        /\ ~ ShortBody(c) /\ ~ CarriesMessage(c)
    BY <1>1, <1>5 DEF BodyBytes, ShortBody, Skipped, CarriesMessage, CarriesFragment,
           FragmentHeaderLen
  <2>2. c.frag \in FragmentOf(m) /\ m \in Nat
    BY <1>1, <1>5, <2>1 DEF Consistent, FragmentHeaderLen
  <2> HIDE DEF b, m
  <2>3. FragmentIn(b) = c.frag
    BY <2>1, <2>2, FragmentWritten
  <2>4. Len(b) >= FragmentHeaderLen
    BY <1>1, <2>1 DEF FragmentHeaderLen
  <2>5. Carried(st, c.type, b) = Reassemble(st, FragmentIn(b))
    <3> HIDE DEF n
    <3> QED
      BY <2>1, <2>4 DEF Carried
  <2> QED
    BY <1>5, <2>1, <2>3, <2>5 DEF b
<1>6. CASE Skipped(c)
  <2>1. ~ CarriesMessage(c) /\ ~ CarriesFragment(c) /\ ~ ShortBody(c)
        /\ c.type # 6 /\ c.type # 7 /\ (c.type # 8 \/ n < 20)
    BY <1>1, <1>6 DEF Skipped, CarriesMessage, CarriesFragment, ShortBody, FragmentHeaderLen
  <2>2. c.type # 8 \/ ~ (Len(b) >= FragmentHeaderLen)
    BY <1>1, <2>1 DEF FragmentHeaderLen
  <2> HIDE DEF b, n
  <2>3. Carried(st, c.type, b) = st
    BY <2>1, <2>2 DEF Carried
  <2> QED
    BY <2>1, <2>3 DEF b
<1> QED
  BY <1>2, <1>3, <1>4, <1>5, <1>6 DEF Skipped, CarriesMessage

-----------------------------------------------------------------------------
(* One turn of the loop over the bytes.                                    *)

(* The states of the loop over the bytes of a payload.                     *)
At(t, k, h, r, o) == [table |-> t, counts |-> k, calls |-> h, rest |-> r, open |-> o]
Open(t, k, h, r) == At(t, k, h, r, TRUE)
Shut(t, k, h, r) == At(t, k, h, r, FALSE)

(* Their fields, ...                                                       *)
LEMMA OpenFields ==
  ASSUME NEW t, NEW k, NEW h, NEW r
  PROVE  /\ Open(t, k, h, r).table = t /\ Open(t, k, h, r).counts = k
         /\ Open(t, k, h, r).calls = h /\ Open(t, k, h, r).rest = r
         /\ Open(t, k, h, r).open
  BY DEF Open, At

(* ... and those of a payload that is dropped, ...                         *)
LEMMA ShutFields ==
  ASSUME NEW t, NEW k, NEW h, NEW r
  PROVE  /\ Shut(t, k, h, r).table = t /\ Shut(t, k, h, r).counts = k
         /\ Shut(t, k, h, r).calls = h /\ ~ Shut(t, k, h, r).open
  BY DEF Shut, At

(* ... and what a change of one field makes of them.                       *)
LEMMA OpenChanges ==
  ASSUME NEW t, NEW k, NEW h, NEW r
  PROVE  /\ Dropped(Open(t, k, h, r)) = Shut(t, k, h, r)
         /\ \A x : /\ Buffering(Open(t, k, h, r), x) = Open(x, k, h, r)
                   /\ Past(Open(t, k, h, r), x) = Open(t, k, h, Unread(r, x))
                   /\ Counted(Open(t, k, h, r), x) = Open(t, OneMore(k, x), h, r)
                   /\ Called(Open(t, k, h, r), x) = Open(t, k, Append(h, x), r)
<1> DEFINE on == TRUE
           off == FALSE
<1> HIDE DEF on, off
<1>1. [At(t, k, h, r, on) EXCEPT !.open = off] = At(t, k, h, r, off)
  BY DEF At
<1>2. ASSUME NEW x PROVE [At(t, k, h, r, on) EXCEPT !.table = x] = At(x, k, h, r, on)
  BY DEF At
<1>3. ASSUME NEW x PROVE [At(t, k, h, r, on) EXCEPT !.rest = Unread(@, x)] = At(t, k, h, Unread(r, x), on)
  BY DEF At
<1>4. ASSUME NEW x
      PROVE  [At(t, k, h, r, on) EXCEPT !.counts = OneMore(@, x)] = At(t, OneMore(k, x), h, r, on)
  BY DEF At
<1>5. ASSUME NEW x PROVE [At(t, k, h, r, on) EXCEPT !.calls = Append(@, x)] = At(t, k, Append(h, x), r, on)
  BY DEF At
<1>6. Dropped(Open(t, k, h, r)) = Shut(t, k, h, r)
  BY <1>1 DEF Dropped, Open, Shut, on, off
<1>7. ASSUME NEW x PROVE Buffering(Open(t, k, h, r), x) = Open(x, k, h, r)
  BY <1>2 DEF Buffering, Open, on
<1>8. ASSUME NEW x PROVE Past(Open(t, k, h, r), x) = Open(t, k, h, Unread(r, x))
  BY <1>3 DEF Past, Open, on
<1>9. ASSUME NEW x PROVE Counted(Open(t, k, h, r), x) = Open(t, OneMore(k, x), h, r)
  BY <1>4 DEF Counted, Open, on
<1>10. ASSUME NEW x PROVE Called(Open(t, k, h, r), x) = Open(t, k, Append(h, x), r)
  BY <1>5 DEF Called, Open, on
<1> QED
  BY <1>6, <1>7, <1>8, <1>9, <1>10

(* The command behind n others, in the packet and in its bytes.            *)
LEMMA CommandStep ==
  ASSUME NEW p \in Packet, NEW n \in Nat, n <= Len(p.cmds), NEW t, NEW k, NEW h,
         NEW c, c = p.cmds[n + 1],
         NEW unread, unread = Left(p, n)
  PROVE  /\ unread \in Int
         /\ CommandFits(p, n, unread) =>
              /\ Left(p, n + 1) = unread - c.length
              /\ Command(Open(t, k, h, Rest(p, n))) =
                   IF ShortBody(c) THEN Shut(t, k, h, Rest(p, n + 1))
                   ELSE IF CarriesMessage(c)
                   THEN Tell(Open(t, k, h, Rest(p, n + 1)), c.body)
                   ELSE IF CarriesFragment(c)
                   THEN Reassemble(Open(t, k, h, Rest(p, n + 1)), c.frag)
                   ELSE Open(t, k, h, Rest(p, n + 1))
         /\ ~ CommandFits(p, n, unread) =>
              Command(Open(t, k, h, Rest(p, n))) = Shut(t, k, h, Rest(p, n))
<1> DEFINE r == Rest(p, n)
           st == Open(t, k, h, r)
           s2 == Open(t, k, h, Rest(p, n + 1))
           N == Len(p.cmds)
           v == Int32(r, 5)
<1>1. st.rest = r /\ st.open
  BY OpenFields
<1>14. /\ Dropped(st) = Shut(t, k, h, r)
       /\ \A x : Past(st, x) = Open(t, k, h, Unread(r, x))
  BY OpenChanges
<1>2. Dropped(s2) = Shut(t, k, h, Rest(p, n + 1))
  BY OpenChanges
<1>3. N \in Nat
  BY PacketAssumption
<1>4. /\ unread \in Int /\ Len(r) = IF unread >= 0 THEN unread ELSE 0
      /\ n = N => ~ (unread >= 12)
  <2>1. CASE n < N
    <3> DEFINE y == CommandBytes(c)
    <3>1. y = CommandBytes(p.cmds[n + 1])
      OBVIOUS
    <3> HIDE DEF y
    <3>2. Left(p, n) \in Int /\ Len(Rest(p, n)) = IF Left(p, n) >= 0 THEN Left(p, n) ELSE 0
      BY <2>1, <3>1, NextRead
    <3> QED
      BY <1>3, <2>1, <3>2
  <2>2. CASE n = N
    <3> DEFINE b == PacketBytes(p)
               l == Len(Written(p)[n])
               z == p.size
    <3>1. z \in Nat /\ b \in Seq(Byte) /\ Len(b) = z /\ z <= l
      BY <2>2, PacketRead
    <3>2. l \in Nat
      <4>1. \A i \in 0 .. N : Len(Written(p)[i]) \in Nat
        BY PacketWritten
      <4>2. n \in 0 .. N
        BY <1>3, <2>2
      <4> QED
        BY <4>1, <4>2
    <3>3. unread = z - l /\ r = Unread(b, l)
      BY DEF Left, Rest
    <3> HIDE DEF b, l, z, r
    <3>4. Len(Unread(b, l)) = IF l <= Len(b) THEN Len(b) - l ELSE 0
      BY <3>1, <3>2, UnreadPart
    <3>5. Len(r) = 0 /\ unread \in Int /\ unread <= 0
      BY <3>1, <3>2, <3>3, <3>4
    <3> HIDE DEF N
    <3>6. (unread >= 0 => unread = 0) /\ ~ (unread >= 12)
      BY <3>5
    <3> QED
      BY <3>5, <3>6
  <2> QED
    BY <1>3, <2>1, <2>2
<1>5. ASSUME n < N, unread >= 12
      PROVE  /\ v = c.length /\ c.length \in Int
             /\ c.length >= 12 /\ c.length <= unread =>
                  /\ r[1] = c.type
                  /\ SubSeq(r, 13, c.length) = BodyBytes(c)
                  /\ Left(p, n + 1) = unread - c.length
                  /\ Unread(r, c.length) = Rest(p, n + 1)
  BY <1>5, CommandRead
<1>6. n < N => Consistent(c)
  <2>1. n < N => n + 1 \in 1 .. N
    BY <1>3
  <2> QED
    BY <2>1, BytesAssumption
<1>7. CommandFits(p, n, unread) <=>
        /\ n < N /\ unread >= 12 /\ c.length - 12 >= 0 /\ c.length - 12 <= unread - 12
  BY DEF CommandFits, BodyLen, HeaderLen
<1>8. Command(st) =
        IF Len(r) < 12 \/ v < 12 \/ v > Len(r)
        THEN Dropped(st)
        ELSE Carried(Past(st, v), r[1], SubSeq(r, 13, v))
  <2> HIDE DEF st, r
  <2>1. HeaderLen = 12 /\ HeaderLen + 1 = 13
    BY DEF HeaderLen
  <2> QED
    BY <1>1, <2>1 DEF Command, v
<1> HIDE DEF r, N, v
<1>9. ASSUME CommandFits(p, n, unread)
      PROVE  /\ Left(p, n + 1) = unread - c.length
             /\ Command(st) = Carried(s2, c.type, BodyBytes(c))
             /\ BodyLen(c) >= 0 /\ Consistent(c)
  <2>1. /\ n < N /\ unread >= 12 /\ c.length - 12 >= 0 /\ c.length - 12 <= unread - 12
    BY <1>7, <1>9
  <2>2. v = c.length /\ c.length \in Int
    BY <1>5, <2>1
  <2>3. c.length >= 12 /\ c.length <= unread
    BY <1>4, <2>1, <2>2
  <2>4. /\ r[1] = c.type /\ SubSeq(r, 13, c.length) = BodyBytes(c)
        /\ Left(p, n + 1) = unread - c.length /\ Unread(r, c.length) = Rest(p, n + 1)
    BY <1>5, <2>1, <2>3
  <2>5. ~ (Len(r) < 12 \/ v < 12 \/ v > Len(r))
    BY <1>4, <2>1, <2>2, <2>3
  <2>6. Past(st, v) = s2
    BY <1>14, <2>2, <2>4
  <2> HIDE DEF st, s2
  <2>7. Command(st) = Carried(s2, c.type, BodyBytes(c))
    BY <1>8, <2>2, <2>4, <2>5, <2>6
  <2> QED
    BY <1>6, <2>1, <2>4, <2>7 DEF BodyLen, HeaderLen
<1>10. ASSUME ~ CommandFits(p, n, unread) PROVE Command(st) = Shut(t, k, h, r)
  <2>1. Len(r) < 12 \/ v < 12 \/ v > Len(r)
    <3>1. CASE ~ (n < N)
      <4>1. n = N
        BY <1>3, <3>1 DEF N
      <4> QED
        BY <1>4, <4>1
    <3>2. CASE n < N /\ ~ (unread >= 12)
      BY <1>4, <3>2
    <3>3. CASE n < N /\ unread >= 12
      <4>1. v = c.length /\ c.length \in Int
        BY <1>5, <3>3
      <4>2. ~ (c.length - 12 >= 0) \/ ~ (c.length - 12 <= unread - 12)
        BY <1>7, <1>10, <3>3
      <4> QED
        BY <1>4, <3>3, <4>1, <4>2
    <3> QED
      BY <3>1, <3>2, <3>3
  <2> HIDE DEF st
  <2> QED
    BY <1>14, <1>8, <2>1
<1>11. ASSUME CommandFits(p, n, unread)
       PROVE  Carried(s2, c.type, BodyBytes(c)) =
                IF ShortBody(c) THEN Dropped(s2)
                ELSE IF CarriesMessage(c) THEN Tell(s2, c.body)
                ELSE IF CarriesFragment(c) THEN Reassemble(s2, c.frag)
                ELSE s2
  <2> HIDE DEF s2
  <2> QED
    BY <1>9, <1>11, CarriedRead
<1>12. ASSUME CommandFits(p, n, unread)
       PROVE  Command(st) =
                IF ShortBody(c) THEN Shut(t, k, h, Rest(p, n + 1))
                ELSE IF CarriesMessage(c) THEN Tell(s2, c.body)
                ELSE IF CarriesFragment(c) THEN Reassemble(s2, c.frag)
                ELSE s2
  <2> HIDE DEF st, s2
  <2> QED
    BY <1>2, <1>9, <1>11, <1>12
<1> HIDE DEF st, s2
<1>13. /\ unread \in Int
       /\ CommandFits(p, n, unread) => Left(p, n + 1) = unread - c.length
       /\ ~ CommandFits(p, n, unread) => Command(st) = Shut(t, k, h, r)
  BY <1>4, <1>9, <1>10
<1> QED
  BY <1>12, <1>13 DEF st, s2, r

(* Once a payload is dropped, the rest of the loop changes nothing.        *)
LEMMA AfterShut ==
  ASSUME NEW st, NEW b, NEW N \in Nat, b[4] = N, NEW m \in 0 .. N,
         ~ After(st, b)[m].open
  PROVE  After(st, b)[N] = After(st, b)[m]
<1> DEFINE f == After(st, b)
           x == f[m]
           S == {k \in Nat : m + k <= N => f[m + k] = x}
<1>1. \A n \in 1 .. N : f[n] = Command(f[n - 1])
  BY AfterSteps
<1>2. ~ x.open
  OBVIOUS
<1> HIDE DEF f, x
<1>3. Command(x) = x
  BY <1>2 DEF Command
<1>4. 0 \in S
  <2>1. m + 0 = m
    OBVIOUS
  <2> QED
    BY <2>1 DEF x
<1>5. \A k \in Nat : k \in S => k + 1 \in S
  <2> SUFFICES ASSUME NEW k \in Nat, k \in S, m + (k + 1) <= N
               PROVE  f[m + (k + 1)] = x
    OBVIOUS
  <2>1. m + (k + 1) \in 1 .. N /\ (m + (k + 1)) - 1 = m + k /\ m + k <= N
    OBVIOUS
  <2>2. f[m + (k + 1)] = Command(f[m + k])
    BY <1>1, <2>1
  <2>3. f[m + k] = x
    BY <2>1
  <2> QED
    BY <1>3, <2>2, <2>3
<1>6. Nat \subseteq S
  <2> HIDE DEF S
  <2> QED
    BY <1>4, <1>5, Induction
<1>7. N - m \in Nat /\ m + (N - m) = N
  OBVIOUS
<1>8. N - m \in S
  BY <1>6, <1>7
<1>9. f[N] = x
  BY <1>7, <1>8
<1> QED
  BY <1>9 DEF f, x

(* A payload ends where its commands do, or where it is dropped.           *)
LEMMA ParsedPacket ==
  ASSUME NEW st, NEW p \in Packet, NEW b, b = PacketBytes(p)
  PROVE  /\ p.size < HeaderLen => Parsed(st, b) = st
         /\ p.size >= HeaderLen =>
              /\ After(st, b)[0] = Open(st.table, st.counts, st.calls, Rest(p, 0))
              /\ Left(p, 0) = p.size - HeaderLen
              /\ \A n \in 1 .. p.count : After(st, b)[n] = Command(After(st, b)[n - 1])
              /\ Parsed(st, b) = [ table |-> After(st, b)[p.count].table,
                                   counts |-> After(st, b)[p.count].counts,
                                   calls |-> After(st, b)[p.count].calls ]
              /\ \A n \in 0 .. p.count :
                   ~ After(st, b)[n].open => After(st, b)[p.count] = After(st, b)[n]
<1> DEFINE N == p.count
           f == After(st, b)
<1>1. /\ p.size \in Nat /\ Len(b) = p.size
      /\ p.size >= HeaderLen => b[4] = N
  BY PacketRead
<1>2. N \in Nat
  <2>1. N \in 0 .. 255
    BY PacketAssumption
  <2> HIDE DEF N
  <2> QED
    BY <2>1
<1>3. CASE p.size < HeaderLen
  <2>1. ~ (p.size >= HeaderLen)
    BY <1>1, <1>3 DEF HeaderLen
  <2> QED
    BY <1>1, <1>3, <2>1 DEF Parsed
<1>4. CASE p.size >= HeaderLen
  <2>1. b[4] = N /\ ~ (Len(b) < HeaderLen) /\ ~ (p.size < HeaderLen)
    BY <1>1, <1>4 DEF HeaderLen
  <2>2. f[0] = Start(st, b) /\ \A n \in 1 .. N : f[n] = Command(f[n - 1])
    BY <1>2, <2>1, AfterSteps
  <2>3. Parsed(st, b) = [table |-> f[N].table, counts |-> f[N].counts, calls |-> f[N].calls]
    BY <2>1 DEF Parsed
  <2>4. ASSUME NEW n \in 0 .. N, ~ f[n].open PROVE f[N] = f[n]
    BY <1>2, <2>1, <2>4, AfterShut
  <2>5. Len(Written(p)[0]) = HeaderLen
    BY HeaderWritten
  <2>6. Left(p, 0) = p.size - HeaderLen /\ Rest(p, 0) = Unread(b, HeaderLen)
    BY <2>5 DEF Left, Rest
  <2>7. Start(st, b) = Open(st.table, st.counts, st.calls, Rest(p, 0))
    BY <2>6 DEF Start, Open, At
  <2> HIDE DEF f
  <2>8. f[0] = Open(st.table, st.counts, st.calls, Rest(p, 0))
    BY <2>2, <2>7
  <2> QED
    BY <1>1, <2>1, <2>2, <2>3, <2>4, <2>6, <2>8 DEF f
<1> QED
  BY <1>1, <1>3, <1>4 DEF HeaderLen

-----------------------------------------------------------------------------
(* AtomicParser.                                                           *)

(* The state of AtomicParser, and the state of the parser.                 *)
Base == [table |-> base.table, counts |-> base.counts, calls |-> base.calls]
Current == [table |-> fragments, counts |-> counts, calls |-> calls]

(* What the loop over the bytes of d's packet has come to when it is where *)
(* d is, and what it has come to if nobody but d worked on the parser.     *)
Loaded(d) == PacketBytes(packet[d])
Reached(d) == After(Base, Loaded(d))[at[d]]
Now(d) == Open(fragments, counts, calls, Rest(packet[d], at[d]))

InLoop == {"commands", "message", "decode", "call", "called"}

Placed(d) ==
  /\ packet[d].size >= HeaderLen
  /\ at[d] <= packet[d].count /\ at[d] <= Len(packet[d].cmds)
  /\ left[d] = Left(packet[d], at[d])

Follows(d) ==
  /\ pc[d] = "header" => Current = Base
  /\ pc[d] \in {"commands", "called"} => Reached(d) = Now(d)
  /\ pc[d] = "message" => Reached(d) = Tell(Now(d), body[d])
  /\ pc[d] = "decode" =>
       Reached(d) = IF Decodes(body[d])
                    THEN Called(Counted(Now(d), Kind(body[d])), body[d]) ELSE Now(d)
  /\ pc[d] = "call" => Reached(d) = Called(Now(d), body[d])
  /\ pc[d] = "unlock" => Current = Parsed(Base, Loaded(d))

AInv ==
  /\ mu = NoOne => Current = Base
  /\ \A d \in Device : pc[d] # "idle" => packet[d] \in Packet
  /\ \A d \in Device : pc[d] \in InLoop => Placed(d)
  /\ \A d \in Device : pc[d] \in Inside => Follows(d)

(* The goroutine that holds the mutex makes a step and keeps it.           *)
LEMMA Kept ==
  ASSUME TypeOK, Exclusive', AInv, NEW d \in Device, mu' = d, packet' = packet,
         pc[d] # "idle", NEW s, pc' = [pc EXCEPT ![d] = s],
         s \in InLoop => Placed(d)', Follows(d)'
  PROVE  AInv'
<1>1. \A e \in Device : pc'[e] = IF e = d THEN s ELSE pc[e]
  BY DEF TypeOK
<1>2. \A e \in Device : pc'[e] \in Inside => e = d
  BY DEF Exclusive
<1>3. InLoop \subseteq Inside
  BY DEF InLoop, Inside
<1>4. mu' # NoOne
  BY ParserAssumption
<1>5. \A e \in Device : pc'[e] # "idle" => packet'[e] \in Packet
  BY <1>1 DEF AInv
<1>6. ASSUME NEW e \in Device, pc'[e] \in InLoop PROVE Placed(e)'
  BY <1>1, <1>2, <1>3, <1>6
<1>7. ASSUME NEW e \in Device, pc'[e] \in Inside PROVE Follows(e)'
  BY <1>2, <1>7
<1> QED
  BY <1>4, <1>5, <1>6, <1>7 DEF AInv

(* The loop over the bytes is the same after such a step.                  *)
LEMMA LoopKept ==
  ASSUME base' = base, packet' = packet, NEW d
  PROVE  /\ Base' = Base /\ Loaded(d)' = Loaded(d)
         /\ Reached(d)' = After(Base, Loaded(d))[at'[d]]
  BY DEF Base, Loaded, Reached

(* The loop over the bytes ends with what the parser holds when the payload*)
(* was dropped, or when the last command is done.                          *)
LEMMA Ends ==
  ASSUME NEW d, packet[d] \in Packet, Placed(d), NEW n \in 0 .. packet[d].count, NEW r,
         \/ After(Base, Loaded(d))[n] = Shut(fragments, counts, calls, r)
         \/ n = packet[d].count /\ After(Base, Loaded(d))[n] = Open(fragments, counts, calls, r)
  PROVE  Current = Parsed(Base, Loaded(d))
<1> DEFINE p == packet[d]
           f == After(Base, Loaded(d))
           m == p.count
<1>1. /\ Parsed(Base, Loaded(d)) = [table |-> f[m].table, counts |-> f[m].counts, calls |-> f[m].calls]
      /\ \A k \in 0 .. m : ~ f[k].open => f[m] = f[k]
  <2> DEFINE b == Loaded(d)
             st == Base
  <2>1. b = PacketBytes(p) /\ p.size >= HeaderLen
    BY DEF Loaded, Placed
  <2> HIDE DEF p, b, st
  <2>2. p \in Packet
    BY DEF p
  <2>3. /\ Parsed(st, b) = [ table |-> After(st, b)[p.count].table,
                             counts |-> After(st, b)[p.count].counts,
                             calls |-> After(st, b)[p.count].calls ]
        /\ \A k \in 0 .. p.count : ~ After(st, b)[k].open => After(st, b)[p.count] = After(st, b)[k]
    BY <2>1, <2>2, ParsedPacket
  <2> QED
    BY <2>3 DEF b, st
<1> HIDE DEF f, p
<1>2. f[m].table = fragments /\ f[m].counts = counts /\ f[m].calls = calls
  <2>1. CASE f[n] = Shut(fragments, counts, calls, r)
    <3>1. ~ f[n].open
      BY <2>1, ShutFields
    <3>2. f[m] = f[n]
      BY <1>1, <3>1 DEF p
    <3> QED
      BY <2>1, <3>2, ShutFields
  <2>2. CASE n = m /\ f[n] = Open(fragments, counts, calls, r)
    BY <2>2, OpenFields
  <2> QED
    BY <2>1, <2>2 DEF f, p
<1> QED
  BY <1>1, <1>2 DEF Current, f

(* The command that d reads next, in the bytes of its packet.              *)
Then(d) == Open(fragments, counts, calls, Rest(packet[d], at[d] + 1))

(* What the next turn of that loop does, by what the command carries.      *)
LEMMA NextLoop ==
  ASSUME NEW d, packet[d] \in Packet, at[d] \in Nat, Placed(d), Reached(d) = Now(d),
         at[d] < packet[d].count,
         NEW c, c = NextCommand(d)
  PROVE  /\ at[d] + 1 \in 0 .. packet[d].count
         /\ Fits(d) =>
              /\ at[d] + 1 <= Len(packet[d].cmds)
              /\ left[d] - c.length = Left(packet[d], at[d] + 1)
              /\ After(Base, Loaded(d))[at[d] + 1] =
                   IF ShortBody(c)
                   THEN Shut(fragments, counts, calls, Rest(packet[d], at[d] + 1))
                   ELSE IF CarriesMessage(c) THEN Tell(Then(d), c.body)
                   ELSE IF CarriesFragment(c) THEN Reassemble(Then(d), c.frag)
                   ELSE Then(d)
         /\ ~ Fits(d) =>
              After(Base, Loaded(d))[at[d] + 1] =
                Shut(fragments, counts, calls, Rest(packet[d], at[d]))
<1> DEFINE p == packet[d]
           n == at[d]
           m == n + 1
           f == After(Base, Loaded(d))
<1>1. p \in Packet /\ n \in Nat /\ n <= Len(p.cmds) /\ n < p.count /\ left[d] = Left(p, n)
  BY DEF Placed
<1>2. p.count \in Nat /\ Len(p.cmds) \in Nat
  <2> HIDE DEF p
  <2>1. p.count \in 0 .. 255
    BY <1>1, PacketAssumption
  <2>2. Len(p.cmds) \in Nat
    BY <1>1, PacketAssumption
  <2>3. p.count \in Nat
    BY <2>1
  <2> QED
    BY <2>2, <2>3
<1>3. m \in 1 .. p.count /\ m - 1 = n /\ m \in 0 .. p.count
  BY <1>1, <1>2
<1>4. f[m] = Command(f[n])
  <2> DEFINE b == Loaded(d)
             st == Base
  <2>1. b = PacketBytes(p) /\ p.size >= HeaderLen
    BY DEF Loaded, Placed
  <2> HIDE DEF p, b, st, m
  <2>2. \A k \in 1 .. p.count : After(st, b)[k] = Command(After(st, b)[k - 1])
    BY <1>1, <2>1, ParsedPacket
  <2>3. After(st, b)[m] = Command(After(st, b)[n])
    BY <1>3, <2>2
  <2> QED
    BY <2>3 DEF st, b
<1>5. f[n] = Open(fragments, counts, calls, Rest(p, n))
  BY DEF Reached, Now
<1>6. c = p.cmds[n + 1] /\ (Fits(d) <=> CommandFits(p, n, left[d]))
  BY DEF NextCommand, Fits
<1>7. Then(d) = Open(fragments, counts, calls, Rest(p, m))
  BY DEF Then
<1> HIDE DEF p, n, f
<1>8. /\ CommandFits(p, n, left[d]) =>
           /\ Left(p, n + 1) = left[d] - c.length
           /\ Command(Open(fragments, counts, calls, Rest(p, n))) =
                IF ShortBody(c) THEN Shut(fragments, counts, calls, Rest(p, n + 1))
                ELSE IF CarriesMessage(c)
                THEN Tell(Open(fragments, counts, calls, Rest(p, n + 1)), c.body)
                ELSE IF CarriesFragment(c)
                THEN Reassemble(Open(fragments, counts, calls, Rest(p, n + 1)), c.frag)
                ELSE Open(fragments, counts, calls, Rest(p, n + 1))
      /\ ~ CommandFits(p, n, left[d]) =>
           Command(Open(fragments, counts, calls, Rest(p, n))) =
             Shut(fragments, counts, calls, Rest(p, n))
  BY <1>1, <1>6, CommandStep
<1>9. Fits(d) => n + 1 <= Len(p.cmds)
  <2>1. Fits(d) => n < Len(p.cmds)
    BY <1>6 DEF CommandFits
  <2> QED
    BY <1>1, <1>2, <2>1
<1>10. ASSUME Fits(d)
       PROVE  /\ left[d] - c.length = Left(p, m)
              /\ f[m] =
                   IF ShortBody(c) THEN Shut(fragments, counts, calls, Rest(p, m))
                   ELSE IF CarriesMessage(c) THEN Tell(Then(d), c.body)
                   ELSE IF CarriesFragment(c) THEN Reassemble(Then(d), c.frag)
                   ELSE Then(d)
  BY <1>4, <1>5, <1>6, <1>7, <1>8, <1>10
<1>11. ~ Fits(d) => f[m] = Shut(fragments, counts, calls, Rest(p, n))
  BY <1>4, <1>5, <1>6, <1>8
<1> HIDE DEF m
<1> QED
  BY <1>3, <1>9, <1>10, <1>11 DEF p, n, f, m

(* A goroutine inside holds the mutex, and the invariant speaks of it.     *)
LEMMA Holder ==
  ASSUME TypeOK, Exclusive, AInv, NEW d \in Device, pc[d] \in Inside
  PROVE  /\ mu = d /\ packet[d] \in Packet /\ Follows(d) /\ at[d] \in Nat
         /\ pc[d] \in InLoop => Placed(d)
<1>1. "idle" \notin Inside
  BY DEF Inside
<1> QED
  BY <1>1 DEF TypeOK, Exclusive, AInv

(* handleMessage and the decoders, by what they find in a message.         *)
LEMMA TellIs ==
  ASSUME NEW st, NEW x
  PROVE  /\ ~ Dispatched(x) => Tell(st, x) = st
         /\ Dispatched(x) =>
              Tell(st, x) = IF Decodes(x)
                            THEN Called(Counted(Counted(st, "messages"), Kind(x)), x)
                            ELSE Counted(st, "messages")
  BY DEF Tell

(* One lemma for each kind of step.  d reads the header: the loop starts.  *)
LEMMA ReadHeaderFollows ==
  ASSUME TypeOK, Exclusive, Exclusive', AInv, base' = base,
         NEW d \in Device, ReadHeader(d)
  PROVE  AInv'
<1> DEFINE p == packet[d]
           z == p.size
           s == IF z < HeaderLen THEN "unlock" ELSE "commands"
<1>1. /\ pc[d] = "header" /\ pc' = [pc EXCEPT ![d] = s] /\ packet' = packet
      /\ UNCHANGED <<mu, fragments, counts, calls>>
      /\ at'[d] = 0
      /\ ~ (z < HeaderLen) => left'[d] = z - HeaderLen
  BY DEF ReadHeader, Goes, parser, TypeOK
<1>2. mu = d /\ p \in Packet /\ Current = Base
  <2>1. pc[d] \in Inside
    BY <1>1 DEF Inside
  <2> QED
    BY <1>1, <2>1, Holder DEF Follows
<1>3. pc'[d] = s
  BY <1>1 DEF TypeOK
<1>4. Base' = Base /\ Loaded(d)' = Loaded(d) /\ Current' = Current
      /\ Reached(d)' = After(Base, Loaded(d))[0]
  BY <1>1, LoopKept DEF Current
<1>5. /\ z < HeaderLen => Parsed(Base, Loaded(d)) = Base
      /\ z >= HeaderLen =>
           /\ After(Base, Loaded(d))[0] = Open(fragments, counts, calls, Rest(p, 0))
           /\ Left(p, 0) = z - HeaderLen
  <2> DEFINE b == Loaded(d)
             st == Base
  <2>1. b = PacketBytes(p)
    BY DEF Loaded
  <2>2. st.table = fragments /\ st.counts = counts /\ st.calls = calls
    <3>1. st = Current
      BY <1>2
    <3> HIDE DEF st
    <3> QED
      BY <3>1 DEF Current
  <2> HIDE DEF p, b, st
  <2>3. /\ p.size < HeaderLen => Parsed(st, b) = st
        /\ p.size >= HeaderLen =>
             /\ After(st, b)[0] = Open(st.table, st.counts, st.calls, Rest(p, 0))
             /\ Left(p, 0) = p.size - HeaderLen
    BY <1>2, <2>1, ParsedPacket
  <2> QED
    BY <2>2, <2>3 DEF b, st
<1>6. z \in Nat /\ Len(p.cmds) \in Nat
  BY <1>2, PacketAssumption
<1>9. p.count \in 0 .. 255
  BY <1>2, PacketAssumption
<1>7. CASE z < HeaderLen
  <2>1. s = "unlock" /\ "unlock" \notin InLoop
    BY <1>7 DEF InLoop
  <2>2. Follows(d)'
    <3>1. Current' = Parsed(Base, Loaded(d))'
      BY <1>2, <1>4, <1>5, <1>7
    <3> QED
      BY <1>3, <2>1, <3>1 DEF Follows
  <2> QED
    BY <1>1, <1>2, <2>1, <2>2, Kept
<1>8. CASE ~ (z < HeaderLen)
  <2>1. s = "commands" /\ z >= HeaderLen
    BY <1>6, <1>8 DEF HeaderLen
  <2>2. Placed(d)'
    <3>3. 0 <= p.count
      BY <1>9
    <3>4. 0 <= Len(p.cmds)
      BY <1>6
    <3>1. 0 <= p.count /\ 0 <= Len(p.cmds)
      BY <3>3, <3>4
    <3>2. left'[d] = Left(p, 0)
      BY <1>1, <1>5, <1>8, <2>1
    <3> QED
      BY <1>1, <2>1, <3>1, <3>2 DEF Placed
  <2>3. Now(d)' = Open(fragments, counts, calls, Rest(p, 0))
    BY <1>1 DEF Now
  <2>4. Follows(d)'
    <3>1. Reached(d)' = Now(d)'
      BY <1>4, <1>5, <2>1, <2>3
    <3> QED
      BY <1>3, <2>1, <3>1 DEF Follows
  <2> QED
    BY <1>1, <1>2, <2>2, <2>4, Kept
<1> QED
  BY <1>7, <1>8

(* d has read all commands: so has the loop.                               *)
LEMMA EndOfCommandsFollows ==
  ASSUME TypeOK, Exclusive, Exclusive', AInv, base' = base,
         NEW d \in Device, EndOfCommands(d)
  PROVE  AInv'
<1> DEFINE n == at[d]
<1>1. /\ pc[d] = "commands" /\ pc' = [pc EXCEPT ![d] = "unlock"] /\ packet' = packet
      /\ UNCHANGED <<mu, fragments, counts, calls>> /\ n = packet[d].count
  BY DEF EndOfCommands, Goes, parser
<1>2. mu = d /\ packet[d] \in Packet /\ n \in Nat /\ Placed(d) /\ Reached(d) = Now(d)
  <2>1. pc[d] \in Inside /\ pc[d] \in InLoop
    BY <1>1 DEF Inside, InLoop
  <2> QED
    BY <1>1, <2>1, Holder DEF Follows
<1>3. pc'[d] = "unlock"
  BY <1>1 DEF TypeOK
<1>4. Current = Parsed(Base, Loaded(d))
  <2>1. n \in 0 .. packet[d].count
    BY <1>1, <1>2
  <2>2. After(Base, Loaded(d))[n] = Open(fragments, counts, calls, Rest(packet[d], n))
    BY <1>2 DEF Reached, Now
  <2> HIDE DEF n
  <2> QED
    BY <1>1, <1>2, <2>1, <2>2, Ends
<1>5. Follows(d)'
  <2>1. Current' = Current /\ Base' = Base /\ Loaded(d)' = Loaded(d)
    BY <1>1, LoopKept DEF Current
  <2> QED
    BY <1>3, <1>4, <2>1 DEF Follows
<1>6. "unlock" \notin InLoop
  BY DEF InLoop
<1> QED
  BY <1>1, <1>2, <1>5, <1>6, Kept

(* d drops the rest of its packet: so does the loop over the bytes.        *)
LEMMA AbortFollows ==
  ASSUME TypeOK, Exclusive, Exclusive', AInv, base' = base,
         NEW d \in Device, Abort(d)
  PROVE  AInv'
<1> DEFINE n == at[d]
           m == n + 1
           c == NextCommand(d)
<1>1. /\ pc[d] = "commands" /\ pc' = [pc EXCEPT ![d] = "unlock"] /\ packet' = packet
      /\ UNCHANGED <<mu, fragments, counts, calls>> /\ n < packet[d].count
      /\ ~ (Fits(d) /\ ~ ShortBody(c))
  BY DEF Abort, Goes, parser
<1>2. mu = d /\ packet[d] \in Packet /\ n \in Nat /\ Placed(d) /\ Reached(d) = Now(d)
  <2>1. pc[d] \in Inside /\ pc[d] \in InLoop
    BY <1>1 DEF Inside, InLoop
  <2> QED
    BY <1>1, <2>1, Holder DEF Follows
<1>3. pc'[d] = "unlock"
  BY <1>1 DEF TypeOK
<1>4. Current = Parsed(Base, Loaded(d))
  <2>1. /\ m \in 0 .. packet[d].count
        /\ \/ After(Base, Loaded(d))[m] = Shut(fragments, counts, calls, Rest(packet[d], m))
           \/ After(Base, Loaded(d))[m] = Shut(fragments, counts, calls, Rest(packet[d], n))
    <3> HIDE DEF c
    <3>1. c = NextCommand(d)
      BY DEF c
    <3> QED
      BY <1>1, <1>2, <3>1, NextLoop
  <2> HIDE DEF n, m
  <2> QED
    BY <1>2, <2>1, Ends
<1>5. Follows(d)'
  <2>1. Current' = Current /\ Base' = Base /\ Loaded(d)' = Loaded(d)
    BY <1>1, LoopKept DEF Current
  <2> QED
    BY <1>3, <1>4, <2>1 DEF Follows
<1>6. "unlock" \notin InLoop
  BY DEF InLoop
<1> QED
  BY <1>1, <1>2, <1>5, <1>6, Kept

(* d reads a command, as the loop over the bytes does.                     *)
LEMMA Consumed ==
  ASSUME TypeOK, Exclusive, AInv, base' = base, NEW d \in Device,
         pc[d] = "commands", Consume(d),
         NEW c, c = NextCommand(d), ~ ShortBody(c)
  PROVE  /\ mu = d /\ packet[d] \in Packet /\ UNCHANGED <<mu, counts, calls, packet>>
         /\ Placed(d) /\ at[d] + 1 \in 0 .. packet[d].count /\ Placed(d)'
         /\ Base' = Base /\ Loaded(d)' = Loaded(d)
         /\ Reached(d)' = After(Base, Loaded(d))[at[d] + 1]
         /\ Now(d)' = Open(fragments', counts, calls, Rest(packet[d], at[d] + 1))
         /\ After(Base, Loaded(d))[at[d] + 1] =
              IF CarriesMessage(c) THEN Tell(Then(d), c.body)
              ELSE IF CarriesFragment(c) THEN Reassemble(Then(d), c.frag)
              ELSE Then(d)
<1> DEFINE n == at[d]
           m == n + 1
<1>1. /\ UNCHANGED <<mu, counts, calls, packet>> /\ n < packet[d].count /\ Fits(d)
      /\ at'[d] = m /\ left'[d] = left[d] - c.length
  BY DEF Consume, TypeOK
<1>2. mu = d /\ packet[d] \in Packet /\ n \in Nat /\ Placed(d) /\ Reached(d) = Now(d)
  <2>1. pc[d] \in Inside /\ pc[d] \in InLoop
    BY DEF Inside, InLoop
  <2> QED
    BY <2>1, Holder DEF Follows
<1>3. /\ m \in 0 .. packet[d].count
      /\ m <= Len(packet[d].cmds)
      /\ left[d] - c.length = Left(packet[d], m)
      /\ After(Base, Loaded(d))[m] =
           IF ShortBody(c) THEN Shut(fragments, counts, calls, Rest(packet[d], m))
           ELSE IF CarriesMessage(c) THEN Tell(Then(d), c.body)
           ELSE IF CarriesFragment(c) THEN Reassemble(Then(d), c.frag)
           ELSE Then(d)
  BY <1>1, <1>2, NextLoop
<1>4. Placed(d)'
  <2>1. packet[d].size >= HeaderLen /\ m <= packet[d].count
    BY <1>2, <1>3 DEF Placed
  <2> HIDE DEF m
  <2> QED
    BY <1>1, <1>3, <2>1 DEF Placed
<1>5. Now(d)' = Open(fragments', counts, calls, Rest(packet[d], m))
  <2> HIDE DEF m
  <2> QED
    BY <1>1 DEF Now
<1>6. Base' = Base /\ Loaded(d)' = Loaded(d) /\ Reached(d)' = After(Base, Loaded(d))[m]
  BY <1>1, LoopKept
<1> QED
  BY <1>1, <1>2, <1>3, <1>4, <1>5, <1>6

(* Nothing comes of a command that is passed over.                         *)
LEMMA SkipFollows ==
  ASSUME TypeOK, Exclusive, Exclusive', AInv, base' = base,
         NEW d \in Device, Skip(d) \/ Discard(d)
  PROVE  AInv'
<1> DEFINE c == NextCommand(d)
           x == After(Base, Loaded(d))[at[d] + 1]
<1>1. /\ pc[d] = "commands" /\ pc' = [pc EXCEPT ![d] = "commands"]
      /\ Consume(d) /\ fragments' = fragments
      /\ Skipped(c) \/ (CarriesFragment(c) /\ Nonsensical(c.frag))
  BY DEF Skip, Discard, Goes, Fragment
<1>2. ~ ShortBody(c) /\ ~ CarriesMessage(c)
  BY <1>1 DEF Skipped, ShortBody, CarriesMessage, CarriesFragment,
         cmdSendReliable, cmdSendUnreliable, cmdSendFragment
<1> HIDE DEF c
<1>3. c = NextCommand(d)
  BY DEF c
<1>4. /\ mu = d /\ packet[d] \in Packet /\ UNCHANGED <<mu, counts, calls, packet>>
      /\ Placed(d)'
      /\ Reached(d)' = x
      /\ Now(d)' = Open(fragments', counts, calls, Rest(packet[d], at[d] + 1))
      /\ x = IF CarriesMessage(c) THEN Tell(Then(d), c.body)
             ELSE IF CarriesFragment(c) THEN Reassemble(Then(d), c.frag)
             ELSE Then(d)
  BY <1>1, <1>2, <1>3, Consumed
<1> HIDE DEF x
<1>5. x = Then(d)
  <2>1. Nonsensical(c.frag) => Reassemble(Then(d), c.frag) = Then(d)
    BY DEF Reassemble
  <2> QED
    BY <1>1, <1>2, <1>4, <2>1 DEF Skipped
<1>6. Now(d)' = Then(d)
  BY <1>1, <1>4 DEF Then
<1>7. pc'[d] = "commands"
  BY <1>1 DEF TypeOK
<1>8. Follows(d)'
  BY <1>4, <1>5, <1>6, <1>7 DEF Follows
<1> QED
  BY <1>1, <1>4, <1>8, Kept

(* d has a message in hand that the loop has handled in the same turn.     *)
LEMMA TakeMessageFollows ==
  ASSUME TypeOK, Exclusive, Exclusive', AInv, base' = base,
         NEW d \in Device, TakeMessage(d)
  PROVE  AInv'
<1> DEFINE c == NextCommand(d)
           x == After(Base, Loaded(d))[at[d] + 1]
<1>1. /\ pc[d] = "commands" /\ pc' = [pc EXCEPT ![d] = "message"]
      /\ Consume(d) /\ fragments' = fragments
      /\ CarriesMessage(c) /\ ~ ShortBody(c) /\ body'[d] = c.body
  BY DEF TakeMessage, Goes, TypeOK
<1> HIDE DEF c
<1>3. c = NextCommand(d)
  BY DEF c
<1>4. /\ mu = d /\ packet[d] \in Packet /\ UNCHANGED <<mu, counts, calls, packet>>
      /\ Placed(d)'
      /\ Reached(d)' = x
      /\ Now(d)' = Open(fragments', counts, calls, Rest(packet[d], at[d] + 1))
      /\ x = IF CarriesMessage(c) THEN Tell(Then(d), c.body)
             ELSE IF CarriesFragment(c) THEN Reassemble(Then(d), c.frag)
             ELSE Then(d)
  BY <1>1, <1>3, Consumed
<1> HIDE DEF x
<1>6. Now(d)' = Then(d)
  BY <1>1, <1>4 DEF Then
<1>7. pc'[d] = "message"
  BY <1>1 DEF TypeOK
<1>8. Follows(d)'
  <2>1. Reached(d)' = Tell(Now(d)', body'[d])
    BY <1>1, <1>4, <1>6
  <2> QED
    BY <1>7, <2>1 DEF Follows
<1> QED
  BY <1>1, <1>4, <1>8, Kept

(* handleFragment on the table of the parser.                              *)
LEMMA ReassembleIs ==
  ASSUME NEW d, NEW f, ~ Nonsensical(f),
         NEW buf, buf = BufferFor(fragments, f), NEW b, b = Filled(buf, f)
  PROVE  /\ OffsetPanics(buf, f) =>
              Reassemble(Then(d), f) = Shut(fragments, counts, calls, Rest(packet[d], at[d] + 1))
         /\ ~ OffsetPanics(buf, f) /\ Finished(b) =>
              Reassemble(Then(d), f) =
                Tell(Open(Without(fragments, f.startSeq), counts, calls,
                          Rest(packet[d], at[d] + 1)), b.data)
         /\ ~ OffsetPanics(buf, f) /\ ~ Finished(b) =>
              Reassemble(Then(d), f) =
                Open(With(fragments, f.startSeq, b), counts, calls, Rest(packet[d], at[d] + 1))
<1> DEFINE r == Rest(packet[d], at[d] + 1)
           st == Then(d)
<1>1. st = Open(fragments, counts, calls, r)
  BY DEF Then
<1> HIDE DEF r, st
<1>2. st.table = fragments /\ Dropped(st) = Shut(fragments, counts, calls, r)
      /\ \A t : Buffering(st, t) = Open(t, counts, calls, r)
  BY <1>1, OpenFields, OpenChanges
<1>3. buf = BufferFor(st.table, f) /\ b = Filled(BufferFor(st.table, f), f)
  BY <1>2
<1>4. /\ OffsetPanics(buf, f) => Reassemble(st, f) = Dropped(st)
      /\ ~ OffsetPanics(buf, f) /\ Finished(b) =>
           Reassemble(st, f) = Tell(Buffering(st, Without(st.table, f.startSeq)), b.data)
      /\ ~ OffsetPanics(buf, f) /\ ~ Finished(b) =>
           Reassemble(st, f) = Buffering(st, With(st.table, f.startSeq, b))
  BY <1>3 DEF Reassemble
<1> QED
  BY <1>2, <1>4 DEF r, st

(* A fragment beyond its buffer: d drops the packet, and so does the loop. *)
LEMMA PanicFollows ==
  ASSUME TypeOK, Exclusive, Exclusive', AInv, base' = base,
         NEW d \in Device, Panic(d)
  PROVE  AInv'
<1> DEFINE c == NextCommand(d)
           m == at[d] + 1
           x == After(Base, Loaded(d))[m]
<1>1. /\ pc[d] = "commands" /\ pc' = [pc EXCEPT ![d] = "unlock"]
      /\ Consume(d) /\ fragments' = fragments
      /\ CarriesFragment(c) /\ ~ Nonsensical(c.frag)
      /\ OffsetPanics(BufferFor(fragments, c.frag), c.frag)
  BY DEF Panic, Goes, Fragment, Buffer
<1>2. ~ ShortBody(c) /\ ~ CarriesMessage(c)
  BY <1>1 DEF ShortBody, CarriesMessage, CarriesFragment,
         cmdSendReliable, cmdSendUnreliable, cmdSendFragment
<1> HIDE DEF c
<1>3. c = NextCommand(d)
  BY DEF c
<1>4. /\ mu = d /\ packet[d] \in Packet /\ UNCHANGED <<mu, counts, calls, packet>>
      /\ Placed(d) /\ m \in 0 .. packet[d].count
      /\ Base' = Base /\ Loaded(d)' = Loaded(d)
      /\ x = IF CarriesMessage(c) THEN Tell(Then(d), c.body)
             ELSE IF CarriesFragment(c) THEN Reassemble(Then(d), c.frag)
             ELSE Then(d)
  BY <1>1, <1>2, <1>3, Consumed
<1>5. x = Shut(fragments, counts, calls, Rest(packet[d], m))
  <2> HIDE DEF x
  <2>1. x = Reassemble(Then(d), c.frag)
    BY <1>1, <1>2, <1>4
  <2>2. Reassemble(Then(d), c.frag) = Shut(fragments, counts, calls, Rest(packet[d], m))
    BY <1>1, ReassembleIs
  <2> QED
    BY <2>1, <2>2
<1> HIDE DEF m
<1>6. Current = Parsed(Base, Loaded(d))
  BY <1>4, <1>5, Ends DEF x
<1>7. pc'[d] = "unlock" /\ "unlock" \notin InLoop
  BY <1>1 DEF TypeOK, InLoop
<1>8. Follows(d)'
  <2>1. Current' = Current
    BY <1>1, <1>4 DEF Current
  <2> QED
    BY <1>4, <1>6, <1>7, <2>1 DEF Follows
<1> QED
  BY <1>1, <1>4, <1>7, <1>8, Kept

(* A fragment of a message that is not complete yet.                       *)
LEMMA KeepFollows ==
  ASSUME TypeOK, Exclusive, Exclusive', AInv, base' = base,
         NEW d \in Device, Keep(d)
  PROVE  AInv'
<1> DEFINE c == NextCommand(d)
           f == c.frag
           b == Filled(BufferFor(fragments, f), f)
           x == After(Base, Loaded(d))[at[d] + 1]
<1>1. /\ pc[d] = "commands" /\ pc' = [pc EXCEPT ![d] = "commands"]
      /\ Consume(d) /\ fragments' = With(fragments, f.startSeq, b)
      /\ CarriesFragment(c) /\ ~ Nonsensical(f)
      /\ ~ OffsetPanics(BufferFor(fragments, f), f) /\ ~ Finished(b)
  BY DEF Keep, Goes, Fragment, Buffer
<1>2. ~ ShortBody(c) /\ ~ CarriesMessage(c)
  BY <1>1 DEF ShortBody, CarriesMessage, CarriesFragment,
         cmdSendReliable, cmdSendUnreliable, cmdSendFragment
<1> HIDE DEF c
<1>3. c = NextCommand(d)
  BY DEF c
<1>4. /\ mu = d /\ packet[d] \in Packet /\ UNCHANGED <<mu, counts, calls, packet>>
      /\ Placed(d)'
      /\ Reached(d)' = x
      /\ Now(d)' = Open(fragments', counts, calls, Rest(packet[d], at[d] + 1))
      /\ x = IF CarriesMessage(c) THEN Tell(Then(d), c.body)
             ELSE IF CarriesFragment(c) THEN Reassemble(Then(d), c.frag)
             ELSE Then(d)
  BY <1>1, <1>2, <1>3, Consumed
<1> HIDE DEF x
<1>5. x = Open(With(fragments, f.startSeq, b), counts, calls, Rest(packet[d], at[d] + 1))
  <2>1. x = Reassemble(Then(d), f)
    BY <1>1, <1>2, <1>4
  <2> HIDE DEF f
  <2>2. Reassemble(Then(d), f) =
          Open(With(fragments, f.startSeq, b), counts, calls, Rest(packet[d], at[d] + 1))
    BY <1>1, ReassembleIs
  <2> QED
    BY <2>1, <2>2
<1>6. Reached(d)' = Now(d)'
  <2> HIDE DEF b, f
  <2> QED
    BY <1>1, <1>4, <1>5
<1>7. pc'[d] = "commands"
  BY <1>1 DEF TypeOK
<1>8. Follows(d)'
  BY <1>6, <1>7 DEF Follows
<1> QED
  BY <1>1, <1>4, <1>8, Kept

(* The last fragment of a message: d has it in hand, and no buffer is left.*)
LEMMA DeliverFollows ==
  ASSUME TypeOK, Exclusive, Exclusive', AInv, base' = base,
         NEW d \in Device, Deliver(d)
  PROVE  AInv'
<1> DEFINE c == NextCommand(d)
           f == c.frag
           b == Filled(BufferFor(fragments, f), f)
           x == After(Base, Loaded(d))[at[d] + 1]
<1>1. /\ pc[d] = "commands" /\ pc' = [pc EXCEPT ![d] = "message"]
      /\ Consume(d) /\ fragments' = Without(fragments, f.startSeq)
      /\ CarriesFragment(c) /\ ~ Nonsensical(f)
      /\ ~ OffsetPanics(BufferFor(fragments, f), f) /\ Finished(b)
      /\ body'[d] = b.data
  BY DEF Deliver, Goes, Fragment, Buffer, TypeOK
<1>2. ~ ShortBody(c) /\ ~ CarriesMessage(c)
  BY <1>1 DEF ShortBody, CarriesMessage, CarriesFragment,
         cmdSendReliable, cmdSendUnreliable, cmdSendFragment
<1> HIDE DEF c
<1>3. c = NextCommand(d)
  BY DEF c
<1>4. /\ mu = d /\ packet[d] \in Packet /\ UNCHANGED <<mu, counts, calls, packet>>
      /\ Placed(d)'
      /\ Reached(d)' = x
      /\ Now(d)' = Open(fragments', counts, calls, Rest(packet[d], at[d] + 1))
      /\ x = IF CarriesMessage(c) THEN Tell(Then(d), c.body)
             ELSE IF CarriesFragment(c) THEN Reassemble(Then(d), c.frag)
             ELSE Then(d)
  BY <1>1, <1>2, <1>3, Consumed
<1> HIDE DEF x
<1>5. x = Tell(Open(Without(fragments, f.startSeq), counts, calls,
                    Rest(packet[d], at[d] + 1)), b.data)
  <2>1. x = Reassemble(Then(d), f)
    BY <1>1, <1>2, <1>4
  <2> HIDE DEF f
  <2>2. Reassemble(Then(d), f) =
          Tell(Open(Without(fragments, f.startSeq), counts, calls,
                    Rest(packet[d], at[d] + 1)), b.data)
    BY <1>1, ReassembleIs
  <2> QED
    BY <2>1, <2>2
<1>6. Reached(d)' = Tell(Now(d)', body'[d])
  <2> HIDE DEF b, f
  <2> QED
    BY <1>1, <1>4, <1>5
<1>7. pc'[d] = "message"
  BY <1>1 DEF TypeOK
<1>8. Follows(d)'
  BY <1>6, <1>7 DEF Follows
<1> QED
  BY <1>1, <1>4, <1>8, Kept

(* A step of d between two commands.                                       *)
LEMMA Stays ==
  ASSUME TypeOK, Exclusive, AInv, base' = base, NEW d \in Device, pc[d] \in InLoop,
         UNCHANGED <<mu, fragments, packet, at, left, body>>
  PROVE  /\ mu = d /\ Follows(d) /\ Placed(d)' /\ Reached(d)' = Reached(d)
         /\ Now(d) = Open(fragments, counts, calls, Rest(packet[d], at[d]))
         /\ Now(d)' = Open(fragments, counts', calls', Rest(packet[d], at[d]))
<1>1. pc[d] \in Inside
  BY DEF InLoop, Inside
<1>2. mu = d /\ Follows(d) /\ Placed(d)
  BY <1>1, Holder
<1>3. Placed(d)'
  BY <1>2 DEF Placed
<1>4. Reached(d)' = Reached(d)
  BY LoopKept DEF Reached
<1> QED
  BY <1>2, <1>3, <1>4 DEF Now

(* d is done with a message that is not decoded, or returns from the call. *)
LEMMA IgnoreFollows ==
  ASSUME TypeOK, Exclusive, Exclusive', AInv, base' = base,
         NEW d \in Device, Ignore(d) \/ TooLittleData(d) \/ Return(d)
  PROVE  AInv'
<1>1. /\ pc[d] \in {"message", "decode", "called"}
      /\ pc' = [pc EXCEPT ![d] = "commands"]
      /\ UNCHANGED <<mu, fragments, counts, calls, packet, at, left, body>>
      /\ pc[d] = "message" => ~ Dispatched(body[d])
      /\ pc[d] = "decode" => ~ Decodes(body[d])
  BY DEF Ignore, TooLittleData, Return, Goes, parser
<1>2. pc[d] \in InLoop /\ pc[d] # "idle"
  BY <1>1 DEF InLoop
<1>3. /\ mu = d /\ Follows(d) /\ Placed(d)' /\ Reached(d)' = Reached(d)
      /\ Now(d)' = Now(d)
  BY <1>1, <1>2, Stays
<1>4. Reached(d) = Now(d)
  <2>1. CASE pc[d] = "message"
    BY <1>1, <1>3, <2>1, TellIs DEF Follows
  <2>2. CASE pc[d] = "decode"
    BY <1>1, <1>3, <2>2 DEF Follows
  <2>3. CASE pc[d] = "called"
    BY <1>3, <2>3 DEF Follows
  <2> QED
    BY <1>1, <2>1, <2>2, <2>3
<1>5. pc'[d] = "commands"
  BY <1>1 DEF TypeOK
<1>6. Follows(d)'
  BY <1>3, <1>4, <1>5 DEF Follows
<1> QED
  BY <1>1, <1>2, <1>3, <1>6, Kept

(* The steps of handleMessage catch up with the loop, a counter at a time. *)
LEMMA CountMessageFollows ==
  ASSUME TypeOK, Exclusive, Exclusive', AInv, base' = base,
         NEW d \in Device, CountMessage(d)
  PROVE  AInv'
<1> DEFINE x == body[d]
<1>1. /\ pc[d] = "message" /\ pc' = [pc EXCEPT ![d] = "decode"] /\ Dispatched(x)
      /\ counts' = OneMore(counts, "messages")
      /\ UNCHANGED <<mu, fragments, calls, packet, at, left, body>>
  BY DEF CountMessage, Goes, OneMore
<1>2. pc[d] \in InLoop /\ pc[d] # "idle"
  BY <1>1 DEF InLoop
<1>3. /\ mu = d /\ Follows(d) /\ Placed(d)' /\ Reached(d)' = Reached(d)
      /\ Now(d) = Open(fragments, counts, calls, Rest(packet[d], at[d]))
      /\ Now(d)' = Open(fragments, counts', calls, Rest(packet[d], at[d]))
  BY <1>1, <1>2, Stays
<1>4. Now(d)' = Counted(Now(d), "messages")
  BY <1>1, <1>3, OpenChanges
<1>5. Reached(d) = IF Decodes(x)
                   THEN Called(Counted(Counted(Now(d), "messages"), Kind(x)), x)
                   ELSE Counted(Now(d), "messages")
  <2>1. Reached(d) = Tell(Now(d), x)
    BY <1>1, <1>3 DEF Follows
  <2> HIDE DEF x
  <2> QED
    BY <1>1, <2>1, TellIs
<1>6. pc'[d] = "decode" /\ body'[d] = x
  BY <1>1 DEF TypeOK
<1>7. Follows(d)'
  <2>1. Reached(d)' = IF Decodes(body'[d])
                      THEN Called(Counted(Now(d)', Kind(body'[d])), body'[d]) ELSE Now(d)'
    BY <1>3, <1>4, <1>5, <1>6
  <2> QED
    BY <1>6, <2>1 DEF Follows
<1> QED
  BY <1>1, <1>2, <1>3, <1>7, Kept

(* ... the counter of the message's kind, ...                              *)
LEMMA CountDecodedFollows ==
  ASSUME TypeOK, Exclusive, Exclusive', AInv, base' = base,
         NEW d \in Device, CountDecoded(d)
  PROVE  AInv'
<1> DEFINE x == body[d]
<1>1. /\ pc[d] = "decode" /\ pc' = [pc EXCEPT ![d] = "call"] /\ Decodes(x)
      /\ counts' = OneMore(counts, Kind(x))
      /\ UNCHANGED <<mu, fragments, calls, packet, at, left, body>>
  BY DEF CountDecoded, Goes, OneMore
<1>2. pc[d] \in InLoop /\ pc[d] # "idle"
  BY <1>1 DEF InLoop
<1>3. /\ mu = d /\ Follows(d) /\ Placed(d)' /\ Reached(d)' = Reached(d)
      /\ Now(d) = Open(fragments, counts, calls, Rest(packet[d], at[d]))
      /\ Now(d)' = Open(fragments, counts', calls, Rest(packet[d], at[d]))
  BY <1>1, <1>2, Stays
<1>4. Now(d)' = Counted(Now(d), Kind(x))
  BY <1>1, <1>3, OpenChanges
<1>5. Reached(d) = Called(Counted(Now(d), Kind(x)), x)
  BY <1>1, <1>3 DEF Follows
<1>6. pc'[d] = "call" /\ body'[d] = x
  BY <1>1 DEF TypeOK
<1>7. Follows(d)'
  <2>1. Reached(d)' = Called(Now(d)', body'[d])
    BY <1>3, <1>4, <1>5, <1>6
  <2> QED
    BY <1>6, <2>1 DEF Follows
<1> QED
  BY <1>1, <1>2, <1>3, <1>7, Kept

(* ... and the call of the handler.                                        *)
LEMMA CallFollows ==
  ASSUME TypeOK, Exclusive, Exclusive', AInv, base' = base,
         NEW d \in Device, Call(d)
  PROVE  AInv'
<1> DEFINE x == body[d]
<1>1. /\ pc[d] = "call" /\ pc' = [pc EXCEPT ![d] = "called"]
      /\ calls' = Append(calls, x)
      /\ UNCHANGED <<mu, fragments, counts, packet, at, left, body>>
  BY DEF Call, Goes
<1>2. pc[d] \in InLoop /\ pc[d] # "idle"
  BY <1>1 DEF InLoop
<1>3. /\ mu = d /\ Follows(d) /\ Placed(d)' /\ Reached(d)' = Reached(d)
      /\ Now(d) = Open(fragments, counts, calls, Rest(packet[d], at[d]))
      /\ Now(d)' = Open(fragments, counts, calls', Rest(packet[d], at[d]))
  BY <1>1, <1>2, Stays
<1>4. Now(d)' = Called(Now(d), x)
  BY <1>1, <1>3, OpenChanges
<1>5. Reached(d) = Called(Now(d), x)
  BY <1>1, <1>3 DEF Follows
<1>6. pc'[d] = "called"
  BY <1>1 DEF TypeOK
<1>7. Follows(d)'
  <2>1. Reached(d)' = Now(d)'
    BY <1>3, <1>4, <1>5
  <2> QED
    BY <1>6, <2>1 DEF Follows
<1> QED
  BY <1>1, <1>2, <1>3, <1>7, Kept

(* The steps of goroutines that are not inside.                            *)
LEMMA OutsideFollows ==
  ASSUME TypeOK, AInv, base' = base, UNCHANGED <<fragments, counts, calls, at, left, body>>,
         NEW d \in Device, \E p \in Packet : Parse(d, p)
  PROVE  AInv'
<1>1. PICK p \in Packet : Parse(d, p)
  OBVIOUS
<1>2. /\ pc[d] = "idle" /\ pc' = [pc EXCEPT ![d] = "lock"]
      /\ packet' = [packet EXCEPT ![d] = p] /\ mu' = mu
  BY <1>1 DEF Parse, Goes
<1>3. \A e \in Device : /\ pc'[e] = IF e = d THEN "lock" ELSE pc[e]
                        /\ packet'[e] = IF e = d THEN p ELSE packet[e]
  BY <1>2 DEF TypeOK
<1>4. "lock" \notin InLoop /\ "lock" \notin Inside
  BY DEF InLoop, Inside
<1>5. Base' = Base /\ Current' = Current
  BY DEF Base, Current
<1>6. ASSUME NEW e \in Device, pc'[e] \in InLoop PROVE Placed(e)'
  <2>1. e # d /\ Placed(e) /\ packet'[e] = packet[e]
    BY <1>3, <1>4, <1>6 DEF AInv
  <2> QED
    BY <2>1 DEF Placed
<1>7. ASSUME NEW e \in Device, pc'[e] \in Inside PROVE Follows(e)'
  <2>1. e # d /\ Follows(e) /\ packet'[e] = packet[e] /\ pc'[e] = pc[e]
    BY <1>3, <1>4, <1>7 DEF AInv
  <2>2. Loaded(e)' = Loaded(e) /\ Now(e)' = Now(e)
    BY <2>1 DEF Loaded, Now
  <2>3. Reached(e)' = Reached(e)
    BY <1>5, <2>2 DEF Reached
  <2> QED
    BY <1>5, <2>1, <2>2, <2>3 DEF Follows
<1> QED
  BY <1>2, <1>3, <1>5, <1>6, <1>7 DEF AInv

(* A goroutine that takes the mutex finds the parser as it was left.       *)
LEMMA LockFollows ==
  ASSUME TypeOK, Exclusive', AInv, base' = base, NEW d \in Device, Lock(d)
  PROVE  AInv'
<1>1. /\ pc[d] = "lock" /\ pc' = [pc EXCEPT ![d] = "header"] /\ mu = NoOne /\ mu' = d
      /\ UNCHANGED <<fragments, counts, calls, packet>>
  BY DEF Lock, Goes
<1>2. Current' = Base'
  <2>1. Current = Base
    BY <1>1 DEF AInv
  <2>2. Current' = Current /\ Base' = Base
    BY <1>1 DEF Current, Base
  <2> QED
    BY <2>1, <2>2
<1>3. pc'[d] = "header" /\ "header" \notin InLoop
  BY <1>1 DEF TypeOK, InLoop
<1>4. Follows(d)'
  BY <1>2, <1>3 DEF Follows
<1> QED
  BY <1>1, <1>3, <1>4, Kept

(* A goroutine that frees the mutex leaves what the loop over the bytes of *)
(* its packet makes of what it found.                                      *)
LEMMA UnlockFollows ==
  ASSUME TypeOK, Exclusive, Exclusive', AInv, NEW d \in Device, Unlock(d),
         base' = State(fragments', counts', calls', PacketBytes(packet[d]))
  PROVE  /\ AInv'
         /\ packet[d] \in Packet /\ base'.last = Loaded(d) /\ Base' = Parsed(Base, Loaded(d))
<1>1. /\ pc[d] = "unlock" /\ pc' = [pc EXCEPT ![d] = "idle"] /\ mu' = NoOne
      /\ UNCHANGED <<fragments, counts, calls, packet>>
  BY DEF Unlock, Goes
<1>2. mu = d /\ packet[d] \in Packet /\ Current = Parsed(Base, Loaded(d))
  <2>1. pc[d] \in Inside
    BY <1>1 DEF Inside
  <2> QED
    BY <1>1, <2>1, Holder DEF Follows
<1>3. /\ base'.table = fragments /\ base'.counts = counts /\ base'.calls = calls
      /\ base'.last = Loaded(d)
  BY <1>1 DEF State, Loaded
<1>4. Base' = Current /\ Current' = Current
  BY <1>1, <1>3 DEF Base, Current
<1>5. \A e \in Device : pc'[e] \notin Inside
  BY <1>1, ParserAssumption DEF Exclusive
<1>6. InLoop \subseteq Inside
  BY DEF InLoop, Inside
<1>7. \A e \in Device : pc'[e] # "idle" => packet'[e] \in Packet
  BY <1>1 DEF AInv, TypeOK
<1>8. AInv'
  BY <1>4, <1>5, <1>6, <1>7 DEF AInv
<1> QED
  BY <1>2, <1>3, <1>4, <1>8

(* Nobody is in Parse at first, and the parser is new.                     *)
LEMMA AInvInit ==
  ASSUME SInit PROVE AInv /\ Atomic!Init
<1>1. /\ base.table = fragments /\ base.counts = counts /\ base.calls = calls
      /\ base.last = <<>>
  BY DEF SInit, State
<1>2. Base = Current
  BY <1>1 DEF Base, Current
<1>3. \A d \in Device : pc[d] = "idle"
  BY DEF SInit, Init
<1>4. "idle" \notin Inside /\ "idle" \notin InLoop
  BY DEF Inside, InLoop
<1>5. Current = NewParser
  <2>1. Counters = {"messages", "events", "requests", "responses"}
    BY DEF Counters, Kinds
  <2> QED
    BY <2>1 DEF SInit, Init, Current, NewParser
<1>6. Atomic!State = Base
  BY DEF Atomic!State, Base
<1> QED
  BY <1>1, <1>2, <1>3, <1>4, <1>5, <1>6 DEF AInv, Atomic!Init

(* A step is that of AtomicParser when the mutex is freed, and none before.*)
LEMMA AtomicStep ==
  ASSUME TypeOK, Exclusive, Exclusive', AInv, [SNext]_<<vars, base>>
  PROVE  /\ AInv'
         /\ [Atomic!Next]_<<base.table, base.counts, base.calls, base.last>>
<1>1. ASSUME NEW d \in Device, Unlock(d), SNext PROVE AInv' /\ Atomic!Next
  <2>1. mu = d /\ mu' = NoOne
    BY <1>1 DEF Unlock, Goes, Exclusive, Inside
  <2>2. base' = State(fragments', counts', calls', PacketBytes(packet[d]))
    BY <1>1, <2>1, ParserAssumption DEF SNext
  <2>3. /\ AInv'
        /\ packet[d] \in Packet /\ base'.last = Loaded(d) /\ Base' = Parsed(Base, Loaded(d))
    BY <1>1, <2>2, UnlockFollows
  <2>4. Loaded(d) \in Payload
    BY <2>3 DEF Loaded, Payload
  <2>5. Atomic!State = Base /\ Atomic!State' = Base'
    BY DEF Atomic!State, Base
  <2>6. Atomic!Parse(Loaded(d))
    BY <2>3, <2>5 DEF Atomic!Parse
  <2> QED
    BY <2>3, <2>4, <2>6 DEF Atomic!Next
<1>2. ASSUME base' = base
      PROVE  UNCHANGED <<base.table, base.counts, base.calls, base.last>>
  BY <1>2
<1>3. ASSUME NEW d \in Device, NEW p \in Packet, Parse(d, p), SNext
      PROVE  AInv' /\ base' = base
  <2>1. mu' = mu /\ UNCHANGED <<fragments, counts, calls, at, left, body>>
    BY <1>3 DEF Parse
  <2>2. base' = base
    BY <1>3, <2>1 DEF SNext
  <2> QED
    BY <1>3, <2>1, <2>2, OutsideFollows
<1>4. ASSUME NEW d \in Device, Lock(d), SNext PROVE AInv' /\ base' = base
  <2>1. base' = base
    BY <1>4 DEF SNext, Lock
  <2> QED
    BY <1>4, <2>1, LockFollows
<1>5. ASSUME NEW d \in Device, Work(d), ~ Unlock(d), SNext PROVE AInv' /\ base' = base
  <2>1. mu' = mu
    BY <1>5 DEF Work, ReadHeader, EndOfCommands, Abort, Skip, TakeMessage, Discard, Panic,
           Keep, Deliver, Ignore, CountMessage, TooLittleData, CountDecoded, Call, Return,
           Consume, parser
  <2>2. base' = base
    BY <1>5, <2>1 DEF SNext
  <2>3. CASE ReadHeader(d)
    BY <2>2, <2>3, ReadHeaderFollows
  <2>4. CASE EndOfCommands(d)
    BY <2>2, <2>4, EndOfCommandsFollows
  <2>5. CASE Abort(d)
    BY <2>2, <2>5, AbortFollows
  <2>6. CASE Skip(d) \/ Discard(d)
    BY <2>2, <2>6, SkipFollows
  <2>7. CASE TakeMessage(d)
    BY <2>2, <2>7, TakeMessageFollows
  <2>8. CASE Panic(d)
    BY <2>2, <2>8, PanicFollows
  <2>9. CASE Keep(d)
    BY <2>2, <2>9, KeepFollows
  <2>10. CASE Deliver(d)
    BY <2>2, <2>10, DeliverFollows
  <2>11. CASE Ignore(d) \/ TooLittleData(d) \/ Return(d)
    BY <2>2, <2>11, IgnoreFollows
  <2>12. CASE CountMessage(d)
    BY <2>2, <2>12, CountMessageFollows
  <2>13. CASE CountDecoded(d)
    BY <2>2, <2>13, CountDecodedFollows
  <2>14. CASE Call(d)
    BY <2>2, <2>14, CallFollows
  <2> QED
    BY <1>5, <2>2, <2>3, <2>4, <2>5, <2>6, <2>7, <2>8, <2>9, <2>10, <2>11, <2>12, <2>13,
       <2>14 DEF Work
<1>6. ASSUME UNCHANGED <<vars, base>> PROVE AInv'
  <2>1. UNCHANGED <<mu, fragments, counts, calls, pc, packet, at, left, body, base>>
    BY <1>6 DEF vars, parser, frames
  <2>2. Base' = Base /\ Current' = Current
    BY <2>1 DEF Base, Current
  <2>3. ASSUME NEW d PROVE Placed(d)' = Placed(d) /\ Follows(d)' = Follows(d)
    <3>1. Loaded(d)' = Loaded(d) /\ Now(d)' = Now(d) /\ Reached(d)' = Reached(d)
      BY <2>1, <2>2 DEF Loaded, Now, Reached
    <3>2. Placed(d)' = Placed(d)
      BY <2>1 DEF Placed
    <3>3. Follows(d)' = Follows(d)
      BY <2>1, <2>2, <3>1 DEF Follows
    <3> QED
      BY <3>2, <3>3
  <2> QED
    BY <2>1, <2>2, <2>3 DEF AInv
<1> QED
  BY <1>1, <1>2, <1>3, <1>4, <1>5, <1>6 DEF SNext, Next

(* Parse is atomic: a run of the goroutines is a run of AtomicParser, in   *)
(* which the payloads take effect in the order in which the mutex is freed *)
(* and each does what a plain loop over its bytes does.                    *)
THEOREM ImplementsAtomicParser == SSpec => ParseIsAtomic
<1> DEFINE IInv == PInv /\ AInv
<1>1. SInit => IInv /\ Atomic!Init
  BY PInvInit, AInvInit DEF SInit
<1>2. IInv /\ [SNext]_<<vars, base>> =>
        IInv' /\ [Atomic!Next]_<<base.table, base.counts, base.calls, base.last>>
  <2> SUFFICES ASSUME IInv, [SNext]_<<vars, base>>
               PROVE  IInv' /\ [Atomic!Next]_<<base.table, base.counts, base.calls, base.last>>
    OBVIOUS
  <2>1. [Next]_vars
    BY DEF SNext
  <2>2. PInv'
    BY <2>1, TypeNext, ExclusiveNext, DispatchedNext, CountsNext DEF PInv
  <2> QED
    BY <2>2, AtomicStep DEF PInv
<1> HIDE DEF IInv
<1> QED
  BY <1>1, <1>2, PTL DEF SSpec, ParseIsAtomic, Atomic!Spec
=============================================================================
