---------------------------- MODULE CaptureProofs ----------------------------
(***************************************************************************)
(* The goroutines of Capture never block when they report, the wait for    *)
(* the first packet is right, and each device's Photon packets reach the   *)
(* sink in order, for any devices and packets.                             *)
(***************************************************************************)
EXTENDS Capture, FiniteSetTheorems, DataLemmas, TLAPS

Busy == {"open", "filter", "select", "parse"}

(* Nothing runs before Run, and a chosen device runs alone, inside Run.    *)
Places ==
  /\ run = "called" => errCh = <<>> /\ \A d \in Device : pc[d] = "off"
  /\ run = "reading" => device # AllDevices
  /\ device # AllDevices =>
       /\ \A d \in Device \ {device} : pc[d] = "off"
       /\ \A d \in Device : pc[d] # "report"
       /\ run # "reading" => \A d \in Device : pc[d] \in {"off", "ended"}

(* The channel has room for the result of every goroutine that is left.    *)
Running == {d \in Device : pc[d] \notin {"off", "ended"}}
Room == device = AllDevices => Len(errCh) + Cardinality(Running) <= capErrCh

(* What a tick found in time is reported at once.                          *)
Reported == inTime => calls # <<>> /\ waiter \in {"seen", "true"}

IInv == TypeOK /\ Places /\ Room /\ Reported

-----------------------------------------------------------------------------
LEMMA RunningFinite ==
  IsFiniteSet(Running) /\ Cardinality(Running) \in Nat
<1>1. IsFiniteSet(Running)
  BY CaptureAssumption, FS_Subset DEF Running
<1> QED
  BY <1>1, FS_CardinalityType

LEMMA InvInit ==
  ASSUME Init PROVE IInv
<1> USE CaptureAssumption
<1>1. TypeOK
  <2>1. /\ errCh \in Seq(Outcome) /\ calls \in Seq(Device \X Packet)
        /\ wire \in [Device -> Seq(Packet)] /\ queue \in [Device -> Seq(Packet)]
    BY EmptySeq DEF Init
  <2>2. \A d \in Device : Len(queue[d]) <= ChanSize
    <3>1. TAKE d \in Device
    <3>2. queue[d] = <<>> /\ Len(<<>>) = 0
      BY EmptySeq DEF Init
    <3> QED
      BY <3>2
  <2> QED
    BY <2>1, <2>2 DEF Init, TypeOK, Outcome
<1>2. Places /\ Reported
  BY DEF Init, Places, Reported
<1>3. Running = {}
  BY DEF Init, Running
<1>4. Room
  BY <1>3, FS_EmptySet DEF Init, Room
<1> QED
  BY <1>1, <1>2, <1>4 DEF IInv

(* Run.                                                                    *)
LEMMA RunSteps ==
  ASSUME IInv, RunStep PROVE IInv'
<1> USE DEF IInv
<1>1. ASSUME RunOne PROVE IInv'
  <2>1. /\ run = "called" /\ device # AllDevices /\ run' = "reading"
        /\ pc' = [pc EXCEPT ![device] = "open"]
        /\ UNCHANGED <<cancelled, errCh, outcome, calls, device, result, capErrCh, source, waiting>>
    BY <1>1 DEF RunOne
  <2>2. TypeOK'
    BY <2>1 DEF TypeOK, source, waiting
  <2>3. Places' /\ Room' /\ Reported'
    BY <2>1 DEF TypeOK, Places, Room, Reported, source, waiting
  <2> QED
    BY <2>2, <2>3
<1>2. ASSUME NoDevices \/ Return PROVE IInv'
  <2>1. /\ device = AllDevices \/ run = "waiting"
        /\ run' = "returned" /\ result' \in Outcome
        /\ UNCHANGED <<cancelled, errCh, pc, outcome, calls, device, capErrCh, source, waiting>>
    BY <1>2 DEF NoDevices, Return, Outcome
  <2>2. TypeOK' /\ Places' /\ Reported'
    BY <2>1 DEF TypeOK, Places, Reported, source, waiting
  <2>3. Running' = Running
    BY <2>1 DEF Running
  <2>4. Room'
    BY <2>1, <2>3 DEF Room
  <2> QED
    BY <2>2, <2>4
<1>3. ASSUME NEW found \in SUBSET Device, RunAll(found) PROVE IInv'
  <2> DEFINE up == found \cap Addressed
  <2>1. /\ run = "called" /\ device = AllDevices /\ run' = "waiting"
        /\ capErrCh' = Cardinality(up)
        /\ pc' = [d \in Device |-> IF d \in up THEN "open" ELSE "off"]
        /\ UNCHANGED <<cancelled, errCh, outcome, calls, device, result, source, waiting>>
    BY <1>3 DEF RunAll
  <2>2. Running' = up
    BY <2>1 DEF Running
  <2>3. Cardinality(up) \in Nat
    BY CaptureAssumption, FS_Subset, FS_CardinalityType
  <2> HIDE DEF up
  <2>4. TypeOK'
    BY <2>1, <2>3 DEF TypeOK, source, waiting
  <2>5. Places' /\ Reported'
    BY <2>1 DEF Places, Reported, waiting
  <2>6. Len(errCh') = 0
    BY <2>1 DEF Places
  <2>7. Room'
    BY <2>1, <2>2, <2>3, <2>6 DEF Room
  <2> QED
    BY <2>4, <2>5, <2>7
<1> QED
  BY <1>1, <1>2, <1>3 DEF RunStep

(* A goroutine that goes on stays in Running, ...                          *)
LEMMA GoesOn ==
  ASSUME IInv, NEW d \in Device, NEW from \in Busy, NEW to \in Busy,
         Goes(d, from, to), UNCHANGED <<device, run, errCh, capErrCh>>
  PROVE  Places' /\ Room' /\ pc' \in [Device -> Busy \cup {"off", "report", "ended"}]
<1> USE DEF IInv, Busy
<1>1. pc[d] = from /\ pc' = [pc EXCEPT ![d] = to]
  BY DEF Goes
<1>2. Running' = Running
  BY <1>1 DEF Running, TypeOK
<1>3. Places'
  BY <1>1 DEF Places, TypeOK
<1> QED
  BY <1>1, <1>2, <1>3 DEF Room, TypeOK

(* and so does one that has a result to report.                            *)
LEMMA EndsSafely ==
  ASSUME IInv, NEW d \in Device, NEW from \in Busy, NEW o \in Outcome, Ends(d, from, o)
  PROVE  IInv'
<1> USE DEF IInv, Busy
<1>1. /\ pc[d] = from /\ outcome' = [outcome EXCEPT ![d] = o]
      /\ UNCHANGED <<cancelled, errCh, device, capErrCh, source, calls, waiting>>
  BY DEF Ends, Goes
<1>2. CASE run = "reading"
  <2>1. /\ pc' = [pc EXCEPT ![d] = "ended"] /\ run' = "returned" /\ result' = o
        /\ device # AllDevices
    BY <1>2 DEF Ends, Goes, Places
  <2>2. TypeOK'
    BY <1>1, <2>1 DEF TypeOK, source, waiting
  <2>3. Places' /\ Room' /\ Reported'
    BY <1>1, <2>1 DEF Places, Room, Reported, TypeOK, waiting
  <2> QED
    BY <2>2, <2>3
<1>3. CASE run # "reading"
  <2>1. /\ pc' = [pc EXCEPT ![d] = "report"] /\ UNCHANGED <<run, result>>
        /\ device = AllDevices
    BY <1>1, <1>3 DEF Ends, Goes, Places
  <2>2. TypeOK'
    BY <1>1, <2>1 DEF TypeOK, source, waiting
  <2>3. Running' = Running
    BY <1>1, <2>1 DEF Running, TypeOK
  <2>4. Places' /\ Reported'
    BY <1>1, <2>1 DEF Places, Reported, waiting
  <2>5. Room'
    BY <1>1, <2>1, <2>3 DEF Room
  <2> QED
    BY <2>2, <2>4, <2>5
<1> QED
  BY <1>2, <1>3

(* runDevice.                                                              *)
LEMMA DeviceSteps ==
  ASSUME IInv, NEW d \in Device, Step(d) PROVE IInv'
<1> USE DEF IInv
<1>1. ASSUME OpenFails(d) \/ FilterFails(d) \/ Done(d) \/ Closed(d) PROVE IInv'
  BY <1>1, EndsSafely DEF OpenFails, FilterFails, Done, Closed, Busy, Outcome
<1>2. ASSUME Open(d) \/ SetFilter(d) \/ ParseReturns(d) PROVE IInv'
  <2>1. PICK from \in Busy, to \in Busy : Goes(d, from, to)
    BY <1>2 DEF Open, SetFilter, ParseReturns, Busy
  <2>2. UNCHANGED <<cancelled, errCh, outcome, calls, runner, source, waiting>>
    BY <1>2 DEF Open, SetFilter, ParseReturns
  <2>3. Places' /\ Room' /\ pc' \in [Device -> Busy \cup {"off", "report", "ended"}]
    BY <2>1, <2>2, GoesOn DEF runner
  <2>4. TypeOK' /\ Reported'
    BY <2>2, <2>3 DEF TypeOK, Reported, Busy, runner, source, waiting
  <2> QED
    BY <2>3, <2>4
<1>3. ASSUME Receive(d) PROVE IInv'
  <2>1. PICK to \in {"select", "parse"} : Goes(d, "select", to)
    BY <1>3 DEF Receive, Ignore, Forward
  <2>2. /\ queue[d] # <<>> /\ queue' = [queue EXCEPT ![d] = Tail(@)]
        /\ calls' = calls \/ calls' = Append(calls, <<d, Head(queue[d])>>)
        /\ UNCHANGED <<cancelled, errCh, outcome, runner, wire, closed, waiting>>
    BY <1>3 DEF Receive, Ignore, Forward
  <2>3. Places' /\ Room' /\ pc' \in [Device -> Busy \cup {"off", "report", "ended"}]
    BY <2>1, <2>2, GoesOn DEF runner, Busy
  <2>4. /\ queue[d] \in Seq(Packet) /\ Head(queue[d]) \in Packet
        /\ Tail(queue[d]) \in Seq(Packet) /\ Len(Tail(queue[d])) <= ChanSize
    BY <2>2, HeadTailProperties, CaptureAssumption DEF TypeOK
  <2>5. /\ calls' \in Seq(Device \X Packet)
        /\ calls # <<>> => calls' # <<>>
    <3>1. CASE calls' = calls
      BY <3>1 DEF TypeOK
    <3>2. CASE calls' = Append(calls, <<d, Head(queue[d])>>)
      <4>1. <<d, Head(queue[d])>> \in Device \X Packet
        BY <2>4
      <4>2. \A c \in Device \X Packet :
              Append(calls, c) \in Seq(Device \X Packet) /\ Append(calls, c) # <<>>
        <5>1. \A S, s : s \in Seq(S) => \A c \in S : Append(s, c) \in Seq(S) /\ Append(s, c) # <<>>
          BY AppendProperties
        <5>2. calls \in Seq(Device \X Packet)
          BY DEF TypeOK
        <5> QED
          BY <5>1, <5>2, Zenon
      <4> QED
        BY <3>2, <4>1, <4>2
    <3> QED
      BY <2>2, <3>1, <3>2
  <2>6. /\ queue' \in [Device -> Seq(Packet)]
        /\ \A e \in Device : Len(queue'[e]) <= ChanSize
    <3>1. \A e \in Device : queue'[e] = IF e = d THEN Tail(queue[d]) ELSE queue[e]
      BY <2>2 DEF TypeOK
    <3>2. \A e \in Device : queue'[e] \in Seq(Packet) /\ Len(queue'[e]) <= ChanSize
      BY <3>1, <2>4 DEF TypeOK
    <3> QED
      BY <2>2, <3>2 DEF TypeOK
  <2>7. UNCHANGED <<cancelled, errCh, outcome, runner, wire, closed, waiting>>
    BY <2>2
  <2>8. TypeOK'
    BY <2>7, <2>3, <2>5, <2>6 DEF TypeOK, Busy, runner, waiting
  <2>9. Reported'
    BY <2>7, <2>5 DEF Reported, waiting
  <2> QED
    BY <2>3, <2>8, <2>9
<1>4. ASSUME Report(d) PROVE IInv'
  <2>1. /\ pc[d] = "report" /\ pc' = [pc EXCEPT ![d] = "ended"]
        /\ errCh' = Append(errCh, outcome[d])
        /\ UNCHANGED <<cancelled, outcome, calls, runner, source, waiting>>
    BY <1>4 DEF Report, Goes
  <2>2. /\ errCh' \in Seq(Outcome) /\ Len(errCh') = Len(errCh) + 1 /\ Len(errCh) \in Nat
    BY <2>1, AppendProperties, LenProperties DEF TypeOK
  <2>3. TypeOK' /\ Reported'
    BY <2>1, <2>2 DEF TypeOK, Reported, runner, source, waiting
  <2>4. device = AllDevices /\ run # "called"
    BY <2>1 DEF Places
  <2>5. Places'
    BY <2>1, <2>4 DEF Places, runner
  <2>6. Running' = Running \ {d} /\ d \in Running
    BY <2>1 DEF Running, TypeOK
  <2>7. Cardinality(Running') = Cardinality(Running) - 1
    BY <2>6, RunningFinite, FS_RemoveElement
  <2>8. Room'
    BY <2>1, <2>2, <2>4, <2>7, RunningFinite DEF Room, TypeOK, runner
  <2> QED
    BY <2>3, <2>5, <2>8
<1> QED
  BY <1>1, <1>2, <1>3, <1>4 DEF Step

(* The others.                                                             *)
LEMMA OtherSteps ==
  ASSUME IInv,
         \/ \E d \in Device : SourceEnds(d) \/ \E p \in Packet : Arrive(d, p)
         \/ Cancel \/ Wait \/ TimeOut \/ UNCHANGED vars
  PROVE  IInv'
<1> USE DEF IInv
<1>1. /\ UNCHANGED <<errCh, pc, outcome, calls, runner>>
      /\ cancelled' \in BOOLEAN
  BY DEF SourceEnds, Arrive, Cancel, Wait, WaitDone, Tick, Seen, PastDeadline, TimeOut,
         capturer, vars, TypeOK
<1>2. /\ wire' \in [Device -> Seq(Packet)] /\ queue' \in [Device -> Seq(Packet)]
      /\ \A d \in Device : Len(queue'[d]) <= ChanSize
  <2>1. ASSUME NEW d \in Device, NEW p \in Packet, Arrive(d, p)
        PROVE  /\ wire' \in [Device -> Seq(Packet)] /\ queue' \in [Device -> Seq(Packet)]
               /\ \A e \in Device : Len(queue'[e]) <= ChanSize
    <3>1. /\ wire' = [wire EXCEPT ![d] = Append(@, p)]
          /\ queue' = [queue EXCEPT ![d] = Append(@, p)] /\ Len(queue[d]) < ChanSize
      BY <2>1 DEF Arrive
    <3>2. /\ Append(wire[d], p) \in Seq(Packet) /\ Append(queue[d], p) \in Seq(Packet)
          /\ Len(Append(queue[d], p)) = Len(queue[d]) + 1 /\ Len(queue[d]) \in Nat
      BY AppendProperties, LenProperties DEF TypeOK
    <3> QED
      BY <3>1, <3>2, CaptureAssumption DEF TypeOK
  <2>2. ASSUME ~ \E d \in Device, p \in Packet : Arrive(d, p)
        PROVE  UNCHANGED <<wire, queue>>
    BY <2>2 DEF SourceEnds, Cancel, Wait, WaitDone, Tick, Seen, PastDeadline, TimeOut,
                capturer, source, vars
  <2> QED
    BY <2>1, <2>2 DEF TypeOK
<1>3. /\ late' \in BOOLEAN /\ inTime' \in BOOLEAN
      /\ waiter' \in {"off", "select", "seen", "deadline", "true", "false"}
  BY DEF SourceEnds, Arrive, Cancel, Wait, WaitDone, Tick, Seen, PastDeadline, TimeOut,
         Waits, waiting, vars, TypeOK
<1>4. Reported'
  BY <1>1 DEF SourceEnds, Arrive, Cancel, Wait, WaitDone, Tick, Seen, PastDeadline, TimeOut,
              Waits, waiting, vars, TypeOK, Reported
<1>5. TypeOK'
  BY <1>1, <1>2, <1>3 DEF TypeOK, runner
<1>6. Running' = Running
  BY <1>1 DEF Running
<1>7. Places' /\ Room'
  BY <1>1, <1>6 DEF Places, Room, runner
<1> QED
  BY <1>4, <1>5, <1>7

LEMMA InvAlways == Spec => []IInv
<1>1. Init => IInv
  BY InvInit
<1>2. IInv /\ [Next]_vars => IInv'
  BY RunSteps, DeviceSteps, OtherSteps DEF Next
<1> QED
  BY <1>1, <1>2, PTL DEF Spec

-----------------------------------------------------------------------------
(* The theorems.                                                           *)

(* Every variable keeps to its values, and a source's channel to its size. *)
THEOREM TypeCorrect == Spec => []TypeOK
<1>1. IInv => TypeOK
  BY DEF IInv
<1> QED
  BY <1>1, InvAlways, PTL

(* The goroutine of runDevice never blocks in errCh <- err, although       *)
(* nobody ever receives: the safety part of DevicesEnd, for any number of  *)
(* devices, whichever of them can be opened.                               *)
THEOREM RoomToReport == Spec => [](\A d \in Device : pc[d] = "report" => Len(errCh) < capErrCh)
<1>1. ASSUME IInv, NEW d \in Device, pc[d] = "report" PROVE Len(errCh) < capErrCh
  <2>1. device = AllDevices
    BY <1>1 DEF IInv, Places
  <2>2. Cardinality(Running) # 0
    BY <1>1, RunningFinite, FS_EmptySet DEF Running
  <2>3. Len(errCh) \in Nat /\ capErrCh \in Nat
    BY <1>1, LenProperties DEF IInv, TypeOK
  <2> QED
    BY <1>1, <2>1, <2>2, <2>3, RunningFinite DEF IInv, Room
<1>2. IInv => \A d \in Device : pc[d] = "report" => Len(errCh) < capErrCh
  BY <1>1
<1> QED
  BY <1>2, InvAlways, PTL

(* WaitForFirstPacket never denies a packet that was there at a tick       *)
(* before its deadline.                                                    *)
THEOREM NothingOverlooked == Spec => []NotOverlooked
<1>1. IInv => NotOverlooked
  BY DEF IInv, Reported, NotOverlooked
<1> QED
  BY <1>1, InvAlways, PTL

-----------------------------------------------------------------------------
(* Each device's packets reach the sink in order and completely.           *)

(* What is in the channel is what is still to be passed on, and runDevice  *)
(* has ended by itself only with a channel that is closed and empty.       *)
Order(d) == PhotonOf(wire[d]) = PassedOn(d) \o PhotonOf(queue[d])
Drained(d) == outcome[d] = "nil" => closed[d] /\ queue[d] = <<>>
OInv == IInv /\ \A d \in Device : Order(d) /\ Drained(d)

Second == [c \in Device \X Packet |-> c[2]]

(* What a device has passed on, as a sequence of packets.                  *)
LEMMA PassedOnFacts ==
  ASSUME NEW s \in Seq(Device \X Packet), NEW d \in Device
  PROVE  /\ Filtered(s, {d} \X Packet) \in Seq(Device \X Packet)
         /\ Mapped(Filtered(s, {d} \X Packet), Second) \in Seq(Packet)
         /\ [j \in DOMAIN Filtered(s, {d} \X Packet) |-> Filtered(s, {d} \X Packet)[j][2]]
              = Mapped(Filtered(s, {d} \X Packet), Second)
<1> DEFINE C == Device \X Packet
           D == {d} \X Packet
           w == Filtered(s, D)
           E == C \cap D
<1>1. w \in Seq(E)
  <2> HIDE DEF C, D
  <2> QED
    BY FilteredType DEF C
<1>2. E \subseteq C
  OBVIOUS
<1> HIDE DEF w, D, E
<1>3. w \in Seq(C)
  <2> HIDE DEF C
  <2> QED
    BY <1>1, <1>2, SeqMonotonic
<1>4. \A j \in DOMAIN w : w[j] \in C
  <2> HIDE DEF C
  <2> QED
    BY <1>3, LenProperties, ElementOfSeq
<1>5. [j \in DOMAIN w |-> w[j][2]] = Mapped(w, Second)
  BY <1>4 DEF Mapped, Second
<1>6. \A c \in C : Second[c] \in Packet
  BY DEF Second
<1>7. Mapped(w, Second) \in Seq(Packet)
  <2> HIDE DEF C
  <2> QED
    BY <1>3, <1>6, MappedType
<1> QED
  BY <1>3, <1>5, <1>7 DEF w, D

(* A call of sink.Parse adds its packet to those of its device.            *)
LEMMA CallPassesOn ==
  ASSUME calls \in Seq(Device \X Packet), NEW d \in Device, NEW p \in Packet, NEW e \in Device,
         calls' = Append(calls, <<d, p>>)
  PROVE  PassedOn(e)' = IF e = d THEN Append(PassedOn(e), p) ELSE PassedOn(e)
<1> DEFINE C == Device \X Packet
           E == {e} \X Packet
           x == <<d, p>>
           v == Filtered(calls, E)
<1>1. x \in C /\ (x \in E <=> e = d) /\ Second[x] = p
  BY DEF Second
<1>2. calls' \in Seq(C) /\ v \in Seq(C)
  <2>1. x \in C
    BY <1>1
  <2>2. calls' = Append(calls, x)
    OBVIOUS
  <2>3. v \in Seq(C)
    BY PassedOnFacts
  <2> HIDE DEF C, x, v
  <2>4. Append(calls, x) \in Seq(C)
    BY <2>1, AppendProperties DEF C
  <2> QED
    BY <2>2, <2>3, <2>4
<1>3. PassedOn(e)' = Mapped(Filtered(calls', E), Second) /\ PassedOn(e) = Mapped(v, Second)
  BY <1>2, PassedOnFacts DEF PassedOn
<1>4. Filtered(calls', E) = IF x \in E THEN Append(v, x) ELSE v
  <2>1. calls' = Append(calls, x) /\ calls \in Seq(C) /\ x \in C
    BY <1>1
  <2> HIDE DEF C, E, x
  <2>2. Filtered(Append(calls, x), E) = IF x \in E THEN Append(v, x) ELSE v
    BY <2>1, FilteredAppend
  <2> QED
    BY <2>1, <2>2
<1>5. Mapped(Append(v, x), Second) = Append(Mapped(v, Second), Second[x])
  <2>1. v \in Seq(C) /\ x \in C
    BY <1>1, <1>2
  <2> HIDE DEF C, v, x
  <2> QED
    BY <2>1, MappedAppend
<1> HIDE DEF C, E, x, v
<1> QED
  BY <1>1, <1>3, <1>4, <1>5

(* A step that touches none of the packets and ends no runDevice by itself *)
(* leaves Order and Drained alone.                                         *)
LEMMA OrderStill ==
  ASSUME \A e \in Device : Order(e) /\ Drained(e), UNCHANGED <<wire, queue, calls>>,
         \A e \in Device : closed[e] => closed'[e],
         \A e \in Device : outcome'[e] = "nil" => outcome[e] = "nil"
  PROVE  \A e \in Device : (Order(e) /\ Drained(e))'
  BY DEF Order, Drained, PassedOn

(* The packet at the head of the channel is passed on or left out.         *)
LEMMA ReceiveOrder ==
  ASSUME OInv, NEW d \in Device, Receive(d)
  PROVE  \A e \in Device : (Order(e) /\ Drained(e))'
<1> DEFINE q == queue[d]
           S == {p \in Packet : Forwarded(p)}
<1>1. /\ q \in Seq(Packet) /\ q # <<>> /\ calls \in Seq(Device \X Packet)
      /\ queue' = [queue EXCEPT ![d] = Tail(@)] /\ UNCHANGED <<wire, closed, outcome>>
      /\ queue \in [Device -> Seq(Packet)]
  BY DEF OInv, IInv, TypeOK, Receive, Ignore, Forward
<1>2. queue'[d] = Tail(q) /\ \A e \in Device \ {d} : queue'[e] = queue[e]
  BY <1>1
<1>3. /\ Head(q) \in Packet /\ Tail(q) \in Seq(Packet)
      /\ Filtered(q, S) = IF Head(q) \in S THEN <<Head(q)>> \o Filtered(Tail(q), S)
                                           ELSE Filtered(Tail(q), S)
  <2>1. q \in Seq(Packet) /\ q # <<>>
    BY <1>1
  <2> HIDE DEF q, S
  <2> QED
    BY <2>1, FilteredHead
<1>4. \A e \in Device : Drained(e)'
  BY <1>1, <1>2 DEF OInv, Drained
<1>5. CASE Ignore(d)
  <2>1. calls' = calls /\ Head(q) \notin S
    BY <1>5 DEF Ignore
  <2>2. PhotonOf(q) = PhotonOf(Tail(q))
    BY <1>3, <2>1 DEF PhotonOf
  <2>3. \A e \in Device : Order(e)'
    BY <1>1, <1>2, <2>1, <2>2 DEF OInv, Order, PassedOn
  <2> QED
    BY <1>4, <2>3
<1>6. CASE Forward(d)
  <2>1. calls' = Append(calls, <<d, Head(q)>>) /\ Head(q) \in S
    BY <1>3, <1>6 DEF Forward
  <2>2. PhotonOf(q) = <<Head(q)>> \o PhotonOf(Tail(q))
    BY <1>3, <2>1 DEF PhotonOf
  <2>3. \A e \in Device :
          PassedOn(e)' = IF e = d THEN Append(PassedOn(e), Head(q)) ELSE PassedOn(e)
    <3> DEFINE h == Head(q)
    <3>1. h \in Packet /\ calls' = Append(calls, <<d, h>>)
      BY <1>3, <2>1
    <3> HIDE DEF h
    <3>2. \A e \in Device :
            PassedOn(e)' = IF e = d THEN Append(PassedOn(e), h) ELSE PassedOn(e)
      BY <1>1, <3>1, CallPassesOn
    <3> QED
      BY <3>2 DEF h
  <2>4. PassedOn(d) \in Seq(Packet) /\ PhotonOf(Tail(q)) \in Seq(Packet)
    <3>1. PassedOn(d) \in Seq(Packet)
      BY <1>1, PassedOnFacts DEF PassedOn
    <3>2. Filtered(Tail(q), S) \in Seq(Packet \cap S)
      BY <1>3, FilteredType
    <3>3. Packet \cap S \subseteq Packet
      OBVIOUS
    <3>4. Filtered(Tail(q), S) \in Seq(Packet)
      <4> DEFINE A == Packet \cap S
                 u == Filtered(Tail(q), S)
      <4>1. u \in Seq(A) /\ A \subseteq Packet
        BY <3>2, <3>3
      <4> HIDE DEF A, u
      <4>2. u \in Seq(Packet)
        BY <4>1, SeqMonotonic
      <4> QED
        BY <4>2 DEF u
    <3> QED
      BY <3>1, <3>4 DEF PhotonOf
  <2>5. Order(d)'
    <3> DEFINE a == PassedOn(d)
               b == PhotonOf(Tail(q))
               h == Head(q)
    <3>1. a \in Seq(Packet) /\ b \in Seq(Packet) /\ h \in Packet
      BY <1>3, <2>4
    <3>2. PhotonOf(wire[d]) = a \o (<<h>> \o b)
      BY <2>2 DEF OInv, Order
    <3>3. PassedOn(d)' = Append(a, h)
      BY <2>3
    <3> HIDE DEF a, b, h
    <3>4. Append(a, h) = a \o <<h>>
      BY <3>1, AppendIsConcat
    <3>5. Append(<<>>, h) = <<h>> /\ Append(<<>>, h) \in Seq(Packet)
      BY <3>1, EmptySeq, AppendProperties
    <3>6. (a \o <<h>>) \o b = a \o (<<h>> \o b)
      BY <3>1, <3>5, ConcatAssociative
    <3>7. PhotonOf(wire[d]) = PassedOn(d)' \o b
      BY <3>2, <3>3, <3>4, <3>6
    <3> QED
      BY <1>1, <1>2, <3>7 DEF Order, b, PhotonOf
  <2>6. \A e \in Device \ {d} : Order(e)'
    BY <1>1, <1>2, <2>3 DEF OInv, Order
  <2> QED
    BY <1>4, <2>5, <2>6
<1> QED
  BY <1>5, <1>6 DEF Receive

(* A packet that arrives is behind those that wait.                        *)
LEMMA ArriveOrder ==
  ASSUME OInv, NEW d \in Device, NEW p \in Packet, Arrive(d, p)
  PROVE  \A e \in Device : (Order(e) /\ Drained(e))'
<1> DEFINE S == {x \in Packet : Forwarded(x)}
           a == PassedOn(d)
           q == queue[d]
           w == wire[d]
<1>1. /\ ~ closed[d] /\ UNCHANGED <<closed, outcome, calls>>
      /\ wire' = [wire EXCEPT ![d] = Append(@, p)] /\ queue' = [queue EXCEPT ![d] = Append(@, p)]
      /\ wire \in [Device -> Seq(Packet)] /\ queue \in [Device -> Seq(Packet)]
      /\ calls \in Seq(Device \X Packet)
  BY DEF OInv, IInv, TypeOK, Arrive
<1>2. /\ wire'[d] = Append(w, p) /\ queue'[d] = Append(q, p)
      /\ \A e \in Device \ {d} : wire'[e] = wire[e] /\ queue'[e] = queue[e]
      /\ q \in Seq(Packet) /\ w \in Seq(Packet)
  BY <1>1
<1>3. \A e \in Device : Drained(e)'
  BY <1>1, <1>2 DEF OInv, Drained
<1>4. \A e \in Device : PassedOn(e)' = PassedOn(e)
  BY <1>1 DEF PassedOn
<1>5. a \in Seq(Packet)
  BY <1>1, PassedOnFacts DEF PassedOn
<1>6. Filtered(w, S) = a \o Filtered(q, S)
  BY DEF OInv, Order, PhotonOf
<1> HIDE DEF S, a, q, w
<1>7. /\ Filtered(Append(w, p), S) = IF p \in S THEN Append(Filtered(w, S), p) ELSE Filtered(w, S)
      /\ Filtered(Append(q, p), S) = IF p \in S THEN Append(Filtered(q, S), p) ELSE Filtered(q, S)
  BY <1>2, FilteredAppend
<1>8. p \in S => a \o Append(Filtered(q, S), p) = Append(a \o Filtered(q, S), p)
  <2> DEFINE A == Packet \cap S
             u == Filtered(q, S)
  <2>1. u \in Seq(A) /\ A \subseteq Packet
    BY <1>2, FilteredType
  <2> HIDE DEF A, u
  <2>2. u \in Seq(Packet)
    BY <2>1, SeqMonotonic
  <2>3. a \o Append(u, p) = Append(a \o u, p)
    BY <1>5, <2>2
  <2> QED
    BY <2>3 DEF u
<1>9. Filtered(Append(w, p), S) = a \o Filtered(Append(q, p), S)
  BY <1>6, <1>7, <1>8
<1>10. Order(d)'
  BY <1>2, <1>4, <1>9 DEF Order, PhotonOf, S, a
<1>11. \A e \in Device \ {d} : Order(e)'
  BY <1>2, <1>4 DEF OInv, Order
<1> QED
  BY <1>3, <1>10, <1>11

(* Every other step leaves the packets alone; one ends runDevice by        *)
(* itself, when the channel is closed and empty.                           *)
LEMMA OtherOrder ==
  ASSUME OInv, [Next]_vars,
         ~ \E d \in Device : Receive(d) \/ \E p \in Packet : Arrive(d, p)
  PROVE  \A e \in Device : (Order(e) /\ Drained(e))'
<1>1. ASSUME NEW d \in Device, Closed(d) PROVE \A e \in Device : (Order(e) /\ Drained(e))'
  <2>1. /\ closed[d] /\ queue[d] = <<>> /\ outcome' = [outcome EXCEPT ![d] = "nil"]
        /\ UNCHANGED <<wire, queue, closed, calls>>
    BY <1>1 DEF Closed, Ends, source
  <2>2. \A e \in Device : Order(e)'
    BY <2>1 DEF OInv, Order, PassedOn
  <2>3. \A e \in Device : Drained(e)'
    BY <2>1 DEF OInv, IInv, TypeOK, Drained
  <2> QED
    BY <2>2, <2>3
<1>2. ASSUME ~ \E d \in Device : Closed(d) PROVE \A e \in Device : (Order(e) /\ Drained(e))'
  <2>1. UNCHANGED <<wire, queue, calls>>
    <3>1. CASE RunStep
      BY <3>1 DEF RunStep, RunOne, NoDevices, RunAll, Return, source
    <3>2. ASSUME NEW d \in Device, Step(d) \/ SourceEnds(d) PROVE UNCHANGED <<wire, queue, calls>>
      BY <3>2, <1>2 DEF Step, OpenFails, Open, FilterFails, SetFilter, Done, ParseReturns,
                        Report, SourceEnds, Ends, source
    <3>3. CASE Cancel \/ Wait \/ TimeOut \/ UNCHANGED vars
      BY <3>3 DEF Cancel, Wait, WaitDone, Tick, Seen, PastDeadline, TimeOut, vars,
                  capturer, source
    <3> QED
      BY <3>1, <3>2, <3>3 DEF Next
  <2>2. \A e \in Device : closed[e] => closed'[e]
    <3>1. CASE RunStep
      BY <3>1 DEF RunStep, RunOne, NoDevices, RunAll, Return, source
    <3>2. ASSUME NEW d \in Device, Step(d) PROVE UNCHANGED closed
      BY <3>2, <1>2 DEF Step, OpenFails, Open, FilterFails, SetFilter, Done, ParseReturns,
                        Report, Ends, source
    <3>3. CASE Cancel \/ Wait \/ TimeOut \/ UNCHANGED vars
      BY <3>3 DEF Cancel, Wait, WaitDone, Tick, Seen, PastDeadline, TimeOut, vars,
                  capturer, source
    <3>4. ASSUME NEW d \in Device, SourceEnds(d) PROVE \A e \in Device : closed[e] => closed'[e]
      BY <3>4 DEF SourceEnds, OInv, IInv, TypeOK
    <3> QED
      BY <3>1, <3>2, <3>3, <3>4 DEF Next
  <2>3. \A e \in Device : outcome'[e] = "nil" => outcome[e] = "nil"
    <3>1. CASE RunStep
      BY <3>1 DEF RunStep, RunOne, NoDevices, RunAll, Return
    <3>2. ASSUME NEW d \in Device, OpenFails(d) \/ FilterFails(d) \/ Done(d)
          PROVE  \A e \in Device : outcome'[e] = "nil" => outcome[e] = "nil"
      BY <3>2 DEF OpenFails, FilterFails, Done, Ends, OInv, IInv, TypeOK
    <3>3. ASSUME NEW d \in Device,
                 Open(d) \/ SetFilter(d) \/ ParseReturns(d) \/ Report(d) \/ SourceEnds(d)
          PROVE  UNCHANGED outcome
      BY <3>3 DEF Open, SetFilter, ParseReturns, Report, SourceEnds
    <3>4. CASE Cancel \/ Wait \/ TimeOut \/ UNCHANGED vars
      BY <3>4 DEF Cancel, Wait, WaitDone, Tick, Seen, PastDeadline, TimeOut, vars, capturer
    <3> QED
      BY <1>2, <3>1, <3>2, <3>3, <3>4 DEF Next, Step
  <2>4. \A e \in Device : Order(e) /\ Drained(e)
    BY DEF OInv
  <2> QED
    BY <2>1, <2>2, <2>3, <2>4, OrderStill
<1> QED
  BY <1>1, <1>2

(* At the start nothing has been captured and nothing passed on.           *)
LEMMA OrderInit ==
  ASSUME Init PROVE OInv
<1>1. IInv
  BY InvInit
<1>2. ASSUME NEW d \in Device PROVE Order(d) /\ Drained(d)
  <2>1. calls = <<>> /\ wire[d] = <<>> /\ queue[d] = <<>> /\ outcome[d] = "none"
    BY DEF Init
  <2>2. PhotonOf(<<>>) = <<>> /\ Filtered(calls, {d} \X Packet) = <<>>
    BY <2>1, FilteredEmpty DEF PhotonOf
  <2>3. PassedOn(d) = <<>>
    <3> DEFINE mine == Filtered(calls, {d} \X Packet)
    <3>1. PassedOn(d) = [j \in DOMAIN mine |-> mine[j][2]] /\ mine = <<>>
      BY <2>2 DEF PassedOn
    <3> HIDE DEF mine
    <3>2. DOMAIN PassedOn(d) = {}
      BY <3>1
    <3>3. PassedOn(d) \in Seq(Packet)
      BY <1>1, PassedOnFacts DEF IInv, TypeOK, PassedOn
    <3> HIDE DEF PassedOn
    <3> QED
      BY <3>2, <3>3, EmptySeq
  <2>4. <<>> \o <<>> = <<>>
    OBVIOUS
  <2> QED
    BY <2>1, <2>2, <2>3, <2>4 DEF Order, Drained
<1> QED
  BY <1>1, <1>2 DEF OInv

LEMMA OrderNext ==
  ASSUME OInv, [Next]_vars PROVE OInv'
<1>1. IInv'
  BY RunSteps, DeviceSteps, OtherSteps DEF Next, OInv
<1>2. \A e \in Device : (Order(e) /\ Drained(e))'
  BY ReceiveOrder, ArriveOrder, OtherOrder
<1> QED
  BY <1>1, <1>2 DEF OInv

(* What has been passed on is a part from the start of what was captured,  *)
(* and all of it when nothing is left in the channel.                      *)
LEMMA InOrder ==
  ASSUME OInv PROVE InOrderAndComplete
<1> SUFFICES ASSUME NEW d \in Device
             PROVE  /\ IsPrefix(PassedOn(d), PhotonOf(wire[d]))
                    /\ outcome[d] = "nil" => PassedOn(d) = PhotonOf(wire[d])
  BY DEF InOrderAndComplete
<1> DEFINE a == PassedOn(d)
           b == PhotonOf(queue[d])
           w == PhotonOf(wire[d])
<1>2. a \in Seq(Packet)
  BY PassedOnFacts DEF PassedOn, OInv, IInv, TypeOK
<1>3. b \in Seq(Packet)
  <2> DEFINE S == {p \in Packet : Forwarded(p)}
             A == Packet \cap S
  <2>1. Filtered(queue[d], S) \in Seq(A)
    <3>1. queue[d] \in Seq(Packet)
      BY DEF OInv, IInv, TypeOK
    <3> HIDE DEF S
    <3> QED
      BY <3>1, FilteredType
  <2>2. A \subseteq Packet /\ b = Filtered(queue[d], S)
    BY DEF PhotonOf
  <2> HIDE DEF A, S, b
  <2> QED
    BY <2>1, <2>2, SeqMonotonic
<1>4. w = a \o b
  BY DEF OInv, Order
<1>5. outcome[d] = "nil" => b = <<>>
  BY FilteredEmpty DEF OInv, Drained, PhotonOf
<1> HIDE DEF a, b, w
<1>6. Len(a) \in Nat /\ Len(b) \in Nat
  BY <1>2, <1>3, LenProperties
<1>7. Len(w) = Len(a) + Len(b) /\ SubSeq(a, 1, Len(a)) = SubSeq(w, 1, Len(a))
  BY <1>2, <1>3, <1>4, <1>6
<1>8. IsPrefix(a, w)
  BY <1>6, <1>7 DEF IsPrefix
<1>9. outcome[d] = "nil" => a = w
  BY <1>2, <1>4, <1>5
<1> QED
  BY <1>8, <1>9 DEF a, w

(* Whatever the devices capture and however their goroutines, the context  *)
(* and their packet sources are scheduled, the sink is given each device's *)
(* Photon packets in the order of capture, none twice and none left out,   *)
(* and all of them if the source ends by itself.                           *)
THEOREM DeliveredInOrder == Spec => []InOrderAndComplete
<1>1. Init => OInv
  BY OrderInit
<1>2. OInv /\ [Next]_vars => OInv'
  BY OrderNext
<1>3. OInv => InOrderAndComplete
  BY InOrder
<1> QED
  BY <1>1, <1>2, <1>3, PTL DEF Spec
=============================================================================
