------------------------------- MODULE Capture -------------------------------
(***************************************************************************)
(* capture.Capturer (internal/capture/capture.go): Run starts a goroutine  *)
(* for each device, or captures one itself, and each reads packets until   *)
(* the context is cancelled or its packet source ends.                     *)
(*                                                                         *)
(* A packet is [udp, port, first, size]: whether a UDP header was captured *)
(* (an IPv4 fragment has none), one of its ports is Photon's, its first    *)
(* byte is one of Photon's, and the length of the payload.  The packet     *)
(* source is gopacket's: it fills a channel of its own and closes it when  *)
(* the device can no longer be read.                                       *)
(*                                                                         *)
(* An operator whose name ends in _<something> is a bug the code could     *)
(* have and does not: the properties are tested against it.                *)
(***************************************************************************)
EXTENDS Naturals, Sequences, FiniteSets, SequencesExt, Subsequences

CONSTANTS
  Device,       \* the network devices
  Addressed,    \* those with an address
  AllDevices,   \* Options.Device is empty
  Packet,       \* what can be captured
  ChanSize,     \* how many packets the source's channel holds
  MaxPackets,   \* how many packets are captured (a bound)
  Watched       \* the devices whose first packet is waited for (a bound)

ASSUME CaptureAssumption ==
  /\ IsFiniteSet(Device) /\ AllDevices \notin Device
  /\ Addressed \subseteq Device
  /\ ChanSize \in Nat \ {0} /\ MaxPackets \in Nat

VARIABLES
  device,       \* Options.Device, or AllDevices
  cancelled,    \* the context is
  run,          \* where Run is
  result,       \* what it has returned
  errCh,        \* the channel for the goroutines' results
  capErrCh,     \* its capacity
  pc,           \* where runDevice is for each device
  outcome,      \* what it has returned
  wire,         \* the packets captured on each device, in order
  queue,        \* those in the source's channel
  closed,       \* the source has closed it
  calls,        \* the calls of sink.Parse, in order: <<device, packet>>
  waiter,       \* where WaitForFirstPacket is, "true" and "false" in the end
  late,         \* its deadline has passed
  inTime        \* a tick before that came after a call of sink.Parse; history

waiting == <<waiter, late, inTime>>
runner == <<device, run, result, capErrCh>>
source == <<wire, queue, closed>>
capturer == <<errCh, pc, outcome, calls, runner, source>>
vars == <<cancelled, capturer, waiting>>

Init ==
  /\ device \in Device \cup {AllDevices}
  /\ cancelled = FALSE
  /\ run = "called" /\ result = "none"
  /\ errCh = <<>> /\ capErrCh = 0
  /\ pc = [d \in Device |-> "off"]
  /\ outcome = [d \in Device |-> "none"]
  /\ wire = [d \in Device |-> <<>>]
  /\ queue = [d \in Device |-> <<>>]
  /\ closed = [d \in Device |-> FALSE]
  /\ calls = <<>>
  /\ waiter = (IF device \in Watched THEN "select" ELSE "off")
  /\ late = FALSE /\ inTime = FALSE

-----------------------------------------------------------------------------
(* Run.                                                                    *)
RunOne ==
  /\ run = "called" /\ device # AllDevices
  /\ run' = "reading"
  /\ pc' = [pc EXCEPT ![device] = "open"]
  /\ UNCHANGED <<cancelled, errCh, outcome, calls, device, result, capErrCh, source, waiting>>

(* ListDevices fails, or finds no device that has an address.              *)
NoDevices ==
  /\ run = "called" /\ device = AllDevices
  /\ run' = "returned" /\ result' = "error"
  /\ UNCHANGED <<cancelled, errCh, pc, outcome, calls, device, capErrCh, source, waiting>>

RunAll_NarrowChannel(found) ==
  /\ run = "called" /\ device = AllDevices
  /\ found \cap Addressed # {}
  /\ run' = "waiting"
  /\ capErrCh' = 1
  /\ pc' = [d \in Device |-> IF d \in found \cap Addressed THEN "open" ELSE "off"]
  /\ UNCHANGED <<cancelled, errCh, outcome, calls, device, result, source, waiting>>

RunAll(found) ==
  /\ run = "called" /\ device = AllDevices
  /\ found \cap Addressed # {}
  /\ run' = "waiting"
  /\ capErrCh' = Cardinality(found \cap Addressed)
  /\ pc' = [d \in Device |-> IF d \in found \cap Addressed THEN "open" ELSE "off"]
  /\ UNCHANGED <<cancelled, errCh, outcome, calls, device, result, source, waiting>>

(* Nothing but the context ends the wait for the goroutines.               *)
Return ==
  /\ run = "waiting" /\ cancelled
  /\ run' = "returned" /\ result' = "cancelled"
  /\ UNCHANGED <<cancelled, errCh, pc, outcome, calls, device, capErrCh, source, waiting>>

-----------------------------------------------------------------------------
(* runDevice.  It returns to Run, or to the goroutine that Run started.    *)
Goes(d, from, to) == pc[d] = from /\ pc' = [pc EXCEPT ![d] = to]

Ends(d, from, o) ==
  /\ Goes(d, from, IF run = "reading" THEN "ended" ELSE "report")
  /\ outcome' = [outcome EXCEPT ![d] = o]
  /\ IF run = "reading" THEN run' = "returned" /\ result' = o
                        ELSE UNCHANGED <<run, result>>
  /\ UNCHANGED <<cancelled, errCh, device, capErrCh, source, calls, waiting>>

OpenFails(d) == Ends(d, "open", "error")

Open(d) ==
  /\ Goes(d, "open", "filter")
  /\ UNCHANGED <<cancelled, errCh, outcome, calls, runner, source, waiting>>

FilterFails(d) == Ends(d, "filter", "error")

SetFilter(d) ==
  /\ Goes(d, "filter", "select")
  /\ UNCHANGED <<cancelled, errCh, outcome, calls, runner, source, waiting>>

(* The three ways out of select; if several are open, any may be taken.    *)
Done_AfterAPacket(d) == cancelled /\ queue[d] # <<>> /\ Ends(d, "select", "cancelled")

Done(d) == cancelled /\ Ends(d, "select", "cancelled")

Closed_WithoutDraining(d) == closed[d] /\ Ends(d, "select", "nil")

Closed(d) == closed[d] /\ queue[d] = <<>> /\ Ends(d, "select", "nil")

(* handlePacket passes a packet on, or not.                                *)
LooksLikePhoton(p) == p.size >= 3 /\ p.first
Forwarded(p) == p.udp /\ (p.port \/ LooksLikePhoton(p)) /\ p.size > 0

Ignore(d) ==
  /\ Goes(d, "select", "select")
  /\ queue[d] # <<>> /\ ~ Forwarded(Head(queue[d]))
  /\ queue' = [queue EXCEPT ![d] = Tail(@)]
  /\ UNCHANGED <<cancelled, errCh, outcome, calls, runner, wire, closed, waiting>>

Forward(d) ==
  /\ Goes(d, "select", "parse")
  /\ queue[d] # <<>> /\ Forwarded(Head(queue[d]))
  /\ queue' = [queue EXCEPT ![d] = Tail(@)]
  /\ calls' = Append(calls, <<d, Head(queue[d])>>)
  /\ UNCHANGED <<cancelled, errCh, outcome, runner, wire, closed, waiting>>

ParseReturns(d) ==
  /\ Goes(d, "parse", "select")
  /\ UNCHANGED <<cancelled, errCh, outcome, calls, runner, source, waiting>>

(* The goroutine sends what runDevice returned; nobody receives it.        *)
Report(d) ==
  /\ Goes(d, "report", "ended")
  /\ Len(errCh) < capErrCh
  /\ errCh' = Append(errCh, outcome[d])
  /\ UNCHANGED <<cancelled, outcome, calls, runner, source, waiting>>

-----------------------------------------------------------------------------
(* WaitForFirstPacket; seen says whether sink.Parse has been called.       *)
Waits(from, to) == waiter = from /\ waiter' = to

WaitDone ==
  /\ Waits("select", "false")
  /\ cancelled
  /\ UNCHANGED <<cancelled, capturer, late, inTime>>

Tick_NewDeadline ==
  /\ Waits("select", "seen")
  /\ late' = FALSE
  /\ UNCHANGED <<cancelled, capturer, inTime>>

Tick ==
  /\ Waits("select", "seen")
  /\ inTime' = (inTime \/ (calls # <<>> /\ ~ late))
  /\ UNCHANGED <<cancelled, capturer, late>>

Seen_AndNotLate ==
  /\ Waits("seen", IF late THEN "false" ELSE IF calls # <<>> THEN "true" ELSE "select")
  /\ UNCHANGED <<cancelled, capturer, late, inTime>>

Seen ==
  /\ Waits("seen", IF calls # <<>> THEN "true" ELSE "deadline")
  /\ UNCHANGED <<cancelled, capturer, late, inTime>>

PastDeadline ==
  /\ Waits("deadline", IF late THEN "false" ELSE "select")
  /\ UNCHANGED <<cancelled, capturer, late, inTime>>

Wait == WaitDone \/ Tick \/ Seen \/ PastDeadline

-----------------------------------------------------------------------------
(* The user, the clock, the network and the packet source.                 *)
Cancel ==
  /\ ~ cancelled
  /\ cancelled' = TRUE
  /\ UNCHANGED <<capturer, waiting>>

TimeOut ==
  /\ waiter \notin {"off", "true", "false"} /\ ~ late
  /\ late' = TRUE
  /\ UNCHANGED <<cancelled, capturer, waiter, inTime>>

Captured == FoldSet(LAMBDA d, n : n + Len(wire[d]), 0, Device)

Arrive(d, p) ==
  /\ pc[d] \in {"select", "parse"} /\ ~ closed[d]
  /\ Captured < MaxPackets /\ Len(queue[d]) < ChanSize
  /\ wire' = [wire EXCEPT ![d] = Append(@, p)]
  /\ queue' = [queue EXCEPT ![d] = Append(@, p)]
  /\ UNCHANGED <<cancelled, errCh, pc, outcome, calls, runner, closed, waiting>>

SourceEnds(d) ==
  /\ pc[d] \in {"select", "parse"} /\ ~ closed[d]
  /\ closed' = [closed EXCEPT ![d] = TRUE]
  /\ UNCHANGED <<cancelled, errCh, pc, outcome, calls, runner, wire, queue, waiting>>

RunStep == RunOne \/ NoDevices \/ (\E found \in SUBSET Device : RunAll(found)) \/ Return

Receive(d) == Ignore(d) \/ Forward(d)

Step(d) ==
  \/ OpenFails(d) \/ Open(d) \/ FilterFails(d) \/ SetFilter(d)
  \/ Done(d) \/ Closed(d) \/ Receive(d) \/ ParseReturns(d) \/ Report(d)

Next ==
  \/ RunStep
  \/ \E d \in Device : Step(d) \/ SourceEnds(d) \/ \E p \in Packet : Arrive(d, p)
  \/ Cancel \/ Wait \/ TimeOut

Spec == Init /\ [][Next]_vars

(* Goroutines that can run do run; Parse returns (PhotonParser); select    *)
(* picks at random, so that it does not pass over a ready case for ever;   *)
(* time passes.  Nobody has to cancel, and no packet has to come.          *)
FairSpec ==
  /\ Spec
  /\ WF_vars(RunStep) /\ WF_vars(Wait) /\ WF_vars(TimeOut)
  /\ \A d \in Device : WF_vars(Step(d)) /\ SF_vars(Done(d))

-----------------------------------------------------------------------------
(* Properties.                                                             *)

Outcome == {"none", "nil", "error", "cancelled"}

TypeOK ==
  /\ device \in Device \cup {AllDevices}
  /\ cancelled \in BOOLEAN /\ late \in BOOLEAN /\ inTime \in BOOLEAN
  /\ run \in {"called", "reading", "waiting", "returned"} /\ result \in Outcome
  /\ pc \in [Device -> {"off", "open", "filter", "select", "parse", "report", "ended"}]
  /\ outcome \in [Device -> Outcome]
  /\ errCh \in Seq(Outcome) /\ capErrCh \in Nat
  /\ wire \in [Device -> Seq(Packet)] /\ queue \in [Device -> Seq(Packet)]
  /\ \A d \in Device : Len(queue[d]) <= ChanSize
  /\ calls \in Seq(Device \X Packet)
  /\ waiter \in {"off", "select", "seen", "deadline", "true", "false"}

(* Every Photon packet a device captured goes to the sink, in the order of *)
(* capture and once; up to the last one if the packet source ends by       *)
(* itself, and up to some packet if the context is cancelled.              *)
PhotonOf(s) == Filtered(s, {p \in Packet : Forwarded(p)})
PassedOn(d) ==
  LET mine == Filtered(calls, {d} \X Packet)
  IN [j \in DOMAIN mine |-> mine[j][2]]

InOrderAndComplete ==
  \A d \in Device :
    /\ IsPrefix(PassedOn(d), PhotonOf(wire[d]))
    /\ outcome[d] = "nil" => PassedOn(d) = PhotonOf(wire[d])

(* When the context is cancelled, Run returns.                             *)
RunReturns == cancelled ~> run = "returned"

(* And every device's goroutine ends, although nobody receives from errCh: *)
(* none blocks in its last statement and keeps its pcap handle's owner.    *)
DevicesEnd == cancelled ~> \A d \in Device : pc[d] \in {"off", "ended"}

(* WaitForFirstPacket answers, whether or not a packet comes and whenever  *)
(* it is run: the deadline is not put off.                                 *)
WaitAnswers == waiter = "select" ~> waiter \in {"true", "false"}

(* It does not deny a packet that was there at a tick before the deadline, *)
(* however late it then gets to look.                                      *)
NotOverlooked == inTime => waiter # "false"

(* "capture on all eligible devices and lock onto the first that yields    *)
(* Photon data" (capture.go:33-34).                                        *)
LocksOn == \A j, k \in DOMAIN calls : calls[j][1] = calls[k][1]
=============================================================================
