---------------------------- MODULE ProgramProofs ----------------------------
(***************************************************************************)
(* What two specifications of the whole program promise.  First the        *)
(* counters, the file and the final report of Lootlogger, for any devices, *)
(* flags and packets.  Then the bytes of Wire: the deserializer, for any   *)
(* values, codes, bounds and widths of int, whatever it is given to read.  *)
(*                                                                         *)
(* The recursive functions of the decoder and of the serializer (Varint,   *)
(* Deserialize, CodesFor, Payload) are shown to satisfy their equations by *)
(* induction over the length of a buffer, or over the height of a value.   *)
(***************************************************************************)
EXTENDS Lootlogger, Wire, DataLemmas, FiniteSetTheorems, TLAPS

Starting == {"flags", "sink", "sample", "pipeline"}
Reporting == {"packets", "events", "count", "complete", "closed"}
AtWork == {"select", "lock", "parse", "loot", "row"}

TypesKept ==
  /\ flags \in Flags
  /\ main \in Starting \cup {"running", "exited"} \cup Reporting
  /\ pc \in [Device -> {"off", "ended"} \cup AtWork]
  /\ packets \in Nat /\ events \in Nat /\ lootEvents \in Nat /\ next \in Nat
  /\ lost \in BOOLEAN
  /\ report \in [packets : Nat, events : Nat, lootEvents : Nat]

(* Where main is decides what there is to count.                           *)
Phases ==
  /\ main \in Starting => lootEvents = 0 /\ \A d \in Device : pc[d] = "off"
  /\ main \in {"flags", "sink"} => next = 0
  /\ main = "sample" => flags.selfTest
  /\ main \notin {"flags", "sink", "exited"} /\ flags.csv /\ ~ flags.selfTest /\ ~ lost =>
       next > 0

(* A chosen device is the only one that is captured; when Run has returned *)
(* it has ended, so that what main has loaded does not change any more.    *)
Chosen == flags.device # AllDevices /\ ~ flags.selfTest

Settled ==
  Chosen =>
    /\ main = "running" => \A d \in Device \ {flags.device} : pc[d] = "ended"
    /\ main = "running" /\ failed => \A d \in Device : pc[d] = "ended"
    /\ main \in Reporting => \A d \in Device : pc[d] = "ended"

Loaded ==
  Chosen =>
    /\ main \in {"events", "count", "complete", "closed"} => report.packets = packets
    /\ main \in {"count", "complete", "closed"} => report.events = events
    /\ main \in {"complete", "closed"} => report.lootEvents = lootEvents

IInv == TypesKept /\ Phases /\ Settled /\ Loaded /\ CountMatchesLog

-----------------------------------------------------------------------------
(* The rows that are being written.                                        *)
(* A step of a device that is not about a row does not change them, ...    *)
LEMMA RowsStay ==
  ASSUME NEW S, pc \in [Device -> S], NEW d \in Device, NEW to,
         pc[d] # "row", to # "row", pc' = [pc EXCEPT ![d] = to]
  PROVE  UnderWay' = UnderWay
<1>1. {e \in Device : pc'[e] = "row"} = {e \in Device : pc[e] = "row"}
  OBVIOUS
<1> QED
  BY <1>1, Zenon DEF UnderWay

(* one that begins a row adds one, and one that ends it takes it away.     *)
LEMMA RowBegins ==
  ASSUME NEW S, pc \in [Device -> S], NEW d \in Device,
         pc[d] # "row", pc' = [pc EXCEPT ![d] = "row"]
  PROVE  UnderWay \in Nat /\ UnderWay' = UnderWay + 1
<1> DEFINE R == {e \in Device : pc[e] = "row"}
<1>1. {e \in Device : pc'[e] = "row"} = R \cup {d}
  OBVIOUS
<1>2. IsFiniteSet(R) /\ d \notin R
  BY LootloggerAssumption, FS_Subset
<1> HIDE DEF R
<1>3. Cardinality(R) \in Nat /\ Cardinality(R \cup {d}) = Cardinality(R) + 1
  BY <1>2, FS_CardinalityType, FS_AddElement
<1>4. UnderWay = Cardinality(R) /\ UnderWay' = Cardinality(R \cup {d})
  BY <1>1, Zenon DEF UnderWay, R
<1> QED
  BY <1>3, <1>4

LEMMA RowEnds ==
  ASSUME NEW S, pc \in [Device -> S], NEW d \in Device, NEW to,
         pc[d] = "row", to # "row", pc' = [pc EXCEPT ![d] = to]
  PROVE  UnderWay \in Nat /\ UnderWay' + 1 = UnderWay /\ UnderWay' \in Nat
<1> DEFINE R == {e \in Device : pc[e] = "row"}
<1>1. {e \in Device : pc'[e] = "row"} = R \ {d}
  OBVIOUS
<1>2. IsFiniteSet(R) /\ d \in R
  BY LootloggerAssumption, FS_Subset
<1> HIDE DEF R
<1>3. /\ Cardinality(R) \in Nat /\ Cardinality(R \ {d}) = Cardinality(R) - 1
      /\ Cardinality(R \ {d}) \in Nat
  BY <1>2, FS_CardinalityType, FS_RemoveElement
<1>4. UnderWay = Cardinality(R) /\ UnderWay' = Cardinality(R \ {d})
  BY <1>1, Zenon DEF UnderWay, R
<1> QED
  BY <1>3, <1>4

(* There are none if no device is at a row.                                *)
LEMMA NoRows ==
  ASSUME \A d \in Device : pc[d] # "row"
  PROVE  UnderWay = 0
<1>1. {d \in Device : pc[d] = "row"} = {}
  OBVIOUS
<1> QED
  BY <1>1, FS_EmptySet DEF UnderWay

-----------------------------------------------------------------------------
(* The invariant.                                                          *)
LEMMA InvInit ==
  ASSUME Init PROVE IInv
<1> USE LootloggerAssumption
<1>1. TypesKept
  BY DEF Init, TypesKept, NoReport, Starting, Csv!Init
<1>2. Phases /\ Settled /\ Loaded
  BY DEF Init, Phases, Settled, Loaded, Chosen, Starting, Reporting, Alive, Csv!Init
<1>3. UnderWay = 0
  BY NoRows DEF Init
<1>4. CountMatchesLog
  BY <1>3 DEF Init, CountMatchesLog, LoggedRows, Csv!Init
<1> QED
  BY <1>1, <1>2, <1>4 DEF IInv

(* What a write does to a file that works before and after it.             *)
LEMMA WriteAppends ==
  ASSUME TypesKept, WriteRow
  PROVE  /\ next' \in Nat /\ lost' \in BOOLEAN
         /\ flags.csv /\ ~ lost' => ~ lost /\ next' = next + 1
<1>1. CASE ~ flags.csv /\ UNCHANGED rows
  BY <1>1 DEF TypesKept, rows
<1>2. CASE isOpen /\ Csv!AppendRow
  BY <1>2 DEF TypesKept, Csv!AppendRow
<1>3. CASE Csv!Lose
  BY <1>3 DEF TypesKept, Csv!Lose
<1>4. CASE lost /\ UNCHANGED rows
  BY <1>4 DEF TypesKept, rows
<1> QED
  BY <1>1, <1>2, <1>3, <1>4 DEF WriteRow

(* main, up to the capture.                                                *)
LEMMA MainStarts ==
  ASSUME IInv,
         \/ ListDevices \/ OpenFails \/ OpenCsv \/ NewLogSink \/ SelfTest
         \/ \E up \in SUBSET Wanted : Start(up)
  PROVE  IInv'
<1> USE DEF IInv, Starting, Reporting
<1>1. ASSUME ListDevices \/ OpenFails \/ OpenCsv PROVE IInv'
  <2>1. /\ main = "flags" /\ main' \in {"sink", "exited"}
        /\ UNCHANGED <<flags, failed, report, capturing, rows>>
    BY <1>1 DEF ListDevices, OpenFails, OpenCsv, Exits, MainGoes
  <2>2. TypesKept'
    BY <2>1 DEF TypesKept, capturing, rows
  <2>3. Phases' /\ Settled' /\ Loaded'
    BY <2>1 DEF Phases, Settled, Loaded, Chosen, Alive, capturing, rows
  <2>4. UnderWay' = UnderWay
    BY <2>1 DEF UnderWay, capturing
  <2>5. CountMatchesLog'
    BY <2>1, <2>4 DEF CountMatchesLog, LoggedRows, capturing, rows
  <2> QED
    BY <2>2, <2>3, <2>5
<1>2. ASSUME NewLogSink \/ SelfTest PROVE IInv'
  <2>1. /\ \/ main = "sink" /\ main' = IF flags.selfTest THEN "sample" ELSE "pipeline"
           \/ main = "sample" /\ main' = "complete"
        /\ UNCHANGED <<flags, failed, report, capturing>>
        /\ WriteRow
    BY <1>2 DEF NewLogSink, SelfTest, MainGoes
  <2>2. next' \in Nat /\ lost' \in BOOLEAN
    BY <2>1, WriteAppends
  <2>9. flags.csv /\ ~ lost' => ~ lost /\ next' = next + 1
    BY <2>1, WriteAppends
  <2>3. TypesKept'
    BY <2>1, <2>2 DEF TypesKept, capturing
  <2>4. Phases'
    BY <2>1, <2>2, <2>9 DEF Phases, Alive, capturing, TypesKept
  <2>5. Settled' /\ Loaded'
    BY <2>1 DEF Settled, Loaded, Chosen, Phases, capturing
  <2>6. UnderWay' = UnderWay
    BY <2>1 DEF UnderWay, capturing
  <2>7. UnderWay = 0
    BY <2>1, NoRows DEF Phases
  <2>8. CountMatchesLog'
    BY <2>1, <2>2, <2>6, <2>7, <2>9 DEF CountMatchesLog, LoggedRows, Phases, TypesKept, capturing
  <2> QED
    BY <2>3, <2>4, <2>5, <2>8
<1>3. ASSUME NEW up \in SUBSET Wanted, Start(up) PROVE IInv'
  <2>1. /\ main = "pipeline" /\ main' = "running"
        /\ pc' = [d \in Device |-> IF d \in up THEN "select" ELSE "ended"]
        /\ failed' \in {up = {}, up = {} /\ flags.device # AllDevices}
        /\ UNCHANGED <<flags, report, packets, events, lootEvents, rows>>
    BY <1>3 DEF Start, MainGoes
  <2>2. TypesKept'
    BY <2>1 DEF TypesKept, AtWork, rows
  <2>3. Phases' /\ Loaded'
    BY <2>1 DEF Phases, Loaded, Chosen, Alive, rows
  <2>4. Settled'
    BY <2>1 DEF Settled, Chosen, Wanted
  <2>5. UnderWay = 0 /\ UnderWay' = 0
    <3>1. \A d \in Device : pc[d] # "row" /\ pc'[d] # "row"
      BY <2>1 DEF Phases
    <3>2. UnderWay = 0
      BY <3>1, NoRows
    <3>3. {d \in Device : pc'[d] = "row"} = {d \in Device : pc[d] = "row"}
      BY <3>1
    <3> QED
      BY <3>2, <3>3, Zenon DEF UnderWay
  <2>6. CountMatchesLog'
    BY <2>1, <2>5 DEF CountMatchesLog, LoggedRows, rows
  <2> QED
    BY <2>2, <2>3, <2>4, <2>6
<1> QED
  BY <1>1, <1>2, <1>3

(* main, from the end of the capture to its own, and an interrupt.         *)
LEMMA MainEnds ==
  ASSUME IInv,
         RunFails \/ RunReturns \/ Stats \/ LootEventCount \/ Close \/ Exit \/ Cancel
  PROVE  IInv'
<1> USE DEF IInv, Starting, Reporting
<1>1. /\ UNCHANGED <<flags, failed, capturing, rows>>
      /\ DOMAIN report' = DOMAIN report
      /\ \/ /\ UNCHANGED report
            /\ \/ main' = "exited"
               \/ main = "running" /\ main' = "packets" /\ Returned
               \/ main = "complete" /\ main' = "closed"
               \/ main = "running" /\ main' = main
         \/ /\ main = "packets" /\ main' = "events"
            /\ report' = [report EXCEPT !["packets"] = packets]
         \/ /\ main = "events" /\ main' = "count"
            /\ report' = [report EXCEPT !["events"] = events]
         \/ /\ main = "count" /\ main' = "complete"
            /\ report' = [report EXCEPT !["lootEvents"] = lootEvents]
  BY DEF RunFails, RunReturns, Stats, LootEventCount, Close, Exit, Cancel, Exits,
         MainGoes, Loads, mains
<1>2. TypesKept'
  BY <1>1 DEF TypesKept, capturing, rows
<1>3. Phases'
  BY <1>1 DEF Phases, Alive, capturing, rows
<1>4. Settled'
  <2>1. Returned /\ Chosen /\ main = "running" => \A d \in Device : pc[d] = "ended"
    BY DEF Returned, Chosen, Settled
  <2> QED
    BY <1>1, <2>1 DEF Settled, Chosen, capturing
<1>5. Loaded'
  BY <1>1 DEF Loaded, Chosen, TypesKept, capturing
<1>6. UnderWay' = UnderWay
  BY <1>1 DEF UnderWay, capturing
<1>7. CountMatchesLog'
  BY <1>1, <1>6 DEF CountMatchesLog, LoggedRows, capturing, rows
<1> QED
  BY <1>2, <1>3, <1>4, <1>5, <1>7

(* A capturing goroutine: its steps are those of a chosen device, and none *)
(* that has ended takes one.                                               *)
LEMMA DeviceMoves ==
  ASSUME IInv, NEW d \in Device, NEW from \in AtWork, NEW to \in AtWork \cup {"ended"},
         Goes(d, from, to), UNCHANGED mains,
         packets' \in Nat, events' \in Nat
  PROVE  /\ pc' \in [Device -> {"off", "ended"} \cup AtWork]
         /\ Settled' /\ Loaded'
         /\ Alive /\ main \notin Starting /\ pc[d] = from /\ pc' = [pc EXCEPT ![d] = to]
         /\ flags.device # AllDevices /\ ~ flags.selfTest => main = "running"
<1> USE DEF IInv, Starting, Reporting, AtWork
<1>1. /\ Alive /\ main \notin Starting /\ pc[d] = from /\ pc' = [pc EXCEPT ![d] = to]
  BY DEF Goes, Alive
<1>2. pc' \in [Device -> {"off", "ended"} \cup AtWork]
  BY <1>1 DEF TypesKept
<1>3. Chosen => main = "running" /\ ~ failed /\ d = flags.device
  BY <1>1 DEF Settled, Chosen, Alive
<1>4. Settled' /\ Loaded'
  BY <1>1, <1>3 DEF Settled, Loaded, Chosen, mains, TypesKept
<1> QED
  BY <1>1, <1>2, <1>3, <1>4 DEF Chosen

LEMMA DeviceSteps ==
  ASSUME IInv, NEW d \in Device,
         \/ \E p \in Packet : Receive(d, p)
         \/ Done(d) \/ SourceEnds(d) \/ Lock(d) \/ Work(d)
  PROVE  IInv'
<1> USE DEF IInv
<1>1. ASSUME \/ \E p \in Packet : Receive(d, p)
             \/ Done(d) \/ SourceEnds(d) \/ Lock(d)
             \/ OtherEvent(d) \/ LootEvent(d) \/ Unlock(d)
      PROVE  IInv'
  <2>1. PICK from \in AtWork \ {"row"}, to \in (AtWork \ {"row"}) \cup {"ended"} :
          Goes(d, from, to)
    BY <1>1 DEF Receive, Done, SourceEnds, Lock, OtherEvent, LootEvent, Unlock, AtWork
  <2>2. /\ UNCHANGED <<mains, lootEvents, rows>>
        /\ packets' \in Nat /\ events' \in Nat
    BY <1>1 DEF Receive, Done, SourceEnds, Lock, OtherEvent, LootEvent, Unlock, rest, TypesKept
  <2>3. /\ pc' \in [Device -> {"off", "ended"} \cup AtWork]
        /\ Settled' /\ Loaded' /\ Alive /\ main \notin Starting
        /\ pc[d] = from /\ pc' = [pc EXCEPT ![d] = to]
    BY <2>1, <2>2, DeviceMoves
  <2>4. TypesKept' /\ Phases'
    BY <2>2, <2>3 DEF TypesKept, Phases, mains, rows, Alive, Starting
  <2>5. UnderWay' = UnderWay
    BY <2>1, <2>3, RowsStay DEF TypesKept
  <2>6. CountMatchesLog'
    BY <2>2, <2>5 DEF CountMatchesLog, LoggedRows, mains, rows
  <2> QED
    BY <2>3, <2>4, <2>6
<1>2. ASSUME CountLoot(d) PROVE IInv'
  <2>1. /\ Goes(d, "loot", "row") /\ lootEvents' = lootEvents + 1
        /\ UNCHANGED <<mains, packets, events, rows>>
    BY <1>2 DEF CountLoot, rest
  <2>2. /\ pc' \in [Device -> {"off", "ended"} \cup AtWork]
        /\ Settled' /\ Loaded' /\ Alive /\ main \notin Starting
        /\ pc[d] = "loot" /\ pc' = [pc EXCEPT ![d] = "row"]
    BY <2>1, DeviceMoves DEF AtWork, TypesKept
  <2>3. TypesKept' /\ Phases'
    BY <2>1, <2>2 DEF TypesKept, Phases, mains, rows, Alive, Starting
  <2>4. UnderWay \in Nat /\ UnderWay' = UnderWay + 1
    BY <2>2, RowBegins DEF TypesKept
  <2>5. CountMatchesLog'
    BY <2>1, <2>4 DEF CountMatchesLog, LoggedRows, mains, rows, TypesKept
  <2> QED
    BY <2>2, <2>3, <2>5
<1>3. ASSUME Row(d) PROVE IInv'
  <2>1. /\ Goes(d, "row", "parse") /\ WriteRow
        /\ UNCHANGED <<mains, packets, events, lootEvents>>
    BY <1>3 DEF Row, rest
  <2>2. /\ pc' \in [Device -> {"off", "ended"} \cup AtWork]
        /\ Settled' /\ Loaded' /\ Alive /\ main \notin Starting
        /\ pc[d] = "row" /\ pc' = [pc EXCEPT ![d] = "parse"]
    BY <2>1, DeviceMoves DEF AtWork, TypesKept
  <2>3. next' \in Nat /\ lost' \in BOOLEAN
    BY <2>1, WriteAppends
  <2>9. flags.csv /\ ~ lost' => ~ lost /\ next' = next + 1
    BY <2>1, WriteAppends
  <2>4. TypesKept'
    BY <2>1, <2>2, <2>3 DEF TypesKept, mains
  <2>7. Phases'
    BY <2>1, <2>2, <2>3, <2>9 DEF TypesKept, Phases, mains, Alive, Starting
  <2>5. UnderWay \in Nat /\ UnderWay' + 1 = UnderWay /\ UnderWay' \in Nat
    BY <2>2, RowEnds DEF TypesKept
  <2>6. CountMatchesLog'
    <3>1. flags' = flags /\ lootEvents' = lootEvents
      BY <2>1 DEF mains
    <3>2. ASSUME flags.csv, ~ flags.selfTest, ~ lost'
          PROVE  lootEvents = LoggedRows' + UnderWay'
      <4>1. ~ lost /\ next' = next + 1
        BY <2>9, <3>2
      <4>2. next \in Nat /\ next > 0
        BY <2>2, <3>2, <4>1 DEF TypesKept, Phases, Starting, Alive
      <4>3. lootEvents = next - 1 + UnderWay
        BY <3>2, <4>1, <4>2 DEF CountMatchesLog, LoggedRows
      <4>4. LoggedRows' = next
        BY <4>1, <4>2 DEF LoggedRows
      <4>5. \A n, u, v \in Nat : v + 1 = u => n - 1 + u = n + v
        OBVIOUS
      <4>6. next - 1 + UnderWay = next + UnderWay'
        BY <2>5, <4>2, <4>5
      <4> QED
        BY <4>3, <4>4, <4>6
    <3> QED
      BY <3>1, <3>2 DEF CountMatchesLog
  <2> QED
    BY <2>2, <2>4, <2>6, <2>7
<1> QED
  BY <1>1, <1>2, <1>3 DEF Work

LEMMA InvNext ==
  ASSUME IInv, [Next]_vars PROVE IInv'
<1>1. ASSUME Monitor \/ UNCHANGED vars PROVE IInv'
  <2>1. UNCHANGED <<mains, capturing, rows>>
    BY <1>1 DEF Monitor, MonitorDone, Timer, Check, Warn, others, vars
  <2>2. TypesKept' /\ Phases' /\ Settled' /\ Loaded'
    BY <2>1 DEF IInv, TypesKept, Phases, Settled, Loaded, Chosen, Alive, mains, capturing, rows
  <2>3. UnderWay' = UnderWay
    BY <2>1 DEF UnderWay, capturing
  <2>4. CountMatchesLog'
    BY <2>1, <2>3 DEF IInv, CountMatchesLog, LoggedRows, mains, capturing, rows
  <2> QED
    BY <2>2, <2>4 DEF IInv
<1> QED
  BY <1>1, MainStarts, MainEnds, DeviceSteps DEF Next, MainStep

LEMMA InvAlways == Spec => []IInv
<1>1. Init => IInv
  BY InvInit
<1>2. IInv /\ [Next]_vars => IInv'
  BY InvNext
<1> QED
  BY <1>1, <1>2, PTL DEF Spec

-----------------------------------------------------------------------------
(* The theorems.                                                           *)

(* The loot counter, which the health monitor and the final report read,   *)
(* and the rows that LogSink has written differ by the rows that are being *)
(* written, for any number of capturing goroutines.                        *)
THEOREM CounterAndFileAgree == Spec => []CountMatchesLog
<1>1. IInv => CountMatchesLog
  BY DEF IInv
<1> QED
  BY <1>1, InvAlways, PTL

(* What main loads counter by counter when Run on a chosen device has      *)
(* returned is what the counters are in the end, and the file has a row    *)
(* for each loot event.                                                    *)
THEOREM ReportHolds == Spec => []ReportIsExact
<1>1. ASSUME IInv PROVE ReportIsExact
  <2> SUFFICES ASSUME main \in {"complete", "closed"}, ~ flags.selfTest,
                      flags.device # AllDevices
               PROVE  /\ report = [packets |-> packets, events |-> events,
                                   lootEvents |-> lootEvents]
                      /\ flags.csv /\ ~ lost => report.lootEvents = LoggedRows
    BY DEF ReportIsExact
  <2>1. /\ report.packets = packets /\ report.events = events
        /\ report.lootEvents = lootEvents
    BY <1>1 DEF IInv, Loaded, Chosen
  <2>2. report = [packets |-> packets, events |-> events, lootEvents |-> lootEvents]
    BY <1>1, <2>1 DEF IInv, TypesKept
  <2>3. \A d \in Device : pc[d] # "row"
    BY <1>1 DEF IInv, Settled, Chosen, Reporting
  <2>4. UnderWay = 0
    BY <2>3, NoRows
  <2>5. flags.csv /\ ~ lost => report.lootEvents = LoggedRows
    BY <1>1, <2>1, <2>4 DEF IInv, CountMatchesLog, LoggedRows, TypesKept
  <2> QED
    BY <2>2, <2>5
<1> QED
  BY <1>1, InvAlways, PTL

-----------------------------------------------------------------------------
(* Numbers in bytes, and bytes one after the other.                        *)

(* encodeVarint is defined for every number.                               *)
LEMMA EncodeVarintIs ==
  /\ EncodeVarint \in [Nat -> Seq(Byte)]
  /\ \A n \in Nat : EncodeVarint[n] = IF n < 128 THEN <<n>>
                              ELSE <<128 + (n % 128)>> \o EncodeVarint[n \div 128]
<1> DEFINE D == Nat
           V == Seq(Byte)
           E(m, f) == IF m < 128 THEN <<m>> ELSE <<128 + (m % 128)>> \o f[m \div 128]
           rank == [m \in D |-> m]
           G == [z \in D \X [D -> V] |-> E(z[1], z[2])]
           e == CHOOSE f : f = [m \in Nat |-> E(m, f)]
<1>1. Ranked(D, rank, V, G)
  <2>1. rank \in [D -> Nat]
    OBVIOUS
  <2>2. \A m \in D, f \in [D -> V] : G[<<m, f>>] = E(m, f)
    OBVIOUS
  <2>3. ASSUME NEW m \in D, NEW f \in [D -> V] PROVE E(m, f) \in V
    <3>1. m < 128 => <<m>> \in Seq(Byte)
      BY DEF Byte
    <3>2. 128 + (m % 128) \in Byte /\ m \div 128 \in Nat
      BY Sevens DEF Byte
    <3>3. <<128 + (m % 128)>> \in Seq(Byte) /\ f[m \div 128] \in Seq(Byte)
      BY <3>2
    <3>4. <<128 + (m % 128)>> \o f[m \div 128] \in Seq(Byte)
      BY <3>3, ConcatProperties
    <3> QED
      BY <3>1, <3>4
  <2>4. ASSUME NEW m \in D, NEW f \in [D -> V], NEW g \in [D -> V],
               \A k \in D : rank[k] < rank[m] => f[k] = g[k]
        PROVE  E(m, f) = E(m, g)
    <3>1. m >= 128 => f[m \div 128] = g[m \div 128]
      BY <2>4, Sevens
    <3> QED
      BY <3>1
  <2> HIDE DEF D, V, E, rank, G
  <2> QED
    BY <2>1, <2>2, <2>3, <2>4 DEF Ranked
<1>2. \E v : v \in V
  BY EmptySeq
<1>3. PICK h \in [D -> V] : \A m \in D : h[m] = G[<<m, h>>]
  <2> HIDE DEF D, V, rank, G, E, e
  <2> QED
    BY <1>1, <1>2, RankedRecursion
<1>4. h = [m \in Nat |-> E(m, h)]
  <2>1. \A m \in D : G[<<m, h>>] = E(m, h)
    <3> HIDE DEF V, E
    <3> QED
      OBVIOUS
  <2> HIDE DEF V, E, G
  <2> QED
    BY <1>3, <2>1
<1>5. e = [m \in Nat |-> E(m, e)]
  <2> HIDE DEF E
  <2> QED
    BY <1>4
<1>6. EncodeVarint = e
  BY DEF EncodeVarint
<1> HIDE DEF e
<1>7. e \in [D -> V]
  <2>1. \A m \in D, f \in [D -> V] : G[<<m, f>>] = E(m, f)
    <3> HIDE DEF V, E
    <3> QED
      OBVIOUS
  <2>2. ASSUME NEW m \in D, NEW g \in [D -> V],
               \A k \in D : rank[k] < rank[m] => g[k] = e[k]
        PROVE  e[m] = G[<<m, g>>]
    <3>1. E(m, e) = E(m, g)
      <4>1. m >= 128 => e[m \div 128] = g[m \div 128]
        BY <2>2, Sevens
      <4> QED
        BY <4>1
    <3> HIDE DEF V, E, G
    <3> QED
      BY <1>5, <2>1, <3>1
  <2>3. e = [m \in D |-> e[m]]
    BY <1>5
  <2> HIDE DEF D, V, E, rank, G
  <2> QED
    BY <1>1, <1>2, <2>2, <2>3, RankedType
<1> QED
  BY <1>5, <1>6, <1>7

(* readCompressedUint32 and its kin are defined for every buffer.  more is *)
(* what is read behind the first byte.                                     *)
VarintRead == [ok : BOOLEAN, v : Nat, rest : Seq(Byte)]

VarintOf(b, n, more) ==
  IF b = <<>> \/ n = 0 THEN [ok |-> FALSE, v |-> 0, rest |-> b]
  ELSE IF b[1] < 128 THEN [ok |-> TRUE, v |-> b[1], rest |-> Tail(b)]
  ELSE [more EXCEPT !.v = IF more.ok THEN @ * 128 + b[1] - 128 ELSE 0]

LEMMA VarintOfType ==
  ASSUME NEW b \in Seq(Byte), NEW n \in Nat, NEW more,
         b # <<>> /\ n # 0 => more \in VarintRead
  PROVE  VarintOf(b, n, more) \in VarintRead
<1>1. CASE b = <<>> \/ n = 0
  <2>1. VarintOf(b, n, more) = [ok |-> FALSE, v |-> 0, rest |-> b]
    BY <1>1 DEF VarintOf
  <2> QED
    BY <2>1 DEF VarintRead
<1>2. CASE b # <<>> /\ n # 0
  <2> DEFINE c == b[1]
             t == Tail(b)
             w == IF more.ok THEN more.v * 128 + c - 128 ELSE 0
  <2>1. c \in Byte /\ t \in Seq(Byte)
    BY <1>2, FirstOfSeq
  <2>2. more \in VarintRead
    BY <1>2
  <2>3. VarintOf(b, n, more) = IF c < 128 THEN [ok |-> TRUE, v |-> c, rest |-> t]
                               ELSE [more EXCEPT !.v = w]
    BY <1>2 DEF VarintOf
  <2> HIDE DEF c, t
  <2>4. c \in 0 .. 255 /\ c \in Nat
    BY <2>1 DEF Byte
  <2>5. [ok |-> TRUE, v |-> c, rest |-> t] \in VarintRead
    BY <2>1, <2>4 DEF VarintRead
  <2>6. ASSUME ~ (c < 128) PROVE [more EXCEPT !.v = w] \in VarintRead
    <3>1. more.v \in Nat
      BY <2>2 DEF VarintRead
    <3>2. w \in Nat
      BY <2>4, <2>6, <3>1
    <3> HIDE DEF w
    <3> QED
      BY <2>2, <3>2 DEF VarintRead
  <2> QED
    BY <2>3, <2>5, <2>6
<1> QED
  BY <1>1, <1>2

LEMMA VarintIs ==
  /\ Varint \in [Seq(Byte) \X Nat -> VarintRead]
  /\ \A b \in Seq(Byte), n \in Nat :
       Varint[<<b, n>>] = VarintOf(b, n, Varint[<<Tail(b), n - 1>>])
<1> DEFINE D == Seq(Byte) \X Nat
           V == VarintRead
           E(x, f) == VarintOf(x[1], x[2], f[<<Tail(x[1]), x[2] - 1>>])
           rank == [x \in D |-> x[2]]
           G == [z \in D \X [D -> V] |-> E(z[1], z[2])]
           e == CHOOSE f : f = [x \in D |-> E(x, f)]
<1>1. ASSUME NEW x \in D, ~ (x[1] = <<>> \/ x[2] = 0)
      PROVE  <<Tail(x[1]), x[2] - 1>> \in D /\ rank[<<Tail(x[1]), x[2] - 1>>] < rank[x]
  <2>1. x[1] \in Seq(Byte) /\ x[1] # <<>> /\ x[2] \in Nat \ {0}
    BY <1>1
  <2>2. Tail(x[1]) \in Seq(Byte) /\ x[2] - 1 \in Nat /\ x[2] - 1 < x[2]
    BY <2>1, FirstOfSeq
  <2>3. \A y \in D : rank[y] = y[2]
    OBVIOUS
  <2> HIDE DEF rank
  <2> QED
    BY <2>2, <2>3
<1>2. ASSUME NEW x \in D, NEW f, NEW g,
             \A y \in D : rank[y] < rank[x] => f[y] = g[y]
      PROVE  E(x, f) = E(x, g)
  <2>1. ~ (x[1] = <<>> \/ x[2] = 0) => f[<<Tail(x[1]), x[2] - 1>>] = g[<<Tail(x[1]), x[2] - 1>>]
    <3> HIDE DEF D, rank
    <3> QED
      BY <1>1, <1>2
  <2> QED
    BY <2>1 DEF VarintOf
<1>3. \A x \in D, f \in [D -> V] : G[<<x, f>>] = E(x, f)
  <2> HIDE DEF D, V, E
  <2> QED
    OBVIOUS
<1>4. Ranked(D, rank, V, G)
  <2>1. rank \in [D -> Nat]
    OBVIOUS
  <2>2. ASSUME NEW x \in D, NEW f \in [D -> V] PROVE E(x, f) \in V
    <3>1. x[1] # <<>> /\ x[2] # 0 => f[<<Tail(x[1]), x[2] - 1>>] \in V
      <4> HIDE DEF D, V
      <4> QED
        BY <1>1
    <3>2. x[1] \in Seq(Byte) /\ x[2] \in Nat
      OBVIOUS
    <3> QED
      BY <3>1, <3>2, VarintOfType
  <2> HIDE DEF D, V, E, rank, G
  <2> QED
    BY <1>2, <1>3, <2>1, <2>2 DEF Ranked
<1>5. \E v : v \in V
  <2>1. [ok |-> FALSE, v |-> 0, rest |-> <<>>] \in V
    BY EmptySeq DEF VarintRead
  <2> QED
    BY <2>1
<1>6. PICK h \in [D -> V] : \A m \in D : h[m] = G[<<m, h>>]
  <2> HIDE DEF D, V, rank, G, E, e
  <2> QED
    BY <1>4, <1>5, RankedRecursion
<1>7. h = [x \in D |-> E(x, h)]
  <2> HIDE DEF D, V, E, G
  <2> QED
    BY <1>3, <1>6
<1>8. e = [x \in D |-> E(x, e)]
  <2> HIDE DEF D, E
  <2> QED
    BY <1>7
<1>9. Varint = e
  BY DEF Varint, VarintOf
<1> HIDE DEF e
<1>10. e \in [D -> V]
  <2>1. ASSUME NEW x \in D, NEW g \in [D -> V],
               \A y \in D : rank[y] < rank[x] => g[y] = e[y]
        PROVE  e[x] = G[<<x, g>>]
    <3>1. E(x, e) = E(x, g)
      BY <1>2, <2>1
    <3> HIDE DEF D, V, E, G
    <3> QED
      BY <1>3, <1>8, <3>1
  <2>2. e = [x \in D |-> e[x]]
    <3> HIDE DEF E
    <3> QED
      BY <1>8
  <2> HIDE DEF D, V, E, rank, G
  <2> QED
    BY <1>4, <1>5, <2>1, <2>2, RankedType
<1>11. ASSUME NEW b \in Seq(Byte), NEW n \in Nat PROVE e[<<b, n>>] = E(<<b, n>>, e)
  <2> HIDE DEF E
  <2> QED
    BY <1>8
<1> QED
  BY <1>9, <1>10, <1>11



-----------------------------------------------------------------------------
(* What the readers of single values give, and what they leave.            *)

(* The buffers that may be left of b, and what reading a value in S from b *)
(* gives.                                                                  *)
Shorter(b) == {c \in Seq(Byte) : Len(c) <= Len(b)}

Reads(S, b) == [v : S, rest : Shorter(b)]

LEMMA ReadsParts ==
  ASSUME NEW S, NEW b, NEW r \in Reads(S, b)
  PROVE  r = Read(r.v, r.rest) /\ r.v \in S /\ r.rest \in Shorter(b)
  BY DEF Reads, Read

LEMMA ReadReads ==
  ASSUME NEW S, NEW b, NEW v \in S, NEW left \in Shorter(b)
  PROVE  Read(v, left) \in Reads(S, b) /\ Read(v, left).v = v /\ Read(v, left).rest = left
  BY DEF Reads, Read

LEMMA ShorterIs ==
  ASSUME NEW b \in Seq(Byte)
  PROVE  /\ b \in Shorter(b) /\ Shorter(b) \subseteq Seq(Byte) /\ <<>> \in Shorter(b)
         /\ \A c \in Shorter(b) : Shorter(c) \subseteq Shorter(b)
<1>1. \A c \in Seq(Byte) : Len(c) \in Nat
  BY LenProperties
<1>2. <<>> \in Seq(Byte) /\ Len(<<>>) = 0
  BY EmptySeq
<1> QED
  BY <1>1, <1>2 DEF Shorter

LEMMA Bytes0To255 == \A c \in Byte : c \in Nat /\ c \in 0 .. 255 /\ c <= 255
  BY DEF Byte

LEMMA TakeDrop ==
  ASSUME NEW b \in Seq(Byte), NEW n \in Nat
  PROVE  /\ n <= Len(b) => Take(b, n) \in Seq(Byte) /\ Len(Take(b, n)) = n
         /\ Drop(b, n) \in Shorter(b)
         /\ n <= Len(b) => Len(Drop(b, n)) = Len(b) - n
         /\ n >= 1 /\ b # <<>> => Len(Drop(b, n)) < Len(b)
<1>1. Len(b) \in Nat /\ \A i \in 1 .. Len(b) : b[i] \in Byte
  BY LenProperties, ElementOfSeq
<1>2. n <= Len(b) => Take(b, n) \in Seq(Byte) /\ Len(Take(b, n)) = n
  <2> SUFFICES ASSUME n <= Len(b) PROVE Take(b, n) \in Seq(Byte) /\ Len(Take(b, n)) = n
    OBVIOUS
  <2>1. \A i \in 1 .. n : b[i] \in Byte
    BY <1>1
  <2>2. SubSeq(b, 1, n) \in Seq(Byte) /\ Len(SubSeq(b, 1, n)) = IF 1 <= n THEN n - 1 + 1 ELSE 0
    BY <2>1, SubSeqProperties
  <2> QED
    BY <2>2 DEF Take
<1>3. /\ Drop(b, n) \in Seq(Byte)
      /\ Len(Drop(b, n)) = IF n + 1 <= Len(b) THEN Len(b) - n ELSE 0
  <2>1. n + 1 \in Int /\ \A i \in n + 1 .. Len(b) : b[i] \in Byte
    BY <1>1
  <2>2. /\ SubSeq(b, n + 1, Len(b)) \in Seq(Byte)
        /\ Len(SubSeq(b, n + 1, Len(b)))
             = IF n + 1 <= Len(b) THEN Len(b) - (n + 1) + 1 ELSE 0
    BY <1>1, <2>1, SubSeqProperties
  <2> QED
    BY <1>1, <2>2 DEF Drop
<1>4. b # <<>> => Len(b) > 0
  BY <1>1, EmptySeq
<1> QED
  BY <1>1, <1>2, <1>3, <1>4 DEF Shorter

LEMMA ReadByteReads ==
  ASSUME NEW b \in Seq(Byte)
  PROVE  /\ ReadByte(b) \in Reads(Byte, b)
         /\ b # <<>> => Len(ReadByte(b).rest) < Len(b)
<1>1. CASE b = <<>>
  <2>1. ReadByte(b) = Read(0, b) /\ 0 \in Byte
    BY <1>1 DEF ReadByte, Byte
  <2>2. b \in Shorter(b)
    BY ShorterIs
  <2>3. ReadByte(b) \in Reads(Byte, b)
    BY <2>1, <2>2 DEF Reads, Read
  <2> QED
    BY <1>1, <2>3
<1>2. CASE b # <<>>
  <2>1. ReadByte(b) = Read(b[1], Tail(b))
    BY <1>2 DEF ReadByte
  <2>2. b[1] \in Byte /\ Tail(b) \in Shorter(b) /\ Len(Tail(b)) < Len(b)
    BY <1>2, FirstOfSeq DEF Shorter
  <2> QED
    BY <2>1, <2>2 DEF Reads, Read
<1> QED
  BY <1>1, <1>2

LEMMA ReadFixedReads ==
  ASSUME NEW b \in Seq(Byte), NEW n \in Nat
  PROVE  ReadFixed(b, n) \in Reads([1 .. n -> Byte], b)
<1>1. Len(b) \in Nat
  BY LenProperties
<1>2. CASE Len(b) < n
  <2>1. ReadFixed(b, n) = Read([k \in 1 .. n |-> 0], <<>>)
    BY <1>2 DEF ReadFixed
  <2>2. [k \in 1 .. n |-> 0] \in [1 .. n -> Byte]
    BY DEF Byte
  <2> QED
    BY <2>1, <2>2, ShorterIs DEF Reads, Read
<1>3. CASE ~ (Len(b) < n)
  <2>1. ReadFixed(b, n) = Read(Take(b, n), Drop(b, n)) /\ n <= Len(b)
    BY <1>1, <1>3 DEF ReadFixed
  <2>2. Take(b, n) \in [1 .. n -> Byte]
    BY <2>1, TakeDrop, LenProperties
  <2> QED
    BY <2>1, <2>2, TakeDrop DEF Reads, Read
<1> QED
  BY <1>2, <1>3

LEMMA Signed16Is ==
  ASSUME NEW n \in 0 .. PowerOfTwo[16] - 1
  PROVE  Signed16(n) \in SignedRange(16)
<1>1. n \in Int /\ 0 <= n /\ n <= 65535
  BY PowersOf7And16
<1>2. PowerOfTwo[16 - 1] = 32768
  BY PowersOf7And16
<1>3. PowerOfTwo[16 - 1] \in Int
  BY <1>2
<1> DEFINE H == PowerOfTwo[16 - 1]
           m == Signed16(n)
<1>4. m \in Int /\ -H <= m /\ m <= H - 1
  BY <1>1, <1>2 DEF Signed16
<1> HIDE DEF H, m
<1>5. m \in -H .. H - 1
  BY <1>3, <1>4 DEF H
<1> QED
  BY <1>5 DEF H, m, SignedRange

LEMMA ReadUint16Reads ==
  ASSUME NEW b \in Seq(Byte)
  PROVE  /\ ReadUint16(b) \in Reads(0 .. PowerOfTwo[16] - 1, b)
         /\ ReadInt16(b) \in Reads(SignedRange(16), b)
<1> DEFINE r == ReadFixed(b, 2)
           n == r.v[1] + 256 * r.v[2]
<1>1. r \in Reads([1 .. 2 -> Byte], b)
  BY ReadFixedReads
<1>2. ReadUint16(b) = Read(n, r.rest)
  BY DEF ReadUint16
<1> HIDE DEF r
<1>3. r.v \in [1 .. 2 -> Byte] /\ r.rest \in Shorter(b)
  BY <1>1, ReadsParts
<1>4. r.v[1] \in Byte /\ r.v[2] \in Byte
  BY <1>3
<1>5. n \in 0 .. PowerOfTwo[16] - 1
  <2>1. n \in Int /\ 0 <= n /\ n <= 65535
    BY <1>4, Bytes0To255
  <2>2. PowerOfTwo[16] \in Int /\ PowerOfTwo[16] - 1 = 65535
    BY PowersOf7And16
  <2> DEFINE P == PowerOfTwo[16]
  <2> HIDE DEF n, P
  <2> QED
    BY <2>1, <2>2 DEF P
<1> HIDE DEF n
<1>6. ReadUint16(b) \in Reads(0 .. PowerOfTwo[16] - 1, b)
  BY <1>2, <1>3, <1>5 DEF Reads, Read
<1>7. ReadInt16(b) = Read(Signed16(n), r.rest)
  BY <1>2 DEF ReadInt16, Read
<1>8. Signed16(n) \in SignedRange(16)
  BY <1>5, Signed16Is
<1> QED
  BY <1>3, <1>6, <1>7, <1>8 DEF Reads, Read

(* What is left behind a varint.                                           *)
LEMMA VarintRest ==
  ASSUME NEW n \in Nat
  PROVE  \A b \in Seq(Byte) :
           /\ Len(Varint[<<b, n>>].rest) <= Len(b)
           /\ n # 0 /\ b # <<>> => Len(Varint[<<b, n>>].rest) < Len(b)
<1> DEFINE S == {k \in Nat : \A b \in Seq(Byte) :
                   /\ Len(Varint[<<b, k>>].rest) <= Len(b)
                   /\ k # 0 /\ b # <<>> => Len(Varint[<<b, k>>].rest) < Len(b)}
<1>0. \A b \in Seq(Byte) : Len(b) \in Nat
  BY LenProperties
<1>1. 0 \in S
  <2> SUFFICES ASSUME NEW b \in Seq(Byte) PROVE Len(Varint[<<b, 0>>].rest) <= Len(b)
    OBVIOUS
  <2>1. Varint[<<b, 0>>] = [ok |-> FALSE, v |-> 0, rest |-> b]
    BY VarintIs DEF VarintOf
  <2> QED
    BY <1>0, <2>1
<1>2. \A k \in Nat : k \in S => k + 1 \in S
  <2> SUFFICES ASSUME NEW k \in Nat, k \in S, NEW b \in Seq(Byte)
               PROVE  /\ Len(Varint[<<b, k + 1>>].rest) <= Len(b)
                      /\ b # <<>> => Len(Varint[<<b, k + 1>>].rest) < Len(b)
    OBVIOUS
  <2> DEFINE more == Varint[<<Tail(b), k>>]
  <2>1. Varint[<<b, k + 1>>] = VarintOf(b, k + 1, more)
    <3>1. k + 1 \in Nat /\ (k + 1) - 1 = k
      OBVIOUS
    <3> QED
      BY <3>1, VarintIs
  <2>2. CASE b = <<>>
    <3>1. Varint[<<b, k + 1>>] = [ok |-> FALSE, v |-> 0, rest |-> b]
      BY <2>1, <2>2 DEF VarintOf
    <3> QED
      BY <1>0, <2>2, <3>1
  <2>3. CASE b # <<>>
    <3>1. Tail(b) \in Seq(Byte) /\ Len(Tail(b)) = Len(b) - 1 /\ Len(b) \in Nat
      BY <2>3, FirstOfSeq
    <3>2. more \in VarintRead
      <4>1. <<Tail(b), k>> \in Seq(Byte) \X Nat
        BY <3>1
      <4> QED
        BY <4>1, VarintIs
    <3>3. Len(more.rest) <= Len(b) - 1 /\ Len(more.rest) \in Nat
      <4>1. more.rest \in Seq(Byte)
        BY <3>2 DEF VarintRead
      <4> QED
        BY <1>0, <3>1, <4>1
    <3>4. Varint[<<b, k + 1>>].rest = Tail(b) \/ Varint[<<b, k + 1>>].rest = more.rest
      <4>1. k + 1 # 0
        OBVIOUS
      <4>2. CASE b[1] < 128
        BY <2>1, <2>3, <4>1, <4>2 DEF VarintOf
      <4>3. CASE ~ (b[1] < 128)
        <5>1. VarintOf(b, k + 1, more)
                = [more EXCEPT !.v = IF more.ok THEN more.v * 128 + b[1] - 128 ELSE 0]
          BY <2>3, <4>1, <4>3 DEF VarintOf
        <5> HIDE DEF more
        <5> QED
          BY <2>1, <3>2, <5>1 DEF VarintRead
      <4> QED
        BY <4>2, <4>3
    <3> DEFINE w == Varint[<<b, k + 1>>].rest
    <3> HIDE DEF more, w
    <3>5. w = Tail(b) \/ w = more.rest
      BY <3>4 DEF w
    <3>6. CASE w = Tail(b)
      <4>1. Len(w) = Len(b) - 1
        BY <3>1, <3>6
      <4>2. Len(w) \in Int /\ Len(w) <= Len(b) - 1
        BY <3>1, <4>1
      <4>3. Len(w) <= Len(b) /\ Len(w) < Len(b)
        BY <3>1, <4>2
      <4> QED
        BY <4>3 DEF w
    <3>7. CASE w = more.rest
      <4>1. Len(w) \in Nat /\ Len(w) <= Len(b) - 1
        BY <3>3, <3>7
      <4>2. Len(w) <= Len(b) /\ Len(w) < Len(b)
        BY <3>1, <4>1
      <4> QED
        BY <4>2 DEF w
    <3> QED
      BY <3>5, <3>6, <3>7 DEF w
  <2> QED
    BY <2>2, <2>3
<1>3. Nat \subseteq S
  <2> HIDE DEF S
  <2> QED
    BY <1>1, <1>2, Induction
<1> QED
  BY <1>3

LEMMA ReadCompressedReads ==
  ASSUME NEW b \in Seq(Byte), NEW bits \in Nat \ {0}
  PROVE  /\ ReadCompressed(b, bits) \in Reads(0 .. PowerOfTwo[bits] - 1, b)
         /\ b = <<>> => ReadCompressed(b, bits).v = 0
         /\ b # <<>> => Len(ReadCompressed(b, bits).rest) < Len(b)
<1> DEFINE g == Groups(bits)
           r == Varint[<<b, g>>]
           P == PowerOfTwo[bits]
<1>1. g \in Nat \ {0}
  BY DEF Groups
<1>2. P \in Nat \ {0}
  BY Powers
<1>3. r \in VarintRead
  <2>1. <<b, g>> \in Seq(Byte) \X Nat
    BY <1>1
  <2> HIDE DEF g
  <2> QED
    BY <2>1, VarintIs
<1>4. r.v \in Nat /\ r.rest \in Seq(Byte)
  BY <1>3 DEF VarintRead
<1>5. r.rest \in Shorter(b) /\ (b # <<>> => Len(r.rest) < Len(b))
  <2> HIDE DEF g
  <2> QED
    BY <1>1, <1>4, VarintRest DEF Shorter
<1>6. b = <<>> => r.v = 0
  <2> HIDE DEF g
  <2>1. r = VarintOf(b, g, Varint[<<Tail(b), g - 1>>])
    BY <1>1, VarintIs
  <2> QED
    BY <2>1 DEF VarintOf
<1>7. ReadCompressed(b, bits) = Read(r.v % P, r.rest)
  BY DEF ReadCompressed
<1> HIDE DEF r, P, g
<1>8. r.v % P \in 0 .. P - 1 /\ (r.v = 0 => r.v % P = 0)
  BY <1>2, <1>4
<1>9. ReadCompressed(b, bits) \in Reads(0 .. P - 1, b)
  BY <1>5, <1>7, <1>8 DEF Reads, Read
<1>10. ReadCompressed(b, bits).v = r.v % P /\ ReadCompressed(b, bits).rest = r.rest
  BY <1>7 DEF Read
<1> QED
  BY <1>5, <1>6, <1>8, <1>9, <1>10 DEF P

LEMMA ReadZigzagReads ==
  ASSUME NEW b \in Seq(Byte), NEW bits \in Nat \ {0}
  PROVE  ReadZigzag(b, bits) \in Reads(SignedRange(bits), b)
<1> DEFINE r == ReadCompressed(b, bits)
           H == PowerOfTwo[bits - 1]
           z == IF r.v % 2 = 0 THEN r.v \div 2 ELSE -(r.v \div 2) - 1
<1>1. H \in Nat \ {0} /\ PowerOfTwo[bits] = 2 * H
  <2>1. bits - 1 \in Nat
    OBVIOUS
  <2> QED
    BY <2>1, Powers
<1>2. r.v \in 0 .. 2 * H - 1 /\ r.rest \in Shorter(b)
  <2>1. r \in Reads(0 .. PowerOfTwo[bits] - 1, b)
    BY ReadCompressedReads
  <2> HIDE DEF r
  <2> QED
    BY <1>1, <2>1, ReadsParts
<1>3. ReadZigzag(b, bits) = Read(z, r.rest)
  BY DEF ReadZigzag
<1> HIDE DEF r, H
<1>4. z \in -H .. H - 1
  BY <1>1, <1>2
<1>5. SignedRange(bits) = -H .. H - 1
  BY DEF SignedRange, H
<1> HIDE DEF z
<1> QED
  BY <1>2, <1>3, <1>4, <1>5 DEF Reads, Read

-----------------------------------------------------------------------------
(* Values and the values below them.                                       *)

(* The values below v are defined level by level, ...                      *)
PartsOf(S) == UNION {Parts(x) : x \in S}

LEMMA BelowIs ==
  ASSUME NEW v
  PROVE  /\ Below(v)[0] = {v}
         /\ \A n \in Nat : Below(v)[n + 1] = PartsOf(Below(v)[n])
<1> DEFINE U(n, g) == g[0] = {v} /\ \A k \in Nat : k < n => g[k + 1] = PartsOf(g[k])
           S == {n \in Nat : \E g : U(n, g)}
           H == [n \in Nat |-> CHOOSE g : U(n, g)]
           h == [n \in Nat |-> H[n][n]]
           F(f) == f = [n \in Nat |-> IF n = 0 THEN {v} ELSE UNION {Parts(x) : x \in f[n - 1]}]
           e == CHOOSE f : F(f)
<1>1. 0 \in S
  <2> DEFINE g == [k \in 0 .. 0 |-> {v}]
  <2>1. g[0] = {v} /\ \A k \in Nat : ~ (k < 0)
    OBVIOUS
  <2> HIDE DEF g
  <2> QED
    BY <2>1
<1>2. ASSUME NEW n \in Nat, NEW g, U(n, g) PROVE \E f : U(n + 1, f)
  <2> DEFINE f == [k \in 0 .. n + 1 |-> IF k = n + 1 THEN PartsOf(g[n]) ELSE g[k]]
  <2>1. f[0] = g[0] /\ f[n + 1] = PartsOf(g[n]) /\ f[n] = g[n]
    OBVIOUS
  <2>2. \A k \in Nat : k < n => f[k + 1] = g[k + 1] /\ f[k] = g[k]
    OBVIOUS
  <2> HIDE DEF f
  <2>3. ASSUME NEW k \in Nat, k < n + 1 PROVE f[k + 1] = PartsOf(f[k])
    <3>1. CASE k = n
      BY <2>1, <3>1
    <3>2. CASE k # n
      <4>1. k < n
        BY <2>3, <3>2
      <4>2. g[k + 1] = PartsOf(g[k])
        BY <1>2, <4>1
      <4> QED
        BY <2>2, <4>1, <4>2
    <3> QED
      BY <3>1, <3>2
  <2>4. U(n + 1, f)
    BY <1>2, <2>1, <2>3
  <2> HIDE DEF U
  <2> QED
    BY <2>4
<1>3. Nat \subseteq S
  <2>1. \A n \in Nat : n \in S => n + 1 \in S
    BY <1>2
  <2> HIDE DEF S
  <2> QED
    BY <1>1, <2>1, Induction
<1>4. ASSUME NEW n \in Nat PROVE U(n, H[n])
  <2>1. \E g : U(n, g)
    BY <1>3
  <2>2. H[n] = CHOOSE g : U(n, g)
    OBVIOUS
  <2> HIDE DEF U, H
  <2> QED
    BY <2>1, <2>2
<1> HIDE DEF H
<1>5. ASSUME NEW m \in Nat, NEW n \in Nat
      PROVE  \A k \in Nat : k <= m /\ k <= n => H[m][k] = H[n][k]
  <2> DEFINE T == {k \in Nat : k <= m /\ k <= n => H[m][k] = H[n][k]}
  <2>1. 0 \in T
    BY <1>4
  <2>2. \A k \in Nat : k \in T => k + 1 \in T
    <3> SUFFICES ASSUME NEW k \in Nat, k \in T, k + 1 <= m, k + 1 <= n
                 PROVE  H[m][k + 1] = H[n][k + 1]
      OBVIOUS
    <3>1. k < m /\ k < n /\ H[m][k] = H[n][k]
      OBVIOUS
    <3>2. H[m][k + 1] = PartsOf(H[m][k]) /\ H[n][k + 1] = PartsOf(H[n][k])
      BY <1>4, <3>1
    <3> QED
      BY <3>1, <3>2
  <2>3. Nat \subseteq T
    <3> HIDE DEF T
    <3> QED
      BY <2>1, <2>2, Induction
  <2> QED
    BY <2>3
<1>6. h[0] = {v}
  BY <1>4
<1>7. ASSUME NEW n \in Nat PROVE h[n + 1] = PartsOf(h[n])
  <2>1. n + 1 \in Nat /\ n < n + 1 /\ n <= n + 1 /\ n <= n
    OBVIOUS
  <2>2. h[n + 1] = H[n + 1][n + 1] /\ h[n] = H[n][n]
    BY <2>1
  <2>3. H[n + 1][n + 1] = PartsOf(H[n + 1][n])
    BY <1>4, <2>1
  <2>4. H[n + 1][n] = H[n][n]
    BY <1>5, <2>1
  <2> QED
    BY <2>2, <2>3, <2>4
<1>8. F(h)
  <2>1. h = [n \in Nat |-> h[n]]
    OBVIOUS
  <2> HIDE DEF h
  <2>2. ASSUME NEW n \in Nat, n # 0 PROVE h[n] = UNION {Parts(x) : x \in h[n - 1]}
    <3>1. n - 1 \in Nat /\ (n - 1) + 1 = n
      BY <2>2
    <3>2. h[n] = PartsOf(h[n - 1])
      BY <1>7, <3>1
    <3> QED
      BY <3>2 DEF PartsOf
  <2> QED
    BY <1>6, <2>1, <2>2
<1>9. F(e)
  <2> HIDE DEF F, h
  <2> QED
    BY <1>8
<1>10. Below(v) = e
  BY DEF Below
<1> HIDE DEF e
<1>11. e[0] = {v}
  BY <1>9
<1>12. ASSUME NEW n \in Nat PROVE e[n + 1] = PartsOf(e[n])
  <2>1. n + 1 \in Nat /\ n + 1 # 0 /\ (n + 1) - 1 = n
    OBVIOUS
  <2>2. e[n + 1] = UNION {Parts(x) : x \in e[(n + 1) - 1]}
    BY <1>9, <2>1
  <2> QED
    BY <2>1, <2>2 DEF PartsOf
<1> QED
  BY <1>10, <1>11, <1>12

(* and what is below a value is what is below its parts.                   *)
LEMMA BelowParts ==
  ASSUME NEW v, NEW n \in Nat
  PROVE  Below(v)[n + 1] = UNION {Below(x)[n] : x \in Parts(v)}
<1> DEFINE D(k) == UNION {Below(x)[k] : x \in Parts(v)}
           S == {k \in Nat : Below(v)[k + 1] = D(k)}
<1>1. 0 \in S
  <2>1. 0 \in Nat /\ 0 + 1 = 1
    OBVIOUS
  <2>2. Below(v)[0] = {v} /\ Below(v)[0 + 1] = PartsOf(Below(v)[0])
    BY <2>1, BelowIs
  <2>3. PartsOf({v}) = Parts(v)
    BY DEF PartsOf
  <2>4. \A x : Below(x)[0] = {x}
    BY BelowIs
  <2>5. D(0) = Parts(v)
    BY <2>4
  <2> HIDE DEF D
  <2> QED
    BY <2>2, <2>3, <2>5
<1>2. \A k \in Nat : k \in S => k + 1 \in S
  <2> SUFFICES ASSUME NEW k \in Nat, k \in S PROVE Below(v)[(k + 1) + 1] = D(k + 1)
    OBVIOUS
  <2>1. k + 1 \in Nat
    OBVIOUS
  <2>2. Below(v)[(k + 1) + 1] = PartsOf(Below(v)[k + 1])
    BY <2>1, BelowIs
  <2>3. Below(v)[k + 1] = D(k)
    OBVIOUS
  <2>4. \A x : Below(x)[k + 1] = PartsOf(Below(x)[k])
    BY BelowIs
  <2>5. D(k + 1) = UNION {PartsOf(Below(x)[k]) : x \in Parts(v)}
    BY <2>4
  <2>6. PartsOf(D(k)) = UNION {PartsOf(Below(x)[k]) : x \in Parts(v)}
    BY DEF PartsOf
  <2> HIDE DEF D
  <2> QED
    BY <2>2, <2>3, <2>5, <2>6
<1>3. Nat \subseteq S
  <2> HIDE DEF S
  <2> QED
    BY <1>1, <1>2, Induction
<1> QED
  BY <1>3

(* A value that is well formed with all that it is made of.                *)
Good(v) == \A n \in Nat : \A x \in Below(v)[n] : WellFormed(x)

LEMMA GoodIs ==
  ASSUME NEW v
  PROVE  Good(v) <=> WellFormed(v) /\ \A x \in Parts(v) : Good(x)
<1>1. Below(v)[0] = {v} /\ \A n \in Nat : Below(v)[n + 1] = UNION {Below(x)[n] : x \in Parts(v)}
  BY BelowIs, BelowParts
<1>2. ASSUME Good(v) PROVE WellFormed(v) /\ \A x \in Parts(v) : Good(x)
  <2>1. WellFormed(v)
    BY <1>1, <1>2 DEF Good
  <2>2. ASSUME NEW x \in Parts(v), NEW n \in Nat, NEW y \in Below(x)[n] PROVE WellFormed(y)
    <3>1. y \in Below(v)[n + 1] /\ n + 1 \in Nat
      BY <1>1
    <3> QED
      BY <1>2, <3>1 DEF Good
  <2> QED
    BY <2>1, <2>2 DEF Good
<1>3. ASSUME WellFormed(v), \A x \in Parts(v) : Good(x), NEW n \in Nat, NEW y \in Below(v)[n]
      PROVE  WellFormed(y)
  <2>1. CASE n = 0
    BY <1>1, <1>3, <2>1
  <2>2. CASE n # 0
    <3>1. n - 1 \in Nat /\ (n - 1) + 1 = n
      BY <2>2
    <3>2. PICK x \in Parts(v) : y \in Below(x)[n - 1]
      <4>1. Below(v)[(n - 1) + 1] = UNION {Below(x)[n - 1] : x \in Parts(v)}
        BY <1>1, <3>1
      <4> QED
        BY <3>1, <4>1
    <3> QED
      BY <1>3, <3>1, <3>2 DEF Good
  <2> QED
    BY <2>1, <2>2
<1> QED
  BY <1>2, <1>3 DEF Good

(* The type codes.                                                         *)
LEMMA Codes ==
  /\ Type.Unknown = 0 /\ Type.Boolean = 2 /\ Type.Byte = 3
  /\ Type.Short = 4 /\ Type.Float = 5 /\ Type.Double = 6 /\ Type.String = 7
  /\ Type.Null = 8 /\ Type.CompressedInt = 9 /\ Type.CompressedLong = 10
  /\ Type.Int1 = 11 /\ Type.Int1Neg = 12 /\ Type.Int2 = 13
  /\ Type.Int2Neg = 14 /\ Type.Long1 = 15 /\ Type.Long1Neg = 16
  /\ Type.Long2 = 17 /\ Type.Long2Neg = 18 /\ Type.Custom = 19
  /\ Type.Dictionary = 20 /\ Type.Hashtable = 21 /\ Type.ObjectArray = 23
  /\ Type.OperationRequest = 24 /\ Type.OperationResp = 25
  /\ Type.EventData = 26 /\ Type.BoolFalse = 27 /\ Type.BoolTrue = 28
  /\ Type.ShortZero = 29 /\ Type.IntZero = 30 /\ Type.LongZero = 31
  /\ Type.FloatZero = 32 /\ Type.DoubleZero = 33 /\ Type.ByteZero = 34
  /\ Type.Array = 64 /\ Type.SlimBase = 128
  BY DEF Type

(* What it takes to read a value.                                          *)
Result(r, b) == r \in Reads({r.v}, b) /\ Good(r.v)

LEMMA WidthsAre ==
  /\ IntBits \in Nat \ {0} /\ LongBits \in Nat \ {0}
  /\ \A n \in Int : -65535 <= n /\ n <= 65535 =>
       n \in SignedRange(IntBits) /\ n \in SignedRange(LongBits)
<1>1. IntBits \in Nat /\ LongBits \in Nat /\ IntBits > 16 /\ LongBits >= IntBits
  BY WidthsAssumption
<1>2. ASSUME NEW bits \in Nat, bits > 16, NEW n \in Int, -65535 <= n, n <= 65535
      PROVE  n \in SignedRange(bits)
  <2> DEFINE H == PowerOfTwo[bits - 1]
  <2>1. bits - 1 \in Nat /\ 16 <= bits - 1
    BY <1>2
  <2>2. PowerOfTwo[16] <= H /\ H \in Nat
    BY <2>1, PowersGrow, Powers
  <2>3. SignedRange(bits) = -H .. H - 1
    BY DEF SignedRange
  <2> HIDE DEF H
  <2>4. H >= 65536
    BY <2>2, PowersOf7And16
  <2> QED
    BY <1>2, <2>2, <2>3, <2>4
<1> QED
  BY <1>1, <1>2

LEMMA PlainGood ==
  ASSUME NEW n
  PROVE  /\ Good(Nil)
         /\ n \in Byte => Good(<<"byte", n>>)
         /\ n \in SignedRange(16) => Good(<<"int16", n>>)
         /\ n \in SignedRange(IntBits) => Good(<<"int32", n>>)
         /\ n \in SignedRange(LongBits) => Good(<<"int64", n>>)
         /\ n \in [1 .. 4 -> Byte] => Good(<<"float32", n>>)
         /\ n \in [1 .. 8 -> Byte] => Good(<<"float64", n>>)
         /\ n \in Seq(Byte) => Good(<<"string", n>>)
<1>1. /\ Parts(Nil) = {} /\ Parts(<<"byte", n>>) = {} /\ Parts(<<"int16", n>>) = {}
      /\ Parts(<<"int32", n>>) = {} /\ Parts(<<"int64", n>>) = {}
      /\ Parts(<<"float32", n>>) = {} /\ Parts(<<"float64", n>>) = {}
      /\ Parts(<<"string", n>>) = {}
  BY DEF Parts, Nil, ArrayTypes
<1>2. WellFormed(Nil) /\ (n \in Byte => WellFormed(<<"byte", n>>))
  BY DEF WellFormed, Types, ArrayTypes, Nil
<1>3. /\ n \in SignedRange(16) => WellFormed(<<"int16", n>>)
      /\ n \in SignedRange(IntBits) => WellFormed(<<"int32", n>>)
      /\ n \in SignedRange(LongBits) => WellFormed(<<"int64", n>>)
  BY DEF WellFormed, Types, ArrayTypes
<1>4. /\ n \in [1 .. 4 -> Byte] => WellFormed(<<"float32", n>>)
      /\ n \in [1 .. 8 -> Byte] => WellFormed(<<"float64", n>>)
      /\ n \in Seq(Byte) => WellFormed(<<"string", n>>)
  BY DEF WellFormed, Types, ArrayTypes
<1> QED
  BY <1>1, <1>2, <1>3, <1>4, GoodIs

LEMMA BoolGood ==
  /\ Good(<<"bool", TRUE>>) /\ Good(<<"bool", FALSE>>)
<1>1. Parts(<<"bool", TRUE>>) = {} /\ Parts(<<"bool", FALSE>>) = {}
  BY DEF Parts, ArrayTypes
<1>2. WellFormed(<<"bool", TRUE>>) /\ WellFormed(<<"bool", FALSE>>)
  BY DEF WellFormed, Types, ArrayTypes
<1> QED
  BY <1>1, <1>2, GoodIs

LEMMA ErrorTextGood ==
  ASSUME NEW tc \in Byte
  PROVE  Good(ErrorText(tc))
<1>1. Parts(ErrorText(tc)) = {}
  BY DEF Parts, ArrayTypes, ErrorText
<1>2. WellFormed(ErrorText(tc))
  <2>1. \E c \in Byte : ErrorText(tc) = ErrorText(c)
    OBVIOUS
  <2>2. ErrorText(tc)[1] = "string"
    BY DEF ErrorText
  <2> QED
    BY <2>1, <2>2 DEF WellFormed, Types, ArrayTypes
<1> QED
  BY <1>1, <1>2, GoodIs

LEMMA AsResult ==
  ASSUME NEW b, NEW S, NEW r \in Reads(S, b), NEW type, \A n \in S : Good(<<type, n>>)
  PROVE  Result(As(type, r), b) /\ As(type, r).v[1] = type
<1>1. r.v \in S /\ r.rest \in Shorter(b)
  BY DEF Reads
<1>2. As(type, r) = [v |-> <<type, r.v>>, rest |-> r.rest]
  BY DEF As, Read
<1>3. Good(<<type, r.v>>)
  BY <1>1
<1> QED
  BY <1>1, <1>2, <1>3 DEF Result, Reads

LEMMA ReadResult ==
  ASSUME NEW b, NEW left \in Shorter(b), NEW v, Good(v)
  PROVE  Result(Read(v, left), b) /\ Read(v, left).v = v /\ Read(v, left).rest = left
  BY DEF Result, Reads, Read

LEMMA ReadStringReads ==
  ASSUME NEW b \in Seq(Byte)
  PROVE  ReadString(b) \in Reads(Seq(Byte), b)
<1> DEFINE r == ReadCompressed(b, IntBits)
<1>1. r \in Reads(0 .. PowerOfTwo[IntBits] - 1, b)
  BY ReadCompressedReads, WidthsAre
<1>2. r.v \in Nat /\ r.rest \in Seq(Byte) /\ r.rest \in Shorter(b)
  <2> HIDE DEF r
  <2> QED
    BY <1>1 DEF Reads, Shorter
<1>3. ReadString(b) = IF r.v > Len(r.rest) THEN Read(<<>>, r.rest)
                      ELSE Read(Take(r.rest, r.v), Drop(r.rest, r.v))
  BY DEF ReadString
<1> HIDE DEF r
<1>4. <<>> \in Seq(Byte) /\ Len(r.rest) \in Nat
  BY <1>2, EmptySeq, LenProperties
<1>5. CASE r.v > Len(r.rest)
  BY <1>2, <1>3, <1>4, <1>5 DEF Reads, Read
<1>6. CASE ~ (r.v > Len(r.rest))
  <2>1. Take(r.rest, r.v) \in Seq(Byte) /\ Drop(r.rest, r.v) \in Shorter(r.rest)
    BY <1>2, <1>4, <1>6, TakeDrop
  <2>2. Drop(r.rest, r.v) \in Shorter(b)
    BY <1>2, <2>1, ShorterIs
  <2> QED
    BY <1>3, <1>6, <2>1, <2>2 DEF Reads, Read
<1> QED
  BY <1>5, <1>6

(* The numbers of readByte and readUint16, and those below zero of the     *)
(* codes for them.                                                         *)
Small == {n \in Int : -65535 <= n /\ n <= 65535}

LEMMA SmallGood ==
  ASSUME NEW n \in Small
  PROVE  Good(<<"int32", n>>) /\ Good(<<"int64", n>>)
<1>1. n \in Int /\ -65535 <= n /\ n <= 65535
  BY DEF Small
<1>2. n \in SignedRange(IntBits) /\ n \in SignedRange(LongBits)
  BY <1>1, WidthsAre
<1> QED
  BY <1>2, PlainGood

LEMMA SmallReads ==
  ASSUME NEW b \in Seq(Byte)
  PROVE  /\ ReadByte(b) \in Reads(Small, b) /\ Negated(ReadByte(b)) \in Reads(Small, b)
         /\ ReadUint16(b) \in Reads(Small, b) /\ Negated(ReadUint16(b)) \in Reads(Small, b)
<1>1. \A r : r \in Reads(Small, b) => Negated(r) \in Reads(Small, b)
  <2> SUFFICES ASSUME NEW r \in Reads(Small, b) PROVE Negated(r) \in Reads(Small, b)
    OBVIOUS
  <2>1. r.v \in Small /\ r.rest \in Shorter(b)
    BY DEF Reads
  <2>2. -(r.v) \in Small
    BY <2>1 DEF Small
  <2> QED
    BY <2>1, <2>2 DEF Negated, Reads, Read
<1>2. ReadByte(b) \in Reads(Small, b)
  <2>1. ReadByte(b) \in Reads(Byte, b)
    BY ReadByteReads
  <2>2. Byte \subseteq Small
    BY Bytes0To255 DEF Small
  <2> QED
    BY <2>1, <2>2 DEF Reads
<1>3. ReadUint16(b) \in Reads(Small, b)
  <2>1. ReadUint16(b) \in Reads(0 .. PowerOfTwo[16] - 1, b)
    BY ReadUint16Reads
  <2>2. 0 .. PowerOfTwo[16] - 1 \subseteq Small
    BY PowersOf7And16 DEF Small
  <2> QED
    BY <2>1, <2>2 DEF Reads
<1> QED
  BY <1>1, <1>2, <1>3

LEMMA IsPlainIs ==
  ASSUME NEW tc
  PROVE  IsPlain(tc) <=> tc = 0 \/ tc \in 2 .. 18 \/ tc \in 27 .. 34
  BY Codes DEF IsPlain

LEMMA SmallZero == 0 \in Small
<1>1. 0 \in Int /\ -65535 <= 0 /\ 0 <= 65535
  OBVIOUS
<1> QED
  BY <1>1 DEF Small

(* What ReadPlain is, code by code.                                        *)
LEMMA ReadPlainIs ==
  ASSUME NEW b
  PROVE  /\ ReadPlain(b, 0) = Read(Nil, b) /\ ReadPlain(b, 8) = Read(Nil, b)
         /\ ReadPlain(b, 2) = Read(<<"bool", ReadByte(b).v # 0>>, ReadByte(b).rest)
         /\ ReadPlain(b, 3) = As("byte", ReadByte(b))
         /\ ReadPlain(b, 4) = As("int16", ReadInt16(b))
         /\ ReadPlain(b, 5) = As("float32", ReadFixed(b, 4))
         /\ ReadPlain(b, 6) = As("float64", ReadFixed(b, 8))
         /\ ReadPlain(b, 7) = As("string", ReadString(b))
         /\ ReadPlain(b, 9) = As("int32", ReadZigzag(b, IntBits))
         /\ ReadPlain(b, 10) = As("int64", ReadZigzag(b, LongBits))
         /\ ReadPlain(b, 11) = As("int32", ReadByte(b))
         /\ ReadPlain(b, 12) = As("int32", Negated(ReadByte(b)))
         /\ ReadPlain(b, 13) = As("int32", ReadUint16(b))
         /\ ReadPlain(b, 14) = As("int32", Negated(ReadUint16(b)))
         /\ ReadPlain(b, 15) = As("int64", ReadByte(b))
         /\ ReadPlain(b, 16) = As("int64", Negated(ReadByte(b)))
         /\ ReadPlain(b, 17) = As("int64", ReadUint16(b))
         /\ ReadPlain(b, 18) = As("int64", Negated(ReadUint16(b)))
         /\ ReadPlain(b, 27) = Read(<<"bool", FALSE>>, b)
         /\ ReadPlain(b, 28) = Read(<<"bool", TRUE>>, b)
         /\ ReadPlain(b, 29) = Read(<<"int16", 0>>, b)
         /\ ReadPlain(b, 30) = Read(<<"int32", 0>>, b)
         /\ ReadPlain(b, 31) = Read(<<"int64", 0>>, b)
         /\ ReadPlain(b, 32) = Read(<<"float32", [k \in 1 .. 4 |-> 0]>>, b)
         /\ ReadPlain(b, 33) = Read(<<"float64", [k \in 1 .. 8 |-> 0]>>, b)
         /\ ReadPlain(b, 34) = Read(<<"byte", 0>>, b)
<1>1. ReadPlain(b, 0) = Read(Nil, b) /\ ReadPlain(b, 8) = Read(Nil, b)
  BY Codes DEF ReadPlain
<1>2. ReadPlain(b, 2) = Read(<<"bool", ReadByte(b).v # 0>>, ReadByte(b).rest)
  BY Codes DEF ReadPlain
<1>3. ReadPlain(b, 3) = As("byte", ReadByte(b))
  BY Codes DEF ReadPlain
<1>4. ReadPlain(b, 4) = As("int16", ReadInt16(b))
  BY Codes DEF ReadPlain
<1>5. ReadPlain(b, 5) = As("float32", ReadFixed(b, 4))
  BY Codes DEF ReadPlain
<1>6. ReadPlain(b, 6) = As("float64", ReadFixed(b, 8))
  BY Codes DEF ReadPlain
<1>7. ReadPlain(b, 7) = As("string", ReadString(b))
  BY Codes DEF ReadPlain
<1>8. ReadPlain(b, 9) = As("int32", ReadZigzag(b, IntBits))
  BY Codes DEF ReadPlain
<1>9. ReadPlain(b, 10) = As("int64", ReadZigzag(b, LongBits))
  BY Codes DEF ReadPlain
<1>10. ReadPlain(b, 11) = As("int32", ReadByte(b))
  BY Codes DEF ReadPlain
<1>11. ReadPlain(b, 12) = As("int32", Negated(ReadByte(b)))
  BY Codes DEF ReadPlain
<1>12. ReadPlain(b, 13) = As("int32", ReadUint16(b))
  BY Codes DEF ReadPlain
<1>13. ReadPlain(b, 14) = As("int32", Negated(ReadUint16(b)))
  BY Codes DEF ReadPlain
<1>14. ReadPlain(b, 15) = As("int64", ReadByte(b))
  BY Codes DEF ReadPlain
<1>15. ReadPlain(b, 16) = As("int64", Negated(ReadByte(b)))
  BY Codes DEF ReadPlain
<1>16. ReadPlain(b, 17) = As("int64", ReadUint16(b))
  BY Codes DEF ReadPlain
<1>17. ReadPlain(b, 18) = As("int64", Negated(ReadUint16(b)))
  BY Codes DEF ReadPlain
<1>18. ReadPlain(b, 27) = Read(<<"bool", FALSE>>, b)
  BY Codes DEF ReadPlain
<1>19. ReadPlain(b, 28) = Read(<<"bool", TRUE>>, b)
  BY Codes DEF ReadPlain
<1>20. ReadPlain(b, 29) = Read(<<"int16", 0>>, b)
  BY Codes DEF ReadPlain
<1>21. ReadPlain(b, 30) = Read(<<"int32", 0>>, b)
  BY Codes DEF ReadPlain
<1>22. ReadPlain(b, 31) = Read(<<"int64", 0>>, b)
  BY Codes DEF ReadPlain
<1>23. ReadPlain(b, 32) = Read(<<"float32", [k \in 1 .. 4 |-> 0]>>, b)
  BY Codes DEF ReadPlain
<1>24. ReadPlain(b, 33) = Read(<<"float64", [k \in 1 .. 8 |-> 0]>>, b)
  BY Codes DEF ReadPlain
<1>25. ReadPlain(b, 34) = Read(<<"byte", 0>>, b)
  BY Codes DEF ReadPlain
<1> QED
  BY <1>1, <1>2, <1>3, <1>4, <1>5, <1>6, <1>7, <1>8, <1>9, <1>10, <1>11, <1>12, <1>13, <1>14, <1>15, <1>16, <1>17, <1>18, <1>19, <1>20, <1>21, <1>22, <1>23, <1>24, <1>25

(* Of a value that is not made of values, the code tells the type.         *)
LEMMA ReadPlainResult ==
  ASSUME NEW b \in Seq(Byte), NEW tc, IsPlain(tc)
  PROVE  Result(ReadPlain(b, tc), b)
<1>1. tc \in {0} \cup 2 .. 18 \cup 27 .. 34
  BY IsPlainIs
<1>2. b \in Shorter(b)
  BY ShorterIs
<1>3. \A n \in Small : Good(<<"int32", n>>)
  BY SmallGood
<1>3a. \A n \in Small : Good(<<"int64", n>>)
  BY SmallGood
<1>4. /\ \A n \in Byte : Good(<<"byte", n>>)
      /\ \A n \in SignedRange(16) : Good(<<"int16", n>>)
      /\ \A n \in SignedRange(IntBits) : Good(<<"int32", n>>)
      /\ \A n \in SignedRange(LongBits) : Good(<<"int64", n>>)
      /\ \A n \in [1 .. 4 -> Byte] : Good(<<"float32", n>>)
      /\ \A n \in [1 .. 8 -> Byte] : Good(<<"float64", n>>)
      /\ \A n \in Seq(Byte) : Good(<<"string", n>>)
  BY PlainGood
<1>5. /\ ReadByte(b) \in Reads(Byte, b)
      /\ ReadInt16(b) \in Reads(SignedRange(16), b)
      /\ ReadString(b) \in Reads(Seq(Byte), b)
  BY ReadByteReads, ReadUint16Reads, ReadStringReads
<1>6. /\ ReadFixed(b, 4) \in Reads([1 .. 4 -> Byte], b)
      /\ ReadFixed(b, 8) \in Reads([1 .. 8 -> Byte], b)
  BY ReadFixedReads
<1>7. /\ ReadZigzag(b, IntBits) \in Reads(SignedRange(IntBits), b)
      /\ ReadZigzag(b, LongBits) \in Reads(SignedRange(LongBits), b)
  BY ReadZigzagReads, WidthsAre
<1>8. /\ ReadByte(b) \in Reads(Small, b) /\ Negated(ReadByte(b)) \in Reads(Small, b)
      /\ ReadUint16(b) \in Reads(Small, b) /\ Negated(ReadUint16(b)) \in Reads(Small, b)
  BY SmallReads
<1>9. Good(Nil) /\ Good(<<"bool", TRUE>>) /\ Good(<<"bool", FALSE>>)
  BY PlainGood, BoolGood
<1>10. CASE tc \in {0, 8}
  <2>1. ReadPlain(b, tc) = Read(Nil, b)
    BY <1>10, ReadPlainIs
  <2> QED
    BY <1>2, <1>9, <2>1, ReadResult
<1>11. CASE tc = 2
  <2> DEFINE r == ReadByte(b)
             v == <<"bool", r.v # 0>>
  <2>1. ReadPlain(b, tc) = Read(v, r.rest)
    BY <1>11, ReadPlainIs
  <2>2. r.rest \in Shorter(b)
    BY <1>5 DEF Reads
  <2>3. Good(v)
    <3>1. r.v # 0 => v = <<"bool", TRUE>>
      BY Zenon
    <3>2. ~ (r.v # 0) => v = <<"bool", FALSE>>
      BY Zenon
    <3> HIDE DEF v
    <3> QED
      BY <1>9, <3>1, <3>2
  <2> HIDE DEF v, r
  <2>4. Result(Read(v, r.rest), b)
    BY <2>2, <2>3, ReadResult
  <2> QED
    BY <2>1, <2>4
<1>12. CASE tc = 3
  <2>1. ReadPlain(b, tc) = As("byte", ReadByte(b))
    BY <1>12, ReadPlainIs
  <2> QED
    BY <1>4, <1>5, <2>1, AsResult
<1>13. CASE tc = 4
  <2>1. ReadPlain(b, tc) = As("int16", ReadInt16(b))
    BY <1>13, ReadPlainIs
  <2> QED
    BY <1>4, <1>5, <2>1, AsResult
<1>14. CASE tc = 5
  <2>1. ReadPlain(b, tc) = As("float32", ReadFixed(b, 4))
    BY <1>14, ReadPlainIs
  <2> QED
    BY <1>4, <1>6, <2>1, AsResult
<1>15. CASE tc = 6
  <2>1. ReadPlain(b, tc) = As("float64", ReadFixed(b, 8))
    BY <1>15, ReadPlainIs
  <2> QED
    BY <1>4, <1>6, <2>1, AsResult
<1>16. CASE tc = 7
  <2>1. ReadPlain(b, tc) = As("string", ReadString(b))
    BY <1>16, ReadPlainIs
  <2> QED
    BY <1>4, <1>5, <2>1, AsResult
<1>17. CASE tc = 9
  <2>1. ReadPlain(b, tc) = As("int32", ReadZigzag(b, IntBits))
    BY <1>17, ReadPlainIs
  <2> QED
    BY <1>4, <1>7, <2>1, AsResult
<1>18. CASE tc = 10
  <2>1. ReadPlain(b, tc) = As("int64", ReadZigzag(b, LongBits))
    BY <1>18, ReadPlainIs
  <2> QED
    BY <1>4, <1>7, <2>1, AsResult
<1>19. CASE tc = 11
  <2>1. ReadPlain(b, tc) = As("int32", ReadByte(b))
    BY <1>19, ReadPlainIs
  <2> QED
    BY <1>3, <1>8, <2>1, AsResult
<1>20. CASE tc = 12
  <2>1. ReadPlain(b, tc) = As("int32", Negated(ReadByte(b)))
    BY <1>20, ReadPlainIs
  <2> QED
    BY <1>3, <1>8, <2>1, AsResult
<1>21. CASE tc = 13
  <2>1. ReadPlain(b, tc) = As("int32", ReadUint16(b))
    BY <1>21, ReadPlainIs
  <2> QED
    BY <1>3, <1>8, <2>1, AsResult
<1>22. CASE tc = 14
  <2>1. ReadPlain(b, tc) = As("int32", Negated(ReadUint16(b)))
    BY <1>22, ReadPlainIs
  <2> QED
    BY <1>3, <1>8, <2>1, AsResult
<1>23. CASE tc = 15
  <2>1. ReadPlain(b, tc) = As("int64", ReadByte(b))
    BY <1>23, ReadPlainIs
  <2> QED
    BY <1>3a, <1>8, <2>1, AsResult
<1>24. CASE tc = 16
  <2>1. ReadPlain(b, tc) = As("int64", Negated(ReadByte(b)))
    BY <1>24, ReadPlainIs
  <2> QED
    BY <1>3a, <1>8, <2>1, AsResult
<1>25. CASE tc = 17
  <2>1. ReadPlain(b, tc) = As("int64", ReadUint16(b))
    BY <1>25, ReadPlainIs
  <2> QED
    BY <1>3a, <1>8, <2>1, AsResult
<1>26. CASE tc = 18
  <2>1. ReadPlain(b, tc) = As("int64", Negated(ReadUint16(b)))
    BY <1>26, ReadPlainIs
  <2> QED
    BY <1>3a, <1>8, <2>1, AsResult
<1>27. CASE tc = 27
  <2>1. ReadPlain(b, tc) = Read(<<"bool", FALSE>>, b)
    BY <1>27, ReadPlainIs
  <2> QED
    BY <1>2, <1>9, <2>1, ReadResult
<1>28. CASE tc = 28
  <2>1. ReadPlain(b, tc) = Read(<<"bool", TRUE>>, b)
    BY <1>28, ReadPlainIs
  <2> QED
    BY <1>2, <1>9, <2>1, ReadResult
<1>29. CASE tc = 29
  <2>1. ReadPlain(b, tc) = Read(<<"int16", 0>>, b)
    BY <1>29, ReadPlainIs
  <2>2. Good(<<"int16", 0>>)
    <3>1. 0 \in SignedRange(16)
      BY PowersOf7And16 DEF SignedRange
    <3> QED
      BY <1>4, <3>1
  <2> QED
    BY <1>2, <2>1, <2>2, ReadResult
<1>30. CASE tc = 30
  <2>1. ReadPlain(b, tc) = Read(<<"int32", 0>>, b)
    BY <1>30, ReadPlainIs
  <2>2. Good(<<"int32", 0>>)
    BY <1>3, <1>3a, SmallZero
  <2> QED
    BY <1>2, <2>1, <2>2, ReadResult
<1>31. CASE tc = 31
  <2>1. ReadPlain(b, tc) = Read(<<"int64", 0>>, b)
    BY <1>31, ReadPlainIs
  <2>2. Good(<<"int64", 0>>)
    BY <1>3, <1>3a, SmallZero
  <2> QED
    BY <1>2, <2>1, <2>2, ReadResult
<1>32. CASE tc = 32
  <2>1. ReadPlain(b, tc) = Read(<<"float32", [k \in 1 .. 4 |-> 0]>>, b)
    BY <1>32, ReadPlainIs
  <2>2. Good(<<"float32", [k \in 1 .. 4 |-> 0]>>)
    <3>1. [k \in 1 .. 4 |-> 0] \in [1 .. 4 -> Byte]
      BY DEF Byte
    <3> QED
      BY <1>4, <3>1
  <2> QED
    BY <1>2, <2>1, <2>2, ReadResult
<1>33. CASE tc = 33
  <2>1. ReadPlain(b, tc) = Read(<<"float64", [k \in 1 .. 8 |-> 0]>>, b)
    BY <1>33, ReadPlainIs
  <2>2. Good(<<"float64", [k \in 1 .. 8 |-> 0]>>)
    <3>1. [k \in 1 .. 8 |-> 0] \in [1 .. 8 -> Byte]
      BY DEF Byte
    <3> QED
      BY <1>4, <3>1
  <2> QED
    BY <1>2, <2>1, <2>2, ReadResult
<1>34. CASE tc = 34
  <2>1. ReadPlain(b, tc) = Read(<<"byte", 0>>, b)
    BY <1>34, ReadPlainIs
  <2>2. Good(<<"byte", 0>>)
    <3>1. 0 \in Byte
      BY DEF Byte
    <3> QED
      BY <1>4, <3>1
  <2> QED
    BY <1>2, <2>1, <2>2, ReadResult
<1> QED
  BY <1>1, <1>10, <1>11, <1>12, <1>13, <1>14, <1>15, <1>16, <1>17, <1>18, <1>19, <1>20, <1>21, <1>22, <1>23, <1>24, <1>25, <1>26, <1>27, <1>28, <1>29, <1>30, <1>31, <1>32, <1>33, <1>34

LEMMA ArrayTypeIs ==
  /\ ArrayType(2) = "[]bool" /\ ElementType("[]bool") = "bool"
  /\ ArrayType(3) = "[]byte" /\ ElementType("[]byte") = "byte"
  /\ ArrayType(4) = "[]int16" /\ ElementType("[]int16") = "int16"
  /\ ArrayType(5) = "[]float32" /\ ElementType("[]float32") = "float32"
  /\ ArrayType(6) = "[]float64" /\ ElementType("[]float64") = "float64"
  /\ ArrayType(7) = "[]string" /\ ElementType("[]string") = "string"
  /\ ArrayType(9) = "[]int32" /\ ElementType("[]int32") = "int32"
  /\ ArrayType(10) = "[]int64" /\ ElementType("[]int64") = "int64"
  /\ \A tc \in Byte \ {2, 3, 4, 5, 6, 7, 9, 10} : ArrayType(tc) = "[]interface{}"
<1>1. /\ ArrayType(2) = "[]bool" /\ ArrayType(3) = "[]byte" /\ ArrayType(4) = "[]int16"
      /\ ArrayType(5) = "[]float32" /\ ArrayType(6) = "[]float64" /\ ArrayType(7) = "[]string"
      /\ ArrayType(9) = "[]int32" /\ ArrayType(10) = "[]int64"
  BY Codes DEF ArrayType
<1>2. \A tc \in Byte \ {2, 3, 4, 5, 6, 7, 9, 10} : ArrayType(tc) = "[]interface{}"
  BY Codes DEF ArrayType
<1>3. /\ ElementType("[]bool") = "bool" /\ ElementType("[]byte") = "byte"
      /\ ElementType("[]int16") = "int16" /\ ElementType("[]float32") = "float32"
      /\ ElementType("[]float64") = "float64" /\ ElementType("[]string") = "string"
      /\ ElementType("[]int32") = "int32" /\ ElementType("[]int64") = "int64"
  BY DEF ElementType
<1> QED
  BY <1>1, <1>2, <1>3

LEMMA AsType == \A type, r : As(type, r).v[1] = type
  BY DEF As, Read

LEMMA BoolType == \A n, r : Read(<<"bool", n>>, r).v[1] = "bool"
  BY DEF Read

LEMMA ElementsPlain == \A tc \in {2, 3, 4, 5, 6, 7, 9, 10} : IsPlain(tc)
  BY Codes DEF IsPlain

LEMMA PlainTypes ==
  ASSUME NEW b, NEW tc \in Byte, ArrayType(tc) # "[]interface{}"
  PROVE  IsPlain(tc) /\ ReadPlain(b, tc).v[1] = ElementType(ArrayType(tc))
<1>1. tc \in {2, 3, 4, 5, 6, 7, 9, 10}
  BY ArrayTypeIs
<1>2. IsPlain(tc)
  BY <1>1, ElementsPlain
<1>3. CASE tc = 2
  <2>1. ReadPlain(b, tc) = Read(<<"bool", ReadByte(b).v # 0>>, ReadByte(b).rest)
    BY <1>3, ReadPlainIs
  <2>2. ReadPlain(b, tc).v[1] = "bool"
    BY <2>1, BoolType
  <2>3. ElementType(ArrayType(tc)) = "bool"
    BY <1>3, ArrayTypeIs
  <2> QED
    BY <2>2, <2>3, <1>2
<1>4. CASE tc = 3
  <2>1. ReadPlain(b, tc) = As("byte", ReadByte(b))
    BY <1>4, ReadPlainIs
  <2>2. ReadPlain(b, tc).v[1] = "byte"
    BY <2>1, AsType
  <2>3. ElementType(ArrayType(tc)) = "byte"
    BY <1>4, ArrayTypeIs
  <2> QED
    BY <2>2, <2>3, <1>2
<1>5. CASE tc = 4
  <2>1. ReadPlain(b, tc) = As("int16", ReadInt16(b))
    BY <1>5, ReadPlainIs
  <2>2. ReadPlain(b, tc).v[1] = "int16"
    BY <2>1, AsType
  <2>3. ElementType(ArrayType(tc)) = "int16"
    BY <1>5, ArrayTypeIs
  <2> QED
    BY <2>2, <2>3, <1>2
<1>6. CASE tc = 5
  <2>1. ReadPlain(b, tc) = As("float32", ReadFixed(b, 4))
    BY <1>6, ReadPlainIs
  <2>2. ReadPlain(b, tc).v[1] = "float32"
    BY <2>1, AsType
  <2>3. ElementType(ArrayType(tc)) = "float32"
    BY <1>6, ArrayTypeIs
  <2> QED
    BY <2>2, <2>3, <1>2
<1>7. CASE tc = 6
  <2>1. ReadPlain(b, tc) = As("float64", ReadFixed(b, 8))
    BY <1>7, ReadPlainIs
  <2>2. ReadPlain(b, tc).v[1] = "float64"
    BY <2>1, AsType
  <2>3. ElementType(ArrayType(tc)) = "float64"
    BY <1>7, ArrayTypeIs
  <2> QED
    BY <2>2, <2>3, <1>2
<1>8. CASE tc = 7
  <2>1. ReadPlain(b, tc) = As("string", ReadString(b))
    BY <1>8, ReadPlainIs
  <2>2. ReadPlain(b, tc).v[1] = "string"
    BY <2>1, AsType
  <2>3. ElementType(ArrayType(tc)) = "string"
    BY <1>8, ArrayTypeIs
  <2> QED
    BY <2>2, <2>3, <1>2
<1>9. CASE tc = 9
  <2>1. ReadPlain(b, tc) = As("int32", ReadZigzag(b, IntBits))
    BY <1>9, ReadPlainIs
  <2>2. ReadPlain(b, tc).v[1] = "int32"
    BY <2>1, AsType
  <2>3. ElementType(ArrayType(tc)) = "int32"
    BY <1>9, ArrayTypeIs
  <2> QED
    BY <2>2, <2>3, <1>2
<1>10. CASE tc = 10
  <2>1. ReadPlain(b, tc) = As("int64", ReadZigzag(b, LongBits))
    BY <1>10, ReadPlainIs
  <2>2. ReadPlain(b, tc).v[1] = "int64"
    BY <2>1, AsType
  <2>3. ElementType(ArrayType(tc)) = "int64"
    BY <1>10, ArrayTypeIs
  <2> QED
    BY <2>2, <2>3, <1>2
<1> QED
  BY <1>1, <1>3, <1>4, <1>5, <1>6, <1>7, <1>8, <1>9, <1>10

-----------------------------------------------------------------------------
(* Values that are made of values.                                         *)

(* What ReadEach goes through: the values and the rest after k of them.    *)
Steps(one, b, n, r) ==
  /\ r[0] = Read(<<>>, b)
  /\ \A k \in 1 .. n : r[k] = Read(r[k - 1].v \o one[<<r[k - 1].rest, k - 1>>].v,
                                   one[<<r[k - 1].rest, k - 1>>].rest)

LEMMA StepsExist ==
  ASSUME NEW one, NEW b, NEW n \in Nat
  PROVE  \E r : Steps(one, b, n, r)
<1> DEFINE S == {m \in Nat : \E r : Steps(one, b, m, r)}
<1>1. 0 \in S
  <2> DEFINE r == [k \in 0 .. 0 |-> Read(<<>>, b)]
  <2>1. r[0] = Read(<<>>, b) /\ 1 .. 0 = {}
    OBVIOUS
  <2> HIDE DEF r
  <2> QED
    BY <2>1 DEF Steps
<1>2. ASSUME NEW m \in Nat, NEW r, Steps(one, b, m, r) PROVE \E f : Steps(one, b, m + 1, f)
  <2> DEFINE x == one[<<r[m].rest, m>>]
             f == [k \in 0 .. m + 1 |-> IF k = m + 1 THEN Read(r[m].v \o x.v, x.rest) ELSE r[k]]
  <2>1. f[m + 1] = Read(r[m].v \o x.v, x.rest) /\ \A k \in 0 .. m : f[k] = r[k]
    OBVIOUS
  <2>2. (m + 1) - 1 = m /\ m \in 0 .. m /\ 0 \in 0 .. m /\ 1 .. m + 1 = 1 .. m \cup {m + 1}
    OBVIOUS
  <2>3. \A k \in 1 .. m : k \in 0 .. m /\ k - 1 \in 0 .. m
    OBVIOUS
  <2> HIDE DEF f
  <2>4. f[0] = Read(<<>>, b)
    BY <1>2, <2>1, <2>2 DEF Steps
  <2>5. ASSUME NEW k \in 1 .. m + 1
        PROVE  f[k] = Read(f[k - 1].v \o one[<<f[k - 1].rest, k - 1>>].v,
                           one[<<f[k - 1].rest, k - 1>>].rest)
    <3>1. CASE k = m + 1
      BY <2>1, <2>2, <3>1
    <3>2. CASE k \in 1 .. m
      <4>1. f[k] = r[k] /\ f[k - 1] = r[k - 1]
        BY <2>1, <2>3, <3>2
      <4> QED
        BY <1>2, <3>2, <4>1 DEF Steps
    <3> QED
      BY <2>2, <3>1, <3>2
  <2> QED
    BY <2>4, <2>5 DEF Steps
<1>3. Nat \subseteq S
  <2>1. \A m \in Nat : m \in S => m + 1 \in S
    BY <1>2
  <2> HIDE DEF S
  <2> QED
    BY <1>1, <2>1, Induction
<1> QED
  BY <1>3

(* There is one way only, and ReadEach is where it ends.                   *)
LEMMA StepsUnique ==
  ASSUME NEW one, NEW b, NEW n \in Nat, NEW r, Steps(one, b, n, r), NEW f, Steps(one, b, n, f)
  PROVE  \A k \in 0 .. n : r[k] = f[k]
<1> DEFINE S == {k \in Nat : k <= n => r[k] = f[k]}
<1>1. 0 \in S
  BY DEF Steps
<1>2. \A k \in Nat : k \in S => k + 1 \in S
  <2> SUFFICES ASSUME NEW k \in Nat, k \in S, k + 1 <= n PROVE r[k + 1] = f[k + 1]
    OBVIOUS
  <2>1. k + 1 \in 1 .. n /\ (k + 1) - 1 = k /\ r[k] = f[k]
    OBVIOUS
  <2>2. /\ r[k + 1] = Read(r[k].v \o one[<<r[k].rest, k>>].v, one[<<r[k].rest, k>>].rest)
        /\ f[k + 1] = Read(f[k].v \o one[<<f[k].rest, k>>].v, one[<<f[k].rest, k>>].rest)
    BY <2>1 DEF Steps
  <2> QED
    BY <2>1, <2>2
<1>3. Nat \subseteq S
  <2> HIDE DEF S
  <2> QED
    BY <1>1, <1>2, Induction
<1> QED
  BY <1>3

LEMMA ReadEachIs ==
  ASSUME NEW one, NEW b, NEW n \in Nat, NEW r, Steps(one, b, n, r)
  PROVE  ReadEach(one, b, n) = r[n]
<1> DEFINE F(g) == g = [k \in 0 .. n |->
                          IF k = 0 THEN Read(<<>>, b)
                          ELSE LET before == g[k - 1]
                                   x == one[<<before.rest, k - 1>>]
                               IN Read(before.v \o x.v, x.rest)]
           f == [k \in 0 .. n |-> r[k]]
           e == CHOOSE g : F(g)
<1>1. F(f)
  <2>1. ASSUME NEW k \in 0 .. n
        PROVE  r[k] = IF k = 0 THEN Read(<<>>, b)
                      ELSE LET before == f[k - 1]
                               x == one[<<before.rest, k - 1>>]
                           IN Read(before.v \o x.v, x.rest)
    <3>1. CASE k = 0
      BY <3>1 DEF Steps
    <3>2. CASE k # 0
      <4>1. k \in 1 .. n /\ k - 1 \in 0 .. n
        BY <3>2
      <4>2. f[k - 1] = r[k - 1]
        BY <4>1
      <4> HIDE DEF f
      <4> QED
        BY <3>2, <4>1, <4>2 DEF Steps
    <3> QED
      BY <3>1, <3>2
  <2> QED
    BY <2>1
<1>2. F(e)
  <2> HIDE DEF F, f
  <2> QED
    BY <1>1
<1>3. ReadEach(one, b, n) = e[n]
  BY DEF ReadEach
<1> HIDE DEF e
<1>4. Steps(one, b, n, e)
  <2>1. e[0] = Read(<<>>, b)
    BY <1>2
  <2>2. ASSUME NEW k \in 1 .. n
        PROVE  e[k] = Read(e[k - 1].v \o one[<<e[k - 1].rest, k - 1>>].v,
                           one[<<e[k - 1].rest, k - 1>>].rest)
    <3>1. k \in 0 .. n /\ k # 0
      OBVIOUS
    <3> QED
      BY <1>2, <3>1
  <2> QED
    BY <2>1, <2>2 DEF Steps
<1>5. n \in 0 .. n
  OBVIOUS
<1>6. r[n] = e[n]
  BY <1>4, <1>5, StepsUnique
<1> QED
  BY <1>3, <1>6

(* Sequences of elements of W, so many at most.                            *)
AtMost(n, W) == {s \in Seq(W) : Len(s) <= n}

(* If each gives at most one value, n of them are at most n, ...           *)
LEMMA ReadEachSteps ==
  ASSUME NEW W, NEW b \in Seq(Byte), NEW n \in Nat, NEW one,
         \A c \in Shorter(b) : \A k \in 0 .. n - 1 : one[<<c, k>>] \in Reads(AtMost(1, W), c)
  PROVE  \E r : /\ Steps(one, b, n, r) /\ ReadEach(one, b, n) = r[n]
                /\ \A k \in 0 .. n : r[k] \in Reads(AtMost(k, W), b)
<1>1. PICK r : Steps(one, b, n, r)
  BY StepsExist
<1>2. ReadEach(one, b, n) = r[n]
  BY <1>1, ReadEachIs
<1> DEFINE S == {k \in Nat : k <= n => r[k] \in Reads(AtMost(k, W), b)}
<1>3. 0 \in S
  <2>1. <<>> \in AtMost(0, W)
    BY EmptySeq DEF AtMost
  <2> QED
    BY <1>1, <2>1, ShorterIs DEF Steps, Reads, Read
<1>4. \A k \in Nat : k \in S => k + 1 \in S
  <2> SUFFICES ASSUME NEW k \in Nat, k \in S, k + 1 <= n
               PROVE  r[k + 1] \in Reads(AtMost(k + 1, W), b)
    OBVIOUS
  <2> DEFINE x == one[<<r[k].rest, k>>]
  <2>1. k + 1 \in 1 .. n /\ (k + 1) - 1 = k /\ k \in 0 .. n - 1 /\ k <= n
    OBVIOUS
  <2>2. r[k].v \in AtMost(k, W) /\ r[k].rest \in Shorter(b)
    BY <2>1 DEF Reads
  <2>3. x \in Reads(AtMost(1, W), r[k].rest)
    BY <2>1, <2>2
  <2>4. r[k + 1] = Read(r[k].v \o x.v, x.rest)
    BY <1>1, <2>1 DEF Steps
  <2> HIDE DEF x
  <2>5. x.v \in AtMost(1, W) /\ x.rest \in Shorter(r[k].rest)
    BY <2>3 DEF Reads
  <2>6. x.rest \in Shorter(b)
    BY <2>2, <2>5, ShorterIs
  <2>7. r[k].v \o x.v \in AtMost(k + 1, W)
    <3>1. \A s \in AtMost(k, W), t \in AtMost(1, W) : s \o t \in AtMost(k + 1, W)
      BY ConcatProperties, LenProperties DEF AtMost
    <3> QED
      BY <2>2, <2>5, <3>1
  <2> QED
    BY <2>4, <2>6, <2>7 DEF Reads, Read
<1>5. Nat \subseteq S
  <2> HIDE DEF S
  <2> QED
    BY <1>3, <1>4, Induction
<1>6. \A k \in 0 .. n : r[k] \in Reads(AtMost(k, W), b)
  BY <1>5
<1> QED
  BY <1>1, <1>2, <1>6

LEMMA ReadEachReads ==
  ASSUME NEW W, NEW b \in Seq(Byte), NEW n \in Nat, NEW one,
         \A c \in Shorter(b) : \A k \in 0 .. n - 1 : one[<<c, k>>] \in Reads(AtMost(1, W), c)
  PROVE  ReadEach(one, b, n) \in Reads(AtMost(n, W), b)
<1>1. PICK r : /\ Steps(one, b, n, r) /\ ReadEach(one, b, n) = r[n]
               /\ \A k \in 0 .. n : r[k] \in Reads(AtMost(k, W), b)
  BY ReadEachSteps
<1>2. n \in 0 .. n
  OBVIOUS
<1> QED
  BY <1>1, <1>2

(* and they depend on nothing but what each gives on what is left.         *)
LEMMA ReadEachAlike ==
  ASSUME NEW W, NEW b \in Seq(Byte), NEW n \in Nat, NEW one,
         \A c \in Shorter(b) : \A k \in 0 .. n - 1 : one[<<c, k>>] \in Reads(AtMost(1, W), c),
         NEW two, \A c \in Shorter(b) : \A k \in 0 .. n - 1 : one[<<c, k>>] = two[<<c, k>>]
  PROVE  ReadEach(one, b, n) = ReadEach(two, b, n)
<1>1. PICK r : /\ Steps(one, b, n, r) /\ ReadEach(one, b, n) = r[n]
               /\ \A k \in 0 .. n : r[k] \in Reads(AtMost(k, W), b)
  BY ReadEachSteps
<1>2. Steps(two, b, n, r)
  <2>1. ASSUME NEW k \in 1 .. n
        PROVE  one[<<r[k - 1].rest, k - 1>>] = two[<<r[k - 1].rest, k - 1>>]
    <3>1. k - 1 \in 0 .. n /\ k - 1 \in 0 .. n - 1
      OBVIOUS
    <3>2. r[k - 1].rest \in Shorter(b)
      BY <1>1, <3>1 DEF Reads
    <3> QED
      BY <3>1, <3>2
  <2> QED
    BY <1>1, <2>1 DEF Steps
<1> QED
  BY <1>1, <1>2, ReadEachIs

(* Counts.                                                                 *)
LEMMA ReadCountReads ==
  ASSUME NEW b \in Seq(Byte)
  PROVE  /\ ReadCount(b).v \in Nat /\ ReadCount(b).rest \in Shorter(b)
         /\ b = <<>> => ReadCount(b).v = 0
         /\ b # <<>> => Len(ReadCount(b).rest) < Len(b)
<1> DEFINE r == ReadCompressed(b, IntBits)
<1>1. r \in Reads(0 .. PowerOfTwo[IntBits] - 1, b) /\ (b = <<>> => r.v = 0)
      /\ (b # <<>> => Len(r.rest) < Len(b))
  BY ReadCompressedReads, WidthsAre
<1>2. ReadCount(b) = r
  BY DEF ReadCount
<1> HIDE DEF r
<1>3. r.v \in Nat /\ r.rest \in Shorter(b)
  BY <1>1 DEF Reads
<1> QED
  BY <1>1, <1>2, <1>3

LEMMA BoundedCountIs ==
  ASSUME NEW n \in Nat, NEW max \in Nat
  PROVE  /\ BoundedCount(n, max) \in Nat /\ BoundedCount(n, max) <= n
         /\ BoundedCount(n, max) <= max /\ BoundedCount(n, max) <= MaxCollectionElements
         /\ n <= max /\ n <= MaxCollectionElements => BoundedCount(n, max) = n
<1>1. MaxCollectionElements \in Nat
  BY WidthsAssumption
<1> QED
  BY <1>1 DEF BoundedCount, Least

(* A map of the entries of a sequence: each key has the value of the last  *)
(* entry with that key.                                                    *)
LastEntry(s, i) == \A j \in DOMAIN s : j > i => s[j][1] # s[i][1]

LEMMA MapOfIs ==
  ASSUME NEW s, NEW n \in Nat, DOMAIN s = 1 .. n
  PROVE  /\ \A i \in 1 .. n : s[i][1] \in DOMAIN MapOf(s)
         /\ \A k \in DOMAIN MapOf(s) :
              \E i \in 1 .. n : LastEntry(s, i) /\ s[i][1] = k /\ MapOf(s)[k] = s[i][2]
         /\ \A i \in 1 .. n : LastEntry(s, i) => MapOf(s)[s[i][1]] = s[i][2]
<1> DEFINE K == {s[i][1] : i \in DOMAIN s}
           I(k) == {i \in DOMAIN s : s[i][1] = k}
<1>1. MapOf(s) = [k \in K |-> s[Max(I(k))][2]]
  BY DEF MapOf
<1>2. DOMAIN MapOf(s) = K /\ \A i \in 1 .. n : s[i][1] \in K
  BY <1>1
<1>3. ASSUME NEW k \in K
      PROVE  Max(I(k)) \in I(k) /\ \A j \in I(k) : j <= Max(I(k))
  <2> DEFINE J == I(k)
  <2>1. J \subseteq 1 .. n /\ J # {}
    OBVIOUS
  <2> HIDE DEF J
  <2>2. J \subseteq 0 .. n
    BY <2>1
  <2>3. PICK x \in J : \A j \in J : j <= x
    BY <2>1, <2>2, GreatestNatural
  <2>4. \A j \in J : x >= j
    BY <2>2, <2>3
  <2>5. Max(J) \in J /\ \A j \in J : Max(J) >= j
    BY <2>4 DEF Max
  <2>6. \A j \in J : j <= Max(J)
    BY <2>2, <2>5
  <2> QED
    BY <2>5, <2>6 DEF J
<1>4. ASSUME NEW k \in K
      PROVE  \E i \in 1 .. n : LastEntry(s, i) /\ s[i][1] = k /\ MapOf(s)[k] = s[i][2]
  <2> DEFINE m == Max(I(k))
  <2>1. m \in I(k) /\ \A j \in I(k) : j <= m
    BY <1>3
  <2>2. MapOf(s)[k] = s[m][2]
    BY <1>1
  <2> HIDE DEF m
  <2>3. m \in 1 .. n /\ s[m][1] = k
    BY <2>1
  <2>4. LastEntry(s, m)
    <3> SUFFICES ASSUME NEW j \in DOMAIN s, j > m, s[j][1] = s[m][1] PROVE FALSE
      BY DEF LastEntry
    <3>1. j \in I(k)
      BY <2>3
    <3>2. j <= m /\ j \in Int /\ m \in Int
      BY <2>1, <2>3, <3>1
    <3> QED
      BY <3>2
  <2> QED
    BY <2>2, <2>3, <2>4
<1>5. ASSUME NEW i \in 1 .. n, LastEntry(s, i) PROVE MapOf(s)[s[i][1]] = s[i][2]
  <2> DEFINE k == s[i][1]
  <2>1. k \in K
    OBVIOUS
  <2>2. PICK m \in 1 .. n : LastEntry(s, m) /\ s[m][1] = k /\ MapOf(s)[k] = s[m][2]
    BY <1>4, <2>1
  <2>3. ~ (m > i) /\ ~ (i > m)
    BY <1>5, <2>2 DEF LastEntry
  <2>4. m = i
    BY <2>3
  <2> QED
    BY <2>2, <2>4
<1> QED
  BY <1>2, <1>4, <1>5

LEMMA MapOfFinite ==
  ASSUME NEW s, NEW n \in Nat, DOMAIN s = 1 .. n
  PROVE  /\ IsFiniteSet(DOMAIN MapOf(s)) /\ Cardinality(DOMAIN MapOf(s)) <= n
         /\ \A k \in DOMAIN MapOf(s) : \E i \in 1 .. n : k = s[i][1] /\ MapOf(s)[k] = s[i][2]
<1> DEFINE T == {s[i][1] : i \in 1 .. n}
           f == [i \in 1 .. n |-> s[i][1]]
<1>1. \A i \in 1 .. n : s[i][1] \in DOMAIN MapOf(s)
  BY MapOfIs
<1>2. \A k \in DOMAIN MapOf(s) :
        \E i \in 1 .. n : LastEntry(s, i) /\ s[i][1] = k /\ MapOf(s)[k] = s[i][2]
  BY MapOfIs
<1>2a. DOMAIN MapOf(s) = T
  BY <1>1, <1>2
<1>3. f \in Surjection(1 .. n, T)
  BY DEF Surjection
<1>4. IsFiniteSet(1 .. n) /\ Cardinality(1 .. n) = n
  <2>1. 1 \in Int /\ n \in Int
    OBVIOUS
  <2>2. IsFiniteSet(1 .. n) /\ Cardinality(1 .. n) = IF 1 > n THEN 0 ELSE n - 1 + 1
    BY <2>1, FS_Interval
  <2> QED
    BY <2>2
<1>5. IsFiniteSet(T) /\ Cardinality(T) <= n
  <2> HIDE DEF f, T
  <2> QED
    BY <1>3, <1>4, FS_Surjection
<1> QED
  BY <1>2, <1>2a, <1>5

LEMMA MapOfType ==
  ASSUME NEW K, NEW V, NEW s \in Seq(K \X V)
  PROVE  /\ DOMAIN MapOf(s) \subseteq K /\ Range(MapOf(s)) \subseteq V
         /\ IsFiniteSet(DOMAIN MapOf(s)) /\ Cardinality(DOMAIN MapOf(s)) <= Len(s)
<1>1. Len(s) \in Nat /\ DOMAIN s = 1 .. Len(s) /\ \A i \in 1 .. Len(s) : s[i] \in K \X V
  BY LenProperties, ElementOfSeq
<1>2. IsFiniteSet(DOMAIN MapOf(s)) /\ Cardinality(DOMAIN MapOf(s)) <= Len(s)
  BY <1>1, MapOfFinite
<1>3. \A k \in DOMAIN MapOf(s) :
        \E i \in 1 .. Len(s) : k = s[i][1] /\ MapOf(s)[k] = s[i][2]
  BY <1>1, MapOfFinite
<1>4. \A i \in 1 .. Len(s) : s[i][1] \in K /\ s[i][2] \in V
  BY <1>1
<1> QED
  BY <1>2, <1>3, <1>4 DEF Range

-----------------------------------------------------------------------------

(* Values that are made of good values are good.                           *)
Elementwise(type, S) == type = "[]interface{}" \/ \A x \in S : x[1] = ElementType(type)

LEMMA ArrayParts ==
  ASSUME NEW type, NEW s, type \in ArrayTypes
  PROVE  Parts(<<type, s>>) = Range(s)
  BY DEF Parts, ArrayTypes

LEMMA ArrayGood ==
  ASSUME NEW type \in ArrayTypes, NEW W, \A x \in W : Good(x), Elementwise(type, W),
         NEW s \in AtMost(MaxCollectionElements, W)
  PROVE  Good(<<type, s>>)
<1>1. s \in Seq(W) /\ Len(s) <= MaxCollectionElements
  BY DEF AtMost
<1>2. Len(s) \in Nat /\ DOMAIN s = 1 .. Len(s) /\ \A i \in 1 .. Len(s) : s[i] \in W
  BY <1>1, LenProperties, ElementOfSeq
<1>3. s = [i \in 1 .. Len(s) |-> s[i]]
  BY <1>1
<1>4. s \in Seq(Range(s))
  <2>1. \A i \in 1 .. Len(s) : s[i] \in Range(s)
    BY <1>2 DEF Range
  <2> QED
    BY <1>2, <1>3, <2>1, SeqDef
<1>5. Range(s) \subseteq W
  BY <1>2 DEF Range
<1> DEFINE v == <<type, s>>
<1>6. v[1] = type /\ v[2] = s
  OBVIOUS
<1>7. type \notin { "nil", "bool", "byte", "int16", "int32", "int64", "float32", "float64",
                    "string", "custom", "map", "unhashable", "message", "response" }
  BY DEF ArrayTypes
<1> HIDE DEF v
<1>8. WellFormed(v)
  <2>1. type # "[]interface{}" => \A i \in DOMAIN s : s[i][1] = ElementType(type)
    BY <1>2 DEF Elementwise
  <2> QED
    BY <1>1, <1>4, <1>6, <1>7, <2>1 DEF WellFormed, Types
<1>9. Parts(v) = Range(s)
  BY ArrayParts DEF v
<1> QED
  BY <1>5, <1>8, <1>9, GoodIs DEF v

LEMMA UnhashableGood ==
  ASSUME NEW i \in Nat, NEW t
  PROVE  Good(<<"unhashable", <<i, t>>>>)
<1>1. Parts(<<"unhashable", <<i, t>>>>) = {}
  BY DEF Parts, ArrayTypes
<1>2. WellFormed(<<"unhashable", <<i, t>>>>)
  BY DEF WellFormed, Types, ArrayTypes
<1> QED
  BY <1>1, <1>2, GoodIs

LEMMA MapGood ==
  ASSUME NEW m, IsFiniteSet(DOMAIN m), Cardinality(DOMAIN m) <= MaxCollectionElements,
         \A k \in DOMAIN m : Good(k) /\ (Comparable(k) \/ k[1] = "unhashable"),
         \A x \in Range(m) : Good(x)
  PROVE  Good(<<"map", m>>)
<1> DEFINE v == <<"map", m>>
<1>1. v[1] = "map" /\ v[2] = m
  OBVIOUS
<1> HIDE DEF v
<1>2. WellFormed(v)
  BY <1>1 DEF WellFormed, Types, ArrayTypes
<1>3. Parts(v) = DOMAIN m \cup Range(m)
  BY <1>1 DEF Parts, ArrayTypes
<1> QED
  BY <1>2, <1>3, GoodIs DEF v

LEMMA CustomGood ==
  ASSUME NEW id \in Byte, NEW data \in Seq(Byte)
  PROVE  Good(<<"custom", [id |-> id, data |-> data]>>)
<1> DEFINE v == <<"custom", [id |-> id, data |-> data]>>
<1>1. v[1] = "custom" /\ v[2].id = id /\ v[2].data = data
  OBVIOUS
<1> HIDE DEF v
<1>2. WellFormed(v) /\ Parts(v) = {}
  BY <1>1 DEF WellFormed, Types, ArrayTypes, Parts
<1> QED
  BY <1>2, GoodIs DEF v

LEMMA MessageGood ==
  ASSUME NEW code \in Byte, NEW params, DOMAIN params \subseteq Byte,
         \A x \in Range(params) : Good(x)
  PROVE  Good(<<"message", [code |-> code, params |-> params]>>)
<1> DEFINE v == <<"message", [code |-> code, params |-> params]>>
<1>1. v[1] = "message" /\ v[2].code = code /\ v[2].params = params
  OBVIOUS
<1> HIDE DEF v
<1>2. WellFormed(v) /\ Parts(v) = Range(params)
  BY <1>1 DEF WellFormed, Types, ArrayTypes, Parts
<1> QED
  BY <1>2, GoodIs DEF v

LEMMA ResponseGood ==
  ASSUME NEW code \in Byte, NEW returnCode \in SignedRange(16), NEW debug,
         Good(<<"string", debug>>),
         NEW params, DOMAIN params \subseteq Byte, \A x \in Range(params) : Good(x)
  PROVE  Good(<<"response", [code |-> code, returnCode |-> returnCode, debug |-> debug,
                             params |-> params]>>)
<1> DEFINE v == <<"response", [code |-> code, returnCode |-> returnCode, debug |-> debug,
                               params |-> params]>>
<1>1. /\ v[1] = "response" /\ v[2].code = code /\ v[2].params = params
      /\ v[2].returnCode = returnCode /\ v[2].debug = debug
  OBVIOUS
<1> HIDE DEF v
<1>2. WellFormed(v) /\ Parts(v) = {<<"string", debug>>} \cup Range(params)
  BY <1>1 DEF WellFormed, Types, ArrayTypes, Parts
<1> QED
  BY <1>2, GoodIs DEF v

(* What d is asked while b is read: shorter buffers, and any code.  It is  *)
(* sound if it reads them right, and an array has elements of its type.    *)
Inputs(b) == {x \in Seq(Byte) \X Byte : Len(x[1]) < Len(b)}

Typed(r, tc) == Elementwise(ArrayType(tc), {r.v})

Sound(d, b) == \A x \in Inputs(b) : Result(d[x], x[1]) /\ Typed(d[x], x[2])

Alike(d, e, b) == \A x \in Inputs(b) : e[x] = d[x]

(* The values it gives.                                                    *)
Values1(d, b, tc) == {d[<<c, tc>>].v : c \in {q \in Seq(Byte) : Len(q) < Len(b)}}

Outputs(d, b) == {d[x].v : x \in Inputs(b)}

LEMMA SoundCall ==
  ASSUME NEW b, NEW d, Sound(d, b), NEW e, Alike(d, e, b),
         NEW c \in Seq(Byte), Len(c) < Len(b), NEW tc \in Byte
  PROVE  /\ e[<<c, tc>>] = d[<<c, tc>>] /\ Good(d[<<c, tc>>].v)
         /\ d[<<c, tc>>] \in Reads(Outputs(d, b), c)
         /\ d[<<c, tc>>] \in Reads(Values1(d, b, tc), c)
         /\ d[<<c, tc>>].rest \in Shorter(c)
<1> DEFINE x == <<c, tc>>
<1>1. x \in Inputs(b) /\ x[1] = c /\ x[2] = tc
  BY DEF Inputs
<1>2. c \in {q \in Seq(Byte) : Len(q) < Len(b)}
  OBVIOUS
<1>3. d[x].v \in Outputs(d, b)
  BY <1>1 DEF Outputs
<1>4. d[x].v \in Values1(d, b, tc)
  BY <1>2 DEF Values1
<1>5. Result(d[x], c) /\ e[x] = d[x]
  BY <1>1 DEF Sound, Alike
<1> HIDE DEF x
<1>6. Good(d[x].v) /\ d[x] \in Reads({d[x].v}, c)
  BY <1>5 DEF Result
<1>7. \A W : d[x].v \in W => d[x] \in Reads(W, c)
  BY <1>6 DEF Reads
<1>8. d[x].rest \in Shorter(c)
  BY <1>6 DEF Reads
<1> QED
  BY <1>3, <1>4, <1>5, <1>6, <1>7, <1>8 DEF x

LEMMA OutputsGood ==
  ASSUME NEW b, NEW d, Sound(d, b)
  PROVE  /\ \A v \in Outputs(d, b) : Good(v)
         /\ \A tc \in Byte : /\ Values1(d, b, tc) \subseteq Outputs(d, b)
                             /\ Elementwise(ArrayType(tc), Values1(d, b, tc))
<1>1. \A v \in Outputs(d, b) : Good(v)
  BY DEF Outputs, Sound, Result
<1>2. ASSUME NEW tc \in Byte, NEW c \in Seq(Byte), Len(c) < Len(b)
      PROVE  /\ d[<<c, tc>>].v \in Outputs(d, b)
             /\ Typed(d[<<c, tc>>], tc)
  <2>1. <<c, tc>> \in Inputs(b)
    BY <1>2 DEF Inputs
  <2>2. d[<<c, tc>>].v \in Outputs(d, b)
    BY <2>1 DEF Outputs
  <2>3. <<c, tc>>[2] = tc
    OBVIOUS
  <2>4. Typed(d[<<c, tc>>], <<c, tc>>[2])
    BY <2>1 DEF Sound
  <2> QED
    BY <2>2, <2>3, <2>4
<1>3. \A tc \in Byte : Values1(d, b, tc) \subseteq Outputs(d, b)
  BY <1>2 DEF Values1
<1>4. \A tc \in Byte : Elementwise(ArrayType(tc), Values1(d, b, tc))
  BY <1>2 DEF Values1, Typed, Elementwise
<1> QED
  BY <1>1, <1>3, <1>4

LEMMA OneReads ==
  ASSUME NEW W, NEW q, NEW r \in Reads(W, q)
  PROVE  One(r) \in Reads(AtMost(1, W), q)
<1>1. r.v \in W /\ r.rest \in Shorter(q)
  BY DEF Reads
<1>2. \A w \in W : <<w>> \in Seq(W) /\ Len(<<w>>) = 1
  OBVIOUS
<1>3. <<r.v>> \in AtMost(1, W)
  BY <1>1, <1>2 DEF AtMost
<1> QED
  BY <1>1, <1>3 DEF One, Reads, Read

Each(one, b, n, W) ==
  \A c \in Shorter(b) : \A k \in 0 .. n - 1 : one[<<c, k>>] \in Reads(AtMost(1, W), c)

Same(one, two, b, n) ==
  \A c \in Shorter(b) : \A k \in 0 .. n - 1 : one[<<c, k>>] = two[<<c, k>>]

LEMMA ReadEachBoth ==
  ASSUME NEW W, NEW b \in Seq(Byte), NEW n \in Nat, NEW one, NEW two,
         Each(one, b, n, W), Same(one, two, b, n)
  PROVE  /\ ReadEach(one, b, n) \in Reads(AtMost(n, W), b)
         /\ ReadEach(two, b, n) = ReadEach(one, b, n)
<1>1. \A c \in Shorter(b) : \A k \in 0 .. n - 1 : one[<<c, k>>] \in Reads(AtMost(1, W), c)
  BY DEF Each
<1>2. \A c \in Shorter(b) : \A k \in 0 .. n - 1 : one[<<c, k>>] = two[<<c, k>>]
  BY DEF Same
<1> QED
  BY <1>1, <1>2, ReadEachReads, ReadEachAlike

LEMMA ElementsRead ==
  ASSUME NEW b \in Seq(Byte), NEW d, Sound(d, b), NEW e, Alike(d, e, b), NEW tc \in Byte,
         NEW c \in Shorter(b), NEW n \in Nat, n # 0 => Len(c) < Len(b)
  PROVE  /\ Elements(d, c, tc, n) \in Reads(AtMost(n, Values1(d, b, tc)), c)
         /\ Elements(e, c, tc, n) = Elements(d, c, tc, n)
<1> DEFINE one == [x \in Seq(Byte) \X Nat |-> One(d[<<x[1], tc>>])]
           two == [x \in Seq(Byte) \X Nat |-> One(e[<<x[1], tc>>])]
           W == Values1(d, b, tc)
<1>1. c \in Seq(Byte)
  BY DEF Shorter
<1>2. ASSUME NEW q \in Shorter(c), NEW k \in 0 .. n - 1
      PROVE  one[<<q, k>>] \in Reads(AtMost(1, W), q) /\ one[<<q, k>>] = two[<<q, k>>]
  <2>1. q \in Seq(Byte) /\ Len(q) < Len(b)
    <3>1. n # 0
      OBVIOUS
    <3>2. q \in Seq(Byte) /\ Len(q) <= Len(c) /\ Len(c) < Len(b)
      BY <3>1 DEF Shorter
    <3>3. Len(q) \in Nat /\ Len(c) \in Nat /\ Len(b) \in Nat
      BY <1>1, <3>2, LenProperties
    <3> QED
      BY <3>2, <3>3
  <2>2. <<q, k>> \in Seq(Byte) \X Nat /\ <<q, k>>[1] = q
    BY <2>1
  <2>3. one[<<q, k>>] = One(d[<<q, tc>>]) /\ two[<<q, k>>] = One(e[<<q, tc>>])
    BY <2>2
  <2> HIDE DEF one, two, W
  <2>4. d[<<q, tc>>] \in Reads(W, q) /\ e[<<q, tc>>] = d[<<q, tc>>]
    BY <2>1, SoundCall DEF W
  <2> QED
    BY <2>3, <2>4, OneReads
<1>3. Elements(d, c, tc, n) = ReadEach(one, c, n) /\ Elements(e, c, tc, n) = ReadEach(two, c, n)
  BY DEF Elements
<1> HIDE DEF one, two, W
<1>4. Each(one, c, n, W) /\ Same(one, two, c, n)
  BY <1>2 DEF Each, Same
<1>5. /\ ReadEach(one, c, n) \in Reads(AtMost(n, W), c)
      /\ ReadEach(two, c, n) = ReadEach(one, c, n)
  BY <1>1, <1>4, ReadEachBoth
<1> QED
  BY <1>3, <1>5 DEF W

(* A count and what is behind it.                                          *)
LEMMA Counted ==
  ASSUME NEW b \in Seq(Byte)
  PROVE  LET c == ReadCount(b)
             n == BoundedCount(c.v, MaxCollectionElements)
         IN /\ c.v \in Nat /\ c.rest \in Shorter(b) /\ c.rest \in Seq(Byte)
            /\ n \in Nat /\ n <= MaxCollectionElements
            /\ c.v # 0 => Len(c.rest) < Len(b)
            /\ n # 0 => Len(c.rest) < Len(b)
            /\ c.rest # <<>> => Len(c.rest) < Len(b)
<1> DEFINE c == ReadCount(b)
           n == BoundedCount(c.v, MaxCollectionElements)
<1>1. /\ c.v \in Nat /\ c.rest \in Shorter(b) /\ (b = <<>> => c.v = 0)
      /\ (b # <<>> => Len(c.rest) < Len(b))
  BY ReadCountReads
<1>2. MaxCollectionElements \in Nat
  BY WidthsAssumption
<1>3. n \in Nat /\ n <= c.v /\ n <= MaxCollectionElements
  BY <1>1, <1>2, BoundedCountIs
<1> HIDE DEF c, n
<1>4. c.rest \in Seq(Byte) /\ Len(c.rest) <= Len(b)
  BY <1>1 DEF Shorter
<1>5. b = <<>> => c.rest = <<>>
  <2> SUFFICES ASSUME b = <<>> PROVE c.rest = <<>>
    OBVIOUS
  <2>1. Len(c.rest) \in Nat /\ Len(b) = 0
    BY <1>4, LenProperties, EmptySeq
  <2> QED
    BY <1>4, <2>1, EmptySeq
<1>6. n # 0 => c.v # 0
  BY <1>1, <1>3
<1> QED
  BY <1>1, <1>3, <1>4, <1>5, <1>6 DEF c, n

LEMMA AsGood ==
  ASSUME NEW b, NEW type, NEW r, r.rest \in Shorter(b), Good(<<type, r.v>>)
  PROVE  Result(As(type, r), b)
<1>1. As(type, r) = [v |-> <<type, r.v>>, rest |-> r.rest]
  BY DEF As, Read
<1> QED
  BY <1>1 DEF Result, Reads

(* An array of what was read.                                              *)
LEMMA ArrayResult ==
  ASSUME NEW b \in Seq(Byte), NEW c \in Shorter(b), NEW type \in ArrayTypes,
         NEW W, \A x \in W : Good(x), Elementwise(type, W),
         NEW n \in Nat, n <= MaxCollectionElements, NEW r \in Reads(AtMost(n, W), c)
  PROVE  Result(As(type, r), b)
<1>1. r.v \in AtMost(n, W) /\ r.rest \in Shorter(c)
  BY DEF Reads
<1>2. r.rest \in Shorter(b)
  BY <1>1, ShorterIs
<1>3. r.v \in AtMost(MaxCollectionElements, W)
  <2>1. r.v \in Seq(W) /\ Len(r.v) <= n
    BY <1>1 DEF AtMost
  <2>2. Len(r.v) \in Nat /\ MaxCollectionElements \in Nat
    BY <2>1, LenProperties, WidthsAssumption
  <2>3. Len(r.v) <= MaxCollectionElements
    BY <2>1, <2>2
  <2> QED
    BY <2>1, <2>3 DEF AtMost
<1>4. Good(<<type, r.v>>)
  BY <1>3, ArrayGood
<1> QED
  BY <1>2, <1>4, AsGood

LEMMA NestedArrayReads ==
  ASSUME NEW b \in Seq(Byte), NEW d, Sound(d, b), NEW e, Alike(d, e, b)
  PROVE  Result(NestedArray(d, b), b) /\ NestedArray(e, b) = NestedArray(d, b)
<1> DEFINE c == ReadCount(b)
           n == BoundedCount(c.v, MaxCollectionElements)
           t == Tail(c.rest)
           tc == c.rest[1]
<1>1. /\ c.rest \in Shorter(b) /\ c.rest \in Seq(Byte)
      /\ n \in Nat /\ n <= MaxCollectionElements
      /\ c.rest # <<>> => Len(c.rest) < Len(b)
  BY Counted
<1>2. /\ NestedArray(d, b) = IF c.rest = <<>> THEN Read(Nil, <<>>)
                              ELSE As("[]interface{}", Elements(d, t, tc, n))
      /\ NestedArray(e, b) = IF c.rest = <<>> THEN Read(Nil, <<>>)
                              ELSE As("[]interface{}", Elements(e, t, tc, n))
  BY DEF NestedArray
<1> HIDE DEF c, n
<1>3. CASE c.rest = <<>>
  <2>1. <<>> \in Shorter(b) /\ Good(Nil)
    BY ShorterIs, PlainGood
  <2>2. Result(Read(Nil, <<>>), b)
    BY <2>1, ReadResult
  <2> QED
    BY <1>2, <1>3, <2>2
<1>4. CASE c.rest # <<>>
  <2>1. tc \in Byte /\ t \in Seq(Byte) /\ Len(t) < Len(c.rest)
    BY <1>1, <1>4, FirstOfSeq
  <2>2. Len(t) < Len(b) /\ t \in Shorter(b)
    <3>1. Len(t) \in Nat /\ Len(b) \in Nat /\ Len(c.rest) \in Nat
      BY <1>1, <2>1, LenProperties
    <3> QED
      BY <1>1, <1>4, <2>1, <3>1 DEF Shorter
  <2> HIDE DEF t, tc
  <2> DEFINE W == Values1(d, b, tc)
             x == Elements(d, t, tc, n)
  <2>3. x \in Reads(AtMost(n, W), t) /\ Elements(e, t, tc, n) = x
    BY <1>1, <2>1, <2>2, ElementsRead
  <2>4. \A v \in W : Good(v)
    BY <2>1, OutputsGood
  <2>5. "[]interface{}" \in ArrayTypes /\ Elementwise("[]interface{}", W)
    BY DEF ArrayTypes, Elementwise
  <2> HIDE DEF W, x
  <2>6. Result(As("[]interface{}", x), b)
    BY <1>1, <2>2, <2>3, <2>4, <2>5, ArrayResult
  <2> QED
    BY <1>2, <1>4, <2>3, <2>6 DEF x
<1> QED
  BY <1>3, <1>4

Bools == {<<"bool", TRUE>>, <<"bool", FALSE>>}

LEMMA BoolsGood == \A w \in Bools : Good(w) /\ w[1] = "bool"
<1>1. <<"bool", TRUE>>[1] = "bool" /\ <<"bool", FALSE>>[1] = "bool"
  BY Zenon
<1>2. ASSUME NEW w \in Bools PROVE Good(w) /\ w[1] = "bool"
  <2>1. w = <<"bool", TRUE>> \/ w = <<"bool", FALSE>>
    BY Zenon DEF Bools
  <2> QED
    BY <1>1, <2>1, BoolGood, Zenon
<1> QED
  BY <1>2

LEMMA PackedBoolsRead ==
  ASSUME NEW b \in Seq(Byte), NEW n \in Nat
  PROVE  PackedBools(b, n) \in Reads(AtMost(n, Bools), b)
<1> DEFINE m == Least((n + 7) \div 8, Len(b))
           packed == Take(b, m)
           On(i) == (i - 1) \div 8 < Len(packed)
                    /\ (packed[(i - 1) \div 8 + 1] \div PowerOfTwo[(i - 1) % 8]) % 2 = 1
           s == [i \in 1 .. n |-> <<"bool", On(i)>>]
           left == Drop(b, Len(packed))
<1>1. PackedBools(b, n) = Read(s, left)
  BY DEF PackedBools
<1>2. left \in Shorter(b)
  <2>1. Len(b) \in Nat
    BY LenProperties
  <2>2. m \in Nat /\ m <= Len(b)
    <3>1. (n + 7) \div 8 \in Nat
      OBVIOUS
    <3> QED
      BY <2>1, <3>1 DEF Least
  <2> HIDE DEF m
  <2>3. packed \in Seq(Byte)
    BY <2>2, TakeDrop
  <2> HIDE DEF packed
  <2>4. Len(packed) \in Nat
    BY <2>3, LenProperties
  <2> QED
    BY <2>4, TakeDrop
<1>3. \A i \in 1 .. n : s[i] \in Bools
  <2> SUFFICES ASSUME NEW i \in 1 .. n PROVE <<"bool", On(i)>> \in Bools
    OBVIOUS
  <2> HIDE DEF m, packed
  <2>1. On(i) => <<"bool", On(i)>> = <<"bool", TRUE>>
    BY Zenon
  <2>2. ~ On(i) => <<"bool", On(i)>> = <<"bool", FALSE>>
    BY Zenon
  <2> HIDE DEF On
  <2> QED
    BY <2>1, <2>2 DEF Bools
<1>4. s \in AtMost(n, Bools)
  <2>1. s = [i \in 1 .. n |-> s[i]]
    OBVIOUS
  <2> HIDE DEF s
  <2>2. s \in [1 .. n -> Bools]
    BY <1>3, <2>1
  <2>3. s \in Seq(Bools) /\ Len(s) = n
    BY <2>2, SeqDef
  <2> QED
    BY <2>3 DEF AtMost
<1> HIDE DEF s, left
<1> QED
  BY <1>1, <1>2, <1>4 DEF Reads, Read

LEMMA ArrayTypesAre ==
  ASSUME NEW tc \in Byte
  PROVE  ArrayType(tc) \in ArrayTypes
<1>1. CASE tc \in {2, 3, 4, 5, 6, 7, 9, 10}
  BY <1>1, ArrayTypeIs DEF ArrayTypes
<1>2. CASE tc \notin {2, 3, 4, 5, 6, 7, 9, 10}
  BY <1>2, ArrayTypeIs DEF ArrayTypes
<1> QED
  BY <1>1, <1>2

LEMMA FixedSizes ==
  /\ DOMAIN FixedSize = {3, 4, 5, 6}
  /\ \A tc \in {3, 4, 5, 6} : FixedSize[tc] \in Nat \ {0}
  /\ FixedSize[3] = 1 /\ FixedSize[4] = 2 /\ FixedSize[5] = 4 /\ FixedSize[6] = 8
<1>1. DOMAIN FixedSize = {3, 4, 5, 6}
  BY Codes DEF FixedSize
<1>2. FixedSize[3] = 1 /\ FixedSize[4] = 2 /\ FixedSize[5] = 4 /\ FixedSize[6] = 8
  BY Codes DEF FixedSize
<1> QED
  BY <1>1, <1>2

LEMMA TypedArrayReads ==
  ASSUME NEW b \in Seq(Byte), NEW d, Sound(d, b), NEW e, Alike(d, e, b), NEW tc \in Byte
  PROVE  Result(TypedArray(d, b, tc), b) /\ TypedArray(e, b, tc) = TypedArray(d, b, tc)
<1> DEFINE c == ReadCount(b)
           n == BoundedCount(c.v, MaxCollectionElements)
           m == IF tc \in DOMAIN FixedSize
                THEN BoundedCount(n, Len(c.rest) \div FixedSize[tc]) ELSE n
           x == Elements(d, c.rest, tc, m)
           type == ArrayType(tc)
<1>1. /\ c.rest \in Shorter(b) /\ c.rest \in Seq(Byte)
      /\ n \in Nat /\ n <= MaxCollectionElements
      /\ n # 0 => Len(c.rest) < Len(b)
  BY Counted
<1>2. m \in Nat /\ m <= n
  <2> DEFINE max == Len(c.rest) \div FixedSize[tc]
  <2>1. CASE tc \in DOMAIN FixedSize
    <3>1. max \in Nat
      <4>1. Len(c.rest) \in Nat /\ FixedSize[tc] \in Nat \ {0}
        BY <1>1, <2>1, FixedSizes, LenProperties
      <4> QED
        BY <4>1
    <3> HIDE DEF max, n
    <3>2. BoundedCount(n, max) \in Nat /\ BoundedCount(n, max) <= n
      BY <1>1, <3>1, BoundedCountIs
    <3> QED
      BY <2>1, <3>2 DEF max
  <2>2. CASE tc \notin DOMAIN FixedSize
    <3> HIDE DEF n
    <3> QED
      BY <1>1, <2>2
  <2> QED
    BY <2>1, <2>2
<1>3. /\ TypedArray(d, b, tc)
           = As(type, IF tc = 2 THEN PackedBools(c.rest, n) ELSE x)
      /\ TypedArray(e, b, tc)
           = As(type, IF tc = 2 THEN PackedBools(c.rest, n) ELSE Elements(e, c.rest, tc, m))
  BY Codes DEF TypedArray
<1> HIDE DEF c, n, m, type
<1>4. type \in ArrayTypes
  BY ArrayTypesAre DEF type
<1>5. CASE tc = 2
  <2>1. PackedBools(c.rest, n) \in Reads(AtMost(n, Bools), c.rest)
    BY <1>1, PackedBoolsRead
  <2>2. \A w \in Bools : Good(w) /\ w[1] = "bool"
    BY BoolsGood
  <2>3. Elementwise(type, Bools)
    <3>1. type = "[]bool" /\ ElementType(type) = "bool"
      BY <1>5, ArrayTypeIs DEF type
    <3> QED
      BY <2>2, <3>1 DEF Elementwise
  <2>4. Result(As(type, PackedBools(c.rest, n)), b)
    BY <1>1, <1>4, <2>1, <2>2, <2>3, ArrayResult
  <2> QED
    BY <1>3, <1>5, <2>4
<1>6. CASE tc # 2
  <2> DEFINE W == Values1(d, b, tc)
  <2>1. m # 0 => Len(c.rest) < Len(b)
    BY <1>1, <1>2
  <2>2. x \in Reads(AtMost(m, W), c.rest) /\ Elements(e, c.rest, tc, m) = x
    BY <1>1, <1>2, <2>1, ElementsRead
  <2>3. (\A w \in W : Good(w)) /\ Elementwise(type, W)
    BY OutputsGood DEF type
  <2>4. m <= MaxCollectionElements
    BY <1>1, <1>2, WidthsAssumption
  <2> HIDE DEF W, x
  <2>5. Result(As(type, x), b)
    BY <1>1, <1>2, <1>4, <2>2, <2>3, <2>4, ArrayResult
  <2> QED
    BY <1>3, <1>6, <2>2, <2>5
<1> QED
  BY <1>5, <1>6

LEMMA ShorterThan ==
  ASSUME NEW b \in Seq(Byte), NEW c \in Shorter(b), NEW q \in Shorter(c)
  PROVE  q \in Seq(Byte) /\ q \in Shorter(b) /\ (Len(c) < Len(b) => Len(q) < Len(b))
<1>1. c \in Seq(Byte) /\ q \in Seq(Byte) /\ Len(q) <= Len(c) /\ Len(c) <= Len(b)
  BY DEF Shorter
<1>2. Len(c) \in Nat /\ Len(q) \in Nat /\ Len(b) \in Nat
  BY <1>1, LenProperties
<1> QED
  BY <1>1, <1>2 DEF Shorter

LEMMA ObjectReads ==
  ASSUME NEW b, NEW d, Sound(d, b), NEW e, Alike(d, e, b),
         NEW q \in Seq(Byte), Len(q) < Len(b), Len(b) \in Nat
  PROVE  /\ Object(d, q) \in Reads(AtMost(1, Outputs(d, b) \cup {Nil}), q)
         /\ Object(e, q) = Object(d, q)
<1> DEFINE W == Outputs(d, b) \cup {Nil}
<1>1. CASE q = <<>>
  <2>1. Object(d, q) = One(Read(Nil, q)) /\ Object(e, q) = One(Read(Nil, q))
    BY <1>1 DEF Object
  <2>2. Nil \in W /\ q \in Shorter(q)
    BY ShorterIs
  <2> HIDE DEF W
  <2>3. Read(Nil, q) \in Reads(W, q)
    BY <2>2 DEF Reads, Read
  <2>4. One(Read(Nil, q)) \in Reads(AtMost(1, W), q)
    BY <2>3, OneReads
  <2> QED
    BY <2>1, <2>4 DEF W
<1>2. CASE q # <<>>
  <2> DEFINE t == Tail(q)
             tc == q[1]
             x == d[<<t, tc>>]
             y == e[<<t, tc>>]
  <2>1. Object(d, q) = One(x) /\ Object(e, q) = One(y)
    BY <1>2 DEF Object
  <2>2. tc \in Byte /\ t \in Seq(Byte) /\ t \in Shorter(q) /\ Len(t) < Len(b)
    <3>1. tc \in Byte /\ t \in Seq(Byte) /\ Len(t) < Len(q)
      BY <1>2, FirstOfSeq
    <3>2. Len(q) \in Nat /\ Len(t) \in Nat
      BY <3>1, LenProperties
    <3> QED
      BY <3>1, <3>2 DEF Shorter
  <2> HIDE DEF t, tc
  <2>3. x \in Reads(Outputs(d, b), t) /\ y = x
    BY <2>2, SoundCall
  <2> HIDE DEF x, y
  <2>4. x \in Reads(W, q)
    <3>1. x.v \in W /\ x.rest \in Shorter(t) /\ x = [v |-> x.v, rest |-> x.rest]
      BY <2>3 DEF Reads
    <3>2. x.rest \in Shorter(q)
      BY <2>2, <3>1, ShorterIs
    <3> HIDE DEF W
    <3> QED
      BY <3>1, <3>2 DEF Reads
  <2> HIDE DEF W
  <2>5. One(x) \in Reads(AtMost(1, W), q)
    BY <2>4, OneReads
  <2> QED
    BY <2>1, <2>3, <2>5 DEF W
<1> QED
  BY <1>1, <1>2

LEMMA ObjectArrayReads ==
  ASSUME NEW b \in Seq(Byte), NEW d, Sound(d, b), NEW e, Alike(d, e, b)
  PROVE  Result(ObjectArray(d, b), b) /\ ObjectArray(e, b) = ObjectArray(d, b)
<1> DEFINE c == ReadCount(b)
           n == BoundedCount(c.v, MaxCollectionElements)
           one == [x \in Seq(Byte) \X Nat |-> Object(d, x[1])]
           two == [x \in Seq(Byte) \X Nat |-> Object(e, x[1])]
           W == Outputs(d, b) \cup {Nil}
           r == ReadEach(one, c.rest, n)
<1>1. /\ c.rest \in Shorter(b) /\ c.rest \in Seq(Byte)
      /\ n \in Nat /\ n <= MaxCollectionElements
      /\ n # 0 => Len(c.rest) < Len(b)
  BY Counted
<1>2. /\ ObjectArray(d, b) = As("[]interface{}", r)
      /\ ObjectArray(e, b) = As("[]interface{}", ReadEach(two, c.rest, n))
  BY DEF ObjectArray
<1> HIDE DEF c, n
<1>3. ASSUME NEW q \in Shorter(c.rest), NEW k \in 0 .. n - 1
      PROVE  one[<<q, k>>] \in Reads(AtMost(1, W), q) /\ one[<<q, k>>] = two[<<q, k>>]
  <2>1. n # 0
    BY <1>1
  <2>2. q \in Seq(Byte) /\ Len(q) < Len(b) /\ Len(b) \in Nat
    BY <1>1, <2>1, ShorterThan, LenProperties
  <2>3. <<q, k>> \in Seq(Byte) \X Nat /\ <<q, k>>[1] = q
    BY <1>1, <2>2
  <2>4. one[<<q, k>>] = Object(d, q) /\ two[<<q, k>>] = Object(e, q)
    BY <2>3
  <2> HIDE DEF one, two
  <2>5. Object(d, q) \in Reads(AtMost(1, W), q) /\ Object(e, q) = Object(d, q)
    BY <2>2, ObjectReads
  <2> QED
    BY <2>4, <2>5
<1>4. \A w \in W : Good(w)
  BY OutputsGood, PlainGood
<1> HIDE DEF one, two, W
<1>5. Each(one, c.rest, n, W) /\ Same(one, two, c.rest, n)
  BY <1>3 DEF Each, Same
<1>6. r \in Reads(AtMost(n, W), c.rest) /\ ReadEach(two, c.rest, n) = r
  BY <1>1, <1>5, ReadEachBoth
<1>7. "[]interface{}" \in ArrayTypes /\ Elementwise("[]interface{}", W)
  BY DEF ArrayTypes, Elementwise
<1> HIDE DEF r
<1>8. Result(As("[]interface{}", r), b)
  BY <1>1, <1>4, <1>6, <1>7, ArrayResult
<1> QED
  BY <1>2, <1>6, <1>8 DEF r

(* The keys of a map.                                                      *)
Hashable(W) == {v \in W : Comparable(v)}
               \cup {<<"unhashable", <<x[1], x[2][1]>>>> : x \in Nat \X W}

LEMMA HashableGood ==
  ASSUME NEW W, \A v \in W : Good(v)
  PROVE  \A k \in Hashable(W) : Good(k) /\ (Comparable(k) \/ k[1] = "unhashable")
<1> SUFFICES ASSUME NEW k \in Hashable(W)
             PROVE  Good(k) /\ (Comparable(k) \/ k[1] = "unhashable")
  OBVIOUS
<1>1. CASE k \in W /\ Comparable(k)
  BY <1>1
<1>2. CASE \E x \in Nat \X W : k = <<"unhashable", <<x[1], x[2][1]>>>>
  <2>1. PICK x \in Nat \X W : k = <<"unhashable", <<x[1], x[2][1]>>>>
    BY <1>2
  <2>2. x[1] \in Nat
    OBVIOUS
  <2> QED
    BY <2>1, <2>2, UnhashableGood
<1> QED
  BY <1>1, <1>2 DEF Hashable

(* The code in front of a key or a value.                                  *)
LEMMA CodeReads ==
  ASSUME NEW q \in Seq(Byte), NEW t \in Byte
  PROVE  LET k == IF t = 0 THEN ReadByte(q) ELSE Read(t, q)
         IN k.v \in Byte /\ k.rest \in Shorter(q) /\ k.rest \in Seq(Byte)
<1> DEFINE k == IF t = 0 THEN ReadByte(q) ELSE Read(t, q)
<1>1. k \in Reads(Byte, q)
  <2>1. ReadByte(q) \in Reads(Byte, q) /\ q \in Shorter(q)
    BY ReadByteReads, ShorterIs
  <2>2. Read(t, q) \in Reads(Byte, q)
    BY <2>1 DEF Reads, Read
  <2> QED
    BY <2>1, <2>2
<1> HIDE DEF k
<1>2. k.v \in Byte /\ k.rest \in Shorter(q) /\ k.rest \in Seq(Byte)
  BY <1>1 DEF Reads, Shorter
<1> QED
  BY <1>2 DEF k

Associations(d, b) == Hashable(Outputs(d, b)) \X Outputs(d, b)

LEMMA PairReads ==
  ASSUME NEW b, NEW d, Sound(d, b), NEW e, Alike(d, e, b),
         NEW q \in Seq(Byte), Len(q) < Len(b), Len(b) \in Nat,
         NEW kt \in Byte, NEW vt \in Byte, NEW i \in Nat
  PROVE  /\ Pair(d, q, kt, vt, i)
              \in Reads(AtMost(1, Associations(d, b)), q)
         /\ Pair(e, q, kt, vt, i) = Pair(d, q, kt, vt, i)
<1> DEFINE W    == Outputs(d, b)
           K    == Hashable(W)
           k    == IF kt = 0 THEN ReadByte(q) ELSE Read(kt, q)
           t    == IF vt = 0 THEN ReadByte(k.rest) ELSE Read(vt, k.rest)
           key  == d[<<t.rest, k.v>>]
           val  == d[<<key.rest, t.v>>]
           name == IF Comparable(key.v) THEN key.v ELSE <<"unhashable", <<i, key.v[1]>>>>
           key2 == e[<<t.rest, k.v>>]
           val2 == e[<<key2.rest, t.v>>]
           name2 == IF Comparable(key2.v) THEN key2.v ELSE <<"unhashable", <<i, key2.v[1]>>>>
<1>1. /\ Pair(d, q, kt, vt, i)
           = IF q = <<>> THEN Read(<<>>, q) ELSE Read(<< <<name, val.v>> >>, val.rest)
      /\ Pair(e, q, kt, vt, i)
           = IF q = <<>> THEN Read(<<>>, q) ELSE Read(<< <<name2, val2.v>> >>, val2.rest)
  BY DEF Pair
<1>2. k.v \in Byte /\ k.rest \in Shorter(q) /\ k.rest \in Seq(Byte)
  BY CodeReads
<1> HIDE DEF k
<1>3. t.v \in Byte /\ t.rest \in Shorter(k.rest) /\ t.rest \in Seq(Byte)
  BY <1>2, CodeReads
<1> HIDE DEF t
<1>4. t.rest \in Shorter(q) /\ Len(t.rest) < Len(b)
  <2>1. t.rest \in Shorter(q)
    BY <1>2, <1>3, ShorterThan
  <2>2. Len(t.rest) <= Len(q) /\ Len(t.rest) \in Nat /\ Len(q) \in Nat
    BY <1>3, <2>1, LenProperties DEF Shorter
  <2> QED
    BY <2>1, <2>2
<1>5. key \in Reads(W, t.rest) /\ key2 = key
  BY <1>2, <1>3, <1>4, SoundCall
<1> HIDE DEF key, key2
<1>6. key.v \in W /\ key.rest \in Shorter(q) /\ key.rest \in Seq(Byte) /\ Len(key.rest) < Len(b)
  <2>1. key.v \in W /\ key.rest \in Shorter(t.rest)
    BY <1>5 DEF Reads
  <2>2. key.rest \in Shorter(q) /\ key.rest \in Seq(Byte)
    BY <1>4, <2>1, ShorterThan
  <2>3. Len(key.rest) <= Len(q) /\ Len(key.rest) \in Nat /\ Len(q) \in Nat
    BY <2>2, LenProperties DEF Shorter
  <2> QED
    BY <2>1, <2>2, <2>3
<1>7. val \in Reads(W, key.rest) /\ val2 = val
  BY <1>3, <1>5, <1>6, SoundCall
<1> HIDE DEF val, val2
<1>8. val.v \in W /\ val.rest \in Shorter(q)
  <2>1. val.v \in W /\ val.rest \in Shorter(key.rest)
    BY <1>7 DEF Reads
  <2> QED
    BY <1>6, <2>1, ShorterThan
<1>9. name \in K /\ name2 = name
  <2> HIDE DEF W
  <2>1. <<i, key.v>> \in Nat \X W /\ <<i, key.v>>[1] = i /\ <<i, key.v>>[2] = key.v
    BY <1>6
  <2>2. <<"unhashable", <<i, key.v[1]>>>> \in K
    BY <2>1 DEF Hashable
  <2> QED
    BY <1>5, <1>6, <2>2 DEF Hashable
<1> HIDE DEF K, W, name, name2
<1>10. CASE q = <<>>
  <2>1. <<>> \in AtMost(1, K \X W) /\ q \in Shorter(q)
    BY EmptySeq, ShorterIs DEF AtMost
  <2>2. Read(<<>>, q) \in Reads(AtMost(1, K \X W), q)
    BY <2>1 DEF Reads, Read
  <2> QED
    BY <1>1, <1>10, <2>2 DEF K, W, Associations
<1>11. CASE q # <<>>
  <2> DEFINE p == <<name, val.v>>
  <2>1. p \in K \X W
    BY <1>8, <1>9
  <2> HIDE DEF p
  <2>2. <<p>> \in Seq(K \X W) /\ Len(<<p>>) = 1
    BY <2>1
  <2>3. <<p>> \in AtMost(1, K \X W)
    BY <2>2 DEF AtMost
  <2>4. Read(<<p>>, val.rest) \in Reads(AtMost(1, K \X W), q)
    BY <1>8, <2>3 DEF Reads, Read
  <2> QED
    BY <1>1, <1>7, <1>9, <1>11, <2>4 DEF K, W, p, Associations
<1> QED
  BY <1>10, <1>11

LEMMA DictionaryReads ==
  ASSUME NEW b \in Seq(Byte), NEW d, Sound(d, b), NEW e, Alike(d, e, b)
  PROVE  Result(Dictionary(d, b), b) /\ Dictionary(e, b) = Dictionary(d, b)
<1> DEFINE kt == ReadByte(b)
           vt == ReadByte(kt.rest)
           c == ReadCount(vt.rest)
           n == BoundedCount(c.v, MaxCollectionElements)
           one == [x \in Seq(Byte) \X Nat |-> Pair(d, x[1], kt.v, vt.v, x[2])]
           two == [x \in Seq(Byte) \X Nat |-> Pair(e, x[1], kt.v, vt.v, x[2])]
           O == Outputs(d, b)
           W == Associations(d, b)
           r == ReadEach(one, c.rest, n)
           m == MapOf(r.v)
<1>1. /\ Dictionary(d, b) = Read(<<"map", m>>, r.rest)
      /\ Dictionary(e, b) = Read(<<"map", MapOf(ReadEach(two, c.rest, n).v)>>,
                                 ReadEach(two, c.rest, n).rest)
  BY DEF Dictionary
<1>2. kt.v \in Byte /\ kt.rest \in Shorter(b) /\ kt.rest \in Seq(Byte)
  <2>1. kt \in Reads(Byte, b)
    BY ReadByteReads
  <2> HIDE DEF kt
  <2> QED
    BY <2>1 DEF Reads, Shorter
<1> HIDE DEF kt
<1>3. vt.v \in Byte /\ vt.rest \in Shorter(kt.rest) /\ vt.rest \in Seq(Byte)
  <2>1. vt \in Reads(Byte, kt.rest)
    BY <1>2, ReadByteReads
  <2> HIDE DEF vt
  <2> QED
    BY <2>1 DEF Reads, Shorter
<1> HIDE DEF vt
<1>4. vt.rest \in Shorter(b)
  BY <1>2, <1>3, ShorterIs
<1>5. /\ c.rest \in Shorter(vt.rest) /\ c.rest \in Seq(Byte)
      /\ n \in Nat /\ n <= MaxCollectionElements
      /\ n # 0 => Len(c.rest) < Len(vt.rest)
  BY <1>3, Counted
<1> HIDE DEF c, n
<1>6. c.rest \in Shorter(b) /\ (n # 0 => Len(c.rest) < Len(b))
  <2>1. c.rest \in Shorter(b)
    BY <1>4, <1>5, ShorterIs
  <2>2. Len(vt.rest) <= Len(b) /\ Len(vt.rest) \in Nat /\ Len(b) \in Nat /\ Len(c.rest) \in Nat
    BY <1>3, <1>4, <1>5, LenProperties DEF Shorter
  <2> QED
    BY <1>5, <2>1, <2>2
<1>7. ASSUME NEW q \in Shorter(c.rest), NEW k \in 0 .. n - 1
      PROVE  one[<<q, k>>] \in Reads(AtMost(1, W), q) /\ one[<<q, k>>] = two[<<q, k>>]
  <2>1. n # 0
    BY <1>5
  <2>2. q \in Seq(Byte) /\ Len(q) < Len(b) /\ Len(b) \in Nat /\ k \in Nat
    BY <1>5, <1>6, <2>1, ShorterThan, LenProperties
  <2>3. <<q, k>> \in Seq(Byte) \X Nat /\ <<q, k>>[1] = q /\ <<q, k>>[2] = k
    BY <2>2
  <2>4. /\ one[<<q, k>>] = Pair(d, q, kt.v, vt.v, k)
        /\ two[<<q, k>>] = Pair(e, q, kt.v, vt.v, k)
    BY <2>3
  <2> HIDE DEF one, two
  <2> DEFINE ktv == kt.v
             vtv == vt.v
  <2>5. ktv \in Byte /\ vtv \in Byte
    BY <1>2, <1>3
  <2> HIDE DEF ktv, vtv, W
  <2>6. /\ Pair(d, q, ktv, vtv, k) \in Reads(AtMost(1, W), q)
        /\ Pair(e, q, ktv, vtv, k) = Pair(d, q, ktv, vtv, k)
    BY <2>2, <2>5, PairReads DEF W
  <2> QED
    BY <2>4, <2>6 DEF ktv, vtv
<1>8. \A v \in O : Good(v)
  BY OutputsGood
<1> HIDE DEF one, two, O
<1>9. \A k \in Hashable(O) : Good(k) /\ (Comparable(k) \/ k[1] = "unhashable")
  BY <1>8, HashableGood
<1> HIDE DEF W
<1>10. Each(one, c.rest, n, W) /\ Same(one, two, c.rest, n)
  BY <1>7 DEF Each, Same
<1>11. r \in Reads(AtMost(n, W), c.rest) /\ ReadEach(two, c.rest, n) = r
  BY <1>5, <1>10, ReadEachBoth
<1> HIDE DEF r
<1>12. r.v \in Seq(W) /\ Len(r.v) <= n /\ r.rest \in Shorter(b)
  <2>1. r.v \in AtMost(n, W) /\ r.rest \in Shorter(c.rest)
    BY <1>11 DEF Reads
  <2> QED
    BY <1>6, <2>1, ShorterIs DEF AtMost
<1>13. /\ DOMAIN m \subseteq Hashable(O) /\ Range(m) \subseteq O
       /\ IsFiniteSet(DOMAIN m) /\ Cardinality(DOMAIN m) <= Len(r.v)
  BY <1>12, MapOfType DEF W, O, Associations
<1> HIDE DEF m
<1>14. Cardinality(DOMAIN m) <= MaxCollectionElements
  <2>1. Cardinality(DOMAIN m) \in Nat /\ Len(r.v) \in Nat /\ MaxCollectionElements \in Nat
    BY <1>12, <1>13, FS_CardinalityType, LenProperties, WidthsAssumption
  <2> QED
    BY <1>5, <1>12, <1>13, <2>1
<1>15. Good(<<"map", m>>)
  BY <1>8, <1>9, <1>13, <1>14, MapGood
<1>16. Result(Read(<<"map", m>>, r.rest), b)
  BY <1>12, <1>15, ReadResult
<1> QED
  BY <1>1, <1>11, <1>16 DEF m, r

-----------------------------------------------------------------------------

(* Parameter tables.                                                       *)
LEMMA DropTwo ==
  ASSUME NEW q \in Seq(Byte), ~ (Len(q) < 2)
  PROVE  Drop(q, 2) \in Seq(Byte) /\ Drop(q, 2) \in Shorter(q) /\ Len(Drop(q, 2)) < Len(q)
<1>1. q # <<>>
  BY EmptySeq
<1>2. 2 \in Nat /\ 2 >= 1
  OBVIOUS
<1>3. Drop(q, 2) \in Shorter(q) /\ Len(Drop(q, 2)) < Len(q)
  BY <1>1, <1>2, TakeDrop
<1> QED
  BY <1>3 DEF Shorter

LEMMA EntryReads ==
  ASSUME NEW b \in Seq(Byte), NEW d, Sound(d, b), NEW e, Alike(d, e, b), NEW q \in Shorter(b)
  PROVE  /\ Entry(d, q) \in Reads(AtMost(1, Byte \X Outputs(d, b)), q)
         /\ Entry(e, q) = Entry(d, q)
<1> DEFINE W == Outputs(d, b)
           t == Drop(q, 2)
           tc == q[2]
           x == d[<<t, tc>>]
           y == e[<<t, tc>>]
<1>1. /\ Entry(d, q) = IF Len(q) < 2 THEN Read(<<>>, <<>>)
                       ELSE Read(<< <<q[1], x.v>> >>, x.rest)
      /\ Entry(e, q) = IF Len(q) < 2 THEN Read(<<>>, <<>>)
                       ELSE Read(<< <<q[1], y.v>> >>, y.rest)
  BY DEF Entry
<1>2. q \in Seq(Byte) /\ Len(q) <= Len(b) /\ Len(q) \in Nat /\ Len(b) \in Nat
  BY LenProperties DEF Shorter
<1>3. CASE Len(q) < 2
  <2>1. <<>> \in AtMost(1, Byte \X W) /\ <<>> \in Shorter(q)
    BY <1>2, EmptySeq, ShorterIs DEF AtMost
  <2> HIDE DEF W
  <2>2. Read(<<>>, <<>>) \in Reads(AtMost(1, Byte \X W), q)
    BY <2>1 DEF Reads, Read
  <2> QED
    BY <1>1, <1>3, <2>2 DEF W
<1>4. CASE ~ (Len(q) < 2)
  <2>1. t \in Seq(Byte) /\ t \in Shorter(q) /\ Len(t) < Len(q)
    BY <1>2, <1>4, DropTwo
  <2>2. tc \in Byte /\ q[1] \in Byte
    BY <1>2, <1>4, ElementOfSeq
  <2> HIDE DEF t, tc
  <2>3. Len(t) < Len(b)
    <3>1. Len(t) \in Nat
      BY <2>1, LenProperties
    <3> QED
      BY <1>2, <2>1, <3>1
  <2>4. x \in Reads(W, t) /\ y = x
    BY <2>1, <2>2, <2>3, SoundCall
  <2> HIDE DEF x, y, W
  <2>5. x.v \in W /\ x.rest \in Shorter(t)
    BY <2>4 DEF Reads
  <2>6. x.rest \in Shorter(q)
    BY <1>2, <2>1, <2>5, ShorterIs
  <2> DEFINE p == <<q[1], x.v>>
  <2>7. p \in Byte \X W
    BY <2>2, <2>5
  <2> HIDE DEF p
  <2>8. <<p>> \in Seq(Byte \X W) /\ Len(<<p>>) = 1
    BY <2>7
  <2>9. <<p>> \in AtMost(1, Byte \X W)
    BY <2>8 DEF AtMost
  <2>10. Read(<<p>>, x.rest) \in Reads(AtMost(1, Byte \X W), q)
    BY <2>6, <2>9 DEF Reads, Read
  <2> QED
    BY <1>1, <1>4, <2>4, <2>10 DEF W, p
<1> QED
  BY <1>3, <1>4

LEMMA EntriesRead ==
  ASSUME NEW b \in Seq(Byte), NEW d, Sound(d, b), NEW e, Alike(d, e, b),
         NEW c \in Shorter(b), NEW n \in Nat
  PROVE  /\ Entries(d, c, n) \in Reads(AtMost(n, Byte \X Outputs(d, b)), c)
         /\ Entries(e, c, n) = Entries(d, c, n)
<1> DEFINE one == [x \in Seq(Byte) \X Nat |-> Entry(d, x[1])]
           two == [x \in Seq(Byte) \X Nat |-> Entry(e, x[1])]
           W == Byte \X Outputs(d, b)
<1>1. c \in Seq(Byte)
  BY DEF Shorter
<1>2. Entries(d, c, n) = ReadEach(one, c, n) /\ Entries(e, c, n) = ReadEach(two, c, n)
  BY DEF Entries
<1>3. ASSUME NEW q \in Shorter(c), NEW k \in 0 .. n - 1
      PROVE  one[<<q, k>>] \in Reads(AtMost(1, W), q) /\ one[<<q, k>>] = two[<<q, k>>]
  <2>1. q \in Seq(Byte) /\ q \in Shorter(b)
    BY ShorterThan
  <2>2. <<q, k>> \in Seq(Byte) \X Nat /\ <<q, k>>[1] = q
    BY <2>1
  <2>3. one[<<q, k>>] = Entry(d, q) /\ two[<<q, k>>] = Entry(e, q)
    BY <2>2
  <2> HIDE DEF one, two
  <2>4. Entry(d, q) \in Reads(AtMost(1, W), q) /\ Entry(e, q) = Entry(d, q)
    BY <2>1, EntryReads
  <2> QED
    BY <2>3, <2>4
<1> HIDE DEF one, two, W
<1>4. Each(one, c, n, W) /\ Same(one, two, c, n)
  BY <1>3 DEF Each, Same
<1>5. ReadEach(one, c, n) \in Reads(AtMost(n, W), c) /\ ReadEach(two, c, n) = ReadEach(one, c, n)
  BY <1>1, <1>4, ReadEachBoth
<1> QED
  BY <1>2, <1>5 DEF W

LEMMA ReadEntriesReads ==
  ASSUME NEW b \in Seq(Byte), NEW d, Sound(d, b), NEW e, Alike(d, e, b)
  PROVE  /\ ReadEntries(d, b) \in Reads(Seq(Byte \X Outputs(d, b)), b)
         /\ ReadEntries(e, b) = ReadEntries(d, b)
<1> DEFINE c == ReadCount(b)
           n == BoundedCount(c.v, Len(c.rest) + 1)
           t == c.rest
           r == Entries(d, t, n)
           W == Byte \X Outputs(d, b)
<1>1. c.v \in Nat /\ c.rest \in Shorter(b) /\ c.rest \in Seq(Byte)
  BY Counted
<1>2. ReadEntries(d, b) = r /\ ReadEntries(e, b) = Entries(e, t, n)
  BY DEF ReadEntries
<1> HIDE DEF c
<1>3. n \in Nat
  <2>1. Len(c.rest) + 1 \in Nat
    BY <1>1, LenProperties
  <2> QED
    BY <1>1, <2>1, BoundedCountIs
<1>3a. t \in Shorter(b)
  BY <1>1
<1> HIDE DEF n, t
<1>4. r \in Reads(AtMost(n, W), t) /\ Entries(e, t, n) = r
  BY <1>3, <1>3a, EntriesRead
<1> HIDE DEF r, W
<1>5. r.v \in AtMost(n, W) /\ r.rest \in Shorter(t) /\ r = [v |-> r.v, rest |-> r.rest]
  BY <1>4 DEF Reads
<1>6. r.v \in Seq(W) /\ r.rest \in Shorter(b)
  BY <1>3a, <1>5, ShorterIs DEF AtMost
<1>7. r \in Reads(Seq(W), b)
  BY <1>5, <1>6 DEF Reads
<1> QED
  BY <1>2, <1>4, <1>7 DEF W

LEMMA TableReads ==
  ASSUME NEW b \in Seq(Byte), NEW d, Sound(d, b), NEW e, Alike(d, e, b)
  PROVE  LET r == ReadParameterTable(d, b)
         IN /\ r.rest \in Shorter(b) /\ DOMAIN r.v \subseteq Byte
            /\ \A x \in Range(r.v) : Good(x)
            /\ ReadParameterTable(e, b) = r
<1> DEFINE s == ReadEntries(d, b)
           O == Outputs(d, b)
           m == MapOf(s.v)
<1>1. s \in Reads(Seq(Byte \X O), b) /\ ReadEntries(e, b) = s
  BY ReadEntriesReads
<1>2. /\ ReadParameterTable(d, b) = Read(m, s.rest)
      /\ ReadParameterTable(e, b) = Read(MapOf(ReadEntries(e, b).v), ReadEntries(e, b).rest)
  BY DEF ReadParameterTable
<1>3. \A v \in O : Good(v)
  BY OutputsGood
<1> HIDE DEF s, O
<1>4. s.v \in Seq(Byte \X O) /\ s.rest \in Shorter(b)
  BY <1>1 DEF Reads
<1>5. DOMAIN m \subseteq Byte /\ Range(m) \subseteq O
  BY <1>4, MapOfType
<1> HIDE DEF m
<1>6. Read(m, s.rest).v = m /\ Read(m, s.rest).rest = s.rest
  BY DEF Read
<1>7. ReadParameterTable(e, b) = Read(m, s.rest)
  BY <1>1, <1>2 DEF m
<1> QED
  BY <1>2, <1>3, <1>4, <1>5, <1>6, <1>7

LEMMA SoundShorter ==
  ASSUME NEW b \in Seq(Byte), NEW c \in Shorter(b), NEW d, Sound(d, b), NEW e, Alike(d, e, b)
  PROVE  Sound(d, c) /\ Alike(d, e, c)
<1>1. Inputs(c) \subseteq Inputs(b)
  <2> SUFFICES ASSUME NEW x \in Seq(Byte) \X Byte, Len(x[1]) < Len(c) PROVE Len(x[1]) < Len(b)
    BY DEF Inputs
  <2>1. x[1] \in Seq(Byte) /\ c \in Seq(Byte) /\ Len(c) <= Len(b)
    BY DEF Shorter
  <2>2. Len(x[1]) \in Nat /\ Len(c) \in Nat /\ Len(b) \in Nat
    BY <2>1, LenProperties
  <2> QED
    BY <2>1, <2>2
<1> QED
  BY <1>1 DEF Sound, Alike

LEMMA InnerMessageReads ==
  ASSUME NEW b \in Seq(Byte), NEW d, Sound(d, b), NEW e, Alike(d, e, b)
  PROVE  Result(InnerMessage(d, b), b) /\ InnerMessage(e, b) = InnerMessage(d, b)
<1> DEFINE opCode == ReadByte(b)
           t == opCode.rest
           params == ReadParameterTable(d, t)
           other == ReadParameterTable(e, t)
           n == [code |-> opCode.v, params |-> params.v]
<1>1. /\ InnerMessage(d, b) = Read(<<"message", n>>, params.rest)
      /\ InnerMessage(e, b)
           = Read(<<"message", [code |-> opCode.v, params |-> other.v]>>, other.rest)
  BY DEF InnerMessage
<1>2. opCode.v \in Byte /\ t \in Shorter(b)
  <2>1. opCode \in Reads(Byte, b)
    BY ReadByteReads
  <2> HIDE DEF opCode
  <2> QED
    BY <2>1 DEF Reads
<1> HIDE DEF opCode, t
<1>3. t \in Seq(Byte) /\ Sound(d, t) /\ Alike(d, e, t)
  BY <1>2, SoundShorter DEF Shorter
<1>4. /\ params.rest \in Shorter(t) /\ DOMAIN params.v \subseteq Byte
      /\ \A x \in Range(params.v) : Good(x)
      /\ other = params
  BY <1>3, TableReads
<1> HIDE DEF params, other
<1>5. params.rest \in Shorter(b)
  BY <1>2, <1>4, ShorterIs
<1> DEFINE p == params.v
           v == <<"message", n>>
<1>6. Good(v)
  <2>1. DOMAIN p \subseteq Byte /\ \A x \in Range(p) : Good(x)
    BY <1>4
  <2> HIDE DEF p
  <2>2. Good(<<"message", [code |-> opCode.v, params |-> p]>>)
    BY <1>2, <2>1, MessageGood
  <2> QED
    BY <2>2 DEF p
<1> HIDE DEF v
<1>7. Result(Read(v, params.rest), b)
  BY <1>5, <1>6, ReadResult
<1> QED
  BY <1>1, <1>4, <1>7 DEF v

LEMMA DebugGood ==
  ASSUME NEW v, Good(v)
  PROVE  Good(<<"string", IF v[1] = "string" THEN v[2] ELSE <<>>>>)
<1>1. <<>> \in Seq(Byte)
  BY EmptySeq
<1>2. Good(<<"string", <<>>>>)
  BY <1>1, PlainGood
<1>3. CASE v[1] = "string"
  <2>1. v[2] \in Seq(Byte) \/ \E tc \in Byte : v = ErrorText(tc)
    BY <1>3, GoodIs DEF WellFormed
  <2>2. CASE v[2] \in Seq(Byte)
    BY <1>3, <2>2, PlainGood
  <2>3. CASE \E tc \in Byte : v = ErrorText(tc)
    <3>1. PICK tc \in Byte : v = ErrorText(tc)
      BY <2>3
    <3>2. <<"string", v[2]>> = ErrorText(tc)
      BY <3>1 DEF ErrorText
    <3>3. Good(ErrorText(tc))
      BY <3>1, ErrorTextGood
    <3> QED
      BY <1>3, <3>2, <3>3
  <2> QED
    BY <2>1, <2>2, <2>3
<1>4. CASE v[1] # "string"
  BY <1>2, <1>4
<1> QED
  BY <1>3, <1>4

LEMMA InnerResponseReads ==
  ASSUME NEW b \in Seq(Byte), NEW d, Sound(d, b), NEW e, Alike(d, e, b)
  PROVE  Result(InnerResponse(d, b), b) /\ InnerResponse(e, b) = InnerResponse(d, b)
<1> DEFINE opCode     == ReadByte(b)
           t          == opCode.rest
           returnCode == ReadInt16(t)
           u          == returnCode.rest
           tc         == ReadByte(u)
           debug(f)   == IF u = <<>> THEN Read(Nil, <<>>) ELSE f[<<tc.rest, tc.v>>]
           x          == debug(d)
           w          == x.rest
           params     == ReadParameterTable(d, w)
           text       == IF x.v[1] = "string" THEN x.v[2] ELSE <<>>
           n          == [ code |-> opCode.v, returnCode |-> returnCode.v,
                           debug |-> text, params |-> params.v ]
<1>1. InnerResponse(d, b) = IF Len(b) < 3 THEN Read(Nil, b)
                            ELSE Read(<<"response", n>>, params.rest)
  BY DEF InnerResponse
<1>2. InnerResponse(e, b)
        = IF Len(b) < 3 THEN Read(Nil, b)
          ELSE Read(<<"response", [ code |-> opCode.v, returnCode |-> returnCode.v,
                        debug |-> IF debug(e).v[1] = "string" THEN debug(e).v[2] ELSE <<>>,
                        params |-> ReadParameterTable(e, debug(e).rest).v ]>>,
                    ReadParameterTable(e, debug(e).rest).rest)
  BY DEF InnerResponse
<1>3. CASE Len(b) < 3
  <2>1. b \in Shorter(b) /\ Good(Nil)
    BY ShorterIs, PlainGood
  <2>2. Result(Read(Nil, b), b)
    BY <2>1, ReadResult
  <2> HIDE DEF n, params, debug, x
  <2> QED
    BY <1>1, <1>2, <1>3, <2>2
<1>4. CASE ~ (Len(b) < 3)
  <2>0. b # <<>> /\ Len(b) \in Nat
    BY <1>4, EmptySeq, LenProperties
  <2>1. opCode.v \in Byte /\ t \in Shorter(b) /\ t \in Seq(Byte) /\ Len(t) < Len(b)
    <3>1. opCode \in Reads(Byte, b) /\ Len(opCode.rest) < Len(b)
      BY <2>0, ReadByteReads
    <3> HIDE DEF opCode
    <3> QED
      BY <3>1 DEF Reads, Shorter
  <2> HIDE DEF opCode, t
  <2>2. returnCode.v \in SignedRange(16) /\ u \in Shorter(t) /\ u \in Seq(Byte)
    <3>1. returnCode \in Reads(SignedRange(16), t)
      BY <2>1, ReadUint16Reads
    <3> HIDE DEF returnCode
    <3> QED
      BY <3>1 DEF Reads, Shorter
  <2> HIDE DEF returnCode, u
  <2>3. tc.v \in Byte /\ tc.rest \in Shorter(u) /\ tc.rest \in Seq(Byte)
    <3>1. tc \in Reads(Byte, u)
      BY <2>2, ReadByteReads
    <3> HIDE DEF tc
    <3> QED
      BY <3>1 DEF Reads, Shorter
  <2> HIDE DEF tc
  <2>4. tc.rest \in Shorter(t)
    BY <2>1, <2>2, <2>3, ShorterThan
  <2>5. Len(tc.rest) < Len(b) /\ tc.rest \in Shorter(b)
    BY <2>1, <2>4, ShorterThan
  <2>6. Good(x.v) /\ w \in Shorter(b) /\ debug(e) = x
    <3>1. CASE u = <<>>
      <4>1. x = Read(Nil, <<>>) /\ debug(e) = Read(Nil, <<>>)
        BY <3>1
      <4>2. Good(Nil) /\ <<>> \in Shorter(b)
        BY PlainGood, ShorterIs
      <4>3. Read(Nil, <<>>).v = Nil /\ Read(Nil, <<>>).rest = <<>>
        BY DEF Read
      <4> HIDE DEF x, debug
      <4> QED
        BY <4>1, <4>2, <4>3
    <3>2. CASE u # <<>>
      <4> DEFINE c == tc.rest
                 k == tc.v
      <4>1. x = d[<<c, k>>] /\ debug(e) = e[<<c, k>>]
        BY <3>2
      <4>2. c \in Seq(Byte) /\ Len(c) < Len(b) /\ k \in Byte /\ c \in Shorter(b)
        BY <2>3, <2>5
      <4> HIDE DEF c, k, x, debug, w
      <4>3. /\ e[<<c, k>>] = d[<<c, k>>] /\ Good(d[<<c, k>>].v)
            /\ d[<<c, k>>].rest \in Shorter(c)
        BY <4>2, SoundCall
      <4>4. x.rest \in Shorter(b)
        BY <4>1, <4>2, <4>3, ShorterIs
      <4> QED
        BY <4>1, <4>3, <4>4 DEF w
    <3> HIDE DEF x, debug
    <3> QED
      BY <3>1, <3>2
  <2> HIDE DEF x, debug
  <2>7. w \in Seq(Byte) /\ Sound(d, w) /\ Alike(d, e, w)
    BY <2>6, SoundShorter DEF Shorter
  <2>8. /\ params.rest \in Shorter(w) /\ DOMAIN params.v \subseteq Byte
        /\ \A y \in Range(params.v) : Good(y)
        /\ ReadParameterTable(e, w) = params
    <3> HIDE DEF w
    <3> QED
      BY <2>7, TableReads
  <2>9. InnerResponse(e, b) = Read(<<"response", n>>, params.rest)
    <3> HIDE DEF params
    <3> QED
      BY <1>2, <1>4, <2>6, <2>8
  <2>10. Good(<<"string", text>>)
    BY <2>6, DebugGood
  <2> DEFINE p == params.v
             cv == opCode.v
             rv == returnCode.v
             v == <<"response", [ code |-> cv, returnCode |-> rv, debug |-> text,
                                  params |-> p ]>>
  <2>11. DOMAIN p \subseteq Byte /\ (\A y \in Range(p) : Good(y))
         /\ cv \in Byte /\ rv \in SignedRange(16)
    BY <2>1, <2>2, <2>8
  <2>12. v = <<"response", n>>
    OBVIOUS
  <2>13. params.rest \in Shorter(b)
    <3> HIDE DEF params, w
    <3> QED
      BY <2>6, <2>8, ShorterThan
  <2> HIDE DEF text, params, n
  <2>14. Good(v)
    <3> HIDE DEF p, cv, rv
    <3> QED
      BY <2>10, <2>11, ResponseGood
  <2> HIDE DEF v
  <2>15. Result(Read(v, params.rest), b)
    BY <2>13, <2>14, ReadResult
  <2> QED
    BY <1>1, <1>4, <2>9, <2>12, <2>15
<1> QED
  BY <1>3, <1>4

LEMMA CustomPayloadReads ==
  ASSUME NEW b \in Seq(Byte), NEW id \in Byte, NEW isSlim
  PROVE  Result(CustomPayload(b, id, isSlim), b)
<1> DEFINE c == ReadCount(b)
           t == c.rest
           n == IF c.v > Len(t) /\ isSlim THEN Len(t) ELSE c.v
           data == Take(t, n)
           v == <<"custom", [id |-> id, data |-> data]>>
           left == Drop(t, n)
<1>1. CustomPayload(b, id, isSlim) = IF n > Len(t) THEN Read(Nil, t) ELSE Read(v, left)
  BY DEF CustomPayload
<1>2. c.v \in Nat /\ t \in Shorter(b) /\ t \in Seq(Byte)
  BY Counted
<1> HIDE DEF c, t
<1>3. n \in Nat /\ Len(t) \in Nat
  BY <1>2, LenProperties
<1> HIDE DEF n
<1>4. CASE n > Len(t)
  <2>1. Good(Nil)
    BY PlainGood
  <2>2. Result(Read(Nil, t), b)
    BY <1>2, <2>1, ReadResult
  <2> QED
    BY <1>1, <1>4, <2>2
<1>5. CASE ~ (n > Len(t))
  <2>1. data \in Seq(Byte) /\ left \in Shorter(t)
    BY <1>2, <1>3, <1>5, TakeDrop
  <2> HIDE DEF data, left
  <2>2. left \in Shorter(b)
    BY <1>2, <2>1, ShorterIs
  <2>3. Good(v)
    BY <2>1, CustomGood
  <2> HIDE DEF v
  <2>4. Result(Read(v, left), b)
    BY <2>2, <2>3, ReadResult
  <2> QED
    BY <1>1, <1>5, <2>4
<1> QED
  BY <1>4, <1>5

LEMMA ResultShorter ==
  ASSUME NEW b \in Seq(Byte), NEW c \in Shorter(b), NEW r, Result(r, c)
  PROVE  Result(r, b)
<1>1. r \in Reads({r.v}, c) /\ Good(r.v)
  BY DEF Result
<1>2. r.rest \in Shorter(c) /\ r = [v |-> r.v, rest |-> r.rest]
  BY <1>1 DEF Reads
<1>3. r.rest \in Shorter(b)
  BY <1>2, ShorterIs
<1>4. r \in Reads({r.v}, b)
  BY <1>2, <1>3 DEF Reads
<1> QED
  BY <1>1, <1>4 DEF Result

LEMMA CustomReads ==
  ASSUME NEW b \in Seq(Byte), NEW tc \in Byte
  PROVE  Result(Custom(b, tc), b)
<1>1. CASE tc >= 128
  <2>1. Custom(b, tc) = CustomPayload(b, tc % 128, TRUE)
    BY <1>1, Codes DEF Custom
  <2>2. tc % 128 \in Byte
    BY <1>1 DEF Byte
  <2> QED
    BY <2>1, <2>2, CustomPayloadReads
<1>2. CASE ~ (tc >= 128)
  <2> DEFINE id == ReadByte(b)
             c == id.rest
             k == id.v
  <2>1. Custom(b, tc) = CustomPayload(c, k, FALSE)
    BY <1>2, Codes DEF Custom
  <2>2. k \in Byte /\ c \in Shorter(b) /\ c \in Seq(Byte)
    <3>1. id \in Reads(Byte, b)
      BY ReadByteReads
    <3> HIDE DEF id
    <3> QED
      BY <3>1 DEF Reads, Shorter
  <2> HIDE DEF c, k
  <2>3. Result(CustomPayload(c, k, FALSE), c)
    BY <2>2, CustomPayloadReads
  <2> QED
    BY <2>1, <2>2, <2>3, ResultShorter
<1> QED
  BY <1>1, <1>2

LEMMA ReadValueIs ==
  ASSUME NEW d, NEW b, NEW tc \in Byte
  PROVE  /\ tc >= 128 \/ tc = 19 => ReadValue(d, b, tc) = Custom(b, tc)
         /\ IsPlain(tc) => ReadValue(d, b, tc) = ReadPlain(b, tc)
         /\ tc \in {20, 21} => ReadValue(d, b, tc) = Dictionary(d, b)
         /\ tc = 23 => ReadValue(d, b, tc) = ObjectArray(d, b)
         /\ tc \in {24, 26} => ReadValue(d, b, tc) = InnerMessage(d, b)
         /\ tc = 25 => ReadValue(d, b, tc) = InnerResponse(d, b)
         /\ tc = 64 => ReadValue(d, b, tc) = NestedArray(d, b)
         /\ tc \in 65 .. 127 =>
              ReadValue(d, b, tc) = TypedArray(d, b, tc - 64) /\ tc - 64 \in Byte
         /\ tc \in {1, 22} \cup 35 .. 63 => ReadValue(d, b, tc) = Read(ErrorText(tc), b)
         /\ \/ tc >= 128 \/ tc = 19 \/ IsPlain(tc) \/ tc \in {20, 21} \/ tc = 23
            \/ tc \in {24, 26} \/ tc = 25 \/ tc = 64 \/ tc \in 65 .. 127
            \/ tc \in {1, 22} \cup 35 .. 63
<1>0. IsPlain(tc) <=> tc = 0 \/ tc \in 2 .. 18 \/ tc \in 27 .. 34
  BY IsPlainIs
<1>1. tc >= 128 \/ tc = 19 => ReadValue(d, b, tc) = Custom(b, tc)
  BY <1>0, Codes DEF ReadValue, Byte
<1>2. IsPlain(tc) => ReadValue(d, b, tc) = ReadPlain(b, tc)
  BY <1>0, Codes DEF ReadValue, Byte
<1>3. tc \in {20, 21} => ReadValue(d, b, tc) = Dictionary(d, b)
  BY <1>0, Codes DEF ReadValue, Byte
<1>4. tc = 23 => ReadValue(d, b, tc) = ObjectArray(d, b)
  BY <1>0, Codes DEF ReadValue, Byte
<1>5. tc \in {24, 26} => ReadValue(d, b, tc) = InnerMessage(d, b)
  BY <1>0, Codes DEF ReadValue, Byte
<1>6. tc = 25 => ReadValue(d, b, tc) = InnerResponse(d, b)
  BY <1>0, Codes DEF ReadValue, Byte
<1>7. tc = 64 => ReadValue(d, b, tc) = NestedArray(d, b)
  BY <1>0, Codes DEF ReadValue, Byte
<1>8. tc \in 65 .. 127 => ReadValue(d, b, tc) = TypedArray(d, b, tc - 64)
  BY <1>0, Codes DEF ReadValue, Byte
<1>9. tc \in {1, 22} \cup 35 .. 63 => ReadValue(d, b, tc) = Read(ErrorText(tc), b)
  BY <1>0, Codes DEF ReadValue, Byte
<1>10. tc \in 65 .. 127 => tc - 64 \in Byte
  BY DEF Byte
<1>11. \/ tc >= 128 \/ tc = 19 \/ IsPlain(tc) \/ tc \in {20, 21} \/ tc = 23
       \/ tc \in {24, 26} \/ tc = 25 \/ tc = 64 \/ tc \in 65 .. 127
       \/ tc \in {1, 22} \cup 35 .. 63
  BY <1>0 DEF Byte
<1> QED
  BY <1>1, <1>2, <1>3, <1>4, <1>5, <1>6, <1>7, <1>8, <1>9, <1>10, <1>11

(* Every value is read right if those in it are.                           *)
LEMMA ReadValueReads ==
  ASSUME NEW b \in Seq(Byte), NEW d, Sound(d, b), NEW e, Alike(d, e, b), NEW tc \in Byte
  PROVE  /\ Result(ReadValue(d, b, tc), b)
         /\ ReadValue(e, b, tc) = ReadValue(d, b, tc)
<1>1. CASE tc >= 128 \/ tc = 19
  BY <1>1, ReadValueIs, CustomReads
<1>2. CASE IsPlain(tc)
  BY <1>2, ReadValueIs, ReadPlainResult
<1>3. CASE tc \in {20, 21}
  BY <1>3, ReadValueIs, DictionaryReads
<1>4. CASE tc = 23
  BY <1>4, ReadValueIs, ObjectArrayReads
<1>5. CASE tc \in {24, 26}
  BY <1>5, ReadValueIs, InnerMessageReads
<1>6. CASE tc = 25
  BY <1>6, ReadValueIs, InnerResponseReads
<1>7. CASE tc = 64
  BY <1>7, ReadValueIs, NestedArrayReads
<1>8. CASE tc \in 65 .. 127
  BY <1>8, ReadValueIs, TypedArrayReads
<1>9. CASE tc \in {1, 22} \cup 35 .. 63
  <2>1. b \in Shorter(b) /\ Good(ErrorText(tc))
    BY ShorterIs, ErrorTextGood
  <2>2. Result(Read(ErrorText(tc), b), b)
    BY <2>1, ReadResult
  <2> QED
    BY <1>9, <2>2, ReadValueIs
<1> QED
  BY <1>1, <1>2, <1>3, <1>4, <1>5, <1>6, <1>7, <1>8, <1>9, ReadValueIs

LEMMA TypedRead ==
  ASSUME NEW d, NEW b, NEW tc \in 65 .. 127
  PROVE  ReadValue(d, b, tc) = TypedArray(d, b, tc - 64)
<1>1. tc \in Byte /\ ~ (tc >= 128) /\ ~ IsPlain(tc)
  BY IsPlainIs DEF Byte
<1>2. tc >= 65 /\ tc <= 127
  OBVIOUS
<1> QED
  BY <1>1, <1>2, Codes DEF ReadValue

LEMMA ReadValueTyped ==
  ASSUME NEW b, NEW d, NEW tc \in Byte
  PROVE  Typed(ReadValue(d, b, tc), tc)
<1> DEFINE r == ReadValue(d, b, tc)
<1>1. CASE ArrayType(tc) = "[]interface{}"
  BY <1>1 DEF Typed, Elementwise
<1>2. CASE ArrayType(tc) # "[]interface{}"
  <2>1. IsPlain(tc) /\ ReadPlain(b, tc).v[1] = ElementType(ArrayType(tc))
    BY <1>2, PlainTypes
  <2>2. r = ReadPlain(b, tc)
    BY <2>1, ReadValueIs
  <2> HIDE DEF r
  <2>3. r.v[1] = ElementType(ArrayType(tc))
    BY <2>1, <2>2
  <2> QED
    BY <2>3 DEF Typed, Elementwise, r
<1> QED
  BY <1>1, <1>2

-----------------------------------------------------------------------------
(* The deserializer.                                                       *)

(* A function that is Deserialize on all buffers shorter than n.           *)
Buffers == Seq(Byte) \X Byte

Upto(n, f) ==
  \A x \in Buffers : Len(x[1]) < n => f[x] = ReadValue(f, x[1], x[2])

LEMMA BufferIs ==
  ASSUME NEW x \in Buffers
  PROVE  x[1] \in Seq(Byte) /\ x[2] \in Byte /\ Len(x[1]) \in Nat /\ x = <<x[1], x[2]>>
  BY LenProperties DEF Buffers

LEMMA InputsAre ==
  ASSUME NEW b
  PROVE  \A x : x \in Inputs(b) <=> x \in Buffers /\ Len(x[1]) < Len(b)
  BY DEF Inputs, Buffers

LEMMA UptoSound ==
  ASSUME NEW n \in Nat, NEW f, Upto(n, f)
  PROVE  /\ \A x \in Buffers : Len(x[1]) < n => Result(f[x], x[1]) /\ Typed(f[x], x[2])
         /\ \A b \in Seq(Byte) : Len(b) <= n => Sound(f, b)
<1> DEFINE S == {m \in Nat : \A x \in Buffers :
                   Len(x[1]) = m /\ m < n => Result(f[x], x[1]) /\ Typed(f[x], x[2])}
<1>1. ASSUME NEW m \in Nat, \A k \in Nat : k < m => k \in S, NEW x \in Buffers,
             Len(x[1]) = m, m < n
      PROVE  Result(f[x], x[1]) /\ Typed(f[x], x[2])
  <2>1. x[1] \in Seq(Byte) /\ x[2] \in Byte
    BY BufferIs
  <2>2. Sound(f, x[1])
    <3> SUFFICES ASSUME NEW y \in Buffers, Len(y[1]) < m
                 PROVE  Result(f[y], y[1]) /\ Typed(f[y], y[2])
      BY <1>1, InputsAre DEF Sound
    <3>1. Len(y[1]) \in Nat
      BY BufferIs
    <3>2. Len(y[1]) \in S /\ Len(y[1]) < n
      BY <1>1, <3>1
    <3> QED
      BY <3>2
  <2>3. Alike(f, f, x[1])
    BY DEF Alike
  <2>4. f[x] = ReadValue(f, x[1], x[2])
    BY <1>1 DEF Upto
  <2> DEFINE b == x[1]
             tc == x[2]
  <2>5. b \in Seq(Byte) /\ tc \in Byte /\ Sound(f, b) /\ Alike(f, f, b)
    BY <2>1, <2>2, <2>3
  <2> HIDE DEF b, tc
  <2>6. Result(ReadValue(f, b, tc), b) /\ Typed(ReadValue(f, b, tc), tc)
    BY <2>5, ReadValueReads, ReadValueTyped
  <2> QED
    BY <2>4, <2>6 DEF b, tc
<1>2. Nat \subseteq S
  <2>1. \A m \in Nat : (\A k \in Nat : k < m => k \in S) => m \in S
    BY <1>1
  <2> HIDE DEF S
  <2> QED
    BY <2>1, StrongInduction
<1>3. \A x \in Buffers : Len(x[1]) < n => Result(f[x], x[1]) /\ Typed(f[x], x[2])
  <2> SUFFICES ASSUME NEW x \in Buffers, Len(x[1]) < n
               PROVE  Result(f[x], x[1]) /\ Typed(f[x], x[2])
    OBVIOUS
  <2>1. Len(x[1]) \in Nat
    BY BufferIs
  <2>2. Len(x[1]) \in S
    BY <1>2, <2>1
  <2> QED
    BY <2>2
<1>4. ASSUME NEW b \in Seq(Byte), Len(b) <= n PROVE Sound(f, b)
  <2> SUFFICES ASSUME NEW y \in Buffers, Len(y[1]) < Len(b) PROVE Len(y[1]) < n
    BY <1>3, InputsAre DEF Sound
  <2>1. Len(y[1]) \in Nat /\ Len(b) \in Nat
    BY BufferIs, LenProperties
  <2> QED
    BY <1>4, <2>1
<1> QED
  BY <1>3, <1>4

LEMMA UptoUnique ==
  ASSUME NEW m \in Nat, NEW f, Upto(m, f), NEW n \in Nat, NEW g, Upto(n, g)
  PROVE  \A x \in Buffers : Len(x[1]) < m /\ Len(x[1]) < n => f[x] = g[x]
<1> DEFINE S == {l \in Nat : \A x \in Buffers :
                   Len(x[1]) = l /\ l < m /\ l < n => f[x] = g[x]}
<1>1. ASSUME NEW l \in Nat, \A k \in Nat : k < l => k \in S, NEW x \in Buffers,
             Len(x[1]) = l, l < m, l < n
      PROVE  f[x] = g[x]
  <2>1. x[1] \in Seq(Byte) /\ x[2] \in Byte
    BY BufferIs
  <2>2. Alike(f, g, x[1])
    <3> SUFFICES ASSUME NEW y \in Buffers, Len(y[1]) < l PROVE g[y] = f[y]
      BY <1>1, InputsAre DEF Alike
    <3>1. Len(y[1]) \in Nat
      BY BufferIs
    <3>2. Len(y[1]) \in S /\ Len(y[1]) < m /\ Len(y[1]) < n
      BY <1>1, <3>1
    <3> QED
      BY <3>2
  <2>3. Sound(f, x[1])
    <3>1. Len(x[1]) <= m
      BY <1>1
    <3> QED
      BY <2>1, <3>1, UptoSound
  <2>4. f[x] = ReadValue(f, x[1], x[2]) /\ g[x] = ReadValue(g, x[1], x[2])
    BY <1>1 DEF Upto
  <2> DEFINE b == x[1]
             tc == x[2]
  <2>5. b \in Seq(Byte) /\ tc \in Byte /\ Sound(f, b) /\ Alike(f, g, b)
    BY <2>1, <2>2, <2>3
  <2> HIDE DEF b, tc
  <2>6. ReadValue(g, b, tc) = ReadValue(f, b, tc)
    BY <2>5, ReadValueReads
  <2> QED
    BY <2>4, <2>6 DEF b, tc
<1>2. Nat \subseteq S
  <2>1. \A l \in Nat : (\A k \in Nat : k < l => k \in S) => l \in S
    BY <1>1
  <2> HIDE DEF S
  <2> QED
    BY <2>1, StrongInduction
<1> SUFFICES ASSUME NEW x \in Buffers, Len(x[1]) < m, Len(x[1]) < n PROVE f[x] = g[x]
  OBVIOUS
<1>3. Len(x[1]) \in Nat
  BY BufferIs
<1>4. Len(x[1]) \in S
  BY <1>2, <1>3
<1> QED
  BY <1>4

LEMMA UptoExists == \A n \in Nat : \E f : Upto(n, f)
<1> DEFINE S == {n \in Nat : \E f : Upto(n, f)}
<1>1. 0 \in S
  <2>1. \A x \in Buffers : ~ (Len(x[1]) < 0)
    BY BufferIs
  <2>2. \A f : Upto(0, f)
    BY <2>1 DEF Upto
  <2> QED
    BY <2>2
<1>2. ASSUME NEW n \in Nat, NEW f, Upto(n, f) PROVE \E g : Upto(n + 1, g)
  <2> DEFINE g == [x \in Buffers |-> ReadValue(f, x[1], x[2])]
  <2>1. \A x \in Buffers : g[x] = ReadValue(f, x[1], x[2])
    OBVIOUS
  <2> HIDE DEF g
  <2>2. ASSUME NEW x \in Buffers, Len(x[1]) < n + 1 PROVE g[x] = ReadValue(g, x[1], x[2])
    <3>1. x[1] \in Seq(Byte) /\ x[2] \in Byte /\ Len(x[1]) \in Nat /\ Len(x[1]) <= n
      BY <2>2, BufferIs
    <3>2. Sound(f, x[1])
      BY <1>2, <3>1, UptoSound
    <3>3. Alike(f, g, x[1])
      <4> SUFFICES ASSUME NEW y \in Buffers, Len(y[1]) < Len(x[1]) PROVE g[y] = f[y]
        BY InputsAre DEF Alike
      <4>1. Len(y[1]) < n
        BY <3>1, BufferIs
      <4>2. f[y] = ReadValue(f, y[1], y[2])
        BY <1>2, <4>1 DEF Upto
      <4> QED
        BY <2>1, <4>2
    <3> DEFINE b == x[1]
               tc == x[2]
    <3>4. b \in Seq(Byte) /\ tc \in Byte /\ Sound(f, b) /\ Alike(f, g, b)
      BY <3>1, <3>2, <3>3
    <3> HIDE DEF b, tc
    <3>5. ReadValue(g, b, tc) = ReadValue(f, b, tc)
      BY <3>4, ReadValueReads
    <3> QED
      BY <2>1, <3>5 DEF b, tc
  <2>3. Upto(n + 1, g)
    BY <2>2 DEF Upto
  <2> QED
    BY <2>3
<1>3. Nat \subseteq S
  <2>1. \A n \in Nat : n \in S => n + 1 \in S
    BY <1>2
  <2> HIDE DEF S
  <2> QED
    BY <1>1, <2>1, Induction
<1> QED
  BY <1>3

(* Deserialize is what its definition says, ...                            *)
LEMMA DeserializeIs ==
  \A x \in Buffers : Deserialize[x] = ReadValue(Deserialize, x[1], x[2])
<1> DEFINE H == [n \in Nat |-> CHOOSE f : Upto(n, f)]
           h == [x \in Buffers |-> H[Len(x[1]) + 1][x]]
           F(f) == f = [x \in Seq(Byte) \X Byte |-> ReadValue(f, x[1], x[2])]
           e == CHOOSE f : F(f)
<1>1. ASSUME NEW n \in Nat PROVE Upto(n, H[n])
  <2>1. \E f : Upto(n, f)
    BY UptoExists
  <2>2. H[n] = CHOOSE f : Upto(n, f)
    OBVIOUS
  <2> HIDE DEF H
  <2> QED
    BY <2>1, <2>2
<1> HIDE DEF H
<1>2. \A x \in Buffers : h[x] = H[Len(x[1]) + 1][x]
  OBVIOUS
<1>3. h = [x \in Buffers |-> h[x]]
  OBVIOUS
<1> HIDE DEF h
<1>4. ASSUME NEW x \in Buffers PROVE h[x] = ReadValue(h, x[1], x[2])
  <2> DEFINE n == Len(x[1]) + 1
  <2>1. x[1] \in Seq(Byte) /\ x[2] \in Byte /\ Len(x[1]) \in Nat
    BY BufferIs
  <2>2. n \in Nat /\ Len(x[1]) < n /\ Len(x[1]) <= n
    BY <2>1
  <2>3. h[x] = H[n][x]
    BY <1>2
  <2> HIDE DEF n
  <2>4. Upto(n, H[n])
    BY <1>1, <2>2
  <2> DEFINE f == H[n]
  <2>5. Upto(n, f) /\ h[x] = f[x]
    BY <2>3, <2>4
  <2>6. Alike(f, h, x[1])
    <3> SUFFICES ASSUME NEW y \in Buffers, Len(y[1]) < Len(x[1]) PROVE h[y] = f[y]
      BY InputsAre DEF Alike
    <3> DEFINE m == Len(y[1]) + 1
    <3>1. Len(y[1]) \in Nat /\ m \in Nat /\ Len(y[1]) < m /\ Len(y[1]) < n
      BY <2>1, <2>2, BufferIs
    <3>2. h[y] = H[m][y]
      BY <1>2
    <3> HIDE DEF m, f
    <3>3. Upto(m, H[m])
      BY <1>1, <3>1
    <3>4. H[m][y] = f[y]
      BY <2>2, <2>5, <3>1, <3>3, UptoUnique
    <3> QED
      BY <3>2, <3>4
  <2> HIDE DEF f
  <2>7. Sound(f, x[1])
    BY <2>1, <2>2, <2>5, UptoSound
  <2>8. f[x] = ReadValue(f, x[1], x[2])
    BY <2>2, <2>5 DEF Upto
  <2> DEFINE b == x[1]
             tc == x[2]
  <2>9. b \in Seq(Byte) /\ tc \in Byte /\ Sound(f, b) /\ Alike(f, h, b)
    BY <2>1, <2>6, <2>7
  <2> HIDE DEF b, tc
  <2>10. ReadValue(h, b, tc) = ReadValue(f, b, tc)
    BY <2>9, ReadValueReads
  <2> QED
    BY <2>5, <2>8, <2>10 DEF b, tc
<1>5. F(h)
  BY <1>3, <1>4 DEF Buffers
<1>6. F(e)
  <2> HIDE DEF F
  <2> QED
    BY <1>5
<1>7. Deserialize = e
  BY DEF Deserialize
<1> HIDE DEF e
<1> QED
  BY <1>6, <1>7 DEF Buffers

(* deserialize makes a value of a Go type, with all that is in it, of any  *)
(* bytes behind any code, with no collection longer than                   *)
(* maxCollectionElements; what it leaves unread is bytes, and no more than *)
(* there were.                                                             *)
THEOREM DeserializeSound ==
  /\ \A b \in Seq(Byte) : Sound(Deserialize, b)
  /\ \A b \in Seq(Byte), tc \in Byte :
       Result(Deserialize[<<b, tc>>], b) /\ Typed(Deserialize[<<b, tc>>], tc)
<1>1. \A n \in Nat : Upto(n, Deserialize)
  BY DeserializeIs DEF Upto
<1>2. ASSUME NEW b \in Seq(Byte) PROVE Sound(Deserialize, b)
  <2>1. Len(b) \in Nat /\ Len(b) <= Len(b)
    BY LenProperties
  <2>2. Upto(Len(b), Deserialize)
    BY <1>1, <2>1
  <2> QED
    BY <2>1, <2>2, UptoSound
<1>3. ASSUME NEW b \in Seq(Byte), NEW tc \in Byte
      PROVE  Result(Deserialize[<<b, tc>>], b) /\ Typed(Deserialize[<<b, tc>>], tc)
  <2> DEFINE n == Len(b) + 1
             x == <<b, tc>>
  <2>1. n \in Nat /\ Len(b) < n
    BY LenProperties
  <2>2. Upto(n, Deserialize)
    BY <1>1, <2>1
  <2>3. x \in Buffers /\ x[1] = b /\ x[2] = tc
    BY DEF Buffers
  <2> HIDE DEF n, x
  <2>4. Result(Deserialize[x], x[1]) /\ Typed(Deserialize[x], x[2])
    BY <2>1, <2>2, <2>3, UptoSound
  <2> QED
    BY <2>3, <2>4 DEF x
<1> QED
  BY <1>2, <1>3

-----------------------------------------------------------------------------
(* The serializer.                                                         *)

(* What the server writes: values with their parts, some levels deep.      *)
LEMMA BelowBelow ==
  ASSUME NEW u, NEW n \in Nat, NEW v \in Below(u)[n]
  PROVE  \A k \in Nat : Below(v)[k] \subseteq Below(u)[n + k]
<1> DEFINE S == {k \in Nat : Below(v)[k] \subseteq Below(u)[n + k]}
<1>1. 0 \in S
  <2>1. n + 0 = n
    OBVIOUS
  <2>2. Below(v)[0] = {v}
    BY BelowIs
  <2> QED
    BY <2>1, <2>2
<1>2. \A k \in Nat : k \in S => k + 1 \in S
  <2> SUFFICES ASSUME NEW k \in Nat, k \in S
               PROVE  Below(v)[k + 1] \subseteq Below(u)[n + (k + 1)]
    OBVIOUS
  <2>1. n + k \in Nat /\ n + (k + 1) = (n + k) + 1
    OBVIOUS
  <2>2. Below(v)[k + 1] = PartsOf(Below(v)[k])
    BY BelowIs
  <2>3. Below(u)[(n + k) + 1] = PartsOf(Below(u)[n + k])
    BY <2>1, BelowIs
  <2>4. PartsOf(Below(v)[k]) \subseteq PartsOf(Below(u)[n + k])
    BY DEF PartsOf
  <2> QED
    BY <2>1, <2>2, <2>3, <2>4
<1>3. Nat \subseteq S
  <2> HIDE DEF S
  <2> QED
    BY <1>1, <1>2, Induction
<1> QED
  BY <1>3

LEMMA BelowEnds ==
  ASSUME NEW u, NEW n \in Nat, Below(u)[n] = {}
  PROVE  \A k \in Nat : Below(u)[n + k] = {}
<1> DEFINE S == {k \in Nat : Below(u)[n + k] = {}}
<1>1. 0 \in S
  <2>1. n + 0 = n
    OBVIOUS
  <2> QED
    BY <2>1
<1>2. ASSUME NEW k \in Nat, k \in S PROVE k + 1 \in S
  <2>1. n + k \in Nat /\ n + (k + 1) = (n + k) + 1
    OBVIOUS
  <2>2. Below(u)[(n + k) + 1] = PartsOf(Below(u)[n + k])
    BY <2>1, BelowIs
  <2>3. PartsOf({}) = {}
    BY DEF PartsOf
  <2>4. Below(u)[n + k] = {}
    BY <1>2
  <2>5. Below(u)[n + (k + 1)] = {}
    BY <2>1, <2>2, <2>3, <2>4
  <2> QED
    BY <2>5
<1>3. Nat \subseteq S
  <2> HIDE DEF S
  <2> QED
    BY <1>1, <1>2, Induction
<1> QED
  BY <1>3

Shallow(v, n) == n \in Nat /\ Below(v)[n] = {}

Height == [v \in Writable |->
             CHOOSE n \in Nat : Shallow(v, n) /\ \A k \in Nat : Shallow(v, k) => n <= k]

LEMMA WritableIs ==
  ASSUME NEW v \in Writable
  PROVE  Sendable(v) /\ Parts(v) \subseteq Writable /\ Shallow(v, MaxNesting)
<1>1. PICK u \in Values, n \in 0 .. MaxNesting : v \in Below(u)[n]
  BY DEF Writable
<1>2. /\ MaxNesting \in Nat /\ Below(u)[MaxNesting] = {} /\ n \in Nat
      /\ Sendable(v)
  BY ValuesAssumption
<1>3. n + 1 \in 0 .. MaxNesting
  <2>1. n # MaxNesting
    BY <1>1, <1>2
  <2> QED
    BY <1>2, <2>1
<1>4. Parts(v) \subseteq Writable
  <2>1. Below(u)[n + 1] = PartsOf(Below(u)[n])
    BY <1>2, BelowIs
  <2>2. Parts(v) \subseteq Below(u)[n + 1]
    BY <1>1, <2>1 DEF PartsOf
  <2> QED
    BY <1>3, <2>2 DEF Writable
<1>5. Below(v)[MaxNesting] = {}
  <2>1. Below(v)[MaxNesting] \subseteq Below(u)[n + MaxNesting]
    BY <1>1, <1>2, BelowBelow
  <2>2. Below(u)[MaxNesting + n] = {}
    BY <1>2, BelowEnds
  <2>3. MaxNesting + n = n + MaxNesting
    BY <1>2
  <2> QED
    BY <2>1, <2>2, <2>3
<1> QED
  BY <1>2, <1>4, <1>5 DEF Shallow

LEMMA HeightIs ==
  /\ Height \in [Writable -> Nat]
  /\ \A v \in Writable : \A x \in Parts(v) : x \in Writable /\ Height[x] < Height[v]
<1>1. ASSUME NEW v \in Writable
      PROVE  /\ Height[v] \in Nat /\ Shallow(v, Height[v])
             /\ \A k \in Nat : Shallow(v, k) => Height[v] <= k
  <2> DEFINE T == {n \in Nat : Shallow(v, n)}
             P(n) == Shallow(v, n) /\ \A k \in Nat : Shallow(v, k) => n <= k
  <2>1. T \in SUBSET Nat /\ T # {}
    <3>1. MaxNesting \in Nat /\ Shallow(v, MaxNesting)
      BY WritableIs, ValuesAssumption
    <3> QED
      BY <3>1
  <2>2. \E n \in T : \A k \in T : n <= k
    <3> HIDE DEF T
    <3> QED
      BY <2>1, LeastNatural
  <2>3. \E n \in Nat : P(n)
    BY <2>2
  <2>4. Height[v] = CHOOSE n \in Nat : P(n)
    BY DEF Height
  <2> HIDE DEF P
  <2>5. Height[v] \in Nat /\ P(Height[v])
    BY <2>3, <2>4
  <2> QED
    BY <2>5 DEF P
<1>2. ASSUME NEW v \in Writable, NEW x \in Parts(v) PROVE x \in Writable /\ Height[x] < Height[v]
  <2>1. x \in Writable
    BY <1>2, WritableIs
  <2>2. Height[v] # 0
    <3>1. Below(v)[0] = {v}
      BY BelowIs
    <3>2. Below(v)[Height[v]] = {}
      BY <1>1 DEF Shallow
    <3> QED
      BY <3>1, <3>2
  <2>3. Height[v] - 1 \in Nat /\ (Height[v] - 1) + 1 = Height[v]
    BY <1>1, <2>2
  <2>4. Below(v)[(Height[v] - 1) + 1] = UNION {Below(y)[Height[v] - 1] : y \in Parts(v)}
    BY <2>3, BelowParts
  <2>5. Below(x)[Height[v] - 1] = {}
    <3>1. Below(v)[Height[v]] = {}
      BY <1>1 DEF Shallow
    <3>2. Below(x)[Height[v] - 1] \subseteq UNION {Below(y)[Height[v] - 1] : y \in Parts(v)}
      BY <1>2
    <3> QED
      BY <2>3, <2>4, <3>1, <3>2
  <2>6. Height[x] <= Height[v] - 1 /\ Height[x] \in Nat
    BY <1>1, <2>1, <2>3, <2>5 DEF Shallow
  <2> QED
    BY <1>1, <2>1, <2>6
<1>3. Height = [v \in Writable |-> Height[v]]
  BY DEF Height
<1> QED
  BY <1>1, <1>2, <1>3

(* What CodesOf is, type by type.                                          *)
LEMMA IntCodesIs ==
  ASSUME NEW n, NEW packed, NEW zero, NEW one, NEW c
  PROVE  c \in IntCodes(n, packed, zero, one) <=>
           \/ c = packed \/ (c = zero /\ n = 0)
           \/ (c = one /\ n \in Byte) \/ (c = one + 1 /\ -n \in Byte)
           \/ (c = one + 2 /\ n \in Word) \/ (c = one + 3 /\ -n \in Word)
  BY DEF IntCodes

LEMMA ElementCodeIs ==
  ASSUME NEW t, NEW tc
  PROVE  tc \in ElementCodes(t) <=> tc \in 1 .. 63 /\ ArrayType(tc) = t
  BY DEF ElementCodes

LEMMA ArraysOfIs ==
  ASSUME NEW S, NEW c
  PROVE  c \in ArraysOf(S) <=> \E tc \in S : c = 64 + tc
  BY Codes DEF ArraysOf

LEMMA CodesOfNil ==
  ASSUME NEW codes, NEW v, v[1] = "nil"
  PROVE  CodesOf(codes, v) = {0, 8}
  BY Codes DEF CodesOf

LEMMA CodesOfBool ==
  ASSUME NEW codes, NEW v, v[1] = "bool"
  PROVE  CodesOf(codes, v) = {2, IF v[2] THEN 28 ELSE 27}
  BY Codes DEF CodesOf

LEMMA CodesOfByte ==
  ASSUME NEW codes, NEW v, v[1] = "byte", NEW c
  PROVE  c \in CodesOf(codes, v) <=>
           c = 3 \/ (c = 34 /\ v[2] = 0)
<1>1. CodesOf(codes, v) = {3} \cup {tc \in {34} : v[2] = 0}
  BY Codes DEF CodesOf
<1> QED
  BY <1>1

LEMMA CodesOfInt16 ==
  ASSUME NEW codes, NEW v, v[1] = "int16", NEW c
  PROVE  c \in CodesOf(codes, v) <=>
           c = 4 \/ (c = 29 /\ v[2] = 0)
<1>1. CodesOf(codes, v) = {4} \cup {tc \in {29} : v[2] = 0}
  BY Codes DEF CodesOf
<1> QED
  BY <1>1

LEMMA CodesOfInt32 ==
  ASSUME NEW codes, NEW v, v[1] = "int32"
  PROVE  CodesOf(codes, v) = IntCodes(v[2], 9, 30, 11)
  BY Codes DEF CodesOf

LEMMA CodesOfInt64 ==
  ASSUME NEW codes, NEW v, v[1] = "int64"
  PROVE  CodesOf(codes, v) = IntCodes(v[2], 10, 31, 15)
  BY Codes DEF CodesOf

LEMMA CodesOfFloat32 ==
  ASSUME NEW codes, NEW v, v[1] = "float32", NEW c
  PROVE  c \in CodesOf(codes, v) <=>
           c = 5 \/ (c = 32 /\ v[2] = [k \in 1 .. 4 |-> 0])
<1>1. CodesOf(codes, v) = {5} \cup {tc \in {32} : v[2] = [k \in 1 .. 4 |-> 0]}
  BY Codes DEF CodesOf
<1> QED
  BY <1>1

LEMMA CodesOfFloat64 ==
  ASSUME NEW codes, NEW v, v[1] = "float64", NEW c
  PROVE  c \in CodesOf(codes, v) <=>
           c = 6 \/ (c = 33 /\ v[2] = [k \in 1 .. 8 |-> 0])
<1>1. CodesOf(codes, v) = {6} \cup {tc \in {33} : v[2] = [k \in 1 .. 8 |-> 0]}
  BY Codes DEF CodesOf
<1> QED
  BY <1>1

LEMMA CodesOfString ==
  ASSUME NEW codes, NEW v, v[1] = "string"
  PROVE  CodesOf(codes, v) = {7}
  BY Codes DEF CodesOf

LEMMA CodesOfMap ==
  ASSUME NEW codes, NEW v, v[1] = "map"
  PROVE  CodesOf(codes, v) = {20, 21}
  BY Codes DEF CodesOf

LEMMA CodesOfCustom ==
  ASSUME NEW codes, NEW v, v[1] = "custom", NEW c
  PROVE  c \in CodesOf(codes, v) <=>
           c = 19 \/ (c = 128 + v[2].id /\ v[2].id < 128)
<1>1. CodesOf(codes, v) = {19} \cup {tc \in {128 + v[2].id} : v[2].id < 128}
  BY Codes DEF CodesOf
<1> QED
  BY <1>1

LEMMA CodesOfMessage ==
  ASSUME NEW codes, NEW v, v[1] = "message"
  PROVE  CodesOf(codes, v) = {24, 26}
  BY Codes DEF CodesOf

LEMMA CodesOfResponse ==
  ASSUME NEW codes, NEW v, v[1] = "response"
  PROVE  CodesOf(codes, v) = {25}
  BY Codes DEF CodesOf

LEMMA CodesOfArray ==
  ASSUME NEW codes, NEW v, v[1] = "[]interface{}", NEW c
  PROVE  c \in CodesOf(codes, v) <=>
           \/ c = 23 \/ (c = 64 /\ Common(codes, Range(v[2])) # {})
           \/ c \in ArraysOf(Common(codes, Range(v[2])) \cap ElementCodes(v[1]))
<1>1. CodesOf(codes, v) = {23} \cup {tc \in {64} : Common(codes, Range(v[2])) # {}}
            \cup ArraysOf(Common(codes, Range(v[2])) \cap ElementCodes(v[1]))
  BY Codes DEF CodesOf
<1> QED
  BY <1>1

LEMMA CodesOfArrays ==
  ASSUME NEW codes, NEW v, v[1] \in ArrayTypes \ {"[]interface{}"}
  PROVE  CodesOf(codes, v) = ArraysOf(ElementCodes(v[1]))
  BY Codes DEF CodesOf, ArrayTypes

(* The codes of a value.                                                   *)
SomeCodes(S) == S \subseteq Byte /\ S # {}

LEMMA TypedArraysHaveCodes ==
  \A t \in ArrayTypes \ {"[]interface{}"} : ElementCodes(t) # {}
<1>0. 2 \in 1 .. 63 /\ 3 \in 1 .. 63 /\ 4 \in 1 .. 63 /\ 5 \in 1 .. 63 /\ 6 \in 1 .. 63
      /\ 7 \in 1 .. 63 /\ 9 \in 1 .. 63 /\ 10 \in 1 .. 63
  OBVIOUS
<1>1. 2 \in ElementCodes("[]bool")
  BY <1>0, ArrayTypeIs, ElementCodeIs
<1>2. 3 \in ElementCodes("[]byte")
  BY <1>0, ArrayTypeIs, ElementCodeIs
<1>3. 4 \in ElementCodes("[]int16")
  BY <1>0, ArrayTypeIs, ElementCodeIs
<1>4. 9 \in ElementCodes("[]int32")
  BY <1>0, ArrayTypeIs, ElementCodeIs
<1>5. 10 \in ElementCodes("[]int64")
  BY <1>0, ArrayTypeIs, ElementCodeIs
<1>6. 5 \in ElementCodes("[]float32")
  BY <1>0, ArrayTypeIs, ElementCodeIs
<1>7. 6 \in ElementCodes("[]float64")
  BY <1>0, ArrayTypeIs, ElementCodeIs
<1>8. 7 \in ElementCodes("[]string")
  BY <1>0, ArrayTypeIs, ElementCodeIs
<1> QED
  BY <1>1, <1>2, <1>3, <1>4, <1>5, <1>6, <1>7, <1>8 DEF ArrayTypes

LEMMA ArraysOfCodes ==
  ASSUME NEW S, S \subseteq 1 .. 63
  PROVE  ArraysOf(S) \subseteq Byte /\ (S # {} => ArraysOf(S) # {})
<1>1. ASSUME NEW c \in ArraysOf(S) PROVE c \in Byte
  <2>1. PICK tc \in S : c = 64 + tc
    BY ArraysOfIs
  <2> QED
    BY <2>1 DEF Byte
<1>2. ASSUME NEW tc \in S PROVE 64 + tc \in ArraysOf(S)
  BY ArraysOfIs
<1> QED
  BY <1>1, <1>2

LEMMA IntCodesAre ==
  ASSUME NEW n, NEW packed \in 0 .. 34, NEW zero \in 0 .. 34, NEW one \in 0 .. 34
  PROVE  SomeCodes(IntCodes(n, packed, zero, one))
<1>1. packed \in IntCodes(n, packed, zero, one)
  BY IntCodesIs
<1>2. ASSUME NEW c \in IntCodes(n, packed, zero, one) PROVE c \in Byte
  <2>1. c = packed \/ c = zero \/ c = one \/ c = one + 1 \/ c = one + 2 \/ c = one + 3
    BY IntCodesIs
  <2> QED
    BY <2>1 DEF Byte
<1> QED
  BY <1>1, <1>2 DEF SomeCodes

LEMMA CodesOfSome ==
  ASSUME NEW codes, NEW v, Sendable(v)
  PROVE  SomeCodes(CodesOf(codes, v))
<1>t. v[1] \in Types \ {"unhashable"}
  BY DEF Sendable, WellFormed
<1>1. CASE v[1] = "nil"
  BY <1>1, CodesOfNil DEF SomeCodes, Byte
<1>2. CASE v[1] = "bool"
  BY <1>2, CodesOfBool DEF SomeCodes, Byte
<1>3. CASE v[1] = "byte"
  <2>1. 3 \in CodesOf(codes, v)
    BY <1>3, CodesOfByte
  <2>2. ASSUME NEW c \in CodesOf(codes, v) PROVE c = 3 \/ c = 34
    BY <1>3, CodesOfByte
  <2> QED
    BY <2>1, <2>2 DEF SomeCodes, Byte
<1>4. CASE v[1] = "int16"
  <2>1. 4 \in CodesOf(codes, v)
    BY <1>4, CodesOfInt16
  <2>2. ASSUME NEW c \in CodesOf(codes, v) PROVE c = 4 \/ c = 29
    BY <1>4, CodesOfInt16
  <2> QED
    BY <2>1, <2>2 DEF SomeCodes, Byte
<1>5. CASE v[1] = "int32"
  <2>1. CodesOf(codes, v) = IntCodes(v[2], 9, 30, 11)
    BY <1>5, CodesOfInt32
  <2>2. SomeCodes(IntCodes(v[2], 9, 30, 11))
    <3>1. 9 \in 0 .. 34 /\ 30 \in 0 .. 34 /\ 11 \in 0 .. 34
      OBVIOUS
    <3> QED
      BY <3>1, IntCodesAre
  <2> QED
    BY <2>1, <2>2
<1>6. CASE v[1] = "int64"
  <2>1. CodesOf(codes, v) = IntCodes(v[2], 10, 31, 15)
    BY <1>6, CodesOfInt64
  <2>2. SomeCodes(IntCodes(v[2], 10, 31, 15))
    <3>1. 10 \in 0 .. 34 /\ 31 \in 0 .. 34 /\ 15 \in 0 .. 34
      OBVIOUS
    <3> QED
      BY <3>1, IntCodesAre
  <2> QED
    BY <2>1, <2>2
<1>7. CASE v[1] = "float32"
  <2>1. 5 \in CodesOf(codes, v)
    BY <1>7, CodesOfFloat32
  <2>2. ASSUME NEW c \in CodesOf(codes, v) PROVE c = 5 \/ c = 32
    BY <1>7, CodesOfFloat32
  <2> QED
    BY <2>1, <2>2 DEF SomeCodes, Byte
<1>8. CASE v[1] = "float64"
  <2>1. 6 \in CodesOf(codes, v)
    BY <1>8, CodesOfFloat64
  <2>2. ASSUME NEW c \in CodesOf(codes, v) PROVE c = 6 \/ c = 33
    BY <1>8, CodesOfFloat64
  <2> QED
    BY <2>1, <2>2 DEF SomeCodes, Byte
<1>9. CASE v[1] = "string"
  BY <1>9, CodesOfString DEF SomeCodes, Byte
<1>10. CASE v[1] = "map"
  BY <1>10, CodesOfMap DEF SomeCodes, Byte
<1>11. CASE v[1] = "custom"
  <2>1. v[2].id \in Byte
    BY <1>11 DEF Sendable, WellFormed
  <2>2. 19 \in CodesOf(codes, v)
    BY <1>11, CodesOfCustom
  <2>3. ASSUME NEW c \in CodesOf(codes, v) PROVE c = 19 \/ (c = 128 + v[2].id /\ v[2].id < 128)
    BY <1>11, CodesOfCustom
  <2> QED
    BY <2>1, <2>2, <2>3 DEF SomeCodes, Byte
<1>12. CASE v[1] = "message"
  BY <1>12, CodesOfMessage DEF SomeCodes, Byte
<1>13. CASE v[1] = "response"
  BY <1>13, CodesOfResponse DEF SomeCodes, Byte
<1>14. CASE v[1] = "[]interface{}"
  <2> DEFINE S == Common(codes, Range(v[2])) \cap ElementCodes(v[1])
  <2>1. S \subseteq 1 .. 63
    BY DEF ElementCodes
  <2>2. 23 \in CodesOf(codes, v)
    BY <1>14, CodesOfArray
  <2>3. ASSUME NEW c \in CodesOf(codes, v) PROVE c = 23 \/ c = 64 \/ c \in ArraysOf(S)
    BY <1>14, CodesOfArray
  <2> HIDE DEF S
  <2>4. ArraysOf(S) \subseteq Byte
    BY <2>1, ArraysOfCodes
  <2> QED
    BY <2>2, <2>3, <2>4 DEF SomeCodes, Byte
<1>15. CASE v[1] \in ArrayTypes \ {"[]interface{}"}
  <2>1. CodesOf(codes, v) = ArraysOf(ElementCodes(v[1]))
    BY <1>15, CodesOfArrays
  <2>2. ElementCodes(v[1]) # {}
    BY <1>15, TypedArraysHaveCodes
  <2>3. ElementCodes(v[1]) \subseteq 1 .. 63
    BY DEF ElementCodes
  <2> QED
    BY <2>1, <2>2, <2>3, ArraysOfCodes DEF SomeCodes
<1> QED
  BY <1>t, <1>1, <1>2, <1>3, <1>4, <1>5, <1>6, <1>7, <1>8, <1>9, <1>10, <1>11, <1>12, <1>13,
     <1>14, <1>15 DEF Types

(* They depend on those of its parts.                                      *)
LEMMA CommonAlike ==
  ASSUME NEW S, NEW f, NEW g, \A x \in S : f[x] = g[x]
  PROVE  Common(f, S) = Common(g, S)
  BY DEF Common

LEMMA CodesOfAlike ==
  ASSUME NEW f, NEW g, NEW v, Sendable(v), \A x \in Parts(v) : f[x] = g[x]
  PROVE  CodesOf(f, v) = CodesOf(g, v)
<1>t. v[1] \in Types \ {"unhashable"}
  BY DEF Sendable, WellFormed
<1>1. CASE v[1] \in {"nil", "bool", "string", "map", "message", "response"}
  BY <1>1, CodesOfNil, CodesOfBool, CodesOfString, CodesOfMap, CodesOfMessage, CodesOfResponse
<1>2. CASE v[1] \in {"int32", "int64"}
  BY <1>2, CodesOfInt32, CodesOfInt64
<1>3. CASE v[1] \in {"byte", "int16", "float32", "float64", "custom"}
  BY <1>3, CodesOfByte, CodesOfInt16, CodesOfFloat32, CodesOfFloat64, CodesOfCustom
<1>4. CASE v[1] = "[]interface{}"
  <2>1. Parts(v) = Range(v[2])
    BY <1>4 DEF Parts, ArrayTypes
  <2>2. Common(f, Range(v[2])) = Common(g, Range(v[2]))
    BY <2>1, CommonAlike
  <2>3. ASSUME NEW c PROVE c \in CodesOf(f, v) <=> c \in CodesOf(g, v)
    BY <1>4, <2>2, CodesOfArray
  <2> QED
    BY <2>3
<1>5. CASE v[1] \in ArrayTypes \ {"[]interface{}"}
  BY <1>5, CodesOfArrays
<1> QED
  BY <1>t, <1>1, <1>2, <1>3, <1>4, <1>5 DEF Types

(* CodesFor is what its definition says.                                   *)
LEMMA CodesForIs ==
  /\ \A v \in Writable : CodesFor[v] = CodesOf(CodesFor, v) /\ SomeCodes(CodesFor[v])
  /\ DOMAIN CodesFor = Writable
<1> DEFINE V == SUBSET Byte
           G == [x \in Writable \X [Writable -> V] |-> CodesOf(x[2], x[1])]
<1>1. {} \in V
  OBVIOUS
<1>2. \A v \in Writable, f \in [Writable -> V] : G[<<v, f>>] = CodesOf(f, v)
  OBVIOUS
<1>3. \A v \in Writable, f \in [Writable -> V] : G[<<v, f>>] \in V
  BY <1>2, WritableIs, CodesOfSome DEF SomeCodes
<1>4. ASSUME NEW v \in Writable, NEW f, NEW g,
             \A x \in Writable : Height[x] < Height[v] => f[x] = g[x]
      PROVE  CodesOf(f, v) = CodesOf(g, v)
  BY <1>4, WritableIs, HeightIs, CodesOfAlike
<1>5. Ranked(Writable, Height, V, G)
  <2>1. ASSUME NEW v \in Writable, NEW f \in [Writable -> V], NEW g \in [Writable -> V],
               \A x \in Writable : Height[x] < Height[v] => f[x] = g[x]
        PROVE  G[<<v, f>>] = G[<<v, g>>]
    <3>1. CodesOf(f, v) = CodesOf(g, v)
      BY <2>1, <1>4
    <3>2. G[<<v, f>>] = CodesOf(f, v) /\ G[<<v, g>>] = CodesOf(g, v)
      BY <1>2
    <3> QED
      BY <3>1, <3>2
  <2> HIDE DEF G, V
  <2> QED
    BY <1>3, <2>1, HeightIs DEF Ranked
<1>6. CodesFor = [v \in Writable |-> CodesOf(CodesFor, v)]
  <2>1. PICK f \in [Writable -> V] : \A v \in Writable : f[v] = G[<<v, f>>]
    <3> HIDE DEF G, V
    <3>1. \E f \in [Writable -> V] : \A v \in Writable : f[v] = G[<<v, f>>]
      <4> DEFINE D == Writable
                 rank == Height
                 none == {}
      <4>1. none \in V /\ Ranked(D, rank, V, G)
        BY <1>1, <1>5
      <4> HIDE DEF D, rank, none
      <4>2. \E f \in [D -> V] : \A v \in D : f[v] = G[<<v, f>>]
        BY <4>1, RankedRecursion
      <4> QED
        BY <4>2 DEF D
    <3> QED
      BY <3>1
  <2>2. f = [v \in Writable |-> CodesOf(f, v)]
    BY <1>2, <2>1
  <2>3. \E c : c = [v \in Writable |-> CodesOf(c, v)]
    BY <2>2
  <2> HIDE DEF G, V
  <2> QED
    BY <2>3 DEF CodesFor
<1> QED
  BY <1>6, WritableIs, CodesOfSome

(* An element of a set that is not empty.                                  *)
LEMMA SomeIs ==
  ASSUME NEW S, S # {}
  PROVE  Some(S) \in S
  BY DEF Some

(* p gives bytes for every encoding of the values in S; q gives the same.  *)
Writes(p, S) == \A x \in S : \A tc \in CodesFor[x] : p[<<x, tc>>] \in Seq(Byte)

Agrees(p, q, S) == \A x \in S : \A tc \in CodesFor[x] : q[<<x, tc>>] = p[<<x, tc>>]

LEMMA CodesForSome ==
  ASSUME NEW v \in Writable
  PROVE  CodesFor[v] \subseteq Byte /\ CodesFor[v] # {} /\ Some(CodesFor[v]) \in CodesFor[v]
  BY CodesForIs, SomeIs DEF SomeCodes

LEMMA CommonIs ==
  ASSUME NEW S, NEW tc
  PROVE  tc \in Common(CodesFor, S) <=> tc \in Byte /\ \A x \in S : tc \in CodesFor[x]
  BY DEF Common

LEMMA OneByte == \A c \in Byte : <<c>> \in Seq(Byte) /\ Len(<<c>>) = 1
  OBVIOUS

LEMMA TaggedBytes ==
  ASSUME NEW S, NEW v \in S, S \subseteq Writable, NEW p, NEW q, Writes(p, S), Agrees(p, q, S)
  PROVE  Tagged(p, v) \in Seq(Byte) /\ Tagged(q, v) = Tagged(p, v)
<1> DEFINE tc == Some(CodesFor[v])
<1>1. tc \in CodesFor[v] /\ tc \in Byte
  BY CodesForSome
<1> HIDE DEF tc
<1>2. p[<<v, tc>>] \in Seq(Byte) /\ q[<<v, tc>>] = p[<<v, tc>>]
  BY <1>1 DEF Writes, Agrees
<1>3. <<tc>> \in Seq(Byte)
  BY <1>1
<1>4. <<tc>> \o p[<<v, tc>>] \in Seq(Byte)
  BY <1>2, <1>3
<1> QED
  BY <1>2, <1>4 DEF Tagged, tc

(* The parts of what is written of several values.                         *)
UntaggedParts(p, s, tc) == [i \in DOMAIN s |-> p[<<s[i], tc>>]]

TaggedParts(p, s) == [i \in DOMAIN s |-> Tagged(p, s[i])]

TableParts(p, t, keys) == [i \in DOMAIN keys |-> <<keys[i]>> \o Tagged(p, t[keys[i]])]

PairParts(p, m, keys) ==
  [i \in DOMAIN keys |->
     LET k == Some(CodesFor[keys[i]])
         v == Some(CodesFor[m[keys[i]]])
     IN <<k, v>> \o p[<<keys[i], k>>] \o p[<<m[keys[i]], v>>]]

BareParts(p, m, keys, kt, vt) ==
  [i \in DOMAIN keys |-> p[<<keys[i], kt>>] \o p[<<m[keys[i]], vt>>]]

LEMMA UntaggedBytes ==
  ASSUME NEW S, NEW s \in Seq(S), NEW p, NEW q, Writes(p, S), Agrees(p, q, S),
         NEW tc \in Common(CodesFor, S)
  PROVE  /\ UntaggedParts(p, s, tc) \in Seq(Seq(Byte)) /\ Len(UntaggedParts(p, s, tc)) = Len(s)
         /\ UntaggedParts(q, s, tc) = UntaggedParts(p, s, tc)
<1>1. \A i \in DOMAIN s : s[i] \in S
  OBVIOUS
<1>2. \A x \in S : tc \in CodesFor[x]
  BY CommonIs
<1>3. \A i \in DOMAIN s : p[<<s[i], tc>>] \in Seq(Byte) /\ q[<<s[i], tc>>] = p[<<s[i], tc>>]
  BY <1>1, <1>2 DEF Writes, Agrees
<1>4. UntaggedParts(p, s, tc) = [i \in DOMAIN s |-> UntaggedParts(p, s, tc)[i]]
  BY DEF UntaggedParts
<1>5. \A i \in DOMAIN s : UntaggedParts(p, s, tc)[i] \in Seq(Byte)
  BY <1>3 DEF UntaggedParts
<1>6. UntaggedParts(q, s, tc) = UntaggedParts(p, s, tc)
  BY <1>3 DEF UntaggedParts
<1> QED
  BY <1>4, <1>5, <1>6, FromDomain

LEMMA TaggedPartsBytes ==
  ASSUME NEW S, S \subseteq Writable, NEW s \in Seq(S),
         NEW p, NEW q, Writes(p, S), Agrees(p, q, S)
  PROVE  /\ TaggedParts(p, s) \in Seq(Seq(Byte)) /\ Len(TaggedParts(p, s)) = Len(s)
         /\ TaggedParts(q, s) = TaggedParts(p, s)
<1>1. \A i \in DOMAIN s : s[i] \in S
  OBVIOUS
<1>3. \A i \in DOMAIN s : Tagged(p, s[i]) \in Seq(Byte) /\ Tagged(q, s[i]) = Tagged(p, s[i])
  BY <1>1, TaggedBytes
<1>4. TaggedParts(p, s) = [i \in DOMAIN s |-> TaggedParts(p, s)[i]]
  BY DEF TaggedParts
<1>5. \A i \in DOMAIN s : TaggedParts(p, s)[i] \in Seq(Byte)
  BY <1>3 DEF TaggedParts
<1>6. TaggedParts(q, s) = TaggedParts(p, s)
  BY <1>3 DEF TaggedParts
<1> QED
  BY <1>4, <1>5, <1>6, FromDomain

LEMMA TableBytes ==
  ASSUME NEW t, DOMAIN t \subseteq Byte, Range(t) \subseteq Writable,
         NEW keys \in Seq(DOMAIN t), NEW p, NEW q, Writes(p, Range(t)), Agrees(p, q, Range(t))
  PROVE  /\ TableParts(p, t, keys) \in Seq(Seq(Byte))
         /\ Len(TableParts(p, t, keys)) = Len(keys)
         /\ TableParts(q, t, keys) = TableParts(p, t, keys)
<1>1. \A i \in DOMAIN keys : keys[i] \in Byte /\ t[keys[i]] \in Range(t)
  <2>1. \A i \in DOMAIN keys : keys[i] \in DOMAIN t
    OBVIOUS
  <2> QED
    BY <2>1 DEF Range
<1>3. ASSUME NEW i \in DOMAIN keys
      PROVE  /\ <<keys[i]>> \o Tagged(p, t[keys[i]]) \in Seq(Byte)
             /\ Tagged(q, t[keys[i]]) = Tagged(p, t[keys[i]])
  <2>1. Tagged(p, t[keys[i]]) \in Seq(Byte) /\ Tagged(q, t[keys[i]]) = Tagged(p, t[keys[i]])
    BY <1>1, TaggedBytes
  <2>2. <<keys[i]>> \in Seq(Byte)
    BY <1>1
  <2> QED
    BY <2>1, <2>2
<1>4. TableParts(p, t, keys) = [i \in DOMAIN keys |-> TableParts(p, t, keys)[i]]
  BY DEF TableParts
<1>5. \A i \in DOMAIN keys : TableParts(p, t, keys)[i] \in Seq(Byte)
  BY <1>3 DEF TableParts
<1>6. TableParts(q, t, keys) = TableParts(p, t, keys)
  BY <1>3 DEF TableParts
<1> QED
  BY <1>4, <1>5, <1>6, FromDomain

MapParts(m) == DOMAIN m \cup Range(m)

LEMMA PairBytes ==
  ASSUME NEW m, MapParts(m) \subseteq Writable, NEW keys \in Seq(DOMAIN m),
         NEW p, NEW q, Writes(p, MapParts(m)), Agrees(p, q, MapParts(m))
  PROVE  /\ PairParts(p, m, keys) \in Seq(Seq(Byte))
         /\ Len(PairParts(p, m, keys)) = Len(keys)
         /\ PairParts(q, m, keys) = PairParts(p, m, keys)
<1>1. \A i \in DOMAIN keys : keys[i] \in MapParts(m) /\ m[keys[i]] \in MapParts(m)
  <2>1. \A i \in DOMAIN keys : keys[i] \in DOMAIN m
    OBVIOUS
  <2> QED
    BY <2>1 DEF Range, MapParts
<1>3. ASSUME NEW i \in DOMAIN keys,
             NEW k, k = Some(CodesFor[keys[i]]), NEW v, v = Some(CodesFor[m[keys[i]]])
      PROVE  /\ <<k, v>> \o p[<<keys[i], k>>] \o p[<<m[keys[i]], v>>] \in Seq(Byte)
             /\ q[<<keys[i], k>>] = p[<<keys[i], k>>]
             /\ q[<<m[keys[i]], v>>] = p[<<m[keys[i]], v>>]
  <2>1. k \in CodesFor[keys[i]] /\ k \in Byte
    BY <1>1, <1>3, CodesForSome
  <2>2. v \in CodesFor[m[keys[i]]] /\ v \in Byte
    BY <1>1, <1>3, CodesForSome
  <2>3. /\ p[<<keys[i], k>>] \in Seq(Byte) /\ q[<<keys[i], k>>] = p[<<keys[i], k>>]
        /\ p[<<m[keys[i]], v>>] \in Seq(Byte) /\ q[<<m[keys[i]], v>>] = p[<<m[keys[i]], v>>]
    BY <1>1, <2>1, <2>2 DEF Writes, Agrees
  <2>4. <<k, v>> \in Seq(Byte)
    BY <2>1, <2>2
  <2> QED
    BY <2>3, <2>4
<1>4. PairParts(p, m, keys) = [i \in DOMAIN keys |-> PairParts(p, m, keys)[i]]
  BY DEF PairParts
<1>5. \A i \in DOMAIN keys : PairParts(p, m, keys)[i] \in Seq(Byte)
  BY <1>3 DEF PairParts
<1>6. PairParts(q, m, keys) = PairParts(p, m, keys)
  BY <1>3 DEF PairParts
<1> QED
  BY <1>4, <1>5, <1>6, FromDomain

LEMMA BareBytes ==
  ASSUME NEW m, NEW keys \in Seq(DOMAIN m),
         NEW p, NEW q, Writes(p, MapParts(m)), Agrees(p, q, MapParts(m)),
         NEW kt \in Common(CodesFor, DOMAIN m), NEW vt \in Common(CodesFor, Range(m))
  PROVE  /\ BareParts(p, m, keys, kt, vt) \in Seq(Seq(Byte))
         /\ Len(BareParts(p, m, keys, kt, vt)) = Len(keys)
         /\ BareParts(q, m, keys, kt, vt) = BareParts(p, m, keys, kt, vt)
<1>1. \A i \in DOMAIN keys : keys[i] \in DOMAIN m /\ m[keys[i]] \in Range(m)
  <2>1. \A i \in DOMAIN keys : keys[i] \in DOMAIN m
    OBVIOUS
  <2> QED
    BY <2>1 DEF Range
<1>2. /\ \A x \in DOMAIN m : kt \in CodesFor[x] /\ x \in MapParts(m)
      /\ \A x \in Range(m) : vt \in CodesFor[x] /\ x \in MapParts(m)
  BY CommonIs DEF MapParts
<1>3. ASSUME NEW i \in DOMAIN keys
      PROVE  /\ p[<<keys[i], kt>>] \o p[<<m[keys[i]], vt>>] \in Seq(Byte)
             /\ q[<<keys[i], kt>>] = p[<<keys[i], kt>>]
             /\ q[<<m[keys[i]], vt>>] = p[<<m[keys[i]], vt>>]
  <2>1. /\ p[<<keys[i], kt>>] \in Seq(Byte) /\ q[<<keys[i], kt>>] = p[<<keys[i], kt>>]
        /\ p[<<m[keys[i]], vt>>] \in Seq(Byte) /\ q[<<m[keys[i]], vt>>] = p[<<m[keys[i]], vt>>]
    BY <1>1, <1>2 DEF Writes, Agrees
  <2> QED
    BY <2>1
<1>4. BareParts(p, m, keys, kt, vt) = [i \in DOMAIN keys |-> BareParts(p, m, keys, kt, vt)[i]]
  BY DEF BareParts
<1>5. \A i \in DOMAIN keys : BareParts(p, m, keys, kt, vt)[i] \in Seq(Byte)
  BY <1>3 DEF BareParts
<1>6. BareParts(q, m, keys, kt, vt) = BareParts(p, m, keys, kt, vt)
  BY <1>3 DEF BareParts
<1> QED
  BY <1>4, <1>5, <1>6, FromDomain

(* The payloads of collections.                                            *)
LEMMA TableIs ==
  ASSUME NEW p, NEW t
  PROVE  Table(p, t) = EncodeVarint[Len(SetToSeq(DOMAIN t))]
                         \o FlattenSeq(TableParts(p, t, SetToSeq(DOMAIN t)))
  BY DEF Table, TableParts

LEMMA FiniteBytes ==
  ASSUME NEW S, S \subseteq Byte
  PROVE  IsFiniteSet(S)
<1>1. IsFiniteSet(0 .. 255)
  <2>1. 0 \in Int /\ 255 \in Int
    OBVIOUS
  <2> QED
    BY <2>1, FS_Interval, Zenon
<1>2. S \in SUBSET (0 .. 255)
  BY DEF Byte
<1> QED
  BY <1>1, <1>2, FS_Subset

LEMMA TableWritten ==
  ASSUME NEW t, DOMAIN t \subseteq Byte, Range(t) \subseteq Writable,
         NEW p, NEW q, Writes(p, Range(t)), Agrees(p, q, Range(t))
  PROVE  Table(p, t) \in Seq(Byte) /\ Table(q, t) = Table(p, t)
<1> DEFINE keys == SetToSeq(DOMAIN t)
<1>1. IsFiniteSet(DOMAIN t)
  BY FiniteBytes
<1>2. keys \in Seq(DOMAIN t)
  BY <1>1, SetToSeqIs
<1>3. Len(keys) \in Nat
  BY <1>2
<1>4. EncodeVarint[Len(keys)] \in Seq(Byte)
  BY <1>3, EncodeVarintIs
<1> HIDE DEF keys
<1>5. /\ TableParts(p, t, keys) \in Seq(Seq(Byte))
      /\ TableParts(q, t, keys) = TableParts(p, t, keys)
  BY <1>2, TableBytes
<1>6. FlattenSeq(TableParts(p, t, keys)) \in Seq(Byte)
  BY <1>5, FlattenType
<1>7. /\ Table(p, t) = EncodeVarint[Len(keys)] \o FlattenSeq(TableParts(p, t, keys))
      /\ Table(q, t) = EncodeVarint[Len(keys)] \o FlattenSeq(TableParts(q, t, keys))
  BY TableIs DEF keys
<1> QED
  BY <1>4, <1>5, <1>6, <1>7

KeyCodes(m) == Common(CodesFor, DOMAIN m) \ Silent

ValueCodes(m) == Common(CodesFor, Range(m)) \ {0}

OneByOne(m, tc) == tc = 20 \/ KeyCodes(m) = {} \/ ValueCodes(m) = {}

LEMMA MapPayloadIs ==
  ASSUME NEW p, NEW m, NEW tc
  PROVE  /\ OneByOne(m, tc) =>
              MapPayload(p, m, tc) = <<0, 0>> \o EncodeVarint[Len(SetToSeq(DOMAIN m))]
                                       \o FlattenSeq(PairParts(p, m, SetToSeq(DOMAIN m)))
         /\ ~ OneByOne(m, tc) =>
              MapPayload(p, m, tc)
                = <<Some(KeyCodes(m)), Some(ValueCodes(m))>> \o EncodeVarint[Len(SetToSeq(DOMAIN m))]
                    \o FlattenSeq(BareParts(p, m, SetToSeq(DOMAIN m),
                                            Some(KeyCodes(m)), Some(ValueCodes(m))))
  BY Codes DEF MapPayload, PairParts, BareParts, OneByOne, KeyCodes, ValueCodes

LEMMA MapWritten ==
  ASSUME NEW m, IsFiniteSet(DOMAIN m), MapParts(m) \subseteq Writable, NEW tc,
         NEW p, NEW q, Writes(p, MapParts(m)), Agrees(p, q, MapParts(m))
  PROVE  MapPayload(p, m, tc) \in Seq(Byte) /\ MapPayload(q, m, tc) = MapPayload(p, m, tc)
<1> DEFINE keys == SetToSeq(DOMAIN m)
<1>2. keys \in Seq(DOMAIN m)
  BY SetToSeqIs
<1>3. Len(keys) \in Nat
  BY <1>2
<1>4. EncodeVarint[Len(keys)] \in Seq(Byte)
  BY <1>3, EncodeVarintIs
<1>5. CASE OneByOne(m, tc)
  <2> HIDE DEF keys
  <2>1. /\ PairParts(p, m, keys) \in Seq(Seq(Byte))
        /\ PairParts(q, m, keys) = PairParts(p, m, keys)
    BY <1>2, PairBytes
  <2>2. FlattenSeq(PairParts(p, m, keys)) \in Seq(Byte)
    BY <2>1, FlattenType
  <2>3. /\ MapPayload(p, m, tc)
             = <<0, 0>> \o EncodeVarint[Len(keys)] \o FlattenSeq(PairParts(p, m, keys))
        /\ MapPayload(q, m, tc)
             = <<0, 0>> \o EncodeVarint[Len(keys)] \o FlattenSeq(PairParts(q, m, keys))
    BY <1>5, MapPayloadIs DEF keys
  <2>4. <<0, 0>> \in Seq(Byte)
    BY DEF Byte
  <2> QED
    BY <1>4, <2>1, <2>2, <2>3, <2>4
<1>6. CASE ~ OneByOne(m, tc)
  <2> DEFINE kt == Some(KeyCodes(m))
             vt == Some(ValueCodes(m))
  <2>1. kt \in Common(CodesFor, DOMAIN m) /\ vt \in Common(CodesFor, Range(m))
    <3>1. kt \in KeyCodes(m) /\ vt \in ValueCodes(m)
      BY <1>6, SomeIs DEF OneByOne
    <3> QED
      BY <3>1 DEF KeyCodes, ValueCodes
  <2>2. kt \in Byte /\ vt \in Byte
    BY <2>1, CommonIs
  <2> HIDE DEF keys, kt, vt
  <2>3. /\ BareParts(p, m, keys, kt, vt) \in Seq(Seq(Byte))
        /\ BareParts(q, m, keys, kt, vt) = BareParts(p, m, keys, kt, vt)
    BY <1>2, <2>1, BareBytes
  <2>4. FlattenSeq(BareParts(p, m, keys, kt, vt)) \in Seq(Byte)
    BY <2>3, FlattenType
  <2>5. /\ MapPayload(p, m, tc)
             = <<kt, vt>> \o EncodeVarint[Len(keys)] \o FlattenSeq(BareParts(p, m, keys, kt, vt))
        /\ MapPayload(q, m, tc)
             = <<kt, vt>> \o EncodeVarint[Len(keys)] \o FlattenSeq(BareParts(q, m, keys, kt, vt))
    BY <1>6, MapPayloadIs DEF keys, kt, vt
  <2>6. <<kt, vt>> \in Seq(Byte)
    BY <2>2
  <2> QED
    BY <1>4, <2>3, <2>4, <2>5, <2>6
<1> QED
  BY <1>5, <1>6

(* The codes that an array is written with.                                *)
ArrayCode(v, tc) ==
  \/ tc = 23
  \/ tc = 64 /\ Common(CodesFor, Range(v[2])) # {}
  \/ tc = 66
  \/ tc \in 65 .. 127 /\ tc # 66 /\ tc - 64 \in Common(CodesFor, Range(v[2]))

LEMMA CodesOfElements ==
  \A e \in 1 .. 63 :
    /\ e \in Byte /\ 64 + e \in 65 .. 127 /\ (64 + e) - 64 = e /\ (e # 2 => 64 + e # 66)
  BY DEF Byte

LEMMA ElementTypes ==
  ASSUME NEW t \in ArrayTypes \ {"[]interface{}"}, NEW e \in ElementCodes(t)
  PROVE  \/ t = "[]bool" /\ e = 2
         \/ t = "[]byte" /\ ElementType(t) = "byte" /\ e = 3
         \/ t = "[]int16" /\ ElementType(t) = "int16" /\ e = 4
         \/ t = "[]int32" /\ ElementType(t) = "int32" /\ e = 9
         \/ t = "[]int64" /\ ElementType(t) = "int64" /\ e = 10
         \/ t = "[]float32" /\ ElementType(t) = "float32" /\ e = 5
         \/ t = "[]float64" /\ ElementType(t) = "float64" /\ e = 6
         \/ t = "[]string" /\ ElementType(t) = "string" /\ e = 7
<1>0. e \in 1 .. 63
  BY ElementCodeIs
<1>1. ArrayType(e) = t
  BY ElementCodeIs
<1>2. e \in Byte
  BY <1>0, CodesOfElements
<1>3. e \in {2, 3, 4, 5, 6, 7, 9, 10}
  BY <1>1, <1>2, ArrayTypeIs
<1>4. CASE e = 2
  BY <1>1, <1>4, ArrayTypeIs
<1>5. CASE e = 3
  BY <1>1, <1>5, ArrayTypeIs
<1>6. CASE e = 4
  BY <1>1, <1>6, ArrayTypeIs
<1>7. CASE e = 5
  BY <1>1, <1>7, ArrayTypeIs
<1>8. CASE e = 6
  BY <1>1, <1>8, ArrayTypeIs
<1>9. CASE e = 7
  BY <1>1, <1>9, ArrayTypeIs
<1>10. CASE e = 9
  BY <1>1, <1>10, ArrayTypeIs
<1>11. CASE e = 10
  BY <1>1, <1>11, ArrayTypeIs
<1> QED
  BY <1>3, <1>4, <1>5, <1>6, <1>7, <1>8, <1>9, <1>10, <1>11

(* Every value of an element type can be written with the element's code.  *)
LEMMA ElementCoded ==
  ASSUME NEW x \in Writable, NEW t \in ArrayTypes \ {"[]interface{}", "[]bool"},
         x[1] = ElementType(t), NEW e \in ElementCodes(t)
  PROVE  e \in CodesFor[x]
<1>0. CodesFor[x] = CodesOf(CodesFor, x)
  BY CodesForIs
<1>1. CASE t = "[]byte" /\ ElementType(t) = "byte" /\ e = 3
  BY <1>0, <1>1, CodesOfByte
<1>2. CASE t = "[]int16" /\ ElementType(t) = "int16" /\ e = 4
  BY <1>0, <1>2, CodesOfInt16
<1>3. CASE t = "[]int32" /\ ElementType(t) = "int32" /\ e = 9
  <2>1. CodesFor[x] = IntCodes(x[2], 9, 30, 11)
    BY <1>0, <1>3, CodesOfInt32
  <2>2. 9 \in IntCodes(x[2], 9, 30, 11)
    BY IntCodesIs
  <2> QED
    BY <1>3, <2>1, <2>2
<1>4. CASE t = "[]int64" /\ ElementType(t) = "int64" /\ e = 10
  <2>1. CodesFor[x] = IntCodes(x[2], 10, 31, 15)
    BY <1>0, <1>4, CodesOfInt64
  <2>2. 10 \in IntCodes(x[2], 10, 31, 15)
    BY IntCodesIs
  <2> QED
    BY <1>4, <2>1, <2>2
<1>5. CASE t = "[]float32" /\ ElementType(t) = "float32" /\ e = 5
  BY <1>0, <1>5, CodesOfFloat32
<1>6. CASE t = "[]float64" /\ ElementType(t) = "float64" /\ e = 6
  BY <1>0, <1>6, CodesOfFloat64
<1>7. CASE t = "[]string" /\ ElementType(t) = "string" /\ e = 7
  BY <1>0, <1>7, CodesOfString
<1>9. t # "[]bool"
  OBVIOUS
<1>10. t \in ArrayTypes \ {"[]interface{}"}
  OBVIOUS
<1>11. \/ t = "[]byte" /\ ElementType(t) = "byte" /\ e = 3
       \/ t = "[]int16" /\ ElementType(t) = "int16" /\ e = 4
       \/ t = "[]int32" /\ ElementType(t) = "int32" /\ e = 9
       \/ t = "[]int64" /\ ElementType(t) = "int64" /\ e = 10
       \/ t = "[]float32" /\ ElementType(t) = "float32" /\ e = 5
       \/ t = "[]float64" /\ ElementType(t) = "float64" /\ e = 6
       \/ t = "[]string" /\ ElementType(t) = "string" /\ e = 7
  BY <1>9, <1>10, ElementTypes
<1> QED
  BY <1>1, <1>2, <1>3, <1>4, <1>5, <1>6, <1>7, <1>11

LEMMA ArrayIs ==
  ASSUME NEW v \in Writable, v[1] \in ArrayTypes
  PROVE  /\ Parts(v) = Range(v[2]) /\ Range(v[2]) \subseteq Writable
         /\ v[2] \in Seq(Range(v[2])) /\ Len(v[2]) <= MaxCollectionElements /\ Len(v[2]) \in Nat
         /\ v[1] # "[]interface{}" => \A x \in Range(v[2]) : x[1] = ElementType(v[1])
<1>1. Parts(v) = Range(v[2])
  BY DEF Parts, ArrayTypes
<1>2. Sendable(v) /\ Parts(v) \subseteq Writable
  BY WritableIs
<1>3. /\ v[2] \in Seq(Range(v[2])) /\ Len(v[2]) <= MaxCollectionElements
      /\ v[1] # "[]interface{}" => \A i \in DOMAIN v[2] : v[2][i][1] = ElementType(v[1])
  BY <1>2 DEF Sendable, WellFormed
<1>4. v[1] # "[]interface{}" => \A x \in Range(v[2]) : x[1] = ElementType(v[1])
  BY <1>3 DEF Range
<1>5. Len(v[2]) \in Nat
  BY <1>3, LenProperties
<1> QED
  BY <1>1, <1>2, <1>3, <1>4, <1>5

LEMMA ArrayCodes ==
  ASSUME NEW v \in Writable, v[1] \in ArrayTypes, NEW tc \in CodesFor[v]
  PROVE  ArrayCode(v, tc) /\ (tc = 66 <=> v[1] = "[]bool")
         /\ (tc \in {23, 64} => v[1] = "[]interface{}")
         /\ (tc \in 65 .. 127 => ArrayType(tc - 64) = v[1])
<1>0. CodesFor[v] = CodesOf(CodesFor, v)
  BY CodesForIs
<1>1. CASE v[1] = "[]interface{}"
  <2> DEFINE S == Common(CodesFor, Range(v[2])) \cap ElementCodes(v[1])
  <2>1. \/ tc = 23 \/ (tc = 64 /\ Common(CodesFor, Range(v[2])) # {})
        \/ tc \in ArraysOf(S)
    BY <1>0, <1>1, CodesOfArray
  <2>2. CASE tc \in ArraysOf(S)
    <3>1. PICK e \in S : tc = 64 + e
      BY <2>2, ArraysOfIs
    <3>2. e \in 1 .. 63 /\ ArrayType(e) = "[]interface{}" /\ e \in Common(CodesFor, Range(v[2]))
      BY <1>1, <3>1, ElementCodeIs
    <3>3. e # 2
      BY <3>2, ArrayTypeIs
    <3>4. tc \in 65 .. 127 /\ tc # 66 /\ tc - 64 = e
      BY <3>1, <3>2, <3>3, CodesOfElements
    <3>5. ArrayCode(v, tc)
      BY <3>2, <3>4 DEF ArrayCode
    <3>6. ArrayType(tc - 64) = v[1]
      BY <1>1, <3>2, <3>4
    <3>7. tc # 66 /\ tc \notin {23, 64}
      BY <3>4
    <3> QED
      BY <1>1, <3>5, <3>6, <3>7
  <2>3. CASE tc = 23 \/ (tc = 64 /\ Common(CodesFor, Range(v[2])) # {})
    <3>1. ArrayCode(v, tc)
      BY <2>3 DEF ArrayCode
    <3>2. tc \notin 65 .. 127
      BY <2>3
    <3>3. tc # 66
      BY <2>3
    <3> QED
      BY <1>1, <3>1, <3>2, <3>3
  <2> QED
    BY <2>1, <2>2, <2>3
<1>2. CASE v[1] \in ArrayTypes \ {"[]interface{}"}
  <2>0. tc \in ArraysOf(ElementCodes(v[1]))
    BY <1>0, <1>2, CodesOfArrays
  <2>1. PICK e \in ElementCodes(v[1]) : tc = 64 + e
    BY <2>0, ArraysOfIs
  <2>2. e \in 1 .. 63 /\ ArrayType(e) = v[1]
    BY <2>1, ElementCodeIs
  <2>3. tc \in 65 .. 127 /\ tc - 64 = e
    BY <2>1, <2>2
  <2>4. CASE v[1] = "[]bool"
    <3>1. e = 2
      BY <1>2, <2>1, <2>4, ElementTypes
    <3>2. tc = 66
      BY <2>1, <3>1
    <3>3. ArrayCode(v, tc) /\ tc \notin {23, 64}
      BY <3>2 DEF ArrayCode
    <3> QED
      BY <2>2, <2>3, <2>4, <3>2, <3>3
  <2>5. CASE v[1] # "[]bool"
    <3>1. e # 2
      BY <2>2, <2>5, ArrayTypeIs
    <3>2. \A x \in Range(v[2]) : e \in CodesFor[x]
      BY <1>2, <2>1, <2>5, ArrayIs, ElementCoded
    <3>3. e \in Common(CodesFor, Range(v[2]))
      BY <2>2, <3>2, CommonIs DEF Byte
    <3>4. tc # 66 /\ tc \notin {23, 64}
      BY <2>1, <2>2, <3>1
    <3>5. ArrayCode(v, tc)
      BY <2>3, <3>3, <3>4 DEF ArrayCode
    <3> QED
      BY <2>2, <2>3, <2>5, <3>4, <3>5
  <2> QED
    BY <2>4, <2>5
<1> QED
  BY <1>1, <1>2

LEMMA EightBits ==
  ASSUME NEW on, \A i \in Int : on[i] \in 0 .. 1, NEW k \in Nat
  PROVE  /\ on[8 * k - 7] + 2 * on[8 * k - 6] + 4 * on[8 * k - 5] + 8 * on[8 * k - 4]
              + 16 * on[8 * k - 3] + 32 * on[8 * k - 2] + 64 * on[8 * k - 1] + 128 * on[8 * k]
             \in Byte
         /\ 8 * k - 7 \in Int /\ 8 * k - 6 \in Int /\ 8 * k - 5 \in Int /\ 8 * k - 4 \in Int
         /\ 8 * k - 3 \in Int /\ 8 * k - 2 \in Int /\ 8 * k - 1 \in Int /\ 8 * k \in Int
<1>1. /\ on[8 * k - 7] \in 0 .. 1 /\ on[8 * k - 6] \in 0 .. 1 /\ on[8 * k - 5] \in 0 .. 1
      /\ on[8 * k - 4] \in 0 .. 1 /\ on[8 * k - 3] \in 0 .. 1 /\ on[8 * k - 2] \in 0 .. 1
      /\ on[8 * k - 1] \in 0 .. 1 /\ on[8 * k] \in 0 .. 1
  OBVIOUS
<1> QED
  BY <1>1 DEF Byte

LEMMA PackBitsBytes ==
  ASSUME NEW W, NEW s \in Seq(W)
  PROVE  PackBits(s) \in Seq(Byte) /\ Len(PackBits(s)) = (Len(s) + 7) \div 8
<1> DEFINE On(i) == IF i <= Len(s) /\ s[i][2] THEN 1 ELSE 0
           Sum(k) == On(8 * k - 7) + 2 * On(8 * k - 6) + 4 * On(8 * k - 5) + 8 * On(8 * k - 4)
              + 16 * On(8 * k - 3) + 32 * On(8 * k - 2) + 64 * On(8 * k - 1) + 128 * On(8 * k)
           n == (Len(s) + 7) \div 8
<1>1. PackBits(s) = [k \in 1 .. n |-> Sum(k)]
  BY DEF PackBits
<1>2. \A i : On(i) \in {0, 1}
  OBVIOUS
<1>3. ASSUME NEW k \in 1 .. n PROVE Sum(k) \in Byte
  <2> DEFINE on == [i \in Int |-> On(i)]
  <2>1. \A i \in Int : on[i] \in 0 .. 1
    <3> HIDE DEF On
    <3> QED
      BY <1>2
  <2>2. \A i \in Int : on[i] = On(i)
    OBVIOUS
  <2> HIDE DEF on
  <2>3. k \in Nat
    OBVIOUS
  <2>4. /\ on[8 * k - 7] + 2 * on[8 * k - 6] + 4 * on[8 * k - 5] + 8 * on[8 * k - 4]
              + 16 * on[8 * k - 3] + 32 * on[8 * k - 2] + 64 * on[8 * k - 1] + 128 * on[8 * k]
             \in Byte
        /\ 8 * k - 7 \in Int /\ 8 * k - 6 \in Int /\ 8 * k - 5 \in Int /\ 8 * k - 4 \in Int
        /\ 8 * k - 3 \in Int /\ 8 * k - 2 \in Int /\ 8 * k - 1 \in Int /\ 8 * k \in Int
    BY <2>1, <2>3, EightBits
  <2> HIDE DEF On
  <2> QED
    BY <2>2, <2>4 DEF Sum
<1>4. n \in Nat
  <2>1. Len(s) \in Nat
    BY LenProperties
  <2> QED
    BY <2>1
<1> HIDE DEF Sum, n
<1>5. PackBits(s) \in [1 .. n -> Byte]
  BY <1>1, <1>3
<1> QED
  BY <1>4, <1>5 DEF n

(* What PayloadOf is, type by type and code by code.                       *)
LEMMA PayloadOfIs ==
  ASSUME NEW p, NEW v, NEW tc
  PROVE  /\ v[1] \in ArrayTypes => PayloadOf(p, v, tc) = ArrayPayload(p, v[2], tc)
         /\ v[1] = "map" => PayloadOf(p, v, tc) = MapPayload(p, v[2], tc)
         /\ v[1] = "bool" => PayloadOf(p, v, tc) = BoolPayload(v[2], tc)
         /\ v[1] \in {"byte", "int16", "int32", "int64"} =>
              PayloadOf(p, v, tc) = NumberPayload(v[2], tc)
         /\ v[1] \in {"float32", "float64"} => PayloadOf(p, v, tc) = FloatPayload(v[2], tc)
         /\ v[1] = "string" => PayloadOf(p, v, tc) = StringPayload(v[2])
         /\ v[1] = "custom" => PayloadOf(p, v, tc) = CustomPayloads(v[2], tc)
         /\ v[1] = "message" => PayloadOf(p, v, tc) = MessagePayload(p, v[2])
         /\ v[1] = "response" => PayloadOf(p, v, tc) = ResponsePayload(p, v[2])
         /\ v[1] = "nil" => PayloadOf(p, v, tc) = <<>>
  BY DEF PayloadOf, ArrayTypes

LEMMA NumberPayloadIs ==
  ASSUME NEW n \in Int, NEW tc
  PROVE  /\ tc \in {3, 11, 15} => NumberPayload(n, tc) = Bytes8(n)
         /\ tc \in {12, 16} => NumberPayload(n, tc) = Bytes8(-n)
         /\ tc \in {4, 13, 17} => NumberPayload(n, tc) = Bytes16(n)
         /\ tc \in {14, 18} => NumberPayload(n, tc) = Bytes16(-n)
         /\ tc \in {9, 10} => NumberPayload(n, tc) = EncodeVarint[Zigzag(n)]
         /\ tc \in {29, 30, 31, 34} => NumberPayload(n, tc) = NoBytes
<1>1. ASSUME tc \in {3, 11, 15} PROVE NumberPayload(n, tc) = Bytes8(n)
  BY <1>1, Codes DEF NumberPayload
<1>2. ASSUME tc \in {12, 16} PROVE NumberPayload(n, tc) = Bytes8(-n)
  BY <1>2, Codes DEF NumberPayload
<1>3. ASSUME tc \in {4, 13, 17} PROVE NumberPayload(n, tc) = Bytes16(n)
  BY <1>3, Codes DEF NumberPayload
<1>4. ASSUME tc \in {14, 18} PROVE NumberPayload(n, tc) = Bytes16(-n)
  BY <1>4, Codes DEF NumberPayload
<1>5. ASSUME tc \in {9, 10} PROVE NumberPayload(n, tc) = EncodeVarint[Zigzag(n)]
  BY <1>5, Codes DEF NumberPayload
<1>6. ASSUME tc \in {29, 30, 31, 34} PROVE NumberPayload(n, tc) = NoBytes
  BY <1>6, Codes DEF NumberPayload
<1> QED
  BY <1>1, <1>2, <1>3, <1>4, <1>5, <1>6

LEMMA BoolPayloadIs ==
  ASSUME NEW tc
  PROVE  /\ tc = 2 => BoolPayload(TRUE, tc) = <<1>> /\ BoolPayload(FALSE, tc) = <<0>>
         /\ tc \in {27, 28} => BoolPayload(TRUE, tc) = <<>> /\ BoolPayload(FALSE, tc) = <<>>
  BY Codes DEF BoolPayload

LEMMA FloatPayloadIs ==
  ASSUME NEW n, NEW tc
  PROVE  /\ tc \in {5, 6} => FloatPayload(n, tc) = n
         /\ tc \in {32, 33} => FloatPayload(n, tc) = <<>>
  BY Codes DEF FloatPayload

LEMMA CustomPayloadsIs ==
  ASSUME NEW n, NEW tc
  PROVE  /\ tc = 19 => CustomPayloads(n, tc) = <<n.id>> \o StringPayload(n.data)
         /\ tc # 19 => CustomPayloads(n, tc) = <<>> \o StringPayload(n.data)
  BY Codes DEF CustomPayloads

LEMMA ElementsPayloadIs ==
  ASSUME NEW p, NEW s, NEW tc
  PROVE  /\ tc = 23 => ElementsPayload(p, s, tc) = AllTagged(p, s)
         /\ tc = 64 => ElementsPayload(p, s, tc) = OnceTagged(p, s)
         /\ tc = 66 => ElementsPayload(p, s, tc) = PackBits(s)
         /\ tc \in 65 .. 127 /\ tc # 66 => ElementsPayload(p, s, tc) = Untagged(p, s, tc - 64)
  BY Codes DEF ElementsPayload

LEMMA ArrayWritten ==
  ASSUME NEW S, S \subseteq Writable, NEW s \in Seq(S), S = Range(s),
         NEW v, v[2] = s, NEW tc, ArrayCode(v, tc),
         NEW p, NEW q, Writes(p, S), Agrees(p, q, S)
  PROVE  ArrayPayload(p, s, tc) \in Seq(Byte) /\ ArrayPayload(q, s, tc) = ArrayPayload(p, s, tc)
<1>1. Len(s) \in Nat
  BY LenProperties
<1>2. EncodeVarint[Len(s)] \in Seq(Byte)
  BY <1>1, EncodeVarintIs
<1>3. ElementsPayload(p, s, tc) \in Seq(Byte)
      /\ ElementsPayload(q, s, tc) = ElementsPayload(p, s, tc)
  <2>1. CASE tc = 23
    <3>1. TaggedParts(p, s) \in Seq(Seq(Byte)) /\ TaggedParts(q, s) = TaggedParts(p, s)
      BY TaggedPartsBytes
    <3>2. AllTagged(p, s) = FlattenSeq(TaggedParts(p, s))
          /\ AllTagged(q, s) = FlattenSeq(TaggedParts(q, s))
      BY DEF AllTagged, TaggedParts
    <3>3. FlattenSeq(TaggedParts(p, s)) \in Seq(Byte)
      BY <3>1, FlattenType
    <3> QED
      BY <2>1, <3>1, <3>2, <3>3, ElementsPayloadIs
  <2>2. CASE tc = 64 /\ Common(CodesFor, S) # {}
    <3> DEFINE c == Some(Common(CodesFor, S))
    <3>1. c \in Common(CodesFor, S)
      BY <2>2, SomeIs
    <3> HIDE DEF c
    <3>2. c \in Byte
      BY <3>1, CommonIs
    <3>3. UntaggedParts(p, s, c) \in Seq(Seq(Byte))
          /\ UntaggedParts(q, s, c) = UntaggedParts(p, s, c)
      BY <3>1, UntaggedBytes
    <3>4. FlattenSeq(UntaggedParts(p, s, c)) \in Seq(Byte)
      BY <3>3, FlattenType
    <3>5. OnceTagged(p, s) = <<c>> \o FlattenSeq(UntaggedParts(p, s, c))
          /\ OnceTagged(q, s) = <<c>> \o FlattenSeq(UntaggedParts(q, s, c))
      BY DEF OnceTagged, Untagged, UntaggedParts, c
    <3>6. <<c>> \in Seq(Byte)
      BY <3>2
    <3>7. OnceTagged(p, s) \in Seq(Byte) /\ OnceTagged(q, s) = OnceTagged(p, s)
      BY <3>3, <3>4, <3>5, <3>6
    <3> QED
      BY <2>2, <3>7, ElementsPayloadIs
  <2>3. CASE tc = 66
    BY <2>3, PackBitsBytes, ElementsPayloadIs
  <2>4. CASE tc \in 65 .. 127 /\ tc # 66 /\ tc - 64 \in Common(CodesFor, S)
    <3> DEFINE c == tc - 64
    <3>1. c \in Common(CodesFor, S)
      BY <2>4
    <3>2. ElementsPayload(p, s, tc) = Untagged(p, s, c) /\ ElementsPayload(q, s, tc) = Untagged(q, s, c)
      BY <2>4, ElementsPayloadIs
    <3> HIDE DEF c
    <3>3. UntaggedParts(p, s, c) \in Seq(Seq(Byte))
          /\ UntaggedParts(q, s, c) = UntaggedParts(p, s, c)
      BY <3>1, UntaggedBytes
    <3>4. FlattenSeq(UntaggedParts(p, s, c)) \in Seq(Byte)
      BY <3>3, FlattenType
    <3>5. Untagged(p, s, c) = FlattenSeq(UntaggedParts(p, s, c))
          /\ Untagged(q, s, c) = FlattenSeq(UntaggedParts(q, s, c))
      BY DEF Untagged, UntaggedParts
    <3> QED
      BY <3>2, <3>3, <3>4, <3>5
  <2> QED
    BY <2>1, <2>2, <2>3, <2>4 DEF ArrayCode
<1> QED
  BY <1>2, <1>3 DEF ArrayPayload

(* The bytes of numbers.                                                   *)
LEMMA NumberBytes ==
  ASSUME NEW n \in Int
  PROVE  /\ Bytes16(n) \in Seq(Byte) /\ Bytes16(-n) \in Seq(Byte)
         /\ EncodeVarint[Zigzag(n)] \in Seq(Byte) /\ NoBytes \in Seq(Byte)
         /\ n \in Byte => Bytes8(n) \in Seq(Byte)
         /\ -n \in Byte => Bytes8(-n) \in Seq(Byte)
<1>1. \A k \in Int : k % 256 \in Byte /\ (k \div 256) % 256 \in Byte
  BY DEF Byte
<1>2. Bytes16(n) \in Seq(Byte)
  BY <1>1 DEF Bytes16
<1>3. Bytes16(-n) \in Seq(Byte)
  <2>1. -n \in Int
    OBVIOUS
  <2> QED
    BY <1>1, <2>1 DEF Bytes16
<1>4. Zigzag(n) \in Nat
  BY DEF Zigzag
<1>5. EncodeVarint[Zigzag(n)] \in Seq(Byte)
  BY <1>4, EncodeVarintIs
<1> QED
  BY <1>2, <1>3, <1>5 DEF NoBytes, Bytes8

(* The numbers that are written with a code.                               *)
NumberCode(n, tc) ==
  \/ tc \in {3, 11, 15} /\ n \in Byte
  \/ tc \in {12, 16} /\ -n \in Byte
  \/ tc = 4
  \/ tc \in {13, 17} /\ n \in Word
  \/ tc \in {14, 18} /\ -n \in Word
  \/ tc \in {9, 10}
  \/ tc \in {29, 30, 31, 34} /\ n = 0

LEMMA NumberCodes ==
  ASSUME NEW v \in Writable, v[1] \in {"byte", "int16", "int32", "int64"},
         NEW tc \in CodesFor[v]
  PROVE  v[2] \in Int /\ NumberCode(v[2], tc)
<1>0. CodesFor[v] = CodesOf(CodesFor, v) /\ Sendable(v)
  BY CodesForIs, WritableIs
<1>w. WellFormed(v)
  BY <1>0 DEF Sendable
<1>1. CASE v[1] = "byte"
  <2>1. v[2] \in Byte
    BY <1>w, <1>1 DEF WellFormed
  <2>2. tc = 3 \/ (tc = 34 /\ v[2] = 0)
    BY <1>0, <1>1, CodesOfByte
  <2>3. v[2] \in Int
    BY <2>1 DEF Byte
  <2> QED
    BY <2>1, <2>2, <2>3 DEF NumberCode
<1>2. CASE v[1] = "int16"
  <2>1. v[2] \in SignedRange(16)
    BY <1>w, <1>2 DEF WellFormed
  <2>2. tc = 4 \/ (tc = 29 /\ v[2] = 0)
    BY <1>0, <1>2, CodesOfInt16
  <2>3. v[2] \in Int
    BY <2>1 DEF SignedRange
  <2> QED
    BY <2>2, <2>3 DEF NumberCode
<1>3. CASE v[1] = "int32"
  <2>1. v[2] \in SignedRange(IntBits)
    BY <1>w, <1>3 DEF WellFormed
  <2>2. CodesFor[v] = IntCodes(v[2], 9, 30, 11)
    BY <1>0, <1>3, CodesOfInt32
  <2>3. \/ tc = 9 \/ (tc = 30 /\ v[2] = 0)
        \/ (tc = 11 /\ v[2] \in Byte) \/ (tc = 12 /\ -v[2] \in Byte)
        \/ (tc = 13 /\ v[2] \in Word) \/ (tc = 14 /\ -v[2] \in Word)
    <3>1. tc \in IntCodes(v[2], 9, 30, 11)
      BY <2>2
    <3>2. 11 + 1 = 12 /\ 11 + 2 = 13 /\ 11 + 3 = 14
      OBVIOUS
    <3> QED
      BY <3>1, <3>2, IntCodesIs
  <2>4. v[2] \in Int
    BY <2>1 DEF SignedRange
  <2> QED
    BY <2>3, <2>4 DEF NumberCode
<1>4. CASE v[1] = "int64"
  <2>1. v[2] \in SignedRange(LongBits)
    BY <1>w, <1>4 DEF WellFormed
  <2>2. CodesFor[v] = IntCodes(v[2], 10, 31, 15)
    BY <1>0, <1>4, CodesOfInt64
  <2>3. \/ tc = 10 \/ (tc = 31 /\ v[2] = 0)
        \/ (tc = 15 /\ v[2] \in Byte) \/ (tc = 16 /\ -v[2] \in Byte)
        \/ (tc = 17 /\ v[2] \in Word) \/ (tc = 18 /\ -v[2] \in Word)
    <3>1. tc \in IntCodes(v[2], 10, 31, 15)
      BY <2>2
    <3>2. 15 + 1 = 16 /\ 15 + 2 = 17 /\ 15 + 3 = 18
      OBVIOUS
    <3> QED
      BY <3>1, <3>2, IntCodesIs
  <2>4. v[2] \in Int
    BY <2>1 DEF SignedRange
  <2> QED
    BY <2>3, <2>4 DEF NumberCode
<1> QED
  BY <1>1, <1>2, <1>3, <1>4

LEMMA NumberWritten ==
  ASSUME NEW n \in Int, NEW tc, NumberCode(n, tc)
  PROVE  NumberPayload(n, tc) \in Seq(Byte)
<1>1. CASE tc \in {3, 11, 15} /\ n \in Byte
  BY <1>1, NumberPayloadIs, NumberBytes
<1>2. CASE tc \in {12, 16} /\ -n \in Byte
  BY <1>2, NumberPayloadIs, NumberBytes
<1>3. CASE tc \in {4, 13, 17}
  BY <1>3, NumberPayloadIs, NumberBytes
<1>4. CASE tc \in {14, 18}
  BY <1>4, NumberPayloadIs, NumberBytes
<1>5. CASE tc \in {9, 10}
  BY <1>5, NumberPayloadIs, NumberBytes
<1>6. CASE tc \in {29, 30, 31, 34}
  BY <1>6, NumberPayloadIs, NumberBytes
<1> QED
  BY <1>1, <1>2, <1>3, <1>4, <1>5, <1>6 DEF NumberCode

LEMMA FixedBytes ==
  ASSUME NEW n \in Nat, NEW f \in [1 .. n -> Byte]
  PROVE  f \in Seq(Byte) /\ Len(f) = n
  OBVIOUS

LEMMA FloatBytes ==
  /\ \A f \in [1 .. 4 -> Byte] : f \in Seq(Byte) /\ Len(f) = 4
  /\ \A f \in [1 .. 8 -> Byte] : f \in Seq(Byte) /\ Len(f) = 8
<1>1. ASSUME NEW f \in [1 .. 4 -> Byte] PROVE f \in Seq(Byte) /\ Len(f) = 4
  <2> DEFINE n == 4
  <2>1. n \in Nat /\ f \in [1 .. n -> Byte]
    BY <1>1
  <2> HIDE DEF n
  <2>2. f \in Seq(Byte) /\ Len(f) = n
    BY <2>1, FixedBytes
  <2> QED
    BY <2>2 DEF n
<1>2. ASSUME NEW f \in [1 .. 8 -> Byte] PROVE f \in Seq(Byte) /\ Len(f) = 8
  <2> DEFINE n == 8
  <2>1. n \in Nat /\ f \in [1 .. n -> Byte]
    BY <1>2
  <2> HIDE DEF n
  <2>2. f \in Seq(Byte) /\ Len(f) = n
    BY <2>1, FixedBytes
  <2> QED
    BY <2>2 DEF n
<1> QED
  BY <1>1, <1>2

LEMMA Together ==
  ASSUME NEW a \in Seq(Byte), NEW b \in Seq(Byte), NEW c \in Seq(Byte), NEW d \in Seq(Byte)
  PROVE  a \o b \in Seq(Byte) /\ a \o b \o c \o d \in Seq(Byte)
  OBVIOUS

LEMMA StringWritten ==
  ASSUME NEW s \in Seq(Byte)
  PROVE  StringPayload(s) \in Seq(Byte)
<1>1. Len(s) \in Nat
  BY LenProperties
<1>2. EncodeVarint[Len(s)] \in Seq(Byte)
  BY <1>1, EncodeVarintIs
<1> QED
  BY <1>2 DEF StringPayload

LEMMA TextIs ==
  ASSUME NEW v \in Writable, v[1] = "string"
  PROVE  v[2] \in Seq(Byte) /\ Len(v[2]) < PowerOfTwo[IntBits]
<1>1. Sendable(v)
  BY WritableIs
<1> QED
  BY <1>1 DEF Sendable

LEMMA PlainWritten ==
  ASSUME NEW v \in Writable, NEW tc \in CodesFor[v],
         v[1] \in {"nil", "bool", "byte", "int16", "int32", "int64", "float32", "float64",
                   "string", "custom"}, NEW p, NEW q
  PROVE  PayloadOf(p, v, tc) \in Seq(Byte) /\ PayloadOf(q, v, tc) = PayloadOf(p, v, tc)
<1>0. CodesFor[v] = CodesOf(CodesFor, v) /\ Sendable(v)
  BY CodesForIs, WritableIs
<1>w. WellFormed(v)
  BY <1>0 DEF Sendable
<1>e. <<>> \in Seq(Byte) /\ <<0>> \in Seq(Byte) /\ <<1>> \in Seq(Byte)
  BY DEF Byte
<1>1. CASE v[1] = "nil"
  BY <1>1, <1>e, PayloadOfIs
<1>2. CASE v[1] = "bool"
  <2>1. v[2] \in BOOLEAN
    BY <1>w, <1>2 DEF WellFormed
  <2>2. tc = 2 \/ tc = 28 \/ tc = 27
    BY <1>0, <1>2, CodesOfBool
  <2>3. BoolPayload(TRUE, tc) \in Seq(Byte) /\ BoolPayload(FALSE, tc) \in Seq(Byte)
    BY <1>e, <2>2, BoolPayloadIs
  <2>4. BoolPayload(v[2], tc) \in Seq(Byte)
    BY <2>1, <2>3
  <2> QED
    BY <1>2, <2>4, PayloadOfIs
<1>3. CASE v[1] \in {"byte", "int16", "int32", "int64"}
  <2>1. NumberPayload(v[2], tc) \in Seq(Byte)
    BY <1>3, NumberCodes, NumberWritten
  <2> QED
    BY <1>3, <2>1, PayloadOfIs
<1>4. CASE v[1] \in {"float32", "float64"}
  <2>1. v[2] \in Seq(Byte)
    <3>1. v[2] \in [1 .. 4 -> Byte] \/ v[2] \in [1 .. 8 -> Byte]
      BY <1>w, <1>4 DEF WellFormed
    <3> QED
      BY <3>1, FloatBytes
  <2>2. tc \in {5, 6, 32, 33}
    BY <1>0, <1>4, CodesOfFloat32, CodesOfFloat64
  <2>3. FloatPayload(v[2], tc) \in Seq(Byte)
    BY <1>e, <2>1, <2>2, FloatPayloadIs
  <2> QED
    BY <1>4, <2>3, PayloadOfIs
<1>5. CASE v[1] = "string"
  BY <1>5, TextIs, StringWritten, PayloadOfIs
<1>6. CASE v[1] = "custom"
  <2>1. v[2].id \in Byte /\ v[2].data \in Seq(Byte)
    BY <1>w, <1>6 DEF WellFormed
  <2>2. StringPayload(v[2].data) \in Seq(Byte)
    BY <2>1, StringWritten
  <2>3. <<v[2].id>> \in Seq(Byte)
    BY <2>1
  <2>4. CustomPayloads(v[2], tc) \in Seq(Byte)
    <3>1. CustomPayloads(v[2], tc) = <<v[2].id>> \o StringPayload(v[2].data)
          \/ CustomPayloads(v[2], tc) = <<>> \o StringPayload(v[2].data)
      BY CustomPayloadsIs
    <3> QED
      BY <1>e, <2>2, <2>3, <3>1, Together
  <2> QED
    BY <1>6, <2>4, PayloadOfIs
<1> QED
  BY <1>1, <1>2, <1>3, <1>4, <1>5, <1>6

(* Messages inside messages.                                               *)
LEMMA MessageIs ==
  ASSUME NEW v \in Writable, v[1] \in {"message", "response"}
  PROVE  /\ v[2].code \in Byte /\ DOMAIN v[2].params \subseteq Byte
         /\ Range(v[2].params) \subseteq Parts(v)
         /\ v[1] = "response" => /\ <<"string", v[2].debug>> \in Parts(v)
                                 /\ v[2].returnCode \in SignedRange(16)
<1>1. Sendable(v)
  BY WritableIs
<1>2. WellFormed(v)
  BY <1>1 DEF Sendable
<1>3. v[2].code \in Byte /\ DOMAIN v[2].params \subseteq Byte
  BY <1>2 DEF WellFormed
<1>4. v[1] = "response" => v[2].returnCode \in SignedRange(16)
  BY <1>2 DEF WellFormed
<1>5. CASE v[1] = "message"
  <2>1. Parts(v) = Range(v[2].params)
    BY <1>5 DEF Parts, ArrayTypes
  <2> QED
    BY <1>3, <1>5, <2>1
<1>6. CASE v[1] = "response"
  <2>1. Parts(v) = {<<"string", v[2].debug>>} \cup Range(v[2].params)
    BY <1>6 DEF Parts, ArrayTypes
  <2> QED
    BY <1>3, <1>4, <1>6, <2>1
<1> QED
  BY <1>5, <1>6

LEMMA MapIs ==
  ASSUME NEW v \in Writable, v[1] = "map"
  PROVE  /\ Parts(v) = MapParts(v[2]) /\ IsFiniteSet(DOMAIN v[2])
         /\ Cardinality(DOMAIN v[2]) <= MaxCollectionElements
         /\ \A k \in DOMAIN v[2] : Comparable(k)
<1>1. Sendable(v)
  BY WritableIs
<1>2. WellFormed(v) /\ \A k \in DOMAIN v[2] : Comparable(k)
  BY <1>1 DEF Sendable
<1>3. Parts(v) = MapParts(v[2])
  BY DEF Parts, MapParts, ArrayTypes
<1> QED
  BY <1>2, <1>3 DEF WellFormed

LEMMA WritesLess ==
  ASSUME NEW p, NEW q, NEW S, NEW T, Writes(p, S), Agrees(p, q, S), T \subseteq S
  PROVE  Writes(p, T) /\ Agrees(p, q, T)
  BY DEF Writes, Agrees

LEMMA PayloadWritten ==
  ASSUME NEW v \in Writable, NEW tc \in CodesFor[v],
         NEW p, NEW q, Writes(p, Parts(v)), Agrees(p, q, Parts(v))
  PROVE  PayloadOf(p, v, tc) \in Seq(Byte) /\ PayloadOf(q, v, tc) = PayloadOf(p, v, tc)
<1>0. Sendable(v) /\ Parts(v) \subseteq Writable
  BY WritableIs
<1>t. v[1] \in Types \ {"unhashable"}
  BY <1>0 DEF Sendable, WellFormed
<1>1. CASE v[1] \in {"nil", "bool", "byte", "int16", "int32", "int64", "float32", "float64",
                   "string", "custom"}
  BY <1>1, PlainWritten
<1>2. CASE v[1] \in ArrayTypes
  <2> DEFINE S == Range(v[2])
             s == v[2]
  <2>1. Parts(v) = S /\ s \in Seq(S) /\ S = Range(s) /\ v[2] = s
    BY <1>2, ArrayIs
  <2>2. ArrayCode(v, tc)
    BY <1>2, ArrayCodes
  <2>3. ArrayPayload(p, s, tc) \in Seq(Byte) /\ ArrayPayload(q, s, tc) = ArrayPayload(p, s, tc)
    <3> HIDE DEF S, s
    <3> QED
      BY <1>0, <2>1, <2>2, ArrayWritten
  <2> QED
    BY <1>2, <2>3, PayloadOfIs
<1>3. CASE v[1] = "map"
  <2>1. MapPayload(p, v[2], tc) \in Seq(Byte) /\ MapPayload(q, v[2], tc) = MapPayload(p, v[2], tc)
    BY <1>0, <1>3, MapIs, MapWritten
  <2> QED
    BY <1>3, <2>1, PayloadOfIs
<1>4. CASE v[1] \in {"message", "response"}
  <2> DEFINE n == v[2]
  <2>1. /\ n.code \in Byte /\ DOMAIN n.params \subseteq Byte
        /\ Range(n.params) \subseteq Parts(v)
        /\ v[1] = "response" => /\ <<"string", n.debug>> \in Parts(v)
                                /\ n.returnCode \in SignedRange(16)
    BY <1>4, MessageIs
  <2>2. Table(p, n.params) \in Seq(Byte) /\ Table(q, n.params) = Table(p, n.params)
    <3>1. Writes(p, Range(n.params)) /\ Agrees(p, q, Range(n.params))
      BY <2>1, WritesLess
    <3> QED
      BY <1>0, <2>1, <3>1, TableWritten
  <2>3. <<n.code>> \in Seq(Byte)
    BY <2>1
  <2>4. CASE v[1] = "message"
    <3>1. /\ PayloadOf(p, v, tc) = <<n.code>> \o Table(p, n.params)
          /\ PayloadOf(q, v, tc) = <<n.code>> \o Table(q, n.params)
      BY <2>4, PayloadOfIs DEF MessagePayload
    <3> QED
      BY <2>2, <2>3, <3>1
  <2>5. CASE v[1] = "response"
    <3> DEFINE t == <<"string", n.debug>>
    <3>1. Tagged(p, t) \in Seq(Byte) /\ Tagged(q, t) = Tagged(p, t)
      <4>1. t \in Parts(v)
        BY <2>1, <2>5
      <4> HIDE DEF t
      <4> QED
        BY <1>0, <4>1, TaggedBytes
    <3>2. Bytes16(n.returnCode) \in Seq(Byte)
      <4>1. n.returnCode \in Int
        BY <2>1, <2>5 DEF SignedRange
      <4> QED
        BY <4>1, NumberBytes
    <3>3. /\ PayloadOf(p, v, tc)
               = <<n.code>> \o Bytes16(n.returnCode) \o Tagged(p, t) \o Table(p, n.params)
          /\ PayloadOf(q, v, tc)
               = <<n.code>> \o Bytes16(n.returnCode) \o Tagged(q, t) \o Table(q, n.params)
      BY <2>5, PayloadOfIs DEF ResponsePayload
    <3>4. <<n.code>> \o Bytes16(n.returnCode) \o Tagged(p, t) \o Table(p, n.params) \in Seq(Byte)
      BY <2>2, <2>3, <3>1, <3>2, Together
    <3>5. <<n.code>> \o Bytes16(n.returnCode) \o Tagged(q, t) \o Table(q, n.params)
            = <<n.code>> \o Bytes16(n.returnCode) \o Tagged(p, t) \o Table(p, n.params)
      BY <2>2, <3>1
    <3> HIDE DEF t, n
    <3> QED
      BY <3>3, <3>4, <3>5
  <2> QED
    BY <1>4, <2>4, <2>5
<1> QED
  BY <1>t, <1>1, <1>2, <1>3, <1>4 DEF Types

LEMMA EncodingsAre ==
  /\ \A x \in Encodings : x[1] \in Writable /\ x[2] \in CodesFor[x[1]] /\ x = <<x[1], x[2]>>
  /\ \A v \in Writable : \A tc \in CodesFor[v] : <<v, tc>> \in Encodings
  BY DEF Encodings

Depth == [x \in Encodings |-> Height[x[1]]]

LEMMA WritesAll ==
  ASSUME NEW p \in [Encodings -> Seq(Byte)], NEW S, S \subseteq Writable
  PROVE  Writes(p, S)
  BY EncodingsAre DEF Writes

LEMMA AgreesBelow ==
  ASSUME NEW x \in Encodings, NEW p, NEW q,
         \A y \in Encodings : Depth[y] < Depth[x] => p[y] = q[y]
  PROVE  Agrees(p, q, Parts(x[1]))
<1>1. x[1] \in Writable
  BY EncodingsAre
<1>2. ASSUME NEW u \in Parts(x[1]), NEW tc \in CodesFor[u] PROVE q[<<u, tc>>] = p[<<u, tc>>]
  <2>1. u \in Writable /\ Height[u] < Height[x[1]]
    BY <1>1, HeightIs
  <2>2. <<u, tc>> \in Encodings
    BY <2>1, EncodingsAre
  <2>3. Depth[<<u, tc>>] = Height[u] /\ Depth[x] = Height[x[1]]
    BY <2>2 DEF Depth
  <2> QED
    BY <1>2, <2>1, <2>2, <2>3
<1> QED
  BY <1>2 DEF Agrees

(* Payload is what its definition says.                                    *)
LEMMA PayloadIs ==
  \A v \in Writable : \A tc \in CodesFor[v] :
    /\ Payload[<<v, tc>>] = PayloadOf(Payload, v, tc)
    /\ Payload[<<v, tc>>] \in Seq(Byte)
<1> DEFINE D == Encodings
           rank == Depth
           V == Seq(Byte)
           G == [x \in D \X [D -> V] |-> PayloadOf(x[2], x[1][1], x[1][2])]
           none == <<>>
<1>1. none \in V
  OBVIOUS
<1>2. \A x \in D, f \in [D -> V] : G[<<x, f>>] = PayloadOf(f, x[1], x[2])
  OBVIOUS
<1>3. ASSUME NEW x \in D, NEW f \in [D -> V], NEW g,
             \A y \in D : rank[y] < rank[x] => f[y] = g[y]
      PROVE  /\ PayloadOf(f, x[1], x[2]) \in V
             /\ PayloadOf(g, x[1], x[2]) = PayloadOf(f, x[1], x[2])
  <2>1. x[1] \in Writable /\ x[2] \in CodesFor[x[1]]
    BY EncodingsAre
  <2>2. Parts(x[1]) \subseteq Writable
    BY <2>1, WritableIs
  <2>3. Writes(f, Parts(x[1])) /\ Agrees(f, g, Parts(x[1]))
    BY <1>3, <2>2, WritesAll, AgreesBelow
  <2> QED
    BY <2>1, <2>3, PayloadWritten
<1>4. \A x \in D, f \in [D -> V] : G[<<x, f>>] \in V
  <2> SUFFICES ASSUME NEW x \in D, NEW f \in [D -> V] PROVE G[<<x, f>>] \in V
    OBVIOUS
  <2>1. PayloadOf(f, x[1], x[2]) \in V
    <3> HIDE DEF D, V, G, rank
    <3> QED
      BY <1>3
  <2> QED
    BY <1>2, <2>1
<1>5. rank \in [D -> Nat]
  <2>1. \A x \in D : Height[x[1]] \in Nat
    BY EncodingsAre, HeightIs
  <2> QED
    BY <2>1 DEF Depth
<1>6. Ranked(D, rank, V, G)
  <2>1. ASSUME NEW x \in D, NEW f \in [D -> V], NEW g \in [D -> V],
               \A y \in D : rank[y] < rank[x] => f[y] = g[y]
        PROVE  G[<<x, f>>] = G[<<x, g>>]
    <3>1. PayloadOf(g, x[1], x[2]) = PayloadOf(f, x[1], x[2])
      <4> HIDE DEF D, V, G, rank
      <4> QED
        BY <1>3, <2>1
    <3>2. G[<<x, f>>] = PayloadOf(f, x[1], x[2]) /\ G[<<x, g>>] = PayloadOf(g, x[1], x[2])
      BY <1>2
    <3> QED
      BY <3>1, <3>2
  <2> HIDE DEF D, V, G, rank
  <2> QED
    BY <1>4, <1>5, <2>1 DEF Ranked
<1>7. Payload = [x \in D |-> PayloadOf(Payload, x[1], x[2])]
  <2>1. PICK f \in [D -> V] : \A x \in D : f[x] = G[<<x, f>>]
    <3> HIDE DEF D, V, G, rank, none
    <3>1. \E f \in [D -> V] : \A x \in D : f[x] = G[<<x, f>>]
      BY <1>1, <1>6, RankedRecursion
    <3> QED
      BY <3>1
  <2>2. f = [x \in D |-> PayloadOf(f, x[1], x[2])]
    BY <1>2, <2>1
  <2>3. \E c : c = [x \in D |-> PayloadOf(c, x[1], x[2])]
    BY <2>2
  <2> HIDE DEF G, V, rank
  <2> QED
    BY <2>3 DEF Payload
<1>8. \A x \in D : Payload[x] = PayloadOf(Payload, x[1], x[2])
  <2> HIDE DEF D
  <2> QED
    BY <1>7
<1>9. Payload \in [D -> V]
  <2>1. Payload = [x \in D |-> Payload[x]]
    <3> HIDE DEF D
    <3> QED
      BY <1>7
  <2>2. ASSUME NEW x \in D, NEW g \in [D -> V],
               \A y \in D : rank[y] < rank[x] => g[y] = Payload[y]
        PROVE  Payload[x] = G[<<x, g>>]
    <3>1. PayloadOf(Payload, x[1], x[2]) = PayloadOf(g, x[1], x[2])
      <4> HIDE DEF D, V, G, rank
      <4> QED
        BY <1>3, <2>2
    <3> QED
      BY <1>2, <1>8, <3>1
  <2> DEFINE f == Payload
  <2>3. f = [x \in D |-> f[x]]
    BY <2>1
  <2>4. \A x \in D : \A g \in [D -> V] :
          (\A y \in D : rank[y] < rank[x] => g[y] = f[y]) => f[x] = G[<<x, g>>]
    <3> HIDE DEF D, V, G, rank
    <3> QED
      BY <2>2
  <2> HIDE DEF D, V, G, rank, none, f
  <2>5. f \in [D -> V]
    BY <1>1, <1>6, <2>3, <2>4, RankedType
  <2> QED
    BY <2>5 DEF f
<1> QED
  BY <1>8, <1>9, EncodingsAre

-----------------------------------------------------------------------------
(* The server, and what its messages are read as.                          *)

(* The parameters that the server has written: values it sends, and bytes  *)
(* that stand for them.                                                    *)
Encoded(v) == {<<tc>> \o Payload[<<v, tc>>] : tc \in CodesFor[v]}

SentRight(s) ==
  /\ s \in Seq([key : Byte, v : Writable, bytes : Seq(Byte)])
  /\ \A i \in DOMAIN s : s[i].bytes \in Encoded(s[i].v)
  /\ Len(s) <= MaxParameters

LEMMA SendsWritable == Values \subseteq Writable
<1> SUFFICES ASSUME NEW v \in Values PROVE v \in Writable
  OBVIOUS
<1>1. MaxNesting \in Nat
  BY ValuesAssumption
<1>2. 0 \in 0 .. MaxNesting
  BY <1>1
<1>3. v \in Below(v)[0]
  BY BelowIs
<1> QED
  BY <1>2, <1>3 DEF Writable

LEMMA EncodedBytes ==
  ASSUME NEW v \in Writable, NEW tc \in CodesFor[v]
  PROVE  tc \in Byte /\ <<tc>> \o Payload[<<v, tc>>] \in Seq(Byte)
<1>1. Payload[<<v, tc>>] \in Seq(Byte)
  BY PayloadIs
<1>2. tc \in Byte
  BY CodesForIs DEF SomeCodes
<1> HIDE DEF Byte
<1>3. <<tc>> \in Seq(Byte)
  BY <1>2
<1> QED
  BY <1>1, <1>2, <1>3

LEMMA SentRightStart == SentRight(<<>>)
<1>1. 0 <= MaxParameters
  BY ValuesAssumption, WidthsAssumption
<1> QED
  BY <1>1, EmptySeq DEF SentRight

LEMMA SentRightPut ==
  ASSUME SentRight(sent), TNext
  PROVE  SentRight(sent')
<1> DEFINE R == [key : Byte, v : Writable, bytes : Seq(Byte)]
           N == Len(sent)
<1>1. /\ sent \in Seq(R) /\ Len(sent) < MaxParameters
      /\ \A i \in DOMAIN sent : sent[i].bytes \in Encoded(sent[i].v)
  BY DEF SentRight, TNext
<1>2. PICK key \in Keys, v \in (IF sent = <<>> THEN Values ELSE Followers) :
        \E tc \in CodesFor[v] : Put(key, v, tc)
  BY DEF TNext
<1>3. key \in Byte /\ v \in Writable /\ MaxParameters \in Int
  BY SendsWritable, ValuesAssumption
<1>4. PICK tc \in CodesFor[v] : Put(key, v, tc)
  BY <1>2
<1> DEFINE w == <<tc>> \o Payload[<<v, tc>>]
           e == [key |-> key, v |-> v, bytes |-> w]
<1>5. w \in Seq(Byte) /\ w \in Encoded(v)
  BY <1>3, <1>4, EncodedBytes DEF Encoded
<1>6. sent' = Append(sent, e)
  BY <1>4 DEF Put
<1> HIDE DEF w
<1>7. e \in R /\ e.bytes \in Encoded(e.v)
  BY <1>3, <1>5
<1> HIDE DEF e, R
<1>8. /\ sent' \in Seq(R) /\ Len(sent') = N + 1 /\ N \in Nat
      /\ \A n \in 1 .. N : sent'[n] = sent[n]
      /\ sent'[N + 1] = e
  BY <1>1, <1>6, <1>7, AppendProperties, LenProperties
<1>9. \A i \in DOMAIN sent' : sent'[i].bytes \in Encoded(sent'[i].v)
  <2> SUFFICES ASSUME NEW i \in 1 .. N + 1 PROVE sent'[i].bytes \in Encoded(sent'[i].v)
    BY <1>8
  <2>1. CASE i = N + 1
    BY <1>7, <1>8, <2>1
  <2>2. CASE i # N + 1
    <3>1. i \in 1 .. N /\ i \in DOMAIN sent
      BY <1>1, <1>8, <2>2
    <3> QED
      BY <1>1, <1>8, <3>1
  <2> QED
    BY <2>1, <2>2
<1>10. Len(sent') <= MaxParameters
  BY <1>1, <1>3, <1>8
<1> QED
  BY <1>8, <1>9, <1>10 DEF SentRight, R

(* What it has written of its table is bytes.                              *)
LEMMA WrittenBytes ==
  ASSUME SentRight(sent)
  PROVE  /\ \A i \in DOMAIN sent : Written(i) \in Seq(Byte) /\ sent[i].key \in Byte
         /\ \A n \in 0 .. Len(sent) : Bytes(n) \in Seq(Byte)
<1>1. ASSUME NEW i \in DOMAIN sent PROVE Written(i) \in Seq(Byte) /\ sent[i].key \in Byte
  <2> DEFINE R == [key : Byte, v : Writable, bytes : Seq(Byte)]
  <2>0. sent \in Seq(R)
    BY DEF SentRight
  <2> HIDE DEF R
  <2>r. sent[i] \in R
    BY <2>0
  <2>1. sent[i] \in [key : Byte, v : Writable, bytes : Seq(Byte)]
    BY <2>r DEF R
  <2>2. sent[i].key \in Byte /\ sent[i].bytes \in Seq(Byte)
    BY <2>1
  <2> HIDE DEF Byte
  <2>3. <<sent[i].key>> \in Seq(Byte)
    BY <2>2
  <2> QED
    BY <2>2, <2>3 DEF Written
<1>2. ASSUME NEW n \in 0 .. Len(sent) PROVE Bytes(n) \in Seq(Byte)
  <2> DEFINE s == [i \in 1 .. n |-> Written(i)]
  <2>1. sent \in Seq([key : Byte, v : Writable, bytes : Seq(Byte)])
    BY DEF SentRight
  <2>2. Len(sent) \in Nat /\ DOMAIN sent = 1 .. Len(sent)
    BY <2>1
  <2>3. n \in Nat /\ 1 .. n \subseteq DOMAIN sent
    BY <2>2
  <2>4. s \in Seq(Seq(Byte))
    <3>1. \A i \in 1 .. n : Written(i) \in Seq(Byte)
      BY <1>1, <2>3
    <3> QED
      BY <2>3, <3>1
  <2> HIDE DEF s
  <2>5. FlattenSeq(s) \in Seq(Byte)
    BY <2>4, FlattenType
  <2>6. EncodeVarint[Len(sent)] \in Seq(Byte)
    BY <2>2, EncodeVarintIs
  <2>7. Bytes(n) = EncodeVarint[Len(sent)] \o FlattenSeq(s)
    BY DEF Bytes, s
  <2> QED
    BY <2>5, <2>6, <2>7
<1> QED
  BY <1>1, <1>2

LEMMA DamagedBytes ==
  ASSUME SentRight(sent)
  PROVE  Damaged \subseteq Seq(Byte)
<1> DEFINE N == Len(sent)
<1>1. N \in Nat /\ DOMAIN sent = 1 .. N /\ (sent # <<>> => N # 0)
  BY EmptySeq DEF SentRight
<1>2. CASE sent = <<>>
  BY <1>2 DEF Damaged
<1>3. CASE sent # <<>>
  <2> DEFINE w == Written(N)
             p == Bytes(N - 1)
             m == Least(MaxCut, Len(w) - 1)
             E(k, t) == p \o Take(w, k) \o t
  <2>1. N \in DOMAIN sent /\ N - 1 \in 0 .. N
    BY <1>1, <1>3
  <2>2. w \in Seq(Byte) /\ p \in Seq(Byte)
    BY <2>1, WrittenBytes
  <2>3. Damaged = {E(k, t) : k \in 0 .. m, t \in Tails}
    BY <1>3 DEF Damaged
  <2> HIDE DEF w, p
  <2>4. ASSUME NEW k \in 0 .. m, NEW t \in Tails
        PROVE  E(k, t) \in Seq(Byte)
    <3>1. t \in Seq(Byte) /\ MaxCut \in Nat
      BY ValuesAssumption
    <3>2. Len(w) \in Nat
      BY <2>2
    <3>3. m \in Int /\ m <= Len(w) - 1
      BY <3>1, <3>2 DEF Least
    <3> HIDE DEF m
    <3>4. k \in Nat /\ k <= Len(w)
      BY <3>2, <3>3
    <3>5. Take(w, k) \in Seq(Byte)
      BY <2>2, <3>4, TakeDrop
    <3> QED
      BY <2>2, <3>1, <3>5
  <2> HIDE DEF m
  <2> HIDE DEF E
  <2> QED
    BY <2>3, <2>4
<1> QED
  BY <1>2, <1>3

(* Whatever the bytes of a table are, what readParameterTable makes of     *)
(* them is well typed.                                                     *)
LEMMA EntriesTyped ==
  ASSUME NEW b \in Seq(Byte), NEW e \in Range(ReadEntries(Deserialize, b).v)
  PROVE  e[1] \in Byte /\ Good(e[2])
<1> DEFINE O == Outputs(Deserialize, b)
           s == ReadEntries(Deserialize, b)
<1>1. Sound(Deserialize, b) /\ Alike(Deserialize, Deserialize, b)
  BY DeserializeSound DEF Alike
<1>2. s \in Reads(Seq(Byte \X O), b) /\ \A v \in O : Good(v)
  BY <1>1, ReadEntriesReads, OutputsGood
<1> HIDE DEF O, s
<1>3. s.v \in Seq(Byte \X O)
  BY <1>2 DEF Reads
<1>4. PICK i \in DOMAIN s.v : e = s.v[i]
  BY DEF Range, s
<1>5. s.v[i] \in Byte \X O
  BY <1>3, <1>4
<1> QED
  BY <1>2, <1>4, <1>5

LEMMA GoodTyped ==
  ASSUME NEW v, Good(v)
  PROVE  WellTyped(v)
<1>1. 0 .. MaxNesting \subseteq Nat
  BY ValuesAssumption
<1> QED
  BY <1>1 DEF Good, WellTyped

LEMMA SentRightHolds == WSpec => []SentRight(sent)
<1>1. WInit => SentRight(sent)
  BY SentRightStart DEF WInit, TInit
<1>2. SentRight(sent) /\ [WNext]_<<sent, wire, parser, heard, meant>> => SentRight(sent)'
  <2> SUFFICES ASSUME SentRight(sent), [WNext]_<<sent, wire, parser, heard, meant>>
               PROVE  SentRight(sent')
    OBVIOUS
  <2>1. CASE WPut
    BY <2>1, SentRightPut DEF WPut
  <2>2. ASSUME NEW w \in Sending, Post(w) PROVE SentRight(sent')
    BY <2>2, SentRightStart DEF Post, Sends
  <2>3. ASSUME NEW b \in wire, Parse(b) PROVE SentRight(sent')
    BY <2>3 DEF Parse
  <2>4. CASE UNCHANGED <<sent, wire, parser, heard, meant>>
    BY <2>4
  <2> QED
    BY <2>1, <2>2, <2>3, <2>4 DEF WNext
<1> QED
  BY <1>1, <1>2, PTL DEF WSpec

(* The parameters that readParameterTable makes of a damaged message have  *)
(* keys that are bytes and values of Go types at every level, and no       *)
(* collection in them is longer than maxCollectionElements.                *)
THEOREM WellTypedTables == WSpec => []TypeOK
<1>1. SentRight(sent) => TypeOK
  <2> SUFFICES ASSUME SentRight(sent), NEW b \in Damaged,
                      NEW e \in Range(ReadEntries(Deserialize, b).v)
               PROVE  e[1] \in Byte /\ WellTyped(e[2])
    BY DEF TypeOK
  <2>1. b \in Seq(Byte)
    BY DamagedBytes
  <2> QED
    BY <2>1, EntriesTyped, GoodTyped
<1> QED
  BY <1>1, SentRightHolds, PTL

-----------------------------------------------------------------------------
(* Single values are read back as they were written.                       *)

(* What stands in front of other bytes is read, and they are left.         *)
LEMMA Joins ==
  ASSUME NEW A, NEW a \in Seq(A), NEW b \in Seq(A), NEW c \in Seq(A)
  PROVE  a \o b \in Seq(A) /\ (a \o b) \o c = a \o (b \o c) /\ Len(a \o b) = Len(a) + Len(b)
  OBVIOUS

LEMMA Joined ==
  ASSUME NEW A, NEW a \in Seq(A), NEW b \in Seq(A)
  PROVE  /\ a \o b \in Seq(A) /\ Len(a \o b) = Len(a) + Len(b)
         /\ Take(a \o b, Len(a)) = a /\ Drop(a \o b, Len(a)) = b
<1> DEFINE s == a \o b
           m == Len(a)
           n == Len(b)
<1>1. m \in Nat /\ n \in Nat /\ s \in Seq(A) /\ Len(s) = m + n
      /\ (\A i \in 1 .. m : s[i] = a[i]) /\ (\A i \in 1 .. n : s[m + i] = b[i])
  OBVIOUS
<1> HIDE DEF s
<1>2. Take(s, m) = a
  <2>1. Take(s, m) \in Seq(A) /\ Len(Take(s, m)) = m /\ \A i \in 1 .. m : Take(s, m)[i] = s[i]
    BY <1>1 DEF Take
  <2>2. \A i \in 1 .. m : Take(s, m)[i] = a[i]
    BY <1>1, <2>1
  <2> QED
    BY <1>1, <2>1, <2>2, SameSeq
<1>3. Drop(s, m) = b
  <2>1. /\ Drop(s, m) \in Seq(A) /\ Len(Drop(s, m)) = n
        /\ \A i \in 1 .. n : Drop(s, m)[i] = s[m + i]
    BY <1>1 DEF Drop
  <2>2. \A i \in 1 .. n : Drop(s, m)[i] = b[i]
    BY <1>1, <2>1
  <2> QED
    BY <1>1, <2>1, <2>2, SameSeq
<1> QED
  BY <1>1, <1>2, <1>3 DEF s

LEMMA ByteRead ==
  ASSUME NEW c \in Byte, NEW t \in Seq(Byte)
  PROVE  ReadByte(<<c>> \o t) = Read(c, t)
  BY OneJoined DEF ReadByte

LEMMA OneGroup ==
  ASSUME NEW z \in Nat, NEW P \in Nat, z >= 128, z < 128 * P
  PROVE  /\ z \div 128 < P /\ 128 + (z % 128) \in Byte /\ ~ (128 + (z % 128) < 128)
         /\ (z \div 128) * 128 + (128 + (z % 128)) - 128 = z
<1>1. z \div 128 \in Nat /\ z % 128 \in 0 .. 127 /\ z = 128 * (z \div 128) + (z % 128)
  BY Sevens
<1> DEFINE q == z \div 128
           m == z % 128
<1> HIDE DEF q, m
<1>2. q \in Nat /\ m \in 0 .. 127 /\ z = 128 * q + m
  BY <1>1 DEF q, m
<1>3. q < P /\ 128 + m \in 0 .. 255 /\ ~ (128 + m < 128) /\ q * 128 + (128 + m) - 128 = z
  BY <1>2
<1> QED
  BY <1>3 DEF q, m, Byte

Found(b, n, z, t) == Varint[<<b, n>>] = [ok |-> TRUE, v |-> z, rest |-> t]

LEMMA VarintShort ==
  ASSUME NEW z \in Nat, z < 128, NEW t \in Seq(Byte), NEW n \in Nat \ {0}
  PROVE  Found(EncodeVarint[z] \o t, n, z, t)
<1> DEFINE b == <<z>> \o t
           more == Varint[<<Tail(b), n - 1>>]
<1>1. EncodeVarint[z] = <<z>>
  BY EncodeVarintIs
<1>2. z \in Byte
  BY DEF Byte
<1>3. b \in Seq(Byte) /\ b # <<>> /\ b[1] = z /\ Tail(b) = t
  BY <1>2, OneJoined
<1> HIDE DEF b
<1>4. Varint[<<b, n>>] = VarintOf(b, n, more)
  BY <1>3, VarintIs
<1> HIDE DEF more
<1>5. VarintOf(b, n, more) = [ok |-> TRUE, v |-> z, rest |-> t]
  BY <1>3 DEF VarintOf
<1> QED
  BY <1>1, <1>4, <1>5 DEF b, Found

LEMMA EncodeLong ==
  ASSUME NEW z \in Nat, z >= 128
  PROVE  EncodeVarint[z] = <<128 + (z % 128)>> \o EncodeVarint[z \div 128]
<1>1. EncodeVarint[z] = IF z < 128 THEN <<z>> ELSE <<128 + (z % 128)>> \o EncodeVarint[z \div 128]
  BY EncodeVarintIs
<1>2. ~ (z < 128)
  OBVIOUS
<1> QED
  BY <1>1, <1>2, Zenon

LEMMA RecordChanged ==
  ASSUME NEW a, NEW b, NEW c, NEW w
  PROVE  [[ok |-> a, v |-> b, rest |-> c] EXCEPT !.v = w] = [ok |-> a, v |-> w, rest |-> c]
  OBVIOUS

LEMMA VarintMore ==
  ASSUME NEW q \in Nat, NEW c \in Byte, ~ (c < 128), NEW t \in Seq(Byte), NEW u \in Seq(Byte),
         NEW n \in Nat \ {0}, Found(u, n - 1, q, t), NEW z, z = q * 128 + c - 128
  PROVE  Found(<<c>> \o u, n, z, t)
<1> DEFINE b == <<c>> \o u
           more == [ok |-> TRUE, v |-> q, rest |-> t]
<1>1. b \in Seq(Byte) /\ b # <<>> /\ b[1] = c /\ Tail(b) = u
  BY OneJoined
<1> HIDE DEF b
<1>2. Varint[<<b, n>>] = VarintOf(b, n, more)
  <2>1. Varint[<<u, n - 1>>] = more
    BY DEF Found
  <2> QED
    BY <1>1, <2>1, VarintIs
<1>3. VarintOf(b, n, more) = [more EXCEPT !.v = IF more.ok THEN @ * 128 + c - 128 ELSE 0]
  <2> HIDE DEF more
  <2> QED
    BY <1>1 DEF VarintOf
<1>4. [more EXCEPT !.v = IF more.ok THEN @ * 128 + c - 128 ELSE 0]
        = [ok |-> TRUE, v |-> q * 128 + c - 128, rest |-> t]
  <2>1. more.ok = TRUE /\ more.v = q
    OBVIOUS
  <2>2. \A w : [more EXCEPT !.v = w] = [ok |-> TRUE, v |-> w, rest |-> t]
    BY RecordChanged
  <2> HIDE DEF more
  <2>3. (IF more.ok THEN more.v * 128 + c - 128 ELSE 0) = q * 128 + c - 128
    BY <2>1, Zenon
  <2> QED
    BY <2>2, <2>3, Zenon
<1> QED
  BY <1>2, <1>3, <1>4 DEF b, Found

VarintBack(n, z) ==
  \A t \in Seq(Byte) : Found(EncodeVarint[z] \o t, n, z, t)

LEMMA VarintLong ==
  ASSUME NEW z \in Nat, z >= 128, NEW n \in Nat \ {0}, VarintBack(n - 1, z \div 128)
  PROVE  VarintBack(n, z)
<1> DEFINE q == z \div 128
           c == 128 + (z % 128)
           e == EncodeVarint[q]
<1>1. q \in Nat
  BY Sevens
<1>a. z + 1 \in Nat /\ z < 128 * (z + 1)
  OBVIOUS
<1>2. c \in Byte /\ ~ (c < 128) /\ q * 128 + c - 128 = z
  BY <1>a, OneGroup
<1>3. EncodeVarint[z] = <<c>> \o e
  BY EncodeLong
<1>4. \A t \in Seq(Byte) : Found(e \o t, n - 1, q, t)
  BY DEF VarintBack
<1> HIDE DEF q, c
<1>5. e \in Seq(Byte)
  BY <1>1, EncodeVarintIs
<1> HIDE DEF e
<1>6. ASSUME NEW t \in Seq(Byte)
      PROVE  Found(EncodeVarint[z] \o t, n, z, t)
  <2>1. <<c>> \in Seq(Byte)
    BY <1>2, OneByte
  <2>2. (<<c>> \o e) \o t = <<c>> \o (e \o t) /\ e \o t \in Seq(Byte)
    BY <1>5, <2>1, Joins
  <2> DEFINE u == e \o t
  <2>3. Found(u, n - 1, q, t)
    BY <1>4
  <2>4. u \in Seq(Byte)
    BY <2>2
  <2>5. EncodeVarint[z] \o t = <<c>> \o u
    BY <1>3, <2>2
  <2> HIDE DEF u
  <2>6. Found(<<c>> \o u, n, z, t)
    BY <1>1, <1>2, <2>3, <2>4, VarintMore
  <2> QED
    BY <2>5, <2>6
<1> QED
  BY <1>6 DEF VarintBack

LEMMA VarintRound ==
  ASSUME NEW g \in Nat
  PROVE  \A z \in Nat : z < PowerOfTwo[7 * (g + 1)] => VarintBack(g + 1, z)
<1> DEFINE S == {h \in Nat : \A z \in Nat : z < PowerOfTwo[7 * (h + 1)] => VarintBack(h + 1, z)}
<1>1. ASSUME NEW h \in Nat, NEW z \in Nat, z < 128 PROVE VarintBack(h + 1, z)
  <2>1. h + 1 \in Nat \ {0}
    OBVIOUS
  <2> QED
    BY <1>1, <2>1, VarintShort DEF VarintBack
<1>2. 0 \in S
  <2> SUFFICES ASSUME NEW z \in Nat, z < PowerOfTwo[7 * (0 + 1)] PROVE VarintBack(0 + 1, z)
    OBVIOUS
  <2>1. 7 * (0 + 1) = 7
    OBVIOUS
  <2>2. PowerOfTwo[7 * (0 + 1)] = 128
    BY <2>1, PowersOf7And16
  <2>3. z < 128
    BY <2>2
  <2> QED
    BY <1>1, <2>3
<1>3. ASSUME NEW h \in Nat, h \in S PROVE h + 1 \in S
  <2> SUFFICES ASSUME NEW z \in Nat, z < PowerOfTwo[7 * ((h + 1) + 1)]
               PROVE  VarintBack((h + 1) + 1, z)
    OBVIOUS
  <2> DEFINE P == PowerOfTwo[7 * (h + 1)]
             n == (h + 1) + 1
  <2>1. P \in Nat /\ z < 128 * P /\ n \in Nat \ {0} /\ n - 1 = h + 1
    <3>1. h + 1 \in Nat /\ 7 * (h + 1) \in Nat
      OBVIOUS
    <3>2. P \in Nat
      BY <3>1, Powers
    <3>3. PowerOfTwo[7 * ((h + 1) + 1)] = 128 * P
      BY <3>1, PowersBySeven
    <3> QED
      BY <3>2, <3>3
  <2>2. \A y \in Nat : y < P => VarintBack(h + 1, y)
    BY <1>3
  <2> HIDE DEF P, n
  <2>3. CASE z < 128
    <3>1. h + 1 \in Nat
      OBVIOUS
    <3> QED
      BY <1>1, <2>3, <3>1
  <2>4. CASE z >= 128
    <3>1. z \div 128 \in Nat /\ z \div 128 < P
      BY <2>1, SmallQuotient
    <3>2. VarintBack(n - 1, z \div 128)
      BY <2>1, <2>2, <3>1
    <3>3. VarintBack(n, z)
      BY <2>1, <2>4, <3>2, VarintLong
    <3> QED
      BY <3>3 DEF n
  <2> QED
    BY <2>3, <2>4
<1>4. Nat \subseteq S
  <2> HIDE DEF S
  <2> QED
    BY <1>2, <1>3, Induction
<1> QED
  BY <1>4

LEMMA CompressedRound ==
  ASSUME NEW bits \in Nat \ {0}, NEW z \in Nat, z < PowerOfTwo[bits], NEW t \in Seq(Byte)
  PROVE  ReadCompressed(EncodeVarint[z] \o t, bits) = Read(z, t)
<1> DEFINE g == Groups(bits)
           h == g - 1
<1>1. h \in Nat /\ h + 1 = g /\ bits <= 7 * (h + 1) /\ 7 * (h + 1) \in Nat
  BY DEF Groups
<1> HIDE DEF g, h
<1>2. PowerOfTwo[bits] <= PowerOfTwo[7 * (h + 1)]
      /\ PowerOfTwo[bits] \in Nat /\ PowerOfTwo[7 * (h + 1)] \in Nat
  BY <1>1, PowersGrow, Powers
<1>3. z < PowerOfTwo[7 * (h + 1)]
  BY <1>2
<1>4. Varint[<<EncodeVarint[z] \o t, g>>] = [ok |-> TRUE, v |-> z, rest |-> t]
  BY <1>1, <1>3, VarintRound DEF VarintBack, Found
<1>5. z % PowerOfTwo[bits] = z
  BY <1>2
<1> QED
  BY <1>4, <1>5 DEF ReadCompressed, g

LEMMA ZigzagBack ==
  ASSUME NEW H \in Nat, NEW n \in -H .. H - 1
  PROVE  /\ Zigzag(n) \in Nat /\ Zigzag(n) < 2 * H
         /\ (IF Zigzag(n) % 2 = 0 THEN Zigzag(n) \div 2 ELSE -(Zigzag(n) \div 2) - 1) = n
<1>1. CASE n >= 0
  <2>1. Zigzag(n) = 2 * n
    BY <1>1 DEF Zigzag
  <2> QED
    BY <1>1, <2>1
<1>2. CASE ~ (n >= 0)
  <2> DEFINE m == -n - 1
  <2>1. Zigzag(n) = 2 * m + 1 /\ m \in Nat /\ n = -m - 1
    BY <1>2 DEF Zigzag
  <2> HIDE DEF m
  <2>2. (2 * m + 1) % 2 = 1 /\ (2 * m + 1) \div 2 = m
    BY <2>1
  <2> QED
    BY <2>1, <2>2
<1> QED
  BY <1>1, <1>2

LEMMA ZigzagRound ==
  ASSUME NEW bits \in Nat \ {0}, NEW n \in SignedRange(bits), NEW t \in Seq(Byte)
  PROVE  ReadZigzag(EncodeVarint[Zigzag(n)] \o t, bits) = Read(n, t)
<1> DEFINE H == PowerOfTwo[bits - 1]
           z == Zigzag(n)
           r == ReadCompressed(EncodeVarint[z] \o t, bits)
<1>1. H \in Nat /\ PowerOfTwo[bits] = 2 * H
  <2>1. bits - 1 \in Nat
    OBVIOUS
  <2> QED
    BY <2>1, Powers
<1>2. n \in -H .. H - 1
  BY DEF SignedRange
<1> HIDE DEF H
<1>3. z \in Nat /\ z < 2 * H /\ (IF z % 2 = 0 THEN z \div 2 ELSE -(z \div 2) - 1) = n
  BY <1>1, <1>2, ZigzagBack
<1> HIDE DEF z
<1>4. r = Read(z, t)
  BY <1>1, <1>3, CompressedRound
<1>5. r.v = z /\ r.rest = t
  BY <1>4 DEF Read
<1>6. ReadZigzag(EncodeVarint[z] \o t, bits)
        = Read(IF r.v % 2 = 0 THEN r.v \div 2 ELSE -(r.v \div 2) - 1, r.rest)
  BY DEF ReadZigzag
<1> HIDE DEF r
<1> QED
  BY <1>3, <1>5, <1>6 DEF z

LEMMA CountRound ==
  ASSUME NEW n \in Nat, n <= MaxCollectionElements, NEW t \in Seq(Byte)
  PROVE  /\ ReadCount(EncodeVarint[n] \o t) = Read(n, t)
         /\ BoundedCount(n, MaxCollectionElements) = n
<1>1. n < PowerOfTwo[IntBits] /\ MaxCollectionElements \in Nat
  <2>1. PowerOfTwo[IntBits] \in Nat
    BY WidthsAre, Powers
  <2> QED
    BY <2>1, WidthsAssumption
<1>2. ReadCount(EncodeVarint[n] \o t) = Read(n, t)
  BY <1>1, CompressedRound, WidthsAre DEF ReadCount
<1>3. BoundedCount(n, MaxCollectionElements) = n
  BY <1>1 DEF BoundedCount, Least
<1> QED
  BY <1>2, <1>3

(* Numbers of two bytes, and so many bytes as they are.                    *)
LEMMA FixedRound ==
  ASSUME NEW f \in Seq(Byte), NEW t \in Seq(Byte)
  PROVE  ReadFixed(f \o t, Len(f)) = Read(f, t)
<1>1. /\ f \o t \in Seq(Byte) /\ Len(f \o t) = Len(f) + Len(t) /\ Len(f) \in Nat /\ Len(t) \in Nat
      /\ Take(f \o t, Len(f)) = f /\ Drop(f \o t, Len(f)) = t
  BY Joined
<1>2. ~ (Len(f \o t) < Len(f))
  BY <1>1
<1> QED
  BY <1>1, <1>2 DEF ReadFixed

LEMMA Bytes16Are ==
  ASSUME NEW n \in Int
  PROVE  /\ Bytes16(n) \in Seq(Byte) /\ Len(Bytes16(n)) = 2
         /\ Bytes16(n)[1] + 256 * Bytes16(n)[2] = n % 65536
<1>1. n % 256 \in Byte /\ (n \div 256) % 256 \in Byte
  BY TwoBytes DEF Byte
<1>2. /\ Bytes16(n) \in Seq(Byte) /\ Len(Bytes16(n)) = 2
      /\ Bytes16(n)[1] = n % 256 /\ Bytes16(n)[2] = (n \div 256) % 256
  BY <1>1 DEF Bytes16
<1> QED
  BY <1>2, TwoBytes

LEMMA PairRound ==
  ASSUME NEW f \in Seq(Byte), Len(f) = 2, NEW t \in Seq(Byte)
  PROVE  ReadUint16(f \o t) = Read(f[1] + 256 * f[2], t)
<1>1. ReadFixed(f \o t, Len(f)) = Read(f, t)
  BY FixedRound
<1>2. ReadFixed(f \o t, 2) = Read(f, t)
  BY <1>1
<1>3. Read(f, t).v = f /\ Read(f, t).rest = t
  BY DEF Read
<1> QED
  BY <1>2, <1>3 DEF ReadUint16

LEMMA Uint16Round ==
  ASSUME NEW n \in Int, NEW t \in Seq(Byte)
  PROVE  ReadUint16(Bytes16(n) \o t) = Read(n % 65536, t)
<1>1. PICK f : f = Bytes16(n)
  OBVIOUS
<1>2. f \in Seq(Byte) /\ Len(f) = 2 /\ f[1] + 256 * f[2] = n % 65536
  BY <1>1, Bytes16Are
<1>3. ReadUint16(f \o t) = Read(f[1] + 256 * f[2], t)
  BY <1>2, PairRound
<1> QED
  BY <1>1, <1>2, <1>3

LEMMA Signed16Back ==
  ASSUME NEW n \in Int, -32768 <= n, n <= 32767
  PROVE  Signed16(n % 65536) = n
<1>1. CASE n >= 0
  <2>1. n % 65536 = n
    BY <1>1
  <2> QED
    BY <1>1, <2>1 DEF Signed16
<1>2. CASE ~ (n >= 0)
  <2>1. n % 65536 = n + 65536
    BY <1>2
  <2> QED
    BY <1>2, <2>1 DEF Signed16
<1> QED
  BY <1>1, <1>2

LEMMA Word16 ==
  ASSUME NEW n
  PROVE  /\ n \in SignedRange(16) => n \in Int /\ -32768 <= n /\ n <= 32767
         /\ n \in Word => n \in Int /\ n % 65536 = n
<1>1. PowerOfTwo[16 - 1] = 32768 /\ PowerOfTwo[16] = 65536
  <2>1. 16 - 1 = 15
    OBVIOUS
  <2> QED
    BY <2>1, PowersOf7And16
<1>2. ASSUME n \in SignedRange(16) PROVE n \in Int /\ -32768 <= n /\ n <= 32767
  <2>1. PICK h \in Int : h = PowerOfTwo[16 - 1]
    BY <1>1
  <2>2. n \in -h .. h - 1
    BY <1>2, <2>1 DEF SignedRange
  <2>3. n \in Int /\ -h <= n /\ n <= h - 1
    BY <2>2
  <2>4. h = 32768
    BY <1>1, <2>1
  <2> QED
    BY <2>3, <2>4
<1>3. n \in Word => n \in Int /\ 0 <= n /\ n < 65536
  BY <1>1 DEF Word
<1>4. n \in Int /\ 0 <= n /\ n < 65536 => n % 65536 = n
  OBVIOUS
<1> QED
  BY <1>2, <1>3, <1>4

LEMMA Int16Round ==
  ASSUME NEW n \in SignedRange(16), NEW t \in Seq(Byte)
  PROVE  ReadInt16(Bytes16(n) \o t) = Read(n, t)
<1>1. n \in Int /\ Signed16(n % 65536) = n
  BY Word16, Signed16Back
<1>2. ReadUint16(Bytes16(n) \o t) = Read(n % 65536, t)
  BY <1>1, Uint16Round
<1>3. Read(n % 65536, t).v = n % 65536 /\ Read(n % 65536, t).rest = t
  BY DEF Read
<1> QED
  BY <1>1, <1>2, <1>3 DEF ReadInt16

(* Strings.                                                                *)
LEMMA BytesJoin ==
  ASSUME NEW a \in Seq(Byte), NEW b \in Seq(Byte), NEW c \in Seq(Byte)
  PROVE  a \o b \in Seq(Byte) /\ (a \o b) \o c = a \o (b \o c) /\ Len(a \o b) = Len(a) + Len(b)
  BY Joins

LEMMA StringBehind ==
  ASSUME NEW n \in Nat, NEW s \in Seq(Byte), NEW t \in Seq(Byte)
  PROVE  (EncodeVarint[n] \o s) \o t = EncodeVarint[n] \o (s \o t)
<1>1. PICK e : e = EncodeVarint[n]
  OBVIOUS
<1>2. e \in Seq(Byte)
  BY <1>1, EncodeVarintIs
<1> QED
  BY <1>1, <1>2, BytesJoin

LEMMA StringRound ==
  ASSUME NEW s \in Seq(Byte), Len(s) < PowerOfTwo[IntBits], NEW t \in Seq(Byte)
  PROVE  /\ ReadString(StringPayload(s) \o t) = Read(s, t)
         /\ ReadCount(StringPayload(s) \o t) = Read(Len(s), s \o t)
<1>1. PICK u : u = s \o t
  OBVIOUS
<1>2. /\ u \in Seq(Byte) /\ Len(u) = Len(s) + Len(t) /\ Len(s) \in Nat /\ Len(t) \in Nat
      /\ Take(u, Len(s)) = s /\ Drop(u, Len(s)) = t
  BY <1>1, Joined
<1>3. PICK b : b = StringPayload(s) \o t
  OBVIOUS
<1>4. b = EncodeVarint[Len(s)] \o u
  BY <1>1, <1>2, <1>3, StringBehind DEF StringPayload
<1>5. IntBits \in Nat \ {0}
  BY WidthsAre
<1>6. ReadCompressed(b, IntBits) = Read(Len(s), u)
  BY <1>2, <1>4, <1>5, CompressedRound
<1>7. Read(Len(s), u).v = Len(s) /\ Read(Len(s), u).rest = u
  BY DEF Read
<1>8. ~ (Len(s) > Len(u))
  BY <1>2
<1>9. ReadString(b) = Read(s, t)
  BY <1>2, <1>6, <1>7, <1>8 DEF ReadString
<1>10. ReadCount(b) = Read(Len(s), u)
  BY <1>6 DEF ReadCount
<1> QED
  BY <1>1, <1>3, <1>9, <1>10

(* Values that are not made of values are read as they were written.       *)
LEMMA NothingJoined == \A t \in Seq(Byte) : NoBytes \o t = t /\ <<>> \o t = t
  BY DEF NoBytes

LEMMA AsRead ==
  ASSUME NEW type, NEW n, NEW t
  PROVE  As(type, Read(n, t)) = Read(<<type, n>>, t)
  BY DEF As, Read

LEMMA NegatedRead ==
  ASSUME NEW m \in Int, NEW n, NEW t, n = -m
  PROVE  Negated(Read(m, t)) = Read(n, t)
  BY DEF Negated, Read

LEMMA ByteRound ==
  ASSUME NEW n \in Int, NEW t \in Seq(Byte)
  PROVE  /\ n \in Byte => ReadByte(Bytes8(n) \o t) = Read(n, t)
         /\ -n \in Byte => Negated(ReadByte(Bytes8(-n) \o t)) = Read(n, t)
<1>1. ASSUME n \in Byte PROVE ReadByte(Bytes8(n) \o t) = Read(n, t)
  BY <1>1, ByteRead DEF Bytes8
<1>2. ASSUME -n \in Byte PROVE Negated(ReadByte(Bytes8(-n) \o t)) = Read(n, t)
  <2>1. PICK m : m = -n
    OBVIOUS
  <2>2. m \in Byte /\ m \in Int /\ n = -m
    BY <1>2, <2>1
  <2>3. ReadByte(Bytes8(m) \o t) = Read(m, t)
    BY <2>2, ByteRead DEF Bytes8
  <2>4. Negated(Read(m, t)) = Read(n, t)
    BY <2>2, NegatedRead
  <2> QED
    BY <2>1, <2>3, <2>4
<1> QED
  BY <1>1, <1>2

LEMMA WordRound ==
  ASSUME NEW n \in Int, NEW t \in Seq(Byte)
  PROVE  /\ n \in Word => ReadUint16(Bytes16(n) \o t) = Read(n, t)
         /\ -n \in Word => Negated(ReadUint16(Bytes16(-n) \o t)) = Read(n, t)
<1>1. ASSUME n \in Word PROVE ReadUint16(Bytes16(n) \o t) = Read(n, t)
  <2>1. n % 65536 = n
    BY <1>1, Word16
  <2>2. ReadUint16(Bytes16(n) \o t) = Read(n % 65536, t)
    BY Uint16Round
  <2> QED
    BY <2>1, <2>2
<1>2. ASSUME -n \in Word PROVE Negated(ReadUint16(Bytes16(-n) \o t)) = Read(n, t)
  <2>1. PICK m : m = -n
    OBVIOUS
  <2>2. m \in Word /\ m \in Int /\ n = -m
    BY <1>2, <2>1
  <2>3. m % 65536 = m
    BY <2>2, Word16
  <2>4. ReadUint16(Bytes16(m) \o t) = Read(m % 65536, t)
    BY <2>2, Uint16Round
  <2>5. Negated(Read(m, t)) = Read(n, t)
    BY <2>2, NegatedRead
  <2> QED
    BY <2>1, <2>3, <2>4, <2>5
<1> QED
  BY <1>1, <1>2

LEMMA PlainByte ==
  ASSUME NEW b, NEW n, NEW t, ReadByte(b) = Read(n, t)
  PROVE  /\ ReadPlain(b, 3) = Read(<<"byte", n>>, t)
         /\ ReadPlain(b, 11) = Read(<<"int32", n>>, t)
         /\ ReadPlain(b, 15) = Read(<<"int64", n>>, t)
<1>1. /\ ReadPlain(b, 3) = As("byte", ReadByte(b))
      /\ ReadPlain(b, 11) = As("int32", ReadByte(b))
      /\ ReadPlain(b, 15) = As("int64", ReadByte(b))
  BY ReadPlainIs
<1>2. \A type : As(type, Read(n, t)) = Read(<<type, n>>, t)
  BY AsRead
<1> QED
  BY <1>1, <1>2

LEMMA PlainNegatedByte ==
  ASSUME NEW b, NEW n, NEW t, Negated(ReadByte(b)) = Read(n, t)
  PROVE  /\ ReadPlain(b, 12) = Read(<<"int32", n>>, t)
         /\ ReadPlain(b, 16) = Read(<<"int64", n>>, t)
<1>1. /\ ReadPlain(b, 12) = As("int32", Negated(ReadByte(b)))
      /\ ReadPlain(b, 16) = As("int64", Negated(ReadByte(b)))
  BY ReadPlainIs
<1>2. \A type : As(type, Read(n, t)) = Read(<<type, n>>, t)
  BY AsRead
<1> QED
  BY <1>1, <1>2

LEMMA PlainWord ==
  ASSUME NEW b, NEW n, NEW t, ReadUint16(b) = Read(n, t)
  PROVE  /\ ReadPlain(b, 13) = Read(<<"int32", n>>, t)
         /\ ReadPlain(b, 17) = Read(<<"int64", n>>, t)
<1>1. /\ ReadPlain(b, 13) = As("int32", ReadUint16(b))
      /\ ReadPlain(b, 17) = As("int64", ReadUint16(b))
  BY ReadPlainIs
<1>2. \A type : As(type, Read(n, t)) = Read(<<type, n>>, t)
  BY AsRead
<1> QED
  BY <1>1, <1>2

LEMMA PlainNegatedWord ==
  ASSUME NEW b, NEW n, NEW t, Negated(ReadUint16(b)) = Read(n, t)
  PROVE  /\ ReadPlain(b, 14) = Read(<<"int32", n>>, t)
         /\ ReadPlain(b, 18) = Read(<<"int64", n>>, t)
<1>1. /\ ReadPlain(b, 14) = As("int32", Negated(ReadUint16(b)))
      /\ ReadPlain(b, 18) = As("int64", Negated(ReadUint16(b)))
  BY ReadPlainIs
<1>2. \A type : As(type, Read(n, t)) = Read(<<type, n>>, t)
  BY AsRead
<1> QED
  BY <1>1, <1>2

LEMMA PlainShort ==
  ASSUME NEW b, NEW n, NEW t, ReadInt16(b) = Read(n, t)
  PROVE  ReadPlain(b, 4) = Read(<<"int16", n>>, t)
<1>1. ReadPlain(b, 4) = As("int16", ReadInt16(b))
  BY ReadPlainIs
<1>2. \A type : As(type, Read(n, t)) = Read(<<type, n>>, t)
  BY AsRead
<1> QED
  BY <1>1, <1>2

LEMMA PlainZigzag32 ==
  ASSUME NEW b, NEW n, NEW t, ReadZigzag(b, IntBits) = Read(n, t)
  PROVE  ReadPlain(b, 9) = Read(<<"int32", n>>, t)
<1>1. ReadPlain(b, 9) = As("int32", ReadZigzag(b, IntBits))
  BY ReadPlainIs
<1>2. \A type : As(type, Read(n, t)) = Read(<<type, n>>, t)
  BY AsRead
<1> QED
  BY <1>1, <1>2

LEMMA PlainZigzag64 ==
  ASSUME NEW b, NEW n, NEW t, ReadZigzag(b, LongBits) = Read(n, t)
  PROVE  ReadPlain(b, 10) = Read(<<"int64", n>>, t)
<1>1. ReadPlain(b, 10) = As("int64", ReadZigzag(b, LongBits))
  BY ReadPlainIs
<1>2. \A type : As(type, Read(n, t)) = Read(<<type, n>>, t)
  BY AsRead
<1> QED
  BY <1>1, <1>2

LEMMA PlainFloat ==
  ASSUME NEW b, NEW n, NEW t, ReadFixed(b, 4) = Read(n, t)
  PROVE  ReadPlain(b, 5) = Read(<<"float32", n>>, t)
<1>1. ReadPlain(b, 5) = As("float32", ReadFixed(b, 4))
  BY ReadPlainIs
<1>2. \A type : As(type, Read(n, t)) = Read(<<type, n>>, t)
  BY AsRead
<1> QED
  BY <1>1, <1>2

LEMMA PlainDouble ==
  ASSUME NEW b, NEW n, NEW t, ReadFixed(b, 8) = Read(n, t)
  PROVE  ReadPlain(b, 6) = Read(<<"float64", n>>, t)
<1>1. ReadPlain(b, 6) = As("float64", ReadFixed(b, 8))
  BY ReadPlainIs
<1>2. \A type : As(type, Read(n, t)) = Read(<<type, n>>, t)
  BY AsRead
<1> QED
  BY <1>1, <1>2

LEMMA PlainString ==
  ASSUME NEW b, NEW n, NEW t, ReadString(b) = Read(n, t)
  PROVE  ReadPlain(b, 7) = Read(<<"string", n>>, t)
<1>1. ReadPlain(b, 7) = As("string", ReadString(b))
  BY ReadPlainIs
<1>2. \A type : As(type, Read(n, t)) = Read(<<type, n>>, t)
  BY AsRead
<1> QED
  BY <1>1, <1>2

LEMMA PlainZero ==
  ASSUME NEW t
  PROVE  /\ ReadPlain(t, 29) = Read(<<"int16", 0>>, t)
         /\ ReadPlain(t, 30) = Read(<<"int32", 0>>, t)
         /\ ReadPlain(t, 31) = Read(<<"int64", 0>>, t)
         /\ ReadPlain(t, 34) = Read(<<"byte", 0>>, t)
  BY ReadPlainIs

(* The bytes w, with any bytes behind them, are read as v.                 *)
PlainBack(w, tc, v) == \A t \in Seq(Byte) : ReadPlain(w \o t, tc) = Read(v, t)

LEMMA BytesBack ==
  ASSUME NEW n \in Byte
  PROVE  /\ PlainBack(Bytes8(n), 3, <<"byte", n>>)
         /\ PlainBack(Bytes8(n), 11, <<"int32", n>>)
         /\ PlainBack(Bytes8(n), 15, <<"int64", n>>)
<1>1. ASSUME NEW t \in Seq(Byte)
      PROVE  /\ ReadPlain(Bytes8(n) \o t, 3) = Read(<<"byte", n>>, t)
             /\ ReadPlain(Bytes8(n) \o t, 11) = Read(<<"int32", n>>, t)
             /\ ReadPlain(Bytes8(n) \o t, 15) = Read(<<"int64", n>>, t)
  <2>1. PICK b : b = Bytes8(n) \o t
    OBVIOUS
  <2>2. ReadByte(b) = Read(n, t)
    BY <2>1, ByteRead DEF Bytes8
  <2>3. ReadPlain(b, 3) = Read(<<"byte", n>>, t)
    BY <2>2, PlainByte
  <2>4. ReadPlain(b, 11) = Read(<<"int32", n>>, t)
    BY <2>2, PlainByte
  <2>5. ReadPlain(b, 15) = Read(<<"int64", n>>, t)
    BY <2>2, PlainByte
  <2> QED
    BY <2>1, <2>3, <2>4, <2>5
<1> QED
  BY <1>1 DEF PlainBack

LEMMA NegatedBytesBack ==
  ASSUME NEW n \in Int, -n \in Byte
  PROVE  /\ PlainBack(Bytes8(-n), 12, <<"int32", n>>)
         /\ PlainBack(Bytes8(-n), 16, <<"int64", n>>)
<1>1. ASSUME NEW t \in Seq(Byte)
      PROVE  /\ ReadPlain(Bytes8(-n) \o t, 12) = Read(<<"int32", n>>, t)
             /\ ReadPlain(Bytes8(-n) \o t, 16) = Read(<<"int64", n>>, t)
  <2>1. PICK b : b = Bytes8(-n) \o t
    OBVIOUS
  <2>2. Negated(ReadByte(b)) = Read(n, t)
    BY <2>1, ByteRound
  <2>3. ReadPlain(b, 12) = Read(<<"int32", n>>, t)
    BY <2>2, PlainNegatedByte
  <2>4. ReadPlain(b, 16) = Read(<<"int64", n>>, t)
    BY <2>2, PlainNegatedByte
  <2> QED
    BY <2>1, <2>3, <2>4
<1> QED
  BY <1>1 DEF PlainBack

LEMMA WordsBack ==
  ASSUME NEW n \in Word
  PROVE  /\ PlainBack(Bytes16(n), 13, <<"int32", n>>)
         /\ PlainBack(Bytes16(n), 17, <<"int64", n>>)
<1>1. ASSUME NEW t \in Seq(Byte)
      PROVE  /\ ReadPlain(Bytes16(n) \o t, 13) = Read(<<"int32", n>>, t)
             /\ ReadPlain(Bytes16(n) \o t, 17) = Read(<<"int64", n>>, t)
  <2>1. PICK b : b = Bytes16(n) \o t
    OBVIOUS
  <2>2. ReadUint16(b) = Read(n, t)
    BY <2>1, WordRound, Word16
  <2>3. ReadPlain(b, 13) = Read(<<"int32", n>>, t)
    BY <2>2, PlainWord
  <2>4. ReadPlain(b, 17) = Read(<<"int64", n>>, t)
    BY <2>2, PlainWord
  <2> QED
    BY <2>1, <2>3, <2>4
<1> QED
  BY <1>1 DEF PlainBack

LEMMA NegatedWordsBack ==
  ASSUME NEW n \in Int, -n \in Word
  PROVE  /\ PlainBack(Bytes16(-n), 14, <<"int32", n>>)
         /\ PlainBack(Bytes16(-n), 18, <<"int64", n>>)
<1>1. ASSUME NEW t \in Seq(Byte)
      PROVE  /\ ReadPlain(Bytes16(-n) \o t, 14) = Read(<<"int32", n>>, t)
             /\ ReadPlain(Bytes16(-n) \o t, 18) = Read(<<"int64", n>>, t)
  <2>1. PICK b : b = Bytes16(-n) \o t
    OBVIOUS
  <2>2. Negated(ReadUint16(b)) = Read(n, t)
    BY <2>1, WordRound
  <2>3. ReadPlain(b, 14) = Read(<<"int32", n>>, t)
    BY <2>2, PlainNegatedWord
  <2>4. ReadPlain(b, 18) = Read(<<"int64", n>>, t)
    BY <2>2, PlainNegatedWord
  <2> QED
    BY <2>1, <2>3, <2>4
<1> QED
  BY <1>1 DEF PlainBack

LEMMA ShortsBack ==
  ASSUME NEW n \in SignedRange(16)
  PROVE  PlainBack(Bytes16(n), 4, <<"int16", n>>)
<1>1. ASSUME NEW t \in Seq(Byte)
      PROVE  ReadPlain(Bytes16(n) \o t, 4) = Read(<<"int16", n>>, t)
  <2>1. PICK b : b = Bytes16(n) \o t
    OBVIOUS
  <2>2. ReadInt16(b) = Read(n, t)
    BY <2>1, Int16Round
  <2>3. ReadPlain(b, 4) = Read(<<"int16", n>>, t)
    BY <2>2, PlainShort
  <2> QED
    BY <2>1, <2>3
<1> QED
  BY <1>1 DEF PlainBack

LEMMA Zigzag32Back ==
  ASSUME NEW n \in SignedRange(IntBits)
  PROVE  PlainBack(EncodeVarint[Zigzag(n)], 9, <<"int32", n>>)
<1>1. ASSUME NEW t \in Seq(Byte)
      PROVE  ReadPlain(EncodeVarint[Zigzag(n)] \o t, 9) = Read(<<"int32", n>>, t)
  <2>1. PICK b : b = EncodeVarint[Zigzag(n)] \o t
    OBVIOUS
  <2>2. ReadZigzag(b, IntBits) = Read(n, t)
    BY <2>1, ZigzagRound, WidthsAre
  <2>3. ReadPlain(b, 9) = Read(<<"int32", n>>, t)
    BY <2>2, PlainZigzag32
  <2> QED
    BY <2>1, <2>3
<1> QED
  BY <1>1 DEF PlainBack

LEMMA Zigzag64Back ==
  ASSUME NEW n \in SignedRange(LongBits)
  PROVE  PlainBack(EncodeVarint[Zigzag(n)], 10, <<"int64", n>>)
<1>1. ASSUME NEW t \in Seq(Byte)
      PROVE  ReadPlain(EncodeVarint[Zigzag(n)] \o t, 10) = Read(<<"int64", n>>, t)
  <2>1. PICK b : b = EncodeVarint[Zigzag(n)] \o t
    OBVIOUS
  <2>2. ReadZigzag(b, LongBits) = Read(n, t)
    BY <2>1, ZigzagRound, WidthsAre
  <2>3. ReadPlain(b, 10) = Read(<<"int64", n>>, t)
    BY <2>2, PlainZigzag64
  <2> QED
    BY <2>1, <2>3
<1> QED
  BY <1>1 DEF PlainBack

LEMMA ZeroBack ==
  /\ PlainBack(NoBytes, 29, <<"int16", 0>>) /\ PlainBack(NoBytes, 30, <<"int32", 0>>)
  /\ PlainBack(NoBytes, 31, <<"int64", 0>>) /\ PlainBack(NoBytes, 34, <<"byte", 0>>)
  BY NothingJoined, PlainZero DEF PlainBack

(* Numbers, with every code that stands for them.                          *)
LEMMA Int32Round ==
  ASSUME NEW n \in SignedRange(IntBits), n \in Int, NEW tc \in IntCodes(n, 9, 30, 11)
  PROVE  IsPlain(tc) /\ PlainBack(NumberPayload(n, tc), tc, <<"int32", n>>)
<1>1. \/ tc = 9 \/ (tc = 30 /\ n = 0) \/ (tc = 11 /\ n \in Byte) \/ (tc = 12 /\ -n \in Byte)
      \/ (tc = 13 /\ n \in Word) \/ (tc = 14 /\ -n \in Word)
  <2>1. 11 + 1 = 12 /\ 11 + 2 = 13 /\ 11 + 3 = 14
    OBVIOUS
  <2> QED
    BY <2>1, IntCodesIs
<1>2. IsPlain(tc)
  BY <1>1, IsPlainIs
<1>3. PlainBack(NumberPayload(n, tc), tc, <<"int32", n>>)
  <2>1. CASE tc = 9
    BY <2>1, NumberPayloadIs, Zigzag32Back
  <2>2. CASE tc = 30 /\ n = 0
    BY <2>2, NumberPayloadIs, ZeroBack
  <2>3. CASE tc = 11 /\ n \in Byte
    BY <2>3, NumberPayloadIs, BytesBack
  <2>4. CASE tc = 12 /\ -n \in Byte
    BY <2>4, NumberPayloadIs, NegatedBytesBack
  <2>5. CASE tc = 13 /\ n \in Word
    BY <2>5, NumberPayloadIs, WordsBack
  <2>6. CASE tc = 14 /\ -n \in Word
    BY <2>6, NumberPayloadIs, NegatedWordsBack
  <2> QED
    BY <1>1, <2>1, <2>2, <2>3, <2>4, <2>5, <2>6
<1> QED
  BY <1>2, <1>3

LEMMA Int64Round ==
  ASSUME NEW n \in SignedRange(LongBits), n \in Int, NEW tc \in IntCodes(n, 10, 31, 15)
  PROVE  IsPlain(tc) /\ PlainBack(NumberPayload(n, tc), tc, <<"int64", n>>)
<1>1. \/ tc = 10 \/ (tc = 31 /\ n = 0) \/ (tc = 15 /\ n \in Byte) \/ (tc = 16 /\ -n \in Byte)
      \/ (tc = 17 /\ n \in Word) \/ (tc = 18 /\ -n \in Word)
  <2>1. 15 + 1 = 16 /\ 15 + 2 = 17 /\ 15 + 3 = 18
    OBVIOUS
  <2> QED
    BY <2>1, IntCodesIs
<1>2. IsPlain(tc)
  BY <1>1, IsPlainIs
<1>3. PlainBack(NumberPayload(n, tc), tc, <<"int64", n>>)
  <2>1. CASE tc = 10
    BY <2>1, NumberPayloadIs, Zigzag64Back
  <2>2. CASE tc = 31 /\ n = 0
    BY <2>2, NumberPayloadIs, ZeroBack
  <2>3. CASE tc = 15 /\ n \in Byte
    BY <2>3, NumberPayloadIs, BytesBack
  <2>4. CASE tc = 16 /\ -n \in Byte
    BY <2>4, NumberPayloadIs, NegatedBytesBack
  <2>5. CASE tc = 17 /\ n \in Word
    BY <2>5, NumberPayloadIs, WordsBack
  <2>6. CASE tc = 18 /\ -n \in Word
    BY <2>6, NumberPayloadIs, NegatedWordsBack
  <2> QED
    BY <1>1, <2>1, <2>2, <2>3, <2>4, <2>5, <2>6
<1> QED
  BY <1>2, <1>3

LEMMA WritablePair ==
  ASSUME NEW v \in Writable
  PROVE  v = <<v[1], v[2]>> /\ WellFormed(v) /\ CodesFor[v] = CodesOf(CodesFor, v)
<1>1. Sendable(v) /\ CodesFor[v] = CodesOf(CodesFor, v)
  BY WritableIs, CodesForIs
<1>2. Exact(v) /\ WellFormed(v)
  BY <1>1 DEF Sendable
<1>3. v = <<v[1], v[2]>>
  BY <1>2 DEF Exact
<1> QED
  BY <1>1, <1>2, <1>3

(* What is read of the bytes of v behind its code tc.                      *)
PlainRound(v, tc) ==
  IsPlain(tc) /\ \A p : PlainBack(PayloadOf(p, v, tc), tc, v)

LEMMA NilRound ==
  ASSUME NEW v \in Writable, v[1] = "nil", NEW tc \in CodesFor[v]
  PROVE  PlainRound(v, tc)
<1>1. tc \in {0, 8}
  BY WritablePair, CodesOfNil
<1>2. v = Nil
  BY WritablePair DEF WellFormed, Nil
<1>3. \A p : PayloadOf(p, v, tc) = <<>>
  BY PayloadOfIs
<1>4. PlainBack(<<>>, 0, Nil) /\ PlainBack(<<>>, 8, Nil)
  BY NothingJoined, ReadPlainIs DEF PlainBack
<1>5. PlainBack(<<>>, tc, v)
  BY <1>1, <1>2, <1>4
<1>6. \A p : PlainBack(PayloadOf(p, v, tc), tc, v)
  BY <1>3, <1>5
<1> QED
  BY <1>1, <1>6, IsPlainIs DEF PlainRound

LEMMA BoolBytesBack ==
  ASSUME NEW c \in Byte
  PROVE  PlainBack(<<c>>, 2, <<"bool", c # 0>>)
<1>1. ASSUME NEW t \in Seq(Byte)
      PROVE  ReadPlain(<<c>> \o t, 2) = Read(<<"bool", c # 0>>, t)
  <2>1. PICK b : b = <<c>> \o t
    OBVIOUS
  <2>2. ReadByte(b) = Read(c, t)
    BY <2>1, ByteRead
  <2>3. Read(c, t).v = c /\ Read(c, t).rest = t
    BY DEF Read
  <2>4. ReadPlain(b, 2) = Read(<<"bool", ReadByte(b).v # 0>>, ReadByte(b).rest)
    BY ReadPlainIs
  <2> QED
    BY <2>1, <2>2, <2>3, <2>4, Zenon
<1> QED
  BY <1>1 DEF PlainBack

LEMMA BoolBack ==
  /\ PlainBack(BoolPayload(TRUE, 2), 2, <<"bool", TRUE>>)
  /\ PlainBack(BoolPayload(FALSE, 2), 2, <<"bool", FALSE>>)
  /\ PlainBack(BoolPayload(TRUE, 28), 28, <<"bool", TRUE>>)
  /\ PlainBack(BoolPayload(FALSE, 27), 27, <<"bool", FALSE>>)
<1>1. BoolPayload(TRUE, 2) = <<1>> /\ BoolPayload(FALSE, 2) = <<0>>
      /\ BoolPayload(TRUE, 28) = <<>> /\ BoolPayload(FALSE, 27) = <<>>
  BY BoolPayloadIs
<1>2. 0 \in Byte /\ 1 \in Byte
  BY DEF Byte
<1>3. PlainBack(<<1>>, 2, <<"bool", TRUE>>)
  <2>1. PlainBack(<<1>>, 2, <<"bool", 1 # 0>>)
    BY <1>2, BoolBytesBack, Zenon
  <2>2. (1 # 0) = TRUE
    OBVIOUS
  <2> QED
    BY <2>1, <2>2, Zenon
<1>4. PlainBack(<<0>>, 2, <<"bool", FALSE>>)
  <2>1. PlainBack(<<0>>, 2, <<"bool", 0 # 0>>)
    BY <1>2, BoolBytesBack, Zenon
  <2>2. (0 # 0) = FALSE
    OBVIOUS
  <2> QED
    BY <2>1, <2>2, Zenon
<1>5. PlainBack(<<>>, 28, <<"bool", TRUE>>) /\ PlainBack(<<>>, 27, <<"bool", FALSE>>)
  BY NothingJoined, ReadPlainIs DEF PlainBack
<1> QED
  BY <1>1, <1>3, <1>4, <1>5

LEMMA BoolRound ==
  ASSUME NEW v \in Writable, v[1] = "bool", NEW tc \in CodesFor[v]
  PROVE  PlainRound(v, tc)
<1>1. tc \in {2, IF v[2] THEN 28 ELSE 27} /\ v = <<"bool", v[2]>>
  BY WritablePair, CodesOfBool
<1>2. v[2] \in BOOLEAN
  BY WritablePair DEF WellFormed
<1>3. IsPlain(2) /\ IsPlain(27) /\ IsPlain(28)
  BY IsPlainIs
<1>4. \A p : PayloadOf(p, v, tc) = BoolPayload(v[2], tc)
  BY PayloadOfIs
<1>5. CASE v[2] = TRUE
  <2>1. (tc = 2 \/ tc = 28) /\ v = <<"bool", TRUE>>
    BY <1>1, <1>5
  <2>2. PlainBack(BoolPayload(TRUE, tc), tc, v)
    BY <2>1, BoolBack
  <2>3. \A p : PlainBack(PayloadOf(p, v, tc), tc, v)
    BY <1>4, <1>5, <2>2
  <2> QED
    BY <1>3, <2>1, <2>3 DEF PlainRound
<1>6. CASE v[2] = FALSE
  <2>1. (tc = 2 \/ tc = 27) /\ v = <<"bool", FALSE>>
    BY <1>1, <1>6
  <2>2. PlainBack(BoolPayload(FALSE, tc), tc, v)
    BY <2>1, BoolBack
  <2>3. \A p : PlainBack(PayloadOf(p, v, tc), tc, v)
    BY <1>4, <1>6, <2>2
  <2> QED
    BY <1>3, <2>1, <2>3 DEF PlainRound
<1> QED
  BY <1>2, <1>5, <1>6

(* Numbers.                                                                *)
LEMMA ByteCodesBack ==
  ASSUME NEW n \in Int
  PROVE  /\ n \in Byte => PlainBack(NumberPayload(n, 3), 3, <<"byte", n>>)
         /\ n = 0 => PlainBack(NumberPayload(n, 34), 34, <<"byte", n>>)
         /\ n \in SignedRange(16) => PlainBack(NumberPayload(n, 4), 4, <<"int16", n>>)
         /\ n = 0 => PlainBack(NumberPayload(n, 29), 29, <<"int16", n>>)
<1>1. /\ NumberPayload(n, 3) = Bytes8(n) /\ NumberPayload(n, 4) = Bytes16(n)
      /\ NumberPayload(n, 34) = NoBytes /\ NumberPayload(n, 29) = NoBytes
  BY NumberPayloadIs
<1>2. n \in Byte => PlainBack(Bytes8(n), 3, <<"byte", n>>)
  BY BytesBack
<1>3. n \in SignedRange(16) => PlainBack(Bytes16(n), 4, <<"int16", n>>)
  BY ShortsBack
<1>4. n = 0 => PlainBack(NoBytes, 34, <<"byte", n>>) /\ PlainBack(NoBytes, 29, <<"int16", n>>)
  BY ZeroBack
<1> QED
  BY <1>1, <1>2, <1>3, <1>4

LEMMA NumberRound ==
  ASSUME NEW v \in Writable, v[1] \in {"byte", "int16", "int32", "int64"},
         NEW tc \in CodesFor[v]
  PROVE  PlainRound(v, tc)
<1>0. v[2] \in Int
  BY NumberCodes
<1>1. \A p : PayloadOf(p, v, tc) = NumberPayload(v[2], tc)
  BY PayloadOfIs
<1>2. v = <<v[1], v[2]>> /\ WellFormed(v) /\ CodesFor[v] = CodesOf(CodesFor, v)
  BY WritablePair
<1>3. IsPlain(tc) /\ PlainBack(NumberPayload(v[2], tc), tc, v)
  <2>1. CASE v[1] = "byte"
    <3>1. v = <<"byte", v[2]>> /\ v[2] \in Byte /\ (tc = 3 \/ (tc = 34 /\ v[2] = 0))
      BY <1>2, <2>1, CodesOfByte DEF WellFormed
    <3>2. IsPlain(tc)
      BY <3>1, IsPlainIs
    <3>3. PICK n : n = v[2]
      OBVIOUS
    <3>4. n \in Int /\ n \in Byte /\ v = <<"byte", n>>
      BY <1>0, <3>1, <3>3
    <3>5. CASE tc = 3
      <4>1. PlainBack(NumberPayload(n, 3), 3, <<"byte", n>>)
        BY <3>4, ByteCodesBack
      <4> QED
        BY <3>2, <3>3, <3>4, <3>5, <4>1
    <3>6. CASE tc = 34 /\ v[2] = 0
      <4>1. PlainBack(NumberPayload(n, 34), 34, <<"byte", n>>)
        BY <3>3, <3>4, <3>6, ByteCodesBack
      <4> QED
        BY <3>2, <3>3, <3>4, <3>6, <4>1
    <3> QED
      BY <3>1, <3>2, <3>5, <3>6
  <2>2. CASE v[1] = "int16"
    <3>1. v = <<"int16", v[2]>> /\ v[2] \in SignedRange(16) /\ (tc = 4 \/ (tc = 29 /\ v[2] = 0))
      BY <1>2, <2>2, CodesOfInt16 DEF WellFormed
    <3>2. IsPlain(tc)
      BY <3>1, IsPlainIs
    <3>3. PICK n : n = v[2]
      OBVIOUS
    <3>4. n \in Int /\ n \in SignedRange(16) /\ v = <<"int16", n>>
      BY <1>0, <3>1, <3>3
    <3>5. CASE tc = 4
      <4>1. PlainBack(NumberPayload(n, 4), 4, <<"int16", n>>)
        BY <3>4, ByteCodesBack
      <4> QED
        BY <3>2, <3>3, <3>4, <3>5, <4>1
    <3>6. CASE tc = 29 /\ v[2] = 0
      <4>1. PlainBack(NumberPayload(n, 29), 29, <<"int16", n>>)
        BY <3>3, <3>4, <3>6, ByteCodesBack
      <4> QED
        BY <3>2, <3>3, <3>4, <3>6, <4>1
    <3> QED
      BY <3>1, <3>2, <3>5, <3>6
  <2>3. CASE v[1] = "int32"
    <3>1. v = <<"int32", v[2]>> /\ v[2] \in SignedRange(IntBits)
      BY <1>2, <2>3 DEF WellFormed
    <3>2. tc \in IntCodes(v[2], 9, 30, 11)
      BY <1>2, <2>3, CodesOfInt32
    <3>3. IsPlain(tc) /\ PlainBack(NumberPayload(v[2], tc), tc, <<"int32", v[2]>>)
      BY <1>0, <3>1, <3>2, Int32Round
    <3> QED
      BY <3>1, <3>3
  <2>4. CASE v[1] = "int64"
    <3>1. v = <<"int64", v[2]>> /\ v[2] \in SignedRange(LongBits)
      BY <1>2, <2>4 DEF WellFormed
    <3>2. tc \in IntCodes(v[2], 10, 31, 15)
      BY <1>2, <2>4, CodesOfInt64
    <3>3. IsPlain(tc) /\ PlainBack(NumberPayload(v[2], tc), tc, <<"int64", v[2]>>)
      BY <1>0, <3>1, <3>2, Int64Round
    <3> QED
      BY <3>1, <3>3
  <2> QED
    BY <2>1, <2>2, <2>3, <2>4
<1>4. \A p : PlainBack(PayloadOf(p, v, tc), tc, v)
  BY <1>1, <1>3
<1> QED
  BY <1>3, <1>4 DEF PlainRound

(* Floats and strings.                                                     *)
LEMMA FloatsBack ==
  ASSUME NEW f \in Seq(Byte)
  PROVE  /\ Len(f) = 4 => PlainBack(f, 5, <<"float32", f>>)
         /\ Len(f) = 8 => PlainBack(f, 6, <<"float64", f>>)
<1>1. ASSUME NEW t \in Seq(Byte)
      PROVE  /\ Len(f) = 4 => ReadPlain(f \o t, 5) = Read(<<"float32", f>>, t)
             /\ Len(f) = 8 => ReadPlain(f \o t, 6) = Read(<<"float64", f>>, t)
  <2>1. ReadFixed(f \o t, Len(f)) = Read(f, t)
    BY FixedRound
  <2>2. Len(f) = 4 => ReadFixed(f \o t, 4) = Read(f, t)
    BY <2>1
  <2>3. Len(f) = 8 => ReadFixed(f \o t, 8) = Read(f, t)
    BY <2>1
  <2> QED
    BY <2>2, <2>3, PlainFloat, PlainDouble
<1> QED
  BY <1>1 DEF PlainBack

LEMMA FloatRound ==
  ASSUME NEW v \in Writable, v[1] \in {"float32", "float64"}, NEW tc \in CodesFor[v]
  PROVE  PlainRound(v, tc)
<1>1. \A p : PayloadOf(p, v, tc) = FloatPayload(v[2], tc)
  BY PayloadOfIs
<1>2. v = <<v[1], v[2]>> /\ WellFormed(v) /\ CodesFor[v] = CodesOf(CodesFor, v)
  BY WritablePair
<1>3. IsPlain(tc) /\ PlainBack(FloatPayload(v[2], tc), tc, v)
  <2>1. CASE v[1] = "float32"
    <3>1. v = <<"float32", v[2]>> /\ v[2] \in [1 .. 4 -> Byte]
      BY <1>2, <2>1 DEF WellFormed
    <3>2. v[2] \in Seq(Byte) /\ Len(v[2]) = 4
      BY <3>1, FloatBytes
    <3>3. tc = 5 \/ (tc = 32 /\ v[2] = [k \in 1 .. 4 |-> 0])
      BY <1>2, <2>1, CodesOfFloat32
    <3>4. CASE tc = 5
      <4>1. FloatPayload(v[2], tc) = v[2] /\ IsPlain(tc)
        BY <3>4, FloatPayloadIs, IsPlainIs
      <4>2. PlainBack(v[2], 5, v)
        BY <3>1, <3>2, FloatsBack
      <4> QED
        BY <3>4, <4>1, <4>2
    <3>5. CASE tc = 32 /\ v[2] = [k \in 1 .. 4 |-> 0]
      <4>1. \A t : ReadPlain(t, 32) = Read(v, t)
        BY <3>1, <3>5, ReadPlainIs
      <4>2. FloatPayload(v[2], tc) = <<>>
        BY <3>5, FloatPayloadIs
      <4>3. PlainBack(<<>>, 32, v)
        BY <4>1, NothingJoined DEF PlainBack
      <4> QED
        BY <3>5, <4>2, <4>3, IsPlainIs
    <3> QED
      BY <3>3, <3>4, <3>5
  <2>2. CASE v[1] = "float64"
    <3>1. v = <<"float64", v[2]>> /\ v[2] \in [1 .. 8 -> Byte]
      BY <1>2, <2>2 DEF WellFormed
    <3>2. v[2] \in Seq(Byte) /\ Len(v[2]) = 8
      BY <3>1, FloatBytes
    <3>3. tc = 6 \/ (tc = 33 /\ v[2] = [k \in 1 .. 8 |-> 0])
      BY <1>2, <2>2, CodesOfFloat64
    <3>4. CASE tc = 6
      <4>1. FloatPayload(v[2], tc) = v[2] /\ IsPlain(tc)
        BY <3>4, FloatPayloadIs, IsPlainIs
      <4>2. PlainBack(v[2], 6, v)
        BY <3>1, <3>2, FloatsBack
      <4> QED
        BY <3>4, <4>1, <4>2
    <3>5. CASE tc = 33 /\ v[2] = [k \in 1 .. 8 |-> 0]
      <4>1. \A t : ReadPlain(t, 33) = Read(v, t)
        BY <3>1, <3>5, ReadPlainIs
      <4>2. FloatPayload(v[2], tc) = <<>>
        BY <3>5, FloatPayloadIs
      <4>3. PlainBack(<<>>, 33, v)
        BY <4>1, NothingJoined DEF PlainBack
      <4> QED
        BY <3>5, <4>2, <4>3, IsPlainIs
    <3> QED
      BY <3>3, <3>4, <3>5
  <2> QED
    BY <2>1, <2>2
<1>4. \A p : PlainBack(PayloadOf(p, v, tc), tc, v)
  BY <1>1, <1>3
<1> QED
  BY <1>3, <1>4 DEF PlainRound

LEMMA StringsRound ==
  ASSUME NEW v \in Writable, v[1] = "string", NEW tc \in CodesFor[v]
  PROVE  PlainRound(v, tc)
<1>1. \A p : PayloadOf(p, v, tc) = StringPayload(v[2])
  BY PayloadOfIs
<1>2. tc = 7 /\ v = <<"string", v[2]>>
  BY WritablePair, CodesOfString
<1>3. v[2] \in Seq(Byte) /\ Len(v[2]) < PowerOfTwo[IntBits]
  BY TextIs
<1>4. ASSUME NEW t \in Seq(Byte)
      PROVE  ReadPlain(StringPayload(v[2]) \o t, 7) = Read(<<"string", v[2]>>, t)
  <2>1. ReadString(StringPayload(v[2]) \o t) = Read(v[2], t)
    BY <1>3, StringRound
  <2> QED
    BY <2>1, PlainString
<1>5. PlainBack(StringPayload(v[2]), 7, v)
  BY <1>2, <1>4 DEF PlainBack
<1>6. \A p : PlainBack(PayloadOf(p, v, tc), tc, v)
  BY <1>1, <1>2, <1>5
<1> QED
  BY <1>2, <1>6, IsPlainIs DEF PlainRound

-----------------------------------------------------------------------------
(* So are custom values, arrays and maps ...                               *)

(* Custom values.                                                          *)
LEMMA CustomPayloadRound ==
  ASSUME NEW s \in Seq(Byte), Len(s) < PowerOfTwo[IntBits], NEW id, NEW isSlim,
         NEW t \in Seq(Byte)
  PROVE  CustomPayload(StringPayload(s) \o t, id, isSlim)
           = Read(<<"custom", [id |-> id, data |-> s]>>, t)
<1>1. PICK u : u = s \o t
  OBVIOUS
<1>2. /\ u \in Seq(Byte) /\ Len(u) = Len(s) + Len(t) /\ Len(s) \in Nat /\ Len(t) \in Nat
      /\ Take(u, Len(s)) = s /\ Drop(u, Len(s)) = t
  BY <1>1, Joined
<1>3. PICK b : b = StringPayload(s) \o t
  OBVIOUS
<1>4. ReadCount(b) = Read(Len(s), u)
  BY <1>1, <1>3, StringRound
<1>5. Read(Len(s), u).v = Len(s) /\ Read(Len(s), u).rest = u
  BY DEF Read
<1>6. ~ (Len(s) > Len(u))
  BY <1>2
<1>7. CustomPayload(b, id, isSlim) = Read(<<"custom", [id |-> id, data |-> Take(u, Len(s))]>>, Drop(u, Len(s)))
  BY <1>4, <1>5, <1>6 DEF CustomPayload
<1> QED
  BY <1>2, <1>3, <1>7

LEMMA CustomIs ==
  ASSUME NEW v \in Writable, v[1] = "custom"
  PROVE  /\ v = <<"custom", [id |-> v[2].id, data |-> v[2].data]>>
         /\ v[2].id \in Byte /\ v[2].data \in Seq(Byte) /\ Len(v[2].data) < PowerOfTwo[IntBits]
<1>1. Sendable(v)
  BY WritableIs
<1>2. Exact(v) /\ WellFormed(v) /\ Len(v[2].data) < PowerOfTwo[IntBits]
  BY <1>1 DEF Sendable
<1>3. v = <<"custom", v[2]>> /\ v[2] = [id |-> v[2].id, data |-> v[2].data]
  BY <1>2 DEF Exact
<1>4. v[2].id \in Byte /\ v[2].data \in Seq(Byte)
  BY <1>2 DEF WellFormed
<1> QED
  BY <1>2, <1>3, <1>4

(* The bytes w, with any bytes behind them, are read as v.                 *)
Back(d, w, tc, v) == \A t \in Seq(Byte) : ReadValue(d, w \o t, tc) = Read(v, t)

LEMMA SlimCode ==
  ASSUME NEW n \in 0 .. 255, n < 128
  PROVE  128 + n # 19 /\ 128 + n >= 128 /\ (128 + n) % 128 = n /\ 128 + n \in 0 .. 255
  OBVIOUS

LEMMA CustomRound ==
  ASSUME NEW v \in Writable, v[1] = "custom", NEW tc \in CodesFor[v], NEW p, NEW d
  PROVE  Back(d, PayloadOf(p, v, tc), tc, v)
<1>1. PICK id \in Byte : id = v[2].id
  BY CustomIs
<1>2. PICK s \in Seq(Byte) : s = v[2].data
  BY CustomIs
<1>3. Len(s) < PowerOfTwo[IntBits] /\ v = <<"custom", [id |-> id, data |-> s]>>
  BY <1>1, <1>2, CustomIs
<1>4. tc = 19 \/ (tc = 128 + id /\ id < 128)
  BY <1>1, WritablePair, CodesOfCustom
<1>5. PICK w : w = StringPayload(s)
  OBVIOUS
<1>6. w \in Seq(Byte)
  BY <1>5, StringWritten
<1>7. ASSUME NEW t \in Seq(Byte), NEW isSlim
      PROVE  CustomPayload(w \o t, id, isSlim) = Read(v, t)
  BY <1>3, <1>5, CustomPayloadRound
<1>8. PayloadOf(p, v, tc) = CustomPayloads(v[2], tc)
  BY PayloadOfIs
<1>9. CASE tc = 19
  <2>1. PayloadOf(p, v, tc) = <<id>> \o w
    BY <1>1, <1>2, <1>5, <1>8, <1>9, CustomPayloadsIs
  <2>2. ASSUME NEW t \in Seq(Byte)
        PROVE  ReadValue(d, (<<id>> \o w) \o t, 19) = Read(v, t)
    <3>1. PICK b : b = (<<id>> \o w) \o t
      OBVIOUS
    <3>2. w \o t \in Seq(Byte) /\ b = <<id>> \o (w \o t)
      BY <1>6, <3>1, OneByte, BytesJoin
    <3>3. ReadByte(b) = Read(id, w \o t)
      BY <3>2, ByteRead
    <3>4. Read(id, w \o t).v = id /\ Read(id, w \o t).rest = w \o t
      BY DEF Read
    <3>5. ReadValue(d, b, 19) = Custom(b, 19)
      BY ReadValueIs DEF Byte
    <3>6. Custom(b, 19) = CustomPayload(ReadByte(b).rest, ReadByte(b).v, FALSE)
      BY Codes DEF Custom
    <3>7. CustomPayload(w \o t, id, FALSE) = Read(v, t)
      BY <1>7
    <3> QED
      BY <3>1, <3>3, <3>4, <3>5, <3>6, <3>7
  <2> QED
    BY <1>9, <2>1, <2>2 DEF Back
<1>10. CASE tc = 128 + id /\ id < 128
  <2>0. tc # 19 /\ tc >= 128 /\ tc % 128 = id /\ tc \in Byte
    BY <1>10, SlimCode DEF Byte
  <2>1. PayloadOf(p, v, tc) = w
    <3>1. CustomPayloads(v[2], tc) = <<>> \o StringPayload(v[2].data)
      BY <2>0, CustomPayloadsIs
    <3>2. <<>> \o w = w
      BY <1>6, NothingJoined
    <3> QED
      BY <1>2, <1>5, <1>8, <3>1, <3>2
  <2>2. ASSUME NEW t \in Seq(Byte)
        PROVE  ReadValue(d, w \o t, tc) = Read(v, t)
    <3>1. PICK b : b = w \o t
      OBVIOUS
    <3>2. ReadValue(d, b, tc) = Custom(b, tc)
      BY <2>0, ReadValueIs
    <3>3. Custom(b, tc) = CustomPayload(b, tc % 128, TRUE)
      BY <2>0, Codes DEF Custom
    <3>4. CustomPayload(w \o t, id, TRUE) = Read(v, t)
      BY <1>7
    <3> QED
      BY <2>0, <3>1, <3>2, <3>3, <3>4
  <2> QED
    BY <2>1, <2>2 DEF Back
<1> QED
  BY <1>4, <1>9, <1>10

LEMMA PlainsRound ==
  ASSUME NEW v \in Writable, NEW tc \in CodesFor[v],
         v[1] \in {"nil", "bool", "byte", "int16", "int32", "int64", "float32", "float64",
                   "string"}, NEW p, NEW d
  PROVE  Back(d, PayloadOf(p, v, tc), tc, v)
<1>1. PlainRound(v, tc)
  <2>1. CASE v[1] = "nil"
    BY <2>1, NilRound
  <2>2. CASE v[1] = "bool"
    BY <2>2, BoolRound
  <2>3. CASE v[1] \in {"byte", "int16", "int32", "int64"}
    BY <2>3, NumberRound
  <2>4. CASE v[1] \in {"float32", "float64"}
    BY <2>4, FloatRound
  <2>5. CASE v[1] = "string"
    BY <2>5, StringsRound
  <2> QED
    BY <2>1, <2>2, <2>3, <2>4, <2>5
<1>2. IsPlain(tc) /\ PlainBack(PayloadOf(p, v, tc), tc, v)
  BY <1>1 DEF PlainRound
<1>3. tc \in Byte
  BY CodesForSome
<1>4. \A b : ReadValue(d, b, tc) = ReadPlain(b, tc)
  BY <1>2, <1>3, ReadValueIs
<1> QED
  BY <1>2, <1>4 DEF Back, PlainBack

(* Values one after the other.                                             *)
OneBack(one, w, x, k) == \A u \in Seq(Byte) : one[<<w \o u, k - 1>>] = Read(<<x>>, u)

LEMMA TakeOneMore ==
  ASSUME NEW W, NEW s \in Seq(W), NEW k \in 1 .. Len(s)
  PROVE  Take(s, k - 1) \o <<s[k]>> = Take(s, k)
  BY DEF Take

LEMMA TakeAll ==
  ASSUME NEW W, NEW s \in Seq(W)
  PROVE  Take(s, 0) = <<>> /\ Take(s, Len(s)) = s
  BY DEF Take

LEMMA EachBack ==
  ASSUME NEW W, NEW s \in Seq(W), NEW parts \in Seq(Seq(Byte)), Len(parts) = Len(s), NEW one,
         \A k \in 1 .. Len(s) : OneBack(one, parts[k], s[k], k), NEW t \in Seq(Byte)
  PROVE  ReadEach(one, FlattenSeq(parts) \o t, Len(s)) = Read(s, t)
<1>1. PICK n \in Nat : n = Len(s)
  OBVIOUS
<1>2. PICK R \in [0 .. n -> Seq(Byte)] : Rests(R, parts, t)
  BY <1>1, FlattenRests
<1>3. PICK b : b = FlattenSeq(parts) \o t
  OBVIOUS
<1>4. R[0] = b /\ R[n] = t /\ \A k \in 1 .. n : R[k - 1] = parts[k] \o R[k]
  BY <1>1, <1>2, <1>3 DEF Rests
<1> DEFINE r == [k \in 0 .. n |-> Read(Take(s, k), R[k])]
<1>5. \A k \in 0 .. n : r[k] = Read(Take(s, k), R[k])
  OBVIOUS
<1> HIDE DEF r
<1>6. r[0] = Read(<<>>, b)
  <2>1. 0 \in 0 .. n
    OBVIOUS
  <2> QED
    BY <1>4, <1>5, <2>1, TakeAll
<1>7. ASSUME NEW k \in 1 .. n
      PROVE  r[k] = Read(r[k - 1].v \o one[<<r[k - 1].rest, k - 1>>].v,
                         one[<<r[k - 1].rest, k - 1>>].rest)
  <2>1. k \in 0 .. n /\ k - 1 \in 0 .. n
    OBVIOUS
  <2>2. PICK q : q = r[k - 1]
    OBVIOUS
  <2>3. q = Read(Take(s, k - 1), R[k - 1])
    BY <1>5, <2>1, <2>2
  <2>4. q.v = Take(s, k - 1) /\ q.rest = parts[k] \o R[k]
    BY <1>4, <2>3 DEF Read
  <2>5. R[k] \in Seq(Byte)
    BY <1>2, <2>1
  <2>6. one[<<q.rest, k - 1>>] = Read(<<s[k]>>, R[k])
    BY <1>1, <2>4, <2>5 DEF OneBack
  <2>7. Read(<<s[k]>>, R[k]).v = <<s[k]>> /\ Read(<<s[k]>>, R[k]).rest = R[k]
    BY DEF Read
  <2>8. Take(s, k - 1) \o <<s[k]>> = Take(s, k)
    BY <1>1, TakeOneMore
  <2>9. r[k] = Read(Take(s, k), R[k])
    BY <1>5, <2>1
  <2> QED
    BY <2>2, <2>4, <2>6, <2>7, <2>8, <2>9
<1>8. Steps(one, b, n, r)
  BY <1>6, <1>7 DEF Steps
<1>9. ReadEach(one, b, n) = r[n]
  BY <1>8, ReadEachIs
<1>10. r[n] = Read(s, t)
  <2>1. n \in 0 .. n
    OBVIOUS
  <2> QED
    BY <1>1, <1>4, <1>5, <2>1, TakeAll
<1> QED
  BY <1>1, <1>3, <1>9, <1>10

(* d reads what p writes of the values in S.                               *)
Backs(d, p, S) ==
  \A x \in S : \A tc \in CodesFor[x] : \A t \in Seq(Byte) :
    d[<<p[<<x, tc>>] \o t, tc>>] = Read(x, t)

LEMMA OneRead ==
  ASSUME NEW x, NEW t
  PROVE  One(Read(x, t)) = Read(<<x>>, t)
  BY DEF One, Read

LEMMA TwoJoin ==
  ASSUME NEW a \in Seq(Byte), NEW b \in Seq(Byte)
  PROVE  a \o b \in Seq(Byte) /\ Len(a \o b) = Len(a) + Len(b)
  OBVIOUS

(* A value with its code in front.                                         *)
Coded(d, z, x, t) ==
  \E tc \in Byte : \E w \in Seq(Byte) :
    /\ z = <<tc>> \o w /\ z \o t = <<tc>> \o (w \o t)
    /\ d[<<w \o t, tc>>] = Read(x, t)

LEMMA CodedRound ==
  ASSUME NEW S, NEW x \in S, S \subseteq Writable, NEW d, NEW p, Writes(p, S), Backs(d, p, S),
         NEW t \in Seq(Byte)
  PROVE  Coded(d, Tagged(p, x), x, t)
<1>1. PICK tc : tc = Some(CodesFor[x])
  OBVIOUS
<1>2. tc \in CodesFor[x] /\ tc \in Byte
  BY <1>1, CodesForSome
<1>3. PICK w : w = p[<<x, tc>>]
  OBVIOUS
<1>4. w \in Seq(Byte)
  BY <1>2, <1>3 DEF Writes
<1>5. Tagged(p, x) = <<tc>> \o w
  BY <1>1, <1>3 DEF Tagged
<1>6. (<<tc>> \o w) \o t = <<tc>> \o (w \o t)
  BY <1>2, <1>4, OneByte, BytesJoin
<1>7. d[<<w \o t, tc>>] = Read(x, t)
  BY <1>2, <1>3 DEF Backs
<1> QED
  BY <1>2, <1>4, <1>5, <1>6, <1>7 DEF Coded

LEMMA ObjectRound ==
  ASSUME NEW S, NEW x \in S, S \subseteq Writable, NEW d, NEW p, Writes(p, S), Backs(d, p, S),
         NEW t \in Seq(Byte)
  PROVE  Object(d, Tagged(p, x) \o t) = Read(<<x>>, t)
<1>0. PICK b : b = Tagged(p, x) \o t
  OBVIOUS
<1>1. Coded(d, Tagged(p, x), x, t)
  BY CodedRound
<1>2. PICK tc \in Byte : \E w \in Seq(Byte) : b = <<tc>> \o (w \o t) /\ d[<<w \o t, tc>>] = Read(x, t)
  BY <1>0, <1>1 DEF Coded
<1>3. PICK w \in Seq(Byte) : b = <<tc>> \o (w \o t) /\ d[<<w \o t, tc>>] = Read(x, t)
  BY <1>2
<1>4. PICK u : u = w \o t
  OBVIOUS
<1>5. u \in Seq(Byte)
  BY <1>4, TwoJoin
<1>6. b = <<tc>> \o u /\ d[<<u, tc>>] = Read(x, t)
  BY <1>3, <1>4
<1>7. b # <<>> /\ b[1] = tc /\ Tail(b) = u
  BY <1>5, <1>6, OneJoined
<1>8. Object(d, b) = One(d[<<Tail(b), b[1]>>])
  BY <1>7 DEF Object
<1> QED
  BY <1>0, <1>6, <1>7, <1>8, OneRead

Objects(d) == [x \in Seq(Byte) \X Nat |-> Object(d, x[1])]

LEMMA ObjectsRound ==
  ASSUME NEW S, NEW s \in Seq(S), S \subseteq Writable, NEW d, NEW p, Writes(p, S),
         Backs(d, p, S), NEW t \in Seq(Byte)
  PROVE  ReadEach(Objects(d), FlattenSeq(TaggedParts(p, s)) \o t, Len(s)) = Read(s, t)
<1>0. PICK one : one = Objects(d)
  OBVIOUS
<1>1. \A b \in Seq(Byte) : \A k \in Nat : one[<<b, k>>] = Object(d, b)
  BY <1>0 DEF Objects
<1>2. PICK parts : parts = TaggedParts(p, s)
  OBVIOUS
<1>3. parts \in Seq(Seq(Byte)) /\ Len(parts) = Len(s)
  <2>1. Agrees(p, p, S)
    BY DEF Agrees
  <2> QED
    BY <1>2, <2>1, TaggedPartsBytes
<1>4. ASSUME NEW k \in 1 .. Len(s)
      PROVE  OneBack(one, parts[k], s[k], k)
  <2>1. s[k] \in S /\ k \in DOMAIN s
    BY ElementIn
  <2>2. parts[k] = Tagged(p, s[k]) /\ parts[k] \in Seq(Byte)
    BY <1>2, <1>3, <2>1 DEF TaggedParts
  <2>3. k - 1 \in Nat
    OBVIOUS
  <2>4. ASSUME NEW u \in Seq(Byte)
        PROVE  one[<<parts[k] \o u, k - 1>>] = Read(<<s[k]>>, u)
    <3>1. parts[k] \o u \in Seq(Byte)
      BY <2>2, TwoJoin
    <3>2. one[<<parts[k] \o u, k - 1>>] = Object(d, parts[k] \o u)
      BY <1>1, <2>3, <3>1
    <3>3. Object(d, Tagged(p, s[k]) \o u) = Read(<<s[k]>>, u)
      BY <2>1, ObjectRound
    <3> QED
      BY <2>2, <3>2, <3>3
  <2> QED
    BY <2>4 DEF OneBack
<1>5. ReadEach(one, FlattenSeq(parts) \o t, Len(s)) = Read(s, t)
  BY <1>3, <1>4, EachBack
<1> QED
  BY <1>0, <1>2, <1>5

LEMMA ElementsRound ==
  ASSUME NEW S, NEW s \in Seq(S), NEW d, NEW p, Writes(p, S),
         Backs(d, p, S), NEW tc \in Common(CodesFor, S), NEW t \in Seq(Byte)
  PROVE  Elements(d, FlattenSeq(UntaggedParts(p, s, tc)) \o t, tc, Len(s)) = Read(s, t)
<1> DEFINE one == [x \in Seq(Byte) \X Nat |-> One(d[<<x[1], tc>>])]
<1>1. \A b \in Seq(Byte) : \A k \in Nat : one[<<b, k>>] = One(d[<<b, tc>>])
  OBVIOUS
<1>0. \A b : Elements(d, b, tc, Len(s)) = ReadEach(one, b, Len(s))
  BY DEF Elements
<1> HIDE DEF one
<1>2. PICK parts : parts = UntaggedParts(p, s, tc)
  OBVIOUS
<1>3. parts \in Seq(Seq(Byte)) /\ Len(parts) = Len(s)
  <2>1. Agrees(p, p, S)
    BY DEF Agrees
  <2> QED
    BY <1>2, <2>1, UntaggedBytes
<1>4. ASSUME NEW k \in 1 .. Len(s)
      PROVE  OneBack(one, parts[k], s[k], k)
  <2>1. s[k] \in S /\ k \in DOMAIN s /\ tc \in CodesFor[s[k]]
    BY ElementIn, CommonIs
  <2>2. parts[k] = p[<<s[k], tc>>] /\ parts[k] \in Seq(Byte)
    BY <1>2, <1>3, <2>1 DEF UntaggedParts
  <2>3. k - 1 \in Nat
    OBVIOUS
  <2>4. ASSUME NEW u \in Seq(Byte)
        PROVE  one[<<parts[k] \o u, k - 1>>] = Read(<<s[k]>>, u)
    <3>1. parts[k] \o u \in Seq(Byte)
      BY <2>2, TwoJoin
    <3>2. one[<<parts[k] \o u, k - 1>>] = One(d[<<parts[k] \o u, tc>>])
      BY <1>1, <2>3, <3>1
    <3>3. d[<<p[<<s[k], tc>>] \o u, tc>>] = Read(s[k], u)
      BY <2>1 DEF Backs
    <3> QED
      BY <2>2, <3>2, <3>3, OneRead
  <2> QED
    BY <2>4 DEF OneBack
<1>5. ReadEach(one, FlattenSeq(parts) \o t, Len(s)) = Read(s, t)
  BY <1>3, <1>4, EachBack
<1> QED
  BY <1>0, <1>2, <1>5

(* A count and what it counts.                                             *)
LEMMA CountedRound ==
  ASSUME NEW n \in Nat, n <= MaxCollectionElements, NEW w \in Seq(Byte), NEW t \in Seq(Byte)
  PROVE  /\ ReadCount((EncodeVarint[n] \o w) \o t) = Read(n, w \o t)
         /\ BoundedCount(n, MaxCollectionElements) = n
<1>1. w \o t \in Seq(Byte) /\ (EncodeVarint[n] \o w) \o t = EncodeVarint[n] \o (w \o t)
  BY StringBehind, TwoJoin
<1> QED
  BY <1>1, CountRound

LEMMA FlattenBytes ==
  ASSUME NEW parts \in Seq(Seq(Byte))
  PROVE  FlattenSeq(parts) \in Seq(Byte)
  BY FlattenType

LEMMA ObjectArrayRound ==
  ASSUME NEW S, NEW s \in Seq(S), S \subseteq Writable, Len(s) <= MaxCollectionElements,
         NEW d, NEW p, Writes(p, S), Backs(d, p, S), NEW t \in Seq(Byte)
  PROVE  ObjectArray(d, (EncodeVarint[Len(s)] \o AllTagged(p, s)) \o t)
           = Read(<<"[]interface{}", s>>, t)
<1>1. PICK w : w = AllTagged(p, s)
  OBVIOUS
<1>2. w = FlattenSeq(TaggedParts(p, s)) /\ w \in Seq(Byte)
  <2>1. w = FlattenSeq(TaggedParts(p, s))
    BY <1>1 DEF AllTagged, TaggedParts
  <2>2. Agrees(p, p, S)
    BY DEF Agrees
  <2>3. TaggedParts(p, s) \in Seq(Seq(Byte))
    BY <2>2, TaggedPartsBytes
  <2> QED
    BY <2>1, <2>3, FlattenBytes
<1>3. PICK n \in Nat : n = Len(s)
  OBVIOUS
<1>4. PICK b : b = (EncodeVarint[n] \o w) \o t
  OBVIOUS
<1>5. ReadCount(b) = Read(n, w \o t) /\ BoundedCount(n, MaxCollectionElements) = n
  BY <1>2, <1>3, <1>4, CountedRound
<1>6. Read(n, w \o t).v = n /\ Read(n, w \o t).rest = w \o t
  BY DEF Read
<1>7. ReadEach(Objects(d), w \o t, n) = Read(s, t)
  BY <1>2, <1>3, ObjectsRound
<1>8. ObjectArray(d, b)
        = As("[]interface{}", ReadEach(Objects(d), w \o t, n))
  BY <1>5, <1>6 DEF ObjectArray, Objects
<1> QED
  BY <1>1, <1>3, <1>4, <1>7, <1>8, AsRead

(* An array whose elements have one code in front of them all.             *)
LEMMA NestedArrayRound ==
  ASSUME NEW s, s \in Seq(Range(s)), Len(s) <= MaxCollectionElements,
         Common(CodesFor, Range(s)) # {}, NEW d, NEW p, Writes(p, Range(s)),
         Backs(d, p, Range(s)), NEW t \in Seq(Byte)
  PROVE  NestedArray(d, (EncodeVarint[Len(s)] \o OnceTagged(p, s)) \o t)
           = Read(<<"[]interface{}", s>>, t)
<1>1. PICK tc : tc = Some(Common(CodesFor, Range(s)))
  OBVIOUS
<1>2. tc \in Common(CodesFor, Range(s)) /\ tc \in Byte
  BY <1>1, SomeIs, CommonIs
<1>3. PICK f : f = FlattenSeq(UntaggedParts(p, s, tc))
  OBVIOUS
<1>4. f \in Seq(Byte)
  <2>1. Agrees(p, p, Range(s))
    BY DEF Agrees
  <2>2. UntaggedParts(p, s, tc) \in Seq(Seq(Byte))
    BY <1>2, <2>1, UntaggedBytes
  <2> QED
    BY <1>3, <2>2, FlattenBytes
<1>5. PICK w : w = OnceTagged(p, s)
  OBVIOUS
<1>6. w = <<tc>> \o f /\ w \in Seq(Byte)
  <2>1. w = <<tc>> \o Untagged(p, s, tc)
    BY <1>1, <1>5 DEF OnceTagged
  <2>2. Untagged(p, s, tc) = f
    BY <1>3 DEF Untagged, UntaggedParts
  <2>3. <<tc>> \o f \in Seq(Byte)
    BY <1>2, <1>4, OneByte, TwoJoin
  <2> QED
    BY <2>1, <2>2, <2>3
<1>7. PICK u : u = f \o t
  OBVIOUS
<1>8. u \in Seq(Byte) /\ w \o t = <<tc>> \o u
  BY <1>2, <1>4, <1>6, <1>7, OneByte, BytesJoin
<1>9. PICK c : c = w \o t
  OBVIOUS
<1>10. c # <<>> /\ c[1] = tc /\ Tail(c) = u
  BY <1>2, <1>8, <1>9, OneJoined
<1>11. PICK n \in Nat : n = Len(s)
  OBVIOUS
<1>12. PICK b : b = (EncodeVarint[n] \o w) \o t
  OBVIOUS
<1>13. ReadCount(b) = Read(n, c) /\ BoundedCount(n, MaxCollectionElements) = n
  BY <1>6, <1>9, <1>11, <1>12, CountedRound
<1>14. Read(n, c).v = n /\ Read(n, c).rest = c
  BY DEF Read
<1>15. Elements(d, u, tc, n) = Read(s, t)
  BY <1>2, <1>3, <1>7, <1>11, ElementsRound
<1>16. NestedArray(d, b) = As("[]interface{}", Elements(d, u, tc, n))
  BY <1>10, <1>13, <1>14 DEF NestedArray
<1> QED
  BY <1>5, <1>11, <1>12, <1>15, <1>16, AsRead

LEMMA FlattenLength ==
  ASSUME NEW parts \in Seq(Seq(Byte)), NEW m \in Nat, \A k \in 1 .. Len(parts) : Len(parts[k]) = m
  PROVE  Len(FlattenSeq(parts)) = Len(parts) * m
<1>1. PICK n \in Nat : n = Len(parts)
  OBVIOUS
<1>2. PICK f \in [0 .. n -> Seq(Byte)] :
        /\ f[0] = <<>> /\ FlattenSeq(parts) = f[n]
        /\ \A k \in 1 .. n : f[k] = f[k - 1] \o parts[k]
  BY <1>1, Flattening
<1> DEFINE Q == {k \in Nat : k <= n => Len(f[k]) = k * m}
<1>3. 0 \in Q
  <2>1. Len(f[0]) = 0
    BY <1>2
  <2> QED
    BY <2>1, OneMoreTimes
<1>4. ASSUME NEW k \in Nat, k \in Q
      PROVE  k + 1 \in Q
  <2>1. CASE k + 1 <= n
    <3>1. k + 1 \in 1 .. n /\ (k + 1) - 1 = k /\ k <= n /\ k \in 0 .. n
      BY <1>1, <2>1
    <3>2. f[k + 1] = f[k] \o parts[k + 1] /\ f[k] \in Seq(Byte)
      BY <1>2, <3>1
    <3>3. parts[k + 1] \in Seq(Byte) /\ Len(parts[k + 1]) = m
      BY <1>1, <3>1
    <3>4. Len(f[k + 1]) = Len(f[k]) + m
      BY <3>2, <3>3, TwoJoin
    <3>5. Len(f[k]) = k * m
      BY <1>4, <3>1
    <3>6. (k + 1) * m = k * m + m
      BY OneMoreTimes
    <3> QED
      BY <3>4, <3>5, <3>6
  <2>2. CASE ~ (k + 1 <= n)
    BY <2>2
  <2> QED
    BY <2>1, <2>2
<1>5. Nat \subseteq Q
  <2> HIDE DEF Q
  <2> QED
    BY <1>3, <1>4, Induction
<1>6. Len(f[n]) = n * m
  BY <1>5
<1> QED
  BY <1>1, <1>2, <1>6

(* The elements of some codes are so many bytes.                           *)
Sized(p, S, e) == e \in {3, 4, 5, 6} => \A x \in S : Len(p[<<x, e>>]) = FixedSize[e]

LEMMA TypedArrayRound ==
  ASSUME NEW S, NEW s \in Seq(S), Len(s) <= MaxCollectionElements,
         NEW d, NEW p, Writes(p, S), Backs(d, p, S), NEW e \in Common(CodesFor, S), e # 2,
         Sized(p, S, e), NEW t \in Seq(Byte)
  PROVE  TypedArray(d, (EncodeVarint[Len(s)] \o Untagged(p, s, e)) \o t, e)
           = Read(<<ArrayType(e), s>>, t)
<1>1. PICK parts : parts = UntaggedParts(p, s, e)
  OBVIOUS
<1>2. parts \in Seq(Seq(Byte)) /\ Len(parts) = Len(s)
  <2>1. Agrees(p, p, S)
    BY DEF Agrees
  <2> QED
    BY <1>1, <2>1, UntaggedBytes
<1>3. PICK w : w = Untagged(p, s, e)
  OBVIOUS
<1>4. w = FlattenSeq(parts) /\ w \in Seq(Byte)
  <2>1. w = FlattenSeq(parts)
    BY <1>1, <1>3 DEF Untagged, UntaggedParts
  <2> QED
    BY <1>2, <2>1, FlattenBytes
<1>5. PICK n \in Nat : n = Len(s)
  OBVIOUS
<1>6. PICK c : c = w \o t
  OBVIOUS
<1>7. PICK b : b = (EncodeVarint[n] \o w) \o t
  OBVIOUS
<1>8. ReadCount(b) = Read(n, c) /\ BoundedCount(n, MaxCollectionElements) = n
  BY <1>4, <1>5, <1>6, <1>7, CountedRound
<1>9. Read(n, c).v = n /\ Read(n, c).rest = c
  BY DEF Read
<1>10. Elements(d, c, e, n) = Read(s, t)
  BY <1>1, <1>4, <1>5, <1>6, ElementsRound
<1>11. ASSUME e \in DOMAIN FixedSize
       PROVE  BoundedCount(n, Len(c) \div FixedSize[e]) = n
  <2>1. e \in {3, 4, 5, 6}
    BY <1>11, FixedSizes
  <2>2. PICK m : m = FixedSize[e]
    OBVIOUS
  <2>3. m \in {1, 2, 4, 8}
    BY <2>1, <2>2, FixedSizes
  <2>4. m \in Nat
    BY <2>3
  <2>5. \A k \in 1 .. Len(parts) : Len(parts[k]) = m
    <3>1. ASSUME NEW k \in 1 .. Len(parts)
          PROVE  Len(parts[k]) = m
      <4>1. s[k] \in S /\ k \in DOMAIN s
        BY <1>2, ElementIn
      <4>2. parts[k] = p[<<s[k], e>>]
        BY <1>1, <4>1 DEF UntaggedParts
      <4> QED
        BY <2>1, <2>2, <4>1, <4>2 DEF Sized
    <3> QED
      BY <3>1
  <2>6. Len(w) = n * m
    BY <1>2, <1>4, <1>5, <2>4, <2>5, FlattenLength
  <2>7. Len(c) = n * m + Len(t) /\ Len(t) \in Nat
    BY <1>4, <1>6, <2>6, TwoJoin
  <2>8. n <= Len(c) \div m /\ Len(c) \div m \in Nat
    BY <2>3, <2>7, EnoughBytes
  <2> QED
    BY <1>5, <2>2, <2>8, BoundedCountIs
<1>12. TypedArray(d, b, e) = As(ArrayType(e), Elements(d, c, e, n))
  <2> DEFINE q == ReadCount(b)
             k == BoundedCount(q.v, MaxCollectionElements)
             m == IF e \in DOMAIN FixedSize
                  THEN BoundedCount(k, Len(q.rest) \div FixedSize[e]) ELSE k
  <2>1. TypedArray(d, b, e)
          = As(ArrayType(e), IF e = 2 THEN PackedBools(q.rest, k) ELSE Elements(d, q.rest, e, m))
    BY Codes DEF TypedArray
  <2>2. q.rest = c /\ k = n
    BY <1>8, <1>9
  <2> HIDE DEF q, k
  <2>3. m = n
    BY <1>11, <2>2
  <2> HIDE DEF m
  <2> QED
    BY <2>1, <2>2, <2>3
<1> QED
  BY <1>3, <1>5, <1>7, <1>10, <1>12, AsRead



UnpackBits(w, n) ==
  [i \in 1 .. n |->
     <<"bool", (i - 1) \div 8 < Len(w)
                 /\ (w[(i - 1) \div 8 + 1] \div PowerOfTwo[(i - 1) % 8]) % 2 = 1>>]

LEMMA PackedBoolsIs ==
  ASSUME NEW w \in Seq(Byte), NEW t \in Seq(Byte), NEW n \in Nat, Len(w) = (n + 7) \div 8
  PROVE  PackedBools(w \o t, n) = Read(UnpackBits(w, n), t)
<1>1. PICK b : b = w \o t
  OBVIOUS
<1>2. Take(b, Len(w)) = w /\ Drop(b, Len(w)) = t /\ Len(b) = Len(w) + Len(t)
  BY <1>1, Joined
<1>3. PICK k : k = (n + 7) \div 8
  OBVIOUS
<1>4. k = Len(w) /\ k \in Nat /\ Len(t) \in Nat
  BY <1>3, LenProperties
<1>5. Least(k, Len(b)) = k
  BY <1>2, <1>4 DEF Least
<1>6. PICK a : a = Take(b, Least(k, Len(b)))
  OBVIOUS
<1>7. a = w
  BY <1>2, <1>4, <1>5, <1>6
<1>8. PackedBools(b, n) =
        Read([i \in 1 .. n |->
                <<"bool", (i - 1) \div 8 < Len(a)
                            /\ (a[(i - 1) \div 8 + 1] \div PowerOfTwo[(i - 1) % 8]) % 2 = 1>>],
             Drop(b, Len(a)))
  BY <1>3, <1>6 DEF PackedBools
<1> QED
  BY <1>1, <1>2, <1>7, <1>8 DEF UnpackBits

LEMMA WithinBytes ==
  ASSUME NEW n \in Nat, NEW i \in 1 .. n
  PROVE  /\ (i - 1) \div 8 < (n + 7) \div 8 /\ (i - 1) \div 8 + 1 \in 1 .. (n + 7) \div 8
         /\ i \in Nat \ {0} /\ (i - 1) \div 8 + 1 \in Nat
  OBVIOUS

OnAt(s) == [i \in Int |-> IF i <= Len(s) /\ s[i][2] THEN 1 ELSE 0]

LEMMA OnAtIs ==
  ASSUME NEW s
  PROVE  \A i \in Int : OnAt(s)[i] \in 0 .. 1 /\ OnAt(s)[i] = IF i <= Len(s) /\ s[i][2] THEN 1 ELSE 0
  BY DEF OnAt

LEMMA PackBitsAt ==
  ASSUME NEW W, NEW s \in Seq(W), NEW k \in 1 .. (Len(s) + 7) \div 8
  PROVE  PackBits(s)[k] = Octet(OnAt(s), k)
<1> DEFINE On(i) == IF i <= Len(s) /\ s[i][2] THEN 1 ELSE 0
           Sum(j) == On(8 * j - 7) + 2 * On(8 * j - 6) + 4 * On(8 * j - 5) + 8 * On(8 * j - 4)
              + 16 * On(8 * j - 3) + 32 * On(8 * j - 2) + 64 * On(8 * j - 1) + 128 * On(8 * j)
           on == OnAt(s)
<1>1. PackBits(s) = [j \in 1 .. (Len(s) + 7) \div 8 |-> Sum(j)]
  BY DEF PackBits
<1>2. \A i \in Int : on[i] = On(i)
  BY OnAtIs
<1>3. k \in Nat
  BY LenProperties
<1> HIDE DEF On, on
<1>4. /\ 8 * k - 7 \in Int /\ 8 * k - 6 \in Int /\ 8 * k - 5 \in Int /\ 8 * k - 4 \in Int
      /\ 8 * k - 3 \in Int /\ 8 * k - 2 \in Int /\ 8 * k - 1 \in Int /\ 8 * k \in Int
  BY <1>3
<1>5. Sum(k) = Octet(on, k)
  BY <1>2, <1>4 DEF Sum, Octet, EightOf
<1> HIDE DEF Sum
<1> QED
  BY <1>1, <1>5 DEF on

Booleans(S) == \A x \in S : x = <<"bool", x[2]>> /\ x[2] \in BOOLEAN

LEMMA BoolThere ==
  ASSUME NEW x, NEW W, Booleans(W), x \in W, NEW c, NEW o, NEW P, P, o = (IF x[2] THEN 1 ELSE 0), c = o
  PROVE  <<"bool", P /\ c = 1>> = x
<1>1. x = <<"bool", x[2]>> /\ x[2] \in BOOLEAN
  BY DEF Booleans
<1>2. CASE x[2] = TRUE
  <2>1. c = 1
    BY <1>2
  <2>2. (P /\ c = 1) = TRUE
    BY <2>1
  <2> QED
    BY <1>1, <1>2, <2>2
<1>3. CASE x[2] = FALSE
  <2>1. c = 0 /\ 0 # 1
    BY <1>3
  <2>2. (P /\ c = 1) = FALSE
    BY <2>1
  <2> QED
    BY <1>1, <1>3, <2>2
<1> QED
  BY <1>1, <1>2, <1>3

LEMMA UnpackedBit ==
  ASSUME NEW W, Booleans(W), NEW s \in Seq(W), NEW i \in 1 .. Len(s)
  PROVE  UnpackBits(PackBits(s), Len(s))[i] = s[i]
<1>1. PICK n \in Nat : n = Len(s)
  BY LenProperties
<1>2. PICK w : w = PackBits(s)
  OBVIOUS
<1>3. w \in Seq(Byte) /\ Len(w) = (n + 7) \div 8
  BY <1>1, <1>2, PackBitsBytes
<1>4. i \in 1 .. n
  BY <1>1
<1>5. PICK k : k = (i - 1) \div 8 + 1
  OBVIOUS
<1>6. (i - 1) \div 8 < Len(w) /\ k \in 1 .. (n + 7) \div 8 /\ i \in Nat \ {0}
  BY <1>3, <1>4, <1>5, WithinBytes
<1>7. w[k] = Octet(OnAt(s), k)
  BY <1>1, <1>2, <1>6, PackBitsAt
<1>8. (Octet(OnAt(s), k) \div PowerOfTwo[(i - 1) % 8]) % 2 = OnAt(s)[i]
  BY <1>5, <1>6, OnAtIs, BitAt
<1>9. OnAt(s)[i] = IF s[i][2] THEN 1 ELSE 0
  BY <1>1, <1>4, <1>6, OnAtIs
<1>10. PICK c : c = (w[k] \div PowerOfTwo[(i - 1) % 8]) % 2
  OBVIOUS
<1>11. UnpackBits(w, n)[i] = <<"bool", (i - 1) \div 8 < Len(w) /\ c = 1>>
  BY <1>4, <1>5, <1>10 DEF UnpackBits
<1>12. s[i] \in W
  BY <1>1, <1>4
<1>13. c = OnAt(s)[i]
  BY <1>7, <1>8, <1>10
<1> QED
  BY <1>1, <1>2, <1>6, <1>9, <1>11, <1>12, <1>13, BoolThere

LEMMA BoolsRound ==
  ASSUME NEW W, Booleans(W), NEW s \in Seq(W), NEW t \in Seq(Byte)
  PROVE  PackedBools(PackBits(s) \o t, Len(s)) = Read(s, t)
<1>1. PICK n \in Nat : n = Len(s)
  BY LenProperties
<1>2. PICK w : w = PackBits(s)
  OBVIOUS
<1>3. w \in Seq(Byte) /\ Len(w) = (n + 7) \div 8
  BY <1>1, <1>2, PackBitsBytes
<1>4. PackedBools(w \o t, n) = Read(UnpackBits(w, n), t)
  BY <1>1, <1>3, PackedBoolsIs
<1>5. \A i \in 1 .. n : UnpackBits(w, n)[i] = s[i]
  BY <1>1, <1>2, UnpackedBit
<1>6. PICK u : u = UnpackBits(w, n)
  OBVIOUS
<1>7. u = [i \in 1 .. n |-> u[i]]
  BY <1>6 DEF UnpackBits
<1>8. s = [i \in 1 .. n |-> s[i]]
  BY <1>1
<1>9. u = s
  BY <1>5, <1>6, <1>7, <1>8
<1> QED
  BY <1>1, <1>2, <1>4, <1>6, <1>9

LEMMA BoolArrayRound ==
  ASSUME NEW W, Booleans(W), NEW s \in Seq(W), Len(s) <= MaxCollectionElements, NEW d,
         NEW t \in Seq(Byte)
  PROVE  TypedArray(d, (EncodeVarint[Len(s)] \o PackBits(s)) \o t, 2) = Read(<<"[]bool", s>>, t)
<1>1. PICK n \in Nat : n = Len(s)
  BY LenProperties
<1>2. PICK w : w = PackBits(s)
  OBVIOUS
<1>3. w \in Seq(Byte)
  BY <1>2, PackBitsBytes
<1>4. PICK c : c = w \o t
  OBVIOUS
<1>5. PICK b : b = (EncodeVarint[n] \o w) \o t
  OBVIOUS
<1>6. ReadCount(b) = Read(n, c) /\ BoundedCount(n, MaxCollectionElements) = n
  BY <1>1, <1>3, <1>4, <1>5, CountedRound
<1>7. Read(n, c).v = n /\ Read(n, c).rest = c
  BY DEF Read
<1>8. PackedBools(c, n) = Read(s, t)
  BY <1>1, <1>2, <1>4, BoolsRound
<1>9. TypedArray(d, b, 2) = As(ArrayType(2), PackedBools(c, n))
  <2> DEFINE q == ReadCount(b)
             k == BoundedCount(q.v, MaxCollectionElements)
             m == IF 2 \in DOMAIN FixedSize
                  THEN BoundedCount(k, Len(q.rest) \div FixedSize[2]) ELSE k
  <2>1. TypedArray(d, b, 2)
          = As(ArrayType(2), IF 2 = 2 THEN PackedBools(q.rest, k) ELSE Elements(d, q.rest, 2, m))
    BY Codes DEF TypedArray
  <2>2. q.rest = c /\ k = n
    BY <1>6, <1>7
  <2> HIDE DEF q, k, m
  <2> QED
    BY <2>1, <2>2
<1>10. ArrayType(2) = "[]bool"
  BY Codes DEF ArrayType
<1> QED
  BY <1>1, <1>2, <1>5, <1>8, <1>9, <1>10, AsRead

(* Arrays, however they are written.                                       *)
Fits(p, S) ==
  \A x \in S :
    /\ x[1] = "byte"    => Len(p[<<x, 3>>]) = 1
    /\ x[1] = "int16"   => Len(p[<<x, 4>>]) = 2
    /\ x[1] = "float32" => Len(p[<<x, 5>>]) = 4
    /\ x[1] = "float64" => Len(p[<<x, 6>>]) = 8

LEMMA PayloadFits == Fits(Payload, Writable)
<1>1. ASSUME NEW x \in Writable, x[1] = "byte" PROVE Len(Payload[<<x, 3>>]) = 1
  <2>1. 3 \in CodesFor[x]
    BY <1>1, WritablePair, CodesOfByte
  <2>2. Payload[<<x, 3>>] = NumberPayload(x[2], 3)
    BY <1>1, <2>1, PayloadIs, PayloadOfIs
  <2>3. x[2] \in Int
    BY <1>1, <2>1, NumberCodes
  <2>4. NumberPayload(x[2], 3) = <<x[2]>>
    BY <2>3, NumberPayloadIs DEF Bytes8
  <2> QED
    BY <2>2, <2>4
<1>2. ASSUME NEW x \in Writable, x[1] = "int16" PROVE Len(Payload[<<x, 4>>]) = 2
  <2>1. 4 \in CodesFor[x]
    BY <1>2, WritablePair, CodesOfInt16
  <2>2. Payload[<<x, 4>>] = NumberPayload(x[2], 4)
    BY <1>2, <2>1, PayloadIs, PayloadOfIs
  <2>3. x[2] \in Int
    BY <1>2, <2>1, NumberCodes
  <2>4. NumberPayload(x[2], 4) = Bytes16(x[2])
    BY <2>3, NumberPayloadIs
  <2> QED
    BY <2>2, <2>3, <2>4, Bytes16Are
<1>3. ASSUME NEW x \in Writable, x[1] = "float32" PROVE Len(Payload[<<x, 5>>]) = 4
  <2>0. WellFormed(x) /\ CodesFor[x] = CodesOf(CodesFor, x)
    BY WritablePair
  <2>1. 5 \in CodesFor[x] /\ x[2] \in [1 .. 4 -> Byte]
    <3>1. x[2] \in [1 .. 4 -> Byte]
      BY <1>3, <2>0 DEF WellFormed
    <3>2. 5 \in CodesFor[x]
      BY <1>3, <2>0, CodesOfFloat32
    <3> QED
      BY <3>1, <3>2
  <2>2. Payload[<<x, 5>>] = x[2]
    BY <1>3, <2>1, PayloadIs, PayloadOfIs, FloatPayloadIs
  <2> QED
    BY <2>1, <2>2, FloatBytes
<1>4. ASSUME NEW x \in Writable, x[1] = "float64" PROVE Len(Payload[<<x, 6>>]) = 8
  <2>0. WellFormed(x) /\ CodesFor[x] = CodesOf(CodesFor, x)
    BY WritablePair
  <2>1. 6 \in CodesFor[x] /\ x[2] \in [1 .. 8 -> Byte]
    <3>1. x[2] \in [1 .. 8 -> Byte]
      BY <1>4, <2>0 DEF WellFormed
    <3>2. 6 \in CodesFor[x]
      BY <1>4, <2>0, CodesOfFloat64
    <3> QED
      BY <3>1, <3>2
  <2>2. Payload[<<x, 6>>] = x[2]
    BY <1>4, <2>1, PayloadIs, PayloadOfIs, FloatPayloadIs
  <2> QED
    BY <2>1, <2>2, FloatBytes
<1> QED
  BY <1>1, <1>2, <1>3, <1>4 DEF Fits

LEMMA FitsSized ==
  ASSUME NEW v \in Writable, v[1] \in ArrayTypes, NEW p, Fits(p, Range(v[2])),
         NEW e, ArrayType(e) = v[1]
  PROVE  Sized(p, Range(v[2]), e)
<1>1. PICK S : S = Range(v[2])
  OBVIOUS
<1>2. v[1] # "[]interface{}" => \A x \in S : x[1] = ElementType(v[1])
  BY <1>1, ArrayIs
<1>3. FixedSize[3] = 1 /\ FixedSize[4] = 2 /\ FixedSize[5] = 4 /\ FixedSize[6] = 8
  BY FixedSizes
<1>4. ASSUME e = 3 PROVE \A x \in S : Len(p[<<x, e>>]) = FixedSize[e]
  <2>0. ArrayType(3) = "[]byte"
    BY ArrayTypeIs
  <2>1. v[1] = "[]byte" /\ v[1] # "[]interface{}" /\ ElementType("[]byte") = "byte"
    BY <1>4, <2>0 DEF ElementType
  <2> QED
    BY <1>1, <1>2, <1>3, <1>4, <2>1 DEF Fits
<1>5. ASSUME e = 4 PROVE \A x \in S : Len(p[<<x, e>>]) = FixedSize[e]
  <2>0. ArrayType(4) = "[]int16"
    BY ArrayTypeIs
  <2>1. v[1] = "[]int16" /\ v[1] # "[]interface{}" /\ ElementType("[]int16") = "int16"
    BY <1>5, <2>0 DEF ElementType
  <2> QED
    BY <1>1, <1>2, <1>3, <1>5, <2>1 DEF Fits
<1>6. ASSUME e = 5 PROVE \A x \in S : Len(p[<<x, e>>]) = FixedSize[e]
  <2>0. ArrayType(5) = "[]float32"
    BY ArrayTypeIs
  <2>1. v[1] = "[]float32" /\ v[1] # "[]interface{}" /\ ElementType("[]float32") = "float32"
    BY <1>6, <2>0 DEF ElementType
  <2> QED
    BY <1>1, <1>2, <1>3, <1>6, <2>1 DEF Fits
<1>7. ASSUME e = 6 PROVE \A x \in S : Len(p[<<x, e>>]) = FixedSize[e]
  <2>0. ArrayType(6) = "[]float64"
    BY ArrayTypeIs
  <2>1. v[1] = "[]float64" /\ v[1] # "[]interface{}" /\ ElementType("[]float64") = "float64"
    BY <1>7, <2>0 DEF ElementType
  <2> QED
    BY <1>1, <1>2, <1>3, <1>7, <2>1 DEF Fits
<1> QED
  BY <1>1, <1>4, <1>5, <1>6, <1>7 DEF Sized

LEMMA ArrayCodeType ==
  ASSUME NEW v \in Writable, v[1] \in ArrayTypes, NEW tc \in CodesFor[v], tc \in 65 .. 127
  PROVE  ArrayType(tc - 64) = v[1]
<1>1. ArrayCode(v, tc) /\ (tc = 66 <=> v[1] = "[]bool")
         /\ (tc \in {23, 64} => v[1] = "[]interface{}")
         /\ (tc \in 65 .. 127 => ArrayType(tc - 64) = v[1])
  BY ArrayCodes
<1> QED
  BY <1>1

LEMMA TypedArraysRound ==
  ASSUME NEW S, NEW s \in Seq(S), Len(s) <= MaxCollectionElements,
         NEW d, NEW p, Writes(p, S), Backs(d, p, S), NEW e, e \in Common(CodesFor, S), e # 2,
         Sized(p, S, e), NEW t \in Seq(Byte)
  PROVE  TypedArray(d, (EncodeVarint[Len(s)] \o Untagged(p, s, e)) \o t, e)
           = Read(<<ArrayType(e), s>>, t)
<1>1. PICK n : n = Len(s)
  OBVIOUS
<1>2. PICK u : u = Untagged(p, s, e)
  OBVIOUS
<1> QED
  BY TypedArrayRound

LEMMA ArrayRound ==
  ASSUME NEW v \in Writable, v[1] \in ArrayTypes, NEW tc \in CodesFor[v], NEW p, NEW d,
         Writes(p, Parts(v)), Backs(d, p, Parts(v)), Fits(p, Parts(v))
  PROVE  Back(d, PayloadOf(p, v, tc), tc, v)
<1>1. PICK s : s = v[2]
  OBVIOUS
<1>2. PICK S : S = Range(s)
  OBVIOUS
<1>3. /\ Parts(v) = S /\ S \subseteq Writable /\ s \in Seq(S) /\ Len(s) <= MaxCollectionElements
      /\ v[1] # "[]interface{}" => \A x \in S : x[1] = ElementType(v[1])
  BY <1>1, <1>2, ArrayIs
<1>4. v = <<v[1], s>>
  BY <1>1, WritablePair
<1>5. ArrayCode(v, tc) /\ (tc = 66 <=> v[1] = "[]bool")
      /\ (tc \in {23, 64} => v[1] = "[]interface{}")
  BY ArrayCodes
<1>b. tc \in Byte
  BY CodesForSome
<1>6. PICK w : w = PayloadOf(p, v, tc)
  OBVIOUS
<1>7. w = EncodeVarint[Len(s)] \o ElementsPayload(p, s, tc)
  BY <1>1, <1>6, PayloadOfIs DEF ArrayPayload
<1>8. Writes(p, S) /\ Backs(d, p, S) /\ Fits(p, S)
  BY <1>3
<1>9. ASSUME NEW t \in Seq(Byte) PROVE ReadValue(d, w \o t, tc) = Read(v, t)
  <2>1. CASE tc = 23
    <3>1. w = EncodeVarint[Len(s)] \o AllTagged(p, s)
      BY <1>7, <2>1, ElementsPayloadIs
    <3>2. ReadValue(d, w \o t, tc) = ObjectArray(d, w \o t)
      BY <2>1, <1>b, ReadValueIs
    <3>3. ObjectArray(d, w \o t) = Read(<<"[]interface{}", s>>, t)
      BY <1>3, <1>8, <3>1, ObjectArrayRound
    <3> QED
      BY <1>4, <1>5, <2>1, <3>2, <3>3
  <2>2. CASE tc = 64 /\ Common(CodesFor, S) # {}
    <3>1. w = EncodeVarint[Len(s)] \o OnceTagged(p, s)
      BY <1>7, <2>2, ElementsPayloadIs
    <3>2. ReadValue(d, w \o t, tc) = NestedArray(d, w \o t)
      BY <2>2, <1>b, ReadValueIs
    <3>3. NestedArray(d, w \o t) = Read(<<"[]interface{}", s>>, t)
      BY <1>2, <1>3, <1>8, <2>2, <3>1, NestedArrayRound
    <3> QED
      BY <1>4, <1>5, <2>2, <3>2, <3>3
  <2>3. CASE tc = 66
    <3>1. w = EncodeVarint[Len(s)] \o PackBits(s)
      BY <1>7, <2>3, ElementsPayloadIs
    <3>2. ReadValue(d, w \o t, tc) = TypedArray(d, w \o t, 2)
      <4>1. 66 - 64 = 2 /\ 66 \in 65 .. 127 /\ 66 \in Byte
        BY DEF Byte
      <4> QED
        BY <2>3, <4>1, ReadValueIs
    <3>3. Booleans(S)
      <4>1. ASSUME NEW x \in S PROVE x = <<"bool", x[2]>> /\ x[2] \in BOOLEAN
        <5>1. x \in Writable /\ x[1] = "bool"
          BY <1>3, <1>5, <2>3 DEF ElementType
        <5> QED
          BY <5>1, WritablePair DEF WellFormed
      <4> QED
        BY <4>1 DEF Booleans
    <3>4. TypedArray(d, w \o t, 2) = Read(<<"[]bool", s>>, t)
      BY <1>3, <3>1, <3>3, BoolArrayRound
    <3> QED
      BY <1>4, <1>5, <2>3, <3>2, <3>4
  <2>4. CASE tc \in 65 .. 127 /\ tc # 66 /\ tc - 64 \in Common(CodesFor, S)
    <3>1. PICK e : e = tc - 64
      OBVIOUS
    <3>2. w = EncodeVarint[Len(s)] \o Untagged(p, s, e)
      BY <1>7, <2>4, <3>1, ElementsPayloadIs
    <3>3. ReadValue(d, w \o t, tc) = TypedArray(d, w \o t, e)
      <4>1. ReadValue(d, w \o t, tc) = TypedArray(d, w \o t, tc - 64)
        BY <2>4, TypedRead
      <4> QED
        BY <3>1, <4>1
    <3>4. e \in Common(CodesFor, S) /\ e # 2 /\ ArrayType(e) = v[1]
      <4>1. ArrayType(tc - 64) = v[1]
        BY <2>4, ArrayCodeType
      <4> QED
        BY <2>4, <3>1, <4>1
    <3>5. Sized(p, S, e)
      BY <1>1, <1>2, <1>8, <3>4, FitsSized
    <3>6. TypedArray(d, w \o t, e) = Read(<<ArrayType(e), s>>, t)
      <4>1. TypedArray(d, (EncodeVarint[Len(s)] \o Untagged(p, s, e)) \o t, e)
              = Read(<<ArrayType(e), s>>, t)
        <5>1. s \in Seq(S) /\ Len(s) <= MaxCollectionElements /\ Writes(p, S) /\ Backs(d, p, S)
              /\ e \in Common(CodesFor, S) /\ e # 2 /\ Sized(p, S, e)
          BY <1>3, <1>8, <3>4, <3>5
        <5> QED
          BY <5>1, TypedArraysRound
      <4> QED
        BY <3>2, <4>1
    <3> QED
      BY <1>4, <3>3, <3>4, <3>6
  <2> QED
    BY <1>1, <1>2, <1>5, <2>1, <2>2, <2>3, <2>4 DEF ArrayCode
<1> QED
  BY <1>6, <1>9 DEF Back

(* Maps.                                                                   *)
LEMMA TwoFirst ==
  ASSUME NEW a \in Byte, NEW b \in Byte, NEW z \in Seq(Byte)
  PROVE  /\ <<a, b>> \in Seq(Byte)
         /\ <<b>> \o z \in Seq(Byte) /\ <<a, b>> \o z = <<a>> \o (<<b>> \o z)
         /\ <<a, b>> \o z \in Seq(Byte) /\ <<a, b>> \o z # <<>>
<1>1. <<a, b>> = <<a>> \o <<b>> /\ <<a, b>> \in Seq(Byte)
  <2>1. <<a, b>> \in Seq(Byte) /\ Len(<<a, b>>) = 2
    OBVIOUS
  <2>2. PICK f : f = <<a>> \o <<b>>
    OBVIOUS
  <2>3. f \in Seq(Byte) /\ Len(f) = 2 /\ f[1] = a /\ f[2] = b
    BY <2>2
  <2>4. \A i \in 1 .. 2 : <<a, b>>[i] = f[i]
    BY <2>3
  <2> QED
    BY <2>1, <2>2, <2>3, <2>4, SameSeq
<1>2. <<a>> \in Seq(Byte) /\ <<b>> \in Seq(Byte)
  BY OneByte
<1>3. (<<a>> \o <<b>>) \o z = <<a>> \o (<<b>> \o z) /\ <<b>> \o z \in Seq(Byte)
  BY <1>2, BytesJoin, TwoJoin
<1>4. <<a>> \o (<<b>> \o z) \in Seq(Byte) /\ <<a>> \o (<<b>> \o z) # <<>>
  BY <1>3, OneJoined
<1> QED
  BY <1>1, <1>3, <1>4

LEMMA TwoRead ==
  ASSUME NEW a \in Byte, NEW b \in Byte, NEW z \in Seq(Byte)
  PROVE  /\ ReadByte(<<a, b>> \o z) = Read(a, <<b>> \o z)
         /\ ReadByte(<<b>> \o z) = Read(b, z)
  BY TwoFirst, ByteRead

(* What is in a map, key after key.                                        *)
EntriesOf(m) ==
  LET keys == SetToSeq(DOMAIN m) IN [i \in DOMAIN keys |-> <<keys[i], m[keys[i]]>>]

LEMMA PairIn ==
  ASSUME NEW A, NEW B, NEW a \in A, NEW b \in B
  PROVE  <<a, b>> \in A \X B
  OBVIOUS

LEMMA EntriesOfIs ==
  ASSUME NEW m, IsFiniteSet(DOMAIN m)
  PROVE  /\ EntriesOf(m) \in Seq((DOMAIN m) \X Range(m))
         /\ Len(EntriesOf(m)) = Len(SetToSeq(DOMAIN m))
         /\ \A i \in DOMAIN SetToSeq(DOMAIN m) :
              /\ EntriesOf(m)[i] = <<SetToSeq(DOMAIN m)[i], m[SetToSeq(DOMAIN m)[i]]>>
              /\ SetToSeq(DOMAIN m)[i] \in DOMAIN m /\ m[SetToSeq(DOMAIN m)[i]] \in Range(m)
<1>1. PICK keys : keys = SetToSeq(DOMAIN m)
  OBVIOUS
<1>2. keys \in Seq(DOMAIN m)
  BY <1>1, SetToSeqIs
<1>3. PICK f : f = EntriesOf(m)
  OBVIOUS
<1>4. f = [i \in DOMAIN keys |-> <<keys[i], m[keys[i]]>>]
  BY <1>1, <1>3 DEF EntriesOf
<1>5. ASSUME NEW i \in DOMAIN keys PROVE keys[i] \in DOMAIN m
  BY <1>2
<1>6. ASSUME NEW i \in DOMAIN keys PROVE m[keys[i]] \in Range(m)
  BY <1>5 DEF Range
<1>7. f = [i \in DOMAIN keys |-> f[i]] /\ \A i \in DOMAIN keys : f[i] = <<keys[i], m[keys[i]]>>
  BY <1>4
<1>8. ASSUME NEW i \in DOMAIN keys PROVE f[i] \in (DOMAIN m) \X Range(m)
  <2>1. keys[i] \in DOMAIN m /\ m[keys[i]] \in Range(m)
    BY <1>5, <1>6
  <2>2. f[i] = <<keys[i], m[keys[i]]>>
    BY <1>7
  <2>3. <<keys[i], m[keys[i]]>> \in (DOMAIN m) \X Range(m)
    BY <2>1, PairIn
  <2> QED
    BY <2>2, <2>3
<1>9. f \in Seq((DOMAIN m) \X Range(m)) /\ Len(f) = Len(keys)
  BY <1>2, <1>7, <1>8, FromDomain
<1> QED
  BY <1>1, <1>3, <1>5, <1>6, <1>7, <1>9

LEMMA MapOfDomain ==
  ASSUME NEW s
  PROVE  /\ DOMAIN MapOf(s) = {s[i][1] : i \in DOMAIN s}
         /\ MapOf(s) = [k \in DOMAIN MapOf(s) |-> MapOf(s)[k]]
<1> DEFINE K == {s[i][1] : i \in DOMAIN s}
           F(k) == s[Max({i \in DOMAIN s : s[i][1] = k})][2]
<1>1. MapOf(s) = [k \in K |-> F(k)]
  BY DEF MapOf
<1> HIDE DEF F
<1> QED
  BY <1>1

LEMMA EntriesMap ==
  ASSUME NEW m, IsFunction(m), IsFiniteSet(DOMAIN m)
  PROVE  MapOf(EntriesOf(m)) = m
<1>1. PICK keys : keys = SetToSeq(DOMAIN m)
  OBVIOUS
<1>2. PICK s : s = EntriesOf(m)
  OBVIOUS
<1>3. PICK n \in Nat : n = Cardinality(DOMAIN m)
  BY SetToSeqIs
<1>4. /\ DOMAIN keys = 1 .. n /\ Len(keys) = n
      /\ \A x \in DOMAIN m : \E i \in 1 .. n : keys[i] = x
  BY <1>1, <1>3, SetToSeqIs
<1>5. s \in Seq((DOMAIN m) \X Range(m)) /\ Len(s) = n /\ DOMAIN s = 1 .. n
  BY <1>1, <1>2, <1>4, EntriesOfIs
<1>6. \A i \in 1 .. n : s[i][1] = keys[i] /\ s[i][2] = m[keys[i]] /\ keys[i] \in DOMAIN m
  <2>1. \A i \in DOMAIN keys : s[i] = <<keys[i], m[keys[i]]>> /\ keys[i] \in DOMAIN m
    BY <1>1, <1>2, EntriesOfIs
  <2> QED
    BY <1>4, <2>1
<1>7. DOMAIN MapOf(s) = DOMAIN m
  <2>1. DOMAIN MapOf(s) = {s[i][1] : i \in 1 .. n}
    BY <1>5, MapOfDomain
  <2>2. ASSUME NEW k \in DOMAIN m PROVE k \in DOMAIN MapOf(s)
    BY <1>4, <1>6, <2>1
  <2>3. ASSUME NEW k \in DOMAIN MapOf(s) PROVE k \in DOMAIN m
    BY <1>6, <2>1
  <2> QED
    BY <2>2, <2>3
<1>8. ASSUME NEW k \in DOMAIN m PROVE MapOf(s)[k] = m[k]
  <2>1. \E i \in 1 .. n : LastEntry(s, i) /\ s[i][1] = k /\ MapOf(s)[k] = s[i][2]
    BY <1>5, <1>7, MapOfIs
  <2> QED
    BY <1>6, <2>1
<1>9. MapOf(s) = [k \in DOMAIN m |-> MapOf(s)[k]] /\ m = [k \in DOMAIN m |-> m[k]]
  BY <1>7, MapOfDomain DEF IsFunction
<1> QED
  BY <1>2, <1>8, <1>9

(* One entry of a map.                                                     *)
LEMMA PairIs ==
  ASSUME NEW d, NEW b, b # <<>>, NEW kt, NEW vt, NEW i, NEW kc, NEW vc, NEW x, NEW y,
         NEW c0, NEW c1, NEW c2, NEW u,
         (IF kt = 0 THEN ReadByte(b) ELSE Read(kt, b)) = Read(kc, c0),
         (IF vt = 0 THEN ReadByte(c0) ELSE Read(vt, c0)) = Read(vc, c1),
         d[<<c1, kc>>] = Read(x, c2), d[<<c2, vc>>] = Read(y, u), Comparable(x)
  PROVE  Pair(d, b, kt, vt, i) = Read(<< <<x, y>> >>, u)
<1>1. \A z, r : Read(z, r).v = z /\ Read(z, r).rest = r
  BY DEF Read
<1> DEFINE k    == IF kt = 0 THEN ReadByte(b) ELSE Read(kt, b)
           t    == IF vt = 0 THEN ReadByte(k.rest) ELSE Read(vt, k.rest)
           key  == d[<<t.rest, k.v>>]
           val  == d[<<key.rest, t.v>>]
           name == IF Comparable(key.v) THEN key.v ELSE <<"unhashable", <<i, key.v[1]>>>>
<1>2. Pair(d, b, kt, vt, i) = Read(<< <<name, val.v>> >>, val.rest)
  BY DEF Pair
<1>3. k.v = kc /\ k.rest = c0
  BY <1>1
<1> HIDE DEF k
<1>4. t.v = vc /\ t.rest = c1
  BY <1>1, <1>3
<1> HIDE DEF t
<1>5. key.v = x /\ key.rest = c2
  BY <1>1, <1>3, <1>4
<1> HIDE DEF key
<1>6. val.v = y /\ val.rest = u
  BY <1>1, <1>4, <1>5
<1>7. name = x
  BY <1>5
<1> HIDE DEF val, name
<1> QED
  BY <1>2, <1>6, <1>7

PairsOf(d, kt, vt) == [x \in Seq(Byte) \X Nat |-> Pair(d, x[1], kt, vt, x[2])]

LEMMA PairsOfIs ==
  ASSUME NEW d, NEW kt, NEW vt, NEW b \in Seq(Byte), NEW i \in Nat
  PROVE  PairsOf(d, kt, vt)[<<b, i>>] = Pair(d, b, kt, vt, i)
<1>1. <<b, i>> \in Seq(Byte) \X Nat /\ <<b, i>>[1] = b /\ <<b, i>>[2] = i
  OBVIOUS
<1> QED
  BY <1>1 DEF PairsOf

AllBack(one, parts, s) == \A k \in 1 .. Len(s) : OneBack(one, parts[k], s[k], k)

LEMMA DictionaryRound ==
  ASSUME NEW d, NEW kc \in Byte, NEW vc \in Byte, NEW W, NEW s \in Seq(W),
         Len(s) <= MaxCollectionElements, NEW parts \in Seq(Seq(Byte)), Len(parts) = Len(s),
         AllBack(PairsOf(d, kc, vc), parts, s), NEW t \in Seq(Byte)
  PROVE  Dictionary(d, (<<kc, vc>> \o EncodeVarint[Len(s)] \o FlattenSeq(parts)) \o t)
           = Read(<<"map", MapOf(s)>>, t)
<1>1. PICK n \in Nat : n = Len(s)
  BY LenProperties
<1>2. PICK f : f = FlattenSeq(parts)
  OBVIOUS
<1>3. PICK e : e = EncodeVarint[n]
  OBVIOUS
<1>4. e \in Seq(Byte) /\ f \in Seq(Byte)
  BY <1>2, <1>3, EncodeVarintIs, FlattenBytes
<1>5. PICK z : z = (e \o f) \o t
  OBVIOUS
<1>6. z \in Seq(Byte) /\ e \o f \in Seq(Byte)
  BY <1>4, <1>5, TwoJoin
<1>7. PICK b : b = (<<kc, vc>> \o e \o f) \o t
  OBVIOUS
<1>8. b = <<kc, vc>> \o z
  <2>1. <<kc, vc>> \in Seq(Byte)
    BY <1>6, TwoFirst
  <2>2. (<<kc, vc>> \o e) \o f = <<kc, vc>> \o (e \o f)
    BY <1>4, <2>1, BytesJoin
  <2>3. (<<kc, vc>> \o (e \o f)) \o t = <<kc, vc>> \o ((e \o f) \o t)
    BY <1>6, <2>1, BytesJoin
  <2> QED
    BY <1>5, <1>7, <2>2, <2>3
<1>9. ReadByte(b) = Read(kc, <<vc>> \o z) /\ ReadByte(<<vc>> \o z) = Read(vc, z)
  BY <1>6, <1>8, TwoRead
<1>10. ReadCount(z) = Read(n, f \o t) /\ BoundedCount(n, MaxCollectionElements) = n
  BY <1>1, <1>3, <1>4, <1>5, CountedRound
<1>11. ReadEach(PairsOf(d, kc, vc), f \o t, n) = Read(s, t)
  <2>1. PICK one : one = PairsOf(d, kc, vc)
    OBVIOUS
  <2>2. \A k \in 1 .. Len(s) : OneBack(one, parts[k], s[k], k)
    BY <2>1 DEF AllBack
  <2> QED
    BY <1>1, <1>2, <2>1, <2>2, EachBack
<1>12. \A y, r : Read(y, r).v = y /\ Read(y, r).rest = r
  BY DEF Read
<1> DEFINE kt == ReadByte(b)
           vt == ReadByte(kt.rest)
           c  == ReadCount(vt.rest)
           m  == BoundedCount(c.v, MaxCollectionElements)
           ps == ReadEach(PairsOf(d, kt.v, vt.v), c.rest, m)
<1>13. Dictionary(d, b) = Read(<<"map", MapOf(ps.v)>>, ps.rest)
  BY DEF Dictionary, PairsOf
<1>14. kt.v = kc /\ kt.rest = <<vc>> \o z
  BY <1>9, <1>12
<1> HIDE DEF kt
<1>15. vt.v = vc /\ vt.rest = z
  BY <1>9, <1>12, <1>14
<1> HIDE DEF vt
<1>16. c.v = n /\ c.rest = f \o t
  BY <1>10, <1>12, <1>15
<1> HIDE DEF c
<1>17. m = n
  BY <1>10, <1>16
<1> HIDE DEF m
<1>18. ps.v = s /\ ps.rest = t
  BY <1>11, <1>12, <1>14, <1>15, <1>16, <1>17
<1> HIDE DEF ps
<1> QED
  BY <1>1, <1>2, <1>3, <1>7, <1>13, <1>18

(* A key takes bytes unless its code says it all.                          *)
Speaks(p, S) ==
  \A x \in S : Comparable(x) => \A tc \in CodesFor[x] \ Silent : p[<<x, tc>>] # <<>>

LEMMA SilentIs == Silent = {0, 8} \cup 27 .. 34
  BY Codes DEF Silent

LEMMA SomeBytes ==
  ASSUME NEW f \in Seq(Byte), Len(f) # 0
  PROVE  f # <<>>
  OBVIOUS

LEMMA VarintTakesBytes ==
  ASSUME NEW n \in Nat, NEW s \in Seq(Byte)
  PROVE  EncodeVarint[n] # <<>> /\ EncodeVarint[n] \in Seq(Byte) /\ EncodeVarint[n] \o s # <<>>
<1>1. EncodeVarint[n] \in Seq(Byte) /\ EncodeVarint[n] # <<>>
  <2>1. CASE n < 128
    <3>1. EncodeVarint[n] = <<n>> /\ EncodeVarint[n] \in Seq(Byte)
      BY <2>1, EncodeVarintIs
    <3> QED
      BY <3>1
  <2>2. CASE ~ (n < 128)
    <3>1. EncodeVarint[n] = <<128 + (n % 128)>> \o EncodeVarint[n \div 128]
          /\ EncodeVarint[n] \in Seq(Byte)
      BY <2>2, EncodeVarintIs
    <3>2. n \div 128 \in Nat /\ 128 + (n % 128) \in Byte
      BY DEF Byte
    <3>3. PICK c \in Byte : c = 128 + (n % 128)
      BY <3>2
    <3>4. PICK r \in Seq(Byte) : r = EncodeVarint[n \div 128]
      BY <3>2, EncodeVarintIs
    <3>5. <<c>> \o r # <<>>
      BY OneJoined
    <3> QED
      BY <3>1, <3>3, <3>4, <3>5
  <2> QED
    BY <2>1, <2>2
<1>2. PICK e \in Seq(Byte) : e = EncodeVarint[n]
  BY <1>1
<1>3. e # <<>> => e \o s # <<>>
  OBVIOUS
<1> QED
  BY <1>1, <1>2, <1>3

LEMMA VarintSome == \A n \in Nat : EncodeVarint[n] # <<>>
<1>1. <<>> \in Seq(Byte)
  OBVIOUS
<1> QED
  BY <1>1, VarintTakesBytes

LEMMA NumbersSpeak ==
  ASSUME NEW n \in Int, NEW tc, NumberCode(n, tc), tc \notin Silent
  PROVE  NumberPayload(n, tc) # <<>>
<1>1. CASE tc \in {3, 11, 15}
  BY <1>1, NumberPayloadIs DEF Bytes8
<1>2. CASE tc \in {12, 16}
  BY <1>2, NumberPayloadIs DEF Bytes8
<1>3. CASE tc \in {4, 13, 17}
  <2>1. PICK y : y = Bytes16(n)
    OBVIOUS
  <2>2. y \in Seq(Byte) /\ Len(y) = 2
    BY <2>1, Bytes16Are
  <2>3. y # <<>>
    BY <2>2, SomeBytes
  <2>4. NumberPayload(n, tc) = Bytes16(n)
    BY <1>3, NumberPayloadIs
  <2> QED
    BY <2>1, <2>3, <2>4
<1>4. CASE tc \in {14, 18}
  <2>1. -n \in Int
    OBVIOUS
  <2>2. NumberPayload(n, tc) = Bytes16(-n) /\ Len(Bytes16(-n)) = 2 /\ Bytes16(-n) \in Seq(Byte)
    BY <1>4, <2>1, NumberPayloadIs, Bytes16Are
  <2> QED
    BY <2>2, SomeBytes
<1>5. CASE tc \in {9, 10}
  <2>1. Zigzag(n) \in Nat
    BY DEF Zigzag
  <2>2. EncodeVarint[Zigzag(n)] # <<>>
    BY <2>1, VarintSome
  <2>3. NumberPayload(n, tc) = EncodeVarint[Zigzag(n)]
    BY <1>5, NumberPayloadIs
  <2> QED
    BY <2>2, <2>3
<1>6. tc \notin {29, 30, 31, 34}
  BY SilentIs
<1> QED
  BY <1>1, <1>2, <1>3, <1>4, <1>5, <1>6 DEF NumberCode

LEMMA PayloadSpeaks == Speaks(Payload, Writable)
<1>1. ASSUME NEW x \in Writable, Comparable(x), NEW tc \in CodesFor[x], tc \notin Silent
      PROVE  Payload[<<x, tc>>] # <<>>
  <2>1. Payload[<<x, tc>>] = PayloadOf(Payload, x, tc)
    BY PayloadIs
  <2>2. WellFormed(x) /\ CodesFor[x] = CodesOf(CodesFor, x)
    BY WritablePair
  <2>3. CASE x[1] = "nil"
    <3>1. tc = 0 \/ tc = 8
      BY <2>2, <2>3, CodesOfNil
    <3> QED
      BY <1>1, <3>1, SilentIs
  <2>4. CASE x[1] = "bool"
    <3>1. x[2] \in BOOLEAN
      BY <2>2, <2>4 DEF WellFormed
    <3>2. tc \in {2, IF x[2] THEN 28 ELSE 27}
      BY <2>2, <2>4, CodesOfBool
    <3>3. 27 \in Silent /\ 28 \in Silent
      BY SilentIs
    <3>4. tc = 2
      BY <1>1, <3>2, <3>3
    <3>5. PayloadOf(Payload, x, tc) = BoolPayload(x[2], 2)
      BY <2>4, <3>4, PayloadOfIs
    <3>6. BoolPayload(TRUE, 2) # <<>> /\ BoolPayload(FALSE, 2) # <<>>
      <4>1. BoolPayload(TRUE, 2) = <<1>> /\ BoolPayload(FALSE, 2) = <<0>>
        BY BoolPayloadIs
      <4>2. <<1>> # <<>> /\ <<0>> # <<>>
        OBVIOUS
      <4> QED
        BY <4>1, <4>2
    <3> QED
      BY <2>1, <3>1, <3>5, <3>6
  <2>5. CASE x[1] \in {"byte", "int16", "int32", "int64"}
    <3>1. x[2] \in Int /\ NumberCode(x[2], tc)
      BY <2>5, NumberCodes
    <3>2. PayloadOf(Payload, x, tc) = NumberPayload(x[2], tc)
      BY <2>5, PayloadOfIs
    <3> QED
      BY <1>1, <2>1, <3>1, <3>2, NumbersSpeak
  <2>6. CASE x[1] = "float32"
    <3>1. x[2] \in [1 .. 4 -> Byte]
      BY <2>2, <2>6 DEF WellFormed
    <3>2. tc = 5 \/ tc = 32
      BY <2>2, <2>6, CodesOfFloat32
    <3>3. tc = 5
      BY <1>1, <3>2, SilentIs
    <3>4. PayloadOf(Payload, x, tc) = x[2]
      BY <2>6, <3>3, PayloadOfIs, FloatPayloadIs
    <3>5. x[2] \in Seq(Byte) /\ Len(x[2]) # 0
      <4>1. x[2] \in Seq(Byte) /\ Len(x[2]) = 4
        BY <3>1, FloatBytes
      <4> QED
        BY <4>1
    <3>6. x[2] # <<>>
      BY <3>5, SomeBytes
    <3> QED
      BY <2>1, <3>4, <3>6
  <2>7. CASE x[1] = "float64"
    <3>1. x[2] \in [1 .. 8 -> Byte]
      BY <2>2, <2>7 DEF WellFormed
    <3>2. tc = 6 \/ tc = 33
      BY <2>2, <2>7, CodesOfFloat64
    <3>3. tc = 6
      BY <1>1, <3>2, SilentIs
    <3>4. PayloadOf(Payload, x, tc) = x[2]
      BY <2>7, <3>3, PayloadOfIs, FloatPayloadIs
    <3>5. x[2] \in Seq(Byte) /\ Len(x[2]) # 0
      <4>1. x[2] \in Seq(Byte) /\ Len(x[2]) = 8
        BY <3>1, FloatBytes
      <4> QED
        BY <4>1
    <3>6. x[2] # <<>>
      BY <3>5, SomeBytes
    <3> QED
      BY <2>1, <3>4, <3>6
  <2>8. CASE x[1] = "string"
    <3>1. x[2] \in Seq(Byte) /\ Len(x[2]) \in Nat
      BY <2>8, TextIs, LenProperties
    <3>2. PayloadOf(Payload, x, tc) = EncodeVarint[Len(x[2])] \o x[2]
      BY <2>8, PayloadOfIs DEF StringPayload
    <3> QED
      BY <2>1, <3>1, <3>2, VarintTakesBytes
  <2> QED
    BY <1>1, <2>3, <2>4, <2>5, <2>6, <2>7, <2>8 DEF Comparable
<1> QED
  BY <1>1 DEF Speaks

(* An entry with codes of its own, and one without.                        *)
LEMMA OwnCodes ==
  ASSUME NEW d, NEW b, b # <<>>, NEW i, NEW kc, NEW vc, NEW x, NEW y, NEW c0, NEW c1, NEW c2,
         NEW u, ReadByte(b) = Read(kc, c0), ReadByte(c0) = Read(vc, c1),
         d[<<c1, kc>>] = Read(x, c2), d[<<c2, vc>>] = Read(y, u), Comparable(x)
  PROVE  Pair(d, b, 0, 0, i) = Read(<< <<x, y>> >>, u)
<1>1. (IF 0 = 0 THEN ReadByte(b) ELSE Read(0, b)) = Read(kc, c0)
  OBVIOUS
<1>2. (IF 0 = 0 THEN ReadByte(c0) ELSE Read(0, c0)) = Read(vc, c1)
  OBVIOUS
<1> QED
  BY <1>1, <1>2, PairIs

TwoReads(d, b, kc, vc, x, y, u) ==
  \E c : d[<<b, kc>>] = Read(x, c) /\ d[<<c, vc>>] = Read(y, u)

LEMMA NoCodes ==
  ASSUME NEW d, NEW b, b # <<>>, NEW i, NEW kc, kc # 0, NEW vc, vc # 0, NEW x, NEW y,
         NEW u, TwoReads(d, b, kc, vc, x, y, u), Comparable(x)
  PROVE  Pair(d, b, kc, vc, i) = Read(<< <<x, y>> >>, u)
<1>0. PICK c2 : d[<<b, kc>>] = Read(x, c2) /\ d[<<c2, vc>>] = Read(y, u)
  BY DEF TwoReads
<1>1. \A z, r : Read(z, r).v = z /\ Read(z, r).rest = r
  BY DEF Read
<1> DEFINE key  == d[<<Read(vc, b).rest, kc>>]
           val  == d[<<key.rest, vc>>]
           name == IF Comparable(key.v) THEN key.v ELSE <<"unhashable", <<i, key.v[1]>>>>
<1>2. Pair(d, b, kc, vc, i) = Read(<< <<name, val.v>> >>, val.rest)
  BY <1>1 DEF Pair
<1>3. key.v = x /\ key.rest = c2
  BY <1>0, <1>1
<1> HIDE DEF key
<1>4. val.v = y /\ val.rest = u
  BY <1>0, <1>1, <1>3
<1>5. name = x
  BY <1>3
<1> HIDE DEF val, name
<1> QED
  BY <1>2, <1>4, <1>5

ReadsAs(d, w, tc, x) == \A u \in Seq(Byte) : d[<<w \o u, tc>>] = Read(x, u)

LEMMA CodedPairRound ==
  ASSUME NEW d, NEW kc \in Byte, NEW vc \in Byte, NEW a \in Seq(Byte), NEW c \in Seq(Byte),
         NEW x, NEW y, Comparable(x), ReadsAs(d, a, kc, x), ReadsAs(d, c, vc, y), NEW k \in Nat \ {0},
         NEW w, w = <<kc, vc>> \o a \o c
  PROVE  OneBack(PairsOf(d, 0, 0), w, <<x, y>>, k)
<1>1. ASSUME NEW u \in Seq(Byte)
      PROVE  PairsOf(d, 0, 0)[<<w \o u, k - 1>>] = Read(<< <<x, y>> >>, u)
  <2>1. PICK c2 : c2 = c \o u
    OBVIOUS
  <2>2. PICK c1 : c1 = a \o c2
    OBVIOUS
  <2>3. c2 \in Seq(Byte) /\ c1 \in Seq(Byte)
    BY <2>1, <2>2, TwoJoin
  <2>4. PICK b : b = w \o u
    OBVIOUS
  <2>5. b = <<kc, vc>> \o c1
    <3>1. <<kc, vc>> \in Seq(Byte) /\ a \o c \in Seq(Byte)
      BY <2>3, TwoFirst, TwoJoin
    <3>2. (<<kc, vc>> \o a) \o c = <<kc, vc>> \o (a \o c)
      BY <3>1, BytesJoin
    <3>3. (<<kc, vc>> \o (a \o c)) \o u = <<kc, vc>> \o ((a \o c) \o u)
      BY <3>1, BytesJoin
    <3>4. (a \o c) \o u = a \o (c \o u)
      BY BytesJoin
    <3> QED
      BY <2>1, <2>2, <2>4, <3>2, <3>3, <3>4
  <2>6. b # <<>> /\ b \in Seq(Byte)
    BY <2>3, <2>5, TwoFirst
  <2>7. PICK c0 : c0 = <<vc>> \o c1
    OBVIOUS
  <2>8. ReadByte(b) = Read(kc, c0) /\ ReadByte(c0) = Read(vc, c1)
    BY <2>3, <2>5, <2>7, TwoRead
  <2>9. d[<<c1, kc>>] = Read(x, c2)
    BY <2>2, <2>3 DEF ReadsAs
  <2>10. d[<<c2, vc>>] = Read(y, u)
    BY <2>1 DEF ReadsAs
  <2>11. PICK j \in Nat : j = k - 1
    OBVIOUS
  <2>12. Pair(d, b, 0, 0, j) = Read(<< <<x, y>> >>, u)
    BY <2>6, <2>8, <2>9, <2>10, OwnCodes
  <2>13. PairsOf(d, 0, 0)[<<b, j>>] = Pair(d, b, 0, 0, j)
    BY <2>6, PairsOfIs
  <2> QED
    BY <2>4, <2>11, <2>12, <2>13
<1> QED
  BY <1>1 DEF OneBack

LEMMA BarePairRound ==
  ASSUME NEW d, NEW kc, kc # 0, NEW vc, vc # 0, NEW a \in Seq(Byte), a # <<>>,
         NEW c \in Seq(Byte), NEW x, NEW y, Comparable(x), ReadsAs(d, a, kc, x), ReadsAs(d, c, vc, y),
         NEW k \in Nat \ {0}, NEW w, w = a \o c
  PROVE  OneBack(PairsOf(d, kc, vc), w, <<x, y>>, k)
<1>1. ASSUME NEW u \in Seq(Byte)
      PROVE  PairsOf(d, kc, vc)[<<w \o u, k - 1>>] = Read(<< <<x, y>> >>, u)
  <2>1. PICK c2 : c2 = c \o u
    OBVIOUS
  <2>2. c2 \in Seq(Byte)
    BY <2>1, TwoJoin
  <2>3. PICK b : b = a \o c2
    OBVIOUS
  <2>4. b = w \o u
    <3>1. (a \o c) \o u = a \o (c \o u)
      BY BytesJoin
    <3> QED
      BY <2>1, <2>3, <3>1
  <2>5. b \in Seq(Byte) /\ b # <<>>
    <3>1. b \in Seq(Byte) /\ Len(b) = Len(a) + Len(c2) /\ Len(c2) \in Nat
      BY <2>2, <2>3, TwoJoin, LenProperties
    <3>2. Len(a) \in Nat /\ Len(a) # 0
      OBVIOUS
    <3> QED
      BY <3>1, <3>2
  <2>6. d[<<b, kc>>] = Read(x, c2)
    BY <2>2, <2>3 DEF ReadsAs
  <2>7. d[<<c2, vc>>] = Read(y, u)
    BY <2>1 DEF ReadsAs
  <2>8. PICK j \in Nat : j = k - 1
    OBVIOUS
  <2>9. Pair(d, b, kc, vc, j) = Read(<< <<x, y>> >>, u)
    <3>1. TwoReads(d, b, kc, vc, x, y, u)
      BY <2>6, <2>7 DEF TwoReads
    <3> QED
      BY <2>5, <3>1, NoCodes
  <2>10. PairsOf(d, kc, vc)[<<b, j>>] = Pair(d, b, kc, vc, j)
    BY <2>5, PairsOfIs
  <2> QED
    BY <2>4, <2>8, <2>9, <2>10
<1> QED
  BY <1>1 DEF OneBack

LEMMA BackReads ==
  ASSUME NEW S, NEW x \in S, NEW tc \in CodesFor[x], NEW d, NEW p, Writes(p, S), Backs(d, p, S)
  PROVE  p[<<x, tc>>] \in Seq(Byte) /\ ReadsAs(d, p[<<x, tc>>], tc, x)
<1>1. p[<<x, tc>>] \in Seq(Byte)
  BY DEF Writes
<1>2. \A u \in Seq(Byte) : d[<<p[<<x, tc>>] \o u, tc>>] = Read(x, u)
  BY DEF Backs
<1> QED
  BY <1>1, <1>2 DEF ReadsAs

LEMMA CodedPairsRound ==
  ASSUME NEW m, IsFiniteSet(DOMAIN m), MapParts(m) \subseteq Writable,
         \A x \in DOMAIN m : Comparable(x), NEW d, NEW p, Writes(p, MapParts(m)),
         Backs(d, p, MapParts(m)), NEW k \in DOMAIN SetToSeq(DOMAIN m), k \in Nat \ {0}
  PROVE  OneBack(PairsOf(d, 0, 0), PairParts(p, m, SetToSeq(DOMAIN m))[k], EntriesOf(m)[k], k)
<1>1. PICK keys : keys = SetToSeq(DOMAIN m)
  OBVIOUS
<1>2. PICK x : x = keys[k]
  OBVIOUS
<1>3. PICK y : y = m[x]
  OBVIOUS
<1>4. x \in DOMAIN m /\ y \in Range(m) /\ EntriesOf(m)[k] = <<x, y>>
  BY <1>1, <1>2, <1>3, EntriesOfIs
<1>5. x \in MapParts(m) /\ y \in MapParts(m) /\ x \in Writable /\ y \in Writable
  BY <1>4 DEF MapParts
<1>6. PICK kc : kc = Some(CodesFor[x])
  OBVIOUS
<1>7. PICK vc : vc = Some(CodesFor[y])
  OBVIOUS
<1>8. kc \in CodesFor[x] /\ vc \in CodesFor[y] /\ kc \in Byte /\ vc \in Byte
  BY <1>5, <1>6, <1>7, CodesForSome
<1>9. PICK a : a = p[<<x, kc>>]
  OBVIOUS
<1>10. PICK c : c = p[<<y, vc>>]
  OBVIOUS
<1>11. a \in Seq(Byte) /\ ReadsAs(d, a, kc, x)
  BY <1>5, <1>8, <1>9, BackReads
<1>12. c \in Seq(Byte) /\ ReadsAs(d, c, vc, y)
  BY <1>5, <1>8, <1>10, BackReads
<1>13. PICK w : w = <<kc, vc>> \o a \o c
  OBVIOUS
<1>14. OneBack(PairsOf(d, 0, 0), w, <<x, y>>, k)
  BY <1>4, <1>8, <1>11, <1>12, <1>13, CodedPairRound
<1>15. PairParts(p, m, keys)[k] = w
  BY <1>1, <1>2, <1>3, <1>6, <1>7, <1>9, <1>10, <1>13 DEF PairParts
<1> QED
  BY <1>1, <1>4, <1>14, <1>15

LEMMA BarePairsRound ==
  ASSUME NEW m, IsFiniteSet(DOMAIN m), MapParts(m) \subseteq Writable,
         \A x \in DOMAIN m : Comparable(x), NEW d, NEW p, Writes(p, MapParts(m)),
         Backs(d, p, MapParts(m)), Speaks(p, MapParts(m)),
         NEW kc, kc \in KeyCodes(m), NEW vc, vc \in ValueCodes(m),
         NEW k \in DOMAIN SetToSeq(DOMAIN m), k \in Nat \ {0}
  PROVE  OneBack(PairsOf(d, kc, vc), BareParts(p, m, SetToSeq(DOMAIN m), kc, vc)[k],
                 EntriesOf(m)[k], k)
<1>1. PICK keys : keys = SetToSeq(DOMAIN m)
  OBVIOUS
<1>2. PICK x : x = keys[k]
  OBVIOUS
<1>3. PICK y : y = m[x]
  OBVIOUS
<1>4. x \in DOMAIN m /\ y \in Range(m) /\ EntriesOf(m)[k] = <<x, y>>
  BY <1>1, <1>2, <1>3, EntriesOfIs
<1>5. x \in MapParts(m) /\ y \in MapParts(m)
  BY <1>4 DEF MapParts
<1>6. kc \in CodesFor[x] /\ kc \notin Silent
  BY <1>4, CommonIs DEF KeyCodes
<1>7. vc \in CodesFor[y] /\ vc # 0
  BY <1>4, CommonIs DEF ValueCodes
<1>8. kc # 0
  BY <1>6, SilentIs
<1>9. PICK a : a = p[<<x, kc>>]
  OBVIOUS
<1>10. PICK c : c = p[<<y, vc>>]
  OBVIOUS
<1>11. a \in Seq(Byte) /\ ReadsAs(d, a, kc, x)
  BY <1>5, <1>6, <1>9, BackReads
<1>12. c \in Seq(Byte) /\ ReadsAs(d, c, vc, y)
  BY <1>5, <1>7, <1>10, BackReads
<1>13. a # <<>>
  BY <1>4, <1>5, <1>6, <1>9 DEF Speaks
<1>14. PICK w : w = a \o c
  OBVIOUS
<1>15. Comparable(x)
  BY <1>4
<1>16. OneBack(PairsOf(d, kc, vc), w, <<x, y>>, k)
  BY <1>7, <1>8, <1>11, <1>12, <1>13, <1>14, <1>15, BarePairRound
<1>17. BareParts(p, m, keys, kc, vc)[k] = w
  BY <1>1, <1>2, <1>3, <1>9, <1>10, <1>14 DEF BareParts
<1> QED
  BY <1>1, <1>4, <1>16, <1>17

LEMMA MapRound ==
  ASSUME NEW v \in Writable, v[1] = "map", NEW tc \in CodesFor[v], NEW p, NEW d,
         Writes(p, Parts(v)), Backs(d, p, Parts(v)), Speaks(p, Parts(v))
  PROVE  Back(d, PayloadOf(p, v, tc), tc, v)
<1>1. PICK m : m = v[2]
  OBVIOUS
<1>2. /\ Parts(v) = MapParts(m) /\ IsFiniteSet(DOMAIN m)
      /\ Cardinality(DOMAIN m) <= MaxCollectionElements /\ \A x \in DOMAIN m : Comparable(x)
  BY <1>1, MapIs
<1>3. MapParts(m) \subseteq Writable
  BY <1>2, WritableIs
<1>4. v = <<"map", m>> /\ IsFunction(m)
  <2>1. Sendable(v)
    BY WritableIs
  <2>2. Exact(v)
    BY <2>1 DEF Sendable
  <2> QED
    BY <1>1, <2>2 DEF Exact
<1>5. Writes(p, MapParts(m)) /\ Backs(d, p, MapParts(m)) /\ Speaks(p, MapParts(m))
  BY <1>2
<1>6. tc \in {20, 21} /\ tc \in Byte
  BY WritablePair, CodesOfMap, CodesForSome
<1>7. PICK keys : keys = SetToSeq(DOMAIN m)
  OBVIOUS
<1>8. PICK s : s = EntriesOf(m)
  OBVIOUS
<1>9. PICK n \in Nat : n = Cardinality(DOMAIN m)
  BY <1>2, SetToSeqIs
<1>10. /\ keys \in Seq(DOMAIN m) /\ Len(keys) = n /\ DOMAIN keys = 1 .. n
       /\ s \in Seq((DOMAIN m) \X Range(m)) /\ Len(s) = n
  BY <1>2, <1>7, <1>8, <1>9, SetToSeqIs, EntriesOfIs
<1>11. MapOf(s) = m
  BY <1>2, <1>4, <1>8, EntriesMap
<1>12. PICK w : w = MapPayload(p, m, tc)
  OBVIOUS
<1>13. PayloadOf(p, v, tc) = w
  BY <1>1, <1>12, PayloadOfIs
<1>14. Agrees(p, p, MapParts(m))
  BY DEF Agrees
<1>15. ASSUME NEW t \in Seq(Byte) PROVE Dictionary(d, w \o t) = Read(<<"map", MapOf(s)>>, t)
  <2>1. CASE OneByOne(m, tc)
    <3>1. PICK parts : parts = PairParts(p, m, keys)
      OBVIOUS
    <3>2. parts \in Seq(Seq(Byte)) /\ Len(parts) = Len(s)
      BY <1>3, <1>5, <1>10, <1>14, <3>1, PairBytes
    <3>3. w = <<0, 0>> \o EncodeVarint[Len(s)] \o FlattenSeq(parts)
      BY <1>7, <1>10, <1>12, <2>1, <3>1, MapPayloadIs
    <3>4. AllBack(PairsOf(d, 0, 0), parts, s)
      <4>1. ASSUME NEW k \in 1 .. n PROVE OneBack(PairsOf(d, 0, 0), parts[k], s[k], k)
        <5>1. k \in DOMAIN SetToSeq(DOMAIN m) /\ k \in Nat \ {0}
          BY <1>7, <1>10
        <5> QED
          BY <5>1, <1>2, <1>3, <1>5, <1>7, <1>8, <1>10, <3>1, CodedPairsRound
      <4> QED
        BY <1>10, <4>1 DEF AllBack
    <3>5. 0 \in Byte
      BY DEF Byte
    <3>6. Dictionary(d, (<<0, 0>> \o EncodeVarint[Len(s)] \o FlattenSeq(parts)) \o t)
            = Read(<<"map", MapOf(s)>>, t)
      BY <1>2, <1>9, <1>10, <3>2, <3>4, <3>5, DictionaryRound
    <3> QED
      BY <3>3, <3>6
  <2>2. CASE ~ OneByOne(m, tc)
    <3>1. PICK kc : kc = Some(KeyCodes(m))
      OBVIOUS
    <3>2. PICK vc : vc = Some(ValueCodes(m))
      OBVIOUS
    <3>3. kc \in KeyCodes(m) /\ vc \in ValueCodes(m)
      BY <2>2, <3>1, <3>2, SomeIs DEF OneByOne
    <3>4. kc \in Common(CodesFor, DOMAIN m) /\ vc \in Common(CodesFor, Range(m))
      BY <3>3 DEF KeyCodes, ValueCodes
    <3>5. kc \in Byte /\ vc \in Byte
      BY <3>4, CommonIs
    <3>6. PICK parts : parts = BareParts(p, m, keys, kc, vc)
      OBVIOUS
    <3>7. parts \in Seq(Seq(Byte)) /\ Len(parts) = Len(s)
      BY <1>5, <1>10, <1>14, <3>4, <3>6, BareBytes
    <3>8. w = <<kc, vc>> \o EncodeVarint[Len(s)] \o FlattenSeq(parts)
      BY <1>7, <1>10, <1>12, <2>2, <3>1, <3>2, <3>6, MapPayloadIs
    <3>9. AllBack(PairsOf(d, kc, vc), parts, s)
      <4>1. ASSUME NEW k \in 1 .. n PROVE OneBack(PairsOf(d, kc, vc), parts[k], s[k], k)
        <5>1. k \in DOMAIN SetToSeq(DOMAIN m) /\ k \in Nat \ {0}
          BY <1>7, <1>10
        <5> QED
          BY <5>1, <1>2, <1>3, <1>5, <1>7, <1>8, <1>10, <3>3, <3>6, BarePairsRound
      <4> QED
        BY <1>10, <4>1 DEF AllBack
    <3>10. Dictionary(d, (<<kc, vc>> \o EncodeVarint[Len(s)] \o FlattenSeq(parts)) \o t)
             = Read(<<"map", MapOf(s)>>, t)
      BY <1>2, <1>9, <1>10, <3>5, <3>7, <3>9, DictionaryRound
    <3> QED
      BY <3>8, <3>10
  <2> QED
    BY <2>1, <2>2
<1>16. ASSUME NEW t \in Seq(Byte) PROVE ReadValue(d, w \o t, tc) = Read(v, t)
  <2>1. ReadValue(d, w \o t, tc) = Dictionary(d, w \o t)
    BY <1>6, ReadValueIs
  <2> QED
    BY <1>4, <1>11, <1>15, <2>1
<1> QED
  BY <1>13, <1>16 DEF Back

-----------------------------------------------------------------------------
(* ... parameters, messages and responses.                                 *)

(* What is behind the key and the code of an entry.                        *)
EntryParts(b, key, tc, z) ==
  /\ b \in Seq(Byte) /\ Len(b) \in Nat /\ ~ (Len(b) < 2)
  /\ b[1] = key /\ b[2] = tc /\ Drop(b, 2) = z

LEMMA EntryPartsAre ==
  ASSUME NEW a \in Byte, NEW b \in Byte, NEW z \in Seq(Byte)
  PROVE  EntryParts(<<a>> \o (<<b>> \o z), a, b, z)
<1>0. PICK q : q = <<a>> \o (<<b>> \o z)
  OBVIOUS
<1>1. <<a, b>> \in Seq(Byte) /\ q = <<a, b>> \o z /\ q \in Seq(Byte)
  BY <1>0, TwoFirst
<1>2. Len(<<a, b>>) = 2
  OBVIOUS
<1>3. Len(q) = Len(z) + 2 /\ Drop(q, 2) = z
  <2>1. PICK h \in Seq(Byte) : h = <<a, b>>
    BY <1>1
  <2>2. Len(h \o z) = Len(h) + Len(z) /\ Drop(h \o z, Len(h)) = z
    BY Joined
  <2>3. Len(h) = 2 /\ q = h \o z
    BY <1>1, <1>2, <2>1
  <2>4. PICK m \in Nat : m = Len(z)
    BY LenProperties
  <2>5. Len(q) = 2 + m
    BY <2>2, <2>3, <2>4
  <2>6. Drop(q, 2) = z
    BY <2>2, <2>3
  <2>7. 2 + m = m + 2
    BY <2>4
  <2> QED
    BY <2>4, <2>5, <2>6, <2>7
<1>4. q[1] = a /\ q[2] = b
  <2>1. PICK c \in Seq(Byte) : c = <<b>> \o z
    BY TwoFirst
  <2>2. c[1] = b /\ Len(c) = Len(z) + 1
    BY <2>1, OneJoined
  <2>3. q[1] = a /\ Tail(q) = c
    BY <1>0, <2>1, OneJoined
  <2>4. Tail(q)[1] = q[2]
    BY <1>1, <1>3
  <2> QED
    BY <2>2, <2>3, <2>4
<1>5. Len(q) \in Nat /\ ~ (Len(q) < 2)
  <2>1. Len(z) \in Nat
    BY LenProperties
  <2> QED
    BY <1>3, <2>1
<1> QED
  BY <1>0, <1>1, <1>3, <1>4, <1>5 DEF EntryParts

EntryOf(d) == [x \in Seq(Byte) \X Nat |-> Entry(d, x[1])]

LEMMA EntryOfIs ==
  ASSUME NEW d, NEW b \in Seq(Byte), NEW i \in Nat
  PROVE  EntryOf(d)[<<b, i>>] = Entry(d, b)
<1>1. <<b, i>> \in Seq(Byte) \X Nat /\ <<b, i>>[1] = b
  OBVIOUS
<1> QED
  BY <1>1 DEF EntryOf

LEMMA EntryJoin ==
  ASSUME NEW key \in Byte, NEW tc \in Byte, NEW a \in Seq(Byte), NEW u \in Seq(Byte)
  PROVE  (<<key>> \o (<<tc>> \o a)) \o u = <<key>> \o (<<tc>> \o (a \o u))
<1>1. <<key>> \in Seq(Byte) /\ <<tc>> \in Seq(Byte) /\ <<tc>> \o a \in Seq(Byte)
  BY OneByte, TwoJoin
<1>2. (<<key>> \o (<<tc>> \o a)) \o u = <<key>> \o ((<<tc>> \o a) \o u)
  BY <1>1, BytesJoin
<1>3. (<<tc>> \o a) \o u = <<tc>> \o (a \o u)
  BY <1>1, BytesJoin
<1> QED
  BY <1>2, <1>3

LEMMA EntryBack ==
  ASSUME NEW d, NEW key \in Byte, NEW tc \in Byte, NEW a \in Seq(Byte), NEW x,
         ReadsAs(d, a, tc, x), NEW k \in Nat \ {0}, NEW w, w = <<key>> \o (<<tc>> \o a)
  PROVE  OneBack(EntryOf(d), w, <<key, x>>, k) /\ w \in Seq(Byte) /\ Len(w) >= 2
<1>1. ASSUME NEW u \in Seq(Byte) PROVE EntryOf(d)[<<w \o u, k - 1>>] = Read(<< <<key, x>> >>, u)
  <2>1. PICK z \in Seq(Byte) : z = a \o u
    BY TwoJoin
  <2>2. PICK b : b = w \o u
    OBVIOUS
  <2>3. b = <<key>> \o (<<tc>> \o z)
    BY <2>1, <2>2, EntryJoin
  <2>4. EntryParts(b, key, tc, z)
    BY <2>3, EntryPartsAre
  <2>5. d[<<z, tc>>] = Read(x, u)
    BY <2>1 DEF ReadsAs
  <2>6. Entry(d, b) = Read(<< <<key, x>> >>, u)
    <3>1. ~ (Len(b) < 2) /\ b[1] = key /\ b[2] = tc /\ Drop(b, 2) = z
      BY <2>4 DEF EntryParts
    <3>2. Entry(d, b)
            = Read(<< <<b[1], d[<<Drop(b, 2), b[2]>>].v>> >>, d[<<Drop(b, 2), b[2]>>].rest)
      BY <3>1 DEF Entry
    <3>3. d[<<Drop(b, 2), b[2]>>] = Read(x, u)
      BY <2>5, <3>1
    <3>4. Read(x, u).v = x /\ Read(x, u).rest = u
      BY DEF Read
    <3> QED
      BY <3>1, <3>2, <3>3, <3>4
  <2>7. PICK j \in Nat : j = k - 1
    OBVIOUS
  <2>8. b \in Seq(Byte)
    BY <2>4 DEF EntryParts
  <2>9. EntryOf(d)[<<b, j>>] = Entry(d, b)
    BY <2>8, EntryOfIs
  <2> QED
    BY <2>2, <2>6, <2>7, <2>9
<1>2. w \in Seq(Byte) /\ Len(w) >= 2
  <2>1. EntryParts(w, key, tc, a)
    BY EntryPartsAre
  <2>2. w \in Seq(Byte) /\ Len(w) \in Nat /\ ~ (Len(w) < 2)
    BY <2>1 DEF EntryParts
  <2> QED
    BY <2>2
<1> QED
  BY <1>1, <1>2 DEF OneBack

LEMMA FlattenAtLeast ==
  ASSUME NEW parts \in Seq(Seq(Byte)), \A k \in 1 .. Len(parts) : Len(parts[k]) >= 1
  PROVE  Len(FlattenSeq(parts)) >= Len(parts)
<1>1. PICK n \in Nat : n = Len(parts)
  OBVIOUS
<1>2. PICK f \in [0 .. n -> Seq(Byte)] :
        /\ f[0] = <<>> /\ FlattenSeq(parts) = f[n]
        /\ \A k \in 1 .. n : f[k] = f[k - 1] \o parts[k]
  BY <1>1, Flattening
<1> DEFINE Q == {k \in Nat : k <= n => Len(f[k]) >= k}
<1>3. 0 \in Q
  <2>1. Len(f[0]) = 0
    BY <1>2
  <2> QED
    BY <2>1
<1>4. ASSUME NEW k \in Nat, k \in Q
      PROVE  k + 1 \in Q
  <2>1. CASE k + 1 <= n
    <3>1. k + 1 \in 1 .. n /\ (k + 1) - 1 = k /\ k <= n /\ k \in 0 .. n
      BY <1>1, <2>1
    <3>2. f[k + 1] = f[k] \o parts[k + 1] /\ f[k] \in Seq(Byte)
      BY <1>2, <3>1
    <3>3. parts[k + 1] \in Seq(Byte) /\ Len(parts[k + 1]) >= 1
      BY <1>1, <3>1
    <3>4. Len(f[k + 1]) = Len(f[k]) + Len(parts[k + 1])
      BY <3>2, <3>3, TwoJoin
    <3>5. Len(f[k]) >= k /\ Len(f[k]) \in Nat /\ Len(parts[k + 1]) \in Nat
      BY <1>4, <3>1, <3>2, <3>3, LenProperties
    <3>6. Len(f[k + 1]) >= k + 1
      BY <3>3, <3>4, <3>5, OneMoreLeast
    <3> QED
      BY <3>6
  <2>2. CASE ~ (k + 1 <= n)
    BY <2>2
  <2> QED
    BY <2>1, <2>2
<1>5. Nat \subseteq Q
  <2> HIDE DEF Q
  <2> QED
    BY <1>3, <1>4, Induction
<1>6. Len(f[n]) >= n
  BY <1>5
<1> QED
  BY <1>1, <1>2, <1>6

(* A count is not cut down if there are bytes enough for its entries.      *)
LEMMA EntriesCounted ==
  ASSUME NEW n \in Nat, n <= MaxCollectionElements, NEW w \in Seq(Byte), Len(w) + 1 >= n,
         NEW b, b = EncodeVarint[n] \o w, NEW d
  PROVE  ReadEntries(d, b) = ReadEach(EntryOf(d), w, n)
<1>1. ReadCount(b) = Read(n, w)
  BY CountRound
<1>2. Read(n, w).v = n /\ Read(n, w).rest = w
  BY DEF Read
<1>3. Len(w) + 1 \in Nat
  BY LenProperties
<1>4. BoundedCount(n, Len(w) + 1) = n
  BY <1>3, BoundedCountIs
<1> QED
  BY <1>1, <1>2, <1>4 DEF ReadEntries, Entries, EntryOf

LEMMA EntriesRound ==
  ASSUME NEW W, NEW s \in Seq(W), Len(s) <= MaxCollectionElements,
         NEW parts \in Seq(Seq(Byte)), Len(parts) = Len(s),
         \A k \in 1 .. Len(parts) : Len(parts[k]) >= 1, NEW d,
         AllBack(EntryOf(d), parts, s), NEW t \in Seq(Byte)
  PROVE  ReadEntries(d, (EncodeVarint[Len(s)] \o FlattenSeq(parts)) \o t) = Read(s, t)
<1>1. PICK n \in Nat : n = Len(s)
  BY LenProperties
<1>2. PICK f \in Seq(Byte) : f = FlattenSeq(parts)
  BY FlattenBytes
<1>3. Len(f) >= n /\ Len(f) \in Nat /\ Len(t) \in Nat
  BY <1>1, <1>2, FlattenAtLeast, LenProperties
<1>4. PICK w : w = f \o t
  OBVIOUS
<1>5. w \in Seq(Byte) /\ Len(w) + 1 >= n
  <2>1. w \in Seq(Byte) /\ Len(w) = Len(f) + Len(t)
    BY <1>4, TwoJoin
  <2> QED
    BY <1>3, <2>1
<1>6. (EncodeVarint[n] \o f) \o t = EncodeVarint[n] \o w
  BY <1>4, StringBehind
<1>7. ReadEntries(d, EncodeVarint[n] \o w) = ReadEach(EntryOf(d), w, n)
  BY <1>1, <1>5, EntriesCounted
<1>8. ReadEach(EntryOf(d), w, n) = Read(s, t)
  <2>1. PICK one : one = EntryOf(d)
    OBVIOUS
  <2>2. \A k \in 1 .. Len(s) : OneBack(one, parts[k], s[k], k)
    BY <2>1 DEF AllBack
  <2> QED
    BY <1>1, <1>2, <1>4, <2>1, <2>2, EachBack
<1> QED
  BY <1>1, <1>2, <1>6, <1>7, <1>8

(* A table is read as it was written.                                      *)
TableBack(d, p, t) ==
  \A u \in Seq(Byte) : ReadParameterTable(d, Table(p, t) \o u) = Read(t, u)

LEMMA TableEntryRound ==
  ASSUME NEW t, IsFiniteSet(DOMAIN t), DOMAIN t \subseteq Byte, Range(t) \subseteq Writable,
         NEW d, NEW p, Writes(p, Range(t)), Backs(d, p, Range(t)),
         NEW k \in DOMAIN SetToSeq(DOMAIN t), k \in Nat \ {0}
  PROVE  /\ OneBack(EntryOf(d), TableParts(p, t, SetToSeq(DOMAIN t))[k], EntriesOf(t)[k], k)
         /\ Len(TableParts(p, t, SetToSeq(DOMAIN t))[k]) >= 2
<1>1. PICK keys : keys = SetToSeq(DOMAIN t)
  OBVIOUS
<1>2. PICK key : key = keys[k]
  OBVIOUS
<1>3. PICK x : x = t[key]
  OBVIOUS
<1>4. key \in Byte /\ x \in Range(t) /\ x \in Writable /\ EntriesOf(t)[k] = <<key, x>>
  BY <1>1, <1>2, <1>3, EntriesOfIs
<1>5. PICK tc : tc = Some(CodesFor[x])
  OBVIOUS
<1>6. tc \in CodesFor[x] /\ tc \in Byte
  BY <1>4, <1>5, CodesForSome
<1>7. PICK a : a = p[<<x, tc>>]
  OBVIOUS
<1>8. a \in Seq(Byte) /\ ReadsAs(d, a, tc, x)
  BY <1>4, <1>6, <1>7, BackReads
<1>9. PICK w : w = <<key>> \o (<<tc>> \o a)
  OBVIOUS
<1>10. OneBack(EntryOf(d), w, <<key, x>>, k) /\ Len(w) >= 2
  BY <1>4, <1>6, <1>8, <1>9, EntryBack
<1>11. Tagged(p, x) = <<tc>> \o a
  BY <1>5, <1>7 DEF Tagged
<1>12. TableParts(p, t, keys)[k] = w
  BY <1>1, <1>2, <1>3, <1>9, <1>11 DEF TableParts
<1> QED
  BY <1>1, <1>4, <1>10, <1>12

LEMMA TwoIsSome ==
  ASSUME NEW n \in Nat, n >= 2
  PROVE  n >= 1
  OBVIOUS

LEMMA TableRound ==
  ASSUME NEW t, IsFunction(t), DOMAIN t \subseteq Byte, Range(t) \subseteq Writable,
         Cardinality(DOMAIN t) <= MaxCollectionElements,
         NEW d, NEW p, Writes(p, Range(t)), Backs(d, p, Range(t))
  PROVE  TableBack(d, p, t)
<1>1. IsFiniteSet(DOMAIN t)
  BY FiniteBytes
<1>2. PICK keys : keys = SetToSeq(DOMAIN t)
  OBVIOUS
<1>3. PICK s : s = EntriesOf(t)
  OBVIOUS
<1>4. PICK n \in Nat : n = Cardinality(DOMAIN t)
  BY <1>1, SetToSeqIs
<1>5. /\ keys \in Seq(DOMAIN t) /\ Len(keys) = n /\ DOMAIN keys = 1 .. n
      /\ s \in Seq((DOMAIN t) \X Range(t)) /\ Len(s) = n
  BY <1>1, <1>2, <1>3, <1>4, SetToSeqIs, EntriesOfIs
<1>6. MapOf(s) = t
  BY <1>1, <1>3, EntriesMap
<1>7. PICK parts : parts = TableParts(p, t, keys)
  OBVIOUS
<1>8. Agrees(p, p, Range(t))
  BY DEF Agrees
<1>9. parts \in Seq(Seq(Byte)) /\ Len(parts) = n
  BY <1>5, <1>7, <1>8, TableBytes
<1>10. ASSUME NEW k \in 1 .. n
       PROVE  OneBack(EntryOf(d), parts[k], s[k], k) /\ Len(parts[k]) >= 1
  <2>1. k \in DOMAIN SetToSeq(DOMAIN t) /\ k \in Nat \ {0}
    BY <1>2, <1>5
  <2>2. OneBack(EntryOf(d), parts[k], s[k], k) /\ Len(parts[k]) >= 2
    BY <1>1, <1>2, <1>3, <1>7, <2>1, TableEntryRound
  <2>3. parts[k] \in Seq(Byte)
    BY <1>9
  <2>4. Len(parts[k]) \in Nat
    BY <2>3, LenProperties
  <2> QED
    BY <2>2, <2>4, TwoIsSome
<1>11. AllBack(EntryOf(d), parts, s) /\ \A k \in 1 .. Len(parts) : Len(parts[k]) >= 1
  BY <1>5, <1>9, <1>10 DEF AllBack
<1>12. Len(s) <= MaxCollectionElements /\ Len(parts) = Len(s)
  BY <1>4, <1>5, <1>9
<1>13. Table(p, t) = EncodeVarint[Len(s)] \o FlattenSeq(parts)
  BY <1>2, <1>5, <1>7, TableIs
<1>14. ASSUME NEW u \in Seq(Byte)
       PROVE  ReadParameterTable(d, Table(p, t) \o u) = Read(t, u)
  <2>1. ReadEntries(d, (EncodeVarint[Len(s)] \o FlattenSeq(parts)) \o u) = Read(s, u)
    BY <1>5, <1>9, <1>11, <1>12, EntriesRound
  <2>2. PICK e : e = ReadEntries(d, Table(p, t) \o u)
    OBVIOUS
  <2>3. e.v = s /\ e.rest = u
    BY <1>13, <2>1, <2>2 DEF Read
  <2>4. ReadParameterTable(d, Table(p, t) \o u) = Read(MapOf(e.v), e.rest)
    BY <2>2 DEF ReadParameterTable
  <2> QED
    BY <1>6, <2>3, <2>4
<1> QED
  BY <1>14 DEF TableBack

(* Messages inside messages.                                               *)
LEMMA MessageParams ==
  ASSUME NEW v \in Writable, v[1] \in {"message", "response"}
  PROVE  /\ IsFunction(v[2].params) /\ DOMAIN v[2].params \subseteq Byte
         /\ Range(v[2].params) \subseteq Writable /\ Range(v[2].params) \subseteq Parts(v)
         /\ Cardinality(DOMAIN v[2].params) <= MaxCollectionElements
         /\ v = <<v[1], v[2]>>
<1>1. Sendable(v) /\ Parts(v) \subseteq Writable
  BY WritableIs
<1>2. Exact(v) /\ Cardinality(DOMAIN v[2].params) <= MaxCollectionElements
  BY <1>1 DEF Sendable
<1>3. IsFunction(v[2].params) /\ v = <<v[1], v[2]>>
  BY <1>2 DEF Exact
<1> QED
  BY <1>1, <1>2, <1>3, MessageIs

LEMMA ParamsRound ==
  ASSUME NEW v \in Writable, v[1] \in {"message", "response"}, NEW p, NEW d,
         Writes(p, Parts(v)), Backs(d, p, Parts(v))
  PROVE  TableBack(d, p, v[2].params) /\ Table(p, v[2].params) \in Seq(Byte)
<1>1. PICK t : t = v[2].params
  OBVIOUS
<1>2. /\ IsFunction(t) /\ DOMAIN t \subseteq Byte /\ Range(t) \subseteq Writable
      /\ Range(t) \subseteq Parts(v) /\ Cardinality(DOMAIN t) <= MaxCollectionElements
  BY <1>1, MessageParams
<1>3. Writes(p, Range(t)) /\ Backs(d, p, Range(t))
  BY <1>2 DEF Writes, Backs
<1>4. Agrees(p, p, Range(t))
  BY DEF Agrees
<1> QED
  BY <1>1, <1>2, <1>3, <1>4, TableRound, TableWritten

LEMMA MessageRound ==
  ASSUME NEW v \in Writable, v[1] = "message", NEW tc \in CodesFor[v], NEW p, NEW d,
         Writes(p, Parts(v)), Backs(d, p, Parts(v))
  PROVE  Back(d, PayloadOf(p, v, tc), tc, v)
<1>1. PICK c \in Byte : c = v[2].code
  BY MessageIs
<1>2. PICK t : t = v[2].params
  OBVIOUS
<1>3. PICK z \in Seq(Byte) : z = Table(p, t)
  BY <1>2, ParamsRound
<1>4. TableBack(d, p, t)
  BY <1>2, ParamsRound
<1>5. tc \in {24, 26} /\ tc \in Byte
  BY WritablePair, CodesOfMessage, CodesForSome
<1>6. PayloadOf(p, v, tc) = <<c>> \o z
  BY <1>1, <1>2, <1>3, PayloadOfIs DEF MessagePayload
<1>7. v = <<"message", [code |-> c, params |-> t]>>
  <2>1. Sendable(v)
    BY WritableIs
  <2>2. Exact(v)
    BY <2>1 DEF Sendable
  <2> QED
    BY <1>1, <1>2, <2>2 DEF Exact
<1>8. ASSUME NEW u \in Seq(Byte)
      PROVE  ReadValue(d, (<<c>> \o z) \o u, tc) = Read(v, u)
  <2>1. PICK b : b = (<<c>> \o z) \o u
    OBVIOUS
  <2>2. PICK r \in Seq(Byte) : r = z \o u
    BY TwoJoin
  <2>3. b = <<c>> \o r
    BY <2>1, <2>2, OneByte, BytesJoin
  <2>4. ReadByte(b) = Read(c, r)
    BY <2>3, ByteRead
  <2>5. ReadParameterTable(d, r) = Read(t, u)
    BY <1>3, <1>4, <2>2 DEF TableBack
  <2>6. ReadValue(d, b, tc) = InnerMessage(d, b)
    BY <1>5, ReadValueIs
  <2>7. ReadByte(b).v = c /\ ReadByte(b).rest = r
    BY <2>4 DEF Read
  <2>8. ReadParameterTable(d, r).v = t /\ ReadParameterTable(d, r).rest = u
    BY <2>5 DEF Read
  <2>9. InnerMessage(d, b) = Read(<<"message", [code |-> c, params |-> t]>>, u)
    BY <2>7, <2>8 DEF InnerMessage
  <2> QED
    BY <1>7, <2>1, <2>6, <2>9
<1> QED
  BY <1>6, <1>8 DEF Back

Joint(a, b) == a \o b

LEMMA JointIs ==
  \A a, b, c \in Seq(Byte) : Joint(a, b) \in Seq(Byte)
                             /\ Joint(Joint(a, b), c) = Joint(a, Joint(b, c))
  BY BytesJoin DEF Joint

InFour(b, k, h, q, z, u) ==
  \E r1, r2, r3 \in Seq(Byte) : b = k \o r1 /\ r1 = h \o r2 /\ r2 = q \o r3 /\ r3 = z \o u

LEMMA FourJoined ==
  ASSUME NEW k \in Seq(Byte), NEW h \in Seq(Byte), NEW q \in Seq(Byte), NEW z \in Seq(Byte),
         NEW u \in Seq(Byte)
  PROVE  InFour((k \o h \o q \o z) \o u, k, h, q, z, u)
<1>1. /\ Joint(k, h) \in Seq(Byte) /\ Joint(Joint(k, h), q) \in Seq(Byte)
      /\ Joint(z, u) \in Seq(Byte) /\ Joint(q, Joint(z, u)) \in Seq(Byte)
      /\ Joint(h, Joint(q, Joint(z, u))) \in Seq(Byte)
  BY JointIs
<1>2. Joint(Joint(Joint(Joint(k, h), q), z), u) = Joint(Joint(Joint(k, h), q), Joint(z, u))
  BY <1>1, JointIs
<1>3. Joint(Joint(Joint(k, h), q), Joint(z, u)) = Joint(Joint(k, h), Joint(q, Joint(z, u)))
  BY <1>1, JointIs
<1>4. Joint(Joint(k, h), Joint(q, Joint(z, u))) = Joint(k, Joint(h, Joint(q, Joint(z, u))))
  BY <1>1, JointIs
<1>5. PICK b : b = Joint(Joint(Joint(Joint(k, h), q), z), u)
  OBVIOUS
<1>6. PICK r3 : r3 = Joint(z, u)
  OBVIOUS
<1>7. PICK r2 : r2 = Joint(q, r3)
  OBVIOUS
<1>8. PICK r1 : r1 = Joint(h, r2)
  OBVIOUS
<1>9. b = Joint(k, r1) /\ r1 \in Seq(Byte) /\ r2 \in Seq(Byte) /\ r3 \in Seq(Byte)
  BY <1>1, <1>2, <1>3, <1>4, <1>5, <1>6, <1>7, <1>8
<1>10. b = k \o r1 /\ r1 = h \o r2 /\ r2 = q \o r3 /\ r3 = z \o u
  BY <1>6, <1>7, <1>8, <1>9 DEF Joint
<1>11. InFour(b, k, h, q, z, u)
  BY <1>9, <1>10, Zenon DEF InFour
<1> QED
  BY <1>5, <1>11 DEF Joint

LEMMA ResponseRound ==
  ASSUME NEW v \in Writable, v[1] = "response", NEW tc \in CodesFor[v], NEW p, NEW d,
         Writes(p, Parts(v)), Backs(d, p, Parts(v))
  PROVE  Back(d, PayloadOf(p, v, tc), tc, v)
<1>1. PICK c \in Byte : c = v[2].code
  BY MessageIs
<1>2. PICK rc \in SignedRange(16) : rc = v[2].returnCode
  BY MessageIs
<1>3. PICK t : t = v[2].params
  OBVIOUS
<1>4. PICK g : g = v[2].debug
  OBVIOUS
<1>5. PICK x : x = <<"string", g>>
  OBVIOUS
<1>6. x \in Parts(v) /\ x[1] = "string" /\ x[2] = g
  BY <1>4, <1>5, MessageIs
<1>7. PICK z \in Seq(Byte) : z = Table(p, t)
  BY <1>3, ParamsRound
<1>8. TableBack(d, p, t)
  BY <1>3, ParamsRound
<1>9. tc = 25 /\ tc \in Byte
  BY WritablePair, CodesOfResponse, CodesForSome
<1>10. PICK h \in Seq(Byte) : h = Bytes16(rc)
  BY Bytes16Are DEF SignedRange
<1>11. Len(h) = 2
  BY <1>10, Bytes16Are DEF SignedRange
<1>12. PICK q : q = Tagged(p, x)
  OBVIOUS
<1>13. Parts(v) \subseteq Writable
  BY WritableIs
<1>14. ASSUME NEW u \in Seq(Byte) PROVE Coded(d, q, x, u)
  BY <1>6, <1>12, <1>13, CodedRound
<1>15. q \in Seq(Byte)
  <2>1. Agrees(p, p, Parts(v))
    BY DEF Agrees
  <2> QED
    BY <1>6, <1>12, <1>13, <2>1, TaggedBytes
<1>16. PayloadOf(p, v, tc) = <<c>> \o h \o q \o z
  BY <1>1, <1>2, <1>3, <1>4, <1>5, <1>7, <1>10, <1>12, PayloadOfIs DEF ResponsePayload
<1>17. v = <<"response", [code |-> c, returnCode |-> rc, debug |-> g, params |-> t]>>
  <2>1. Sendable(v)
    BY WritableIs
  <2>2. Exact(v)
    BY <2>1 DEF Sendable
  <2> QED
    BY <1>1, <1>2, <1>3, <1>4, <2>2 DEF Exact
<1>18. ASSUME NEW u \in Seq(Byte)
       PROVE  ReadValue(d, (<<c>> \o h \o q \o z) \o u, tc) = Read(v, u)
  <2>1. PICK b : b = (<<c>> \o h \o q \o z) \o u
    OBVIOUS
  <2>2. PICK k \in Seq(Byte) : k = <<c>>
    BY OneByte
  <2>3. InFour((k \o h \o q \o z) \o u, k, h, q, z, u)
    BY <1>15, FourJoined
  <2>4. PICK r1, r2, r3 \in Seq(Byte) :
          /\ (k \o h \o q \o z) \o u = k \o r1
          /\ r1 = h \o r2 /\ r2 = q \o r3 /\ r3 = z \o u
    BY <2>3, Zenon DEF InFour
  <2>6. b = <<c>> \o r1
    BY <2>1, <2>2, <2>4
  <2>7. ReadByte(b) = Read(c, r1)
    BY <2>6, ByteRead
  <2>8. ReadInt16(r1) = Read(rc, r2)
    BY <1>10, <2>4, Int16Round
  <2>9. PICK e \in Byte, w \in Seq(Byte) :
          r2 = <<e>> \o (w \o r3) /\ d[<<w \o r3, e>>] = Read(x, r3)
    BY <1>14, <2>4 DEF Coded
  <2>10. PICK y \in Seq(Byte) : y = w \o r3
    BY TwoJoin
  <2>11. ReadByte(r2) = Read(e, y) /\ r2 # <<>>
    BY <2>9, <2>10, ByteRead, OneJoined
  <2>12. d[<<y, e>>] = Read(x, r3)
    BY <2>9, <2>10
  <2>13. ReadParameterTable(d, r3) = Read(t, u)
    BY <1>7, <1>8, <2>4 DEF TableBack
  <2>14. ~ (Len(b) < 3)
    <3>1. Len(b) = Len(r1) + 1
      BY <2>6, OneJoined
    <3>2. Len(r1) = 2 + Len(r2) /\ Len(r2) \in Nat
      <4>1. Len(h \o r2) = Len(h) + Len(r2)
        BY TwoJoin, Zenon
      <4>2. Len(r2) \in Nat
        BY LenProperties, Zenon
      <4> QED
        BY <1>11, <2>4, <4>1, <4>2
    <3> QED
      BY <3>1, <3>2
  <2>15. ReadValue(d, b, tc) = InnerResponse(d, b)
    BY <1>9, ReadValueIs
  <2>16. \A i, j : Read(i, j).v = i /\ Read(i, j).rest = j
    BY DEF Read
  <2>17. ReadByte(b).v = c /\ ReadByte(b).rest = r1
    BY <2>7, <2>16
  <2>18. ReadInt16(r1).v = rc /\ ReadInt16(r1).rest = r2
    BY <2>8, <2>16
  <2>19. ReadByte(r2).v = e /\ ReadByte(r2).rest = y
    BY <2>11, <2>16
  <2>20. d[<<y, e>>].v = x /\ d[<<y, e>>].rest = r3
    BY <2>12, <2>16
  <2>21. ReadParameterTable(d, r3).v = t /\ ReadParameterTable(d, r3).rest = u
    BY <2>13, <2>16
  <2>22. InnerResponse(d, b)
           = Read(<<"response", [code |-> c, returnCode |-> rc, debug |-> g, params |-> t]>>, u)
    BY <1>6, <2>11, <2>14, <2>17, <2>18, <2>19, <2>20, <2>21 DEF InnerResponse
  <2> QED
    BY <1>17, <2>1, <2>15, <2>22
<1> QED
  BY <1>16, <1>18 DEF Back

-----------------------------------------------------------------------------
(* The deserializer reads back what the serializer wrote.                  *)

LEMMA ValueBack ==
  ASSUME NEW v \in Writable, NEW tc \in CodesFor[v], NEW p, NEW d,
         Writes(p, Parts(v)), Backs(d, p, Parts(v)), Fits(p, Parts(v)), Speaks(p, Parts(v))
  PROVE  Back(d, PayloadOf(p, v, tc), tc, v)
<1>0. Sendable(v)
  BY WritableIs
<1>t. v[1] \in Types \ {"unhashable"}
  BY <1>0 DEF Sendable, WellFormed
<1>1. CASE v[1] \in {"nil", "bool", "byte", "int16", "int32", "int64", "float32", "float64",
                     "string"}
  BY <1>1, PlainsRound
<1>2. CASE v[1] = "custom"
  BY <1>2, CustomRound
<1>3. CASE v[1] \in ArrayTypes
  BY <1>3, ArrayRound
<1>4. CASE v[1] = "map"
  BY <1>4, MapRound
<1>5. CASE v[1] = "message"
  BY <1>5, MessageRound
<1>6. CASE v[1] = "response"
  BY <1>6, ResponseRound
<1> QED
  BY <1>t, <1>1, <1>2, <1>3, <1>4, <1>5, <1>6 DEF Types

(* What was written of v is read as v.                                     *)
Readable(v) ==
  \A tc \in CodesFor[v] : \A t \in Seq(Byte) :
    Deserialize[<<Payload[<<v, tc>>] \o t, tc>>] = Read(v, t)

LEMMA PartsReadable ==
  ASSUME NEW v \in Writable, \A x \in Parts(v) : Readable(x)
  PROVE  Readable(v)
<1>1. PICK S : S = Parts(v)
  OBVIOUS
<1>2. S \subseteq Writable
  BY <1>1, WritableIs
<1>3. Writes(Payload, S)
  BY <1>2, PayloadIs DEF Writes
<1>4. Backs(Deserialize, Payload, S)
  BY <1>1 DEF Readable, Backs
<1>5. Fits(Payload, S)
  BY <1>2, PayloadFits DEF Fits
<1>6. Speaks(Payload, S)
  BY <1>2, PayloadSpeaks DEF Speaks
<1>7. ASSUME NEW tc \in CodesFor[v], NEW t \in Seq(Byte)
      PROVE  Deserialize[<<Payload[<<v, tc>>] \o t, tc>>] = Read(v, t)
  <2>1. PICK w : w = Payload[<<v, tc>>]
    OBVIOUS
  <2>2. w = PayloadOf(Payload, v, tc) /\ w \in Seq(Byte)
    BY <2>1, PayloadIs
  <2>3. Back(Deserialize, w, tc, v)
    BY <1>1, <1>3, <1>4, <1>5, <1>6, <2>2, ValueBack
  <2>4. PICK b \in Seq(Byte) : b = w \o t
    BY <2>2, TwoJoin
  <2>5. tc \in Byte
    BY CodesForSome
  <2>6. ReadValue(Deserialize, b, tc) = Read(v, t)
    BY <2>3, <2>4 DEF Back
  <2>7. <<b, tc>> \in Buffers /\ <<b, tc>>[1] = b /\ <<b, tc>>[2] = tc
    BY <2>5 DEF Buffers
  <2>8. Deserialize[<<b, tc>>] = ReadValue(Deserialize, b, tc)
    BY <2>7, DeserializeIs
  <2> QED
    BY <2>1, <2>4, <2>6, <2>8
<1> QED
  BY <1>7 DEF Readable

(* deserialize reads of what the server wrote the value that it meant, and *)
(* leaves what is behind it.                                               *)
THEOREM RoundTrip ==
  \A v \in Writable : \A tc \in CodesFor[v] : \A t \in Seq(Byte) :
    Deserialize[<<Payload[<<v, tc>>] \o t, tc>>] = Read(v, t)
<1> DEFINE Q == {n \in Nat : \A v \in Writable : Height[v] = n => Readable(v)}
<1>1. ASSUME NEW n \in Nat, \A k \in Nat : k < n => k \in Q
      PROVE  n \in Q
  <2>1. ASSUME NEW v \in Writable, Height[v] = n PROVE Readable(v)
    <3>1. ASSUME NEW x \in Parts(v) PROVE Readable(x)
      <4>1. x \in Writable /\ Height[x] < n
        BY <2>1, HeightIs
      <4>2. Height[x] \in Nat
        BY <4>1, HeightIs
      <4>3. Height[x] \in Q
        BY <1>1, <4>1, <4>2
      <4> QED
        BY <4>1, <4>3
    <3> QED
      BY <3>1, PartsReadable
  <2> QED
    BY <2>1
<1>2. Nat \subseteq Q
  <2> HIDE DEF Q
  <2> QED
    BY <1>1, StrongInduction
<1>3. \A v \in Writable : Readable(v)
  <2>1. ASSUME NEW v \in Writable PROVE Readable(v)
    <3>1. Height[v] \in Nat
      BY HeightIs
    <3>2. Height[v] \in Q
      BY <1>2, <3>1
    <3> QED
      BY <3>2
  <2> QED
    BY <2>1
<1> QED
  BY <1>3 DEF Readable

-----------------------------------------------------------------------------
(* The parameters of a message, and those in front of a damaged one.       *)

(* What the deserializer makes of the parameters that were written.        *)
LEMMA ParameterReads ==
  ASSUME SentRight(sent), NEW k \in DOMAIN sent
  PROVE  \E tc \in Byte : \E a \in Seq(Byte) :
           /\ Written(k) = <<sent[k].key>> \o (<<tc>> \o a)
           /\ ReadsAs(Deserialize, a, tc, sent[k].v)
<1>1. sent[k] \in [key : Byte, v : Writable, bytes : Seq(Byte)]
  <2> DEFINE R == [key : Byte, v : Writable, bytes : Seq(Byte)]
  <2>1. sent \in Seq(R)
    BY DEF SentRight
  <2> HIDE DEF R
  <2>2. sent[k] \in R
    BY <2>1
  <2> QED
    BY <2>2 DEF R
<1>2. PICK x : x = sent[k]
  OBVIOUS
<1>3. x.v \in Writable
  BY <1>1, <1>2
<1>4. x.bytes \in Encoded(x.v)
  BY <1>2 DEF SentRight
<1>5. PICK tc \in CodesFor[x.v] : x.bytes = <<tc>> \o Payload[<<x.v, tc>>]
  BY <1>4 DEF Encoded
<1>6. PICK a : a = Payload[<<x.v, tc>>]
  OBVIOUS
<1>7. a \in Seq(Byte) /\ tc \in Byte
  BY <1>3, <1>5, <1>6, PayloadIs, EncodedBytes
<1>8. ReadsAs(Deserialize, a, tc, x.v)
  BY <1>3, <1>5, <1>6, RoundTrip DEF ReadsAs
<1>9. Written(k) = <<x.key>> \o (<<tc>> \o a)
  BY <1>2, <1>5, <1>6 DEF Written
<1> QED
  BY <1>2, <1>7, <1>8, <1>9

LEMMA ParameterBack ==
  ASSUME SentRight(sent), NEW k \in DOMAIN sent, k \in Nat \ {0}
  PROVE  /\ OneBack(EntryOf(Deserialize), Written(k), <<sent[k].key, sent[k].v>>, k)
         /\ Len(Written(k)) >= 1
<1>1. PICK w : w = Written(k)
  OBVIOUS
<1>2. w \in Seq(Byte) /\ sent[k].key \in Byte
  BY <1>1, WrittenBytes
<1>3. PICK key \in Byte : key = sent[k].key
  BY <1>2
<1>4. PICK x : x = sent[k].v
  OBVIOUS
<1>5. PICK tc \in Byte, a \in Seq(Byte) :
        w = <<key>> \o (<<tc>> \o a) /\ ReadsAs(Deserialize, a, tc, x)
  BY <1>1, <1>3, <1>4, ParameterReads
<1>6. OneBack(EntryOf(Deserialize), w, <<key, x>>, k) /\ Len(w) >= 2
  BY <1>5, EntryBack
<1>7. Len(w) \in Nat
  BY <1>2, LenProperties
<1>8. Len(w) >= 1
  BY <1>6, <1>7, TwoIsSome
<1> QED
  BY <1>1, <1>3, <1>4, <1>6, <1>8

(* One value more.                                                         *)
LEMMA ReadEachMore ==
  ASSUME NEW one, NEW b, NEW n \in Nat, NEW e, e = ReadEach(one, b, n)
  PROVE  ReadEach(one, b, n + 1)
           = Read(e.v \o one[<<e.rest, n>>].v, one[<<e.rest, n>>].rest)
<1>1. PICK m \in Nat : m = n + 1
  OBVIOUS
<1>2. PICK r : Steps(one, b, m, r)
  BY StepsExist
<1>3. r[0] = Read(<<>>, b)
      /\ \A k \in 1 .. m : r[k] = Read(r[k - 1].v \o one[<<r[k - 1].rest, k - 1>>].v,
                                       one[<<r[k - 1].rest, k - 1>>].rest)
  BY <1>2 DEF Steps
<1>4. 1 .. n \subseteq 1 .. m /\ m \in 1 .. m /\ m - 1 = n
  BY <1>1
<1>5. Steps(one, b, n, r)
  BY <1>3, <1>4 DEF Steps
<1>6. ReadEach(one, b, n) = r[n] /\ ReadEach(one, b, m) = r[m]
  BY <1>2, <1>5, ReadEachIs
<1>7. r[m] = Read(r[m - 1].v \o one[<<r[m - 1].rest, m - 1>>].v,
                  one[<<r[m - 1].rest, m - 1>>].rest)
  BY <1>3, <1>4
<1> QED
  BY <1>1, <1>4, <1>6, <1>7

BackMore(one, b, s, t) ==
  ReadEach(one, b, Len(s) + 1)
    = Read(s \o one[<<t, Len(s)>>].v, one[<<t, Len(s)>>].rest)

LEMMA EachBackMore ==
  ASSUME NEW W, NEW s \in Seq(W), NEW parts \in Seq(Seq(Byte)), Len(parts) = Len(s), NEW one,
         AllBack(one, parts, s), NEW t \in Seq(Byte)
  PROVE  BackMore(one, FlattenSeq(parts) \o t, s, t)
<1>1. PICK n \in Nat : n = Len(s)
  BY LenProperties
<1>2. PICK b : b = FlattenSeq(parts) \o t
  OBVIOUS
<1>3. \A k \in 1 .. Len(s) : OneBack(one, parts[k], s[k], k)
  BY DEF AllBack
<1>4. PICK e : e = ReadEach(one, b, n)
  OBVIOUS
<1>5. e = Read(s, t)
  BY <1>1, <1>2, <1>3, <1>4, EachBack
<1>6. e.v = s /\ e.rest = t
  BY <1>5 DEF Read
<1>7. ReadEach(one, b, n + 1) = Read(e.v \o one[<<e.rest, n>>].v, one[<<e.rest, n>>].rest)
  BY <1>1, <1>4, ReadEachMore
<1> QED
  BY <1>1, <1>2, <1>6, <1>7 DEF BackMore

(* The parameters in front of the last one, and their bytes.               *)
Parted(m) == [i \in 1 .. m |-> Written(i)]

Told(m) == [i \in 1 .. m |-> <<sent[i].key, sent[i].v>>]

LEMMA SentKnown ==
  ASSUME SentRight(sent)
  PROVE  /\ Len(sent) \in Nat /\ DOMAIN sent = 1 .. Len(sent) /\ Len(sent) <= MaxParameters
         /\ \A i \in 1 .. Len(sent) : sent[i].key \in Byte /\ sent[i].v \in Writable
<1> DEFINE R == [key : Byte, v : Writable, bytes : Seq(Byte)]
<1>1. sent \in Seq(R) /\ Len(sent) <= MaxParameters
  BY DEF SentRight
<1> HIDE DEF R
<1>2. Len(sent) \in Nat /\ DOMAIN sent = 1 .. Len(sent)
  BY <1>1, LenProperties
<1>3. ASSUME NEW i \in 1 .. Len(sent) PROVE sent[i].key \in Byte /\ sent[i].v \in Writable
  <2>1. sent[i] \in R
    BY <1>1, <1>2
  <2> QED
    BY <2>1 DEF R
<1> QED
  BY <1>1, <1>2, <1>3

LEMMA ToldIs ==
  ASSUME SentRight(sent), NEW m \in 0 .. Len(sent)
  PROVE  /\ Told(m) \in Seq(Byte \X Writable) /\ Len(Told(m)) = m
         /\ Parted(m) \in Seq(Seq(Byte)) /\ Len(Parted(m)) = m
         /\ \A k \in 1 .. m : Told(m)[k] = <<sent[k].key, sent[k].v>> /\ Parted(m)[k] = Written(k)
<1>1. m \in Nat /\ 1 .. m \subseteq 1 .. Len(sent) /\ 1 .. m \subseteq DOMAIN sent
  BY SentKnown
<1>2. PICK f : f = Told(m)
  OBVIOUS
<1>3. PICK g : g = Parted(m)
  OBVIOUS
<1>4. f = [i \in 1 .. m |-> f[i]] /\ \A k \in 1 .. m : f[k] = <<sent[k].key, sent[k].v>>
  BY <1>2 DEF Told
<1>5. g = [i \in 1 .. m |-> g[i]] /\ \A k \in 1 .. m : g[k] = Written(k)
  BY <1>3 DEF Parted
<1>6. ASSUME NEW k \in 1 .. m PROVE f[k] \in Byte \X Writable
  <2>1. sent[k].key \in Byte /\ sent[k].v \in Writable
    BY <1>1, SentKnown
  <2>2. <<sent[k].key, sent[k].v>> \in Byte \X Writable
    BY <2>1, PairIn
  <2> QED
    BY <1>4, <2>2
<1>7. \A k \in 1 .. m : g[k] \in Seq(Byte)
  BY <1>1, <1>5, WrittenBytes
<1>8. f \in Seq(Byte \X Writable) /\ Len(f) = m
  BY <1>1, <1>4, <1>6, SequenceUpto
<1>9. g \in Seq(Seq(Byte)) /\ Len(g) = m
  BY <1>1, <1>5, <1>7, SequenceUpto
<1> QED
  BY <1>2, <1>3, <1>4, <1>5, <1>8, <1>9

LEMMA ToldBack ==
  ASSUME SentRight(sent), NEW m \in 0 .. Len(sent)
  PROVE  /\ AllBack(EntryOf(Deserialize), Parted(m), Told(m))
         /\ Len(FlattenSeq(Parted(m))) >= m /\ FlattenSeq(Parted(m)) \in Seq(Byte)
<1>1. PICK f : f = Told(m)
  OBVIOUS
<1>2. PICK g : g = Parted(m)
  OBVIOUS
<1>3. /\ f \in Seq(Byte \X Writable) /\ Len(f) = m /\ g \in Seq(Seq(Byte)) /\ Len(g) = m
      /\ \A k \in 1 .. m : f[k] = <<sent[k].key, sent[k].v>> /\ g[k] = Written(k)
  BY <1>1, <1>2, ToldIs
<1>4. ASSUME NEW k \in 1 .. m
      PROVE  OneBack(EntryOf(Deserialize), g[k], f[k], k) /\ Len(g[k]) >= 1
  <2>1. k \in DOMAIN sent /\ k \in Nat \ {0}
    BY SentKnown
  <2> QED
    BY <1>3, <2>1, ParameterBack
<1>5. AllBack(EntryOf(Deserialize), g, f)
  BY <1>3, <1>4 DEF AllBack
<1>6. Len(FlattenSeq(g)) >= Len(g) /\ FlattenSeq(g) \in Seq(Byte)
  BY <1>3, <1>4, FlattenAtLeast, FlattenBytes
<1> QED
  BY <1>1, <1>2, <1>3, <1>5, <1>6

(* All parameters are read, ...                                            *)
LEMMA MeantIs == Meant = Told(Len(sent)) \/ ~ SentRight(sent)
  BY SentKnown DEF Meant, Told

LEMMA SentCount ==
  ASSUME SentRight(sent)
  PROVE  Len(sent) \in Nat /\ Len(sent) <= MaxCollectionElements
<1>1. /\ Len(sent) \in Nat /\ Len(sent) <= MaxParameters
      /\ MaxParameters \in 0 .. MaxCollectionElements /\ MaxCollectionElements \in Nat
  BY SentKnown, ValuesAssumption, WidthsAssumption
<1> QED
  BY <1>1

LEMMA SentRead ==
  ASSUME SentRight(sent)
  PROVE  ReadEntries(Deserialize, Bytes(Len(sent))) = Read(Meant, <<>>)
<1>1. PICK n \in Nat : n = Len(sent)
  BY SentKnown
<1>2. n <= MaxCollectionElements /\ n \in 0 .. Len(sent)
  BY <1>1, SentCount
<1>3. PICK s : s = Told(n)
  OBVIOUS
<1>4. PICK parts : parts = Parted(n)
  OBVIOUS
<1>5. s \in Seq(Byte \X Writable) /\ Len(s) = n /\ parts \in Seq(Seq(Byte)) /\ Len(parts) = n
  BY <1>2, <1>3, <1>4, ToldIs
<1>6. /\ AllBack(EntryOf(Deserialize), parts, s) /\ FlattenSeq(parts) \in Seq(Byte)
      /\ Len(FlattenSeq(parts)) >= n
  BY <1>2, <1>3, <1>4, ToldBack
<1>7. PICK f \in Seq(Byte) : f = FlattenSeq(parts)
  BY <1>6
<1>8. PICK t \in Seq(Byte) : t = <<>>
  BY EmptySeq
<1>9. PICK w \in Seq(Byte) : w = f \o t
  BY TwoJoin
<1>10. w = f
  BY <1>8, <1>9
<1>11. Len(w) + 1 >= n
  <2>1. Len(f) >= n /\ Len(f) \in Nat
    BY <1>6, <1>7, LenProperties
  <2> QED
    BY <1>10, <2>1
<1>12. Bytes(n) = EncodeVarint[n] \o w
  BY <1>1, <1>4, <1>7, <1>10 DEF Bytes, Parted
<1>13. ReadEntries(Deserialize, EncodeVarint[n] \o w) = ReadEach(EntryOf(Deserialize), w, n)
  BY <1>2, <1>11, EntriesCounted
<1>14. \A k \in 1 .. Len(s) : OneBack(EntryOf(Deserialize), parts[k], s[k], k)
  BY <1>6 DEF AllBack
<1>15. ReadEach(EntryOf(Deserialize), w, n) = Read(s, t)
  BY <1>5, <1>7, <1>9, <1>14, EachBack
<1>16. Meant = s
  BY <1>1, <1>3, MeantIs
<1> QED
  BY <1>1, <1>8, <1>12, <1>13, <1>15, <1>16

(* ... and those in front of the damage, whatever it is.                   *)
LEMMA PrefixJoined ==
  ASSUME NEW A, NEW s \in Seq(A), NEW y \in Seq(A)
  PROVE  IsPrefix(s, s \o y)
<1>1. PICK q : q = s \o y
  OBVIOUS
<1>2. Len(q) = Len(s) + Len(y) /\ Take(q, Len(s)) = s
  BY <1>1, Joined
<1>3. Len(s) \in Nat /\ Len(y) \in Nat
  BY LenProperties
<1>4. Len(s) <= Len(q)
  BY <1>2, <1>3
<1>5. SubSeq(s, 1, Len(s)) = s
  OBVIOUS
<1>6. SubSeq(q, 1, Len(s)) = s
  BY <1>2 DEF Take
<1> QED
  BY <1>1, <1>4, <1>5, <1>6 DEF IsPrefix

LEMMA EntryGives ==
  ASSUME NEW d, NEW b
  PROVE  \E e : Entry(d, b).v \in Seq({e})
<1>1. CASE Len(b) < 2
  <2>1. Entry(d, b).v = <<>>
    BY <1>1 DEF Entry, Read
  <2>2. <<>> \in Seq({0})
    BY EmptySeq
  <2> QED
    BY <2>1, <2>2
<1>2. CASE ~ (Len(b) < 2)
  <2>1. PICK e : e = <<b[1], d[<<Drop(b, 2), b[2]>>].v>>
    OBVIOUS
  <2>2. Entry(d, b).v = <<e>>
    BY <1>2, <2>1 DEF Entry, Read
  <2>3. <<e>> \in Seq({e})
    OBVIOUS
  <2> QED
    BY <2>2, <2>3
<1> QED
  BY <1>1, <1>2

LEMMA FrontIs ==
  ASSUME SentRight(sent), NEW m \in Nat, Len(sent) = m + 1
  PROVE  Front(Meant) = Told(m)
<1>1. PICK s : s = Meant
  OBVIOUS
<1>2. m \in 0 .. Len(sent) /\ Len(sent) \in 0 .. Len(sent)
  OBVIOUS
<1>3. /\ s \in Seq(Byte \X Writable) /\ Len(s) = m + 1
      /\ \A k \in 1 .. m + 1 : s[k] = <<sent[k].key, sent[k].v>>
  BY <1>1, <1>2, MeantIs, ToldIs
<1>4. PICK h : h = SubSeq(s, 1, m)
  OBVIOUS
<1>5. h \in Seq(Byte \X Writable) /\ Len(h) = m /\ \A i \in 1 .. m : h[i] = s[i]
  BY <1>3, <1>4
<1>6. PICK f : f = Told(m)
  OBVIOUS
<1>7. /\ f \in Seq(Byte \X Writable) /\ Len(f) = m
      /\ \A k \in 1 .. m : f[k] = <<sent[k].key, sent[k].v>>
  BY <1>2, <1>6, ToldIs
<1>8. ASSUME NEW i \in 1 .. m PROVE h[i] = f[i]
  <2>1. i \in 1 .. m + 1
    OBVIOUS
  <2>2. s[i] = <<sent[i].key, sent[i].v>>
    BY <1>3, <2>1
  <2> QED
    BY <1>5, <1>7, <2>2
<1>9. h = f
  BY <1>5, <1>7, <1>8, SameSeq
<1>10. Front(s) = h
  BY <1>3, <1>4 DEF Front
<1> QED
  BY <1>1, <1>6, <1>9, <1>10

LEMMA FrontRead ==
  ASSUME SentRight(sent), NEW m \in Nat, Len(sent) = m + 1, NEW z \in Seq(Byte)
  PROVE  IsPrefix(Front(Meant), ReadEntries(Deserialize, Bytes(m) \o z).v)
<1>1. m \in 0 .. Len(sent) /\ m + 1 <= MaxCollectionElements
  BY SentCount
<1>2. PICK s : s = Told(m)
  OBVIOUS
<1>3. PICK parts : parts = Parted(m)
  OBVIOUS
<1>4. s \in Seq(Byte \X Writable) /\ Len(s) = m /\ parts \in Seq(Seq(Byte)) /\ Len(parts) = m
  BY <1>1, <1>2, <1>3, ToldIs
<1>5. /\ AllBack(EntryOf(Deserialize), parts, s) /\ FlattenSeq(parts) \in Seq(Byte)
      /\ Len(FlattenSeq(parts)) >= m
  BY <1>1, <1>2, <1>3, ToldBack
<1>6. PICK f \in Seq(Byte) : f = FlattenSeq(parts)
  BY <1>5
<1>7. PICK w \in Seq(Byte) : w = f \o z
  BY TwoJoin
<1>8. PICK n \in Nat : n = m + 1
  OBVIOUS
<1>9. Len(w) + 1 >= n
  <2>1. Len(f) >= m /\ Len(f) \in Nat /\ Len(z) \in Nat
    BY <1>5, <1>6, LenProperties
  <2>2. Len(w) = Len(f) + Len(z)
    BY <1>7, TwoJoin
  <2> QED
    BY <1>8, <2>1, <2>2
<1>10. Bytes(m) \o z = EncodeVarint[n] \o w
  <2>1. Bytes(m) = EncodeVarint[n] \o f
    BY <1>3, <1>6, <1>8 DEF Bytes, Parted
  <2>2. (EncodeVarint[n] \o f) \o z = EncodeVarint[n] \o (f \o z)
    BY StringBehind
  <2> QED
    BY <1>7, <2>1, <2>2
<1>11. n <= MaxCollectionElements
  BY <1>1, <1>8
<1>12. ReadEntries(Deserialize, EncodeVarint[n] \o w) = ReadEach(EntryOf(Deserialize), w, n)
  BY <1>9, <1>11, EntriesCounted
<1>13. PICK one : one = EntryOf(Deserialize)
  OBVIOUS
<1>14. PICK y : y = one[<<z, m>>].v
  OBVIOUS
<1>15. PICK q : q = one[<<z, m>>].rest
  OBVIOUS
<1>16. ReadEach(one, w, m + 1) = Read(s \o y, q)
  <2>1. AllBack(one, parts, s) /\ Len(parts) = Len(s) /\ m = Len(s)
    BY <1>4, <1>5, <1>13
  <2>2. BackMore(one, FlattenSeq(parts) \o z, s, z)
    BY <1>4, <2>1, EachBackMore
  <2> QED
    BY <1>6, <1>7, <1>14, <1>15, <2>1, <2>2 DEF BackMore
<1>17. y = Entry(Deserialize, z).v
  BY <1>13, <1>14, EntryOfIs
<1>18. PICK e : y \in Seq({e})
  BY <1>17, EntryGives
<1>19. IsPrefix(s, s \o y)
  <2>1. PICK A : A = (Byte \X Writable) \cup {e}
    OBVIOUS
  <2>2. s \in Seq(A) /\ y \in Seq(A)
    BY <1>4, <1>18, <2>1
  <2> QED
    BY <2>2, PrefixJoined
<1>20. Front(Meant) = s
  BY <1>2, FrontIs
<1>21. ReadEntries(Deserialize, Bytes(m) \o z).v = s \o y
  BY <1>8, <1>10, <1>12, <1>13, <1>16 DEF Read
<1> QED
  BY <1>19, <1>20, <1>21

(* The parameters in front of a place where the bytes are damaged are read *)
(* as they were sent: readParameterTable reads them one after the other.   *)
THEOREM DamageBehind == WSpec => []DamageStaysBehind
<1>1. SentRight(sent) => DamageStaysBehind
  <2> SUFFICES ASSUME SentRight(sent), NEW b \in Damaged
               PROVE  IsPrefix(Front(Meant), ReadEntries(Deserialize, b).v)
    BY DEF DamageStaysBehind
  <2>1. sent # <<>>
    BY DEF Damaged
  <2>2. PICK N \in Nat : N = Len(sent)
    BY SentKnown
  <2>3. N # 0
    BY <2>1, <2>2, EmptySeq DEF SentRight
  <2>4. PICK m \in Nat : m = N - 1
    BY <2>3
  <2>5. Len(sent) = m + 1 /\ Len(sent) - 1 = m /\ Len(sent) \in DOMAIN sent
    BY <2>2, <2>3, <2>4, SentKnown
  <2>6. PICK w : w = Written(Len(sent))
    OBVIOUS
  <2>7. w \in Seq(Byte)
    BY <2>5, <2>6, WrittenBytes
  <2>8. PICK k \in 0 .. Least(MaxCut, Len(w) - 1), t \in Tails :
          b = Bytes(m) \o Take(w, k) \o t
    BY <2>1, <2>5, <2>6 DEF Damaged
  <2>9. Take(w, k) \in Seq(Byte)
    <3>1. Len(w) \in Nat /\ MaxCut \in Nat
      BY <2>7, ValuesAssumption, LenProperties
    <3>2. k \in Nat /\ k <= Len(w)
      BY <3>1 DEF Least
    <3> QED
      BY <2>7, <3>2, TakeDrop
  <2>10. PICK c \in Seq(Byte) : c = Take(w, k)
    BY <2>9
  <2>11. t \in Seq(Byte)
    BY ValuesAssumption
  <2>12. PICK z \in Seq(Byte) : z = c \o t
    BY <2>11, TwoJoin
  <2>13. m \in 0 .. Len(sent)
    BY <2>5
  <2>14. PICK g \in Seq(Byte) : g = Bytes(m)
    BY <2>13, WrittenBytes
  <2>15. (g \o c) \o t = g \o (c \o t)
    BY <2>11, BytesJoin
  <2>16. b = Bytes(m) \o z
    BY <2>8, <2>10, <2>12, <2>14, <2>15
  <2> QED
    BY <2>5, <2>16, FrontRead
<1> QED
  BY <1>1, SentRightHolds, PTL

-----------------------------------------------------------------------------
(* The numbers of a loot event.                                            *)

Ascii(c) == IF c = Minus THEN 45 ELSE 48 + c

Char(c) == IF c \in 48 .. 57 THEN c - 48 ELSE IF c = 45 THEN Minus ELSE c + 256

LEMMA AsciiBack ==
  ASSUME NEW c \in 0 .. 10
  PROVE  Char(Ascii(c)) = c
<1>1. CASE c = 10
  <2>1. Ascii(c) = 45
    BY <1>1 DEF Ascii, Minus
  <2> QED
    BY <1>1, <2>1 DEF Char, Minus
<1>2. CASE c # 10
  <2>1. Ascii(c) = 48 + c /\ 48 + c \in 48 .. 57
    BY <1>2 DEF Ascii, Minus
  <2> QED
    BY <2>1 DEF Char
<1> QED
  BY <1>1, <1>2

LEMMA TextBack ==
  ASSUME NEW s \in Seq(0 .. 10)
  PROVE  Chars(Digits(s)) = s
<1>1. PICK q : q = Digits(s)
  OBVIOUS
<1>2. q = [i \in DOMAIN s |-> Ascii(s[i])]
  BY <1>1 DEF Digits, Ascii
<1>3. DOMAIN q = DOMAIN s /\ \A i \in DOMAIN s : q[i] = Ascii(s[i])
  BY <1>2
<1>4. Chars(q) = [i \in DOMAIN s |-> Char(q[i])]
  BY <1>3 DEF Chars, Char
<1>5. \A i \in DOMAIN s : s[i] \in 0 .. 10
  OBVIOUS
<1>6. ASSUME NEW i \in DOMAIN s PROVE Char(q[i]) = s[i]
  BY <1>3, <1>5, AsciiBack
<1>7. Chars(q) = [i \in DOMAIN s |-> s[i]]
  BY <1>4, <1>6
<1>8. s = [i \in DOMAIN s |-> s[i]]
  OBVIOUS
<1> QED
  BY <1>1, <1>7, <1>8

(* The integers that the server sends are ints.                            *)
LEMMA IntegerIs ==
  ASSUME NEW v \in Writable, IsInteger(v)
  PROVE  /\ v[2] \in Int /\ v[2] \in SignedRange(LongBits)
         /\ AsInt(v) = v[2] /\ AsString(v) = Digits(Decimal(v[2]))
<1>1. v[1] \in {"byte", "int16", "int32", "int64"}
  BY DEF IsInteger
<1>2. WellFormed(v)
  BY WritablePair
<1>3. \/ v[2] \in Byte \/ v[2] \in SignedRange(16)
      \/ v[2] \in SignedRange(IntBits) \/ v[2] \in SignedRange(LongBits)
  <2>1. v[1] = "byte" => v[2] \in Byte
    BY <1>2 DEF WellFormed
  <2>2. v[1] = "int16" => v[2] \in SignedRange(16)
    BY <1>2 DEF WellFormed
  <2>3. v[1] = "int32" => v[2] \in SignedRange(IntBits)
    BY <1>2 DEF WellFormed
  <2>4. v[1] = "int64" => v[2] \in SignedRange(LongBits)
    BY <1>2 DEF WellFormed
  <2> QED
    BY <1>1, <2>1, <2>2, <2>3, <2>4
<1>4. PICK B \in Nat : B = PowerOfTwo[15]
  BY Powers
<1>5. PICK I \in Nat : I = PowerOfTwo[IntBits - 1]
  BY Powers, WidthsAssumption
<1>6. PICK L \in Nat : L = PowerOfTwo[LongBits - 1]
  BY Powers, WidthsAssumption
<1>7. B <= I /\ I <= L /\ B = 32768
  <2>1. IntBits - 1 \in Nat /\ LongBits - 1 \in Nat /\ 15 <= IntBits - 1
        /\ IntBits - 1 <= LongBits - 1
    BY WidthsAssumption
  <2> QED
    BY <1>4, <1>5, <1>6, <2>1, PowersGrow, PowersOf7And16
<1>8. v[2] \in -L .. L - 1
  <2>1. SignedRange(16) = -B .. B - 1 /\ SignedRange(IntBits) = -I .. I - 1
        /\ SignedRange(LongBits) = -L .. L - 1
    BY <1>4, <1>5, <1>6 DEF SignedRange
  <2>2. v[2] \in 0 .. 255 \/ v[2] \in -B .. B - 1 \/ v[2] \in -I .. I - 1 \/ v[2] \in -L .. L - 1
    BY <1>3, <2>1 DEF Byte
  <2>3. PICK n : n = v[2]
    OBVIOUS
  <2>4. n \in 0 .. 255 \/ n \in -B .. B - 1 \/ n \in -I .. I - 1 \/ n \in -L .. L - 1
    BY <2>2, <2>3
  <2>5. n \in -L .. L - 1
    <3>1. n \in Int /\ -L <= n /\ n <= L - 1
      <4>0. 255 < B /\ B <= I /\ I <= L
        BY <1>7
      <4>1. CASE n \in 0 .. 255
        BY <4>0, <4>1
      <4>2. CASE n \in -B .. B - 1
        BY <4>0, <4>2
      <4>3. CASE n \in -I .. I - 1
        BY <4>0, <4>3
      <4>4. CASE n \in -L .. L - 1
        BY <4>4
      <4> QED
        BY <2>4, <4>1, <4>2, <4>3, <4>4
    <3> QED
      BY <3>1
  <2> QED
    BY <2>3, <2>5
<1>9. v[2] \in Int /\ v[2] \in SignedRange(LongBits)
  BY <1>6, <1>8 DEF SignedRange
<1>10. AsInt(v) = v[2]
  BY <1>1 DEF AsInt, IsInteger, IsFloat
<1>11. AsString(v) = Digits(Decimal(v[2]))
  BY <1>1 DEF AsString, IsInteger
<1> QED
  BY <1>9, <1>10, <1>11

LEMMA NameRead ==
  ASSUME NEW n, n \in SignedRange(LongBits), n \in Int
  PROVE  Names!ParseIntStrict(Chars(Digits(Decimal(n)))) = [ok |-> TRUE, n |-> n]
<1>1. Chars(Digits(Decimal(n))) = Decimal(n)
  BY DecimalSigns, TextBack
<1>2. PICK H \in Nat \ {0} : H = PowerOfTwo[LongBits - 1]
  BY Powers, WidthsAssumption
<1>3. n \in -H .. H - 1
  BY <1>2 DEF SignedRange
<1>4. ParseIntAt(H, Decimal(n)) = [ok |-> TRUE, n |-> n]
  BY <1>2, <1>3, DecimalsReadBack
<1>5. Names!ParseIntStrict(Decimal(n)) = ParseIntAt(H, Decimal(n))
  <2>1. Names!Half = PowerOfTwo[LongBits - 1]
    BY DEF Names!Half, Names!PowerOfTwo, PowerOfTwo
  <2>2. Names!ParseIntStrict(Decimal(n)) = Names!ParseIntAt(Names!Half, Decimal(n))
    BY DEF Names!ParseIntStrict
  <2>3. Names!ParseIntAt(H, Decimal(n)) = ParseIntAt(H, Decimal(n))
    <3>1. PICK s : s = Decimal(n)
      OBVIOUS
    <3>2. Names!Unsigned(s) = Unsigned(s) /\ (Names!Negative(s) <=> Negative(s))
      BY DEF Names!Unsigned, Unsigned, Names!Negative, Negative, Names!Minus, Minus
    <3>3. Names!Digit = Digit /\ Names!NotANumber = NotANumber
      BY DEF Names!Digit, Digit, Names!NotANumber, NotANumber
    <3>4. \A m : Names!WrappedAt(H, m) = WrappedAt(H, m)
      BY DEF Names!WrappedAt, WrappedAt
    <3>5. \A u : Names!MagnitudeAt(H, u) = MagnitudeAt(H, u)
      BY DEF Names!MagnitudeAt, MagnitudeAt, Names!WrappedAt, WrappedAt
    <3>6. Names!ParseIntAt(H, s) = ParseIntAt(H, s)
      BY <3>2, <3>3, <3>4, <3>5 DEF Names!ParseIntAt, ParseIntAt
    <3> QED
      BY <3>1, <3>6
  <2> QED
    BY <1>2, <2>1, <2>2, <2>3
<1> QED
  BY <1>1, <1>4, <1>5

(* A key has the value of the last parameter with that key.                *)
LEMMA LastParam ==
  ASSUME SentRight(sent), NEW i \in DOMAIN sent,
         \A j \in i + 1 .. Len(sent) : sent[j].key # sent[i].key
  PROVE  Param(MapOf(Meant), sent[i].key) = sent[i].v
<1>1. PICK n \in Nat : n = Len(sent)
  BY SentKnown
<1>2. PICK s : s = Meant
  OBVIOUS
<1>3. DOMAIN sent = 1 .. n /\ i \in 1 .. n /\ n \in 0 .. Len(sent)
  BY <1>1, SentKnown
<1>4. DOMAIN s = 1 .. n /\ \A k \in 1 .. n : s[k] = <<sent[k].key, sent[k].v>>
  BY <1>2, <1>3 DEF Meant
<1>5. \A k \in 1 .. n : s[k][1] = sent[k].key /\ s[k][2] = sent[k].v
  BY <1>4
<1>6. LastEntry(s, i)
  <2>1. ASSUME NEW j \in 1 .. n, j > i PROVE s[j][1] # s[i][1]
    <3>1. j \in i + 1 .. Len(sent)
      BY <1>1, <1>3, <2>1
    <3>2. sent[j].key # sent[i].key
      BY <3>1
    <3> QED
      BY <1>3, <1>5, <3>2
  <2> QED
    BY <1>4, <2>1 DEF LastEntry
<1>7. s[i][1] \in DOMAIN MapOf(s) /\ MapOf(s)[s[i][1]] = s[i][2]
  BY <1>3, <1>4, <1>6, MapOfIs
<1>8. sent[i].key \in DOMAIN MapOf(s) /\ MapOf(s)[sent[i].key] = sent[i].v
  BY <1>3, <1>5, <1>7
<1> QED
  BY <1>2, <1>8 DEF Param

(* A number that handleGrabbedLoot finds in a loot event is the one that   *)
(* was sent, and one in place of a name is to isMobName the same number.   *)
THEOREM NumbersArrive == WSpec => []NumbersAsSent
<1>1. SentRight(sent) => NumbersAsSent
  <2> SUFFICES ASSUME SentRight(sent), NEW i \in DOMAIN sent,
                      \A j \in i + 1 .. Len(sent) : sent[j].key # sent[i].key,
                      IsInteger(sent[i].v), NEW record,
                      record = GrabbedLoot(Parameters(Bytes(Len(sent))))
               PROVE  /\ sent[i].key = 5 => record.quantity = sent[i].v[2]
                      /\ sent[i].key = 1 =>
                           Names!ParseIntStrict(Chars(record.lootedFromName))
                             = [ok |-> TRUE, n |-> AsInt(sent[i].v)]
    BY DEF NumbersAsSent
  <2>1. PICK x : x = sent[i].v
    OBVIOUS
  <2>2. x \in Writable
    BY <2>1, SentKnown
  <2>3. /\ x[2] \in Int /\ x[2] \in SignedRange(LongBits)
        /\ AsInt(x) = x[2] /\ AsString(x) = Digits(Decimal(x[2]))
    BY <2>1, <2>2, IntegerIs
  <2>4. PICK e : e = ReadEntries(Deserialize, Bytes(Len(sent)))
    OBVIOUS
  <2>5. e.v = Meant
    BY <2>4, SentRead DEF Read
  <2>6. PICK p : p = MapOf(Meant)
    OBVIOUS
  <2>7. Parameters(Bytes(Len(sent))) = p
    BY <2>4, <2>5, <2>6 DEF Parameters, ReadParameterTable, Read
  <2>8. Param(p, sent[i].key) = x
    BY <2>1, <2>6, LastParam
  <2>9. record.quantity = AsInt(Param(p, 5)) /\ record.lootedFromName = AsString(Param(p, 1))
    BY <2>7 DEF GrabbedLoot
  <2>10. ASSUME sent[i].key = 5 PROVE record.quantity = sent[i].v[2]
    BY <2>1, <2>3, <2>8, <2>9, <2>10
  <2>11. ASSUME sent[i].key = 1
         PROVE  Names!ParseIntStrict(Chars(record.lootedFromName))
                  = [ok |-> TRUE, n |-> AsInt(sent[i].v)]
    <3>1. record.lootedFromName = Digits(Decimal(x[2]))
      BY <2>3, <2>8, <2>9, <2>11
    <3>2. Names!ParseIntStrict(Chars(Digits(Decimal(x[2])))) = [ok |-> TRUE, n |-> x[2]]
      BY <2>3, NameRead
    <3> QED
      BY <2>1, <2>3, <3>1, <3>2
  <2> QED
    BY <2>10, <2>11
<1> QED
  BY <1>1, SentRightHolds, PTL

-----------------------------------------------------------------------------
(* What a message is heard as.                                             *)

(* Bytes are cut out of a payload and looked at from zero on.              *)
LEMMA SliceIs ==
  ASSUME NEW b \in Seq(Byte)
  PROVE  /\ Envelope!Size(Envelope!Slice(b)) = Len(b)
         /\ Envelope!Sliced(Envelope!Slice(b)) = b
         /\ 2 <= Len(b) => Envelope!Slice(b)[1] = b[2]
<1>1. PICK n \in Nat : n = Len(b)
  BY LenProperties
<1>2. PICK f : f = Envelope!Slice(b)
  OBVIOUS
<1>3. f = [k \in 0 .. n - 1 |-> b[k + 1]]
  BY <1>1, <1>2 DEF Envelope!Slice
<1>4. DOMAIN f = 0 .. n - 1 /\ \A k \in 0 .. n - 1 : f[k] = b[k + 1]
  BY <1>3
<1>5. Envelope!Size(f) = n
  <2>1. Cardinality(0 .. n - 1) = n
    <3>1. 0 \in Int /\ n - 1 \in Int
      OBVIOUS
    <3>2. Cardinality(0 .. n - 1) = IF 0 > n - 1 THEN 0 ELSE n - 1 - 0 + 1
      BY <3>1, FS_Interval
    <3> QED
      BY <3>2
  <2>2. Envelope!Size(f) = Cardinality(DOMAIN f)
    BY DEF Envelope!Size, Envelope!Cardinality, Cardinality, Envelope!IsFiniteSet, IsFiniteSet
  <2> QED
    BY <1>4, <2>1, <2>2
<1>6. Envelope!Sliced(f) = [k \in 1 .. n |-> f[k - 1]]
  BY <1>5 DEF Envelope!Sliced
<1>7. Envelope!Sliced(f) = b
  <2>1. \A k \in 1 .. n : k - 1 \in 0 .. n - 1 /\ k - 1 + 1 = k
    OBVIOUS
  <2>2. \A k \in 1 .. n : f[k - 1] = b[k]
    BY <1>4, <2>1
  <2>3. Envelope!Sliced(f) = [k \in 1 .. n |-> b[k]]
    BY <1>6, <2>2
  <2>4. b = [k \in 1 .. n |-> b[k]]
    BY <1>1
  <2> QED
    BY <2>3, <2>4
<1>8. ASSUME 2 <= n PROVE f[1] = b[2]
  <2>1. 1 \in 0 .. n - 1 /\ 1 + 1 = 2
    BY <1>8
  <2> QED
    BY <1>4, <2>1
<1> QED
  BY <1>1, <1>2, <1>5, <1>7, <1>8

(* Three bytes in front of others.                                         *)
Headed(q, b, c, z) ==
  /\ q \in Seq(Byte) /\ Len(q) = Len(z) + 3 /\ q[2] = b /\ Drop(q, 2) = <<c>> \o z

LEMMA FrontIn ==
  ASSUME NEW A, NEW f \in Seq(A), NEW g \in Seq(A), NEW i \in 1 .. Len(f)
  PROVE  (f \o g)[i] = f[i]
  OBVIOUS

LEMMA ThreeBytes ==
  ASSUME NEW a \in Byte, NEW b \in Byte, NEW c \in Byte
  PROVE  <<a, b>> \o <<c>> = <<a, b, c>> /\ <<a, b>> \in Seq(Byte)
<1>1. <<a, b>> \in Seq(Byte) /\ Len(<<a, b>>) = 2 /\ <<c>> \in Seq(Byte) /\ Len(<<c>>) = 1
  OBVIOUS
<1>2. PICK f : f = <<a, b>> \o <<c>>
  OBVIOUS
<1>3. f \in Seq(Byte) /\ Len(f) = 3 /\ f[1] = a /\ f[2] = b /\ f[3] = c
  BY <1>1, <1>2
<1>4. <<a, b, c>> \in Seq(Byte) /\ Len(<<a, b, c>>) = 3
  OBVIOUS
<1>5. \A i \in 1 .. 3 : <<a, b, c>>[i] = f[i]
  BY <1>3
<1> QED
  BY <1>1, <1>2, <1>3, <1>4, <1>5, SameSeq

LEMMA HeadedIs ==
  ASSUME NEW a \in Byte, NEW b \in Byte, NEW c \in Byte, NEW z \in Seq(Byte)
  PROVE  Headed(<<a, b, c>> \o z, b, c, z)
<1>1. PICK h \in Seq(Byte) : h = <<a, b>>
  <2>1. <<a, b>> \in Seq(Byte)
    BY ThreeBytes
  <2> QED
    BY <2>1
<1>2. PICK y \in Seq(Byte) : y = <<c>> \o z
  BY OneJoined
<1>3. Len(h) = 2 /\ h[2] = b
  BY <1>1
<1>4. Len(y) = Len(z) + 1
  BY <1>2, OneJoined
<1>5. PICK q : q = h \o y
  OBVIOUS
<1>6. q \in Seq(Byte) /\ Len(q) = Len(h) + Len(y) /\ Drop(q, Len(h)) = y
  BY <1>5, Joined
<1>7. q[2] = b
  <2>1. 2 \in 1 .. Len(h)
    BY <1>3
  <2> QED
    BY <1>3, <1>5, <2>1, FrontIn
<1>8. PICK m \in Nat : m = Len(z)
  BY LenProperties
<1>9. Len(q) = m + 3
  BY <1>3, <1>4, <1>6, <1>8
<1>10. <<a, b, c>> \o z = q
  <2>1. PICK g \in Seq(Byte) : g = <<c>>
    BY OneByte
  <2>2. h \o g = <<a, b, c>>
    BY <1>1, <2>1, ThreeBytes
  <2>3. (h \o g) \o z = h \o (g \o z)
    BY BytesJoin
  <2> QED
    BY <1>2, <1>5, <2>1, <2>2, <2>3
<1>11. Drop(q, 2) = y
  BY <1>3, <1>6
<1> QED
  BY <1>2, <1>6, <1>7, <1>8, <1>9, <1>10, <1>11 DEF Headed

(* The parameters of a message are read as they were meant.                *)
LEMMA SentParameters ==
  ASSUME SentRight(sent)
  PROVE  Parameters(Bytes(Len(sent))) = MapOf(Meant)
<1>1. PICK e : e = ReadEntries(Deserialize, Bytes(Len(sent)))
  OBVIOUS
<1>2. e.v = Meant
  BY <1>1, SentRead DEF Read
<1> QED
  BY <1>1, <1>2 DEF Parameters, ReadParameterTable, Read

LEMMA SentBytes ==
  ASSUME SentRight(sent)
  PROVE  Bytes(Len(sent)) \in Seq(Byte)
<1>1. Len(sent) \in 0 .. Len(sent)
  BY SentKnown
<1> QED
  BY <1>1, WrittenBytes

(* resolveCode finds the code that was meant.                              *)
LEMMA CodeAsSent ==
  ASSUME SentRight(sent), NEW key
  PROVE  Message(Lead, MapOf(Meant), key) = [code |-> SentCode(key), params |-> MapOf(Meant)]
<1>1. PICK n \in Nat : n = Len(sent)
  BY SentKnown
<1>2. PICK s : s = Meant
  OBVIOUS
<1>3. DOMAIN sent = 1 .. n
  BY <1>1, SentKnown
<1>4. DOMAIN s = 1 .. n /\ \A k \in 1 .. n : s[k][1] = sent[k].key /\ s[k][2] = sent[k].v
  BY <1>2, <1>3 DEF Meant
<1>5. PICK m : m = MapOf(s)
  OBVIOUS
<1> DEFINE N == {i \in DOMAIN sent : sent[i].key = key}
<1>6. N = {i \in DOMAIN s : s[i][1] = key}
  BY <1>3, <1>4
<1>7. m = [k \in {s[i][1] : i \in DOMAIN s} |-> s[Max({i \in DOMAIN s : s[i][1] = k})][2]]
  BY <1>5 DEF MapOf
<1>8. key \in DOMAIN m <=> N # {}
  <2>1. DOMAIN m = {s[i][1] : i \in DOMAIN s}
    BY <1>7
  <2> QED
    BY <1>6, <2>1
<1>9. PICK v : v = sent[Max(N)].v
  OBVIOUS
<1>10. ASSUME N # {} PROVE m[key] = v
  <2>1. m[key] = s[Max(N)][2]
    BY <1>6, <1>7, <1>8, <1>10
  <2>2. Max(N) \in N
    <3>1. N \subseteq 0 .. n
      BY <1>3
    <3> HIDE DEF N
    <3>2. PICK x \in N : \A j \in N : j <= x
      BY <1>10, <3>1, GreatestNatural
    <3>3. \A j \in N : x >= j
      BY <3>1, <3>2
    <3> QED
      BY <3>3 DEF Max
  <2>3. Max(N) \in 1 .. n
    BY <1>3, <2>2
  <2> QED
    BY <1>4, <1>9, <2>1, <2>3
<1>11. SentCode(key) = IF N # {} /\ IsInteger(v) THEN Signed16(v[2] % 65536) ELSE Lead
  BY <1>9 DEF SentCode
<1> HIDE DEF N
<1>12. PICK w : w = IF key \in DOMAIN m THEN m[key] ELSE Nil
  OBVIOUS
<1>13. CodeOf(Lead, ResolveCode(w)) = SentCode(key)
  <2>1. CASE N = {}
    <3>1. w[1] = "nil"
      BY <1>8, <1>12, <2>1 DEF Nil
    <3>2. ResolveCode(w).ok = FALSE
      BY <3>1 DEF ResolveCode
    <3> QED
      BY <1>11, <2>1, <3>2 DEF CodeOf
  <2>2. CASE N # {}
    <3>1. w = v
      BY <1>8, <1>10, <1>12, <2>2
    <3>2. CASE IsInteger(v)
      <4>1. ResolveCode(v).ok = TRUE /\ ResolveCode(v).n = v[2] % 65536
        BY <3>2 DEF ResolveCode, IsInteger
      <4> QED
        BY <1>11, <2>2, <3>1, <3>2, <4>1 DEF CodeOf
    <3>3. CASE ~ IsInteger(v)
      <4>1. ResolveCode(v).ok = FALSE
        BY <3>3 DEF ResolveCode, IsInteger
      <4> QED
        BY <1>11, <3>1, <3>3, <4>1 DEF CodeOf
    <3> QED
      BY <3>2, <3>3
  <2> QED
    BY <2>1, <2>2
<1>14. Message(Lead, m, key) = [code |-> CodeOf(Lead, ResolveCode(w)), params |-> m]
  BY <1>12 DEF Message
<1> QED
  BY <1>2, <1>5, <1>13, <1>14

(* handleMessage and a decoder on a body whose third byte is the code and  *)
(* which goes on with z.                                                   *)
BodyOf(kind, z) == Envelope!Slice(<<243, KindByte[kind], Lead>> \o z)

LEMMA KindBytes ==
  /\ DOMAIN KindByte = {"events", "requests", "responses"}
  /\ KindByte["events"] = 4 /\ KindByte["requests"] = 2 /\ KindByte["responses"] = 7
  /\ Lead = 7
  BY DEF KindByte, Lead, Envelope!msgEvent, Envelope!msgOperationRequest,
         Envelope!msgOperationRespAlt

LEMMA BodyIs ==
  ASSUME NEW kind \in DOMAIN KindByte, NEW z \in Seq(Byte),
         Len(z) >= IF kind = "responses" THEN 2 ELSE 0
  PROVE  /\ Envelope!Kind(BodyOf(kind, z)) = kind
         /\ Envelope!Dispatched(BodyOf(kind, z)) /\ Envelope!Decodes(BodyOf(kind, z))
         /\ Call(BodyOf(kind, z)) = Handled(kind, Decoded(kind, <<Lead>> \o z))
<1>1. PICK k : k = KindByte[kind]
  OBVIOUS
<1>2. k \in Byte /\ 243 \in Byte /\ Lead \in Byte
  <2>1. k \in {2, 4, 7}
    BY <1>1, KindBytes
  <2> QED
    BY <2>1, KindBytes DEF Byte
<1>3. PICK q : q = <<243, k, Lead>> \o z
  OBVIOUS
<1>4. Headed(q, k, Lead, z)
  BY <1>2, <1>3, HeadedIs
<1>5. q \in Seq(Byte) /\ Len(q) = Len(z) + 3 /\ q[2] = k /\ Drop(q, 2) = <<Lead>> \o z
  BY <1>4 DEF Headed
<1>6. PICK m \in Nat : m = Len(z)
  BY LenProperties
<1>7. PICK f : f = Envelope!Slice(q)
  OBVIOUS
<1>8. Envelope!Size(f) = m + 3 /\ Envelope!Sliced(f) = q /\ f[1] = k
  <2>1. 2 <= Len(q)
    BY <1>5, <1>6
  <2> QED
    BY <1>5, <1>6, <1>7, <2>1, SliceIs
<1>9. BodyOf(kind, z) = f
  BY <1>1, <1>3, <1>7 DEF BodyOf
<1>10. ~ (m + 3 < 2)
  OBVIOUS
<1>11. Envelope!Kind(f) = kind
  <2>1. Envelope!Kind(f) = IF f[1] = 4 THEN "events" ELSE IF f[1] = 2 THEN "requests"
                           ELSE IF f[1] \in {3, 7} THEN "responses" ELSE "none"
    BY <1>8, <1>10 DEF Envelope!Kind, Envelope!msgEvent, Envelope!msgOperationRequest,
         Envelope!msgOperationRespAlt, Envelope!msgOperationResponse
  <2>2. \/ kind = "events" /\ f[1] = 4
        \/ kind = "requests" /\ f[1] = 2
        \/ kind = "responses" /\ f[1] = 7
    BY <1>1, <1>8, KindBytes
  <2> QED
    BY <2>1, <2>2
<1>12. Envelope!Dispatched(f)
  BY <1>11, KindBytes DEF Envelope!Dispatched
<1>13. Envelope!Decodes(f)
  <2>1. kind = "responses" => m >= 2
    BY <1>6
  <2>2. Envelope!Decodes(f) <=> m + 3 - 2 >= IF kind = "responses" THEN 3 ELSE 1
    BY <1>8, <1>11 DEF Envelope!Decodes
  <2> QED
    BY <2>1, <2>2
<1>14. Call(f) = Handled(kind, Decoded(kind, <<Lead>> \o z))
  BY <1>5, <1>8, <1>11 DEF Call
<1> QED
  BY <1>9, <1>11, <1>12, <1>13, <1>14

(* OnEvent goes by the numbers, the server means the names.                *)
LEMMA HandlerNamed ==
  ASSUME NEW c, NEW name, name = EventCodeString(c)[1]
  PROVE  OnEvent(c) = IF name \in DOMAIN HandlerOf THEN HandlerOf[name] ELSE "ignored"
<1>1. /\ DOMAIN HandlerOf = {"OtherGrabbedLoot", "NewLoot", "NewMob"}
      /\ HandlerOf["OtherGrabbedLoot"] = "handleGrabbedLoot"
      /\ HandlerOf["NewLoot"] = "handleNewLoot" /\ HandlerOf["NewMob"] = "handleNewMob"
  BY DEF HandlerOf
<1>2. OnEvent(c) = IF c = 278 THEN "handleGrabbedLoot" ELSE IF c = 98 THEN "handleNewLoot"
                   ELSE IF c = 123 THEN "handleNewMob" ELSE "ignored"
  BY DEF OnEvent, EventCodeOtherGrabbedLoot, EventCodeNewLoot, EventCodeNewMob
<1>3. CASE c \in EventCode
  <2>1. EventCodeString(c) = EventCodeNames[c]
    BY <1>3 DEF EventCodeString
  <2>2. EventCodeNames[c] = IF c = 98 THEN <<"NewLoot">> ELSE IF c = 123 THEN <<"NewMob">>
                            ELSE IF c = 278 THEN <<"OtherGrabbedLoot">> ELSE <<"EventCodes", c>>
    BY <1>3 DEF EventCodeNames, EventCodeOtherGrabbedLoot, EventCodeNewLoot, EventCodeNewMob
  <2>3. name = IF c = 98 THEN "NewLoot" ELSE IF c = 123 THEN "NewMob"
               ELSE IF c = 278 THEN "OtherGrabbedLoot" ELSE "EventCodes"
    BY <2>1, <2>2
  <2> QED
    BY <1>1, <1>2, <2>3
<1>4. CASE c \notin EventCode
  <2>1. name = "EventCode()"
    BY <1>4 DEF EventCodeString
  <2>2. 98 \in EventCode /\ 123 \in EventCode /\ 278 \in EventCode
    BY DEF EventCode
  <2>3. c # 98 /\ c # 123 /\ c # 278
    BY <1>4, <2>2
  <2> QED
    BY <1>1, <1>2, <2>1, <2>3
<1> QED
  BY <1>3, <1>4

(* What stands between the code and the parameters of a response.          *)
Answer == <<254, 255>> \o sent[1].bytes

LEMMA FirstSent ==
  ASSUME SentRight(sent), sent # <<>>
  PROVE  \E tc \in CodesFor[sent[1].v] :
           /\ sent[1].v \in Writable /\ tc \in Byte
           /\ sent[1].bytes = <<tc>> \o Payload[<<sent[1].v, tc>>]
           /\ Payload[<<sent[1].v, tc>>] \in Seq(Byte)
<1>1. PICK n \in Nat : n = Len(sent)
  BY SentKnown
<1>2. 1 \in 1 .. n
  <2>1. n # 0
    <3>1. sent \in Seq([key : Byte, v : Writable, bytes : Seq(Byte)])
      BY DEF SentRight
    <3> QED
      BY <1>1, <3>1, EmptySeq
  <2> QED
    BY <2>1
<1>3. 1 \in DOMAIN sent /\ sent[1].v \in Writable
  BY <1>1, <1>2, SentKnown
<1>4. sent[1].bytes \in Encoded(sent[1].v)
  BY <1>3 DEF SentRight
<1>5. PICK tc \in CodesFor[sent[1].v] : sent[1].bytes = <<tc>> \o Payload[<<sent[1].v, tc>>]
  BY <1>4 DEF Encoded
<1>6. tc \in Byte /\ Payload[<<sent[1].v, tc>>] \in Seq(Byte)
  BY <1>3, PayloadIs, EncodedBytes
<1> QED
  BY <1>3, <1>5, <1>6

LEMMA LeadFirst ==
  ASSUME NEW a \in Byte, NEW s \in Seq(Byte), NEW t \in Seq(Byte)
  PROVE  Len(<<a>> \o s) = Len(s) + 1 /\ (<<a>> \o s) \o t = <<a>> \o (s \o t)
<1>1. PICK c \in Seq(Byte) : c = <<a>>
  BY OneByte
<1>2. Len(c) = 1
  BY <1>1, OneByte
<1>3. Len(c \o s) = Len(c) + Len(s) /\ (c \o s) \o t = c \o (s \o t)
  BY BytesJoin
<1>4. Len(s) \in Nat
  BY LenProperties
<1> QED
  BY <1>1, <1>2, <1>3, <1>4

(* A response: its code, two bytes and a value in front of the table.      *)
LEMMA ResponseDecoded ==
  ASSUME NEW v \in Writable, NEW tc \in CodesFor[v], tc \in Byte,
         NEW a \in Seq(Byte), a = Payload[<<v, tc>>], NEW y \in Seq(Byte)
  PROVE  DecodeResponse(<<Lead>> \o (<<254, 255>> \o (<<tc>> \o (a \o y))))
           = Message(Lead, Parameters(y), OperationKey) @@ [returnCode |-> -2, debugMessage |-> v]
<1>1. PICK u \in Seq(Byte) : u = a \o y
  BY TwoJoin
<1>2. PICK t \in Seq(Byte) : t = <<tc>> \o u
  BY OneJoined
<1>3. ReadByte(t) = Read(tc, u) /\ Len(t) = Len(u) + 1
  BY <1>2, ByteRead, OneJoined
<1>4. PICK h \in Seq(Byte) : h = <<254, 255>>
  <2>1. 254 \in Byte /\ 255 \in Byte
    BY DEF Byte
  <2>2. <<254, 255>> \in Seq(Byte)
    BY <2>1, ThreeBytes
  <2> QED
    BY <2>2
<1>5. Len(h) = 2 /\ h[1] = 254 /\ h[2] = 255
  BY <1>4
<1>6. PICK z \in Seq(Byte) : z = h \o t
  BY TwoJoin
<1>7. Lead \in Byte
  BY DEF Lead, Byte
<1>8. PICK x \in Seq(Byte) : x = <<Lead>> \o z
  BY <1>7, OneJoined
<1>9. x[1] = Lead /\ Tail(x) = z /\ Len(x) = Len(z) + 1
  BY <1>7, <1>8, OneJoined
<1>10. Len(z) = Len(h) + Len(t)
  BY <1>6, Joined
<1>11. Len(x) # 3
  <2>1. Len(u) \in Nat
    BY LenProperties
  <2> QED
    BY <1>3, <1>5, <1>9, <1>10, <2>1
<1>12. Drop(x, 3) = t
  <2>1. PICK g \in Seq(Byte) : g = <<Lead>> \o h
    BY <1>7, OneJoined
  <2>2. Len(g) = Len(h) + 1 /\ g \o t = <<Lead>> \o (h \o t)
    BY <1>7, <2>1, LeadFirst
  <2>3. Len(g) = 3
    BY <1>5, <2>2
  <2>5. x = g \o t
    BY <1>6, <1>8, <2>2
  <2>6. Drop(g \o t, Len(g)) = t
    BY Joined
  <2> QED
    BY <2>3, <2>5, <2>6
<1>13. ReadInt16(z).v = -2
  <2>1. ReadUint16(z) = Read(254 + 256 * 255, t)
    BY <1>5, <1>6, PairRound
  <2>2. Signed16(254 + 256 * 255) = -2
    BY DEF Signed16
  <2> QED
    BY <2>1, <2>2 DEF ReadInt16, Read
<1>14. Deserialize[<<u, tc>>] = Read(v, y)
  BY <1>1, RoundTrip
<1>15. ReadByte(Drop(x, 3)).v = tc /\ ReadByte(Drop(x, 3)).rest = u
  BY <1>3, <1>12 DEF Read
<1>16. DecodeResponse(x) = Message(x[1], Parameters(Deserialize[<<u, tc>>].rest), OperationKey)
         @@ [returnCode |-> ReadInt16(Tail(x)).v, debugMessage |-> Deserialize[<<u, tc>>].v]
  BY <1>11, <1>15 DEF DecodeResponse
<1>17. Deserialize[<<u, tc>>].rest = y /\ Deserialize[<<u, tc>>].v = v
  BY <1>14 DEF Read
<1>18. DecodeResponse(x) = Message(Lead, Parameters(y), OperationKey)
         @@ [returnCode |-> -2, debugMessage |-> v]
  BY <1>9, <1>13, <1>16, <1>17
<1> QED
  BY <1>1, <1>2, <1>4, <1>6, <1>8, <1>18

(* A message of any kind is dispatched by handleMessage, long enough for   *)
(* its decoder, and heard by its handler with what the server meant.       *)
HeardAsMeant ==
  \A kind \in DOMAIN KindByte : sent # <<>> =>
    LET body == Envelope!Slice(MessageBytes(kind)) IN
    /\ Envelope!Dispatched(body) /\ Envelope!Decodes(body)
    /\ Call(body) = Intended(kind)

LEMMA EventHeard ==
  ASSUME SentRight(sent)
  PROVE  Handled("events", Decoded("events", <<Lead>> \o Bytes(Len(sent)))) = Intended("events")
<1>1. PICK y \in Seq(Byte) : y = Bytes(Len(sent))
  BY SentBytes
<1>2. Lead \in Byte
  BY DEF Lead, Byte
<1>3. (<<Lead>> \o y)[1] = Lead /\ Tail(<<Lead>> \o y) = y
  BY <1>2, OneJoined
<1>4. PICK m : m = [code |-> SentCode(EventKey), params |-> MapOf(Meant)]
  OBVIOUS
<1>5. DecodeEvent(<<Lead>> \o y) = m
  BY <1>1, <1>3, <1>4, SentParameters, CodeAsSent DEF DecodeEvent
<1>6. Decoded("events", <<Lead>> \o y) = m
  BY <1>5 DEF Decoded
<1>7. PICK name : name = EventCodeString(SentCode(EventKey))[1]
  OBVIOUS
<1>8. OnEvent(SentCode(EventKey)) = IF name \in DOMAIN HandlerOf THEN HandlerOf[name] ELSE "ignored"
  BY <1>7, HandlerNamed
<1>9. Handled("events", m) = <<OnEvent(SentCode(EventKey)), m>>
  BY <1>4 DEF Handled
<1>10. Intended("events")
         = <<IF name \in DOMAIN HandlerOf THEN HandlerOf[name] ELSE "ignored", m>>
  BY <1>4, <1>7 DEF Intended
<1> QED
  BY <1>1, <1>6, <1>8, <1>9, <1>10

LEMMA RequestHeard ==
  ASSUME SentRight(sent)
  PROVE  Handled("requests", Decoded("requests", <<Lead>> \o Bytes(Len(sent))))
           = Intended("requests")
<1>1. PICK y \in Seq(Byte) : y = Bytes(Len(sent))
  BY SentBytes
<1>2. Lead \in Byte
  BY DEF Lead, Byte
<1>3. (<<Lead>> \o y)[1] = Lead /\ Tail(<<Lead>> \o y) = y
  BY <1>2, OneJoined
<1>4. PICK m : m = [code |-> SentCode(OperationKey), params |-> MapOf(Meant)]
  OBVIOUS
<1>5. DecodeRequest(<<Lead>> \o y) = m
  BY <1>1, <1>3, <1>4, SentParameters, CodeAsSent DEF DecodeRequest
<1>6. Decoded("requests", <<Lead>> \o y) = m
  BY <1>5 DEF Decoded
<1>7. Handled("requests", m) = <<"requests", m>>
  BY DEF Handled
<1>8. Intended("requests") = <<"requests", m>>
  BY <1>4 DEF Intended
<1> QED
  BY <1>1, <1>6, <1>7, <1>8

LEMMA ResponseHeard ==
  ASSUME SentRight(sent), sent # <<>>
  PROVE  Handled("responses", Decoded("responses", <<Lead>> \o (Answer \o Bytes(Len(sent)))))
           = Intended("responses")
<1>1. PICK y \in Seq(Byte) : y = Bytes(Len(sent))
  BY SentBytes
<1>2. PICK v \in Writable : v = sent[1].v
  BY FirstSent
<1>3. PICK tc \in CodesFor[v] : tc \in Byte /\ sent[1].bytes = <<tc>> \o Payload[<<v, tc>>]
                                /\ Payload[<<v, tc>>] \in Seq(Byte)
  BY <1>2, FirstSent
<1>4. PICK a \in Seq(Byte) : a = Payload[<<v, tc>>]
  BY <1>3
<1>5. Answer \o y = <<254, 255>> \o (<<tc>> \o (a \o y))
  <2>1. PICK h \in Seq(Byte) : h = <<254, 255>>
    <3>1. 254 \in Byte /\ 255 \in Byte
      BY DEF Byte
    <3>2. <<254, 255>> \in Seq(Byte)
      BY <3>1, ThreeBytes
    <3> QED
      BY <3>2
  <2>2. PICK c \in Seq(Byte) : c = <<tc>>
    BY <1>3, OneByte
  <2>3. PICK x \in Seq(Byte) : x = c \o a
    BY TwoJoin
  <2>4. (h \o x) \o y = h \o (x \o y)
    BY BytesJoin
  <2>5. (c \o a) \o y = c \o (a \o y)
    BY BytesJoin
  <2>6. Answer = h \o x
    BY <1>3, <1>4, <2>1, <2>2, <2>3 DEF Answer
  <2> QED
    BY <2>1, <2>2, <2>3, <2>4, <2>5, <2>6
<1>6. DecodeResponse(<<Lead>> \o (<<254, 255>> \o (<<tc>> \o (a \o y))))
        = Message(Lead, Parameters(y), OperationKey) @@ [returnCode |-> -2, debugMessage |-> v]
  BY <1>3, <1>4, ResponseDecoded
<1>7. PICK m : m = [code |-> SentCode(OperationKey), params |-> MapOf(Meant)]
  OBVIOUS
<1>8. Message(Lead, Parameters(y), OperationKey) = m
  BY <1>1, <1>7, SentParameters, CodeAsSent
<1>9. PICK r : r = m @@ [returnCode |-> -2, debugMessage |-> v]
  OBVIOUS
<1>10. DecodeResponse(<<Lead>> \o (Answer \o y)) = r
  BY <1>5, <1>6, <1>8, <1>9
<1>11. Decoded("responses", <<Lead>> \o (Answer \o y)) = r
  BY <1>10 DEF Decoded
<1>12. Handled("responses", r) = <<"responses", r>>
  BY DEF Handled
<1>13. Intended("responses") = <<"responses", m @@ [returnCode |-> -2, debugMessage |-> sent[1].v]>>
  BY <1>7 DEF Intended
<1> QED
  BY <1>1, <1>2, <1>9, <1>11, <1>12, <1>13

(* Behind the code of a message comes z.                                   *)
GoesOn(kind, z) ==
  /\ z \in Seq(Byte)
  /\ Len(z) >= IF kind = "responses" THEN 2 ELSE 0
  /\ MessageBytes(kind) = <<243, KindByte[kind], Lead>> \o z

LEMMA ResponseIs ==
  ASSUME SentRight(sent), sent # <<>>
  PROVE  GoesOn("responses", Answer \o Bytes(Len(sent)))
<1>0. "responses" \in DOMAIN KindByte
  BY KindBytes
<1>1. PICK y \in Seq(Byte) : y = Bytes(Len(sent))
  BY SentBytes
<1>2. PICK h \in Seq(Byte) : h = <<243, KindByte["responses"], Lead>>
  <2>1. KindByte["responses"] \in {2, 4, 7}
    BY <1>0, KindBytes
  <2>2. KindByte["responses"] \in 0 .. 255 /\ 243 \in 0 .. 255 /\ Lead \in 0 .. 255
    BY <2>1, KindBytes
  <2>3. <<243, KindByte["responses"], Lead>> \in Seq(Byte)
    BY <2>2 DEF Byte
  <2> QED
    BY <2>3
<1>3. PICK s \in Seq(Byte) : s = sent[1].bytes
  BY FirstSent, OneJoined
<1>4. PICK g \in Seq(Byte) : g = <<254, 255>>
  <2>1. 254 \in Byte /\ 255 \in Byte
    BY DEF Byte
  <2>2. <<254, 255>> \in Seq(Byte)
    BY <2>1, ThreeBytes
  <2> QED
    BY <2>2
<1>5. PICK m \in Seq(Byte) : m = g \o s
  BY TwoJoin
<1>6. PICK z \in Seq(Byte) : z = m \o y
  BY TwoJoin
<1>7. Len(z) >= 2
  <2>1. Len(g) = 2 /\ Len(s) \in Nat /\ Len(y) \in Nat
    BY <1>4, LenProperties
  <2>2. Len(m) = Len(g) + Len(s) /\ Len(z) = Len(m) + Len(y)
    BY <1>5, <1>6, Joined
  <2> QED
    BY <2>1, <2>2
<1>8. MessageBytes("responses") = (h \o m) \o y
  BY <1>1, <1>2, <1>3, <1>4, <1>5 DEF MessageBytes
<1>9. (h \o m) \o y = h \o z
  BY <1>6, BytesJoin
<1>10. Answer \o Bytes(Len(sent)) = z
  BY <1>1, <1>3, <1>4, <1>5, <1>6 DEF Answer
<1>11. MessageBytes("responses") = <<243, KindByte["responses"], Lead>> \o z
  BY <1>2, <1>8, <1>9
<1>12. GoesOn("responses", z)
  BY <1>7, <1>11 DEF GoesOn
<1> QED
  BY <1>10, <1>12

LEMMA OtherIs ==
  ASSUME SentRight(sent), NEW kind \in DOMAIN KindByte, kind # "responses"
  PROVE  GoesOn(kind, Bytes(Len(sent)))
<1>1. PICK y \in Seq(Byte) : y = Bytes(Len(sent))
  BY SentBytes
<1>2. PICK h \in Seq(Byte) : h = <<243, KindByte[kind], Lead>>
  <2>1. KindByte[kind] \in {2, 4, 7}
    BY KindBytes
  <2>2. KindByte[kind] \in 0 .. 255 /\ 243 \in 0 .. 255 /\ Lead \in 0 .. 255
    BY <2>1, KindBytes
  <2>3. <<243, KindByte[kind], Lead>> \in Seq(Byte)
    BY <2>2 DEF Byte
  <2> QED
    BY <2>3
<1>3. PICK m \in Seq(Byte) : m = <<>>
  BY EmptySeq
<1>4. MessageBytes(kind) = (h \o m) \o y
  BY <1>1, <1>2, <1>3 DEF MessageBytes
<1>5. (h \o m) \o y = h \o (m \o y) /\ m \o y = y
  BY <1>3, BytesJoin, NothingJoined
<1>6. Len(y) >= 0
  BY LenProperties
<1>7. MessageBytes(kind) = <<243, KindByte[kind], Lead>> \o y
  BY <1>2, <1>4, <1>5
<1>8. GoesOn(kind, y)
  BY <1>6, <1>7 DEF GoesOn
<1> QED
  BY <1>1, <1>8

LEMMA BodyDecoded ==
  ASSUME NEW kind \in DOMAIN KindByte, NEW z, GoesOn(kind, z),
         NEW body, body = Envelope!Slice(MessageBytes(kind))
  PROVE  /\ Envelope!Dispatched(body) /\ Envelope!Decodes(body)
         /\ Call(body) = Handled(kind, Decoded(kind, <<Lead>> \o z))
<1>1. PICK x \in Seq(Byte) : x = z
  BY DEF GoesOn
<1>2. /\ Len(x) >= IF kind = "responses" THEN 2 ELSE 0
      /\ MessageBytes(kind) = <<243, KindByte[kind], Lead>> \o x
  BY <1>1 DEF GoesOn
<1>3. body = BodyOf(kind, x)
  BY <1>2 DEF BodyOf
<1>4. /\ Envelope!Dispatched(body) /\ Envelope!Decodes(body)
      /\ Call(body) = Handled(kind, Decoded(kind, <<Lead>> \o x))
  BY <1>2, <1>3, BodyIs
<1> QED
  BY <1>1, <1>4

(* A message of any kind, once its body is whole, is dispatched by         *)
(* handleMessage, long enough for its decoder, and comes to the handler    *)
(* that the name of its code stands for, with its code and parameters.     *)
THEOREM Dispatch == WSpec => []HeardAsMeant
<1>1. SentRight(sent) => HeardAsMeant
  <2> SUFFICES ASSUME SentRight(sent), sent # <<>>, NEW kind \in DOMAIN KindByte,
                      NEW body, body = Envelope!Slice(MessageBytes(kind))
               PROVE  /\ Envelope!Dispatched(body) /\ Envelope!Decodes(body)
                      /\ Call(body) = Intended(kind)
    BY DEF HeardAsMeant
  <2>1. kind \in {"events", "requests", "responses"}
    BY KindBytes
  <2>2. CASE kind = "events"
    BY <2>2, OtherIs, BodyDecoded, EventHeard
  <2>3. CASE kind = "requests"
    BY <2>3, OtherIs, BodyDecoded, RequestHeard
  <2>4. CASE kind = "responses"
    BY <2>4, ResponseIs, BodyDecoded, ResponseHeard
  <2> QED
    BY <2>1, <2>2, <2>3, <2>4
<1> QED
  BY <1>1, SentRightHolds, PTL
=============================================================================
