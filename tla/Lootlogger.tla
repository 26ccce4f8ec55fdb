----------------------------- MODULE Lootlogger -----------------------------
(***************************************************************************)
(* The program (cmd/lootlogger/main.go) put together: the goroutines that  *)
(* capture share one Parser, Controller and LogSink; beside them run main, *)
(* which reports the counters and closes the file when the capture is      *)
(* over, and the health monitor.  A device that the user has chosen is     *)
(* captured by main itself.                                                *)
(*                                                                         *)
(* The components are coarse here, as far as their own modules allow: a    *)
(* row is one append to a RowLog (LootLog), a packet is the list of its    *)
(* events, each "loot" or "other" (PhotonParser), and the devices that can *)
(* be opened are open when Run starts them (Capture).                      *)
(*                                                                         *)
(* An operator whose name ends in _<something> is a bug the code could     *)
(* have and does not: the properties are tested against it.                *)
(***************************************************************************)
EXTENDS Naturals, Sequences, FiniteSets

CONSTANTS
  Device,       \* the capturing goroutines
  AllDevices,   \* no device is chosen
  Flags,        \* what the program is started with
  Packet,       \* sequences of "loot" and "other"
  MaxPackets,   \* how many packets are captured (a bound)
  DiskMayFail,  \* a write to the open file can fail
  NoOne         \* the mutex is free

(* A flag is true if it is given, csv and health unless they are empty or  *)
(* zero.                                                                   *)
ASSUME LootloggerAssumption ==
  /\ IsFiniteSet(Device) /\ NoOne \notin Device /\ AllDevices \notin Device
  /\ MaxPackets \in Nat /\ DiskMayFail \in BOOLEAN
  /\ Packet \subseteq Seq({"loot", "other"})
  /\ Flags \subseteq [ device : Device \cup {AllDevices}, csv : BOOLEAN, listDevices : BOOLEAN,
                       selfTest : BOOLEAN, health : BOOLEAN ]

VARIABLES
  flags,        \* one of Flags
  main,         \* where main is
  failed,       \* Run returns an error whatever the context says
  status,       \* the exit status of the program
  cancelled,    \* the context is
  isOpen,       \* the CSV file is
  report,       \* the counters main prints at the end
  pc,           \* where each goroutine is
  todo,         \* the events of its packet that are not handled yet
  mu,           \* Parser.mu: the goroutine that holds it, or NoOne
  packets,      \* Parser.packets
  events,       \* Parser.events
  lootEvents,   \* Controller.lootEventCount
  monitor,      \* where the health monitor is
  warned,       \* it has warned
  log, start, next, lost        \* the CSV file (RowLog)

capturing == <<pc, todo, mu, packets, events, lootEvents>>
health == <<monitor, warned>>
rows == <<log, start, next, lost>>
mains == <<flags, main, failed, status, isOpen, report>>
vars == <<mains, cancelled, capturing, health, rows>>

Csv == INSTANCE RowLog

NoReport == [packets |-> 0, events |-> 0, lootEvents |-> 0]

Init ==
  /\ flags \in Flags
  /\ main = "flags" /\ failed = FALSE /\ status = "none"
  /\ cancelled = FALSE /\ isOpen = FALSE
  /\ report = NoReport
  /\ pc = [d \in Device |-> "off"]
  /\ todo = [d \in Device |-> <<>>]
  /\ mu = NoOne
  /\ packets = 0 /\ events = 0 /\ lootEvents = 0
  /\ monitor = "off" /\ warned = FALSE
  /\ Csv!Init

-----------------------------------------------------------------------------
(* A row is written, or a write fails, or an earlier one has; or there is  *)
(* no file.                                                                *)
WriteRow ==
  \/ ~ flags.csv /\ UNCHANGED rows
  \/ isOpen /\ Csv!AppendRow
  \/ flags.csv /\ (DiskMayFail \/ ~ isOpen) /\ Csv!Lose
  \/ lost /\ UNCHANGED rows

(* main.                                                                   *)
MainGoes(from, to) == main = from /\ main' = to

Exits(from, how) ==
  /\ MainGoes(from, "exited")
  /\ status' = how
  /\ UNCHANGED <<flags, failed, cancelled, isOpen, report, capturing, health, rows>>

(* printDevices lists them or fails.                                       *)
ListDevices == flags.listDevices /\ \E how \in {"ok", "error"} : Exits("flags", how)

OpenFails == ~ flags.listDevices /\ flags.csv /\ Exits("flags", "error")

OpenCsv ==
  /\ ~ flags.listDevices
  /\ MainGoes("flags", "sink")
  /\ isOpen' = flags.csv
  /\ UNCHANGED <<flags, failed, status, cancelled, report, capturing, health, rows>>

NewLogSink ==
  /\ MainGoes("sink", IF flags.selfTest THEN "sample" ELSE "pipeline")
  /\ WriteRow
  /\ UNCHANGED <<flags, failed, status, cancelled, isOpen, report, capturing, health>>

(* The sample row; "self-test complete" is logged in any case.             *)
SelfTest ==
  /\ MainGoes("sample", "complete")
  /\ WriteRow
  /\ UNCHANGED <<flags, failed, status, cancelled, isOpen, report, capturing, health>>

(* The monitor is started, and Run opens the devices: those in up.  Run    *)
(* fails at once without any, or if the chosen one cannot be opened.       *)
Wanted == IF flags.device = AllDevices THEN Device ELSE {flags.device}

Start(up) ==
  /\ MainGoes("pipeline", "running")
  /\ monitor' = IF flags.health THEN "waiting" ELSE "off"
  /\ pc' = [d \in Device |-> IF d \in up THEN "select" ELSE "ended"]
  /\ failed' \in {up = {}, up = {} /\ flags.device # AllDevices}
  /\ UNCHANGED <<flags, status, cancelled, isOpen, report, todo, mu, packets, events,
                 lootEvents, warned, rows>>

(* An interrupt.                                                           *)
Cancel ==
  /\ main = "running" /\ ~ cancelled
  /\ cancelled' = TRUE
  /\ UNCHANGED <<mains, capturing, health, rows>>

(* Run has returned.  Its error counts unless the context was cancelled.   *)
Returned_AtOnce == failed \/ cancelled

Returned ==
  \/ failed
  \/ flags.device = AllDevices /\ cancelled
  \/ flags.device # AllDevices /\ pc[flags.device] = "ended"

RunFails_AnyError == (failed \/ (cancelled /\ Returned)) /\ Exits("running", "error")

RunFails == failed /\ ~ cancelled /\ Exits("running", "error")

RunReturns ==
  /\ Returned /\ (failed => cancelled)
  /\ MainGoes("running", "packets")
  /\ UNCHANGED <<flags, failed, status, cancelled, isOpen, report, capturing, health, rows>>

(* The counters are loaded one by one.                                     *)
Loads(from, to, f, n) ==
  /\ MainGoes(from, to)
  /\ report' = [report EXCEPT ![f] = n]
  /\ UNCHANGED <<flags, failed, status, cancelled, isOpen, capturing, health, rows>>

Stats ==
  \/ Loads("packets", "events", "packets", packets)
  \/ Loads("events", "count", "events", events)

LootEventCount == Loads("count", "complete", "lootEvents", lootEvents)

(* The deferred calls: stop, which cancels the context, and Close.         *)
Close ==
  /\ MainGoes("complete", "closed")
  /\ isOpen' = FALSE
  /\ cancelled' = (cancelled \/ ~ flags.selfTest)
  /\ UNCHANGED <<flags, failed, status, report, capturing, health, rows>>

(* main has returned, and with it every goroutine is gone.                 *)
Exit == Exits("closed", "ok")

-----------------------------------------------------------------------------
(* A capturing goroutine.                                                  *)
Alive == main \in {"running", "packets", "events", "count", "complete", "closed"}

Goes(d, from, to) == Alive /\ pc[d] = from /\ pc' = [pc EXCEPT ![d] = to]

rest == <<mains, cancelled, health>>

Receive(d, p) ==
  /\ Goes(d, "select", "lock")
  /\ packets < MaxPackets
  /\ packets' = packets + 1
  /\ todo' = [todo EXCEPT ![d] = p]
  /\ UNCHANGED <<mu, events, lootEvents, rows, rest>>

Done(d) ==
  /\ Goes(d, "select", "ended")
  /\ cancelled
  /\ UNCHANGED <<todo, mu, packets, events, lootEvents, rows, rest>>

(* The packet source ends by itself.                                       *)
SourceEnds(d) ==
  /\ Goes(d, "select", "ended")
  /\ UNCHANGED <<todo, mu, packets, events, lootEvents, rows, rest>>

Lock(d) ==
  /\ Goes(d, "lock", "parse")
  /\ mu = NoOne
  /\ mu' = d
  /\ UNCHANGED <<todo, packets, events, lootEvents, rows, rest>>

(* decodeEvent counts the event; the Controller handles it or not.         *)
OtherEvent(d) ==
  /\ Goes(d, "parse", "parse")
  /\ todo[d] # <<>> /\ Head(todo[d]) = "other"
  /\ events' = events + 1
  /\ todo' = [todo EXCEPT ![d] = Tail(@)]
  /\ UNCHANGED <<mu, packets, lootEvents, rows, rest>>

LootEvent(d) ==
  /\ Goes(d, "parse", "loot")
  /\ todo[d] # <<>> /\ Head(todo[d]) = "loot"
  /\ events' = events + 1
  /\ UNCHANGED <<todo, mu, packets, lootEvents, rows, rest>>

CountLoot_Later(d) ==
  /\ Goes(d, "loot", "row")
  /\ UNCHANGED <<todo, mu, packets, events, lootEvents, rows, rest>>

CountLoot(d) ==
  /\ Goes(d, "loot", "row")
  /\ lootEvents' = lootEvents + 1
  /\ UNCHANGED <<todo, mu, packets, events, rows, rest>>

Row_ReturnsOnError(d) ==
  /\ WriteRow
  /\ Goes(d, "row", IF lost' THEN "select" ELSE "parse")
  /\ todo' = [todo EXCEPT ![d] = Tail(@)]
  /\ UNCHANGED <<mu, packets, events, lootEvents, rest>>

Row(d) ==
  /\ WriteRow
  /\ Goes(d, "row", "parse")
  /\ todo' = [todo EXCEPT ![d] = Tail(@)]
  /\ UNCHANGED <<mu, packets, events, lootEvents, rest>>

Unlock(d) ==
  /\ Goes(d, "parse", "select")
  /\ todo[d] = <<>>
  /\ mu' = NoOne
  /\ UNCHANGED <<todo, packets, events, lootEvents, rows, rest>>

-----------------------------------------------------------------------------
(* healthMonitor.                                                          *)
Watches(from, to) == Alive /\ monitor = from /\ monitor' = to

others == <<mains, cancelled, capturing, rows>>

MonitorDone ==
  /\ Watches("waiting", "ended")
  /\ cancelled
  /\ UNCHANGED <<warned, others>>

Timer ==
  /\ Watches("waiting", "check")
  /\ UNCHANGED <<warned, others>>

Check_Packets ==
  /\ Watches("check", IF packets = 0 THEN "warn" ELSE "ended")
  /\ UNCHANGED <<warned, others>>

Check ==
  /\ Watches("check", IF lootEvents = 0 THEN "warn" ELSE "ended")
  /\ UNCHANGED <<warned, others>>

Warn ==
  /\ Watches("warn", "ended")
  /\ warned' = TRUE
  /\ UNCHANGED others

MainStep ==
  \/ ListDevices \/ OpenFails \/ OpenCsv \/ NewLogSink \/ SelfTest
  \/ \E up \in SUBSET Wanted : Start(up)
  \/ RunFails \/ RunReturns \/ Stats \/ LootEventCount \/ Close \/ Exit

Work(d) ==
  OtherEvent(d) \/ LootEvent(d) \/ CountLoot(d) \/ Row(d) \/ Unlock(d)

Monitor == MonitorDone \/ Timer \/ Check \/ Warn

Next ==
  \/ MainStep \/ Cancel
  \/ \E d \in Device :
       \/ \E p \in Packet : Receive(d, p)
       \/ Done(d) \/ SourceEnds(d) \/ Lock(d) \/ Work(d)
  \/ Monitor

Spec == Init /\ [][Next]_vars

(* Goroutines that can run do run, a mutex does not pass over one waiter   *)
(* for ever, nor main's select a case that stays open, and the timer fires. *)
(* Packets and interrupts need not come.                                   *)
FairSpec ==
  /\ Spec
  /\ WF_vars(MainStep) /\ WF_vars(Monitor)
  /\ SF_vars(\E d \in Device : d = flags.device /\ Done(d))
  /\ \A d \in Device : WF_vars(Work(d)) /\ SF_vars(Lock(d))

-----------------------------------------------------------------------------
(* Properties.                                                             *)

(* The health monitor's counter and the CSV file never drift apart: they   *)
(* differ by the rows being written, on every device together, as long as  *)
(* no write has failed.                                                    *)
LoggedRows == IF next = 0 THEN 0 ELSE next - 1
UnderWay == Cardinality({d \in Device : pc[d] = "row"})

CountMatchesLog ==
  flags.csv /\ ~ flags.selfTest /\ ~ lost => lootEvents = LoggedRows + UnderWay

(* With a chosen device the last report is exact, although the counters    *)
(* are loaded one by one and outside any lock: nothing counts any more,    *)
(* and the file has a row for every loot event unless a write has failed.  *)
(* (Without one the other goroutines are not waited for, and a report can  *)
(* have fewer events than loot events.)                                    *)
ReportIsExact ==
  main \in {"complete", "closed"} /\ ~ flags.selfTest /\ flags.device # AllDevices =>
    /\ report = [packets |-> packets, events |-> events, lootEvents |-> lootEvents]
    /\ flags.csv /\ ~ lost => report.lootEvents = LoggedRows

(* Nothing that a packet brings gets stuck on its way to the file: a loot  *)
(* event that was seen is followed by its row, unless the file fails or    *)
(* the program ends first.                                                 *)
LootIsLogged ==
  \A d \in Device :
    pc[d] \in {"lock", "parse"} /\ "loot" \in {todo[d][j] : j \in DOMAIN todo[d]} ~>
      (pc[d] = "select" /\ todo[d] = <<>>) \/ main = "exited"

(* A program that sees no loot says so, unless it is stopped before: what  *)
(* the health monitor is there for.                                        *)
WarnsWithoutLoot ==
  main = "running" /\ flags.health ~>
    warned \/ lootEvents > 0 \/ cancelled \/ main = "exited"

(* An interrupt ends the program, with a report and in good order, even in *)
(* the middle of a packet: main does not wait for what never comes.        *)
InterruptEnds == cancelled ~> main = "exited" /\ status = "ok"
=============================================================================
