# AlbionLootlog: a TLA+ verification project

AlbionLootlog (Go) sniffs the game's UDP traffic on every network device, decodes the Photon
protocol in it, picks the loot events out of the decoded messages and appends them to a CSV file.
This directory holds TLA+ modules that model the program, TLC configurations that check them on
small instances, and theorems that the TLA+ proof system (TLAPS) proves for every instance.

1. [The system](#1-the-system) - 2. [Modules](#2-modules) - 3. [Runs](#3-runs) -
4. [Bounds](#4-bounds) - 5. [Fairness](#5-fairness) - 6. [Proofs](#6-proofs) -
7. [What the code does that its comments do not say](#7-findings) -
8. [Not modelled](#8-not-modelled) - 9. [Plan](#9-plan)

## 1. The system

Each capturing goroutine makes one chain of synchronous calls:

    capture.runDevice -> handlePacket -> Parser.Parse -> handleMessage -> Controller.OnEvent
        -> LogSink.OnLoot / OnNewLoot -> csv.Writer -> bufio.Writer -> os.File

All goroutines share one Parser, one Controller and one LogSink. Beside them run `main`, which
waits for the context, reports the counters and closes the file, and the health monitor. The codes
by which the controller knows its events are generated from an upstream repository; a workflow that
runs daily generates, tests and pushes them, and watches the upstream handlers for changes.

| component | source | state it keeps | operations | what makes it correct |
|---|---|---|---|---|
| message reassembly | `internal/photon/parser.go` | `Parser.fragments`: a buffer per start sequence number | `handleFragment` | a message goes on whole, once, when complete; messages do not disturb each other |
| packet parser | `internal/photon/parser.go` | `mu`, five atomic counters, a reader's position | `Parse`, `parseCommand`, `handleMessage`, `decode*`, `Stats` | one caller at a time in the handler, packets atomic, panics contained, counters true |
| Protocol18 deserializer | `internal/photon/protocol18.go` | none (a recursive decoder) | `deserialize` and its helpers | what an encoder wrote is read back; counts stay bounded on any bytes |
| loot controller | `internal/loot/controller.go` | `mobNames`, `lootEventCount` | `OnEvent`, `handle*`, `parseIntStrict` | mob or player is decided right; counter and records agree |
| coercions | `internal/loot/coerce.go` | none | `toInt`, `toInt64`, `toBool`, `toString` | every type the deserializer makes is converted |
| CSV sink | `internal/loot/sink.go` | `mu`, the writer's buffer and error, the file | `NewLogSink`, `OnLoot`, `OnSilver`, `OnNewLoot`, `writeCSV` | rows whole, in order, durable; a failure does not corrupt |
| capture | `internal/capture/capture.go` | a goroutine and a channel per device, `errCh` | `Run`, `runDevice`, `handlePacket`, `ListDevices`, `WaitForFirstPacket` | Photon packets forwarded in order and completely; everything ends on cancellation; a packet that came in time is not denied |
| main, health monitor | `cmd/lootlogger/main.go` | the flags, the context, the file, the timer | `main`, `healthMonitor` | nothing stuck between capture and file; the last report true; a silent program warns; an interrupt ends it |
| code tables | `internal/protocol/*.go` | two generated tables | `String` | the numbers the handlers depend on; no two codes print alike |
| code generator | `tools/codegen/main.go` | two generated files | `generate`, `parseEnum`, `extractComment`, `renderGo` | the Go tables number as the C# enums do, and compile |
| sync workflow | `.github/workflows/sync-protocol.yml` | branches, a review PR | two jobs | a change upstream is not missed |

The behaviours that are hard to test here: fragments lost, reordered, retransmitted, or of two
streams under one number; goroutines of several devices in one parser; panics in the middle of a
packet; a file that fails half-way through a row, or is used by a second start of the program; the
shutdown, where `main` does not wait for anybody; `select` choosing at random; a decoder that goes
on without an error on damaged bytes; a workflow that reads an upstream and a main branch which both
move under it. PROJECT.json lists each one with its line under "hazards" and names the properties
aimed at it.

## 2. Modules

Operators whose name ends in `_<Something>` are bugs the code could have and does not have; each
property is known to fail when its definition is replaced by one of them.

### Reassembly of messages: `Fragments`, `Reassembly`, `WholeMessages`

`Fragments` holds the pure part of `handleFragment`: `Nonsensical` (lines 266-268), `BufferFor`
(270-278), `OffsetPanics` and `Filled` (279-281), `Finished` (283), `Without` (284). A buffer is the
record `fragmentBuffer`; bytes are abstract values, `Zero` the ones `make` puts in.

`Reassembly` is the state machine. Messages `Msg` are cut into fragments at `Cut[m]`, numbered
`StartSeqOf[m]`; a captured fragment is an action `Capture(m, i)`, possible up to `MaxCaptures` times
(retransmission, or two capture devices) and in any order; `Noise` is any other fragment command.
`HandleFragment` has the code's four ends: `Discard`, `Panic`, `Keep`, `Deliver`. `handed` is the
sequence of bodies given to `handleMessage`. *Clean* messages - alone on their number, no fragment
captured twice - are what the comments on Parser assume; the properties say that clean messages are
treated right whatever happens to the others.

`WholeMessages` is the abstract specification: a message is handed over at the moment its last
missing fragment comes, unless a fragment of it was captured again (`repeated`).
`WholeMessagesSpec` instantiates it with the buffers, counters and offsets mapped away: its
sequence of messages is read off the bodies in `handed` (`Out`). It is checked by `reassembly` and
proved.

### Parsing of packets: `Packets`, `PhotonParser`, `Payloads`, `AtomicParser`, `SerialParser`

`Packets` translates the tests of `parseCommand`, `readCommandBody`, `handleMessage` and the
decoders on one command or one message. `PhotonParser` is `Parse` as several goroutines run it:
`pc[d]` is where goroutine d is, and a step is the work between two points where another goroutine
(or a reader of the counters, which takes no lock) can see a difference. One action stands for each
way a command or message can go: `Abort`, `Skip`, `TakeMessage`, `Discard`, `Panic`, `Keep`,
`Deliver`, `Ignore`, `CountMessage`, `TooLittleData`, `CountDecoded`, `Call`, `Return`.

`Payloads` reads the same packets as *bytes*: the big-endian headers, the cursor, the loop over the
commands, the slices that are copied or not, and what an early return or a panic in the middle
leaves behind. It also writes them (`PacketBytes`, `SendFragment`), as a peer does. `AtomicParser`
says that a payload takes effect in one step, for any function of a state and a payload; that function
is `Parsed` of `Payloads`. `SerialParser` adds the history
variable `base`, the state at the last moment the mutex was free, and says that `PhotonParser`
implements `AtomicParser` through it (`ParseIsAtomic`): the interleaved steps on abstract commands do
what one plain loop over the bytes does. What the two share are the tests of `Packets` and the buffers
of `Fragments`. `BytesAssumption` ties a packet to its bytes: what a command carries is as long as its
length field says (of a damaged length only the sign or the excess counts), its numbers are int32s, and
a packet is all that was written or the first bytes of it.

### Decoding: `Protocol18`, `Coerce`, `ParameterTables`

`Protocol18` is the deserializer, byte by byte: a reader takes a sequence of bytes and gives a value
and the unread rest, `Deserialize` has one case for each type code, and a value carries the Go type
it has. `Deserialize` is a recursive function over buffers and codes, which the readers of composite
values get as `d`; its loops over the elements of a collection are recursive functions too.
`DecodeEvent`, `DecodeRequest` and `DecodeResponse` are the message decoders of `parser.go`.
`Coerce` is `coerce.go` on these values and the record `handleGrabbedLoot` makes with it.

`ParameterTables` is a server that puts parameters into a table one after the other, in every type
code that stands for the value (`CodesFor`). Its serializer (`Payload`, a recursive function on the
pairs of a value and a code, `Encodings`) is the reference: it is derived from no
code of the repository, except the varints, which have one in `parser_test.go`. The server's values
are any `Values` that are `Sendable` with everything in them (`Parts`, `Below`, `Writable`). `Damaged` is
what the last parameter becomes when it is cut and something else follows, as it does when a message is
handed over with a hole.

### From the wire to the handler: `CodeTables`, `Wire`

`Wire` composes the pipeline: the server of `ParameterTables` puts its table into an event, a request
or a response, sends that in a reliable or an unreliable command or cut into fragments (`Post`), and
the payloads are captured in any order (`Parse`), beside the rest of a message that was under way.
`Payloads` finds the bodies in them, `Protocol18` decodes them, `OnEvent` picks the handler with the
numbers of `CodeTables`. `meant` remembers what the server wanted to say, and `DispatchedAsSent`
compares: who hears a message, once, with which code and parameters. `CodeTables` has both generated
tables with `String`; that names tell codes apart is its ASSUME, which TLC evaluates for every code.

### The controller: `Ints`, `ParseInt`, `LootController`

`ParseInt` is `parseIntStrict` over characters (digits, `Minus`, anything else) with an int of
`Width` bits that wraps at every turn of the loop (`MagnitudeAt` of `Ints`); `Decimal`, what `fmt`
prints, is the reference. `LootController` is
`OnEvent` and its handlers, one action per step between the atomic counter, the locked mob table
and the call of the sink, for any number of callers; `announced` and `known` are histories that the
properties compare the records with. `DecimalsNameMobs` asks `isMobName` about every int and every
short name in every state.

### The file: `RowLog`, `LootLog`

`LootLog` is the sink down to the file: `csv.Write` puts a row piece by piece into a buffer of
`BufferSize` pieces (`Put`, `Spill`), `Flush` writes it out, `WriteOut` may fail after any number of
pieces and then refuses everything that follows, which is what `bufio.Writer` does and `writeCSV`
ignores. `Close` is main's deferred Close, at any time; `Restart` is a kill and a second start on
the same file at any time. A piece carries the start, the row and the part it belongs to, so that
the file itself shows what was mixed, lost or torn. `RowLog` is the abstract log of whole rows; the
refinement `RowLogSpec` maps it to the rows that are whole in the file (`WholeRows`). It is checked by
`lootlog` and proved.

### Capture and the program: `Capture`, `Lootlogger`

`Capture` is `Run` with one chosen device or a goroutine for each of the devices found, `runDevice`
with its failures and its `select`, and `handlePacket`. gopacket's source is external: a channel it
fills (`Arrive`) and may close (`SourceEnds`). `WaitForFirstPacket` runs beside it as a poll in three
steps (`Tick`, `Seen`, `PastDeadline`): the deadline may pass and a packet may come between any two.
`inTime` is a history: a tick before the deadline came after a packet.

`Lootlogger` composes the whole program from the promises of the parts: a row is one step of
`RowLog`, a packet a list of events handled under the parser's mutex, `Run` returns at a cancellation
without waiting for its goroutines, or at the end of a chosen device. `main` is modelled from its
flags to the exit status: the list of devices, the file, the self-test, `Run`, the last report, whose
three counters are loaded one after the other (`Loads`), the deferred Close. The health monitor has
its timer.

### The generator and its workflow: `Codegen`, `ProtocolSync`

`Codegen` is `parseEnum` as a loop over the lines of an enum (`Members`, whose turn is `Reads`), with
the comments that are cut at a byte (`ExtractComment`), what makes the generated file compile
(`Compiles`: no name or number twice, no torn character), and the numbering rule of C# as the
reference: a member has the number of the last one that gives its own, plus their distance (`Value`). `ProtocolSync` is the workflow: the
two jobs of a daily run, each with a checkout of its own, beside an upstream that goes from version
to version, people who commit to main and reviewers who merge. A commit that is not the job's own
makes its push fail (`moved`). Main's content is the two tables, the stored hashes and the names that
the handlers use.

### Which module stands for what

| module | stands for |
|---|---|
| `Fragments`, `Reassembly` | `handleFragment` and `Parser.fragments` |
| `Packets`, `PhotonParser` | the rest of `parser.go` |
| `Payloads` | the same on the bytes of a payload, with the envelope's reader |
| `WholeMessages`, `AtomicParser`, `RowLog` | abstract specifications |
| `SerialParser` | the refinement of `AtomicParser` |
| `Protocol18`, `Coerce` | `protocol18.go`, the decoders of `parser.go`, `coerce.go` |
| `ParameterTables` | the game server, as a reference |
| `CodeTables` | `protocol.go`, `eventcodes_gen.go`, `opcodes_gen.go` |
| `Wire` | parser, decoders and `OnEvent` composed, behind the server |
| `ParseInt`, `LootController` | `controller.go` |
| `LootLog` | `sink.go` with `csv`, `bufio` and the file |
| `Capture` | `capture.go` with gopacket's source |
| `Lootlogger` | `cmd/lootlogger/main.go`, composed with the promises of the parts |
| `Codegen`, `ProtocolSync` | `tools/codegen`, `sync-protocol.yml` |
| `Ints` | Go's integers of any width: `parseIntStrict`'s loop, what `fmt` prints |
| `MC*` | constants for TLC |
| `Subsequences` | what is kept of a sequence: the language of `Capture`, `LootLog`, `Reassembly`, `Codegen` |
| `DataLemmas`, `*Proofs` | theorems |

`Wire` extends `ParameterTables` and `CodeTables` and instantiates `Payloads`; `SerialParser` extends
`PhotonParser` and `Payloads` and instantiates `AtomicParser`; `Coerce` extends `Protocol18` and instantiates `ParseInt` with the width of int64, `LootController`
extends `ParseInt` for any width; `Lootlogger` instantiates `RowLog`; `Reassembly` and
`PhotonParser` both use `Fragments`; `ProtocolSync` extends `Codegen`.

## 3. Runs

A run that expects a violation shows a disagreement between the code and a comment (section 7).

| run | question | answer |
|---|---|---|
| `reassembly` | Are clean messages handed over whole, once, exactly when complete, and is their buffer gone then, whatever malformed or foreign fragments come between? Do duplicates move bytes? Does the table implement `WholeMessages`? Is `IInv` invariant? | yes; no; yes; yes |
| `reassembly_retransmit` | Is every body a message that was sent? | violated |
| `reassembly_streams` | Is every body of one message? | violated |
| `parser` | Two goroutines and eight kinds of packets, panicking and ending early among them: exclusive handler calls, counters that agree with the calls, packets that take effect as one loop over their bytes would make them, calls that return? | yes |
| `protocol18` | Is every message, in any command or cut into fragments and captured in any order, heard once, by its own handler, with its code and parameters, in every code its values can have? Does damage stay behind the place it hit, within ranges and bounds? Do codes, quantities and mobs depend on the number type the server picks? | yes; yes; no |
| `controller` | Do counter and records agree; is MOB said of mobs and of nothing else, by ints and their decimals at the limits? | yes |
| `controller_minus` | Are non-numeric names players? | violated |
| `lootlog` | Are rows whole, in order and durable, under failures and restarts? Is the sink a `RowLog`? Does every caller get out of it? Is `RInv` invariant? | yes |
| `capture` | Does each Photon packet reach the sink, in order and once, up to the end of its source? Do Run and all goroutines end after a cancellation? Does a wait for the first packet answer, and does it see a packet that came in time? | yes |
| `capture_lock` | Does capture lock onto the first device with Photon data? | violated |
| `logger` | Under each combination of the flags: do the loot counter and the file stay together across devices, failures, shutdown? Is the last report of a chosen device exact? Does a loot event get to the file; does a program without loot warn; does an interrupt end it, with the file closed? | yes |
| `sync` | Does what is pushed without review build, and is it numbered as C# numbers it? Do both tables catch up with a version that is usable, after a lost race or a failed fetch too; is no change of the handlers overlooked? | yes |

## 4. Bounds

| bound | where | why it is enough |
|---|---|---|
| `MaxCaptures` 2 | `Reassembly` | one duplicate of each fragment is what completes a message early and reopens its buffer afterwards; a third adds another round of the same |
| `MaxNoise` 1 | `Reassembly` | each kind of foreign fragment once, at any moment |
| 2-3 messages, 2-3 fragments of unequal length | `MCReassembly` | first, middle and last fragment, two messages interleaved, two on one number; the theorems hold for all |
| `MaxPackets` 3, 2 devices | `MCParser` | a fragmented message, its completion by another device, and a panicking packet between them |
| `IntBits` 20, `LongBits` 27 | `protocol18` | wider than two bytes, as int32 is, and of different numbers of seven-bit groups whose last is not full, as 32 and 64 are; the least and greatest of each are among the values (TLC's own integers have 32 bits) |
| `MaxCollectionElements` 4 | `protocol18` | 2^20 in the code; the values stay within it, the damaged counts do not |
| five ways to send a message (`AllWays`), one other message in two fragments | `protocol18` | each command, one to three fragments, apart or last first in one payload; every interleaving with the other message, whose first fragment is there from the start |
| `MaxParameters` 2, `Followers` | `protocol18` | any value, and a number behind it, which shows where the cursor is and may replace the value under its key |
| `MaxNesting` 4 | `protocol18` | no value of the server, and none that damage makes of them, is deeper; the theorems hold for any depth |
| `MaxCut` 12, eight tails | `protocol18` | a cut after each byte of every code, count and head, and in the body of a long string |
| `Width` 8, names of up to 3 characters | `MCLootController` | every int's decimal is asked about as well; the arithmetic is the same at 64 bits |
| `MaxEvents` 3, 2 callers | `MCLootController` | a mob, its loot, and something between them |
| `MaxRows` 3, rows of 1 or 3 pieces, buffer of 2 | `MCLootLog` | a row that fits, one that spills, one that is written after a failure |
| `MaxStarts` 2 | `MCLootLog` | one restart, behind a whole, a torn or a missing row |
| `MaxPackets` 2, `ChanSize` 2, 2 devices | `MCCapture` | a full channel, a packet left in it at the end; gopacket's channel holds 1000 |
| `Watched` one device | `capture` | the wait beside a capture of that device; without it beside the others, which keeps the run small |
| `MaxPackets` 2, packets of at most 2 events | `MCLootlogger` | each device at work at the shutdown |
| 6 combinations of the flags (`SomeFlags`) | `logger` | a file, a health monitor, a chosen device, the self-test and the list, each with and without what it interacts with; the others are between them, and the theorems hold for all |
| 6 versions, `MaxCommits` 1, `MaxFailures` 1 | `MCProtocolSync` | both tables change together and alone, number a member twice, have a comment cut behind or within a character, are missing; a commit in each gap of a job; a failure of any fetch |

Counters are Go's 64-bit counters; they are natural numbers in the models and would need centuries
to overflow. `MaxPackets` is a guard of the environment's action only (`Parse`, `Arrive`, `Receive`),
so that a bounded system stops when nothing more is captured: that is why the configurations do not
check for deadlock. That goroutines do not block each other is what `ParseReturns`, `CallsReturn`,
`DevicesEnd` and `LootIsLogged` say.

## 5. Fairness

* Weak fairness on the steps of a goroutine that can run: Go's scheduler is preemptive and fair.
* Strong fairness on taking a mutex: a `sync.Mutex` goes into starvation mode when a waiter has
  waited for a millisecond and hands itself to it. In the bounded runs weak fairness would do, since
  only finitely many packets compete; the stronger form is what the code relies on.
* Strong fairness on the `ctx.Done()` case of `select`, in a goroutine and, with a chosen device, in
  main: Go picks at random among ready cases, so a case that stays ready is not passed over for ever.
* The health monitor's timer fires, the poll of `WaitForFirstPacket` ticks and its deadline passes.
* The workflow's schedule starts a run whenever the last one has ended, and the jobs of a run come to
  an end; whether a fetch succeeds is left open, but only `MaxFailures` of them fail.
* None on what comes from outside: packets, the end of a source, an interrupt, a failure, a kill,
  a new upstream version, a commit, a merge.

## 6. Proofs

TLAPS checks the theorems below for all values of the constants, from the named ASSUMEs of the
modules only (any finite sets of devices and callers, any messages, cuts, noise, packets, events,
flags and upstream versions). No theorem has a hypothesis of its own.

| module | theorems | properties of runs |
|---|---|---|
| `ReassemblyProofs` | 8 | `IInv`, `CleanWhole`, `CleanHandedOver`, `CleanOnce`, `CleanBuffered`, `HolesOnly`, `WholeMessagesSpec` |
| `ParserProofs` | 5 | `TypeOK`, `Exclusive`, `CountsMatchCalls`, `DecodedWithinMessages`, `ParseIsAtomic` |
| `LootLogProofs` | 6 | `RInv`, `FileInOrder`, `Durable`, `RowLogSpec` |
| `LootControllerProofs` | 5 | `CountedOnce`, `KnownMobs`, `OnlyMobs`, `DecimalsNameMobs` |
| `CaptureProofs` | 4 | `InOrderAndComplete`, `NotOverlooked`; the safety part of `DevicesEnd` |
| `ProgramProofs` | 8 | `CountMatchesLog`, `ReportIsExact`, `TypeOK` of `ParameterTables`, `DamageStaysBehind`, `NumbersAsSent`; the decoding half of `DispatchedAsSent` |
| `ProtocolSyncProofs` | 3 | `MainBuilds`, `NumberedAsUpstream` |

**`DataLemmas`.** Several of these theorems are about data of any length: the digits of a number,
the lines of a file, the rows in a log. The induction theorems of the TLAPS library take the property
as an operator, which the provers at hand cannot instantiate. Here the property is a *set*, that of
the elements that have it, so that `Induction`, `StrongInduction` and `SequenceInduction` are
first-order facts; they follow from the well-foundedness of the order on the naturals alone. A
function that is defined by recursion is a CHOOSE, of which nothing is known until one is shown to
exist: `Recursion` (and `Loop*` for a loop over a sequence, whose turn is a function of state and
element) does so once for all, and `RankedRecursion` for a function over anything that has a rank, such
as the length of a buffer or the height of a value. The last part is about sequences (`FlattenSeq`,
`SetToSeq`, prefixes), bits and bytes: numbers written in 7-bit and 8-bit groups and read back, shifted
and masked. On these rest the lemmas about `Filtered` and `Mapped`, such as
`FilteredAppend`, `FilteredTwice` and `FilteredMapped`. `HistoryAppend` serves variables that only
grow.

**`ReassemblyProofs`.** `CleanWhole`, `CleanHandedOver`, `CleanOnce`, `CleanBuffered` and
`HolesOnly` are not inductive: they speak of `handed`, and what is handed over depends on the
buffers. The inductive invariant `IInv` (Reassembly.tla) says of the buffer of a clean message that
it is `Partial(m, Seen(m))`: exactly what the set of fragments captured so far makes of an empty
buffer, counters included. That this describes `bytesWritten` needs that the fragments of a message
do not overlap and cover it, which the lemmas about `Cut` prove (`CutCovers`, `CoveredAdd`,
`PartialFill`); that the two completion tests agree on it is `PartialFinished`; that other traffic
leaves it alone is `OtherNumber` with `Separate`. For messages with duplicates the invariant keeps
the weaker `Holey`. TLC checks `IInv` in the run `reassembly`.

`ImplementsWholeMessages` shows that every step of the table is a step of `WholeMessages` or leaves it
alone. What the abstract history keeps of `handed` is `Sent(handed, C)` for the set C of the messages
still intact (`OutIs`, by `IInv`). A body that is handed over appends its message if it is intact
(`WholeCapture`); a fragment that is captured again strikes its message out of C and out of the
history in the same step (`WholeRepeat`), by `FilteredTwice`; every other fragment changes neither
(`WholeOther`).

**`ParserProofs`.** `PInv` is `TypeOK /\ Exclusive /\ DecodesDispatched /\ CountsOK`. `Exclusive`
makes "how many messages are between two counters" a question about one goroutine, the mutex's
holder; `DecodesDispatched` says that a goroutine in a decoder holds a message whose kind has a
counter. `TypeOK` contains that no goroutine's count of unread bytes is ever negative.

`ImplementsAtomicParser` has two halves. The first is about data: reading undoes writing.
`Int32Read` does so for a number, `FragmentWritten` for a fragment, `CommandWritten` and `HeaderWritten`
say where the parts of a command and of a packet stand, and `CommandStep` puts them together: with n
commands of a packet read, one more turn of the loop over the bytes (`Command`) takes the branch, and has
the effect, that the tests of `Packets` give for the abstract command n + 1; in particular the
comparison with the bytes that are really there agrees with `CommandFits`, also in a packet that was cut
off. The second half is about the goroutines. `AInv` says where the loop over the bytes of the holder's
packet has come to (`Follows`): between two commands it has made of `base` exactly what the parser holds
now, with as many bytes unread; in the middle of a message it is ahead by what the goroutine still has
to count and to call. Nobody else has such a claim, since nobody else is inside (`Exclusive`). One lemma
for each kind of step keeps this; a dropped packet or a panic shuts the loop, whose further turns change
nothing (`AfterShut`), and so at `Unlock` the parser holds `Parsed` of what it was before (`Ends`).
`Parsed` and `Written` are recursive functions, whose equations come from `DataLemmas` by induction over
the commands (`AfterSteps`, `WrittenSteps`).

**`LootLogProofs`.** `FileInOrder` and `Durable` speak of the file, but what reaches the file next is
decided by the buffer, so neither is inductive. `LInv` (LootLog.tla) says that while no write has
failed the *stream*, the file with the buffer behind it, is in order and ends with the last piece
the mutex's holder has passed on (`WriterOK`), or with a complete row when the mutex is free. After a
failed write nothing is said of the stream any more; that the file itself is still in order then is
because a part of what was to be written came behind it (`WrittenPart`), and that it stays so is
because the writer keeps its error. A new start's header may come behind anything because all
pieces in the file carry an older start (`HeaderBehind`). One lemma per action, with `InsideStep` for
what the five steps inside the mutex have in common.

`ImplementsRowLog` needs more: *which* row becomes whole next. `RInv` adds `RowsOK`: the buffer holds
pieces of the present row only, its last piece, if it is there, at its end, and `RowToCome` is that row
from Lock to Flush and the one after it otherwise. A write to the file then makes at most one row
whole, the one to come (`WriteOutRows`): which of `RowLog`'s steps it is depends on whether the
last piece got into the file (`RowAppended`) or the write failed (`RowLost`). A restart begins
`RowLog`'s next start (`RestartRows`). TLC checks `RInv` in the run `lootlog`.

**`LootControllerProofs`.** `CountedOnce` is inductive once a counted event's way through `name` and
`emit` is followed: a caller goes into `Counted` or out of it (`CountedMoves`), which changes its
cardinality by one. `KnownMobs` compares a record with what was known when its event came, while
`Name` looks at what is known later: `Known` says that a mob, once known, stays so, and that the name
a caller has resolved is right before it is in the log.

Underneath is what `parseIntStrict` computes. The loop multiplies, adds and wraps at every digit
(`MagnitudeSteps`); `NumeralRead`, by induction over the digits, says that the numeral of a number up
to `Half` is read as that number, wrapped once; hence `DecimalsReadBack`: the decimal of every int,
with its sign, the least int included, is read as that int. The other direction is `CanonicalDecimal`:
a name without a leading zero and with fewer digits than the greatest int has is the decimal of what
is read from it (`DigitsNumeral`, `NumeralLonger`). So `OnlyMobs` follows, with the invariant
`Sourced`: loot put down to MOB was taken from a name that is read as an announced id.
`DecimalsNameMobs` is both directions about every name in every state. The names that `Canonical`
leaves out are the ones the code takes for ids that no `Itoa` writes, "-" among them (section 7).

**`CaptureProofs`.** A goroutine sends its result into `errCh`, from which nobody receives. That it
finds room is `Room`: the results in the channel and the goroutines that have not sent theirs are
together no more than its capacity. It needs that no goroutine starts again and that a chosen device,
for which the channel has no room at all, never reports (`Places`). `Reported` is why a late look at
the counter does not lose a packet: after a tick in time, the wait is looking at a counter above zero.
`InOrderAndComplete` relates three sequences. `Order` says for each device that the Photon packets it
captured are those passed on, followed by those still in the channel; each of the sequences is
`Filtered`, so a packet's step from one into the other is `FilteredHead` and `FilteredConcat`.
`Drained` says that a goroutine ends with nil only when its channel is closed and empty: then nothing
is left of the third.

**`ProgramProofs`, the whole program.** `CountMatchesLog` needs the mutex of the sink only through
`RowLog`'s atomic append, so that the rows under way are the devices between the counter and the append
(`RowBegins`, `RowEnds`). `ReportIsExact` is not inductive: `Settled` says that with a chosen device
nothing counts any more when main reports, and `Loaded` which of the three counters it has loaded by
then.

**`ProgramProofs`, the decoder.** `DeserializeSound` is about any bytes and any code: `deserialize`
gives a value of a Go type, with everything in it, and leaves bytes, no more than there were. Every
reader consumes what it reads, so a value inside another is read from a shorter buffer, and the
equation of `Deserialize` follows by `RankedRecursion` (`DeserializeIs`). The theorem needs soundness
*before* the equation is known - without it a recursive call could be outside the function's domain -
so both are one induction over the length of the buffer: `Sound(d, b)` is what a reader may assume of
the `d` it is given, and there is a lemma for each reader that it keeps it. `WellTypedTables` follows for
every damaged message. That no collection is longer than the bound is the test of `BoundedCount`, carried
through every loop over elements.

`RoundTrip` is the other direction: of what the server writes, in any code it may choose, `deserialize`
reads the value that was meant and leaves exactly what is behind it. It is by induction over the height
of the value (`Height`; `MaxNesting` is only its bound), with a lemma for each code: packed and plain
numbers of any width, down to the least int, whose magnitude does not fit (`Zigzag`, `Varint`); booleans
packed eight to a byte; arrays with one code for all elements or one for each; maps with the codes of
keys and values in front, or not; messages in messages. `CodesFor` and `Payload` get their equations the
same way.

The invariant of the server is `SentRight`: each parameter in `sent` holds bytes that stand for its
value in some code (`Encoded`). With `RoundTrip`, the loop of `readParameterTable` reads back each of
them (`DamageBehind`: up to the place that was hit, whatever is there), the map that it fills has the
last value of each key, and `NumbersArrive` follows the numbers through `handleGrabbedLoot` and
`toString` into `parseIntStrict`, where `DecimalsReadBack` of the controller's proofs is what is needed.
`Dispatch` says of an event, a request and a response, once its body is whole, that `handleMessage`
takes it for what it is, that it is long enough for its decoder, that the code is found in the table or
in front of it, and that the handler whose name the code stands for hears what was meant.

**`ProtocolSyncProofs`.** `MainBuilds` speaks of main, but what `Push` puts there was tested with the
handlers of a checkout. `SyncOK` says that the checkout has main's handlers unless a commit came since
(`moved`), and then the push is refused. `StartAssumption` says that main builds at first and names
a version to start from. `NumberedHolds` adds `FromUpstream`: each table in the job, in its checkout
and on main is the whole of what the generator made of one version that upstream has reached. That
the generator's loop over one file numbers its members as C# does is `NumbersLikeCSharp`, by induction
over the lines: `Agree` says after each that the names are those of the members read so far, that
their numbers are `Value`, and that the loop's next number is what `Value` would give a member
without one. A line that is no member leaves all three as they are.

Only model-checked: all liveness, which is out of the prover's reach, and `DispatchedAsSent`. Its
two halves are proved apart: `ImplementsAtomicParser` and the theorems of `ReassemblyProofs` are about
commands, fragments and buffers in any order, `Dispatch` is about the body that comes out of them. What
joins them, a body put together from the bytes of its fragments beside any other message under way, is
left to the run `protocol18`.

## 7. Findings

Each is a run that expects a violation; PROJECT.json quotes the line that disagrees.

1. A fragment captured twice is counted twice; a body with a hole is decoded (`reassembly_retransmit`).
2. The fragment table is shared by all streams under a number each of them chooses (`reassembly_streams`).
3. `parseIntStrict("-")` is the number 0, the id of every mob without one (`controller_minus`).
4. `Run` locks onto none of its devices (`capture_lock`).

Read in the code while modelling it, but not run:

* `Parse` is called by a goroutine per device, while `parser.go:72-73` says that the capture layer
  calls it from a single one. The mutex keeps `Exclusive` true.
* `Stats` (`parser.go:106`) loads five counters one after the other: no snapshot.
* A failed write is never reported (`sink.go:144`); a row torn by it, or by a kill, is continued by the
  next start's header, because `main.go:59` appends; the self-test (`main.go:69-87`) succeeds then, too.
* `Run` (`capture.go:94-119`) does not notice that all devices have failed, and returns while its
  goroutines still capture. `ListDevices` takes devices that are down and the loopback device, which
  its comment excludes (`capture.go:56`): it looks at their addresses only.
* The final report (`main.go:113`) can count loot whose row is not written before the process ends;
  without a chosen device it can also have fewer events than loot events.
* A map whose keys and values take no bytes (a key null or zero by its code) is read as empty at the end
  of a message: the loop of `deserializeDictionary` stops where the bytes end. The server of
  `ParameterTables` writes such maps with the code of each key (`Silent`; `protocol18.go:314`).
* A string that is longer than what is left is empty, but its bytes are read as further parameters
  (`protocol18.go:413-417`).
* `parseEnum` takes a word on a line of a block comment for a member, skips members with a hexadecimal
  or negative value and several on one line, which shifts the later ones, and stops at a `}` in a
  comment (`tools/codegen/main.go:64`, `146-178`).

## 8. Not modelled

* `toInt64`, which nothing calls, and the defaults of `withDefaults`.
* Floats are their bytes; what Go makes of them as ints or texts is a constant operator.
* The text that `parseEnum` reads is lines that are members or are not, and a comment is its length
  and where it is cut; the wording of the generated file is left out. A run of the workflow for
  another ref, started by hand.
* The names of codes that nothing depends on are their positions in the tables.
* The text of rows and log lines; the flags `-debug`, `-filter` and what `-list-devices` prints; the
  tests and the build and release configuration, which are no behaviour of the program.
* Memory: a buffer for a two-gigabyte message is allocated in one step.
* libpcap: `handle.Close` is taken to return, and an IPv4 fragment to have no UDP layer.
* The age of a mob id: the source does not say when one ends.

## 9. Plan

Done: every component of section 1, their composition from the wire to the handler and from the
capture to the file, the proofs of section 6. What would come next:

1. `DispatchedAsSent` as a theorem: `Dispatch` joined with the reassembly of bodies on bytes.
2. A hole in a body followed through `Wire` to the record that it changes.
3. The workflow started by hand with another ref, beside the daily run.
