------------------------------ MODULE LootLog ------------------------------
(***************************************************************************)
(* loot.LogSink (internal/loot/sink.go) and the file behind it.  A row     *)
(* goes through csv.Writer, whose bufio.Writer holds BufferSize pieces, to *)
(* the *os.File that main opened with O_APPEND.  A write to the file may   *)
(* fail after some of its pieces; bufio then refuses every later write.    *)
(* What a row says is left out: it is its number, in the order in which    *)
(* the callers got the mutex, and it is cut in pieces.                     *)
(*                                                                         *)
(* The program may be killed and started again at any time; the file stays.*)
(*                                                                         *)
(* An operator whose name ends in _<something> is a bug the code could     *)
(* have and does not: the properties are tested against it.                *)
(***************************************************************************)
EXTENDS Naturals, Sequences, SequencesExt, Subsequences

CONSTANTS
  Caller,       \* the goroutines that call OnLoot and OnNewLoot
  RowSizes,     \* the sizes a row can have, in pieces
  HeaderSize,   \* the size of the header row
  BufferSize,   \* how many pieces the bufio.Writer holds
  MaxRows,      \* how often the sink is called (a bound)
  MaxStarts,    \* how often the program is started (a bound)
  NoOne         \* the mutex is free

ASSUME LootLogAssumption ==
  /\ RowSizes \subseteq Nat \ {0}
  /\ BufferSize \in Nat \ {0}
  /\ HeaderSize \in 1 .. BufferSize
  /\ MaxRows \in Nat /\ MaxStarts \in Nat \ {0}
  /\ NoOne \notin Caller

VARIABLES
  csv,      \* LogSink.csv is not nil
  starts,   \* how often the program was started
  ready,    \* NewLogSink has returned
  isOpen,   \* main has not closed the file
  mu,       \* LogSink.mu: the caller that holds it, or NoOne
  pc,       \* where each caller is in writeCSV
  size,     \* the size of its row
  calls,    \* how often the sink was called
  row,      \* the number of the last row begun; the header is 0
  put,      \* how many pieces of it csv.Write has passed on
  buffer,   \* the pieces in the bufio.Writer
  failed,   \* the bufio.Writer's error
  file      \* the pieces in the file

sink == <<csv, ready, mu, row, put>>
writer == <<buffer, failed, file>>
callers == <<pc, size, calls>>
vars == <<starts, isOpen, sink, writer, callers>>

Piece(n, k, s) == [start |-> starts, row |-> n, part |-> k, last |-> k = s]
Header == [k \in 1 .. HeaderSize |-> Piece(0, k, HeaderSize)]

Init ==
  /\ csv \in BOOLEAN
  /\ starts = 1
  /\ ready = FALSE
  /\ isOpen = TRUE
  /\ mu = NoOne
  /\ pc = [g \in Caller |-> "idle"]
  /\ size = [g \in Caller |-> 0]
  /\ calls = 0
  /\ row = 0
  /\ put = 0
  /\ buffer = <<>>
  /\ failed = FALSE
  /\ file = <<>>

-----------------------------------------------------------------------------
(* bufio.Writer.Flush with pieces b to write: the file takes all of them,  *)
(* or some before it fails; a closed file takes none.                      *)
WriteOut_Forgives(b) ==
  \E n \in 0 .. Len(b) :
    /\ isOpen \/ n = 0
    /\ file' = file \o SubSeq(b, 1, n)
    /\ buffer' = <<>>
    /\ failed' = FALSE

WriteOut(b) ==
  \E n \in 0 .. Len(b) :
    /\ isOpen \/ n = 0
    /\ file' = file \o SubSeq(b, 1, n)
    /\ buffer' = SubSeq(b, n + 1, Len(b))
    /\ failed' = (n < Len(b))

NewLogSink ==
  /\ ~ ready
  /\ ready' = TRUE
  /\ IF csv THEN WriteOut(Header) ELSE UNCHANGED writer
  /\ UNCHANGED <<starts, isOpen, csv, mu, row, put, callers>>

Goes(g, from, to) == pc[g] = from /\ pc' = [pc EXCEPT ![g] = to]

(* OnLoot, OnSilver or OnNewLoot: without a file there is nothing to do.   *)
OnLoot(g, s) ==
  /\ ready /\ calls < MaxRows
  /\ Goes(g, "idle", IF csv THEN "lock" ELSE "idle")
  /\ size' = [size EXCEPT ![g] = s]
  /\ calls' = calls + 1
  /\ UNCHANGED <<starts, isOpen, sink, writer>>

Lock_TakenAnyway(g) ==
  /\ Goes(g, "lock", "write")
  /\ mu' = g
  /\ row' = row + 1
  /\ put' = 0
  /\ UNCHANGED <<starts, isOpen, csv, ready, size, calls, writer>>

Lock(g) ==
  /\ Goes(g, "lock", "write")
  /\ mu = NoOne
  /\ mu' = g
  /\ row' = row + 1
  /\ put' = 0
  /\ UNCHANGED <<starts, isOpen, csv, ready, size, calls, writer>>

(* csv.Write hands the row on piece by piece.                              *)
Put(g) ==
  /\ Goes(g, "write", "write")
  /\ put < size[g] /\ ~ failed /\ Len(buffer) < BufferSize
  /\ buffer' = Append(buffer, Piece(row, put + 1, size[g]))
  /\ put' = put + 1
  /\ UNCHANGED <<starts, isOpen, csv, ready, mu, row, failed, file, size, calls>>

Spill(g) ==
  /\ Goes(g, "write", "write")
  /\ put < size[g] /\ ~ failed /\ Len(buffer) = BufferSize
  /\ WriteOut(buffer)
  /\ UNCHANGED <<starts, isOpen, sink, size, calls>>

(* The error of csv.Write is dropped: Flush follows in any case.           *)
Written_ErrorReturns(g) ==
  /\ Goes(g, "write", IF failed THEN "idle" ELSE "flush")
  /\ put = size[g] \/ failed
  /\ UNCHANGED <<starts, isOpen, sink, writer, size, calls>>

Written(g) ==
  /\ Goes(g, "write", "flush")
  /\ put = size[g] \/ failed
  /\ UNCHANGED <<starts, isOpen, sink, writer, size, calls>>

Flush_Left(g) ==
  /\ Goes(g, "flush", "unlock")
  /\ UNCHANGED <<starts, isOpen, sink, writer, size, calls>>

Flush(g) ==
  /\ Goes(g, "flush", "unlock")
  /\ IF failed THEN UNCHANGED writer ELSE WriteOut(buffer)
  /\ UNCHANGED <<starts, isOpen, sink, size, calls>>

Unlock(g) ==
  /\ Goes(g, "unlock", "idle")
  /\ mu' = NoOne
  /\ UNCHANGED <<starts, isOpen, csv, ready, row, put, writer, size, calls>>

(* main returns while capturing goroutines still call the sink.            *)
Close ==
  /\ ready /\ isOpen
  /\ isOpen' = FALSE
  /\ UNCHANGED <<starts, sink, writer, callers>>

(* The program ends, by itself or not, and is started on the same file.    *)
Restart ==
  /\ starts < MaxStarts
  /\ starts' = starts + 1
  /\ ready' = FALSE
  /\ isOpen' = TRUE
  /\ mu' = NoOne
  /\ pc' = [g \in Caller |-> "idle"]
  /\ row' = 0 /\ put' = 0
  /\ buffer' = <<>> /\ failed' = FALSE
  /\ UNCHANGED <<csv, file, size, calls>>

Work(g) == Put(g) \/ Spill(g) \/ Written(g) \/ Flush(g) \/ Unlock(g)

Next ==
  \/ NewLogSink
  \/ \E g \in Caller :
       \/ \E s \in RowSizes : OnLoot(g, s)
       \/ Lock(g)
       \/ Work(g)
  \/ Close
  \/ Restart

Spec == Init /\ [][Next]_vars

(* Goroutines that can run do run, and the mutex does not pass over one    *)
(* waiter for ever.                                                        *)
FairSpec == Spec /\ \A g \in Caller : WF_vars(Work(g)) /\ SF_vars(Lock(g))

-----------------------------------------------------------------------------
(* Properties.                                                             *)

PieceType == [start : Nat, row : Nat, part : Nat \ {0}, last : BOOLEAN]

TypeOK ==
  /\ csv \in BOOLEAN /\ ready \in BOOLEAN /\ isOpen \in BOOLEAN /\ failed \in BOOLEAN
  /\ starts \in Nat \ {0}
  /\ mu \in Caller \cup {NoOne}
  /\ pc \in [Caller -> {"idle", "lock", "write", "flush", "unlock"}]
  /\ size \in [Caller -> RowSizes \cup {0}]
  /\ calls \in Nat /\ row \in Nat /\ put \in Nat
  /\ buffer \in Seq(PieceType) /\ Len(buffer) <= BufferSize
  /\ file \in Seq(PieceType)

(* b may come behind a in the file: a row is continued, or it is complete  *)
(* and the next one begins, or another start of the program begins with    *)
(* its header.                                                             *)
Follows(a, b) ==
  \/ /\ b.start = a.start
     /\ IF a.last THEN b.row = a.row + 1 /\ b.part = 1
                  ELSE b.row = a.row /\ b.part = a.part + 1
  \/ b.start > a.start /\ b.row = 0 /\ b.part = 1

InOrder(s) == \A j \in 1 .. Len(s) - 1 : Follows(s[j], s[j + 1])

(* Rows of different callers never mix, none is written twice, and nothing *)
(* comes behind a row that a failed write has torn or lost, whenever the   *)
(* file fails, is closed or the program dies.                              *)
FileInOrder == InOrder(file)

(* A call that has returned has its row in the file, however soon the      *)
(* program dies, unless a write has failed since the start.                *)
Durable ==
  csv /\ ready /\ mu = NoOne /\ ~ failed =>
    file # <<>> /\ Last(file).start = starts /\ Last(file).row = row /\ Last(file).last

(* A caller gets out of the sink again, whatever the file does.  (It may   *)
(* also be gone with its program.)                                         *)
CallsReturn == \A g \in Caller : pc[g] = "lock" ~> pc[g] = "idle"

-----------------------------------------------------------------------------
(* Why these properties hold.  As long as no write has failed, the file    *)
(* with the buffer behind it is in order, and its last piece is the last   *)
(* one that the holder of the mutex has put there.  LInv is inductive      *)
(* (LootLogProofs).                                                        *)

Inside == {"write", "flush", "unlock"}
Exclusive == \A g \in Caller : pc[g] \in Inside <=> mu = g

Stream == file \o buffer
EndsWith(n, k, l) ==
  /\ Stream # <<>>
  /\ LET p == Stream[Len(Stream)] IN
       p.start = starts /\ p.row = n /\ (l \/ p.part = k) /\ p.last = l

(* No call is under way before NewLogSink has returned, nor without a file.*)
Quiet ==
  /\ ~ ready => (\A g \in Caller : pc[g] = "idle") /\ mu = NoOne
  /\ ~ ready \/ ~ csv => row = 0 /\ buffer = <<>> /\ ~ failed
  /\ ~ csv => (\A g \in Caller : pc[g] = "idle") /\ mu = NoOne
  /\ \A j \in DOMAIN file : file[j].start <= starts
  /\ \A j \in DOMAIN buffer : buffer[j].start <= starts
  /\ ~ ready => \A j \in DOMAIN file : file[j].start < starts

WriterOK(g) ==
  /\ size[g] # 0 /\ put <= size[g] /\ row # 0
  /\ IF put = 0 THEN EndsWith(row - 1, 0, TRUE)
                ELSE EndsWith(row, put, put = size[g])
  /\ pc[g] \in {"flush", "unlock"} => put = size[g]
  /\ pc[g] = "unlock" => buffer = <<>>

StreamOK ==
  csv /\ ready /\ ~ failed =>
    /\ InOrder(Stream)
    /\ mu = NoOne => buffer = <<>> /\ EndsWith(row, 0, TRUE)
    /\ \A g \in Caller : mu = g => WriterOK(g)

LInv ==
  /\ TypeOK /\ Exclusive /\ Quiet /\ FileInOrder /\ StreamOK
  /\ \A g \in Caller : pc[g] = "lock" => size[g] # 0

-----------------------------------------------------------------------------
(* The whole rows in the file, and which row would be the next to be whole *)
(* in this start of the program.                                           *)
WholePiece == [start : Nat, row : Nat, part : Nat \ {0}, last : {TRUE}]
WholeRows == Filtered(file, WholePiece)

RowToCome ==
  IF WholeRows # <<>> /\ Last(WholeRows).start = starts THEN Last(WholeRows).row + 1 ELSE 0

Rows == INSTANCE RowLog WITH
  log   <- [j \in DOMAIN WholeRows |-> <<WholeRows[j].start, WholeRows[j].row>>],
  start <- starts,
  next  <- RowToCome,
  lost  <- failed

(* The sink implements RowLog: every row is one atomic append or a loss.   *)
RowLogSpec == Rows!Spec

(* Why it does: the buffer holds pieces of the present row only, and the   *)
(* last of them, if it is there, at its end; that row is the one to come   *)
(* from Lock to Flush.  RInv is inductive (LootLogProofs).                 *)
Writing == {"write", "flush"}

OfRow(b) ==
  \A j \in DOMAIN b :
    b[j].start = starts /\ b[j].row = row /\ (b[j].last => j = Len(b))

RowsOK ==
  csv /\ ready /\ ~ failed =>
    /\ OfRow(buffer)
    /\ \A g \in Caller : pc[g] \in Writing =>
         RowToCome = row /\ (put = size[g] => buffer # <<>>)
    /\ (\A g \in Caller : pc[g] \notin Writing) => RowToCome = row + 1

RInv == LInv /\ RowsOK
=============================================================================
