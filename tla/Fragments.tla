------------------------------ MODULE Fragments ------------------------------
(***************************************************************************)
(* The fragment table of photon.Parser (internal/photon/parser.go): what   *)
(* handleFragment computes for one SendFragment command whose body holds   *)
(* the whole 20-byte fragment header.  There is no state here; Reassembly  *)
(* and PhotonParser build their actions from these operators.              *)
(*                                                                         *)
(* A fragment is a record                                                  *)
(*   [startSeq, fragCount, totalLen, fragOffset, payloadLen, payload]      *)
(* whose payload is a function on 0 .. payloadLen-1.  Bytes are abstract:  *)
(* a byte is any value, and Zero is the one make([]byte, n) puts in a cell *)
(* that no fragment wrote.                                                 *)
(*                                                                         *)
(* An operator whose name ends in _<something> is a bug the code could     *)
(* have and does not: the properties are tested against it.                *)
(***************************************************************************)
EXTENDS Integers, Functions

CONSTANT Zero

-----------------------------------------------------------------------------
(* The sanity test on the header; a fragment that fails it is consumed     *)
(* and forgotten.                                                          *)
Nonsensical(f) ==
  \/ f.totalLen < 0
  \/ f.fragOffset < 0
  \/ f.fragOffset + f.payloadLen > f.totalLen

(* A new buffer counts no fragment yet and its cells hold Zero.            *)
NewBuffer(f) ==
  [ totalLength       |-> f.totalLen,
    bytesWritten      |-> 0,
    data              |-> [k \in 0 .. f.totalLen - 1 |-> Zero],
    fragmentsReceived |-> 0,
    fragmentCount     |-> f.fragCount ]

(* The buffer the fragment goes to: the one its startSequenceNumber is the *)
(* key of, whatever sender, channel or device it came from, or a new one.  *)
BufferFor(table, f) ==
  IF f.startSeq \in DOMAIN table THEN table[f.startSeq] ELSE NewBuffer(f)

(* buf.data[fragOffset:] panics when the offset lies beyond the slice that *)
(* an earlier fragment sized.                                              *)
OffsetPanics(b, f) == f.fragOffset > b.totalLength

(* copy() and the two counters.  copy stops at the end of the slice; the   *)
(* counters do not ask which fragment this is.                             *)
Span(f) == f.fragOffset .. f.fragOffset + f.payloadLen - 1

Filled_InOrder(b, f) ==
  [ totalLength       |-> b.totalLength,
    bytesWritten      |-> b.bytesWritten + f.payloadLen,
    data              |-> [k \in DOMAIN b.data |->
                             IF k - b.bytesWritten \in DOMAIN f.payload
                             THEN f.payload[k - b.bytesWritten]
                             ELSE b.data[k]],
    fragmentsReceived |-> b.fragmentsReceived + 1,
    fragmentCount     |-> b.fragmentCount ]

Filled(b, f) ==
  [ totalLength       |-> b.totalLength,
    bytesWritten      |-> b.bytesWritten + f.payloadLen,
    data              |-> [k \in DOMAIN b.data |->
                             IF k \in Span(f) THEN f.payload[k - f.fragOffset]
                                              ELSE b.data[k]],
    fragmentsReceived |-> b.fragmentsReceived + 1,
    fragmentCount     |-> b.fragmentCount ]

Finished_Strict(b) ==
  \/ b.fragmentsReceived > b.fragmentCount
  \/ b.bytesWritten > b.totalLength

Finished_OneEarly(b) ==
  \/ b.fragmentsReceived >= b.fragmentCount - 1
  \/ b.bytesWritten >= b.totalLength

Finished(b) ==
  \/ b.fragmentsReceived >= b.fragmentCount
  \/ b.bytesWritten >= b.totalLength

With(table, s, b) ==
  [x \in DOMAIN table \cup {s} |-> IF x = s THEN b ELSE table[x]]

Without_Nothing(table, s) == table

Without(table, s) == Restrict(table, DOMAIN table \ {s})
=============================================================================
