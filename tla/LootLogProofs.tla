--------------------------- MODULE LootLogProofs ---------------------------
(***************************************************************************)
(* The safety properties of LootLog for any callers, any sizes of rows,    *)
(* header and buffer, and any number of starts.                            *)
(***************************************************************************)
EXTENDS LootLog, DataLemmas, TLAPS

-----------------------------------------------------------------------------
(* Sequences of pieces that are in order.                                  *)

(* What is in order stays so when only a part of its end is written.       *)
LEMMA WrittenPart ==
  ASSUME NEW a \in Seq(PieceType), NEW b \in Seq(PieceType), NEW n \in 0 .. Len(b)
  PROVE  /\ a \o SubSeq(b, 1, n) \in Seq(PieceType)
         /\ SubSeq(b, n + 1, Len(b)) \in Seq(PieceType)
         /\ Len(SubSeq(b, n + 1, Len(b))) = Len(b) - n
         /\ InOrder(a \o b) => InOrder(a \o SubSeq(b, 1, n))
<1> DEFINE c == SubSeq(b, 1, n)
<1>1. Len(a) \in Nat /\ Len(b) \in Nat /\ \A i \in 1 .. Len(b) : b[i] \in PieceType
  BY ElementOfSeq, LenProperties
<1>2. c \in Seq(PieceType) /\ Len(c) = n /\ \A i \in 1 .. n : c[i] = b[i]
  BY <1>1, SubSeqProperties
<1>3. /\ SubSeq(b, n + 1, Len(b)) \in Seq(PieceType)
      /\ Len(SubSeq(b, n + 1, Len(b))) = Len(b) - n
  BY <1>1, SubSeqProperties
<1> HIDE DEF c
<1> DEFINE u == a \o b
           t == a \o c
<1>4. Len(u) = Len(a) + Len(b) /\ u \in Seq(PieceType)
      /\ \A i \in 1 .. Len(a) + Len(b) : u[i] = IF i <= Len(a) THEN a[i] ELSE b[i - Len(a)]
  BY ConcatProperties
<1>5. Len(t) = Len(a) + Len(c) /\ t \in Seq(PieceType)
      /\ \A i \in 1 .. Len(a) + Len(c) : t[i] = IF i <= Len(a) THEN a[i] ELSE c[i - Len(a)]
  BY <1>2, ConcatProperties
<1> HIDE DEF u, t
<1>6. Len(t) = Len(a) + n /\ \A i \in 1 .. Len(t) : t[i] = u[i]
  <2>1. ASSUME NEW i \in 1 .. Len(t), i > Len(a) PROVE c[i - Len(a)] = b[i - Len(a)]
    <3>1. i - Len(a) \in 1 .. n
      BY <1>1, <1>2, <1>5, <2>1
    <3> QED
      BY <1>2, <3>1
  <2>2. Len(t) = Len(a) + n
    BY <1>2, <1>5
  <2>3. ASSUME NEW i \in 1 .. Len(t) PROVE t[i] = u[i]
    <3>1. i \in 1 .. Len(a) + Len(c) /\ i \in 1 .. Len(a) + Len(b)
      BY <1>1, <1>2, <2>2
    <3>2. CASE i <= Len(a)
      BY <1>4, <1>5, <3>1, <3>2
    <3>3. CASE ~ (i <= Len(a))
      <4>1. i > Len(a)
        BY <1>1, <3>1, <3>3
      <4>2. t[i] = c[i - Len(a)]
        BY <1>5, <3>1, <3>3
      <4>3. u[i] = b[i - Len(a)]
        BY <1>4, <3>1, <3>3
      <4> QED
        BY <2>1, <4>1, <4>2, <4>3
    <3> QED
      BY <3>2, <3>3
  <2> QED
    BY <2>2, <2>3
<1>7. ASSUME InOrder(u) PROVE InOrder(t)
  <2>1. ASSUME NEW j \in 1 .. Len(t) - 1 PROVE Follows(t[j], t[j + 1])
    <3>1. Follows(u[j], u[j + 1])
      BY <1>1, <1>4, <1>6, <1>7 DEF InOrder
    <3> QED
      BY <1>1, <1>6, <3>1
  <2> QED
    BY <2>1 DEF InOrder
<1> QED
  BY <1>3, <1>5, <1>7 DEF c, t, u

(* One more piece is in order if it may come behind the last one.          *)
LEMMA OneMorePiece ==
  ASSUME NEW a \in Seq(PieceType), NEW b \in Seq(PieceType), NEW p \in PieceType,
         InOrder(a \o b), a \o b # <<>>, Follows((a \o b)[Len(a \o b)], p)
  PROVE  /\ a \o Append(b, p) # <<>> /\ InOrder(a \o Append(b, p))
         /\ (a \o Append(b, p))[Len(a \o Append(b, p))] = p
<1> DEFINE s == a \o b
           t == a \o Append(b, p)
<1>1. /\ s \in Seq(PieceType) /\ Len(s) \in Nat
      /\ Len(a) \in Nat /\ Len(b) \in Nat /\ Len(s) = Len(a) + Len(b)
  BY ConcatProperties, LenProperties
<1>2. /\ Append(b, p) \in Seq(PieceType) /\ Len(Append(b, p)) = Len(b) + 1
      /\ \A i \in 1 .. Len(b) : Append(b, p)[i] = b[i]
      /\ Append(b, p)[Len(b) + 1] = p
  BY AppendProperties
<1>3. /\ t \in Seq(PieceType) /\ Len(t) = Len(s) + 1
      /\ \A i \in 1 .. Len(s) : t[i] = s[i]
      /\ t[Len(s) + 1] = p
  BY <1>1, <1>2, ConcatProperties
<1>4. t # <<>>
  BY <1>1, <1>3
<1> HIDE DEF s, t
<1>5. InOrder(s) /\ Follows(s[Len(s)], p)
  BY DEF s
<1>6. InOrder(t)
  BY <1>1, <1>3, <1>5 DEF InOrder
<1> QED
  BY <1>3, <1>4, <1>6 DEF t

(* What a piece consists of.                                               *)
LEMMA PieceFields ==
  ASSUME NEW n, NEW k, NEW s
  PROVE  /\ Piece(n, k, s).start = starts /\ Piece(n, k, s).row = n
         /\ Piece(n, k, s).part = k /\ Piece(n, k, s).last = (k = s)
  BY Zenon DEF Piece

(* The header of a new start may come behind everything older.             *)
LEMMA HeaderBehind ==
  ASSUME NEW a \in Seq(PieceType), starts \in Nat, InOrder(a),
         \A j \in DOMAIN a : a[j].start < starts
  PROVE  /\ Header \in Seq(PieceType) /\ Len(Header) = HeaderSize
         /\ InOrder(a \o Header) /\ a \o Header # <<>>
         /\ (a \o Header)[Len(a \o Header)] = Piece(0, HeaderSize, HeaderSize)
         /\ \A j \in DOMAIN Header : Header[j].start = starts
<1>1. HeaderSize \in Nat /\ HeaderSize >= 1
  BY LootLogAssumption
<1>2. \A k \in 1 .. HeaderSize : Piece(0, k, HeaderSize) \in PieceType
  BY <1>1 DEF Piece, PieceType
<1>3. /\ Header \in Seq(PieceType) /\ Len(Header) = HeaderSize
      /\ DOMAIN Header = 1 .. HeaderSize
      /\ \A k \in 1 .. HeaderSize : Header[k] = Piece(0, k, HeaderSize)
  BY <1>1, <1>2 DEF Header
<1> DEFINE t == a \o Header
<1>4. /\ Len(a) \in Nat /\ DOMAIN a = 1 .. Len(a)
      /\ t \in Seq(PieceType) /\ Len(t) = Len(a) + HeaderSize
      /\ \A i \in 1 .. Len(a) : t[i] = a[i]
      /\ \A i \in Len(a) + 1 .. Len(t) : t[i] = Header[i - Len(a)]
  <2>1. Len(a) \in Nat /\ DOMAIN a = 1 .. Len(a)
    BY LenProperties
  <2>2. /\ t \in Seq(PieceType) /\ Len(t) = Len(a) + Len(Header)
        /\ \A i \in 1 .. Len(a) + Len(Header) :
             t[i] = IF i <= Len(a) THEN a[i] ELSE Header[i - Len(a)]
    BY <1>3, ConcatProperties
  <2> HIDE DEF t
  <2> QED
    BY <1>1, <1>3, <2>1, <2>2
<1>5. t # <<>>
  BY <1>1, <1>4
<1>6. \A k \in 1 .. HeaderSize : t[Len(a) + k] = Piece(0, k, HeaderSize)
  BY <1>1, <1>3, <1>4
<1> HIDE DEF t
<1>7. ASSUME NEW j \in 1 .. Len(t) - 1 PROVE Follows(t[j], t[j + 1])
  <2>1. CASE j < Len(a)
    BY <1>1, <1>4, <2>1 DEF InOrder
  <2>2. CASE j = Len(a)
    <3>1. t[j].start < starts /\ t[j].start \in Nat
      <4>1. j \in 1 .. Len(a) /\ t[j] = a[j]
        BY <1>4, <2>2
      <4>2. a[j] \in PieceType
        BY <4>1, ElementOfSeq
      <4> QED
        BY <1>4, <4>1, <4>2 DEF PieceType
    <3>2. t[j + 1] = Piece(0, 1, HeaderSize)
      BY <1>1, <1>6, <2>2
    <3> QED
      BY <3>1, <3>2 DEF Follows, Piece
  <2>3. CASE j > Len(a)
    <3>1. PICK k \in 1 .. HeaderSize - 1 : j = Len(a) + k
      <4>1. j - Len(a) \in 1 .. HeaderSize - 1 /\ j = Len(a) + (j - Len(a))
        BY <1>1, <1>4, <2>3
      <4> QED
        BY <4>1
    <3>2. t[j] = Piece(0, k, HeaderSize) /\ t[j + 1] = Piece(0, k + 1, HeaderSize)
      <4>1. k \in 1 .. HeaderSize /\ k + 1 \in 1 .. HeaderSize
            /\ j + 1 = Len(a) + (k + 1)
        BY <1>1, <1>4, <3>1
      <4> QED
        BY <1>6, <3>1, <4>1
    <3>3. k # HeaderSize
      BY <1>1
    <3>4. ~ t[j].last /\ t[j].start = starts /\ t[j].row = 0 /\ t[j].part = k
      <4>1. ~ Piece(0, k, HeaderSize).last
        BY <3>3, PieceFields
      <4>2. t[j].last = Piece(0, k, HeaderSize).last
        BY <3>2
      <4> QED
        BY <3>2, <4>1, <4>2, PieceFields
    <3>5. t[j + 1].start = starts /\ t[j + 1].row = 0 /\ t[j + 1].part = k + 1
      BY <3>2, PieceFields
    <3> QED
      BY <3>4, <3>5 DEF Follows
  <2>4. j < Len(a) \/ j = Len(a) \/ j > Len(a)
    <3>1. Len(a) \in Nat /\ j \in Int
      BY <1>4
    <3> QED
      BY <3>1
  <2> QED
    BY <2>1, <2>2, <2>3, <2>4
<1>8. InOrder(t)
  BY <1>7 DEF InOrder
<1>9. t[Len(t)] = Piece(0, HeaderSize, HeaderSize)
  BY <1>1, <1>4, <1>6
<1>10. \A j \in DOMAIN Header : Header[j].start = starts
  BY <1>3 DEF Piece
<1> QED
  BY <1>3, <1>5, <1>8, <1>9, <1>10 DEF t

(* Writing the pieces b out: the file takes them, or the writer has failed *)
(* and the file has taken some.                                            *)
LEMMA WriteOutFacts ==
  ASSUME file \in Seq(PieceType), NEW b \in Seq(PieceType), WriteOut(b),
         \A j \in DOMAIN file : file[j].start <= starts,
         \A j \in DOMAIN b : b[j].start <= starts
  PROVE  /\ file' \in Seq(PieceType) /\ buffer' \in Seq(PieceType)
         /\ failed' \in BOOLEAN /\ Len(buffer') <= Len(b)
         /\ \A j \in DOMAIN file' : file'[j].start <= starts
         /\ \A j \in DOMAIN buffer' : buffer'[j].start <= starts
         /\ InOrder(file \o b) => InOrder(file')
         /\ ~ failed' => buffer' = <<>> /\ file' = file \o b
<1>1. PICK n \in 0 .. Len(b) :
        /\ file' = file \o SubSeq(b, 1, n)
        /\ buffer' = SubSeq(b, n + 1, Len(b))
        /\ failed' = (n < Len(b))
  BY DEF WriteOut
<1>2. Len(b) \in Nat /\ DOMAIN b = 1 .. Len(b) /\ Len(file) \in Nat
      /\ DOMAIN file = 1 .. Len(file)
      /\ \A i \in 1 .. Len(b) : b[i] \in PieceType
  BY LenProperties, ElementOfSeq
<1>3. /\ file' \in Seq(PieceType) /\ buffer' \in Seq(PieceType)
      /\ Len(buffer') = Len(b) - n
      /\ InOrder(file \o b) => InOrder(file')
  BY <1>1, WrittenPart
<1>4. /\ SubSeq(b, 1, n) \in Seq(PieceType) /\ Len(SubSeq(b, 1, n)) = n
      /\ \A i \in 1 .. n : SubSeq(b, 1, n)[i] = b[i]
      /\ \A i \in 1 .. Len(b) - n : SubSeq(b, n + 1, Len(b))[i] = b[n + i]
  BY <1>2, SubSeqProperties
<1>5. \A j \in DOMAIN buffer' : buffer'[j].start <= starts
  <2>1. DOMAIN buffer' = 1 .. Len(b) - n
    BY <1>3, LenProperties
  <2> QED
    BY <1>1, <1>2, <1>4, <2>1
<1>6. \A j \in DOMAIN file' : file'[j].start <= starts
  <2> DEFINE c == SubSeq(b, 1, n)
  <2>1. c \in Seq(PieceType) /\ Len(c) = n /\ \A i \in 1 .. n : c[i].start <= starts
    BY <1>2, <1>4
  <2> HIDE DEF c
  <2>2. /\ Len(file \o c) = Len(file) + n /\ file \o c \in Seq(PieceType)
        /\ \A i \in 1 .. Len(file) + n :
             (file \o c)[i] = IF i <= Len(file) THEN file[i] ELSE c[i - Len(file)]
    BY <2>1, ConcatProperties
  <2>3. DOMAIN (file \o c) = 1 .. Len(file) + n
    BY <2>2, LenProperties
  <2>4. ASSUME NEW j \in 1 .. Len(file) + n PROVE (file \o c)[j].start <= starts
    <3>1. CASE j <= Len(file)
      BY <1>2, <2>2, <3>1
    <3>2. CASE ~ (j <= Len(file))
      <4>1. j - Len(file) \in 1 .. n
        BY <1>2, <3>2
      <4> QED
        BY <2>1, <2>2, <3>2, <4>1
    <3> QED
      BY <3>1, <3>2
  <2>5. file' = file \o c
    BY <1>1 DEF c
  <2> QED
    BY <2>3, <2>4, <2>5
<1>7. ASSUME ~ failed' PROVE buffer' = <<>> /\ file' = file \o b
  <2>1. ~ (n < Len(b))
    BY <1>1, <1>7, Zenon
  <2>2. n = Len(b)
    <3>1. Len(b) \in Nat /\ n \in 0 .. Len(b)
      BY <1>2
    <3> HIDE <1>2
    <3> QED
      BY <2>1, <3>1
  <2> QED
    BY <1>1, <1>2, <2>2, SubSeqFull, SubSeqEmpty
<1>8. failed' \in BOOLEAN
  BY <1>1
<1>9. Len(buffer') <= Len(b)
  BY <1>2, <1>3
<1> QED
  BY <1>3, <1>5, <1>6, <1>7, <1>8, <1>9

-----------------------------------------------------------------------------
(* The inductive invariant.                                                *)

(* LInv holds initially.                                                   *)
LEMMA LInvInit ==
  ASSUME Init PROVE LInv
<1>1. <<>> \in Seq(PieceType) /\ Len(<<>>) = 0
  BY EmptySeq
<1>2. ~ ready /\ ~ failed
  BY Zenon DEF Init
<1>3. TypeOK
  <2>1. csv \in BOOLEAN /\ ready \in BOOLEAN /\ isOpen \in BOOLEAN /\ failed \in BOOLEAN
    BY Zenon DEF Init
  <2>2. /\ mu \in Caller \cup {NoOne}
        /\ pc \in [Caller -> {"idle", "lock", "write", "flush", "unlock"}]
        /\ size \in [Caller -> RowSizes \cup {0}]
    BY DEF Init
  <2>3. /\ buffer \in Seq(PieceType) /\ Len(buffer) <= BufferSize
        /\ file \in Seq(PieceType)
    BY <1>1, LootLogAssumption DEF Init
  <2>4. starts \in Nat \ {0} /\ calls \in Nat /\ row \in Nat /\ put \in Nat
    BY DEF Init
  <2> QED
    BY <2>1, <2>2, <2>3, <2>4, Zenon DEF TypeOK
<1>4. Exclusive
  BY LootLogAssumption DEF Init, Exclusive, Inside
<1>5. Quiet
  BY <1>2 DEF Init, Quiet
<1>6. StreamOK
  BY <1>2, Zenon DEF StreamOK
<1>7. FileInOrder
  BY <1>1 DEF Init, FileInOrder, InOrder
<1> QED
  BY <1>3, <1>4, <1>5, <1>6, <1>7 DEF Init, LInv

(* A call that is under way has a file, and inside it has the mutex.       *)
LEMMA UnderWay ==
  ASSUME LInv, NEW g \in Caller, pc[g] # "idle"
  PROVE  /\ csv /\ ready
         /\ pc[g] \in Inside => mu = g /\ \A h \in Caller : pc[h] \in Inside => h = g
  BY DEF LInv, Quiet, Exclusive

(* What the file with the buffer behind it is made of.                     *)
LEMMA StreamFacts ==
  ASSUME TypeOK
  PROVE  /\ Stream \in Seq(PieceType) /\ Len(Stream) \in Nat
         /\ buffer = <<>> => Stream = file
         /\ Stream # <<>> => Stream[Len(Stream)] \in PieceType
<1>1. file \in Seq(PieceType) /\ buffer \in Seq(PieceType)
  BY DEF TypeOK
<1>2. Stream \in Seq(PieceType)
  BY <1>1, ConcatProperties DEF Stream
<1>3. Len(Stream) \in Nat
  BY <1>2, LenProperties
<1>4. Stream # <<>> => Stream[Len(Stream)] \in PieceType
  <2>1. Stream # <<>> => Len(Stream) \in 1 .. Len(Stream)
    BY <1>2, EmptySeq
  <2> QED
    BY <1>2, <2>1, ElementOfSeq
<1> QED
  BY <1>1, <1>2, <1>3, <1>4, ConcatEmptySeq DEF Stream

(* NewLogSink preserves LInv: the header is behind everything older.       *)
LEMMA NewLogSinkStep ==
  ASSUME LInv, NewLogSink PROVE LInv'
<1>1. /\ TypeOK /\ Quiet /\ FileInOrder /\ ~ ready
      /\ \A g \in Caller : pc[g] = "idle"
      /\ mu = NoOne /\ row = 0 /\ buffer = <<>> /\ ~ failed
  BY DEF LInv, NewLogSink, Quiet
<1>2. UNCHANGED <<starts, isOpen, csv, mu, row, put, pc, size, calls>> /\ ready'
  BY DEF NewLogSink, callers
<1>3. Exclusive' /\ \A g \in Caller : pc'[g] = "lock" => size'[g] # 0
  BY <1>1, <1>2 DEF LInv, Exclusive, Inside
<1>4. CASE csv
  <2>1. WriteOut(Header)
    BY <1>4 DEF NewLogSink
  <2>2. /\ file \in Seq(PieceType) /\ starts \in Nat /\ InOrder(file)
        /\ \A j \in DOMAIN file : file[j].start < starts
    BY <1>1 DEF TypeOK, Quiet, FileInOrder
  <2>3. /\ Header \in Seq(PieceType) /\ Len(Header) = HeaderSize
        /\ InOrder(file \o Header) /\ file \o Header # <<>>
        /\ (file \o Header)[Len(file \o Header)] = Piece(0, HeaderSize, HeaderSize)
        /\ \A j \in DOMAIN Header : Header[j].start = starts
    BY <2>2, HeaderBehind
  <2>4. /\ \A j \in DOMAIN file : file[j].start <= starts
        /\ \A j \in DOMAIN Header : Header[j].start <= starts
    BY <1>1, <2>2, <2>3 DEF Quiet
  <2>5. /\ file' \in Seq(PieceType) /\ buffer' \in Seq(PieceType)
        /\ failed' \in BOOLEAN /\ Len(buffer') <= Len(Header)
        /\ \A j \in DOMAIN file' : file'[j].start <= starts
        /\ \A j \in DOMAIN buffer' : buffer'[j].start <= starts
        /\ InOrder(file \o Header) => InOrder(file')
        /\ ~ failed' => buffer' = <<>> /\ file' = file \o Header
    BY <2>1, <2>2, <2>3, <2>4, WriteOutFacts
  <2>6. Len(buffer') <= BufferSize
    <3>1. Len(buffer') \in Nat
      BY <2>5, LenProperties
    <3> QED
      BY <2>3, <2>5, <3>1, LootLogAssumption
  <2>7. TypeOK'
    BY <1>1, <1>2, <2>5, <2>6 DEF TypeOK
  <2>8. Quiet'
    BY <1>1, <1>2, <1>4, <2>5 DEF Quiet
  <2>9. FileInOrder'
    BY <2>3, <2>5 DEF FileInOrder
  <2>10. ASSUME ~ failed'
         PROVE  InOrder(Stream)' /\ EndsWith(row, 0, TRUE)' /\ buffer' = <<>>
    <3>1. buffer' = <<>> /\ Stream' = file \o Header
      BY <2>5, <2>10, ConcatEmptySeq DEF Stream
    <3>2. /\ Piece(0, HeaderSize, HeaderSize).start = starts
          /\ Piece(0, HeaderSize, HeaderSize).row = 0
          /\ Piece(0, HeaderSize, HeaderSize).last = TRUE
      <4>1. Piece(0, HeaderSize, HeaderSize).last = (HeaderSize = HeaderSize)
        BY PieceFields
      <4>2. Piece(0, HeaderSize, HeaderSize).last = TRUE
        BY <4>1, Zenon
      <4> QED
        BY <4>2, PieceFields
    <3>3. Stream' # <<>> /\ Stream'[Len(Stream')] = Piece(0, HeaderSize, HeaderSize)
      BY <2>3, <3>1
    <3> QED
      BY <1>1, <1>2, <2>3, <3>1, <3>2, <3>3 DEF EndsWith
  <2>11. StreamOK'
    BY <1>1, <1>2, <2>10, LootLogAssumption DEF StreamOK
  <2> QED
    BY <1>3, <2>7, <2>8, <2>9, <2>11 DEF LInv
<1>5. CASE ~ csv
  <2>1. UNCHANGED <<buffer, failed, file>>
    BY <1>5 DEF NewLogSink, writer
  <2>2. TypeOK'
    BY <1>1, <1>2, <2>1 DEF TypeOK
  <2>3. Quiet' /\ FileInOrder' /\ StreamOK'
    BY <1>1, <1>2, <1>5, <2>1 DEF Quiet, FileInOrder, StreamOK
  <2> QED
    BY <1>3, <2>2, <2>3 DEF LInv
<1> QED
  BY <1>4, <1>5

(* OnLoot preserves LInv: its caller is not yet inside.                    *)
LEMMA OnLootStep ==
  ASSUME LInv, NEW g \in Caller, NEW s \in RowSizes, OnLoot(g, s) PROVE LInv'
<1>1. /\ TypeOK /\ Exclusive /\ Quiet /\ FileInOrder /\ StreamOK
      /\ ready /\ pc[g] = "idle" /\ s # 0
  BY LootLogAssumption DEF LInv, OnLoot, Goes
<1>2. /\ UNCHANGED <<starts, isOpen, csv, ready, mu, row, put, buffer, failed, file>>
      /\ pc' = [pc EXCEPT ![g] = IF csv THEN "lock" ELSE "idle"]
      /\ size' = [size EXCEPT ![g] = s] /\ calls' = calls + 1
  BY DEF OnLoot, Goes, sink, writer
<1>3. mu # g /\ \A h \in Caller \ {g} : pc'[h] = pc[h] /\ size'[h] = size[h]
  BY <1>1, <1>2 DEF TypeOK, Exclusive, Inside
<1>4. pc'[g] = (IF csv THEN "lock" ELSE "idle") /\ size'[g] = s
  BY <1>1, <1>2 DEF TypeOK
<1>5. TypeOK'
  BY <1>1, <1>2 DEF TypeOK
<1>6. Exclusive'
  BY <1>1, <1>2, <1>3, <1>4 DEF Exclusive, Inside
<1>7. Quiet'
  BY <1>1, <1>2, <1>3, <1>4 DEF Quiet
<1>8. StreamOK' /\ FileInOrder'
  <2>1. ASSUME NEW h \in Caller, mu = h, WriterOK(h) PROVE WriterOK(h)'
    BY <1>2, <1>3, <2>1 DEF WriterOK, EndsWith, Stream
  <2> QED
    BY <1>1, <1>2, <2>1 DEF StreamOK, FileInOrder, Stream, EndsWith
<1> QED
  BY <1>1, <1>2, <1>3, <1>4, <1>5, <1>6, <1>7, <1>8 DEF LInv

(* Lock preserves LInv: a new row begins behind a complete one.            *)
LEMMA LockStep ==
  ASSUME LInv, NEW g \in Caller, Lock(g) PROVE LInv'
<1>1. /\ TypeOK /\ Exclusive /\ Quiet /\ FileInOrder /\ StreamOK
      /\ pc[g] = "lock" /\ mu = NoOne /\ size[g] # 0
  BY DEF LInv, Lock, Goes
<1>2. /\ UNCHANGED <<starts, isOpen, csv, ready, size, calls, buffer, failed, file>>
      /\ pc' = [pc EXCEPT ![g] = "write"] /\ mu' = g /\ row' = row + 1 /\ put' = 0
  BY DEF Lock, Goes, writer
<1>3. /\ csv /\ ready /\ \A h \in Caller : pc[h] \notin Inside
      /\ pc'[g] = "write" /\ \A h \in Caller \ {g} : pc'[h] = pc[h]
  BY <1>1, <1>2, UnderWay, LootLogAssumption DEF TypeOK, Exclusive
<1>4. TypeOK'
  BY <1>1, <1>2 DEF TypeOK
<1>5. Exclusive' /\ Quiet' /\ FileInOrder'
  BY <1>1, <1>2, <1>3 DEF Exclusive, Quiet, Inside, FileInOrder
<1>6. StreamOK'
  <2>1. SUFFICES ASSUME ~ failed PROVE StreamOK'
    BY <1>2 DEF StreamOK
  <2>2. InOrder(Stream) /\ EndsWith(row, 0, TRUE)
    BY <1>1, <1>3, <2>1 DEF StreamOK
  <2>3. WriterOK(g)'
    <3>1. row \in Nat /\ row' # 0 /\ row' - 1 = row
      BY <1>1, <1>2 DEF TypeOK
    <3>2. EndsWith(row - 1, 0, TRUE)'
      BY <1>2, <2>2, <3>1 DEF EndsWith, Stream
    <3>3. size'[g] # 0 /\ put' = 0 /\ put' <= size'[g]
      <4>1. size[g] \in Nat
        BY <1>1, LootLogAssumption DEF TypeOK
      <4> QED
        BY <1>1, <1>2, <4>1
    <3> QED
      BY <1>3, <3>1, <3>2, <3>3, Zenon DEF WriterOK
  <2> QED
    BY <1>1, <1>2, <2>2, <2>3, LootLogAssumption DEF StreamOK, Stream
<1> QED
  BY <1>1, <1>2, <1>3, <1>4, <1>5, <1>6 DEF LInv

(* What LInv says while g is inside.                                       *)
LEMMA InsideFacts ==
  ASSUME LInv, NEW g \in Caller, pc[g] \in Inside
  PROVE  /\ TypeOK /\ Exclusive /\ Quiet /\ FileInOrder /\ StreamOK
         /\ csv /\ ready /\ mu = g /\ mu # NoOne
         /\ \A h \in Caller : pc[h] \in Inside => h = g
         /\ ~ failed => InOrder(Stream) /\ WriterOK(g)
<1>1. pc[g] # "idle"
  BY DEF Inside
<1>2. TypeOK /\ Exclusive /\ Quiet /\ FileInOrder /\ StreamOK
  BY DEF LInv
<1>3. csv /\ ready /\ mu = g /\ \A h \in Caller : pc[h] \in Inside => h = g
  BY <1>1, UnderWay
<1>4. mu # NoOne
  BY <1>3, LootLogAssumption
<1>5. ~ failed => InOrder(Stream) /\ WriterOK(g)
  BY <1>2, <1>3 DEF StreamOK
<1> QED
  BY <1>2, <1>3, <1>4, <1>5

(* A step of g inside that keeps it there, and touches only the pieces,    *)
(* preserves LInv if it leaves the writer and g's row as LInv wants them.  *)
LEMMA InsideStep ==
  ASSUME LInv, NEW g \in Caller, pc[g] \in Inside, NEW to \in Inside,
         Goes(g, pc[g], to),
         UNCHANGED <<starts, isOpen, csv, ready, mu, row, size, calls>>,
         put' \in Nat,
         file' \in Seq(PieceType) /\ buffer' \in Seq(PieceType),
         Len(buffer') <= BufferSize, failed' \in BOOLEAN,
         \A j \in DOMAIN file' : file'[j].start <= starts,
         \A j \in DOMAIN buffer' : buffer'[j].start <= starts,
         InOrder(file'),
         ~ failed' => InOrder(Stream)' /\ WriterOK(g)'
  PROVE  LInv'
<1>1. /\ TypeOK /\ Exclusive /\ Quiet /\ csv /\ ready /\ mu = g /\ mu # NoOne
      /\ \A h \in Caller : pc[h] \in Inside => h = g
  BY InsideFacts
<1>2. /\ pc'[g] = to /\ \A h \in Caller \ {g} : pc'[h] = pc[h]
      /\ pc' \in [Caller -> {"idle", "lock", "write", "flush", "unlock"}]
  BY <1>1 DEF Goes, TypeOK, Inside
<1>3. TypeOK'
  BY <1>1, <1>2 DEF TypeOK
<1>4. Exclusive'
  BY <1>1, <1>2 DEF Exclusive
<1>5. Quiet'
  BY <1>1 DEF Quiet
<1>6. StreamOK'
  BY <1>1 DEF StreamOK
<1>7. \A h \in Caller : pc'[h] = "lock" => size'[h] # 0
  BY <1>1, <1>2 DEF LInv, Inside
<1> QED
  BY <1>3, <1>4, <1>5, <1>6, <1>7 DEF LInv, FileInOrder

(* Put preserves LInv: the piece may come behind the last one.             *)
LEMMA PutStep ==
  ASSUME LInv, NEW g \in Caller, Put(g) PROVE LInv'
<1> DEFINE p == Piece(row, put + 1, size[g])
<1>1. /\ pc[g] = "write" /\ pc[g] \in Inside /\ Goes(g, pc[g], "write")
      /\ put < size[g] /\ ~ failed /\ Len(buffer) < BufferSize
      /\ buffer' = Append(buffer, p) /\ put' = put + 1
      /\ UNCHANGED <<starts, isOpen, csv, ready, mu, row, failed, file, size, calls>>
  BY DEF Put, Goes, Inside
<1>2. /\ TypeOK /\ Quiet /\ FileInOrder /\ InOrder(Stream) /\ WriterOK(g)
      /\ file \in Seq(PieceType) /\ buffer \in Seq(PieceType)
      /\ starts \in Nat /\ row \in Nat /\ put \in Nat
  BY <1>1, InsideFacts DEF TypeOK
<1>3. size[g] \in Nat /\ row # 0
  BY <1>2, LootLogAssumption DEF TypeOK, WriterOK
<1>4. /\ p.start = starts /\ p.row = row /\ p.part = put + 1
      /\ p.last = (put + 1 = size[g])
  BY PieceFields
<1>5. p \in PieceType
  BY <1>2, <1>3 DEF Piece, PieceType
<1>6. Stream # <<>> /\ Follows(Stream[Len(Stream)], p)
  <2> DEFINE q == Stream[Len(Stream)]
  <2>1. CASE put = 0
    <3>1. EndsWith(row - 1, 0, TRUE)
      BY <1>2, <2>1 DEF WriterOK
    <3>2. Stream # <<>> /\ q.start = starts /\ q.row = row - 1 /\ q.last
      BY <3>1 DEF EndsWith
    <3>3. p.row = q.row + 1 /\ p.part = 1
      BY <1>2, <1>3, <1>4, <2>1, <3>2
    <3> HIDE DEF p, q
    <3>4. Follows(q, p)
      BY <1>4, <3>2, <3>3 DEF Follows
    <3> QED
      BY <3>2, <3>4 DEF q
  <2>2. CASE put # 0
    <3>1. EndsWith(row, put, put = size[g])
      BY <1>2, <2>2, Zenon DEF WriterOK
    <3>2. put # size[g]
      BY <1>1, <1>2, <1>3
    <3>3. Stream # <<>> /\ q.start = starts /\ q.row = row /\ q.part = put /\ ~ q.last
      BY <3>1, <3>2, Zenon DEF EndsWith
    <3> HIDE DEF p, q
    <3>4. Follows(q, p)
      BY <1>4, <3>3 DEF Follows
    <3> QED
      BY <3>3, <3>4 DEF q
  <2> QED
    BY <2>1, <2>2
<1> HIDE DEF p
<1>7. /\ Stream' # <<>> /\ InOrder(Stream') /\ Stream'[Len(Stream')] = p
  <2>1. Stream' = file \o Append(buffer, p)
    BY <1>1 DEF Stream
  <2> QED
    BY <1>2, <1>5, <1>6, <2>1, OneMorePiece DEF Stream
<1>8. EndsWith(row, put, put = size[g])'
  <2>1. /\ Stream'[Len(Stream')].start = starts' /\ Stream'[Len(Stream')].row = row'
        /\ Stream'[Len(Stream')].part = put'
    BY <1>1, <1>4, <1>7
  <2>2. Stream'[Len(Stream')].last = (put' = size'[g])
    BY <1>1, <1>4, <1>7, Zenon
  <2> QED
    BY <1>7, <2>1, <2>2, Zenon DEF EndsWith
<1>9. WriterOK(g)'
  <2>1. /\ size'[g] # 0 /\ put' <= size'[g] /\ row' # 0 /\ put' # 0
        /\ pc'[g] = "write"
    BY <1>1, <1>2, <1>3 DEF Goes, TypeOK
  <2> QED
    BY <1>8, <2>1, Zenon DEF WriterOK
<1>10. /\ buffer' \in Seq(PieceType) /\ Len(buffer') <= BufferSize
       /\ \A j \in DOMAIN buffer' : buffer'[j].start <= starts
  <2>1. /\ buffer' \in Seq(PieceType) /\ Len(buffer') = Len(buffer) + 1
        /\ \A j \in 1 .. Len(buffer) : buffer'[j] = buffer[j]
        /\ buffer'[Len(buffer) + 1] = p
    BY <1>1, <1>2, <1>5, AppendProperties
  <2>2. /\ Len(buffer) \in Nat /\ DOMAIN buffer = 1 .. Len(buffer)
        /\ DOMAIN buffer' = 1 .. Len(buffer')
    BY <1>2, <2>1, LenProperties
  <2>3. ASSUME NEW j \in DOMAIN buffer' PROVE buffer'[j].start <= starts
    <3>1. j \in 1 .. Len(buffer) \/ j = Len(buffer) + 1
      BY <2>1, <2>2
    <3> QED
      BY <1>2, <1>4, <2>1, <2>2, <3>1 DEF Quiet
  <2> QED
    BY <1>1, <2>1, <2>2, <2>3, LootLogAssumption
<1> QED
  <2>1. \A j \in DOMAIN file' : file'[j].start <= starts
    BY <1>1, <1>2 DEF Quiet
  <2>2. InOrder(file') /\ failed' \in BOOLEAN /\ put' \in Nat /\ "write" \in Inside
    BY <1>1, <1>2 DEF FileInOrder, TypeOK, Inside
  <2> QED
    BY <1>1, <1>2, <1>7, <1>9, <1>10, <2>1, <2>2, InsideStep

(* What writing the buffer out leaves when g is inside.                    *)
LEMMA InsideWriteOut ==
  ASSUME LInv, NEW g \in Caller, pc[g] \in Inside, ~ failed, WriteOut(buffer)
  PROVE  /\ file' \in Seq(PieceType) /\ buffer' \in Seq(PieceType)
         /\ Len(buffer') <= BufferSize /\ failed' \in BOOLEAN
         /\ \A j \in DOMAIN file' : file'[j].start <= starts
         /\ \A j \in DOMAIN buffer' : buffer'[j].start <= starts
         /\ InOrder(file')
         /\ ~ failed' => buffer' = <<>> /\ Stream' = Stream /\ InOrder(Stream')
<1>1. /\ file \in Seq(PieceType) /\ buffer \in Seq(PieceType)
      /\ Len(buffer) <= BufferSize /\ InOrder(Stream) /\ Quiet
  BY InsideFacts DEF TypeOK
<1>2. /\ file' \in Seq(PieceType) /\ buffer' \in Seq(PieceType)
      /\ failed' \in BOOLEAN /\ Len(buffer') <= Len(buffer)
      /\ \A j \in DOMAIN file' : file'[j].start <= starts
      /\ \A j \in DOMAIN buffer' : buffer'[j].start <= starts
      /\ InOrder(file \o buffer) => InOrder(file')
      /\ ~ failed' => buffer' = <<>> /\ file' = file \o buffer
  BY <1>1, WriteOutFacts DEF Quiet
<1>3. Len(buffer') <= BufferSize
  <2>1. Len(buffer') \in Nat /\ Len(buffer) \in Nat
    BY <1>1, <1>2, LenProperties
  <2> QED
    BY <1>1, <1>2, <2>1, LootLogAssumption
<1>4. ~ failed' => Stream' = Stream
  BY <1>2, ConcatEmptySeq DEF Stream
<1> QED
  BY <1>1, <1>2, <1>3, <1>4 DEF Stream

(* Spill preserves LInv: the buffer moves to the end of the file.          *)
LEMMA SpillStep ==
  ASSUME LInv, NEW g \in Caller, Spill(g) PROVE LInv'
<1>1. /\ pc[g] = "write" /\ pc[g] \in Inside /\ Goes(g, pc[g], "write")
      /\ put < size[g] /\ ~ failed /\ WriteOut(buffer)
      /\ UNCHANGED <<starts, isOpen, csv, ready, mu, row, put, size, calls>>
  BY DEF Spill, Goes, Inside, sink
<1>2. TypeOK /\ put \in Nat /\ WriterOK(g) /\ pc'[g] = "write" /\ "write" \in Inside
  BY <1>1, InsideFacts DEF TypeOK, Goes, Inside
<1>3. ASSUME ~ failed' PROVE WriterOK(g)'
  <2>1. Stream' = Stream
    BY <1>1, <1>3, InsideWriteOut
  <2>2. IF put' = 0 THEN EndsWith(row - 1, 0, TRUE)'
                    ELSE EndsWith(row, put, put = size[g])'
    <3>1. CASE put = 0
      <4>1. EndsWith(row - 1, 0, TRUE)
        BY <1>2, <3>1 DEF WriterOK
      <4> QED
        BY <1>1, <2>1, <3>1, <4>1 DEF EndsWith
    <3>2. CASE put # 0
      <4>1. EndsWith(row, put, put = size[g])
        BY <1>2, <3>2, Zenon DEF WriterOK
      <4> QED
        BY <1>1, <2>1, <3>2, <4>1, Zenon DEF EndsWith
    <3> QED
      BY <3>1, <3>2
  <2> QED
    BY <1>1, <1>2, <2>2, Zenon DEF WriterOK
<1> QED
  BY <1>1, <1>2, <1>3, InsideWriteOut, InsideStep

(* What the steps of g inside that write nothing leave as it is.           *)
LEMMA StillStream ==
  ASSUME LInv, NEW g \in Caller, pc[g] \in Inside,
         UNCHANGED <<starts, file, buffer, failed>>
  PROVE  /\ file' \in Seq(PieceType) /\ buffer' \in Seq(PieceType)
         /\ Len(buffer') <= BufferSize /\ failed' \in BOOLEAN
         /\ \A j \in DOMAIN file' : file'[j].start <= starts
         /\ \A j \in DOMAIN buffer' : buffer'[j].start <= starts
         /\ InOrder(file')
         /\ Stream' = Stream
         /\ ~ failed' => InOrder(Stream')
<1>1. TypeOK /\ Quiet /\ FileInOrder /\ (~ failed => InOrder(Stream))
  BY InsideFacts
<1> QED
  BY <1>1 DEF TypeOK, Quiet, FileInOrder, Stream

(* Written preserves LInv: the row is complete, or the writer has failed.  *)
LEMMA WrittenStep ==
  ASSUME LInv, NEW g \in Caller, Written(g) PROVE LInv'
<1>1. /\ pc[g] = "write" /\ pc[g] \in Inside /\ Goes(g, pc[g], "flush")
      /\ put = size[g] \/ failed
      /\ UNCHANGED <<starts, isOpen, csv, ready, mu, row, put, size, calls>>
      /\ UNCHANGED <<buffer, failed, file>>
  BY DEF Written, Goes, Inside, sink, writer
<1>2. TypeOK /\ put \in Nat /\ pc'[g] = "flush" /\ "flush" \in Inside
  BY <1>1, InsideFacts DEF TypeOK, Goes, Inside
<1>3. ASSUME ~ failed' PROVE WriterOK(g)'
  <2>1. /\ WriterOK(g) /\ put = size[g] /\ size[g] # 0 /\ put <= size[g] /\ row # 0
    BY <1>1, <1>3, InsideFacts DEF WriterOK
  <2>2. EndsWith(row, put, put = size[g])
    BY <2>1, Zenon DEF WriterOK
  <2>3. Stream' = Stream
    BY <1>1, StillStream
  <2>4. EndsWith(row, put, put = size[g])'
    BY <1>1, <2>2, <2>3, Zenon DEF EndsWith
  <2> QED
    BY <1>1, <1>2, <2>1, <2>4, Zenon DEF WriterOK
<1> QED
  BY <1>1, <1>2, <1>3, StillStream, InsideStep

(* Flush preserves LInv: the complete row is in the file.                  *)
LEMMA FlushStep ==
  ASSUME LInv, NEW g \in Caller, Flush(g) PROVE LInv'
<1>1. /\ pc[g] = "flush" /\ pc[g] \in Inside /\ Goes(g, pc[g], "unlock")
      /\ IF failed THEN UNCHANGED writer ELSE WriteOut(buffer)
      /\ UNCHANGED <<starts, isOpen, csv, ready, mu, row, put, size, calls>>
  BY DEF Flush, Goes, Inside, sink
<1>2. TypeOK /\ put \in Nat /\ pc'[g] = "unlock" /\ "unlock" \in Inside
  BY <1>1, InsideFacts DEF TypeOK, Goes, Inside
<1>3. CASE failed
  <2>1. UNCHANGED <<file, buffer, failed>>
    BY <1>1, <1>3 DEF writer
  <2>2. failed'
    BY <1>3, <2>1
  <2> QED
    BY <1>1, <1>2, <2>1, <2>2, StillStream, InsideStep
<1>4. CASE ~ failed
  <2>1. WriteOut(buffer)
    BY <1>1, <1>4
  <2>2. ASSUME ~ failed' PROVE WriterOK(g)'
    <3>1. WriterOK(g) /\ put = size[g] /\ size[g] # 0 /\ put <= size[g] /\ row # 0
      BY <1>1, <1>4, InsideFacts DEF WriterOK
    <3>2. EndsWith(row, put, put = size[g])
      BY <3>1, Zenon DEF WriterOK
    <3>3. Stream' = Stream /\ buffer' = <<>>
      BY <1>1, <1>4, <2>1, <2>2, InsideWriteOut
    <3>4. EndsWith(row, put, put = size[g])'
      BY <1>1, <3>2, <3>3, Zenon DEF EndsWith
    <3> QED
      BY <1>1, <1>2, <3>1, <3>3, <3>4, Zenon DEF WriterOK
  <2> QED
    BY <1>1, <1>2, <1>4, <2>1, <2>2, InsideWriteOut, InsideStep
<1> QED
  BY <1>3, <1>4

(* Unlock preserves LInv: the next caller finds the last row complete.     *)
LEMMA UnlockStep ==
  ASSUME LInv, NEW g \in Caller, Unlock(g) PROVE LInv'
<1>1. /\ pc[g] = "unlock" /\ pc[g] \in Inside
      /\ pc' = [pc EXCEPT ![g] = "idle"] /\ mu' = NoOne
      /\ UNCHANGED <<starts, isOpen, csv, ready, row, put, size, calls>>
      /\ UNCHANGED <<buffer, failed, file>>
  BY DEF Unlock, Goes, Inside, writer
<1>2. /\ TypeOK /\ Quiet /\ FileInOrder /\ csv /\ ready /\ mu = g
      /\ \A h \in Caller : pc[h] \in Inside => h = g
      /\ ~ failed => InOrder(Stream) /\ WriterOK(g)
  BY <1>1, InsideFacts
<1>3. pc'[g] = "idle" /\ \A h \in Caller \ {g} : pc'[h] = pc[h]
  BY <1>1, <1>2 DEF TypeOK
<1>4. TypeOK'
  BY <1>1, <1>2 DEF TypeOK
<1>5. Exclusive'
  BY <1>1, <1>2, <1>3, LootLogAssumption DEF Exclusive, Inside
<1>6. Quiet' /\ FileInOrder'
  BY <1>1, <1>2 DEF Quiet, FileInOrder
<1>7. StreamOK'
  <2>1. SUFFICES ASSUME ~ failed PROVE StreamOK'
    BY <1>1 DEF StreamOK
  <2>2. put = size[g] /\ size[g] # 0 /\ buffer = <<>>
    BY <1>1, <1>2, <2>1 DEF WriterOK
  <2>3. EndsWith(row, put, put = size[g])
    BY <1>2, <2>1, <2>2, Zenon DEF WriterOK
  <2>4. EndsWith(row, 0, TRUE)
    BY <2>2, <2>3, Zenon DEF EndsWith
  <2>5. InOrder(Stream)' /\ EndsWith(row, 0, TRUE)'
    BY <1>1, <1>2, <2>1, <2>4 DEF Stream, EndsWith, InOrder
  <2> QED
    BY <1>1, <2>2, <2>5, LootLogAssumption DEF StreamOK
<1>8. \A h \in Caller : pc'[h] = "lock" => size'[h] # 0
  BY <1>1, <1>3 DEF LInv
<1> QED
  BY <1>4, <1>5, <1>6, <1>7, <1>8 DEF LInv

(* Close preserves LInv: it is about no state of the file.                 *)
LEMMA CloseStep ==
  ASSUME LInv, Close PROVE LInv'
<1>1. /\ isOpen' = FALSE
      /\ UNCHANGED <<starts, csv, ready, mu, row, put, buffer, failed, file>>
      /\ UNCHANGED <<pc, size, calls>>
  BY DEF Close, sink, writer, callers
<1>2. TypeOK'
  BY <1>1 DEF LInv, TypeOK
<1>3. Exclusive' /\ Quiet' /\ FileInOrder'
  BY <1>1 DEF LInv, Exclusive, Quiet, FileInOrder
<1>4. StreamOK'
  <2>1. ASSUME NEW h \in Caller, WriterOK(h) PROVE WriterOK(h)'
    BY <1>1, <2>1 DEF WriterOK, EndsWith, Stream
  <2> QED
    BY <1>1, <2>1 DEF LInv, StreamOK, EndsWith, Stream
<1> QED
  BY <1>1, <1>2, <1>3, <1>4 DEF LInv

(* Restart preserves LInv: everything in the file is older now.            *)
LEMMA RestartStep ==
  ASSUME LInv, Restart PROVE LInv'
<1>1. /\ starts' = starts + 1 /\ ready' = FALSE /\ isOpen' = TRUE /\ mu' = NoOne
      /\ pc' = [h \in Caller |-> "idle"] /\ row' = 0 /\ put' = 0
      /\ buffer' = <<>> /\ failed' = FALSE /\ UNCHANGED <<csv, file, size, calls>>
  BY DEF Restart
<1>2. TypeOK /\ Quiet /\ FileInOrder
  BY DEF LInv
<1>3. <<>> \in Seq(PieceType) /\ Len(<<>>) = 0 /\ ~ ready' /\ ~ failed'
  BY <1>1, EmptySeq
<1>4. TypeOK'
  <2>1. /\ ready' \in BOOLEAN /\ isOpen' \in BOOLEAN /\ failed' \in BOOLEAN
        /\ csv' \in BOOLEAN
    BY <1>1, <1>2, Zenon DEF TypeOK
  <2>2. /\ starts' \in Nat \ {0} /\ calls' \in Nat /\ row' \in Nat /\ put' \in Nat
        /\ mu' \in Caller \cup {NoOne} /\ size' \in [Caller -> RowSizes \cup {0}]
        /\ pc' \in [Caller -> {"idle", "lock", "write", "flush", "unlock"}]
    BY <1>1, <1>2 DEF TypeOK
  <2>3. /\ buffer' \in Seq(PieceType) /\ Len(buffer') <= BufferSize
        /\ file' \in Seq(PieceType)
    BY <1>1, <1>2, <1>3, LootLogAssumption DEF TypeOK
  <2> QED
    BY <2>1, <2>2, <2>3, Zenon DEF TypeOK
<1>5. Exclusive'
  BY <1>1, LootLogAssumption DEF Exclusive, Inside
<1>6. Quiet'
  <2>1. \A j \in DOMAIN file : file[j].start < starts + 1 /\ file[j].start <= starts + 1
    <3>1. ASSUME NEW j \in DOMAIN file PROVE file[j].start \in Nat
      <4>1. file \in Seq(PieceType) /\ j \in 1 .. Len(file)
        BY <1>2, <3>1, LenProperties DEF TypeOK
      <4>2. file[j] \in PieceType
        BY <4>1, ElementOfSeq
      <4> QED
        BY <4>2 DEF PieceType
    <3> QED
      BY <1>2, <3>1 DEF TypeOK, Quiet
  <2> QED
    BY <1>1, <1>3, <2>1 DEF Quiet
<1>7. FileInOrder' /\ StreamOK'
  BY <1>1, <1>2, <1>3 DEF FileInOrder, StreamOK
<1> QED
  BY <1>1, <1>4, <1>5, <1>6, <1>7 DEF LInv

(* Every step preserves LInv.                                              *)
LEMMA LInvNext ==
  ASSUME LInv, [Next]_vars PROVE LInv'
<1>1. CASE NewLogSink
  BY <1>1, NewLogSinkStep
<1>2. ASSUME NEW g \in Caller, NEW s \in RowSizes, OnLoot(g, s) PROVE LInv'
  BY <1>2, OnLootStep
<1>3. ASSUME NEW g \in Caller, Lock(g) PROVE LInv'
  BY <1>3, LockStep
<1>4. ASSUME NEW g \in Caller, Work(g) PROVE LInv'
  BY <1>4, PutStep, SpillStep, WrittenStep, FlushStep, UnlockStep DEF Work
<1>5. CASE Close
  BY <1>5, CloseStep
<1>6. CASE Restart
  BY <1>6, RestartStep
<1>7. CASE UNCHANGED vars
  <2>1. /\ UNCHANGED <<starts, isOpen, csv, ready, mu, row, put, buffer, failed, file>>
        /\ UNCHANGED <<pc, size, calls>>
    BY <1>7 DEF vars, sink, writer, callers
  <2>2. TypeOK'
    BY <2>1 DEF LInv, TypeOK
  <2>3. Exclusive' /\ Quiet' /\ FileInOrder'
    BY <2>1 DEF LInv, Exclusive, Quiet, FileInOrder
  <2>4. StreamOK'
    <3>1. ASSUME NEW h \in Caller, WriterOK(h) PROVE WriterOK(h)'
      BY <2>1, <3>1 DEF WriterOK, EndsWith, Stream
    <3> QED
      BY <2>1, <3>1 DEF LInv, StreamOK, EndsWith, Stream
  <2> QED
    BY <2>1, <2>2, <2>3, <2>4 DEF LInv
<1> QED
  BY <1>1, <1>2, <1>3, <1>4, <1>5, <1>6, <1>7 DEF Next

-----------------------------------------------------------------------------
(* The theorems.                                                           *)

(* LInv is an invariant of the sink.                                       *)
THEOREM Invariant == Spec => []LInv
  BY LInvInit, LInvNext, PTL DEF Spec

(* The state stays typed, and the buffer never holds more than it can.     *)
THEOREM TypeCorrect == Spec => []TypeOK
<1>1. LInv => TypeOK
  BY DEF LInv
<1> QED
  BY <1>1, Invariant, PTL

(* Rows never mix and nothing follows a torn row (sink.go:131-166).        *)
THEOREM FileStaysInOrder == Spec => []FileInOrder
<1>1. LInv => FileInOrder
  BY DEF LInv
<1> QED
  BY <1>1, Invariant, PTL

(* A call that has returned has its row in the file (sink.go:143-144).     *)
THEOREM RowsAreDurable == Spec => []Durable
<1>1. ASSUME LInv PROVE Durable
  <2>1. SUFFICES ASSUME csv, ready, mu = NoOne, ~ failed
                 PROVE  /\ file # <<>> /\ Last(file).start = starts
                        /\ Last(file).row = row /\ Last(file).last
    BY DEF Durable
  <2>2. TypeOK /\ buffer = <<>> /\ EndsWith(row, 0, TRUE)
    BY <1>1, <2>1 DEF LInv, StreamOK
  <2>3. Stream = file
    BY <2>2, StreamFacts
  <2> QED
    BY <2>2, <2>3 DEF EndsWith, Last
<1> QED
  BY <1>1, Invariant, PTL

-----------------------------------------------------------------------------
(* The refinement of RowLog.                                               *)

(* The whole rows of a sequence of pieces, and what the log holds of them. *)
RowNumber == [p \in PieceType |-> <<p.start, p.row>>]

LEMMA WholeRowsFacts ==
  ASSUME NEW f \in Seq(PieceType)
  PROVE  /\ Filtered(f, WholePiece) \in Seq(PieceType)
         /\ [j \in DOMAIN Filtered(f, WholePiece) |->
               <<Filtered(f, WholePiece)[j].start, Filtered(f, WholePiece)[j].row>>]
             = Mapped(Filtered(f, WholePiece), RowNumber)
<1> DEFINE w == Filtered(f, WholePiece)
           A == PieceType \cap WholePiece
<1>1. w \in Seq(A)
  BY FilteredType
<1>2. A \subseteq PieceType
  OBVIOUS
<1> HIDE DEF w, A
<1>3. w \in Seq(PieceType)
  BY <1>1, <1>2, SeqMonotonic
<1>4. \A j \in DOMAIN w : w[j] \in PieceType
  BY <1>3, LenProperties, ElementOfSeq
<1>5. [j \in DOMAIN w |-> <<w[j].start, w[j].row>>] = Mapped(w, RowNumber)
  BY <1>4 DEF Mapped, RowNumber
<1> QED
  BY <1>3, <1>5 DEF w

(* A sequence of pieces of which none is the last of its row has no rows.  *)
LEMMA NoWholeRow ==
  ASSUME NEW c \in Seq(PieceType), \A j \in DOMAIN c : ~ c[j].last
  PROVE  Filtered(c, WholePiece) = <<>>
<1> DEFINE A == {p \in PieceType : ~ p.last}
<1>1. c \in Seq(A)
  <2>1. Len(c) \in Nat /\ DOMAIN c = 1 .. Len(c) /\ c \in [1 .. Len(c) -> PieceType]
    BY LenProperties
  <2>2. c \in [1 .. Len(c) -> A]
    BY <2>1
  <2> HIDE DEF A
  <2> QED
    BY <2>1, <2>2
<1>2. A \cap WholePiece = {}
  BY DEF WholePiece
<1> HIDE DEF A
<1> QED
  BY <1>1, <1>2, FilteredNone

(* A piece that is the last of its row is a whole row.                     *)
LEMMA LastPieceWhole ==
  ASSUME NEW p \in PieceType
  PROVE  p.last <=> p \in WholePiece
<1>1. p.start \in Nat /\ p.row \in Nat /\ p.part \in Nat \ {0} /\ p.last \in BOOLEAN
  BY DEF PieceType
<1>2. p = [start |-> p.start, row |-> p.row, part |-> p.part, last |-> p.last]
  BY DEF PieceType
<1> QED
  BY <1>1, <1>2 DEF WholePiece

(* What writing out the pieces of one row does to the whole rows of the    *)
(* file: the row is added if its last piece was written, else nothing.     *)
LEMMA WriteOutRows ==
  ASSUME file \in Seq(PieceType), NEW b \in Seq(PieceType), WriteOut(b), OfRow(b)
  PROVE  \/ /\ WholeRows' = WholeRows
            /\ failed' \/ b = <<>> \/ ~ b[Len(b)].last
         \/ /\ ~ failed' /\ b # <<>> /\ b[Len(b)].last
            /\ WholeRows' = Append(WholeRows, b[Len(b)])
<1>1. PICK n \in 0 .. Len(b) :
        file' = file \o SubSeq(b, 1, n) /\ failed' = (n < Len(b))
  BY DEF WriteOut
<1> DEFINE c == SubSeq(b, 1, n)
<1>8. Len(b) \in Nat /\ (b = <<>> => Len(b) = 0)
  BY LenProperties, EmptySeq
<1>2. DOMAIN b = 1 .. Len(b) /\ \A i \in 1 .. Len(b) : b[i] \in PieceType
  BY LenProperties, ElementOfSeq
<1>3. c \in Seq(PieceType) /\ Len(c) = n /\ \A i \in 1 .. n : c[i] = b[i]
  BY <1>2, <1>8, SubSeqProperties
<1>4. WholeRows' = WholeRows \o Filtered(c, WholePiece)
  <2>1. file' = file \o c
    BY <1>1
  <2> HIDE DEF c
  <2> QED
    BY <1>3, <2>1, FilteredConcat DEF WholeRows
<1>5. WholeRows \in Seq(PieceType)
  BY WholeRowsFacts DEF WholeRows
<1>6. CASE n < Len(b) \/ b = <<>> \/ ~ b[Len(b)].last
  <2>1. \A j \in DOMAIN c : ~ c[j].last
    <3>1. DOMAIN c = 1 .. n
      <4> HIDE DEF c
      <4> QED
        BY <1>3, LenProperties
    <3>2. ASSUME NEW j \in 1 .. n PROVE ~ c[j].last
      <4>1. c[j] = b[j] /\ j \in DOMAIN b
        BY <1>2, <1>3, <1>8
      <4>2. b[j].last => j = Len(b)
        BY <4>1 DEF OfRow
      <4>3. b # <<>> /\ (n < Len(b) => j # Len(b))
        BY <1>8, <3>2
      <4> HIDE DEF c
      <4>4. ~ b[j].last
        BY <1>6, <4>2, <4>3, Zenon
      <4> QED
        BY <4>1, <4>4, Zenon
    <3> HIDE DEF c
    <3> QED
      BY <3>1, <3>2
  <2>2. Filtered(c, WholePiece) = <<>>
    <3> HIDE DEF c
    <3> QED
      BY <1>3, <2>1, NoWholeRow
  <2>3. WholeRows' = WholeRows
    <3> HIDE DEF c
    <3> QED
      BY <1>4, <1>5, <2>2, ConcatEmptySeq
  <2> QED
    BY <1>1, <1>6, <2>3
<1>7. CASE n = Len(b) /\ b # <<>> /\ b[Len(b)].last
  <2>1. c = b
    BY <1>7, SubSeqFull
  <2>2. PICK a \in Seq(PieceType), p \in PieceType : b = Append(a, p)
    BY <1>7, SequenceEmptyOrAppend
  <2>3. /\ Len(a) \in Nat /\ Len(b) = Len(a) + 1 /\ DOMAIN a = 1 .. Len(a)
        /\ \A j \in 1 .. Len(a) : b[j] = a[j]
        /\ b[Len(b)] = p
    BY <2>2, AppendProperties, LenProperties
  <2>4. \A j \in DOMAIN a : ~ a[j].last
    <3>1. ASSUME NEW j \in 1 .. Len(a) PROVE ~ a[j].last
      <4>1. j \in DOMAIN b /\ j # Len(b)
        BY <1>2, <1>8, <2>3
      <4> QED
        BY <2>3, <4>1 DEF OfRow
    <3> QED
      BY <2>3, <3>1
  <2>5. Filtered(a, WholePiece) = <<>>
    BY <2>4, NoWholeRow
  <2>6. p \in WholePiece
    BY <1>7, <2>3, LastPieceWhole
  <2>7. Filtered(b, WholePiece) = Append(<<>>, p)
    BY <2>2, <2>5, <2>6, FilteredAppend
  <2>8. WholeRows' = WholeRows \o <<p>>
    <3> HIDE DEF c
    <3> QED
      BY <1>4, <2>1, <2>7
  <2>9. WholeRows' = Append(WholeRows, p)
    BY <1>5, <2>8, AppendIsConcat
  <2>10. ~ failed'
    <3>1. ~ (n < Len(b))
      BY <1>7, <1>8
    <3> QED
      BY <1>1, <3>1, Zenon
  <2> QED
    BY <1>7, <2>3, <2>9, <2>10
<1> QED
  <2>1. n < Len(b) \/ n = Len(b)
    BY <1>8
  <2> HIDE DEF c
  <2> QED
    BY <1>6, <1>7, <2>1, Zenon

(* What a row more at the end of the whole rows means for the row to come. *)
LEMMA RowAdded ==
  ASSUME WholeRows \in Seq(PieceType), NEW p \in PieceType,
         WholeRows' = Append(WholeRows, p), p.start = starts, starts' = starts
  PROVE  RowToCome' = p.row + 1
<1>1. /\ Append(WholeRows, p) # <<>>
      /\ Append(WholeRows, p)[Len(Append(WholeRows, p))] = p
  BY AppendProperties
<1>2. Last(WholeRows)' = p /\ WholeRows' # <<>>
  BY <1>1 DEF Last
<1> QED
  BY <1>2 DEF RowToCome

(* A row at the end of the whole rows is RowLog's AppendRow.               *)
LEMMA RowAppended ==
  ASSUME file \in Seq(PieceType), file' \in Seq(PieceType), NEW p \in PieceType,
         WholeRows' = Append(WholeRows, p), p.start = starts, p.row = RowToCome,
         starts' = starts, ~ failed, ~ failed', failed' = failed
  PROVE  Rows!AppendRow
<1>1. /\ WholeRows \in Seq(PieceType)
      /\ [j \in DOMAIN WholeRows |-> <<WholeRows[j].start, WholeRows[j].row>>]
           = Mapped(WholeRows, RowNumber)
      /\ [j \in DOMAIN WholeRows |-> <<WholeRows[j].start, WholeRows[j].row>>]'
           = Mapped(WholeRows', RowNumber)
  BY WholeRowsFacts DEF WholeRows
<1>2. Mapped(WholeRows', RowNumber) = Append(Mapped(WholeRows, RowNumber), <<starts, RowToCome>>)
  <2>1. RowNumber[p] = <<starts, RowToCome>>
    BY DEF RowNumber
  <2>2. WholeRows \in Seq(PieceType)
    BY <1>1
  <2>3. Mapped(Append(WholeRows, p), RowNumber) = Append(Mapped(WholeRows, RowNumber), RowNumber[p])
    BY <2>2, MappedAppend
  <2> QED
    BY <2>1, <2>3
<1>3. RowToCome' = RowToCome + 1
  BY <1>1, RowAdded
<1> QED
  BY <1>1, <1>2, <1>3 DEF Rows!AppendRow

(* A write that fails is RowLog's Lose.                                    *)
LEMMA RowLost ==
  ASSUME WholeRows' = WholeRows, starts' = starts, ~ failed, failed' = TRUE
  PROVE  Rows!Lose
  BY DEF Rows!Lose, RowToCome

(* What touches neither the rows nor the writer is no step of RowLog.      *)
LEMMA RowsStill ==
  ASSUME WholeRows' = WholeRows, starts' = starts, failed' = failed
  PROVE  UNCHANGED Rows!lvars
  BY DEF Rows!lvars, RowToCome

(* The last whole row is of this start or an older one, and of an older    *)
(* one before NewLogSink.                                                  *)
LEMMA LastRow ==
  ASSUME TypeOK, Quiet
  PROVE  /\ WholeRows # <<>> => Last(WholeRows) \in PieceType /\ Last(WholeRows).start <= starts
         /\ ~ ready => RowToCome = 0
<1>1. /\ file \in Seq(PieceType) /\ Len(file) \in Nat /\ DOMAIN file = 1 .. Len(file)
      /\ file \in [1 .. Len(file) -> PieceType]
  BY LenProperties DEF TypeOK
<1> DEFINE A == {p \in PieceType : p.start <= starts}
           B == {p \in PieceType : p.start < starts}
<1>2. file \in Seq(A)
  <2>1. file \in [1 .. Len(file) -> A]
    BY <1>1 DEF Quiet
  <2> HIDE DEF A
  <2> QED
    BY <1>1, <2>1
<1>3. ~ ready => file \in Seq(B)
  <2>1. ~ ready => file \in [1 .. Len(file) -> B]
    BY <1>1 DEF Quiet
  <2> HIDE DEF B
  <2> QED
    BY <1>1, <2>1
<1>4. ASSUME NEW C, file \in Seq(C), WholeRows # <<>> PROVE Last(WholeRows) \in C
  <2> DEFINE D == C \cap WholePiece
  <2>1. WholeRows \in Seq(D)
    BY <1>4, FilteredType DEF WholeRows
  <2>2. D \subseteq C
    OBVIOUS
  <2> HIDE DEF D
  <2>3. Len(WholeRows) \in Nat \ {0}
    BY <1>4, <2>1, EmptySeq
  <2>4. WholeRows[Len(WholeRows)] \in D
    BY <2>1, <2>3, ElementOfSeq
  <2> QED
    BY <2>2, <2>4 DEF Last
<1>5. WholeRows # <<>> => Last(WholeRows) \in PieceType /\ Last(WholeRows).start <= starts
  <2>1. WholeRows # <<>> => Last(WholeRows) \in A
    <3> HIDE DEF A
    <3> QED
      BY <1>2, <1>4
  <2> QED
    BY <2>1
<1>6. ASSUME ~ ready PROVE RowToCome = 0
  <2>1. WholeRows # <<>> => Last(WholeRows) \in B
    <3> HIDE DEF B
    <3> QED
      BY <1>3, <1>4, <1>6
  <2>2. WholeRows # <<>> => Last(WholeRows).start # starts
    <3>1. starts \in Nat
      BY DEF TypeOK
    <3>2. WholeRows # <<>> => Last(WholeRows).start \in Nat /\ Last(WholeRows).start < starts
      BY <2>1 DEF PieceType
    <3> QED
      BY <3>1, <3>2
  <2> QED
    BY <2>2 DEF RowToCome
<1> QED
  BY <1>5, <1>6

(* The last piece of the buffer is the last one of the file behind which   *)
(* it stands.                                                              *)
LEMMA BufferEnd ==
  ASSUME TypeOK, buffer # <<>>
  PROVE  Stream[Len(Stream)] = buffer[Len(buffer)] /\ Len(buffer) \in DOMAIN buffer
         /\ buffer[Len(buffer)] \in PieceType
<1>1. file \in Seq(PieceType) /\ buffer \in Seq(PieceType)
  BY DEF TypeOK
<1>2. Len(file) \in Nat /\ Len(buffer) \in Nat \ {0} /\ DOMAIN buffer = 1 .. Len(buffer)
  BY <1>1, LenProperties, EmptySeq
<1>3. /\ Len(file \o buffer) = Len(file) + Len(buffer)
      /\ \A i \in 1 .. Len(file) + Len(buffer) :
           (file \o buffer)[i] = IF i <= Len(file) THEN file[i] ELSE buffer[i - Len(file)]
  BY <1>1, ConcatProperties
<1>4. buffer[Len(buffer)] \in PieceType
  BY <1>1, <1>2, ElementOfSeq
<1> QED
  BY <1>2, <1>3, <1>4 DEF Stream

RowsStep == Rows!Next \/ UNCHANGED Rows!lvars

(* NewLogSink appends row 0, the header.                                   *)
LEMMA NewLogSinkRows ==
  ASSUME RInv, NewLogSink PROVE RowsOK' /\ RowsStep
<1>1. /\ TypeOK /\ Quiet /\ FileInOrder /\ ~ ready /\ \A g \in Caller : pc[g] = "idle"
      /\ row = 0 /\ buffer = <<>> /\ ~ failed
  BY DEF RInv, LInv, NewLogSink, Quiet
<1>2. UNCHANGED <<starts, csv, mu, row, put, pc, size>> /\ ready'
  BY DEF NewLogSink, callers
<1>3. RowToCome = 0 /\ file \in Seq(PieceType)
  BY <1>1, LastRow DEF TypeOK
<1>4. CASE csv
  <2>1. WriteOut(Header)
    BY <1>4 DEF NewLogSink
  <2>2. /\ starts \in Nat /\ InOrder(file)
        /\ \A j \in DOMAIN file : file[j].start < starts
    BY <1>1 DEF TypeOK, Quiet, FileInOrder
  <2>3. /\ Header \in Seq(PieceType) /\ Len(Header) = HeaderSize
        /\ InOrder(file \o Header)
        /\ \A j \in DOMAIN Header : Header[j].start = starts
    BY <1>3, <2>2, HeaderBehind
  <2>4. HeaderSize \in Nat /\ HeaderSize >= 1
    BY LootLogAssumption
  <2>5. DOMAIN Header = 1 .. HeaderSize /\ HeaderSize \in DOMAIN Header
        /\ \A j \in DOMAIN Header : Header[j] = Piece(0, j, HeaderSize)
    BY <2>4 DEF Header
  <2> DEFINE p == Header[Len(Header)]
  <2>6. p = Piece(0, HeaderSize, HeaderSize)
    BY <2>3, <2>5
  <2>7. p \in PieceType
    <3>1. Len(Header) \in 1 .. Len(Header)
      BY <2>3, <2>4
    <3> QED
      BY <2>3, <3>1, ElementOfSeq
  <2>8. p.start = starts /\ p.row = 0
    BY <2>6, PieceFields
  <2>9. p.last
    <3>1. p.last = (HeaderSize = HeaderSize)
      BY <2>6, PieceFields
    <3> QED
      BY <3>1, Zenon
  <2>10. OfRow(Header)
    <3>1. ASSUME NEW j \in DOMAIN Header
          PROVE  /\ Header[j].start = starts /\ Header[j].row = row
                 /\ Header[j].last => j = Len(Header)
      <4>1. Header[j].start = starts /\ Header[j].row = row
        BY <1>1, <2>5, PieceFields
      <4>2. Header[j].last = (j = HeaderSize)
        BY <2>5, PieceFields
      <4> QED
        BY <2>3, <4>1, <4>2, Zenon
    <3> QED
      BY <3>1 DEF OfRow
  <2>11. \/ WholeRows' = WholeRows /\ (failed' \/ Header = <<>> \/ ~ p.last)
         \/ ~ failed' /\ WholeRows' = Append(WholeRows, p)
    BY <1>3, <2>1, <2>3, <2>10, WriteOutRows
  <2>12. /\ file' \in Seq(PieceType) /\ failed' \in BOOLEAN /\ (~ failed' => buffer' = <<>>)
    <3>1. /\ \A j \in DOMAIN file : file[j].start <= starts
          /\ \A j \in DOMAIN Header : Header[j].start <= starts
      BY <1>1, <2>2, <2>3 DEF Quiet
    <3> QED
      BY <1>3, <2>1, <2>3, <3>1, WriteOutFacts
  <2>13. Header # <<>>
    BY <2>3, <2>4, EmptySeq
  <2> HIDE DEF p
  <2>14. CASE failed'
    <3>1. WholeRows' = WholeRows /\ failed' = TRUE
      BY <2>11, <2>12, <2>14, Zenon
    <3>2. Rows!Lose
      BY <1>1, <1>2, <3>1, RowLost
    <3> QED
      BY <2>14, <3>2 DEF RowsOK, RowsStep, Rows!Next
  <2>15. CASE ~ failed'
    <3>1. WholeRows' = Append(WholeRows, p)
      BY <2>9, <2>11, <2>13, <2>15, Zenon
    <3>2. failed' = failed
      BY <1>1, <2>12, <2>15, Zenon DEF TypeOK
    <3>3. Rows!AppendRow
      BY <1>1, <1>2, <1>3, <2>7, <2>8, <2>12, <2>15, <3>1, <3>2, RowAppended
    <3>4. RowToCome' = 1
      <4>1. WholeRows \in Seq(PieceType)
        BY <1>3, WholeRowsFacts DEF WholeRows
      <4>2. RowToCome' = p.row + 1
        BY <1>2, <2>7, <2>8, <3>1, <4>1, RowAdded
      <4> QED
        BY <2>8, <4>2
    <3>5. OfRow(buffer)'
      BY <2>12, <2>15 DEF OfRow
    <3>6. RowsOK'
      BY <1>1, <1>2, <3>4, <3>5 DEF RowsOK, Writing
    <3> QED
      BY <3>3, <3>6 DEF RowsStep, Rows!Next
  <2> QED
    BY <2>14, <2>15
<1>5. CASE ~ csv
  <2>1. UNCHANGED <<buffer, failed, file>>
    BY <1>5 DEF NewLogSink, writer
  <2>2. WholeRows' = WholeRows
    BY <2>1 DEF WholeRows
  <2>3. RowsStep
    BY <1>2, <2>1, <2>2, RowsStill DEF RowsStep
  <2> QED
    BY <1>2, <1>5, <2>3 DEF RowsOK
<1> QED
  BY <1>4, <1>5

(* A step that writes nothing is no step of RowLog.                        *)
LEMMA NothingWritten ==
  ASSUME UNCHANGED <<file, starts, failed>>
  PROVE  RowsStep /\ RowToCome' = RowToCome
<1>1. WholeRows' = WholeRows
  BY DEF WholeRows
<1> QED
  BY <1>1, RowsStill DEF RowsStep, RowToCome

(* A call that begins, and Close, touch no row.                            *)
LEMMA OnLootRows ==
  ASSUME RInv, NEW g \in Caller, NEW s \in RowSizes, OnLoot(g, s) PROVE RowsOK' /\ RowsStep
<1>1. /\ UNCHANGED <<starts, csv, ready, mu, row, put, buffer, failed, file>>
      /\ pc[g] = "idle" /\ pc'[g] \in {"lock", "idle"}
      /\ \A h \in Caller \ {g} : pc'[h] = pc[h] /\ size'[h] = size[h]
  BY DEF RInv, LInv, TypeOK, OnLoot, Goes, sink, writer
<1>2. RowsStep /\ RowToCome' = RowToCome
  BY <1>1, NothingWritten
<1>3. \A h \in Caller : /\ pc[h] \in Writing <=> pc'[h] \in Writing
                        /\ pc[h] \in Writing => size'[h] = size[h]
  BY <1>1 DEF Writing
<1>4. RowsOK'
  BY <1>1, <1>2, <1>3 DEF RInv, RowsOK, OfRow
<1> QED
  BY <1>2, <1>4

LEMMA CloseRows ==
  ASSUME RInv, Close PROVE RowsOK' /\ RowsStep
<1>1. UNCHANGED <<starts, csv, ready, row, put, buffer, failed, file, pc, size>>
  BY DEF Close, sink, writer, callers
<1>2. RowsStep /\ RowToCome' = RowToCome
  BY <1>1, NothingWritten
<1>3. RowsOK'
  BY <1>1, <1>2 DEF RInv, RowsOK, OfRow
<1> QED
  BY <1>2, <1>3

(* With the mutex comes the next row's number: nothing of it is buffered.  *)
LEMMA LockRows ==
  ASSUME RInv, NEW g \in Caller, Lock(g) PROVE RowsOK' /\ RowsStep
<1>1. /\ UNCHANGED <<starts, csv, ready, size, buffer, failed, file>>
      /\ pc[g] = "lock" /\ mu = NoOne /\ size[g] # 0 /\ put' = 0 /\ row' = row + 1
      /\ pc'[g] = "write" /\ \A h \in Caller \ {g} : pc'[h] = pc[h]
  BY DEF RInv, LInv, TypeOK, Lock, Goes, writer
<1>2. RowsStep /\ RowToCome' = RowToCome
  BY <1>1, NothingWritten
<1>3. \A h \in Caller : pc[h] \notin Writing
  BY <1>1, LootLogAssumption DEF RInv, LInv, Exclusive, Inside, Writing
<1>4. ASSUME csv, ready, ~ failed PROVE RowsOK'
  <2>1. RowToCome = row + 1 /\ buffer = <<>>
    BY <1>1, <1>3, <1>4 DEF RInv, RowsOK, LInv, StreamOK
  <2>2. OfRow(buffer)'
    BY <1>1, <2>1 DEF OfRow
  <2>3. \A h \in Caller : pc'[h] \in Writing => h = g
    BY <1>1, <1>3
  <2>4. pc'[g] \in Writing /\ put' # size'[g]
    BY <1>1 DEF Writing
  <2> QED
    BY <1>1, <1>2, <2>1, <2>2, <2>3, <2>4 DEF RowsOK
<1>5. RowsOK'
  BY <1>1, <1>4 DEF RowsOK
<1> QED
  BY <1>2, <1>5

(* What RInv says while g is inside and no write has failed.               *)
LEMMA InsideRows ==
  ASSUME RInv, NEW g \in Caller, pc[g] \in Inside, ~ failed
  PROVE  /\ TypeOK /\ Quiet /\ csv /\ ready /\ OfRow(buffer) /\ WriterOK(g)
         /\ \A h \in Caller : pc[h] \in Writing => h = g
         /\ pc[g] \in Writing => RowToCome = row /\ (put = size[g] => buffer # <<>>)
         /\ pc[g] \notin Writing => RowToCome = row + 1
<1>1. /\ TypeOK /\ Quiet /\ csv /\ ready /\ WriterOK(g)
      /\ \A h \in Caller : pc[h] \in Inside => h = g
  BY InsideFacts DEF RInv
<1>2. Writing \subseteq Inside
  BY DEF Writing, Inside
<1> QED
  BY <1>1, <1>2 DEF RInv, RowsOK

(* Put buffers one more piece of the row, the last one when it is complete.*)
LEMMA PutRows ==
  ASSUME RInv, NEW g \in Caller, Put(g) PROVE RowsOK' /\ RowsStep
<1> DEFINE p == Piece(row, put + 1, size[g])
<1>1. /\ pc[g] = "write" /\ pc'[g] = "write" /\ \A h \in Caller \ {g} : pc'[h] = pc[h]
      /\ put < size[g] /\ ~ failed
      /\ buffer' = Append(buffer, p) /\ put' = put + 1
      /\ UNCHANGED <<starts, csv, ready, row, failed, file, size>>
  BY DEF RInv, LInv, TypeOK, Put, Goes
<1>2. RowsStep /\ RowToCome' = RowToCome
  BY <1>1, NothingWritten
<1>3. /\ TypeOK /\ csv /\ ready /\ OfRow(buffer) /\ WriterOK(g) /\ RowToCome = row
      /\ \A h \in Caller : pc[h] \in Writing => h = g
  BY <1>1, InsideRows DEF Inside, Writing
<1>4. put \in Nat /\ size[g] \in Nat /\ row \in Nat /\ starts \in Nat /\ buffer \in Seq(PieceType)
  <2>1. size[g] \in RowSizes \/ size[g] = 0
    BY <1>3 DEF TypeOK
  <2>2. RowSizes \subseteq Nat
    BY LootLogAssumption
  <2>3. size[g] \in Nat
    <3>1. CASE size[g] \in RowSizes
      BY <2>2, <3>1
    <3>2. CASE size[g] = 0
      BY <3>2
    <3> QED
      BY <2>1, <3>1, <3>2
  <2> QED
    BY <1>3, <2>3 DEF TypeOK
<1>5. p.start = starts /\ p.row = row /\ p.last = (put + 1 = size[g])
  BY PieceFields
<1>6. p \in PieceType
  BY <1>4 DEF Piece, PieceType
<1>7. \A j \in DOMAIN buffer : ~ buffer[j].last
  <2>1. CASE buffer = <<>>
    BY <2>1
  <2>2. CASE buffer # <<>>
    <3>1. /\ Stream[Len(Stream)] = buffer[Len(buffer)] /\ Len(buffer) \in DOMAIN buffer
      BY <1>3, <2>2, BufferEnd
    <3>2. put # 0
      <4>1. ASSUME put = 0 PROVE FALSE
        <5>1. buffer[Len(buffer)].row = row - 1
          BY <1>3, <3>1, <4>1 DEF WriterOK, EndsWith
        <5>2. buffer[Len(buffer)].row = row
          BY <1>3, <3>1 DEF OfRow
        <5> QED
          BY <1>4, <5>1, <5>2
      <4> QED
        BY <4>1
    <3>3. EndsWith(row, put, put = size[g])
      BY <1>3, <3>2, Zenon DEF WriterOK
    <3>4. put # size[g]
      BY <1>1, <1>4
    <3>5. ~ buffer[Len(buffer)].last
      BY <3>1, <3>3, <3>4, Zenon DEF EndsWith
    <3> QED
      BY <1>3, <3>5, Zenon DEF OfRow
  <2> QED
    BY <2>1, <2>2
<1> HIDE DEF p
<1>8. /\ Len(buffer) \in Nat /\ Len(buffer') = Len(buffer) + 1
      /\ DOMAIN buffer = 1 .. Len(buffer) /\ DOMAIN buffer' = 1 .. Len(buffer) + 1
      /\ \A j \in 1 .. Len(buffer) : buffer'[j] = buffer[j]
      /\ buffer'[Len(buffer) + 1] = p /\ buffer' # <<>>
  <2>1. buffer' \in Seq(PieceType)
    BY <1>1, <1>4, <1>6, AppendProperties
  <2> QED
    BY <1>1, <1>4, <1>6, <2>1, AppendProperties, LenProperties
<1>9. OfRow(buffer)'
  <2>1. ASSUME NEW j \in DOMAIN buffer'
        PROVE  /\ buffer'[j].start = starts' /\ buffer'[j].row = row'
               /\ buffer'[j].last => j = Len(buffer')
    <3>1. CASE j \in 1 .. Len(buffer)
      <4>1. buffer'[j] = buffer[j] /\ j \in DOMAIN buffer
        BY <1>8, <3>1
      <4>2. ~ buffer'[j].last
        BY <1>7, <4>1
      <4>3. buffer'[j].start = starts' /\ buffer'[j].row = row'
        BY <1>1, <1>3, <4>1 DEF OfRow
      <4> QED
        BY <4>2, <4>3
    <3>2. CASE j = Len(buffer) + 1
      BY <1>1, <1>5, <1>8, <3>2
    <3> QED
      BY <1>8, <2>1, <3>1, <3>2
  <2> QED
    BY <2>1 DEF OfRow
<1>10. \A h \in Caller : pc'[h] \in Writing => h = g
  BY <1>1, <1>3
<1>11. pc'[g] \in Writing
  BY <1>1 DEF Writing
<1> QED
  BY <1>1, <1>2, <1>3, <1>8, <1>9, <1>10, <1>11 DEF RowsOK

(* Written keeps the row where it is.                                      *)
LEMMA WrittenRows ==
  ASSUME RInv, NEW g \in Caller, Written(g) PROVE RowsOK' /\ RowsStep
<1>1. /\ pc[g] = "write" /\ pc'[g] = "flush" /\ \A h \in Caller \ {g} : pc'[h] = pc[h]
      /\ UNCHANGED <<starts, csv, ready, row, put, failed, file, buffer, size>>
  BY DEF RInv, LInv, TypeOK, Written, Goes, sink, writer
<1>2. RowsStep /\ RowToCome' = RowToCome
  BY <1>1, NothingWritten
<1>3. \A h \in Caller : pc'[h] \in Writing <=> pc[h] \in Writing
  BY <1>1 DEF Writing
<1> QED
  BY <1>1, <1>2, <1>3 DEF RInv, RowsOK, OfRow

(* Unlock leaves the complete row in the file and the next one to come.    *)
LEMMA UnlockRows ==
  ASSUME RInv, NEW g \in Caller, Unlock(g) PROVE RowsOK' /\ RowsStep
<1>1. /\ pc[g] = "unlock" /\ pc'[g] = "idle" /\ \A h \in Caller \ {g} : pc'[h] = pc[h]
      /\ UNCHANGED <<starts, csv, ready, row, put, failed, file, buffer, size>>
  BY DEF RInv, LInv, TypeOK, Unlock, Goes, writer
<1>2. RowsStep /\ RowToCome' = RowToCome
  BY <1>1, NothingWritten
<1>3. \A h \in Caller : pc'[h] \in Writing <=> pc[h] \in Writing
  BY <1>1 DEF Writing
<1> QED
  BY <1>1, <1>2, <1>3 DEF RInv, RowsOK, OfRow

(* Spill writes pieces of a row that is not complete, or fails.            *)
LEMMA SpillRows ==
  ASSUME RInv, NEW g \in Caller, Spill(g) PROVE RowsOK' /\ RowsStep
<1>1. /\ pc[g] = "write" /\ pc'[g] = "write" /\ \A h \in Caller \ {g} : pc'[h] = pc[h]
      /\ put < size[g] /\ ~ failed /\ Len(buffer) = BufferSize /\ WriteOut(buffer)
      /\ UNCHANGED <<starts, csv, ready, row, put, size>>
  BY DEF RInv, LInv, TypeOK, Spill, Goes, sink
<1>2. /\ TypeOK /\ csv /\ ready /\ OfRow(buffer) /\ WriterOK(g) /\ RowToCome = row
      /\ \A h \in Caller : pc[h] \in Writing => h = g
  BY <1>1, InsideRows DEF Inside, Writing
<1>3. buffer \in Seq(PieceType) /\ file \in Seq(PieceType) /\ put \in Nat /\ row \in Nat
  BY <1>2 DEF TypeOK
<1>4. buffer # <<>>
  BY <1>1, <1>3, EmptySeq, LootLogAssumption
<1>5. /\ Stream[Len(Stream)] = buffer[Len(buffer)] /\ Len(buffer) \in DOMAIN buffer
  BY <1>2, <1>4, BufferEnd
<1>6. ~ buffer[Len(buffer)].last
  <2>1. put # 0
    <3>1. ASSUME put = 0 PROVE FALSE
      <4>1. buffer[Len(buffer)].row = row - 1
        BY <1>2, <1>5, <3>1 DEF WriterOK, EndsWith
      <4>2. buffer[Len(buffer)].row = row
        BY <1>2, <1>5 DEF OfRow
      <4> QED
        BY <1>3, <4>1, <4>2
    <3> QED
      BY <3>1
  <2>2. EndsWith(row, put, put = size[g])
    BY <1>2, <2>1, Zenon DEF WriterOK
  <2>3. put # size[g]
    <3>1. CASE put = size[g]
      BY <1>1, <1>3, <3>1
    <3> QED
      BY <3>1
  <2> QED
    BY <1>5, <2>2, <2>3, Zenon DEF EndsWith
<1>7. WholeRows' = WholeRows
  <2>1. \/ WholeRows' = WholeRows
        \/ buffer[Len(buffer)].last
    BY <1>1, <1>2, <1>3, WriteOutRows
  <2> QED
    BY <1>6, <2>1, Zenon
<1>8. failed' \in BOOLEAN /\ (~ failed' => buffer' = <<>>)
  BY <1>1, InsideWriteOut DEF RInv, Inside
<1>9. RowToCome' = RowToCome
  BY <1>1, <1>7 DEF RowToCome
<1>10. RowsStep
  <2>1. CASE failed'
    <3>1. failed' = TRUE
      BY <1>8, <2>1, Zenon
    <3> QED
      BY <1>1, <1>7, <3>1, RowLost DEF RowsStep, Rows!Next
  <2>2. CASE ~ failed'
    <3>1. failed' = failed
      BY <1>1, <1>2, <1>8, <2>2, Zenon DEF TypeOK
    <3> QED
      BY <1>1, <1>7, <3>1, RowsStill DEF RowsStep
  <2> QED
    BY <2>1, <2>2
<1>11. ASSUME ~ failed' PROVE RowsOK'
  <2>1. OfRow(buffer)'
    BY <1>8, <1>11 DEF OfRow
  <2>2. \A h \in Caller : pc'[h] \in Writing => h = g
    BY <1>1, <1>2
  <2>3. pc'[g] \in Writing /\ put' # size'[g]
    <3>1. CASE put = size[g]
      BY <1>1, <1>3, <3>1
    <3> QED
      BY <1>1, <3>1 DEF Writing
  <2> QED
    BY <1>1, <1>2, <1>9, <2>1, <2>2, <2>3 DEF RowsOK
<1>12. RowsOK'
  BY <1>11 DEF RowsOK
<1> QED
  BY <1>10, <1>12

(* Flush appends the row, or fails.                                        *)
LEMMA FlushRows ==
  ASSUME RInv, NEW g \in Caller, Flush(g) PROVE RowsOK' /\ RowsStep
<1>1. /\ pc[g] = "flush" /\ pc'[g] = "unlock" /\ \A h \in Caller \ {g} : pc'[h] = pc[h]
      /\ IF failed THEN UNCHANGED writer ELSE WriteOut(buffer)
      /\ UNCHANGED <<starts, csv, ready, row, put, size>>
  BY DEF RInv, LInv, TypeOK, Flush, Goes, sink
<1>2. CASE failed
  <2>1. UNCHANGED <<buffer, failed, file>>
    BY <1>1, <1>2 DEF writer
  <2> QED
    BY <1>1, <1>2, <2>1, NothingWritten DEF RowsOK
<1>3. CASE ~ failed
  <2>1. /\ TypeOK /\ csv /\ ready /\ OfRow(buffer) /\ WriterOK(g) /\ RowToCome = row
        /\ put = size[g] /\ buffer # <<>>
        /\ \A h \in Caller : pc[h] \in Writing => h = g
    <3>1. pc[g] \in Inside /\ pc[g] \in Writing
      BY <1>1 DEF Inside, Writing
    <3>2. /\ TypeOK /\ csv /\ ready /\ OfRow(buffer) /\ WriterOK(g) /\ RowToCome = row
          /\ put = size[g] => buffer # <<>>
          /\ \A h \in Caller : pc[h] \in Writing => h = g
      BY <1>3, <3>1, InsideRows
    <3> QED
      BY <1>1, <3>2 DEF WriterOK
  <2>2. WriteOut(buffer) /\ buffer \in Seq(PieceType) /\ file \in Seq(PieceType)
    BY <1>1, <1>3, <2>1 DEF TypeOK
  <2> DEFINE p == buffer[Len(buffer)]
  <2>3. Stream[Len(Stream)] = p /\ Len(buffer) \in DOMAIN buffer /\ p \in PieceType
    BY <2>1, BufferEnd
  <2>4. p.start = starts /\ p.row = row
    BY <2>1, <2>3 DEF OfRow
  <2>5. p.last
    <3>1. size[g] # 0
      BY <2>1 DEF WriterOK
    <3>2. EndsWith(row, put, put = size[g])
      BY <2>1, <3>1, Zenon DEF WriterOK
    <3> QED
      BY <2>1, <2>3, <3>2, Zenon DEF EndsWith
  <2>6. \/ WholeRows' = WholeRows /\ (failed' \/ buffer = <<>> \/ ~ p.last)
        \/ ~ failed' /\ WholeRows' = Append(WholeRows, p)
    BY <2>1, <2>2, WriteOutRows
  <2>7. /\ file' \in Seq(PieceType) /\ failed' \in BOOLEAN /\ (~ failed' => buffer' = <<>>)
    BY <1>1, <1>3, <2>2, InsideWriteOut DEF RInv, Inside
  <2> HIDE DEF p
  <2>8. CASE failed'
    <3>1. WholeRows' = WholeRows /\ failed' = TRUE
      BY <2>6, <2>7, <2>8, Zenon
    <3>2. Rows!Lose
      BY <1>1, <1>3, <3>1, RowLost
    <3> QED
      BY <2>8, <3>2 DEF RowsOK, RowsStep, Rows!Next
  <2>9. CASE ~ failed'
    <3>1. WholeRows' = Append(WholeRows, p)
      BY <2>1, <2>5, <2>6, <2>9, Zenon
    <3>2. failed' = failed
      BY <1>3, <2>1, <2>7, <2>9, Zenon DEF TypeOK
    <3>3. Rows!AppendRow
      BY <1>1, <1>3, <2>1, <2>2, <2>3, <2>4, <2>7, <2>9, <3>1, <3>2, RowAppended
    <3>4. RowToCome' = row + 1
      <4>1. WholeRows \in Seq(PieceType)
        BY <2>2, WholeRowsFacts DEF WholeRows
      <4>2. RowToCome' = p.row + 1
        BY <1>1, <2>3, <2>4, <3>1, <4>1, RowAdded
      <4> QED
        BY <2>4, <4>2
    <3>5. OfRow(buffer)'
      BY <2>7, <2>9 DEF OfRow
    <3>6. \A h \in Caller : pc'[h] \notin Writing
      BY <1>1, <2>1 DEF Writing
    <3>7. RowsOK'
      BY <1>1, <3>4, <3>5, <3>6 DEF RowsOK
    <3> QED
      BY <3>3, <3>7 DEF RowsStep, Rows!Next
  <2> QED
    BY <2>8, <2>9
<1> QED
  BY <1>2, <1>3

(* A restart of the program is one of RowLog.                              *)
LEMMA RestartRows ==
  ASSUME RInv, Restart PROVE RowsOK' /\ RowsStep
<1>1. /\ starts' = starts + 1 /\ ready' = FALSE /\ failed' = FALSE /\ UNCHANGED file
      /\ TypeOK /\ Quiet
  BY DEF RInv, LInv, Restart
<1>2. WholeRows' = WholeRows
  BY <1>1 DEF WholeRows
<1>3. RowToCome' = 0
  <2>1. WholeRows # <<>> => Last(WholeRows).start # starts + 1
    <3>1. starts \in Nat
      BY <1>1 DEF TypeOK
    <3>2. WholeRows # <<>> => Last(WholeRows).start \in Nat /\ Last(WholeRows).start <= starts
      BY <1>1, LastRow DEF PieceType
    <3> QED
      BY <3>1, <3>2
  <2> QED
    BY <1>1, <1>2, <2>1 DEF RowToCome
<1>4. Rows!Restart
  BY <1>1, <1>2, <1>3 DEF Rows!Restart
<1> QED
  BY <1>1, <1>4 DEF RowsOK, RowsStep, Rows!Next

(* RInv holds initially, and the initial states are RowLog's.              *)
LEMMA RInvInit ==
  ASSUME Init PROVE RInv /\ Rows!Init
<1>1. LInv /\ RowsOK
  BY LInvInit DEF Init, RowsOK
<1>2. WholeRows = <<>>
  BY FilteredEmpty DEF Init, WholeRows
<1>3. Rows!Init
  BY <1>2 DEF Init, Rows!Init, RowToCome
<1> QED
  BY <1>1, <1>3 DEF RInv

(* Every step preserves RInv and is a step of RowLog, or none.             *)
LEMMA RInvNext ==
  ASSUME RInv, [Next]_vars PROVE RInv' /\ RowsStep
<1>1. LInv'
  BY LInvNext DEF RInv
<1> SUFFICES RowsOK' /\ RowsStep
  BY <1>1 DEF RInv
<1>2. CASE NewLogSink
  BY <1>2, NewLogSinkRows
<1>3. ASSUME NEW g \in Caller, NEW s \in RowSizes, OnLoot(g, s) PROVE RowsOK' /\ RowsStep
  BY <1>3, OnLootRows
<1>4. ASSUME NEW g \in Caller, Lock(g) PROVE RowsOK' /\ RowsStep
  BY <1>4, LockRows
<1>5. ASSUME NEW g \in Caller, Work(g) PROVE RowsOK' /\ RowsStep
  BY <1>5, PutRows, SpillRows, WrittenRows, FlushRows, UnlockRows DEF Work
<1>6. CASE Close
  BY <1>6, CloseRows
<1>7. CASE Restart
  BY <1>7, RestartRows
<1>8. CASE UNCHANGED vars
  <2>1. UNCHANGED <<starts, csv, ready, row, put, buffer, failed, file, pc, size>>
    BY <1>8 DEF vars, sink, writer, callers
  <2>2. RowsStep /\ RowToCome' = RowToCome
    BY <2>1, NothingWritten
  <2> QED
    BY <2>1, <2>2 DEF RInv, RowsOK, OfRow
<1> QED
  BY <1>2, <1>3, <1>4, <1>5, <1>6, <1>7, <1>8 DEF Next

(* RInv is an invariant of the sink.                                       *)
THEOREM RowsInvariant == Spec => []RInv
<1>1. Init => RInv
  BY RInvInit
<1>2. RInv /\ [Next]_vars => RInv'
  BY RInvNext
<1> QED
  BY <1>1, <1>2, PTL DEF Spec

(* The sink implements RowLog: every row is one atomic append to the file  *)
(* or a loss after which nothing comes until the next start (sink.go:131-  *)
(* 166), whatever the callers interleave and wherever a write fails.       *)
THEOREM ImplementsRowLog == Spec => RowLogSpec
<1>1. Init => Rows!Init
  BY RInvInit
<1>2. RInv /\ [Next]_vars => [Rows!Next]_(Rows!lvars)
  BY RInvNext DEF RowsStep
<1> QED
  BY <1>1, <1>2, RowsInvariant, PTL DEF Spec, RowLogSpec, Rows!Spec
=============================================================================
