----------------------------- MODULE Protocol18 -----------------------------
(***************************************************************************)
(* The deserializer of internal/photon/protocol18.go and the three message *)
(* decoders of parser.go that use it.  A buffer is a sequence of bytes,    *)
(* and to read from it gives [v, rest]: a value and the unread bytes.  A   *)
(* decoded value is <<type, v>> with its Go type; a float is its bytes, a  *)
(* string is the sequence of its bytes.                                    *)
(*                                                                         *)
(* int32 and int64 have IntBits and LongBits.  A varint has as many groups *)
(* of seven bits as are needed to cover them, as it has for 32 and 64.     *)
(* A function of what is read and how has both in a pair, its argument.    *)
(***************************************************************************)
EXTENDS Ints, SequencesExt

CONSTANTS
  IntBits,                \* 32: the width of int32 and uint32
  LongBits,               \* 64: the width of int64 and uint64
  MaxCollectionElements   \* 1 << 20

ASSUME WidthsAssumption ==
  /\ IntBits \in Nat /\ IntBits > 16
  /\ LongBits \in Nat /\ LongBits >= IntBits
  /\ MaxCollectionElements \in Nat
  /\ MaxCollectionElements < PowerOfTwo[IntBits]

(* The type codes.  Array is a flag, too: it makes a typed array of the    *)
(* code it is added to.                                                    *)
Type == [
  Unknown |-> 0, Boolean |-> 2, Byte |-> 3, Short |-> 4, Float |-> 5,
  Double |-> 6, String |-> 7, Null |-> 8, CompressedInt |-> 9,
  CompressedLong |-> 10, Int1 |-> 11, Int1Neg |-> 12, Int2 |-> 13,
  Int2Neg |-> 14, Long1 |-> 15, Long1Neg |-> 16, Long2 |-> 17,
  Long2Neg |-> 18, Custom |-> 19, Dictionary |-> 20, Hashtable |-> 21,
  ObjectArray |-> 23, OperationRequest |-> 24, OperationResp |-> 25,
  EventData |-> 26, BoolFalse |-> 27, BoolTrue |-> 28, ShortZero |-> 29,
  IntZero |-> 30, LongZero |-> 31, FloatZero |-> 32, DoubleZero |-> 33,
  ByteZero |-> 34, Array |-> 64, SlimBase |-> 128 ]

Byte == 0 .. 255

Nil == <<"nil", <<>>>>

-----------------------------------------------------------------------------
(* The readers of single numbers and strings.                              *)
Least(m, n) == IF m < n THEN m ELSE n
Take(b, n) == SubSeq(b, 1, n)
Drop(b, n) == SubSeq(b, n + 1, Len(b))

Read(v, rest) == [v |-> v, rest |-> rest]
As(type, r) == Read(<<type, r.v>>, r.rest)
Negated(r) == Read(-(r.v), r.rest)

ReadByte(b) == IF b = <<>> THEN Read(0, b) ELSE Read(b[1], Tail(b))

(* binary.Read: if there are too few bytes they are gone, and v is zero.   *)
ReadFixed(b, n) ==
  IF Len(b) < n THEN Read([k \in 1 .. n |-> 0], <<>>)
                ELSE Read(Take(b, n), Drop(b, n))

ReadUint16(b) ==
  LET r == ReadFixed(b, 2) IN Read(r.v[1] + 256 * r.v[2], r.rest)

Signed16(n) == IF n >= 32768 THEN n - 65536 ELSE n

ReadInt16(b) ==
  LET r == ReadUint16(b) IN Read(Signed16(r.v), r.rest)

(* A varint ends with the first byte without the flag 128.  Without one    *)
(* within the groups that the width allows it is 0, and they are gone.     *)
Groups(bits) == (bits + 6) \div 7

Varint[x \in Seq(Byte) \X Nat] ==
  LET b == x[1]
      more == Varint[<<Tail(b), x[2] - 1>>]
  IN IF b = <<>> \/ x[2] = 0 THEN [ok |-> FALSE, v |-> 0, rest |-> b]
     ELSE IF b[1] < 128 THEN [ok |-> TRUE, v |-> b[1], rest |-> Tail(b)]
     ELSE [more EXCEPT !.v = IF more.ok THEN @ * 128 + b[1] - 128 ELSE 0]

ReadCompressed(b, bits) ==
  LET r == Varint[<<b, Groups(bits)>>]
  IN Read(r.v % PowerOfTwo[bits], r.rest)

(* The zigzag numbers of readCompressedInt32 and readCompressedInt64.      *)
ReadZigzag(b, bits) ==
  LET r == ReadCompressed(b, bits)
  IN Read(IF r.v % 2 = 0 THEN r.v \div 2 ELSE -(r.v \div 2) - 1, r.rest)

ReadCount(b) == ReadCompressed(b, IntBits)

BoundedCount_OneMore(n, max) ==
  Least(n, Least(max, MaxCollectionElements) + 1)

BoundedCount(n, max) == Least(n, Least(max, MaxCollectionElements))

ReadString(b) ==
  LET r == ReadCompressed(b, IntBits)
  IN IF r.v > Len(r.rest) THEN Read(<<>>, r.rest)
     ELSE Read(Take(r.rest, r.v), Drop(r.rest, r.v))

-----------------------------------------------------------------------------
(* Values that are not made of values, by their codes.                     *)
IsPlain(tc) ==
  tc \in {Type.Unknown} \cup Type.Boolean .. Type.Long2Neg
         \cup Type.BoolFalse .. Type.ByteZero

ReadPlain(b, tc) ==
  CASE tc \in {Type.Unknown, Type.Null} -> Read(Nil, b)
    [] tc = Type.Boolean ->
         LET r == ReadByte(b) IN Read(<<"bool", r.v # 0>>, r.rest)
    [] tc = Type.Byte           -> As("byte", ReadByte(b))
    [] tc = Type.Short          -> As("int16", ReadInt16(b))
    [] tc = Type.Float          -> As("float32", ReadFixed(b, 4))
    [] tc = Type.Double         -> As("float64", ReadFixed(b, 8))
    [] tc = Type.String         -> As("string", ReadString(b))
    [] tc = Type.CompressedInt  -> As("int32", ReadZigzag(b, IntBits))
    [] tc = Type.CompressedLong -> As("int64", ReadZigzag(b, LongBits))
    [] tc = Type.Int1           -> As("int32", ReadByte(b))
    [] tc = Type.Int1Neg        -> As("int32", Negated(ReadByte(b)))
    [] tc = Type.Int2           -> As("int32", ReadUint16(b))
    [] tc = Type.Int2Neg        -> As("int32", Negated(ReadUint16(b)))
    [] tc = Type.Long1          -> As("int64", ReadByte(b))
    [] tc = Type.Long1Neg       -> As("int64", Negated(ReadByte(b)))
    [] tc = Type.Long2          -> As("int64", ReadUint16(b))
    [] tc = Type.Long2Neg       -> As("int64", Negated(ReadUint16(b)))
    [] tc = Type.BoolFalse      -> Read(<<"bool", FALSE>>, b)
    [] tc = Type.BoolTrue       -> Read(<<"bool", TRUE>>, b)
    [] tc = Type.ShortZero      -> Read(<<"int16", 0>>, b)
    [] tc = Type.IntZero        -> Read(<<"int32", 0>>, b)
    [] tc = Type.LongZero       -> Read(<<"int64", 0>>, b)
    [] tc = Type.FloatZero      -> Read(<<"float32", [k \in 1 .. 4 |-> 0]>>, b)
    [] tc = Type.DoubleZero     -> Read(<<"float64", [k \in 1 .. 8 |-> 0]>>, b)
    [] tc = Type.ByteZero       -> Read(<<"byte", 0>>, b)

(* An unknown code gives an error text and reads nothing.                  *)
ErrorText(tc) == <<"string", <<-1, tc>>>>

Comparable(v) ==
  v[1] \in {"nil", "bool", "byte", "int16", "int32", "int64", "float32",
            "float64", "string"}

(* Later entries of a map replace earlier ones with the same key.          *)
MapOf(entries) ==
  [k \in {entries[i][1] : i \in DOMAIN entries} |->
     entries[Max({i \in DOMAIN entries : entries[i][1] = k})][2]]

-----------------------------------------------------------------------------
(* Values that are made of values.  d is Deserialize, with which they are  *)
(* read.                                                                   *)

(* n values one after the other, each with one, of the bytes and an index; *)
(* it gives a sequence, which is empty where the code's loop ends.         *)
ReadEach(one, b, n) ==
  LET r[k \in 0 .. n] ==
        IF k = 0 THEN Read(<<>>, b)
        ELSE LET before == r[k - 1]
                 x == one[<<before.rest, k - 1>>]
             IN Read(before.v \o x.v, x.rest)
  IN r[n]

One(r) == Read(<<r.v>>, r.rest)

(* n values of the code tc, whatever is left to read.                      *)
Elements(d, b, tc, n) ==
  ReadEach([x \in Seq(Byte) \X Nat |-> One(d[<<x[1], tc>>])], b, n)

ArrayType(tc) ==
  CASE tc = Type.Boolean        -> "[]bool"
    [] tc = Type.Byte           -> "[]byte"
    [] tc = Type.Short          -> "[]int16"
    [] tc = Type.Float          -> "[]float32"
    [] tc = Type.Double         -> "[]float64"
    [] tc = Type.String         -> "[]string"
    [] tc = Type.CompressedInt  -> "[]int32"
    [] tc = Type.CompressedLong -> "[]int64"
    [] OTHER                    -> "[]interface{}"

FixedSize == [tc \in {Type.Byte, Type.Short, Type.Float, Type.Double} |->
  CASE tc = Type.Byte -> 1 [] tc = Type.Short -> 2
    [] tc = Type.Float -> 4 [] tc = Type.Double -> 8]

PackedBools(b, n) ==
  LET packed == Take(b, Least((n + 7) \div 8, Len(b)))
      Bit(i) == (packed[i \div 8 + 1] \div PowerOfTwo[i % 8]) % 2 = 1
  IN Read([i \in 1 .. n |->
             <<"bool", (i - 1) \div 8 < Len(packed) /\ Bit(i - 1)>>],
          Drop(b, Len(packed)))

TypedArray(d, b, tc) ==
  LET c == ReadCount(b)
      n == BoundedCount(c.v, MaxCollectionElements)
      m == IF tc \in DOMAIN FixedSize
           THEN BoundedCount(n, Len(c.rest) \div FixedSize[tc]) ELSE n
  IN As(ArrayType(tc), IF tc = Type.Boolean THEN PackedBools(c.rest, n)
                                            ELSE Elements(d, c.rest, tc, m))

NestedArray(d, b) ==
  LET c == ReadCount(b)
      n == BoundedCount(c.v, MaxCollectionElements)
  IN IF c.rest = <<>> THEN Read(Nil, <<>>)
     ELSE As("[]interface{}", Elements(d, Tail(c.rest), c.rest[1], n))

(* Each element has a code of its own; those that are missing are nil.     *)
Object(d, b) ==
  One(IF b = <<>> THEN Read(Nil, b) ELSE d[<<Tail(b), b[1]>>])

ObjectArray(d, b) ==
  LET c == ReadCount(b)
      n == BoundedCount(c.v, MaxCollectionElements)
  IN As("[]interface{}", ReadEach([x \in Seq(Byte) \X Nat |-> Object(d, x[1])], c.rest, n))

(* The codes kt and vt stand in front of every entry if they are 0; what   *)
(* cannot be a key is replaced by a text.                                  *)
Pair(d, b, kt, vt, i) ==
  LET k    == IF kt = 0 THEN ReadByte(b) ELSE Read(kt, b)
      t    == IF vt = 0 THEN ReadByte(k.rest) ELSE Read(vt, k.rest)
      key  == d[<<t.rest, k.v>>]
      val  == d[<<key.rest, t.v>>]
      name == IF Comparable(key.v) THEN key.v ELSE <<"unhashable", <<i, key.v[1]>>>>
  IN IF b = <<>> THEN Read(<<>>, b) ELSE Read(<< <<name, val.v>> >>, val.rest)

Dictionary(d, b) ==
  LET kt == ReadByte(b)
      vt == ReadByte(kt.rest)
      c  == ReadCount(vt.rest)
      n  == BoundedCount(c.v, MaxCollectionElements)
      ps == ReadEach([x \in Seq(Byte) \X Nat |-> Pair(d, x[1], kt.v, vt.v, x[2])],
                     c.rest, n)
  IN Read(<<"map", MapOf(ps.v)>>, ps.rest)

(* A custom value that is longer than the buffer is nil, a slim one takes  *)
(* what there is.                                                          *)
CustomPayload(b, id, isSlim) ==
  LET c == ReadCount(b)
      n == IF c.v > Len(c.rest) /\ isSlim THEN Len(c.rest) ELSE c.v
  IN IF n > Len(c.rest) THEN Read(Nil, c.rest)
     ELSE Read(<<"custom", [id |-> id, data |-> Take(c.rest, n)]>>, Drop(c.rest, n))

Custom(b, tc) ==
  LET id == ReadByte(b)
  IN IF tc >= Type.SlimBase THEN CustomPayload(b, tc % 128, TRUE)
                            ELSE CustomPayload(id.rest, id.v, FALSE)

-----------------------------------------------------------------------------
(* Parameter tables, and messages inside values.                           *)

(* A key without a code behind it is dropped.                              *)
Entry(d, b) ==
  LET x == d[<<Drop(b, 2), b[2]>>]
  IN IF Len(b) < 2 THEN Read(<<>>, <<>>) ELSE Read(<< <<b[1], x.v>> >>, x.rest)

Entries(d, b, n) == ReadEach([x \in Seq(Byte) \X Nat |-> Entry(d, x[1])], b, n)

ReadEntries_AllOrNone(d, b) ==
  LET c == ReadCount(b)
      e == Entries(d, c.rest, BoundedCount(c.v, Len(c.rest) + 1))
  IN IF Len(e.v) < c.v THEN Read(<<>>, e.rest) ELSE e

ReadEntries(d, b) ==
  LET c == ReadCount(b)
  IN Entries(d, c.rest, BoundedCount(c.v, Len(c.rest) + 1))

ReadParameterTable(d, b) ==
  LET e == ReadEntries(d, b) IN Read(MapOf(e.v), e.rest)

InnerMessage(d, b) ==
  LET opCode == ReadByte(b)
      params == ReadParameterTable(d, opCode.rest)
  IN Read(<<"message", [code |-> opCode.v, params |-> params.v]>>, params.rest)

InnerResponse(d, b) ==
  LET opCode     == ReadByte(b)
      returnCode == ReadInt16(opCode.rest)
      tc         == ReadByte(returnCode.rest)
      debug      == IF returnCode.rest = <<>> THEN Read(Nil, <<>>)
                    ELSE d[<<tc.rest, tc.v>>]
      params     == ReadParameterTable(d, debug.rest)
  IN IF Len(b) < 3 THEN Read(Nil, b)
     ELSE Read(<<"response", [ code |-> opCode.v, returnCode |-> returnCode.v,
                   debug |-> IF debug.v[1] = "string" THEN debug.v[2] ELSE <<>>,
                   params |-> params.v ]>>, params.rest)

ReadValue(d, b, tc) ==
  CASE tc >= Type.SlimBase \/ tc = Type.Custom     -> Custom(b, tc)
    [] IsPlain(tc)                                 -> ReadPlain(b, tc)
    [] tc \in {Type.Dictionary, Type.Hashtable}    -> Dictionary(d, b)
    [] tc = Type.ObjectArray                       -> ObjectArray(d, b)
    [] tc \in {Type.OperationRequest, Type.EventData} -> InnerMessage(d, b)
    [] tc = Type.OperationResp                     -> InnerResponse(d, b)
    [] tc = Type.Array                             -> NestedArray(d, b)
    [] tc \in Type.Array + 1 .. Type.SlimBase - 1  -> TypedArray(d, b, tc - Type.Array)
    [] OTHER                                       -> Read(ErrorText(tc), b)

Deserialize[x \in Seq(Byte) \X Byte] == ReadValue(Deserialize, x[1], x[2])

-----------------------------------------------------------------------------
(* The messages of the game.                                               *)
ResolveCode_IntsOnly(v) ==
  IF v[1] \in {"byte", "int16", "int32"} THEN [ok |-> TRUE, n |-> v[2] % 65536]
                                         ELSE [ok |-> FALSE, n |-> 0]

ResolveCode(v) ==
  IF v[1] \in {"byte", "int16", "int32", "int64"}
  THEN [ok |-> TRUE, n |-> v[2] % 65536] ELSE [ok |-> FALSE, n |-> 0]

(* The code is the one under the key, or the one in front of the table.    *)
CodeOf(first, real) == IF real.ok THEN Signed16(real.n) ELSE first

Message(first, params, key) ==
  [ code   |-> CodeOf(first, ResolveCode(IF key \in DOMAIN params THEN params[key]
                                                                 ELSE Nil)),
    params |-> params ]

EventKey == 252
OperationKey == 253

Parameters(data) == ReadParameterTable(Deserialize, data).v

DecodeEvent(data) == Message(data[1], Parameters(Tail(data)), EventKey)
DecodeRequest(data) == Message(data[1], Parameters(Tail(data)), OperationKey)

(* A response has two bytes and a value in front of the table.             *)
DecodeResponse(data) ==
  LET tc    == ReadByte(Drop(data, 3))
      debug == IF Len(data) = 3 THEN Read(Nil, <<>>) ELSE Deserialize[<<tc.rest, tc.v>>]
  IN Message(data[1], Parameters(debug.rest), OperationKey)
       @@ [returnCode |-> ReadInt16(Tail(data)).v, debugMessage |-> debug.v]
=============================================================================
