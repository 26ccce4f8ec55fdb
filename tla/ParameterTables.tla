--------------------------- MODULE ParameterTables ---------------------------
(***************************************************************************)
(* The deserializer against a server that writes messages for it.  The     *)
(* server puts parameters into a table one after the other; for each value *)
(* it may use every code that stands for it.  What it writes is read as    *)
(* it was meant, and damage to a message stays behind the place it hit.    *)
(*                                                                         *)
(* The serializer is the game's and no code of the repository: it is the   *)
(* reference the deserializer is held against.  Only the varints have one, *)
(* encodeVarint of parser_test.go.                                         *)
(***************************************************************************)
EXTENDS Coerce

CONSTANTS
  Keys,           \* the keys of parameters
  Values,         \* the values the server sends
  Followers,      \* those it sends behind the first (a bound)
  Tails,          \* what may stand in a message behind the damage
  MaxParameters,  \* how many parameters a table has (a bound)
  MaxCut,         \* how far into a parameter damage begins (a bound)
  MaxNesting      \* how many levels of values TypeOK looks into (a bound)

VARIABLE sent   \* the parameters [key, v, bytes] the server has written

-----------------------------------------------------------------------------
(* Values of Go types, and the values they are made of.                    *)
ArrayTypes == { "[]bool", "[]byte", "[]int16", "[]int32", "[]int64",
                "[]float32", "[]float64", "[]string", "[]interface{}" }

ElementType(t) ==
  CASE t = "[]bool"    -> "bool"    [] t = "[]byte"    -> "byte"
    [] t = "[]int16"   -> "int16"   [] t = "[]int32"   -> "int32"
    [] t = "[]int64"   -> "int64"   [] t = "[]float32" -> "float32"
    [] t = "[]float64" -> "float64" [] t = "[]string"  -> "string"

Parts(v) ==
  LET n == v[2] IN
  CASE v[1] \in ArrayTypes -> Range(n)
    [] v[1] = "map"        -> DOMAIN n \cup Range(n)
    [] v[1] = "message"    -> Range(n.params)
    [] v[1] = "response"   -> {<<"string", n.debug>>} \cup Range(n.params)
    [] OTHER               -> {}

(* The values that are so many levels below v.                             *)
Below(v) ==
  LET values[n \in Nat] ==
        IF n = 0 THEN {v} ELSE UNION {Parts(x) : x \in values[n - 1]}
  IN values

(* A value has the range of its Go type, and a collection no more elements *)
(* than the bound; what is no key in Go is none in a map.                  *)
Types == { "nil", "bool", "byte", "int16", "int32", "int64", "float32", "float64",
           "string", "custom", "map", "unhashable", "message", "response" }
         \cup ArrayTypes

WellFormed(v) ==
  LET n == v[2] IN
  /\ v[1] \in Types
  /\ v[1] = "nil"     => n = <<>>
  /\ v[1] = "bool"    => n \in BOOLEAN
  /\ v[1] = "byte"    => n \in Byte
  /\ v[1] = "int16"   => n \in SignedRange(16)
  /\ v[1] = "int32"   => n \in SignedRange(IntBits)
  /\ v[1] = "int64"   => n \in SignedRange(LongBits)
  /\ v[1] = "float32" => n \in [1 .. 4 -> Byte]
  /\ v[1] = "float64" => n \in [1 .. 8 -> Byte]
  /\ v[1] = "string"  => n \in Seq(Byte) \/ \E tc \in Byte : v = ErrorText(tc)
  /\ v[1] = "custom"  => n.id \in Byte /\ n.data \in Seq(Byte)
  /\ v[1] = "map"     => /\ IsFiniteSet(DOMAIN n)
                         /\ Cardinality(DOMAIN n) <= MaxCollectionElements
                         /\ \A k \in DOMAIN n : Comparable(k) \/ k[1] = "unhashable"
  /\ v[1] = "unhashable" => n[1] \in Nat
  /\ v[1] \in {"message", "response"} => n.code \in Byte /\ DOMAIN n.params \subseteq Byte
  /\ v[1] = "response" => n.returnCode \in SignedRange(16)
  /\ v[1] \in ArrayTypes =>
       /\ n \in Seq(Range(n)) /\ Len(n) <= MaxCollectionElements
       /\ v[1] # "[]interface{}" => \A i \in DOMAIN n : n[i][1] = ElementType(v[1])

(* It has what is in a value of its type, and nothing else.                *)
IsFunction(f) == f = [x \in DOMAIN f |-> f[x]]

Exact(v) ==
  LET n == v[2] IN
  /\ v = <<v[1], n>>
  /\ v[1] = "custom"   => n = [id |-> n.id, data |-> n.data]
  /\ v[1] = "map"      => IsFunction(n)
  /\ v[1] = "message"  => n = [code |-> n.code, params |-> n.params]
  /\ v[1] = "response" => n = [ code |-> n.code, returnCode |-> n.returnCode,
                                debug |-> n.debug, params |-> n.params ]
  /\ v[1] \in {"message", "response"} => IsFunction(n.params)

(* It is read as it was sent.                                              *)
Sendable(v) ==
  LET n == v[2]
      Fits(s) == s \in Seq(Byte) /\ Len(s) < PowerOfTwo[IntBits]
  IN /\ WellFormed(v) /\ Exact(v) /\ v[1] # "unhashable"
     /\ v[1] = "map" => \A k \in DOMAIN n : Comparable(k)
     /\ v[1] = "string" => Fits(n)
     /\ v[1] = "custom" => Fits(n.data)
     /\ v[1] \in {"message", "response"} =>
          Cardinality(DOMAIN n.params) <= MaxCollectionElements

Writable == UNION {Below(v)[n] : v \in Values, n \in 0 .. MaxNesting}

ASSUME ValuesAssumption ==
  /\ Keys \subseteq Byte /\ Followers \subseteq Values /\ Tails \subseteq Seq(Byte)
  /\ MaxParameters \in 0 .. MaxCollectionElements /\ MaxCut \in Nat /\ MaxNesting \in Nat
  /\ \A v \in Values : Below(v)[MaxNesting] = {}
  /\ \A v \in Writable : Sendable(v)

-----------------------------------------------------------------------------
(* The reference serializer.                                               *)
EncodeVarint[n \in Nat] ==
  IF n < 128 THEN <<n>> ELSE <<128 + (n % 128)>> \o EncodeVarint[n \div 128]

Zigzag(n) == IF n >= 0 THEN 2 * n ELSE -2 * n - 1
NoBytes == <<>>
Bytes8(n) == <<n>>
Bytes16(n) == <<n % 256, (n \div 256) % 256>>

PackBits(s) ==
  LET On(i) == IF i <= Len(s) /\ s[i][2] THEN 1 ELSE 0
  IN [k \in 1 .. (Len(s) + 7) \div 8 |->
        On(8 * k - 7) + 2 * On(8 * k - 6) + 4 * On(8 * k - 5) + 8 * On(8 * k - 4)
          + 16 * On(8 * k - 3) + 32 * On(8 * k - 2) + 64 * On(8 * k - 1) + 128 * On(8 * k)]

(* The codes that all the values in S can be written with.                 *)
Common(codes, S) == {tc \in Byte : \A x \in S : tc \in codes[x]}

(* The codes of the elements of a typed array, and those of such arrays.   *)
ElementCodes(type) == {tc \in 1 .. 63 : ArrayType(tc) = type}
ArraysOf(elements) == {Type.Array + tc : tc \in elements}

Word == 0 .. PowerOfTwo[16] - 1

(* The codes that stand for a number: it is packed, or one or two bytes,   *)
(* or what is below zero in them.                                          *)
IntCodes(n, packed, zero, one) ==
  {packed} \cup {tc \in {zero} : n = 0}
  \cup {tc \in {one} : n \in Byte} \cup {tc \in {one + 1} : -n \in Byte}
  \cup {tc \in {one + 2} : n \in Word} \cup {tc \in {one + 3} : -n \in Word}

(* The codes that stand for a value; codes is CodesFor.                    *)
CodesOf(codes, v) ==
  LET n == v[2] IN
  CASE v[1] = "nil"  -> {Type.Unknown, Type.Null}
    [] v[1] = "bool" -> {Type.Boolean, IF n THEN Type.BoolTrue ELSE Type.BoolFalse}
    [] v[1] = "byte" -> {Type.Byte} \cup {tc \in {Type.ByteZero} : n = 0}
    [] v[1] = "int16" -> {Type.Short} \cup {tc \in {Type.ShortZero} : n = 0}
    [] v[1] = "int32" -> IntCodes(n, Type.CompressedInt, Type.IntZero, Type.Int1)
    [] v[1] = "int64" -> IntCodes(n, Type.CompressedLong, Type.LongZero, Type.Long1)
    [] v[1] = "float32" ->
         {Type.Float} \cup {tc \in {Type.FloatZero} : n = [k \in 1 .. 4 |-> 0]}
    [] v[1] = "float64" ->
         {Type.Double} \cup {tc \in {Type.DoubleZero} : n = [k \in 1 .. 8 |-> 0]}
    [] v[1] = "string"   -> {Type.String}
    [] v[1] = "map"      -> {Type.Dictionary, Type.Hashtable}
    [] v[1] = "custom"   -> {Type.Custom} \cup
                            {tc \in {Type.SlimBase + n.id} : n.id < 128}
    [] v[1] = "message"  -> {Type.OperationRequest, Type.EventData}
    [] v[1] = "response" -> {Type.OperationResp}
    [] v[1] = "[]interface{}" ->
         {Type.ObjectArray} \cup {tc \in {Type.Array} : Common(codes, Range(n)) # {}}
         \cup ArraysOf(Common(codes, Range(n)) \cap ElementCodes(v[1]))
    [] OTHER -> ArraysOf(ElementCodes(v[1]))

CodesFor[v \in Writable] == CodesOf(CodesFor, v)

Some(S) == CHOOSE x \in S : TRUE

(* What may be written of which value with which code.                     *)
Encodings == UNION {{v} \X CodesFor[v] : v \in Writable}

(* Below, p is Payload, the bytes of a value behind its code.              *)
Tagged(p, v) == LET tc == Some(CodesFor[v]) IN <<tc>> \o p[<<v, tc>>]

AllTagged(p, s) == FlattenSeq([i \in DOMAIN s |-> Tagged(p, s[i])])

Untagged(p, s, tc) == FlattenSeq([i \in DOMAIN s |-> p[<<s[i], tc>>]])

OnceTagged(p, s) ==
  LET tc == Some(Common(CodesFor, Range(s))) IN <<tc>> \o Untagged(p, s, tc)

Table(p, t) ==
  LET keys == SetToSeq(DOMAIN t)
  IN EncodeVarint[Len(keys)]
       \o FlattenSeq([i \in DOMAIN keys |-> <<keys[i]>> \o Tagged(p, t[keys[i]])])

(* A map is written with the codes of its keys and values in front of all  *)
(* of them if they have some in common, as a hashtable, or of each.  A key *)
(* takes bytes: the deserializer ends a map where the bytes end.           *)
Silent == {Type.Unknown, Type.Null} \cup Type.BoolFalse .. Type.ByteZero

MapPayload(p, m, tc) ==
  LET keys == SetToSeq(DOMAIN m)
      kts  == Common(CodesFor, DOMAIN m) \ Silent
      vts  == Common(CodesFor, Range(m)) \ {Type.Unknown}
  IN IF tc = Type.Dictionary \/ kts = {} \/ vts = {}
     THEN <<0, 0>> \o EncodeVarint[Len(keys)] \o FlattenSeq(
            [i \in DOMAIN keys |->
               LET k == Some(CodesFor[keys[i]])
                   v == Some(CodesFor[m[keys[i]]])
               IN <<k, v>> \o p[<<keys[i], k>>] \o p[<<m[keys[i]], v>>]])
     ELSE <<Some(kts), Some(vts)>> \o EncodeVarint[Len(keys)] \o FlattenSeq(
            [i \in DOMAIN keys |->
               p[<<keys[i], Some(kts)>>] \o p[<<m[keys[i]], Some(vts)>>]])

ElementsPayload(p, s, tc) ==
  CASE tc = Type.ObjectArray -> AllTagged(p, s)
    [] tc = Type.Array -> OnceTagged(p, s)
    [] tc = Type.Array + Type.Boolean -> PackBits(s)
    [] OTHER -> Untagged(p, s, tc - Type.Array)

ArrayPayload(p, s, tc) == EncodeVarint[Len(s)] \o ElementsPayload(p, s, tc)

(* A code that is not named here is a number: nothing is behind it.        *)
NumberPayload(n, tc) ==
  CASE tc \in {Type.Byte, Type.Int1, Type.Long1}    -> Bytes8(n)
    [] tc \in {Type.Int1Neg, Type.Long1Neg}         -> Bytes8(-n)
    [] tc \in {Type.Short, Type.Int2, Type.Long2}   -> Bytes16(n)
    [] tc \in {Type.Int2Neg, Type.Long2Neg}         -> Bytes16(-n)
    [] tc \in {Type.CompressedInt, Type.CompressedLong} -> EncodeVarint[Zigzag(n)]
    [] OTHER                                        -> NoBytes

BoolPayload(n, tc) == IF tc = Type.Boolean THEN <<IF n THEN 1 ELSE 0>> ELSE <<>>
FloatPayload(n, tc) == IF tc \in {Type.Float, Type.Double} THEN n ELSE <<>>
StringPayload(s) == EncodeVarint[Len(s)] \o s
CustomPayloads(n, tc) ==
  (IF tc = Type.Custom THEN <<n.id>> ELSE <<>>) \o StringPayload(n.data)
MessagePayload(p, n) == <<n.code>> \o Table(p, n.params)
ResponsePayload(p, n) ==
  <<n.code>> \o Bytes16(n.returnCode) \o Tagged(p, <<"string", n.debug>>) \o Table(p, n.params)

PayloadOf(p, v, tc) ==
  CASE v[1] \in ArrayTypes -> ArrayPayload(p, v[2], tc)
    [] v[1] = "map"        -> MapPayload(p, v[2], tc)
    [] v[1] = "bool"       -> BoolPayload(v[2], tc)
    [] v[1] \in {"byte", "int16", "int32", "int64"} -> NumberPayload(v[2], tc)
    [] v[1] \in {"float32", "float64"} -> FloatPayload(v[2], tc)
    [] v[1] = "string"     -> StringPayload(v[2])
    [] v[1] = "custom"     -> CustomPayloads(v[2], tc)
    [] v[1] = "message"    -> MessagePayload(p, v[2])
    [] v[1] = "response"   -> ResponsePayload(p, v[2])
    [] OTHER               -> <<>>

Payload[x \in Encodings] == PayloadOf(Payload, x[1], x[2])

-----------------------------------------------------------------------------
(* The server.                                                             *)
TInit == sent = <<>>

(* The parameters written so far, and their bytes.                         *)
Meant == [i \in DOMAIN sent |-> <<sent[i].key, sent[i].v>>]
Written(i) == <<sent[i].key>> \o sent[i].bytes
Bytes(n) == EncodeVarint[Len(sent)] \o FlattenSeq([i \in 1 .. n |-> Written(i)])

Put(key, v, tc) ==
  sent' = Append(sent, [key |-> key, v |-> v, bytes |-> <<tc>> \o Payload[<<v, tc>>]])

TNext ==
  /\ Len(sent) < MaxParameters
  /\ \E key \in Keys, v \in IF sent = <<>> THEN Values ELSE Followers :
       \E tc \in CodesFor[v] : Put(key, v, tc)

TSpec == TInit /\ [][TNext]_sent

-----------------------------------------------------------------------------
(* Properties.                                                             *)
(* A number in a loot event has its value in the record, and one that      *)
(* names where the loot came from is to isMobName the id that a NewMob     *)
(* event with the same number adds, whatever kinds of numbers they are.    *)
NumbersAsSent ==
  LET record == GrabbedLoot(Parameters(Bytes(Len(sent))))
      IsLast(i) == \A j \in i + 1 .. Len(sent) : sent[j].key # sent[i].key
  IN \A i \in DOMAIN sent : IsLast(i) /\ IsInteger(sent[i].v) =>
       /\ sent[i].key = 5 => record.quantity = sent[i].v[2]
       /\ sent[i].key = 1 =>
            Names!ParseIntStrict(Chars(record.lootedFromName))
              = [ok |-> TRUE, n |-> AsInt(sent[i].v)]

(* The last parameter of a message is cut somewhere and followed by        *)
(* something else: what a hole or another message in its body makes of it. *)
Damaged ==
  IF sent = <<>> THEN {}
  ELSE {Bytes(Len(sent) - 1) \o Take(Written(Len(sent)), k) \o t :
          k \in 0 .. Least(MaxCut, Len(Written(Len(sent))) - 1), t \in Tails}

(* Whatever the bytes are, what is decoded has the ranges of its Go types, *)
(* and no collection has more elements than the bound.                     *)
WellTyped(v) == \A n \in 0 .. MaxNesting : \A x \in Below(v)[n] : WellFormed(x)

TypeOK ==
  \A b \in Damaged : \A e \in Range(ReadEntries(Deserialize, b).v) :
    e[1] \in Byte /\ WellTyped(e[2])

DamageStaysBehind ==
  \A b \in Damaged : IsPrefix(Front(Meant), ReadEntries(Deserialize, b).v)
=============================================================================
