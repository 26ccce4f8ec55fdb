-------------------------------- MODULE MCWire -------------------------------
(* Constants for the run of Wire.                                          *)
EXTENDS Wire

Zeros(n) == [k \in 1 .. n |-> 0]

(* The floats below are zero or next to it.                                *)
Zero(bits) == 0
ZeroOrOther(v) == IF IsFloat(v) /\ v[2][1] = 0 THEN <<48>> ELSE <<0>>

Int32(n) == <<"int32", n>>
String(s) == <<"string", s>>

Plain == {
  Nil, <<"bool", TRUE>>, <<"byte", 0>>, <<"byte", 200>>,
  <<"int16", 0>>, <<"int16", -2>>, <<"int16", 32767>>,
  <<"byte", 98>>, <<"int16", 123>>, Int32(278),
  Int32(0), Int32(1), Int32(-1), Int32(255), Int32(-65535),
  Int32(2 ^ (IntBits - 1) - 1), Int32(-(2 ^ (IntBits - 1))),
  <<"int64", 0>>, <<"int64", -300>>, <<"int64", 70000>>,
  <<"int64", 2 ^ (LongBits - 1) - 1>>, <<"int64", -(2 ^ (LongBits - 1))>>,
  <<"float32", Zeros(4)>>, <<"float64", <<1, 2, 3, 4, 5, 6, 7, 8>>>>,
  String(<<>>), String(<<45, 50>>), String([k \in 1 .. 130 |-> 65]) }

Made == {
  <<"[]bool", <<<<"bool", TRUE>>, <<"bool", FALSE>>, <<"bool", TRUE>>>>>>,
  <<"[]byte", <<<<"byte", 9>>>>>>,
  <<"[]int16", <<<<"int16", -1>>, <<"int16", 258>>>>>>,
  <<"[]string", <<String(<<65>>), String(<<>>)>>>>,
  <<"[]int32", <<Int32(-70), Int32(3)>>>>, <<"[]int64", <<>>>>,
  <<"[]float64", <<<<"float64", Zeros(8)>>>>>>,
  <<"[]interface{}", <<Int32(5), Int32(-5)>>>>,
  <<"[]interface{}", <<<<"[]byte", <<<<"byte", 1>>>>>>, <<"[]byte", <<>>>>>>>>,
  <<"[]interface{}", <<Nil, String(<<66>>)>>>>,
  <<"map", [k \in {Int32(1), Int32(2)} |-> String(<<67>>)]>>,
  <<"map", [k \in {Int32(1), String(<<68>>)} |-> k]>>,
  <<"custom", [id |-> 3, data |-> <<1, 2>>]>>,
  <<"message", [code |-> 2, params |-> [k \in {1, 9} |-> Int32(k)]]>>,
  <<"response", [code |-> 2, returnCode |-> -1, debug |-> <<69>>,
                 params |-> [k \in {3} |-> <<"bool", FALSE>>]]>> }

AllValues == Plain \cup Made
FewValues == {Int32(278)}

(* An event NewMob of object 1, in two fragments.                          *)
Mob == <<243, 4, 1, 2, 0, 11, 1, 252, 3, 123>>
MobPart(from, to) ==
  Envelope!PacketBytes(Envelope!Whole(
    <<Envelope!SendFragment(70000, 2, Len(Mob), from - 1, SubSeq(Mob, from, to))>>))

MobEvent ==
  [ payloads |-> {MobPart(7, 10)},
    call |-> <<"handleNewMob",
               [code |-> 123, params |-> MapOf(<<<<0, Int32(1)>>, <<252, <<"byte", 123>>>>>>)]>> ]

MobBegun == MobPart(1, 6)

Ways(kinds, command, pieces, apart) ==
  [kind : kinds, command : {command}, pieces : {pieces}, apart : {apart}]

AllWays ==
  Ways({"events"}, Envelope!cmdSendReliable, 1, TRUE)
    \cup Ways({"requests"}, Envelope!cmdSendUnreliable, 1, FALSE)
    \cup Ways({"events", "responses"}, Envelope!cmdSendFragment, 2, TRUE)
    \cup Ways({"requests"}, Envelope!cmdSendFragment, 3, FALSE)

(* The end; a hole; collections of more elements than there are; a varint  *)
(* without an end; a map of nested keys; a message, a slim custom value.   *)
SomeTails == {
  <<>>, Zeros(6), <<23, 127, 8>>, <<72, 255, 255, 255, 255, 1>>,
  <<20, 0, 0, 2, 23, 8, 1, 8, 8, 2, 1>>, <<66, 127, 5, 1, 90, 99>>,
  <<25, 1, 2, 3, 7, 1, 65, 9, 252, 9>>, <<130, 9, 1>> }
=============================================================================
