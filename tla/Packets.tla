------------------------------- MODULE Packets -------------------------------
(***************************************************************************)
(* What photon.Parser makes of a UDP payload, one command and one message  *)
(* at a time (internal/photon/parser.go).  No state here.                  *)
(*                                                                         *)
(* A packet is [size, count, cmds]: the length of the payload, the command *)
(* count in its header and the commands laid out in it.  A command is      *)
(* [type, length, body, frag]: its type, the length field (header          *)
(* included), the message in it, a function on 0 .. n-1, if it is a        *)
(* reliable or unreliable command, and the fragment in it (a record of     *)
(* Fragments) if it is a fragment command long enough for one.             *)
(***************************************************************************)
EXTENDS Fragments, Sequences, FiniteSets, SequencesExt

cmdSendReliable   == 6
cmdSendUnreliable == 7
cmdSendFragment   == 8

msgOperationRequest  == 2
msgOperationResponse == 3
msgEvent             == 4
msgOperationRespAlt  == 7

HeaderLen == 12          \* the packet header, and a command's header
FragmentHeaderLen == 20
UnreliableSeqLen == 4

NoPacket == [size |-> 0, count |-> 0, cmds |-> <<>>]

-----------------------------------------------------------------------------
BodyLen(c) == c.length - HeaderLen

(* The header of the next command and the body it announces fit into the   *)
(* bytes that are left; parseCommand gives up on the packet if not.        *)
CommandFits_AnyBody(p, at, left) ==
  /\ at < Len(p.cmds) /\ left >= HeaderLen
  /\ BodyLen(p.cmds[at + 1]) >= 0

CommandFits(p, at, left) ==
  /\ at < Len(p.cmds) /\ left >= HeaderLen
  /\ BodyLen(p.cmds[at + 1]) >= 0
  /\ BodyLen(p.cmds[at + 1]) <= left - HeaderLen

(* readCommandBody fails: no room for the unreliable sequence number.      *)
ShortBody(c) == c.type = cmdSendUnreliable /\ BodyLen(c) < UnreliableSeqLen

CarriesMessage(c) == c.type \in {cmdSendReliable, cmdSendUnreliable}
CarriesFragment(c) == c.type = cmdSendFragment /\ BodyLen(c) >= FragmentHeaderLen
Skipped(c) == ~ CarriesMessage(c) /\ ~ CarriesFragment(c)

-----------------------------------------------------------------------------
(* handleMessage looks at the second byte of the body.                     *)
Size(body) == Cardinality(DOMAIN body)

Kind(body) ==
  IF Size(body) < 2 THEN "none"
  ELSE IF body[1] = msgEvent THEN "events"
  ELSE IF body[1] = msgOperationRequest THEN "requests"
  ELSE IF body[1] \in {msgOperationResponse, msgOperationRespAlt} THEN "responses"
  ELSE "none"

Dispatched(body) == Kind(body) # "none"

(* decodeEvent, decodeRequest and decodeResponse return early on less data *)
(* than the code, or the code and the return code, take.                   *)
Decodes(body) == Size(body) - 2 >= IF Kind(body) = "responses" THEN 3 ELSE 1
-----------------------------------------------------------------------------
(* Commands and packets as a peer makes them of bytes (the reference).     *)
Slice(b) == [k \in 0 .. Len(b) - 1 |-> b[k + 1]]

NoFragment == [startSeq |-> 0]

Bare(type, n) ==
  [type |-> type, length |-> HeaderLen + n, body |-> Slice(<<>>), frag |-> NoFragment]

Send(type, b) ==
  LET n == IF type = cmdSendUnreliable THEN UnreliableSeqLen ELSE 0
  IN [Bare(type, n + Len(b)) EXCEPT !.body = Slice(b)]

SendFragment(seq, n, total, offset, b) ==
  [Bare(cmdSendFragment, FragmentHeaderLen + Len(b)) EXCEPT
     !.frag = [ startSeq |-> seq, fragCount |-> n, totalLen |-> total,
                fragOffset |-> offset, payloadLen |-> Len(b), payload |-> Slice(b) ]]

Whole(cmds) ==
  [ count |-> Len(cmds), cmds |-> cmds,
    size |-> FoldLeft(LAMBDA n, c : n + c.length, HeaderLen, cmds) ]
=============================================================================
