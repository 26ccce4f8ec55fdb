-------------------------------- MODULE Wire --------------------------------
(***************************************************************************)
(* From the game to the handlers, byte by byte: a server writes a message  *)
(* (ParameterTables) and sends it in one command or in fragments, and its  *)
(* payloads are captured in any order, among those of another message.     *)
(* The parser (Payloads) finds the message in them, the decoders           *)
(* (Protocol18) read it, and OnEvent picks a handler by its code.          *)
(*                                                                         *)
(* The parser is AtomicParser here, which PhotonParser implements.         *)
(***************************************************************************)
EXTENDS ParameterTables, CodeTables

CONSTANTS
  Sending,    \* the ways [kind, command, pieces, apart] messages are sent
  Another,    \* [payloads, call]: another message that is under way
  Begun       \* its payload that was captured already

Envelope == INSTANCE Payloads WITH Zero <- 0

VARIABLES
  wire,       \* the payloads that were sent and not captured yet
  parser,     \* photon.Parser: its fragments and counters
  heard,      \* the handlers that were called, and with what, in order
  meant       \* the messages [payloads, call] that were sent; history

-----------------------------------------------------------------------------
(* The decoders and OnEvent on a message that the parser found.            *)
OnEvent(code) ==
  CASE code = EventCodeOtherGrabbedLoot -> "handleGrabbedLoot"
    [] code = EventCodeNewLoot          -> "handleNewLoot"
    [] code = EventCodeNewMob           -> "handleNewMob"
    [] OTHER                            -> "ignored"

Decoded(kind, data) ==
  CASE kind = "events"    -> DecodeEvent(data)
    [] kind = "requests"  -> DecodeRequest(data)
    [] kind = "responses" -> DecodeResponse(data)

Handled(kind, m) == <<IF kind = "events" THEN OnEvent(m.code) ELSE kind, m>>

Call(body) ==
  Handled(Envelope!Kind(body),
          Decoded(Envelope!Kind(body), Drop(Envelope!Sliced(body), 2)))

-----------------------------------------------------------------------------
(* The server.  The code of a message is the number under its key, or a    *)
(* byte in front of the table; a response has a return code and a value    *)
(* there, too.                                                             *)
Lead == 7

SentCode(key) ==
  LET Numbers == {i \in DOMAIN sent : sent[i].key = key}
      v == sent[Max(Numbers)].v
  IN IF Numbers # {} /\ IsInteger(v) THEN Signed16(v[2] % 65536) ELSE Lead

KindByte == [ events    |-> Envelope!msgEvent,
              requests  |-> Envelope!msgOperationRequest,
              responses |-> Envelope!msgOperationRespAlt ]

MessageBytes(kind) ==
  <<243, KindByte[kind], Lead>>
    \o (IF kind = "responses" THEN <<254, 255>> \o sent[1].bytes ELSE <<>>)
    \o Bytes(Len(sent))

(* Whom the message is for and what it says.                               *)
HandlerOf == [ OtherGrabbedLoot |-> "handleGrabbedLoot",
               NewLoot |-> "handleNewLoot", NewMob |-> "handleNewMob" ]

Intended(kind) ==
  LET code == SentCode(IF kind = "events" THEN EventKey ELSE OperationKey)
      name == EventCodeString(code)[1]
      message == [code |-> code, params |-> MapOf(Meant)]
  IN CASE kind = "events"    ->
            <<IF name \in DOMAIN HandlerOf THEN HandlerOf[name] ELSE "ignored", message>>
       [] kind = "requests"  -> <<"requests", message>>
       [] kind = "responses" ->
            <<"responses", message @@ [returnCode |-> -2, debugMessage |-> sent[1].v]>>

(* A message in one command, or cut into fragments that are sent apart or  *)
(* in one payload, the last of them first.                                 *)
Fragments(b, n) ==
  LET End(i) == (Len(b) * i) \div n
  IN [i \in 1 .. n |-> Envelope!SendFragment(-1, n, Len(b), End(i - 1),
                                             SubSeq(b, End(i - 1) + 1, End(i)))]

PayloadsOf(w, b) ==
  LET Ping == Envelope!Bare(5, 0)
      commands == IF w.command = Envelope!cmdSendFragment THEN Fragments(b, w.pieces)
                  ELSE <<Envelope!Send(w.command, b)>>
  IN {Envelope!PacketBytes(Envelope!Whole(cs)) : cs \in
        IF w.apart THEN {<<Ping, c>> : c \in Range(commands)} ELSE {Reverse(commands)}}

WInit ==
  /\ TInit
  /\ wire = Another.payloads /\ meant = {Another}
  /\ parser = Envelope!Parsed(Envelope!NewParser, Begun) /\ heard = <<>>

Composing == Cardinality(meant) = 1

WPut ==
  /\ Composing
  /\ TNext
  /\ UNCHANGED <<wire, parser, heard, meant>>

Sends(kind, payloads) ==
  /\ wire' = wire \cup payloads
  /\ meant' = meant \cup {[payloads |-> payloads, call |-> Intended(kind)]}
  /\ sent' = <<>>
  /\ UNCHANGED <<parser, heard>>

Post(w) ==
  /\ Composing /\ sent # <<>>
  /\ Sends(w.kind, PayloadsOf(w, MessageBytes(w.kind)))

(* A payload is captured and parsed, and the messages in it are handled.   *)
Leaves(after) ==
  /\ parser' = [after EXCEPT !.calls = <<>>]
  /\ heard' = heard \o [n \in DOMAIN after.calls |-> Call(after.calls[n])]

Parse(b) ==
  /\ ~ Composing
  /\ wire' = wire \ {b}
  /\ Leaves(Envelope!Parsed(parser, b))
  /\ UNCHANGED <<sent, meant>>

WNext ==
  \/ WPut
  \/ \E w \in Sending : Post(w)
  \/ \E b \in wire : Parse(b)

WSpec == WInit /\ [][WNext]_<<sent, wire, parser, heard, meant>>

-----------------------------------------------------------------------------
(* Properties.                                                             *)

(* A handler is called for every message whose payloads were all captured, *)
(* in whatever order, exactly once and for no other: the handler that the  *)
(* name of its code stands for, with the code and the parameters that the  *)
(* server meant, whichever of the codes it used for their values.          *)
DispatchedAsSent ==
  LET Whole == {m \in meant : m.payloads \cap wire = {}}
  IN /\ Range(heard) = {m.call : m \in Whole}
     /\ Len(heard) = Cardinality(Whole)
=============================================================================
