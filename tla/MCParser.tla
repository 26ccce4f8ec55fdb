------------------------------ MODULE MCParser ------------------------------
(* Constants for the runs of PhotonParser.                                 *)
EXTENDS PhotonParser, TLC

CONSTANTS d1, d2, Sig, Data

AllBytes == 0 .. 255 \cup {Sig, Data}

Cropped(p, n) == [p EXCEPT !.size = @ - n]

AnEvent == <<Sig, msgEvent, Data>>
ARequest == <<Sig, msgOperationRequest, Data>>
AResponse == <<Sig, msgOperationRespAlt, Data, Data, Data>>

(* A response in two fragments, each beside another message; a fragment on *)
(* the same number that lies beyond what the first made room for.          *)
Half1 == SendFragment(1, 2, 5, 0, <<Sig, msgOperationRespAlt, Data>>)
Half2 == SendFragment(1, 2, 5, 3, <<Data, Data>>)
Beyond == SendFragment(1, 2, 9, 7, <<Data>>)

P1 == Whole(<<Send(cmdSendReliable, AnEvent), Half1>>)
P2 == Whole(<<Half2, Send(cmdSendUnreliable, ARequest)>>)
P3 == Whole(<<Beyond, Send(cmdSendReliable, AnEvent)>>)

(* Packets that end early: no whole header, a body longer than the packet, *)
(* no room for the unreliable sequence number, more commands announced     *)
(* than sent, a command shorter than its header.                           *)
P4 == [size |-> 8, count |-> 1, cmds |-> <<>>]
P5 == Cropped(Whole(<<Send(cmdSendReliable, AnEvent),
                      Send(cmdSendReliable, ARequest)>>), 1)
P6 == Whole(<<Send(cmdSendReliable, ARequest), Bare(cmdSendUnreliable, 3),
              Send(cmdSendReliable, AnEvent)>>)
P7 == [P1 EXCEPT !.count = 3]
P9 == [size |-> 24, count |-> 2, cmds |-> <<Bare(cmdSendReliable, -1)>>]

(* Packets with commands or messages that are passed over.                 *)
P8 == Whole(<<Bare(5, 0), Bare(cmdSendFragment, 19),
              SendFragment(1, 2, 5, -1, <<Data>>), Send(cmdSendReliable, <<Sig>>),
              Send(cmdSendReliable, <<Sig, 131, Data>>),
              Send(cmdSendReliable, <<Sig, msgEvent>>),
              Send(cmdSendReliable, <<Sig, msgOperationResponse, Data, Data>>),
              Send(cmdSendReliable, AnEvent)>>)

AllPackets == {P1, P2, P3, P4, P5, P6, P7, P8, P9}
=============================================================================
