------------------------------ MODULE MCCapture ------------------------------
(* Constants for the runs of Capture.                                      *)
EXTENDS Capture, TLC

CONSTANTS d1, d2

Is(udp, port, first, size) == [udp |-> udp, port |-> port, first |-> first, size |-> size]

(* Two kinds of Photon packet; an empty one, a short one on another port,  *)
(* an IPv4 fragment.                                                       *)
OnPort == Is(TRUE, TRUE, FALSE, 2)
OffPort == Is(TRUE, FALSE, TRUE, 3)
Packets == {OnPort, OffPort, Is(TRUE, TRUE, TRUE, 0), Is(TRUE, FALSE, TRUE, 2),
            Is(FALSE, FALSE, FALSE, 9)}
FewPackets == {OnPort, Is(FALSE, FALSE, FALSE, 9)}
=============================================================================
