----------------------------- MODULE Reassembly -----------------------------
(***************************************************************************)
(* Parser.handleFragment as a state machine: fragments of messages sent by *)
(* the game's peers arrive from the wire, and a body goes to               *)
(* Parser.handleMessage when a buffer counts as finished.                  *)
(*                                                                         *)
(* The wire is UDP seen by a sniffer: a fragment may never be captured,    *)
(* may be captured again (a retransmission, or a second capture device)    *)
(* and may come in any order; anything else that looks like a fragment     *)
(* (Noise) may come between them.                                          *)
(***************************************************************************)
EXTENDS Fragments, Sequences, FiniteSets, Subsequences

CONSTANTS
  Msg,          \* messages that some peer sends as fragments
  StartSeqOf,   \* StartSeqOf[m]: the startSequenceNumber in m's fragments
  Count,        \* Count[m]: how many fragments m has
  Cut,          \* fragment i of m is its bytes Cut[m][i] .. Cut[m][i+1]-1
  Noise,        \* other fragment commands: any record of Fragments
  MaxCaptures,  \* how often one fragment can be captured (a bound)
  MaxNoise      \* how often another command can be captured (a bound)

Index(m) == 0 .. Count[m] - 1
Total(m) == Cut[m][Count[m]]
Byte(m, k) == [msg |-> m, at |-> k]

ASSUME MsgAssumption ==
  /\ MaxCaptures \in Nat /\ MaxNoise \in Nat
  /\ StartSeqOf \in [Msg -> Int]
  /\ Count \in [Msg -> Nat \ {0}]
  /\ \A m \in Msg :
       /\ Cut[m] \in [0 .. Count[m] -> Nat]
       /\ Cut[m][0] = 0
       /\ \A i, j \in 0 .. Count[m] : i < j => Cut[m][i] < Cut[m][j]
       /\ \A k \in 0 .. Total(m) - 1 : Byte(m, k) # Zero

ASSUME NoiseAssumption ==
  \A f \in Noise :
    /\ f.startSeq \in Int /\ f.fragCount \in Int /\ f.totalLen \in Int
    /\ f.fragOffset \in Int /\ f.payloadLen \in Nat
    /\ DOMAIN f.payload = 0 .. f.payloadLen - 1
    /\ \A j \in DOMAIN f.payload : \A m \in Msg :
         \A k \in 0 .. Total(m) - 1 : f.payload[j] # Byte(m, k)

VARIABLES
  fragments,    \* Parser.fragments: startSequenceNumber -> *fragmentBuffer
  captured,     \* captured[m][i]: how often fragment i of m was captured
  noise,        \* noise[f]: how often the other command f was captured
  handed        \* the bodies given to handleMessage, oldest first

vars == <<fragments, captured, noise, handed>>

Original(m) == [k \in 0 .. Total(m) - 1 |-> Byte(m, k)]

(* Fragment i of m as its sender cuts it.                                  *)
FragmentOf(m, i) ==
  [ startSeq   |-> StartSeqOf[m],
    fragCount  |-> Count[m],
    totalLen   |-> Total(m),
    fragOffset |-> Cut[m][i],
    payloadLen |-> Cut[m][i + 1] - Cut[m][i],
    payload    |-> [j \in 0 .. Cut[m][i + 1] - Cut[m][i] - 1 |->
                      Byte(m, Cut[m][i] + j)] ]

-----------------------------------------------------------------------------
Init ==
  /\ fragments = [s \in {} |-> Zero]
  /\ captured = [m \in Msg |-> [i \in Index(m) |-> 0]]
  /\ noise = [f \in Noise |-> 0]
  /\ handed = <<>>

Discard(f) ==
  /\ Nonsensical(f)
  /\ UNCHANGED <<fragments, handed>>

(* The panic is recovered in Parse; the table keeps what it had.           *)
Panic(f) ==
  /\ ~ Nonsensical(f)
  /\ OffsetPanics(BufferFor(fragments, f), f)
  /\ UNCHANGED <<fragments, handed>>

Keep(f) ==
  /\ ~ Nonsensical(f)
  /\ ~ OffsetPanics(BufferFor(fragments, f), f)
  /\ LET b == Filled(BufferFor(fragments, f), f) IN
       /\ ~ Finished(b)
       /\ fragments' = With(fragments, f.startSeq, b)
  /\ UNCHANGED handed

Deliver_EachTest(f) ==
  /\ ~ Nonsensical(f)
  /\ ~ OffsetPanics(BufferFor(fragments, f), f)
  /\ LET b == Filled(BufferFor(fragments, f), f) IN
       /\ Finished(b)
       /\ handed' = IF /\ b.fragmentsReceived >= b.fragmentCount
                       /\ b.bytesWritten >= b.totalLength
                    THEN handed \o <<b.data, b.data>>
                    ELSE Append(handed, b.data)
  /\ fragments' = Without(fragments, f.startSeq)

Deliver(f) ==
  /\ ~ Nonsensical(f)
  /\ ~ OffsetPanics(BufferFor(fragments, f), f)
  /\ LET b == Filled(BufferFor(fragments, f), f) IN
       /\ Finished(b)
       /\ handed' = Append(handed, b.data)
  /\ fragments' = Without(fragments, f.startSeq)

HandleFragment(f) == Discard(f) \/ Panic(f) \/ Keep(f) \/ Deliver(f)

Capture(m, i) ==
  /\ captured[m][i] < MaxCaptures
  /\ captured' = [captured EXCEPT ![m][i] = @ + 1]
  /\ HandleFragment(FragmentOf(m, i))
  /\ UNCHANGED noise

CaptureNoise(f) ==
  /\ noise[f] < MaxNoise
  /\ noise' = [noise EXCEPT ![f] = @ + 1]
  /\ HandleFragment(f)
  /\ UNCHANGED captured

Next ==
  \/ \E m \in Msg : \E i \in Index(m) : Capture(m, i)
  \/ \E f \in Noise : CaptureNoise(f)

Spec == Init /\ [][Next]_vars

-----------------------------------------------------------------------------
(* Properties.                                                             *)

BytesOf(m) == {Byte(m, k) : k \in 0 .. Total(m) - 1}
Carries(body, m) == \E k \in DOMAIN body : body[k] \in BytesOf(m)
Seen(m) == {i \in Index(m) : captured[m][i] # 0}

(* Nothing else on the wire uses m's start sequence number.                *)
Alone(m) ==
  /\ \A n \in Msg : n # m => StartSeqOf[n] # StartSeqOf[m]
  /\ \A f \in Noise : f.startSeq # StartSeqOf[m]

(* What the comments on Parser assume of a captured message: it belongs to *)
(* the one stream, and no fragment of it was captured twice.               *)
Clean(m) == Alone(m) /\ \A i \in Index(m) : captured[m][i] <= 1

TypeOK ==
  /\ DOMAIN fragments \subseteq Int
  /\ \A s \in DOMAIN fragments :
       LET b == fragments[s] IN
         /\ b.totalLength \in Nat /\ b.bytesWritten \in Nat
         /\ b.fragmentsReceived \in Nat /\ b.fragmentCount \in Int
         /\ DOMAIN b.data = 0 .. b.totalLength - 1
  /\ DOMAIN captured = Msg
  /\ \A m \in Msg : captured[m] \in [Index(m) -> 0 .. MaxCaptures]
  /\ noise \in [Noise -> 0 .. MaxNoise]
  /\ handed \in Seq(Range(handed))

(* A clean message reaches handleMessage whole or not at all, whatever     *)
(* order its fragments came in and whatever else was captured meanwhile.   *)
CleanWhole ==
  \A m \in Msg : Clean(m) =>
    \A j \in DOMAIN handed :
      Carries(handed[j], m) => handed[j] = Original(m)

(* It does so when all its fragments were captured and never before: the   *)
(* two completion tests of handleFragment agree on a clean message.        *)
CleanHandedOver ==
  \A m \in Msg : Clean(m) =>
    (Seen(m) = Index(m) <=> \E j \in DOMAIN handed : Carries(handed[j], m))

(* And only once.                                                          *)
CleanOnce ==
  \A m \in Msg : Clean(m) =>
    \A j, k \in DOMAIN handed :
      Carries(handed[j], m) /\ Carries(handed[k], m) => j = k

(* The table holds a buffer for a clean message exactly while some but not *)
(* all of its fragments were captured: a finished message leaves nothing,  *)
(* one with a lost fragment stays for good.                                *)
CleanBuffered ==
  \A m \in Msg : Clean(m) =>
    (StartSeqOf[m] \in DOMAIN fragments <=> Seen(m) \notin {{}, Index(m)})

(* Retransmissions can leave holes in a body that is handed over, but they *)
(* never move a byte or change the body's length.                          *)
HolesOnly ==
  \A m \in Msg : Alone(m) =>
    \A j \in DOMAIN handed : Carries(handed[j], m) =>
      /\ DOMAIN handed[j] = DOMAIN Original(m)
      /\ \A k \in DOMAIN handed[j] : handed[j][k] \in {Zero, Byte(m, k)}

(* What the comment on handleMessage says: the body it decodes is a        *)
(* reassembled Photon message (parser.go:290).                             *)
BodiesReassembled ==
  \A j \in DOMAIN handed : \E m \in Msg : handed[j] = Original(m)

(* No body mixes the bytes of two messages: what "one logical connection"  *)
(* in the comment on Parser would give.                                    *)
BodiesUnmixed ==
  \A j \in DOMAIN handed : \A m, n \in Msg :
    Carries(handed[j], m) /\ Carries(handed[j], n) => m = n

-----------------------------------------------------------------------------
(* Why these properties hold.  The buffer of a clean message is what the   *)
(* fragments seen so far make of an empty one; no byte of a message that   *)
(* is alone on its number is in another number's buffer; and what the      *)
(* buffer on its own number holds is the message with holes.  IInv is      *)
(* inductive (ReassemblyProofs).                                           *)

Covered(m, K) ==
  {k \in 0 .. Total(m) - 1 : \E i \in K : Cut[m][i] <= k /\ k < Cut[m][i + 1]}

Partial(m, K) ==
  [ totalLength       |-> Total(m),
    bytesWritten      |-> Cardinality(Covered(m, K)),
    data              |-> [k \in 0 .. Total(m) - 1 |->
                             IF k \in Covered(m, K) THEN Byte(m, k) ELSE Zero],
    fragmentsReceived |-> Cardinality(K),
    fragmentCount     |-> Count[m] ]

Separate(m) ==
  \A s \in DOMAIN fragments :
    Carries(fragments[s].data, m) => s = StartSeqOf[m]

MessageOK(m) ==
  /\ StartSeqOf[m] \in DOMAIN fragments <=> Seen(m) \notin {{}, Index(m)}
  /\ StartSeqOf[m] \in DOMAIN fragments => fragments[StartSeqOf[m]] = Partial(m, Seen(m))
  /\ \A j \in DOMAIN handed : Carries(handed[j], m) => handed[j] = Original(m)
  /\ Seen(m) = Index(m) <=> \E j \in DOMAIN handed : Carries(handed[j], m)
  /\ \A j, k \in DOMAIN handed :
       Carries(handed[j], m) /\ Carries(handed[k], m) => j = k

Holey(d, m) ==
  /\ DOMAIN d = 0 .. Total(m) - 1
  /\ \A k \in DOMAIN d : d[k] \in {Zero, Byte(m, k)}

HolesOK(m) ==
  /\ StartSeqOf[m] \in DOMAIN fragments => Holey(fragments[StartSeqOf[m]].data, m)
  /\ \A j \in DOMAIN handed : Carries(handed[j], m) => Holey(handed[j], m)

IInv ==
  /\ TypeOK
  /\ \A m \in Msg : Alone(m) => Separate(m) /\ HolesOK(m)
  /\ \A m \in Msg : Clean(m) => MessageOK(m)

-----------------------------------------------------------------------------
(* For the messages that are alone on their number the table implements    *)
(* the abstract hand-over of whole messages.                               *)
Lonely == {m \in Msg : Alone(m)}

Repeated == {m \in Lonely : \E i \in Index(m) : captured[m][i] > 1}
OfClean(body) == \E m \in Lonely \ Repeated : Carries(body, m)
MessageIn(body) ==
  IF \E m \in Msg : body = Original(m) THEN CHOOSE m \in Msg : body = Original(m)
                                       ELSE body

Missing == [m \in Lonely |-> Index(m) \ Seen(m)]
Out ==
  LET whole == {b \in Range(handed) : OfClean(b)}
      bodies == Filtered(handed, whole)
  IN [j \in DOMAIN bodies |-> MessageIn(bodies[j])]

Whole == INSTANCE WholeMessages WITH
  Msg <- Lonely, missing <- Missing, repeated <- Repeated, out <- Out

WholeMessagesSpec == Whole!Spec
=============================================================================
