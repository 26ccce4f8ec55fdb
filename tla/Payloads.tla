------------------------------ MODULE Payloads ------------------------------
(***************************************************************************)
(* photon.Parser on the bytes of a UDP payload (internal/photon/parser.go  *)
(* and the reader of protocol18.go), a whole payload at a time.  A payload *)
(* is a sequence of bytes; the numbers in the headers are big-endian.      *)
(***************************************************************************)
EXTENDS Packets

(* What Parse leaves behind and what it found.                             *)
NewParser ==
  [ table  |-> [s \in {} |-> Zero],
    counts |-> [f \in {"messages", "events", "requests", "responses"} |-> 0],
    calls  |-> <<>> ]

-----------------------------------------------------------------------------
(* reader.                                                                 *)
(* readInt32 at the k-th byte, two's complement.                           *)
Int32(b, k) ==
  LET high == IF b[k] < 128 THEN b[k] ELSE b[k] - 256
  IN ((high * 256 + b[k + 1]) * 256 + b[k + 2]) * 256 + b[k + 3]

(* The unread bytes, once n of them were read.                             *)
Unread(b, n) == SubSeq(b, n + 1, Len(b))

FragmentIn(body) ==
  [ startSeq   |-> Int32(body, 1),
    fragCount  |-> Int32(body, 5),
    totalLen   |-> Int32(body, 13),
    fragOffset |-> Int32(body, 17),
    payloadLen |-> Len(body) - FragmentHeaderLen,
    payload    |-> Slice(Unread(body, FragmentHeaderLen)) ]

-----------------------------------------------------------------------------
(* The effect of a message and of a command on a state                     *)
(* [table, counts, calls, rest, open]: the bytes in rest are unread, and   *)
(* the payload is dropped once it is not open.                             *)
OneMore(n, f) == [n EXCEPT ![f] = @ + 1]
Counted(st, f) == [st EXCEPT !.counts = OneMore(@, f)]
Called(st, body) == [st EXCEPT !.calls = Append(@, body)]
Buffering(st, t) == [st EXCEPT !.table = t]
Past(st, n) == [st EXCEPT !.rest = Unread(@, n)]
Dropped(st) == [st EXCEPT !.open = FALSE]

Tell(st, body) ==
  LET seen == Counted(st, "messages")
  IN IF ~ Dispatched(body) THEN st
     ELSE IF ~ Decodes(body) THEN seen
     ELSE Called(Counted(seen, Kind(body)), body)

Reassemble(st, f) ==
  LET buf == BufferFor(st.table, f)
      b   == Filled(buf, f)
  IN IF Nonsensical(f) THEN st
     ELSE IF OffsetPanics(buf, f) THEN Dropped(st)
     ELSE IF Finished(b) THEN Tell(Buffering(st, Without(st.table, f.startSeq)), b.data)
     ELSE Buffering(st, With(st.table, f.startSeq, b))

(* The command starts with its type; its length field is the fifth byte to *)
(* the eighth and counts the header, too.                                  *)
Carried(st, type, body) ==
  CASE type = cmdSendReliable -> Tell(st, Slice(body))
    [] type = cmdSendUnreliable /\ Len(body) < UnreliableSeqLen ->
         Dropped(st)
    [] type = cmdSendUnreliable /\ Len(body) >= UnreliableSeqLen ->
         Tell(st, Slice(Unread(body, UnreliableSeqLen)))
    [] type = cmdSendFragment /\ Len(body) >= FragmentHeaderLen ->
         Reassemble(st, FragmentIn(body))
    [] OTHER -> st

Command(st) ==
  LET n == Int32(st.rest, 5)
  IN IF ~ st.open THEN st
     ELSE IF Len(st.rest) < HeaderLen \/ n < HeaderLen \/ n > Len(st.rest)
     THEN Dropped(st)
     ELSE Carried(Past(st, n), st.rest[1],
                  SubSeq(st.rest, HeaderLen + 1, n))

(* The loop over the commands, whose number is the fourth byte: what there *)
(* is after n of them.                                                     *)
After(st, b) ==
  LET start == [ table |-> st.table, counts |-> st.counts, calls |-> st.calls,
                 rest |-> Unread(b, HeaderLen), open |-> TRUE ]
      after[n \in 0 .. b[4]] == IF n = 0 THEN start ELSE Command(after[n - 1])
  IN after

Parsed(st, b) ==
  LET end == After(st, b)[b[4]]
  IN IF Len(b) < HeaderLen THEN st
     ELSE [table |-> end.table, counts |-> end.counts, calls |-> end.calls]

-----------------------------------------------------------------------------
(* The bytes of a packet and of the commands in it, as a peer writes them: *)
(* the reference, after wrapReliableMessage of parser_test.go.             *)
Zeros(n) == [k \in 1 .. n |-> 0]

High(n) == n \div 256

Int32Type == {n \in Int : High(High(High(n))) \in -128 .. 127}

Int32Bytes(n) ==
  <<High(High(High(n))) % 256, High(High(n)) % 256, High(n) % 256, n % 256>>

Sliced(body) == [k \in 1 .. Size(body) |-> body[k - 1]]

FragmentBytes(f) ==
  Int32Bytes(f.startSeq) \o Int32Bytes(f.fragCount) \o Zeros(4)
    \o Int32Bytes(f.totalLen) \o Int32Bytes(f.fragOffset) \o Sliced(f.payload)

BodyBytes(c) ==
  CASE ShortBody(c) \/ Skipped(c)   -> Zeros(BodyLen(c))
    [] c.type = cmdSendReliable     -> Sliced(c.body)
    [] c.type = cmdSendUnreliable /\ ~ ShortBody(c) ->
         Zeros(UnreliableSeqLen) \o Sliced(c.body)
    [] CarriesFragment(c) ->
         FragmentBytes(c.frag)

CommandBytes(c) ==
  <<c.type, 0, 1, 0>> \o Int32Bytes(c.length) \o Zeros(4) \o BodyBytes(c)

(* Written(p)[n] is the header and n commands; a packet may be cut short.  *)
Written(p) ==
  LET written[n \in 0 .. Len(p.cmds)] ==
        IF n = 0 THEN <<0, 1, 0, p.count>> \o Zeros(8)
                 ELSE written[n - 1] \o CommandBytes(p.cmds[n])
  IN written

PacketBytes(p) == SubSeq(Written(p)[Len(p.cmds)], 1, p.size)
=============================================================================
