-------------------------- MODULE ReassemblyProofs --------------------------
(***************************************************************************)
(* The properties of Reassembly for any messages, any other traffic and    *)
(* any number of captures.                                                 *)
(***************************************************************************)
EXTENDS Reassembly, FiniteSetTheorems, DataLemmas, TLAPS

(* What every fragment that reaches the table is: a decoded header and a   *)
(* payload of the length the header leaves.                                *)
WellFormed(f) ==
  /\ f.startSeq \in Int /\ f.fragCount \in Int /\ f.totalLen \in Int
  /\ f.fragOffset \in Int /\ f.payloadLen \in Nat
  /\ DOMAIN f.payload = 0 .. f.payloadLen - 1

Foreign(f, m) == \A j \in DOMAIN f.payload : f.payload[j] \notin BytesOf(m)

SpanOf(m, i) == Cut[m][i] .. Cut[m][i + 1] - 1

-----------------------------------------------------------------------------
(* How a message is cut.                                                   *)

(* The cuts of a message are numbers in increasing order.                  *)
LEMMA CutFacts ==
  ASSUME NEW m \in Msg
  PROVE  /\ Count[m] \in Nat \ {0} /\ StartSeqOf[m] \in Int
         /\ \A i \in 0 .. Count[m] : Cut[m][i] \in Nat
         /\ Total(m) \in Nat /\ Cut[m][0] = 0 /\ Total(m) > 0
         /\ \A i \in Index(m) :
              /\ i \in Nat /\ i + 1 \in 0 .. Count[m]
              /\ Cut[m][i] \in Nat /\ Cut[m][i + 1] \in Nat
              /\ Cut[m][i] < Cut[m][i + 1] /\ Cut[m][i + 1] <= Total(m)
         /\ \A i, j \in Index(m) : i < j => Cut[m][i + 1] <= Cut[m][j]
<1>1. /\ Count[m] \in Nat \ {0} /\ StartSeqOf[m] \in Int
      /\ Cut[m] \in [0 .. Count[m] -> Nat] /\ Cut[m][0] = 0
      /\ \A i, j \in 0 .. Count[m] : i < j => Cut[m][i] < Cut[m][j]
  BY MsgAssumption
<1>2. /\ \A i \in 0 .. Count[m] : Cut[m][i] \in Nat
      /\ Total(m) \in Nat /\ Total(m) > 0
  BY <1>1 DEF Total
<1>3. \A i \in Index(m) :
        /\ i \in Nat /\ i + 1 \in 0 .. Count[m]
        /\ Cut[m][i] \in Nat /\ Cut[m][i + 1] \in Nat
        /\ Cut[m][i] < Cut[m][i + 1]
  BY <1>1, <1>2 DEF Index
<1>4. \A i \in Index(m) : Cut[m][i + 1] <= Total(m)
  <2> SUFFICES ASSUME NEW i \in Index(m) PROVE Cut[m][i + 1] <= Total(m)
    OBVIOUS
  <2>1. CASE i + 1 = Count[m]
    BY <1>3, <2>1 DEF Total
  <2>2. CASE i + 1 < Count[m]
    BY <1>1, <1>2, <1>3, <2>2 DEF Total
  <2> QED
    BY <1>1, <1>3, <2>1, <2>2
<1>5. \A i, j \in Index(m) : i < j => Cut[m][i + 1] <= Cut[m][j]
  <2> SUFFICES ASSUME NEW i \in Index(m), NEW j \in Index(m), i < j
               PROVE  Cut[m][i + 1] <= Cut[m][j]
    OBVIOUS
  <2>1. CASE i + 1 = j
    BY <1>3, <2>1
  <2>2. CASE i + 1 < j
    <3>1. i + 1 \in 0 .. Count[m] /\ j \in 0 .. Count[m]
      BY <1>1, <1>3 DEF Index
    <3>2. Cut[m][i + 1] < Cut[m][j]
      BY <1>1, <2>2, <3>1
    <3> QED
      BY <1>3, <3>2
  <2> QED
    BY <1>3, <2>1, <2>2
<1> QED
  BY <1>1, <1>2, <1>3, <1>4, <1>5

(* Every byte of a message lies in one of its fragments.                   *)
LEMMA CutCovers ==
  ASSUME NEW m \in Msg, NEW k \in 0 .. Total(m) - 1
  PROVE  \E i \in Index(m) : Cut[m][i] <= k /\ k < Cut[m][i + 1]
<1> DEFINE T == {i \in 0 .. Count[m] : k < Cut[m][i]}
<1>1. Count[m] \in T
  BY CutFacts DEF Total
<1>2. T \in SUBSET Nat
  BY CutFacts
<1>3. PICK n \in T : \A j \in T : n <= j
  BY <1>1, <1>2, LeastNatural, Zenon
<1>4. n \in 0 .. Count[m] /\ k < Cut[m][n] /\ n # 0
  BY CutFacts
<1>5. n - 1 \in Index(m) /\ n - 1 \notin T
  BY <1>3, <1>4, CutFacts DEF Index
<1>6. Cut[m][n - 1] <= k
  BY <1>4, <1>5, CutFacts
<1> QED
  BY <1>4, <1>5, <1>6, CutFacts

(* One more fragment covers its own bytes and no byte covered before.      *)
LEMMA CoveredAdd ==
  ASSUME NEW m \in Msg, NEW K \in SUBSET Index(m),
         NEW i \in Index(m), i \notin K
  PROVE  /\ IsFiniteSet(Covered(m, K))
         /\ Covered(m, K \cup {i}) = Covered(m, K) \cup SpanOf(m, i)
         /\ Covered(m, K) \cap SpanOf(m, i) = {}
         /\ Cardinality(Covered(m, K \cup {i}))
              = Cardinality(Covered(m, K)) + (Cut[m][i + 1] - Cut[m][i])
<1>1. IsFiniteSet(Covered(m, K))
  <2>1. IsFiniteSet(0 .. Total(m) - 1)
    BY FS_Interval, CutFacts
  <2> QED
    BY <2>1, FS_Subset DEF Covered
<1>2. Covered(m, K \cup {i}) = Covered(m, K) \cup SpanOf(m, i)
  BY CutFacts DEF Covered, SpanOf
<1>3. Covered(m, K) \cap SpanOf(m, i) = {}
  <2> SUFFICES ASSUME NEW k \in Covered(m, K), k \in SpanOf(m, i)
               PROVE  FALSE
    OBVIOUS
  <2>1. k \in Nat /\ Cut[m][i] <= k /\ k < Cut[m][i + 1]
    BY CutFacts DEF SpanOf, Covered
  <2>2. PICK j \in K : Cut[m][j] <= k /\ k < Cut[m][j + 1]
    BY DEF Covered
  <2>3. i < j \/ j < i
    BY CutFacts
  <2> QED
    BY <2>1, <2>2, <2>3, CutFacts
<1>4. /\ IsFiniteSet(SpanOf(m, i))
      /\ Cardinality(SpanOf(m, i)) = Cut[m][i + 1] - Cut[m][i]
  <2>1. PICK a \in Nat, b \in Nat :
          a = Cut[m][i] /\ b = Cut[m][i + 1] /\ a < b
    BY CutFacts
  <2>2. b - 1 \in Int /\ a \in Int /\ ~ (a > b - 1)
    BY <2>1
  <2>3. /\ IsFiniteSet(a .. b - 1)
        /\ Cardinality(a .. b - 1) = (b - 1) - a + 1
    BY <2>2, FS_Interval
  <2> QED
    BY <2>1, <2>3 DEF SpanOf
<1>5. Cardinality(Covered(m, K) \cup SpanOf(m, i))
        = Cardinality(Covered(m, K)) + Cardinality(SpanOf(m, i)) - Cardinality({})
  BY <1>1, <1>3, <1>4, FS_Union
<1>6. Cardinality({}) = 0 /\ Cardinality(Covered(m, K)) \in Nat
  BY <1>1, FS_EmptySet, FS_CardinalityType
<1>7. PICK a \in Nat, b \in Nat : a = Cut[m][i] /\ b = Cut[m][i + 1]
  BY CutFacts
<1>8. Cardinality(Covered(m, K \cup {i})) = Cardinality(Covered(m, K)) + (b - a)
  <2>1. Cardinality(SpanOf(m, i)) = b - a
    BY <1>4, <1>7
  <2>2. Cardinality(Covered(m, K \cup {i}))
          = Cardinality(Covered(m, K) \cup SpanOf(m, i))
    BY <1>2, Zenon
  <2>3. PICK c \in Nat, d \in Nat, e \in Nat :
          /\ c = Cardinality(Covered(m, K))
          /\ d = Cardinality(SpanOf(m, i)) /\ e = Cardinality({})
          /\ d = b - a /\ e = 0
    BY <1>6, <1>7, <2>1, CutFacts
  <2>4. Cardinality(Covered(m, K \cup {i})) = c + d - e
    BY <1>5, <2>2, <2>3, Zenon
  <2> QED
    BY <1>7, <2>3, <2>4
<1> QED
  BY <1>1, <1>2, <1>3, <1>7, <1>8

-----------------------------------------------------------------------------
(* The buffer of a message, part by part.                                  *)

(* The first fragment of a message opens an empty buffer of its own size.  *)
LEMMA PartialEmpty ==
  ASSUME NEW m \in Msg, NEW i \in Index(m)
  PROVE  NewBuffer(FragmentOf(m, i)) = Partial(m, {})
<1>1. Covered(m, {}) = {} /\ Cardinality({}) = 0
  BY FS_EmptySet DEF Covered
<1> QED
  BY <1>1 DEF NewBuffer, FragmentOf, Partial

(* A fragment brings each of its bytes to the byte's own place.            *)
LEMMA OwnByte ==
  ASSUME NEW m \in Msg, NEW i \in Index(m), NEW k \in 0 .. Total(m) - 1
  PROVE  LET f == FragmentOf(m, i) IN
         /\ Span(f) = SpanOf(m, i)
         /\ k \in Span(f) => f.payload[k - f.fragOffset] = Byte(m, k)
<1> DEFINE f == FragmentOf(m, i)
<1>1. Span(f) = SpanOf(m, i)
  BY CutFacts DEF Span, SpanOf, FragmentOf
<1>2. ASSUME k \in Span(f) PROVE f.payload[k - f.fragOffset] = Byte(m, k)
  <2>1. k - Cut[m][i] \in 0 .. Cut[m][i + 1] - Cut[m][i] - 1
    BY <1>1, <1>2, CutFacts DEF SpanOf
  <2>2. f.payload[k - f.fragOffset] = Byte(m, Cut[m][i] + (k - Cut[m][i]))
    BY <2>1 DEF FragmentOf
  <2>3. Cut[m][i] + (k - Cut[m][i]) = k
    BY CutFacts
  <2> QED
    BY <2>2, <2>3
<1> QED
  BY <1>1, <1>2

(* Filling in a fragment that was missing adds it to the set, no more.     *)
LEMMA PartialFill ==
  ASSUME NEW m \in Msg, NEW K \in SUBSET Index(m),
         NEW i \in Index(m), i \notin K
  PROVE  Filled(Partial(m, K), FragmentOf(m, i)) = Partial(m, K \cup {i})
<1> DEFINE f == FragmentOf(m, i)
           b == Partial(m, K)
           full == Partial(m, K \cup {i})
<1>1. Filled(b, f).data = full.data
  <2>1. DOMAIN Filled(b, f).data = 0 .. Total(m) - 1
    BY DEF Filled, Partial
  <2>2. \A k \in 0 .. Total(m) - 1 : Filled(b, f).data[k] = full.data[k]
    <3> SUFFICES ASSUME NEW k \in 0 .. Total(m) - 1
                 PROVE  Filled(b, f).data[k] = full.data[k]
      OBVIOUS
    <3>1. /\ Span(f) = SpanOf(m, i)
          /\ k \in Span(f) => f.payload[k - f.fragOffset] = Byte(m, k)
      BY OwnByte
    <3>2. k \in Covered(m, K \cup {i}) <=> k \in Covered(m, K) \/ k \in Span(f)
      BY <3>1, CoveredAdd
    <3>3. Filled(b, f).data[k] = IF k \in Span(f) THEN f.payload[k - f.fragOffset]
                                                  ELSE b.data[k]
      BY DEF Filled, Partial
    <3>4. CASE k \in Span(f)
      BY <3>1, <3>2, <3>3, <3>4 DEF Partial
    <3>5. CASE k \notin Span(f)
      BY <3>2, <3>3, <3>5 DEF Partial
    <3> QED
      BY <3>4, <3>5
  <2> QED
    BY <2>1, <2>2 DEF Filled, Partial
<1>2. Filled(b, f).bytesWritten = full.bytesWritten
  BY CoveredAdd DEF Filled, Partial, FragmentOf
<1>3. Filled(b, f).fragmentsReceived = full.fragmentsReceived
  <2>1. IsFiniteSet(K)
    <3>1. IsFiniteSet(Index(m))
      <4>1. Count[m] - 1 \in Int
        BY CutFacts
      <4> QED
        BY <4>1, FS_Interval DEF Index
    <3> QED
      BY <3>1, FS_Subset
  <2> QED
    BY <2>1, FS_AddElement DEF Filled, Partial
<1> QED
  BY <1>1, <1>2, <1>3 DEF Filled, Partial

(* Both completion tests hold when every fragment is there, and neither    *)
(* does before.                                                            *)
LEMMA PartialFinished ==
  ASSUME NEW m \in Msg, NEW K \in SUBSET Index(m)
  PROVE  Finished(Partial(m, K)) <=> K = Index(m)
<1>1. IsFiniteSet(Index(m)) /\ Cardinality(Index(m)) = Count[m]
  BY FS_Interval, CutFacts DEF Index
<1>2. /\ IsFiniteSet(0 .. Total(m) - 1)
      /\ Cardinality(0 .. Total(m) - 1) = Total(m)
  BY FS_Interval, CutFacts
<1>3. Covered(m, K) \in SUBSET (0 .. Total(m) - 1)
  BY DEF Covered
<1>4. /\ Cardinality(K) \in Nat /\ Cardinality(K) <= Count[m]
      /\ Cardinality(K) = Count[m] => K = Index(m)
  BY <1>1, FS_Subset, FS_CardinalityType
<1>5. /\ Cardinality(Covered(m, K)) \in Nat
      /\ Cardinality(Covered(m, K)) <= Total(m)
      /\ Cardinality(Covered(m, K)) = Total(m) => Covered(m, K) = 0 .. Total(m) - 1
  BY <1>2, <1>3, FS_Subset, FS_CardinalityType
<1>6. ASSUME NEW i \in Index(m), i \notin K
      PROVE  Cut[m][i] \in (0 .. Total(m) - 1) \ Covered(m, K)
  <2>1. Cut[m][i] \in 0 .. Total(m) - 1 /\ Cut[m][i] \in SpanOf(m, i)
    BY CutFacts DEF SpanOf
  <2> QED
    BY <1>6, <2>1, CoveredAdd
<1>7. ASSUME K # Index(m) PROVE ~ Finished(Partial(m, K))
  <2>1. Cardinality(K) < Count[m]
    BY <1>4, <1>7, CutFacts
  <2>2. PICK i \in Index(m) : i \notin K
    BY <1>7
  <2>3. Covered(m, K) # 0 .. Total(m) - 1
    BY <1>6, <2>2
  <2>4. Cardinality(Covered(m, K)) < Total(m)
    BY <1>5, <2>3, CutFacts
  <2> QED
    BY <1>4, <1>5, <2>1, <2>4, CutFacts DEF Finished, Partial
<1>8. ASSUME K = Index(m) PROVE Finished(Partial(m, K))
  BY <1>1, <1>8, CutFacts DEF Finished, Partial
<1> QED
  BY <1>7, <1>8

(* A buffer that all fragments went to holds the message.                  *)
LEMMA PartialFull ==
  ASSUME NEW m \in Msg
  PROVE  Partial(m, Index(m)).data = Original(m)
<1>1. Covered(m, Index(m)) = 0 .. Total(m) - 1
  BY CutCovers DEF Covered
<1> QED
  BY <1>1 DEF Partial, Original

(* handleFragment accepts the fragments of a message.                      *)
LEMMA OwnSane ==
  ASSUME NEW m \in Msg, NEW K \in SUBSET Index(m), NEW i \in Index(m)
  PROVE  /\ ~ Nonsensical(FragmentOf(m, i))
         /\ ~ OffsetPanics(Partial(m, K), FragmentOf(m, i))
  BY CutFacts DEF Nonsensical, OffsetPanics, FragmentOf, Partial

(* A message's fragments carry its number and no other message's bytes.    *)
LEMMA OwnWellFormed ==
  ASSUME NEW m \in Msg, NEW i \in Index(m)
  PROVE  /\ WellFormed(FragmentOf(m, i))
         /\ FragmentOf(m, i).startSeq = StartSeqOf[m]
         /\ \A n \in Msg : n # m => Foreign(FragmentOf(m, i), n)
<1>1. WellFormed(FragmentOf(m, i)) /\ FragmentOf(m, i).startSeq = StartSeqOf[m]
  BY CutFacts DEF WellFormed, FragmentOf
<1>2. ASSUME NEW n \in Msg, n # m PROVE Foreign(FragmentOf(m, i), n)
  <2>1. ASSUME NEW j \in DOMAIN FragmentOf(m, i).payload
        PROVE  FragmentOf(m, i).payload[j] = Byte(m, Cut[m][i] + j)
    BY DEF FragmentOf
  <2>2. ASSUME NEW x, NEW y PROVE Byte(m, x) # Byte(n, y)
    BY <1>2 DEF Byte
  <2> QED
    BY <2>1, <2>2 DEF Foreign, BytesOf
<1> QED
  BY <1>1, <1>2

(* Other commands are decoded too, and carry no message's bytes.           *)
LEMMA NoiseWellFormed ==
  ASSUME NEW f \in Noise
  PROVE  WellFormed(f) /\ \A m \in Msg : Foreign(f, m)
  BY NoiseAssumption DEF WellFormed, Foreign, BytesOf
-----------------------------------------------------------------------------
(* What one fragment does to the table and to the bodies handed over.      *)

TableOK ==
  /\ DOMAIN fragments \subseteq Int
  /\ \A s \in DOMAIN fragments :
       LET b == fragments[s] IN
         /\ b.totalLength \in Nat /\ b.bytesWritten \in Nat
         /\ b.fragmentsReceived \in Nat /\ b.fragmentCount \in Int
         /\ DOMAIN b.data = 0 .. b.totalLength - 1
  /\ handed \in Seq(Range(handed))

BufferOK(b) ==
  /\ b.totalLength \in Nat /\ b.bytesWritten \in Nat
  /\ b.fragmentsReceived \in Nat /\ b.fragmentCount \in Int
  /\ DOMAIN b.data = 0 .. b.totalLength - 1

(* A fragment leaves table and bodies alone, or it fills the buffer of its *)
(* number, which stays in the table or moves to the end of the bodies.     *)
LEMMA HandleCases ==
  ASSUME NEW f, HandleFragment(f)
  PROVE  LET b == Filled(BufferFor(fragments, f), f) IN
         \/ UNCHANGED <<fragments, handed>>
         \/ /\ ~ Nonsensical(f) /\ ~ Finished(b)
            /\ fragments' = With(fragments, f.startSeq, b) /\ handed' = handed
         \/ /\ ~ Nonsensical(f) /\ Finished(b)
            /\ fragments' = Without(fragments, f.startSeq)
            /\ handed' = Append(handed, b.data)
  BY DEF HandleFragment, Discard, Panic, Keep, Deliver

(* Filling a well-formed buffer gives a well-formed buffer.                *)
LEMMA FilledOK ==
  ASSUME TableOK, NEW f, WellFormed(f), ~ Nonsensical(f)
  PROVE  /\ BufferOK(BufferFor(fragments, f))
         /\ BufferOK(Filled(BufferFor(fragments, f), f))
<1>1. BufferOK(BufferFor(fragments, f))
  <2>1. CASE f.startSeq \in DOMAIN fragments
    BY <2>1 DEF TableOK, BufferOK, BufferFor
  <2>2. CASE f.startSeq \notin DOMAIN fragments
    <3>1. f.totalLen \in Nat
      BY DEF Nonsensical, WellFormed
    <3>2. BufferOK(NewBuffer(f))
      BY <3>1 DEF BufferOK, NewBuffer, WellFormed
    <3> QED
      BY <2>2, <3>2 DEF BufferFor
  <2> QED
    BY <2>1, <2>2
<1> QED
  BY <1>1 DEF BufferOK, Filled, WellFormed

(* The table and the bodies stay well-formed whatever fragment arrives.    *)
LEMMA TableStep ==
  ASSUME TableOK, NEW f, WellFormed(f), HandleFragment(f)
  PROVE  TableOK'
<1> DEFINE b == Filled(BufferFor(fragments, f), f)
<1>1. CASE UNCHANGED <<fragments, handed>>
  BY <1>1 DEF TableOK
<1>2. CASE /\ ~ Nonsensical(f) /\ fragments' = With(fragments, f.startSeq, b)
           /\ handed' = handed
  <2>1. BufferOK(b)
    BY <1>2, FilledOK
  <2> HIDE DEF b
  <2>2. /\ DOMAIN fragments' = DOMAIN fragments \cup {f.startSeq}
        /\ fragments'[f.startSeq] = b
        /\ \A x \in DOMAIN fragments : x # f.startSeq => fragments'[x] = fragments[x]
    BY <1>2 DEF With
  <2>3. \A s \in DOMAIN fragments' : BufferOK(fragments'[s])
    BY <2>1, <2>2 DEF TableOK, BufferOK
  <2> QED
    BY <1>2, <2>2, <2>3 DEF TableOK, BufferOK, WellFormed
<1>3. CASE /\ fragments' = Without(fragments, f.startSeq)
           /\ handed' = Append(handed, b.data)
  <2> HIDE DEF b
  <2>1. handed' \in Seq(Range(handed'))
    BY <1>3, HistoryAppend DEF TableOK
  <2>2. /\ DOMAIN fragments' = DOMAIN fragments \ {f.startSeq}
        /\ \A x \in DOMAIN fragments : x # f.startSeq => fragments'[x] = fragments[x]
    BY <1>3 DEF Without, Restrict
  <2> QED
    BY <2>1, <2>2 DEF TableOK
<1> QED
  BY <1>1, <1>2, <1>3, HandleCases

-----------------------------------------------------------------------------
(* A message that is alone on its number, and traffic on other numbers.    *)

(* A cell that nothing wrote holds no byte of a message.                   *)
LEMMA ZeroIsNoByte ==
  ASSUME NEW m \in Msg
  PROVE  Zero \notin BytesOf(m)
  BY MsgAssumption DEF BytesOf

(* Bytes of other traffic bring no byte of m into a buffer.                *)
LEMMA FilledForeign ==
  ASSUME NEW m \in Msg, NEW f, WellFormed(f), Foreign(f, m),
         NEW b, BufferOK(b), ~ Carries(b.data, m)
  PROVE  ~ Carries(Filled(b, f).data, m)
<1> SUFFICES ASSUME NEW k \in DOMAIN b.data
             PROVE  Filled(b, f).data[k] \notin BytesOf(m)
  BY DEF Carries, Filled
<1>1. CASE k \in Span(f)
  <2>1. k - f.fragOffset \in DOMAIN f.payload
    BY <1>1 DEF Span, WellFormed, BufferOK
  <2>2. Filled(b, f).data[k] = f.payload[k - f.fragOffset]
    BY <1>1 DEF Filled
  <2> QED
    BY <2>1, <2>2 DEF Foreign
<1>2. CASE k \notin Span(f)
  BY <1>2 DEF Filled, Carries
<1> QED
  BY <1>1, <1>2

(* A fragment on another number touches nothing of m.                      *)
LEMMA OtherNumber ==
  ASSUME TableOK, NEW m \in Msg, Separate(m),
         NEW f, WellFormed(f), Foreign(f, m), f.startSeq # StartSeqOf[m],
         HandleFragment(f)
  PROVE  /\ Separate(m)'
         /\ StartSeqOf[m] \in DOMAIN fragments' <=> StartSeqOf[m] \in DOMAIN fragments
         /\ StartSeqOf[m] \in DOMAIN fragments =>
              fragments'[StartSeqOf[m]] = fragments[StartSeqOf[m]]
         /\ DOMAIN handed \subseteq DOMAIN handed'
         /\ \A j \in DOMAIN handed : handed'[j] = handed[j]
         /\ \A j \in DOMAIN handed' :
              Carries(handed'[j], m) => j \in DOMAIN handed
<1> DEFINE b == Filled(BufferFor(fragments, f), f)
<1>1. ~ Nonsensical(f) => ~ Carries(b.data, m)
  <2> SUFFICES ASSUME ~ Nonsensical(f) PROVE ~ Carries(b.data, m)
    OBVIOUS
  <2>1. BufferOK(BufferFor(fragments, f))
    BY FilledOK
  <2>2. ~ Carries(BufferFor(fragments, f).data, m)
    BY ZeroIsNoByte DEF Separate, BufferFor, NewBuffer, Carries
  <2> QED
    BY <2>1, <2>2, FilledForeign
<1> HIDE DEF b
<1>2. CASE UNCHANGED <<fragments, handed>>
  BY <1>2 DEF Separate
<1>3. CASE /\ ~ Nonsensical(f) /\ fragments' = With(fragments, f.startSeq, b)
           /\ handed' = handed
  <2>1. /\ DOMAIN fragments' = DOMAIN fragments \cup {f.startSeq}
        /\ fragments'[f.startSeq] = b
        /\ \A x \in DOMAIN fragments : x # f.startSeq => fragments'[x] = fragments[x]
    BY <1>3 DEF With
  <2>2. Separate(m)'
    BY <1>1, <1>3, <2>1 DEF Separate
  <2> QED
    BY <1>3, <2>1, <2>2
<1>4. CASE /\ ~ Nonsensical(f)
           /\ fragments' = Without(fragments, f.startSeq)
           /\ handed' = Append(handed, b.data)
  <2>1. /\ DOMAIN fragments' = DOMAIN fragments \ {f.startSeq}
        /\ \A x \in DOMAIN fragments : x # f.startSeq => fragments'[x] = fragments[x]
    BY <1>4 DEF Without, Restrict
  <2>2. Separate(m)'
    BY <2>1 DEF Separate
  <2>3. /\ DOMAIN handed' = DOMAIN handed \cup {Len(handed) + 1}
        /\ \A j \in DOMAIN handed : handed'[j] = handed[j]
        /\ handed'[Len(handed) + 1] = b.data
    BY <1>4, HistoryAppend DEF TableOK
  <2> QED
    BY <1>1, <1>4, <2>1, <2>2, <2>3
<1> QED
  BY <1>2, <1>3, <1>4, HandleCases DEF b

(* Nor does m's own traffic reach another number's buffer.                 *)
LEMMA OwnNumber ==
  ASSUME NEW m \in Msg, Separate(m), NEW f, f.startSeq = StartSeqOf[m],
         HandleFragment(f)
  PROVE  Separate(m)'
<1> DEFINE b == Filled(BufferFor(fragments, f), f)
<1>1. CASE UNCHANGED <<fragments, handed>>
  BY <1>1 DEF Separate
<1>2. CASE fragments' = With(fragments, f.startSeq, b)
  BY <1>2 DEF Separate, With
<1>3. CASE fragments' = Without(fragments, f.startSeq)
  BY <1>3 DEF Separate, Without, Restrict
<1> QED
  BY <1>1, <1>2, <1>3, HandleCases
-----------------------------------------------------------------------------
(* A clean message, whose fragments are captured once each.                *)

(* A clean message's next fragment: the last one hands the message over,   *)
(* any other one stays in the buffer.                                      *)
LEMMA OwnFragment ==
  ASSUME NEW m \in Msg, NEW K \in SUBSET Index(m),
         NEW i \in Index(m), i \notin K,
         StartSeqOf[m] \in DOMAIN fragments <=> K # {},
         StartSeqOf[m] \in DOMAIN fragments => fragments[StartSeqOf[m]] = Partial(m, K),
         HandleFragment(FragmentOf(m, i))
  PROVE  \/ /\ K \cup {i} = Index(m)
            /\ StartSeqOf[m] \notin DOMAIN fragments'
            /\ handed' = Append(handed, Original(m))
         \/ /\ K \cup {i} # Index(m)
            /\ StartSeqOf[m] \in DOMAIN fragments'
            /\ fragments'[StartSeqOf[m]] = Partial(m, K \cup {i})
            /\ handed' = handed
<1> DEFINE f == FragmentOf(m, i)
           b == Partial(m, K \cup {i})
<1>1. f.startSeq = StartSeqOf[m]
  BY OwnWellFormed
<1>2. BufferFor(fragments, f) = Partial(m, K)
  BY <1>1, PartialEmpty DEF BufferFor
<1>3. Filled(BufferFor(fragments, f), f) = b
  BY <1>2, PartialFill
<1>4. ~ Nonsensical(f) /\ ~ OffsetPanics(BufferFor(fragments, f), f)
  BY <1>2, OwnSane
<1>5. Finished(b) <=> K \cup {i} = Index(m)
  BY PartialFinished
<1>6. K \cup {i} = Index(m) => b.data = Original(m)
  BY PartialFull
<1>7. \/ /\ ~ Finished(b) /\ fragments' = With(fragments, f.startSeq, b)
         /\ handed' = handed
      \/ /\ Finished(b) /\ fragments' = Without(fragments, f.startSeq)
         /\ handed' = Append(handed, b.data)
  <2> HIDE DEF b, f
  <2> QED
    BY <1>3, <1>4 DEF HandleFragment, Discard, Panic, Keep, Deliver, f
<1>8. CASE /\ ~ Finished(b) /\ fragments' = With(fragments, f.startSeq, b)
           /\ handed' = handed
  <2>1. /\ StartSeqOf[m] \in DOMAIN With(fragments, StartSeqOf[m], b)
        /\ With(fragments, StartSeqOf[m], b)[StartSeqOf[m]] = b
    <3> HIDE DEF b
    <3> QED
      BY DEF With
  <2> QED
    BY <1>1, <1>5, <1>8, <2>1
<1>9. CASE /\ Finished(b) /\ fragments' = Without(fragments, f.startSeq)
           /\ handed' = Append(handed, b.data)
  <2>1. StartSeqOf[m] \notin DOMAIN Without(fragments, StartSeqOf[m])
    BY DEF Without, Restrict
  <2> QED
    BY <1>1, <1>5, <1>6, <1>9, <2>1
<1> QED
  BY <1>7, <1>8, <1>9

(* A message carries bytes of itself: it is not empty.                     *)
LEMMA OriginalCarries ==
  ASSUME NEW m \in Msg
  PROVE  Carries(Original(m), m)
<1>1. 0 \in 0 .. Total(m) - 1
  BY CutFacts
<1>2. Original(m)[0] = Byte(m, 0)
  BY <1>1 DEF Original
<1> QED
  BY <1>1, <1>2 DEF Carries, BytesOf, Original

(* Traffic on other numbers does not change what is known of m.            *)
LEMMA MessageOther ==
  ASSUME TableOK, NEW m \in Msg, Separate(m), MessageOK(m), Seen(m)' = Seen(m),
         NEW f, WellFormed(f), Foreign(f, m), f.startSeq # StartSeqOf[m],
         HandleFragment(f)
  PROVE  MessageOK(m)'
<1>1. /\ StartSeqOf[m] \in DOMAIN fragments' <=> StartSeqOf[m] \in DOMAIN fragments
      /\ StartSeqOf[m] \in DOMAIN fragments =>
           fragments'[StartSeqOf[m]] = fragments[StartSeqOf[m]]
      /\ DOMAIN handed \subseteq DOMAIN handed'
      /\ \A j \in DOMAIN handed : handed'[j] = handed[j]
      /\ \A j \in DOMAIN handed' :
           Carries(handed'[j], m) => j \in DOMAIN handed
  BY OtherNumber
<1>2. /\ (StartSeqOf[m] \in DOMAIN fragments <=> Seen(m) \notin {{}, Index(m)})'
      /\ (StartSeqOf[m] \in DOMAIN fragments => fragments[StartSeqOf[m]] = Partial(m, Seen(m)))'
  BY <1>1 DEF MessageOK, Partial, Covered
<1>3. /\ (\A j \in DOMAIN handed : Carries(handed[j], m) => handed[j] = Original(m))'
      /\ (Seen(m) = Index(m) <=> \E j \in DOMAIN handed : Carries(handed[j], m))'
      /\ (\A j, k \in DOMAIN handed :
            Carries(handed[j], m) /\ Carries(handed[k], m) => j = k)'
  BY <1>1 DEF MessageOK
<1> QED
  BY <1>2, <1>3 DEF MessageOK

(* The next fragment of m itself.                                          *)
LEMMA MessageOwn ==
  ASSUME TableOK, NEW m \in Msg, MessageOK(m),
         NEW i \in Index(m), i \notin Seen(m), Seen(m)' = Seen(m) \cup {i},
         HandleFragment(FragmentOf(m, i))
  PROVE  MessageOK(m)'
<1> DEFINE K == Seen(m)
           L == Seen(m) \cup {i}
<1>1. K \in SUBSET Index(m) /\ K # Index(m) /\ L # {}
  BY DEF Seen
<1>2. StartSeqOf[m] \in DOMAIN fragments <=> K # {}
  BY <1>1 DEF MessageOK
<1>3. \A j \in DOMAIN handed : ~ Carries(handed[j], m)
  BY <1>1 DEF MessageOK
<1>4. \/ /\ L = Index(m)
         /\ StartSeqOf[m] \notin DOMAIN fragments'
         /\ handed' = Append(handed, Original(m))
      \/ /\ L # Index(m)
         /\ StartSeqOf[m] \in DOMAIN fragments'
         /\ fragments'[StartSeqOf[m]] = Partial(m, L)
         /\ handed' = handed
  <2>1. StartSeqOf[m] \in DOMAIN fragments => fragments[StartSeqOf[m]] = Partial(m, K)
    BY DEF MessageOK
  <2> HIDE DEF K
  <2> QED
    BY <1>1, <1>2, <2>1, OwnFragment DEF K
<1>5. CASE /\ L = Index(m) /\ StartSeqOf[m] \notin DOMAIN fragments'
           /\ handed' = Append(handed, Original(m))
  <2>1. /\ DOMAIN handed' = DOMAIN handed \cup {Len(handed) + 1}
        /\ \A j \in DOMAIN handed : handed'[j] = handed[j]
        /\ handed'[Len(handed) + 1] = Original(m)
    BY <1>5, HistoryAppend DEF TableOK
  <2>2. \A j \in DOMAIN handed' : Carries(handed'[j], m) <=> j = Len(handed) + 1
    BY <1>3, <2>1, OriginalCarries
  <2> QED
    BY <1>5, <2>1, <2>2 DEF MessageOK
<1>6. CASE /\ L # Index(m) /\ StartSeqOf[m] \in DOMAIN fragments'
           /\ fragments'[StartSeqOf[m]] = Partial(m, L) /\ handed' = handed
  <2>1. Seen(m)' \notin {{}, Index(m)}
    BY <1>1, <1>6
  <2>2. (fragments[StartSeqOf[m]] = Partial(m, Seen(m)))'
    BY <1>6 DEF Partial, Covered
  <2> QED
    BY <1>3, <1>6, <2>1, <2>2 DEF MessageOK
<1> QED
  BY <1>4, <1>5, <1>6
-----------------------------------------------------------------------------
(* The invariant.                                                          *)

(* What a step captures: a fragment of some message or another command.    *)
Captures(f) ==
  \/ /\ f \in Noise /\ captured' = captured
     /\ noise' \in [Noise -> 0 .. MaxNoise]
  \/ \E m \in Msg : \E i \in Index(m) :
       /\ captured[m][i] < MaxCaptures
       /\ f = FragmentOf(m, i) /\ noise' = noise
       /\ captured' = [captured EXCEPT ![m][i] = @ + 1]

(* Every step is the capture of one fragment and its handling.             *)
LEMMA StepCaptures ==
  ASSUME TypeOK, Next
  PROVE  \E f : Captures(f) /\ HandleFragment(f)
<1>1. ASSUME NEW m \in Msg, NEW i \in Index(m), Capture(m, i)
      PROVE  Captures(FragmentOf(m, i)) /\ HandleFragment(FragmentOf(m, i))
  BY <1>1 DEF Capture, Captures
<1>2. ASSUME NEW f \in Noise, CaptureNoise(f)
      PROVE  Captures(f) /\ HandleFragment(f)
  BY <1>2, MsgAssumption DEF CaptureNoise, Captures, TypeOK
<1> QED
  BY <1>1, <1>2 DEF Next

(* The capture counts keep their type and the fragment is well-formed.     *)
LEMMA CapturesType ==
  ASSUME TypeOK, NEW f, Captures(f)
  PROVE  /\ WellFormed(f)
         /\ DOMAIN captured' = Msg
         /\ \A m \in Msg : captured'[m] \in [Index(m) -> 0 .. MaxCaptures]
         /\ noise' \in [Noise -> 0 .. MaxNoise]
<1>1. CASE f \in Noise /\ captured' = captured /\ noise' \in [Noise -> 0 .. MaxNoise]
  BY <1>1, NoiseWellFormed DEF TypeOK
<1>2. ASSUME NEW n \in Msg, NEW i \in Index(n),
             captured[n][i] < MaxCaptures, f = FragmentOf(n, i), noise' = noise,
             captured' = [captured EXCEPT ![n][i] = @ + 1]
      PROVE  /\ WellFormed(f)
             /\ DOMAIN captured' = Msg
             /\ \A m \in Msg : captured'[m] \in [Index(m) -> 0 .. MaxCaptures]
             /\ noise' \in [Noise -> 0 .. MaxNoise]
  <2>1. WellFormed(f)
    BY <1>2, OwnWellFormed
  <2>2. captured[n] \in [Index(n) -> 0 .. MaxCaptures] /\ MaxCaptures \in Nat
    BY MsgAssumption DEF TypeOK
  <2>3. captured[n][i] + 1 \in 0 .. MaxCaptures
    BY <1>2, <2>2
  <2>4. [captured[n] EXCEPT ![i] = captured[n][i] + 1]
          \in [Index(n) -> 0 .. MaxCaptures]
    BY <2>2, <2>3
  <2>5. /\ DOMAIN captured' = Msg
        /\ captured'[n] = [captured[n] EXCEPT ![i] = captured[n][i] + 1]
        /\ \A m \in Msg : m # n => captured'[m] = captured[m]
    BY <1>2 DEF TypeOK
  <2>6. \A m \in Msg : captured'[m] \in [Index(m) -> 0 .. MaxCaptures]
    BY <2>4, <2>5 DEF TypeOK
  <2> QED
    BY <1>2, <2>1, <2>5, <2>6 DEF TypeOK
<1> QED
  BY <1>1, <1>2 DEF Captures

(* TypeOK holds initially ...                                              *)
LEMMA TypeInit ==
  ASSUME Init PROVE TypeOK
  BY EmptyHistory, MsgAssumption DEF Init, TypeOK

(* ... and every step preserves it.                                        *)
LEMMA TypeNext ==
  ASSUME TypeOK, [Next]_vars
  PROVE  TypeOK'
<1>1. CASE UNCHANGED vars
  BY <1>1 DEF vars, TypeOK
<1>2. CASE Next
  <2>1. PICK f : Captures(f) /\ HandleFragment(f)
    BY <1>2, StepCaptures
  <2>2. TableOK'
    BY <2>1, CapturesType, TableStep DEF TypeOK, TableOK
  <2> QED
    BY <2>1, <2>2, CapturesType DEF TypeOK, TableOK
<1> QED
  BY <1>1, <1>2

(* TypeOK in every reachable state: the table holds well-formed buffers    *)
(* whatever arrives from the wire.                                         *)
THEOREM TypeCorrect == Spec => []TypeOK
  BY TypeInit, TypeNext, PTL DEF Spec

(* Traffic on other numbers makes no hole and fills none.                  *)
LEMMA HolesOther ==
  ASSUME TableOK, NEW m \in Msg, Separate(m), HolesOK(m),
         NEW f, WellFormed(f), Foreign(f, m), f.startSeq # StartSeqOf[m],
         HandleFragment(f)
  PROVE  HolesOK(m)'
  BY OtherNumber DEF HolesOK

(* A message's own fragments leave holes at worst.                         *)
LEMMA HolesOwn ==
  ASSUME TableOK, NEW m \in Msg, HolesOK(m),
         NEW i \in Index(m), HandleFragment(FragmentOf(m, i))
  PROVE  HolesOK(m)'
<1> DEFINE f == FragmentOf(m, i)
           a == BufferFor(fragments, f)
           b == Filled(a, f)
<1>1. f.startSeq = StartSeqOf[m]
  BY OwnWellFormed
<1>2. Holey(a.data, m)
  BY <1>1 DEF BufferFor, NewBuffer, HolesOK, Holey, FragmentOf
<1>3. Holey(b.data, m)
  <2> SUFFICES ASSUME NEW k \in 0 .. Total(m) - 1
               PROVE  b.data[k] \in {Zero, Byte(m, k)}
    BY <1>2 DEF Filled, Holey
  <2>1. b.data[k] = IF k \in Span(f) THEN f.payload[k - f.fragOffset] ELSE a.data[k]
    BY <1>2 DEF Filled, Holey
  <2>2. CASE k \in Span(f)
    BY <2>1, <2>2, OwnByte
  <2>3. CASE k \notin Span(f)
    BY <1>2, <2>1, <2>3 DEF Holey
  <2> QED
    BY <2>2, <2>3
<1> HIDE DEF b
<1>4. CASE UNCHANGED <<fragments, handed>>
  BY <1>4 DEF HolesOK
<1>5. CASE fragments' = With(fragments, f.startSeq, b) /\ handed' = handed
  <2>1. fragments'[StartSeqOf[m]] = b
    BY <1>1, <1>5 DEF With
  <2> QED
    BY <1>3, <1>5, <2>1 DEF HolesOK
<1>6. CASE fragments' = Without(fragments, f.startSeq) /\ handed' = Append(handed, b.data)
  <2>1. StartSeqOf[m] \notin DOMAIN fragments'
    BY <1>1, <1>6 DEF Without, Restrict
  <2>2. /\ DOMAIN handed' = DOMAIN handed \cup {Len(handed) + 1}
        /\ \A j \in DOMAIN handed : handed'[j] = handed[j]
        /\ handed'[Len(handed) + 1] = b.data
    BY <1>6, HistoryAppend DEF TableOK
  <2> QED
    BY <1>3, <2>1, <2>2 DEF HolesOK
<1> QED
  BY <1>4, <1>5, <1>6, HandleCases DEF b

(* IInv holds initially ...                                                *)
LEMMA IInvInit ==
  ASSUME Init PROVE IInv
<1>1. ASSUME NEW m \in Msg PROVE Seen(m) = {} /\ Index(m) # {}
  BY CutFacts DEF Init, Seen, Index
<1>2. DOMAIN fragments = {} /\ DOMAIN handed = {}
  BY DEF Init
<1> QED
  BY <1>1, <1>2, TypeInit DEF IInv, Separate, HolesOK, MessageOK

(* One message over one step: the step captured something on another       *)
(* number, or one of the message's own fragments.                          *)
LEMMA MessageNext ==
  ASSUME IInv, NEW f, Captures(f), HandleFragment(f), NEW m \in Msg, Alone(m)
  PROVE  /\ Separate(m)' /\ HolesOK(m)'
         /\ Clean(m)' => MessageOK(m)'
<1>1. TypeOK /\ TableOK /\ Separate(m) /\ HolesOK(m) /\ WellFormed(f)
  BY CapturesType DEF IInv, TypeOK, TableOK
<1>2. ASSUME f.startSeq # StartSeqOf[m], Foreign(f, m), captured'[m] = captured[m]
      PROVE  /\ Separate(m)' /\ HolesOK(m)'
             /\ Clean(m)' => MessageOK(m)'
  <2>1. Separate(m)' /\ HolesOK(m)'
    BY <1>1, <1>2, OtherNumber, HolesOther
  <2>2. Seen(m)' = Seen(m) /\ (Clean(m)' => Clean(m))
    BY <1>2 DEF Seen, Clean
  <2> QED
    BY <1>1, <1>2, <2>1, <2>2, MessageOther DEF IInv
<1>3. ASSUME NEW i \in Index(m), f = FragmentOf(m, i),
             captured' = [captured EXCEPT ![m][i] = @ + 1]
      PROVE  /\ Separate(m)' /\ HolesOK(m)'
             /\ Clean(m)' => MessageOK(m)'
  <2>1. Separate(m)' /\ HolesOK(m)'
    BY <1>1, <1>3, OwnNumber, OwnWellFormed, HolesOwn
  <2>2. captured[m] \in [Index(m) -> 0 .. MaxCaptures] /\ MaxCaptures \in Nat
    BY <1>1, MsgAssumption DEF TypeOK
  <2>3. \A j \in Index(m) :
          captured'[m][j] = IF j = i THEN captured[m][j] + 1 ELSE captured[m][j]
    BY <1>1, <1>3, <2>2 DEF TypeOK
  <2>4. ASSUME Clean(m)'
        PROVE  Clean(m) /\ i \notin Seen(m) /\ Seen(m)' = Seen(m) \cup {i}
    <3>1. \A j \in Index(m) : captured'[m][j] <= 1
      BY <2>4 DEF Clean
    <3>2. captured[m][i] = 0
      BY <2>2, <2>3, <3>1
    <3> QED
      BY <2>2, <2>3, <3>1, <3>2 DEF Clean, Seen
  <2> QED
    BY <1>1, <1>3, <2>1, <2>4, MessageOwn DEF IInv
<1>4. CASE f \in Noise /\ captured' = captured
  BY <1>2, <1>4, NoiseWellFormed DEF Alone
<1>5. ASSUME NEW n \in Msg, NEW i \in Index(n), f = FragmentOf(n, i), n # m,
             captured' = [captured EXCEPT ![n][i] = @ + 1]
      PROVE  f.startSeq # StartSeqOf[m] /\ Foreign(f, m) /\ captured'[m] = captured[m]
  BY <1>1, <1>5, OwnWellFormed DEF Alone, TypeOK
<1> QED
  BY <1>2, <1>3, <1>4, <1>5 DEF Captures

(* ... every step preserves it ...                                         *)
LEMMA IInvNext ==
  ASSUME IInv, [Next]_vars PROVE IInv'
<1>1. CASE UNCHANGED vars
  <2>1. TypeOK'
    BY TypeNext DEF IInv
  <2>2. ASSUME NEW m \in Msg, Alone(m) PROVE Separate(m)' /\ HolesOK(m)'
    BY <1>1, <2>2 DEF IInv, vars, Separate, HolesOK
  <2>3. ASSUME NEW m \in Msg, Clean(m)' PROVE MessageOK(m)'
    <3>1. Clean(m)
      BY <1>1, <2>3 DEF Clean, vars
    <3>2. Seen(m)' = Seen(m)
      BY <1>1 DEF Seen, vars
    <3> QED
      BY <1>1, <3>1, <3>2 DEF IInv, MessageOK, vars
  <2> QED
    BY <2>1, <2>2, <2>3 DEF IInv
<1>2. CASE Next
  <2>1. PICK f : Captures(f) /\ HandleFragment(f)
    BY <1>2, StepCaptures DEF IInv
  <2>2. TypeOK'
    BY TypeNext DEF IInv
  <2>3. \A m \in Msg : Clean(m)' => Alone(m)
    BY DEF Clean
  <2> QED
    BY <2>1, <2>2, <2>3, MessageNext DEF IInv
<1> QED
  BY <1>1, <1>2

(* ... and so it always holds: what the pending table keeps of each message *)
(* and what handleMessage got of it agree with the fragments captured.     *)
THEOREM IInvAlways == Spec => []IInv
  BY IInvInit, IInvNext, PTL DEF Spec

-----------------------------------------------------------------------------
(* A clean message is handed over whole or not at all.                     *)
THEOREM CleanWholeHolds == Spec => []CleanWhole
<1>1. IInv => CleanWhole
  BY DEF IInv, MessageOK, CleanWhole
<1> QED
  BY <1>1, IInvAlways, PTL

(* ... exactly when its last fragment has been captured, ...               *)
THEOREM CleanHandedOverHolds == Spec => []CleanHandedOver
<1>1. IInv => CleanHandedOver
  BY DEF IInv, MessageOK, CleanHandedOver
<1> QED
  BY <1>1, IInvAlways, PTL

(* ... once ...                                                            *)
THEOREM CleanOnceHolds == Spec => []CleanOnce
<1>1. IInv => CleanOnce
  BY DEF IInv, MessageOK, CleanOnce
<1> QED
  BY <1>1, IInvAlways, PTL

(* ... and leaves nothing in the table; before that its buffer is there.   *)
THEOREM CleanBufferedHolds == Spec => []CleanBuffered
<1>1. IInv => CleanBuffered
  BY DEF IInv, MessageOK, CleanBuffered
<1> QED
  BY <1>1, IInvAlways, PTL

(* However often its fragments are captured again, a message that is alone *)
(* on its number has holes at worst.                                       *)
THEOREM HolesOnlyHolds == Spec => []HolesOnly
<1>1. IInv => HolesOnly
  BY DEF IInv, HolesOK, Holey, HolesOnly, Original
<1> QED
  BY <1>1, IInvAlways, PTL

-----------------------------------------------------------------------------
(* The table implements WholeMessages.                                     *)

(* In the states of IInv what Out keeps of the bodies are the originals of *)
(* the messages that are still clean, so that Out is Sent(handed, C) for   *)
(* the set C of these.                                                     *)
Originals == {Original(m) : m \in Msg}
Sender == [b \in Originals |-> MessageIn(b)]
OriginalsOf(C) == {Original(m) : m \in C}
Sent(h, C) == Mapped(Filtered(h, OriginalsOf(C)), Sender)

Intact == Lonely \ Repeated

(* A body tells whose it is.                                               *)
LEMMA OriginalNames ==
  ASSUME NEW m \in Msg
  PROVE  /\ MessageIn(Original(m)) = m /\ Sender[Original(m)] = m
         /\ \A n \in Msg : Original(n) = Original(m) \/ Carries(Original(m), n) => n = m
<1>1. ASSUME NEW n \in Msg, Carries(Original(m), n) PROVE n = m
  BY <1>1 DEF Carries, Original, BytesOf, Byte
<1>2. \A n \in Msg : Original(n) = Original(m) => n = m
  BY <1>1, OriginalCarries
<1>3. MessageIn(Original(m)) = m
  BY <1>2 DEF MessageIn
<1> QED
  BY <1>1, <1>2, <1>3 DEF Sender, Originals

LEMMA OutFacts ==
  ASSUME NEW h, h \in Seq(Range(h)), NEW C \in SUBSET Msg,
         \A j \in DOMAIN h : \A m \in C : Carries(h[j], m) => h[j] = Original(m)
  PROVE  LET whole == {b \in Range(h) : \E m \in C : Carries(b, m)}
             bodies == Filtered(h, whole)
         IN [j \in DOMAIN bodies |-> MessageIn(bodies[j])] = Sent(h, C)
<1> DEFINE R == Range(h)
           X == {b \in R : \E m \in C : Carries(b, m)}
           W == OriginalsOf(C)
           v == Filtered(h, X)
           E == R \cap W
<1>1. \A b \in R : b \in X <=> b \in W
  <2>1. \A b \in R : \E j \in DOMAIN h : b = h[j]
    BY DEF Range
  <2> QED
    BY <2>1, OriginalCarries DEF OriginalsOf
<1>2. E \subseteq Originals
  BY DEF OriginalsOf, Originals
<1>3. h \in Seq(R)
  OBVIOUS
<1> HIDE DEF R, X, W, E, v
<1>4. v = Filtered(h, W)
  BY <1>1, <1>3, FilteredSame DEF v
<1>5. v \in Seq(E)
  BY <1>3, <1>4, FilteredType DEF E
<1>6. \A j \in DOMAIN v : v[j] \in Originals
  BY <1>2, <1>5, LenProperties, ElementOfSeq
<1>7. [j \in DOMAIN v |-> MessageIn(v[j])] = Mapped(v, Sender)
  BY <1>6 DEF Mapped, Sender
<1>8. [j \in DOMAIN v |-> MessageIn(v[j])] = Sent(h, C)
  BY <1>4, <1>7 DEF Sent, W
<1> QED
  BY <1>8 DEF v, X, R

(* One body more, another one's or that of m.                              *)
LEMMA SentAppend ==
  ASSUME NEW h, h \in Seq(Range(h)), NEW C \in SUBSET Msg, NEW x
  PROVE  /\ x \notin OriginalsOf(C) => Sent(Append(h, x), C) = Sent(h, C)
         /\ \A m \in C : x = Original(m) => Sent(Append(h, x), C) = Append(Sent(h, C), m)
<1> DEFINE R == Range(h) \cup {x}
           W == OriginalsOf(C)
           v == Filtered(h, W)
           E == R \cap W
<1>1. h \in Seq(R) /\ x \in R
  <2> DEFINE Q == Range(h)
  <2>1. h \in Seq(Q) /\ Q \subseteq R /\ x \in R
    OBVIOUS
  <2> HIDE DEF Q, R
  <2> QED
    BY <2>1, SeqMonotonic
<1> HIDE DEF R, W, E, v
<1>2. Filtered(Append(h, x), W) = IF x \in W THEN Append(v, x) ELSE v
  BY <1>1, FilteredAppend DEF v
<1>3. v \in Seq(E) /\ (x \in W => x \in E)
  BY <1>1, FilteredType DEF E, v
<1>4. x \in W => Mapped(Append(v, x), Sender) = Append(Mapped(v, Sender), Sender[x])
  BY <1>3, MappedAppend
<1>5. \A m \in C : x = Original(m) => x \in W /\ Sender[x] = m
  BY OriginalNames DEF OriginalsOf, W
<1> QED
  BY <1>2, <1>4, <1>5 DEF Sent, W, v

(* When a message is clean no more, it is struck from the others.          *)
LEMMA SentStruck ==
  ASSUME NEW h, h \in Seq(Range(h)), NEW C \in SUBSET Lonely, NEW m
  PROVE  Sent(h, C \ {m}) = Filtered(Sent(h, C), Lonely \ {m})
<1> DEFINE R == Range(h)
           W == OriginalsOf(C)
           E == R \cap W
           v == Filtered(h, W)
           T == Lonely \ {m}
           U == {e \in E : Sender[e] \in T}
           V == OriginalsOf(C \ {m})
           Y == W \cap U
<1>1. h \in Seq(R)
  OBVIOUS
<1>2. \A e \in R : e \in V <=> e \in Y
  <2>1. \A n \in C : n \in Lonely /\ n \in Msg /\ Sender[Original(n)] = n
    BY OriginalNames DEF Lonely
  <2> QED
    BY <2>1 DEF OriginalsOf
<1> HIDE DEF R, W, E, T, U, V, v, Y
<1>3. v \in Seq(E)
  BY <1>1, FilteredType DEF E, v
<1>4. Filtered(Mapped(v, Sender), T) = Mapped(Filtered(v, U), Sender)
  BY <1>3, FilteredMapped DEF U
<1>5. Filtered(v, U) = Filtered(h, Y)
  BY <1>1, FilteredTwice DEF v, Y
<1>6. Filtered(h, Y) = Filtered(h, V)
  BY <1>1, <1>2, FilteredSame
<1> QED
  BY <1>4, <1>5, <1>6 DEF Sent, W, V, T, v

LEMMA OutIs ==
  ASSUME IInv PROVE Out = Sent(handed, Intact)
<1>1. \A m \in Intact : Clean(m)
  BY DEF IInv, TypeOK, Intact, Lonely, Repeated, Clean
<1>2. \A j \in DOMAIN handed : \A m \in Intact :
        Carries(handed[j], m) => handed[j] = Original(m)
  BY <1>1 DEF IInv, MessageOK, Intact, Lonely
<1>3. handed \in Seq(Range(handed)) /\ Intact \in SUBSET Msg
  BY DEF IInv, TypeOK, Intact, Lonely
<1>4. LET whole == {b \in Range(handed) : \E m \in Intact : Carries(b, m)}
          bodies == Filtered(handed, whole)
      IN [j \in DOMAIN bodies |-> MessageIn(bodies[j])] = Sent(handed, Intact)
  BY <1>2, <1>3, OutFacts
<1> QED
  BY <1>4 DEF Out, OfClean, Intact

(* The same after a step.                                                  *)
LEMMA OutIsNext ==
  ASSUME IInv' PROVE Out' = Sent(handed', Intact')
<1>1. \A m \in Intact' : Clean(m)'
  BY DEF IInv, TypeOK, Intact, Lonely, Repeated, Clean
<1>2. \A j \in DOMAIN handed' : \A m \in Intact' :
        Carries(handed'[j], m) => handed'[j] = Original(m)
  BY <1>1 DEF IInv, MessageOK, Intact, Lonely
<1>3. handed' \in Seq(Range(handed')) /\ Intact' \in SUBSET Msg
  BY DEF IInv, TypeOK, Intact, Lonely
<1>4. LET whole == {b \in Range(handed') : \E m \in Intact' : Carries(b, m)}
          bodies == Filtered(handed', whole)
      IN [j \in DOMAIN bodies |-> MessageIn(bodies[j])] = Sent(handed', Intact')
  BY <1>2, <1>3, OutFacts
<1> QED
  BY <1>4 DEF Out, OfClean, Intact

(* A fragment that is of no message in C adds nothing to what C has sent.  *)
LEMMA SentOther ==
  ASSUME IInv, NEW f, WellFormed(f), HandleFragment(f), NEW C \in SUBSET Lonely,
         \A n \in C : f.startSeq # StartSeqOf[n] /\ Foreign(f, n)
  PROVE  Sent(handed', C) = Sent(handed, C)
<1>1. TableOK /\ handed \in Seq(Range(handed)) /\ \A n \in C : n \in Msg /\ Separate(n)
  BY DEF IInv, TypeOK, TableOK, Lonely
<1>2. CASE handed' = handed
  BY <1>2
<1>3. ASSUME NEW x, handed' = Append(handed, x) PROVE Sent(handed', C) = Sent(handed, C)
  <2>1. /\ Len(handed) + 1 \in DOMAIN handed' /\ Len(handed) + 1 \notin DOMAIN handed
        /\ handed'[Len(handed) + 1] = x
    BY <1>1, <1>3, HistoryAppend
  <2>2. \A n \in C : ~ Carries(x, n)
    <3> SUFFICES ASSUME NEW n \in C PROVE ~ Carries(x, n)
      OBVIOUS
    <3>1. \A j \in DOMAIN handed' : Carries(handed'[j], n) => j \in DOMAIN handed
      BY <1>1, OtherNumber
    <3> QED
      BY <2>1, <3>1
  <2>3. x \notin OriginalsOf(C)
    BY <1>1, <2>2, OriginalCarries DEF OriginalsOf
  <2>4. C \in SUBSET Msg
    BY <1>1
  <2> QED
    BY <1>1, <1>3, <2>3, <2>4, SentAppend
<1> QED
  BY <1>2, <1>3, HandleCases

WholeStep == [Whole!Next]_(Whole!avars)

(* Traffic that is of no message alone on its number.                      *)
LEMMA WholeOther ==
  ASSUME IInv, IInv', NEW f, WellFormed(f), HandleFragment(f),
         \A n \in Lonely : f.startSeq # StartSeqOf[n] /\ Foreign(f, n) /\ captured'[n] = captured[n]
  PROVE  WholeStep
<1>1. Missing' = Missing /\ Repeated' = Repeated
  BY DEF Missing, Repeated, Seen
<1>2. Intact' = Intact /\ Intact \in SUBSET Lonely
  BY <1>1 DEF Intact
<1>3. Out' = Out
  BY <1>2, OutIs, OutIsNext, SentOther
<1> QED
  BY <1>1, <1>3 DEF WholeStep, Whole!avars

(* A fragment of such a message that was not captured before.              *)
LEMMA WholeCapture ==
  ASSUME IInv, IInv', NEW m \in Lonely, NEW i \in Index(m), captured[m][i] = 0,
         HandleFragment(FragmentOf(m, i)),
         captured' = [captured EXCEPT ![m][i] = @ + 1]
  PROVE  WholeStep
<1> DEFINE f == FragmentOf(m, i)
           K == Seen(m)
<1>1. /\ m \in Msg /\ Alone(m) /\ DOMAIN captured = Msg
      /\ captured[m] \in [Index(m) -> 0 .. MaxCaptures]
      /\ handed \in Seq(Range(handed)) /\ TableOK
  BY DEF IInv, TypeOK, TableOK, Lonely
<1>2. /\ \A j \in Index(m) : captured'[m][j] = IF j = i THEN 1 ELSE captured[m][j]
      /\ \A n \in Msg \ {m} : captured'[n] = captured[n]
  BY <1>1
<1>3. Repeated' = Repeated /\ Intact' = Intact
  <2>1. \A n \in Lonely : (\E j \in Index(n) : captured'[n][j] > 1)
                            <=> (\E j \in Index(n) : captured[n][j] > 1)
    BY <1>1, <1>2 DEF Lonely
  <2>2. Repeated' = Repeated
    BY <2>1 DEF Repeated
  <2> QED
    BY <2>2 DEF Intact
<1>4. K' = K \cup {i} /\ i \notin K /\ K \in SUBSET Index(m)
  BY <1>1, <1>2 DEF Seen
<1>5. Missing' = [Missing EXCEPT ![m] = @ \ {i}] /\ Missing[m] = Index(m) \ K
  <2>1. \A n \in Lonely \ {m} : Seen(n)' = Seen(n)
    BY <1>2 DEF Seen, Lonely
  <2> QED
    BY <1>4, <2>1 DEF Missing
<1>6. K \cup {i} = Index(m) <=> Missing[m] = {i}
  BY <1>4, <1>5
<1>7. \A n \in Lonely \ {m} : f.startSeq # StartSeqOf[n] /\ Foreign(f, n)
  BY <1>1, OwnWellFormed DEF Alone, Lonely
<1>8. WellFormed(f) /\ Intact \in SUBSET Lonely /\ Intact \in SUBSET Msg
  BY <1>1, OwnWellFormed DEF Intact, Lonely
<1>9. Out = Sent(handed, Intact) /\ Out' = Sent(handed', Intact)
  BY <1>3, OutIs, OutIsNext
<1>10. Out' = IF Missing[m] = {i} /\ m \notin Repeated THEN Append(Out, m) ELSE Out
  <2>1. CASE m \in Repeated
    <3>1. \A n \in Intact : f.startSeq # StartSeqOf[n] /\ Foreign(f, n)
      BY <1>7, <2>1 DEF Intact
    <3> HIDE DEF f
    <3> QED
      BY <1>8, <1>9, <2>1, <3>1, SentOther DEF f
  <2>2. CASE m \notin Repeated
    <3>1. Clean(m) /\ m \in Intact
      BY <1>1, <2>2 DEF Repeated, Clean, Intact
    <3>2. /\ StartSeqOf[m] \in DOMAIN fragments <=> K # {}
          /\ StartSeqOf[m] \in DOMAIN fragments => fragments[StartSeqOf[m]] = Partial(m, K)
      BY <1>1, <1>4, <3>1 DEF IInv, MessageOK
    <3>3. \/ K \cup {i} = Index(m) /\ handed' = Append(handed, Original(m))
          \/ K \cup {i} # Index(m) /\ handed' = handed
      <4> HIDE DEF K
      <4> QED
        BY <1>1, <1>4, <3>2, OwnFragment
    <3>4. handed' = Append(handed, Original(m)) =>
            Sent(handed', Intact) = Append(Sent(handed, Intact), m)
      <4> DEFINE x == Original(m)
                 I == Intact
      <4>1. handed \in Seq(Range(handed)) /\ I \in SUBSET Msg /\ m \in I
        BY <1>1, <1>8, <3>1
      <4> HIDE DEF x, I
      <4>2. x = Original(m) => Sent(Append(handed, x), I) = Append(Sent(handed, I), m)
        BY <4>1, SentAppend
      <4> QED
        BY <4>2 DEF x, I
    <3> HIDE DEF K
    <3> QED
      BY <1>6, <1>9, <2>2, <3>3, <3>4
  <2> QED
    BY <2>1, <2>2
<1>11. Whole!Capture(m, i)
  BY <1>3, <1>4, <1>5, <1>10 DEF Whole!Capture
<1> QED
  BY <1>11 DEF WholeStep, Whole!Next, Index

(* A fragment of such a message that was.                                  *)
LEMMA WholeRepeat ==
  ASSUME IInv, IInv', NEW m \in Lonely, NEW i \in Index(m), captured[m][i] # 0,
         HandleFragment(FragmentOf(m, i)),
         captured' = [captured EXCEPT ![m][i] = @ + 1]
  PROVE  WholeStep
<1> DEFINE f == FragmentOf(m, i)
           C == Intact \ {m}
<1>1. /\ m \in Msg /\ Alone(m) /\ DOMAIN captured = Msg
      /\ captured[m] \in [Index(m) -> 0 .. MaxCaptures]
      /\ handed \in Seq(Range(handed))
  BY DEF IInv, TypeOK, Lonely
<1>2. /\ \A j \in Index(m) : captured'[m][j] = IF j = i THEN captured[m][j] + 1 ELSE captured[m][j]
      /\ \A n \in Msg \ {m} : captured'[n] = captured[n]
      /\ captured[m][i] \in Nat \ {0}
  BY <1>1
<1>3. \A n \in Lonely : Seen(n)' = Seen(n)
  BY <1>1, <1>2 DEF Seen, Lonely
<1>4. Missing' = Missing /\ Missing[m] # Index(m)
  BY <1>1, <1>3 DEF Missing, Seen
<1>5. Repeated' = Repeated \cup {m}
  <2>1. \E j \in Index(m) : captured'[m][j] > 1
    BY <1>2
  <2>2. \A n \in Lonely \ {m} : n \in Msg \ {m}
    BY DEF Lonely
  <2> QED
    BY <1>2, <2>1, <2>2 DEF Repeated
<1>6. Intact' = C
  BY <1>5 DEF Intact
<1>7. \A n \in C : f.startSeq # StartSeqOf[n] /\ Foreign(f, n)
  BY <1>1, OwnWellFormed DEF Alone, Lonely, Intact
<1>8. WellFormed(f) /\ C \in SUBSET Lonely
  BY <1>1, OwnWellFormed DEF Intact
<1>9. Sent(handed', C) = Sent(handed, C)
  <2> HIDE DEF f, C
  <2> QED
    BY <1>7, <1>8, SentOther DEF f
<1>10. Sent(handed, C) = Filtered(Sent(handed, Intact), Lonely \ {m})
  <2> DEFINE I == Intact
  <2>1. handed \in Seq(Range(handed)) /\ I \in SUBSET Lonely
    BY <1>1 DEF Intact
  <2> HIDE DEF I
  <2>2. Sent(handed, I \ {m}) = Filtered(Sent(handed, I), Lonely \ {m})
    BY <2>1, SentStruck
  <2> QED
    BY <2>2 DEF I
<1>11. Out' = Filtered(Out, Lonely \ {m})
  BY <1>6, <1>9, <1>10, OutIs, OutIsNext
<1>12. Whole!Repeat(m)
  <2>1. Whole!Filtered(Out, Lonely \ {m}) = Filtered(Out, Lonely \ {m})
    BY DEF Filtered, Whole!Filtered
  <2> QED
    BY <1>4, <1>5, <1>11, <2>1 DEF Whole!Repeat, Index
<1> QED
  BY <1>12 DEF WholeStep, Whole!Next

LEMMA WholeInit ==
  ASSUME Init PROVE Whole!Init
<1>1. \A m \in Lonely : /\ m \in Msg /\ Seen(m) = {}
                        /\ \A i \in Index(m) : captured[m][i] = 0
  BY DEF Init, Seen, Lonely
<1>2. Missing = [m \in Lonely |-> Index(m)]
  BY <1>1 DEF Missing
<1>3. Repeated = {}
  BY <1>1 DEF Repeated
<1>4. Out = <<>>
  <2> DEFINE whole == {b \in Range(handed) : OfClean(b)}
             bodies == Filtered(handed, whole)
  <2>1. handed = <<>>
    BY DEF Init
  <2>2. Out = [j \in DOMAIN bodies |-> MessageIn(bodies[j])]
    BY DEF Out
  <2> HIDE DEF whole
  <2>3. bodies = <<>>
    BY <2>1, FilteredEmpty
  <2> HIDE DEF bodies
  <2> QED
    BY <2>2, <2>3
<1> QED
  BY <1>2, <1>3, <1>4 DEF Whole!Init, Index

LEMMA WholeNext ==
  ASSUME IInv, [Next]_vars PROVE WholeStep
<1>1. IInv'
  BY IInvNext
<1>2. CASE UNCHANGED vars
  <2>1. Missing' = Missing /\ Repeated' = Repeated
    BY <1>2 DEF vars, Missing, Seen, Repeated
  <2>2. handed' = handed /\ Intact' = Intact
    BY <1>2, <2>1 DEF vars, Intact
  <2>3. Out' = Out
    BY <1>1, <2>2, OutIs, OutIsNext
  <2> QED
    BY <2>1, <2>3 DEF WholeStep, Whole!avars
<1>3. ASSUME NEW m \in Msg, NEW i \in Index(m), Capture(m, i) PROVE WholeStep
  <2> DEFINE f == FragmentOf(m, i)
  <2>1. HandleFragment(f) /\ captured' = [captured EXCEPT ![m][i] = @ + 1]
    BY <1>3 DEF Capture
  <2>2. CASE m \in Lonely
    BY <1>1, <2>1, <2>2, WholeCapture, WholeRepeat
  <2>3. CASE m \notin Lonely
    <3>1. \A n \in Lonely : n \in Msg /\ n # m /\ captured'[n] = captured[n]
      BY <2>1, <2>3 DEF IInv, TypeOK, Lonely
    <3>2. /\ WellFormed(f)
          /\ \A n \in Lonely : f.startSeq # StartSeqOf[n] /\ Foreign(f, n)
      BY <3>1, OwnWellFormed DEF Lonely, Alone
    <3> HIDE DEF f
    <3> QED
      BY <1>1, <2>1, <3>1, <3>2, WholeOther
  <2> QED
    BY <2>2, <2>3
<1>4. ASSUME NEW f \in Noise, CaptureNoise(f) PROVE WholeStep
  <2>1. HandleFragment(f) /\ captured' = captured
    BY <1>4 DEF CaptureNoise
  <2>2. WellFormed(f) /\ \A n \in Lonely : f.startSeq # StartSeqOf[n] /\ Foreign(f, n)
    BY NoiseWellFormed DEF Lonely, Alone
  <2> QED
    BY <1>1, <2>1, <2>2, WholeOther
<1> QED
  BY <1>2, <1>3, <1>4 DEF Next

(* Message reassembly implements WholeMessages: a message that is alone on *)
(* its number is handed over once, whole, when its last missing fragment   *)
(* is captured, whatever else is on the wire and in whatever order, until  *)
(* one of its fragments is captured again.                                 *)
THEOREM ImplementsWholeMessages == Spec => WholeMessagesSpec
<1>1. Init => Whole!Init
  BY WholeInit
<1>2. IInv /\ [Next]_vars => [Whole!Next]_(Whole!avars)
  BY WholeNext DEF WholeStep
<1> QED
  BY <1>1, <1>2, IInvAlways, PTL DEF Spec, WholeMessagesSpec, Whole!Spec
=============================================================================
