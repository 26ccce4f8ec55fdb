------------------------ MODULE LootControllerProofs ------------------------
(***************************************************************************)
(* LootController counts every record once, and puts loot from a known mob *)
(* and no other down to MOB, for any callers and events.  What this says   *)
(* of the digits of a name rests on the lemmas about Ints, by induction    *)
(* over the digits.                                                        *)
(***************************************************************************)
EXTENDS LootController, DataLemmas, FiniteSetTheorems, TLAPS

(* The callers that have counted an event and not yet given its record.    *)
Counted == {g \in Caller : pc[g] \in {"name", "emit"}}

(* What a caller has yet to give the sink is right about the known mobs.   *)
Attributed(rec) ==
  \A id \in rec.known :
    /\ rec.event.code = "OtherGrabbedLoot"
    /\ rec.event.p1.type # "absent"
    /\ AsString(rec.event.p1) = Decimal(id)
    => rec.from = MOB

Pending(g) == [event |-> event[g], from |-> from[g], known |-> known[g]]

(* The id that a caller is about to add was announced.                     *)
Announced == \A g \in Caller : pc[g] = "mob" => AsInt(event[g].p0) \in announced

CountInv == TypeOK /\ CountedOnce /\ Announced

(* No mob is forgotten, and what is, or is to be, in the log is right.     *)
Known ==
  /\ \A g \in Caller :
       /\ known[g] \subseteq mobNames
       /\ pc[g] = "emit" => Attributed(Pending(g))
  /\ \A j \in DOMAIN out : Attributed(out[j])

-----------------------------------------------------------------------------
LEMMA CountedFinite == IsFiniteSet(Counted) /\ Cardinality(Counted) \in Nat
<1>1. IsFiniteSet(Counted)
  BY EventAssumption, FS_Subset DEF Counted
<1> QED
  BY <1>1, FS_CardinalityType

(* One caller goes into or out of a counted event, or neither.             *)
LEMMA CountedMoves ==
  ASSUME TypeOK, NEW g \in Caller,
         NEW a \in {"idle", "name", "emit", "mob"}, NEW b \in {"idle", "name", "emit", "mob"},
         Goes(g, a, b)
  PROVE  Cardinality(Counted') =
           Cardinality(Counted) + (IF b \in {"name", "emit"} THEN 1 ELSE 0)
                                - (IF a \in {"name", "emit"} THEN 1 ELSE 0)
<1>1. pc[g] = a /\ pc' = [pc EXCEPT ![g] = b]
  BY DEF Goes
<1>2. g \in Counted <=> a \in {"name", "emit"}
  BY <1>1 DEF Counted
<1>3. CASE b \in {"name", "emit"}
  <2>1. Counted' = Counted \cup {g}
    BY <1>1, <1>3 DEF Counted, TypeOK
  <2> QED
    BY <1>2, <1>3, <2>1, CountedFinite, FS_AddElement
<1>4. CASE b \notin {"name", "emit"}
  <2>1. Counted' = Counted \ {g}
    BY <1>1, <1>4 DEF Counted, TypeOK
  <2>2. Cardinality(Counted \ {g}) =
          IF g \in Counted THEN Cardinality(Counted) - 1 ELSE Cardinality(Counted)
    BY CountedFinite, FS_RemoveElement
  <2> QED
    BY <1>2, <1>4, <2>1, <2>2, CountedFinite
<1> QED
  BY <1>3, <1>4

(* An event that a caller takes leaves every variable in its type.         *)
LEMMA TakenTyped ==
  ASSUME TypeOK, NEW g \in Caller, NEW e \in Event, NEW b \in {"idle", "name", "emit", "mob"},
         Goes(g, "idle", b), Takes(g, e)
  PROVE  /\ pc' \in [Caller -> {"idle", "name", "emit", "mob"}]
         /\ event' \in [Caller -> Event \cup {NoEvent}]
         /\ known' \in [Caller -> SUBSET Mobs]
         /\ taken' \in 0 .. MaxEvents
BY EventAssumption DEF TypeOK, Goes, Takes

LEMMA NamesTyped ==
  /\ <<>> \in Names /\ MOB \in Names
  /\ \A e \in Event \cup {NoEvent} : AsString(e.p1) \in Names
<1>1. AsString(NoEvent.p1) = <<>>
  BY DEF AsString, NoEvent, NoValue
<1> QED
  BY <1>1 DEF Names

LEMMA CountInit ==
  ASSUME Init PROVE CountInv
<1>1. TypeOK
  BY EventAssumption, EmptySeq, NamesTyped DEF Init, TypeOK
<1>2. Counted = {} /\ Len(out) = 0 /\ lootEventCount = 0
  BY EmptySeq DEF Init, Counted
<1> QED
  BY <1>1, <1>2, FS_EmptySet DEF CountInv, CountedOnce, Counted, Announced, Init

LEMMA CountStep ==
  ASSUME CountInv, Next PROVE CountInv'
<1> USE DEF CountInv
<1>1. PICK g \in Caller :
        \/ \E e \in Event :
             GrabbedLoot(g, e) \/ NewLoot(g, e) \/ NewMob(g, e) \/ OtherEvent(g, e)
        \/ Name(g) \/ Emit(g) \/ AddMob(g)
  BY DEF Next
<1>2. lootEventCount = Len(out) + Cardinality(Counted) /\ Len(out) \in Nat
  BY LenProperties DEF CountedOnce, Counted, TypeOK
<1>3. CountedOnce' <=> lootEventCount' = Len(out') + Cardinality(Counted')
  BY DEF CountedOnce, Counted
<1>4. ASSUME NEW e \in Event, GrabbedLoot(g, e) PROVE CountInv'
  <2>1. TypeOK'
    BY <1>4, TakenTyped DEF GrabbedLoot, TypeOK
  <2>2. Cardinality(Counted') = Cardinality(Counted) + 1
    BY <1>4, CountedMoves, CountedFinite DEF GrabbedLoot
  <2>3. Announced'
    BY <1>4 DEF GrabbedLoot, Goes, TypeOK, Announced, Takes
  <2> QED
    BY <1>2, <1>3, <1>4, <2>1, <2>2, CountedFinite, <2>3 DEF GrabbedLoot
<1>5. ASSUME NEW e \in Event, NewLoot(g, e) PROVE CountInv'
  <2>1. TypeOK'
    BY <1>5, TakenTyped, NamesTyped DEF NewLoot, TypeOK
  <2>2. Cardinality(Counted') = Cardinality(Counted) + 1
    BY <1>5, CountedMoves, CountedFinite DEF NewLoot
  <2>3. Announced'
    BY <1>5 DEF NewLoot, Goes, TypeOK, Announced, Takes
  <2> QED
    BY <1>2, <1>3, <1>5, <2>1, <2>2, CountedFinite, <2>3 DEF NewLoot
<1>6. ASSUME NEW e \in Event, NewMob(g, e) PROVE CountInv'
  <2>1. TypeOK'
    BY <1>6, TakenTyped DEF NewMob, TypeOK, controller, Mobs
  <2>2. Cardinality(Counted') = Cardinality(Counted)
    BY <1>6, CountedMoves, CountedFinite DEF NewMob
  <2>3. Announced'
    BY <1>6 DEF NewMob, Goes, TypeOK, Announced, Takes
  <2> QED
    BY <1>2, <1>3, <1>6, <2>1, <2>2, <2>3 DEF NewMob, controller
<1>7. ASSUME NEW e \in Event, OtherEvent(g, e) PROVE CountInv'
  <2>1. TypeOK'
    BY <1>7, TakenTyped DEF OtherEvent, TypeOK, controller
  <2>2. Cardinality(Counted') = Cardinality(Counted)
    BY <1>7, CountedMoves, CountedFinite DEF OtherEvent
  <2>3. Announced'
    BY <1>7 DEF OtherEvent, Goes, TypeOK, Announced, Takes, controller
  <2> QED
    BY <1>2, <1>3, <1>7, <2>1, <2>2, <2>3 DEF OtherEvent, controller
<1>8. ASSUME Name(g) PROVE CountInv'
  <2>1. TypeOK'
    BY <1>8, NamesTyped DEF Name, Goes, TypeOK, controller
  <2>2. Cardinality(Counted') = Cardinality(Counted)
    BY <1>8, CountedMoves, CountedFinite DEF Name
  <2>3. Announced'
    BY <1>8 DEF Name, Goes, TypeOK, Announced
  <2> QED
    BY <1>2, <1>3, <1>8, <2>1, <2>2, <2>3 DEF Name, controller
<1>9. ASSUME Emit(g) PROVE CountInv'
  <2>1. Pending(g) \in Record
    BY DEF Pending, Record, TypeOK
  <2>2. out' = Append(out, Pending(g)) /\ out' \in Seq(Record) /\ Len(out') = Len(out) + 1
    BY <1>9, <2>1, AppendProperties DEF Emit, Pending, TypeOK
  <2>3. TypeOK'
    BY <1>9, <2>2 DEF Emit, Goes, TypeOK
  <2>4. Cardinality(Counted') = Cardinality(Counted) - 1
    BY <1>9, CountedMoves, CountedFinite DEF Emit
  <2>5. Announced'
    BY <1>9 DEF Emit, Goes, TypeOK, Announced
  <2> QED
    BY <1>2, <1>3, <1>9, <2>2, <2>3, <2>4, CountedFinite, <2>5 DEF Emit
<1>10. ASSUME AddMob(g) PROVE CountInv'
  <2>1. AsInt(event[g].p0) \in announced
    BY <1>10 DEF AddMob, Goes, Announced
  <2>2. TypeOK'
    BY <1>10, <2>1 DEF AddMob, Goes, TypeOK
  <2>3. Cardinality(Counted') = Cardinality(Counted)
    BY <1>10, CountedMoves, CountedFinite DEF AddMob
  <2>4. Announced'
    BY <1>10 DEF AddMob, Goes, TypeOK, Announced
  <2> QED
    BY <1>2, <1>3, <1>10, <2>2, <2>3, <2>4 DEF AddMob
<1> QED
  BY <1>1, <1>4, <1>5, <1>6, <1>7, <1>8, <1>9, <1>10

LEMMA CountAlways == Spec => []CountInv
<1>1. Init => CountInv
  BY CountInit
<1>2. CountInv /\ [Next]_vars => CountInv'
  <2>1. CountInv /\ UNCHANGED vars => CountInv'
    BY DEF CountInv, TypeOK, CountedOnce, Announced, vars, controller, frames
  <2> QED
    BY <2>1, CountStep
<1> QED
  BY <1>1, <1>2, PTL DEF Spec

-----------------------------------------------------------------------------
(* parseIntStrict at the width of int.                                     *)

LEMMA IntTypeHalf == Half \in Nat \ {0} /\ IntType = -Half .. Half - 1
<1>1. Width - 1 \in Nat
  BY WidthAssumption
<1>2. PowerOfTwo[Width - 1] \in Nat \ {0}
  BY <1>1, Powers
<1> QED
  BY <1>2 DEF Half, IntType, SignedRange

LEMMA NamesReadBack ==
  ASSUME NEW id \in IntType
  PROVE  ParseIntStrict(Decimal(id)) = [ok |-> TRUE, n |-> id]
<1>1. id \in -Half .. Half - 1 /\ Half \in Nat \ {0}
  BY IntTypeHalf
<1>2. ParseIntAt(Half, Decimal(id)) = [ok |-> TRUE, n |-> id]
  BY <1>1, DecimalsReadBack
<1> QED
  BY <1>2 DEF ParseIntStrict

(* A canonical name that parseIntStrict accepts is what is printed for an  *)
(* int.                                                                    *)
LEMMA CanonicalDecimal ==
  ASSUME NEW s \in Seq(Nat), Canonical(s), ParseIntStrict(s).ok
  PROVE  \E id \in IntType : s = Decimal(id)
<1> DEFINE u == Unsigned(s)
<1>1. s # <<>> /\ \A j \in DOMAIN u : u[j] \in Digit
  BY DEF ParseIntStrict, ParseIntAt, NotANumber
<1>2. u \in Seq(Nat)
  BY <1>1 DEF Unsigned
<1>3. Len(u) \in Nat /\ u \in [1 .. Len(u) -> Nat]
  BY <1>2, LenProperties
<1>4. u \in Seq(Digit)
  <2> HIDE DEF u
  <2>1. u \in [1 .. Len(u) -> Digit]
    BY <1>1, <1>3
  <2> QED
    BY <1>3, <2>1
<1>5. u # <<>> /\ Len(u) < Len(Numeral[Half]) /\ (u[1] = 0 => s = <<0>>)
  BY DEF Canonical
<1>6. CASE u[1] = 0
  <2>1. s = <<0>> /\ Decimal(0) = Numeral[0] /\ Numeral[0] = <<0>>
    BY <1>5, <1>6, NumeralFacts DEF Decimal
  <2>2. 0 \in IntType
    BY IntTypeHalf
  <2> QED
    BY <2>1, <2>2
<1>7. CASE u[1] # 0
  <2>1. PICK n \in Nat \ {0} : u = Numeral[n]
    <3> HIDE DEF u
    <3> QED
      BY <1>4, <1>5, <1>7, DigitsNumeral
  <2>2. n < Half
    <3>1. Half <= n => Len(Numeral[Half]) <= Len(Numeral[n])
      BY IntTypeHalf, NumeralLonger
    <3>2. Len(Numeral[Half]) \in Nat
      BY IntTypeHalf, NumeralFacts, LenProperties
    <3> QED
      BY <1>3, <1>5, <2>1, <3>1, <3>2, IntTypeHalf
  <2>3. n \in IntType /\ -n \in IntType /\ -n < 0 /\ -(-n) = n /\ ~(n < 0)
    BY <2>2, IntTypeHalf
  <2>4. Decimal(n) = u /\ Decimal(-n) = <<Minus>> \o u
    BY <2>1, <2>3 DEF Decimal
  <2>5. CASE Negative(s)
    <3>1. s[1] = Minus /\ u = Tail(s)
      BY <2>5 DEF Negative, Unsigned
    <3>2. s = <<Minus>> \o u
      BY <1>1, <3>1
    <3> QED
      BY <2>3, <2>4, <3>2
  <2>6. CASE ~Negative(s)
    <3>1. s = u
      BY <2>6 DEF Unsigned
    <3> QED
      BY <2>3, <2>4, <3>1
  <2> QED
    BY <2>5, <2>6
<1> QED
  BY <1>6, <1>7

-----------------------------------------------------------------------------
(* What is known of mobs.                                                  *)

LEMMA MobsAreInts == Mobs \subseteq IntType
<1>1. 0 \in IntType
  BY IntTypeHalf
<1> QED
  BY <1>1, EventAssumption DEF Mobs, AsInt

(* A record keeps right as long as it is not touched.                      *)
LEMMA KnownStays ==
  ASSUME TypeOK, Known, NEW g \in Caller, pc'[g] = "emit" => Attributed(Pending(g)'),
         known'[g] \subseteq mobNames', mobNames \subseteq mobNames',
         \A h \in Caller \ {g} :
           pc'[h] = pc[h] /\ event'[h] = event[h] /\ from'[h] = from[h] /\ known'[h] = known[h],
         \A j \in DOMAIN out' : Attributed(out'[j])
  PROVE  Known'
BY DEF Known, Pending, Attributed

LEMMA KnownStep ==
  ASSUME TypeOK, Known, Next PROVE Known'
<1>1. PICK g \in Caller :
        \/ \E e \in Event :
             GrabbedLoot(g, e) \/ NewLoot(g, e) \/ NewMob(g, e) \/ OtherEvent(g, e)
        \/ Name(g) \/ Emit(g) \/ AddMob(g)
  BY DEF Next
<1>2. ASSUME NEW e \in Event,
             GrabbedLoot(g, e) \/ NewMob(g, e) \/ OtherEvent(g, e)
      PROVE  Known'
  <2>1. PICK b \in {"name", "mob", "idle"} : Goes(g, "idle", b)
    BY <1>2 DEF GrabbedLoot, NewMob, OtherEvent
  <2>2. Takes(g, e) /\ UNCHANGED <<mobNames, out, from>>
    BY <1>2 DEF GrabbedLoot, NewMob, OtherEvent, controller
  <2> QED
    BY <2>1, <2>2, KnownStays DEF Goes, Takes, TypeOK, Known
<1>3. ASSUME NEW e \in Event, NewLoot(g, e) PROVE Known'
  <2>1. event'[g].code # "OtherGrabbedLoot"
    BY <1>3 DEF NewLoot, Takes, TypeOK
  <2>2. Attributed(Pending(g)')
    BY <2>1 DEF Attributed, Pending
  <2> QED
    BY <1>3, <2>2, KnownStays DEF NewLoot, Goes, Takes, TypeOK, Known
<1>4. ASSUME Name(g) PROVE Known'
  <2>1. known[g] \subseteq mobNames /\ mobNames \subseteq Mobs
    BY DEF Known, TypeOK
  <2>2. ASSUME NEW id \in known[g], event[g].p1.type # "absent",
               AsString(event[g].p1) = Decimal(id)
        PROVE  from'[g] = MOB
    <3>1. id \in IntType /\ id \in mobNames
      BY <2>1, <2>2, MobsAreInts
    <3>2. ParseIntStrict(Decimal(id)) = [ok |-> TRUE, n |-> id]
      BY <3>1, NamesReadBack
    <3>3. IsMobName(AsString(event[g].p1))
      BY <2>2, <3>1, <3>2 DEF IsMobName
    <3> QED
      BY <1>4, <2>2, <3>3 DEF Name, TypeOK
  <2>3. Attributed(Pending(g)')
    BY <1>4, <2>2 DEF Name, Attributed, Pending
  <2> QED
    BY <1>4, <2>3, KnownStays DEF Name, Goes, TypeOK, Known, controller
<1>5. ASSUME Emit(g) PROVE Known'
  <2>1. out' = Append(out, Pending(g)) /\ pc[g] = "emit" /\ pc' = [pc EXCEPT ![g] = "idle"]
    BY <1>5 DEF Emit, Goes, Pending
  <2>2. Attributed(Pending(g)) /\ \A j \in DOMAIN out : Attributed(out[j])
    BY <2>1 DEF Known
  <2>3. \A j \in DOMAIN out' : Attributed(out'[j])
    <3>1. Pending(g) \in Record
      BY DEF Pending, Record, TypeOK
    <3> QED
      BY <2>1, <2>2, <3>1, AppendProperties, LenProperties DEF TypeOK
  <2> QED
    BY <1>5, <2>1, <2>3, KnownStays DEF Emit, TypeOK, Known
<1>6. ASSUME AddMob(g) PROVE Known'
  BY <1>6, KnownStays DEF AddMob, Goes, TypeOK, Known
<1> QED
  BY <1>1, <1>2, <1>3, <1>4, <1>5, <1>6

-----------------------------------------------------------------------------
(* What is put down to MOB.                                                *)

(* A record that names MOB as its source has the number of an announced    *)
(* mob for its name, as parseIntStrict reads it.                           *)
ByMob(rec) ==
  rec.from = MOB =>
    LET read == ParseIntStrict(AsString(rec.event.p1)) IN read.ok /\ read.n \in announced

Sourced ==
  /\ \A g \in Caller : pc[g] = "emit" => ByMob(Pending(g))
  /\ \A j \in DOMAIN out : ByMob(out[j])

(* A name is a sequence of characters, and so is not MOB.                  *)
LEMMA NamesAreText ==
  ASSUME NEW e \in Event \cup {NoEvent}
  PROVE  AsString(e.p1) \in Seq(Nat) /\ AsString(e.p1) # MOB
<1>1. AsString(e.p1) \in Seq(Nat)
  <2>1. CASE e = NoEvent
    BY <2>1, EmptySeq DEF NoEvent, NoValue, AsString
  <2>2. CASE e \in Event
    <3>1. e.p1.n \in IntType /\ e.p1.s \in Seq(Nat) /\ e.p1.type \in {"absent", "int", "string"}
      BY <2>2, EventAssumption
    <3>2. Decimal(e.p1.n) \in Seq(Nat)
      <4> DEFINE n == e.p1.n
                 m == IF n < 0 THEN -n ELSE n
      <4>1. n \in Int /\ m \in Nat
        BY <3>1, IntTypeHalf
      <4> HIDE DEF m
      <4>2. Numeral[m] \in Seq(Nat)
        <5>1. Numeral[m] \in Seq(Digit)
          BY <4>1, NumeralFacts
        <5>2. Digit \subseteq Nat
          BY DEF Digit
        <5> QED
          BY <5>1, <5>2, SeqMonotonic
      <4>3. <<Minus>> \o Numeral[m] \in Seq(Nat)
        BY <4>2 DEF Minus
      <4> QED
        BY <4>2, <4>3 DEF Decimal, m
    <3> QED
      BY <3>1, <3>2, EmptySeq DEF AsString
  <2> QED
    BY <2>1, <2>2
<1>2. MOB \notin Seq(Nat)
  <2>1. MOB[1] = -1 /\ Len(MOB) = 1
    BY DEF MOB
  <2>2. ASSUME NEW s \in Seq(Nat), Len(s) = 1 PROVE s[1] \in Nat
    BY <2>2, ElementOfSeq
  <2> QED
    BY <2>1, <2>2
<1> QED
  BY <1>1, <1>2

(* A record keeps so as long as it is not touched.                         *)
LEMMA SourcedStays ==
  ASSUME TypeOK, Sourced, NEW g \in Caller, pc'[g] = "emit" => ByMob(Pending(g))',
         announced \subseteq announced',
         \A h \in Caller \ {g} : pc'[h] = pc[h] /\ event'[h] = event[h] /\ from'[h] = from[h],
         out' = out \/ \A j \in DOMAIN out' : ByMob(out'[j])
  PROVE  Sourced'
BY DEF Sourced, Pending, ByMob

LEMMA SourcedStep ==
  ASSUME TypeOK, Sourced, Next PROVE Sourced'
<1>1. PICK g \in Caller :
        \/ \E e \in Event :
             GrabbedLoot(g, e) \/ NewLoot(g, e) \/ NewMob(g, e) \/ OtherEvent(g, e)
        \/ Name(g) \/ Emit(g) \/ AddMob(g)
  BY DEF Next
<1>2. ASSUME NEW e \in Event,
             GrabbedLoot(g, e) \/ NewMob(g, e) \/ OtherEvent(g, e)
      PROVE  Sourced'
  <2>1. PICK b \in {"name", "mob", "idle"} : Goes(g, "idle", b)
    BY <1>2 DEF GrabbedLoot, NewMob, OtherEvent
  <2>2. Takes(g, e) /\ UNCHANGED <<out, from>> /\ announced \subseteq announced'
    BY <1>2 DEF GrabbedLoot, NewMob, OtherEvent, controller
  <2> QED
    BY <2>1, <2>2, SourcedStays DEF Goes, Takes, TypeOK
<1>3. ASSUME NEW e \in Event, NewLoot(g, e) PROVE Sourced'
  <2>1. from'[g] # MOB
    BY <1>3 DEF NewLoot, TypeOK, MOB
  <2>2. ByMob(Pending(g))'
    BY <2>1 DEF ByMob, Pending
  <2> QED
    BY <1>3, <2>2, SourcedStays DEF NewLoot, Goes, Takes, TypeOK
<1>4. ASSUME Name(g) PROVE Sourced'
  <2>1. AsString(event[g].p1) # MOB
    BY NamesAreText DEF TypeOK
  <2>2. from'[g] = MOB => IsMobName(AsString(event[g].p1))
    BY <1>4, <2>1 DEF Name, TypeOK
  <2>3. ByMob(Pending(g))'
    BY <1>4, <2>2 DEF Name, ByMob, Pending, IsMobName, TypeOK
  <2> QED
    BY <1>4, <2>3, SourcedStays DEF Name, Goes, TypeOK, controller
<1>5. ASSUME Emit(g) PROVE Sourced'
  <2>1. out' = Append(out, Pending(g)) /\ pc[g] = "emit" /\ pc' = [pc EXCEPT ![g] = "idle"]
    BY <1>5 DEF Emit, Goes, Pending
  <2>2. ByMob(Pending(g)) /\ \A j \in DOMAIN out : ByMob(out[j])
    BY <2>1 DEF Sourced
  <2>3. \A j \in DOMAIN out' : ByMob(out'[j])
    <3>1. Pending(g) \in Record
      BY DEF Pending, Record, TypeOK
    <3> QED
      BY <2>1, <2>2, <3>1, AppendProperties, LenProperties DEF TypeOK
  <2> QED
    BY <1>5, <2>1, <2>3, SourcedStays DEF Emit, TypeOK
<1>6. ASSUME AddMob(g) PROVE Sourced'
  BY <1>6, SourcedStays DEF AddMob, Goes, TypeOK
<1> QED
  BY <1>1, <1>2, <1>3, <1>4, <1>5, <1>6

LEMMA SourcedOnlyMobs ==
  ASSUME TypeOK, Sourced PROVE OnlyMobs
<1> SUFFICES ASSUME NEW j \in DOMAIN out, out[j].from = MOB,
                    ParseIntStrict(AsString(out[j].event.p1)).ok
                      => Plain(AsString(out[j].event.p1))
             PROVE  \E id \in announced : AsString(out[j].event.p1) = Decimal(id)
  BY DEF OnlyMobs
<1> DEFINE s == AsString(out[j].event.p1)
<1>1. out[j].event \in Event \cup {NoEvent}
  <2>1. out \in Seq(Record) /\ j \in 1 .. Len(out)
    BY LenProperties DEF TypeOK
  <2>2. out[j] \in Record
    BY <2>1, ElementOfSeq
  <2> QED
    BY <2>2 DEF Record
<1>2. s \in Seq(Nat)
  BY <1>1, NamesAreText
<1>3. ParseIntStrict(s).ok /\ ParseIntStrict(s).n \in announced
  BY DEF Sourced, ByMob
<1> HIDE DEF s
<1>4. Plain(s)
  BY <1>3 DEF s
<1>5. PICK id \in IntType : s = Decimal(id)
  BY <1>2, <1>3, <1>4, CanonicalDecimal DEF Plain
<1> QED
  BY <1>3, <1>5, NamesReadBack DEF s

-----------------------------------------------------------------------------
(* The theorems.                                                           *)

(* Every variable keeps to its values; a known mob has been announced.     *)
THEOREM TypeCorrect == Spec => []TypeOK
BY CountAlways, PTL DEF CountInv

(* The counter the health monitor reads is the number of records given to  *)
(* the sink and of those under way, for any number of callers.             *)
THEOREM RecordsCounted == Spec => []CountedOnce
BY CountAlways, PTL DEF CountInv

(* Loot from a mob that was known when the loot's event came is put down   *)
(* to MOB, for any callers, events and order of their steps.               *)
THEOREM MobsNamed == Spec => []KnownMobs
<1>1. Init => Known
  BY EmptySeq DEF Init, Known
<1>2. TypeOK /\ Known /\ [Next]_vars => Known'
  <2>1. Known /\ UNCHANGED vars => Known'
    BY DEF Known, Attributed, Pending, vars, controller, frames
  <2> QED
    BY <2>1, KnownStep
<1>3. Known => KnownMobs
  BY DEF Known, Attributed, KnownMobs
<1> QED
  BY <1>1, <1>2, <1>3, TypeCorrect, PTL DEF Spec

(* No other loot is put down to MOB, unless its name is a number that is   *)
(* written as no int is.                                                   *)
THEOREM OthersNamed == Spec => []OnlyMobs
<1>1. Init => Sourced
  BY EmptySeq DEF Init, Sourced
<1>2. TypeOK /\ Sourced /\ [Next]_vars => Sourced'
  <2>1. Sourced /\ UNCHANGED vars => Sourced'
    BY DEF Sourced, ByMob, Pending, vars, controller, frames
  <2> QED
    BY <2>1, SourcedStep
<1>3. TypeOK /\ Sourced => OnlyMobs
  BY SourcedOnlyMobs
<1> QED
  BY <1>1, <1>2, <1>3, TypeCorrect, PTL DEF Spec

(* Whatever has been announced, the decimal of an int names a mob exactly  *)
(* if it is a mob's, and no other way to write a number of fewer digits    *)
(* than the greatest int has does, for ints of any width and any names.    *)
THEOREM DecimalsAreNames == Spec => []DecimalsNameMobs
<1>1. TypeOK => DecimalsNameMobs
  <2>1. ASSUME NEW id \in IntType PROVE IsMobName(Decimal(id)) <=> id \in mobNames
    BY NamesReadBack DEF IsMobName
  <2>2. ASSUME NEW s \in NamesRead, Canonical(s), IsMobName(s)
        PROVE  \E id \in mobNames : s = Decimal(id)
    <3>1. s \in Seq(Nat) /\ ParseIntStrict(s).ok /\ ParseIntStrict(s).n \in mobNames
      BY <2>2, NamesAssumption DEF IsMobName
    <3>2. PICK id \in IntType : s = Decimal(id)
      BY <2>2, <3>1, CanonicalDecimal
    <3> QED
      BY <3>1, <3>2, NamesReadBack
  <2> QED
    BY <2>1, <2>2 DEF DecimalsNameMobs
<1> QED
  BY <1>1, TypeCorrect, PTL
=============================================================================
