--------------------------- MODULE LootController ---------------------------
(***************************************************************************)
(* loot.Controller (internal/loot/controller.go), which turns decoded      *)
(* events into records for the sink and tells loot from mobs by the object *)
(* ids of earlier NewMob events.  Its own locks make it safe for several   *)
(* callers; the Parser calls it from one at a time.                        *)
(*                                                                         *)
(* An event is [code, p0, p1]: its code and the values of the parameters   *)
(* 0 (an object id) and 1 (where the loot came from).  A value is          *)
(* [type, n, s] with type "absent", "int" or "string"; the parameters that *)
(* are only copied into the record are left out.                           *)
(***************************************************************************)
EXTENDS ParseInt, FiniteSets

CONSTANTS
  Caller,       \* the goroutines that call OnEvent
  Event,        \* the events
  NamesRead,    \* the names that OnlyDecimalsAreMobs asks about (a bound)
  MaxEvents     \* how many events there are (a bound)

ASSUME EventAssumption ==
  /\ IsFiniteSet(Caller) /\ MaxEvents \in Nat
  /\ \A e \in Event :
       /\ e.p0.n \in IntType /\ e.p1.n \in IntType /\ e.p1.s \in Seq(Nat)
       /\ e.p1.type \in {"absent", "int", "string"}

ASSUME NamesAssumption == NamesRead \subseteq Seq(Nat)

VARIABLES
  mobNames,         \* the object ids known to be mobs
  lootEventCount,   \* the counter the health monitor reads
  out,              \* the records given to the sink, in order
  pc,               \* where each caller is in OnEvent
  event,            \* the event it handles
  from,             \* the looted-from name it has resolved
  announced,        \* the ids of NewMob events, from their beginning on
  known,            \* those whose handling had ended before a caller's event
  taken             \* how many events were handed in

controller == <<mobNames, lootEventCount, out>>
frames == <<pc, event, from, known>>
vars == <<controller, frames, announced, taken>>

(* The name in a record whose loot came from a mob; -1 is no character.    *)
MOB == <<-1>>

(* toInt and toString of coerce.go on the values above.                    *)
AsInt(v) == IF v.type = "int" THEN v.n ELSE 0
AsString(v) ==
  CASE v.type = "absent" -> <<>>
    [] v.type = "int"    -> Decimal(v.n)
    [] v.type = "string" -> v.s

NoValue == [type |-> "absent", n |-> 0, s |-> <<>>]
NoEvent == [code |-> "none", p0 |-> NoValue, p1 |-> NoValue]

Init ==
  /\ mobNames = {}
  /\ lootEventCount = 0
  /\ out = <<>>
  /\ pc = [g \in Caller |-> "idle"]
  /\ event = [g \in Caller |-> NoEvent]
  /\ from = [g \in Caller |-> <<>>]
  /\ announced = {}
  /\ known = [g \in Caller |-> {}]
  /\ taken = 0

-----------------------------------------------------------------------------
Goes(g, a, b) == pc[g] = a /\ pc' = [pc EXCEPT ![g] = b]

(* OnEvent: the switch over the code, and the first step of each handler.  *)
Takes(g, e) ==
  /\ taken < MaxEvents
  /\ taken' = taken + 1
  /\ event' = [event EXCEPT ![g] = e]
  /\ known' = [known EXCEPT ![g] = mobNames]

GrabbedLoot(g, e) ==
  /\ e.code = "OtherGrabbedLoot"
  /\ Goes(g, "idle", "name")
  /\ Takes(g, e)
  /\ lootEventCount' = lootEventCount + 1
  /\ UNCHANGED <<mobNames, out, from, announced>>

NewLoot_NotCounted(g, e) ==
  /\ e.code = "NewLoot"
  /\ Goes(g, "idle", "emit")
  /\ Takes(g, e)
  /\ from' = [from EXCEPT ![g] = <<>>]
  /\ UNCHANGED <<mobNames, lootEventCount, out, announced>>

NewLoot(g, e) ==
  /\ e.code = "NewLoot"
  /\ Goes(g, "idle", "emit")
  /\ Takes(g, e)
  /\ lootEventCount' = lootEventCount + 1
  /\ from' = [from EXCEPT ![g] = <<>>]
  /\ UNCHANGED <<mobNames, out, announced>>

NewMob(g, e) ==
  /\ e.code = "NewMob"
  /\ Goes(g, "idle", "mob")
  /\ Takes(g, e)
  /\ announced' = announced \cup {AsInt(e.p0)}
  /\ UNCHANGED <<controller, from>>

OtherEvent(g, e) ==
  /\ e.code \notin {"OtherGrabbedLoot", "NewLoot", "NewMob"}
  /\ Goes(g, "idle", "idle")
  /\ Takes(g, e)
  /\ UNCHANGED <<controller, from, announced>>

(* isMobName; the read lock is held for the lookup only.                   *)
IsMobName_AnyNumber(name) == ParseIntStrict(name).ok

IsMobName(name) == ParseIntStrict(name).ok /\ ParseIntStrict(name).n \in mobNames

Name(g) ==
  LET name == AsString(event[g].p1) IN
    /\ Goes(g, "name", "emit")
    /\ from' = [from EXCEPT ![g] =
                  IF event[g].p1.type # "absent" /\ IsMobName(name) THEN MOB ELSE name]
    /\ UNCHANGED <<controller, event, known, announced, taken>>

(* The record goes to the sink.                                            *)
Emit(g) ==
  /\ Goes(g, "emit", "idle")
  /\ out' = Append(out, [event |-> event[g], from |-> from[g], known |-> known[g]])
  /\ UNCHANGED <<mobNames, lootEventCount, event, from, known, announced, taken>>

AddMob_OnlyTheLast(g) ==
  /\ Goes(g, "mob", "idle")
  /\ mobNames' = {AsInt(event[g].p0)}
  /\ UNCHANGED <<lootEventCount, out, event, from, known, announced, taken>>

AddMob(g) ==
  /\ Goes(g, "mob", "idle")
  /\ mobNames' = mobNames \cup {AsInt(event[g].p0)}
  /\ UNCHANGED <<lootEventCount, out, event, from, known, announced, taken>>

Next == \E g \in Caller :
  \/ \E e \in Event :
       GrabbedLoot(g, e) \/ NewLoot(g, e) \/ NewMob(g, e) \/ OtherEvent(g, e)
  \/ Name(g) \/ Emit(g) \/ AddMob(g)

Spec == Init /\ [][Next]_vars

-----------------------------------------------------------------------------
(* Properties.                                                             *)

Mobs == {AsInt(e.p0) : e \in Event}
Names == {MOB} \cup {AsString(e.p1) : e \in Event \cup {NoEvent}}
Record == [event : Event \cup {NoEvent}, from : Names, known : SUBSET Mobs]

TypeOK ==
  /\ announced \subseteq Mobs /\ mobNames \subseteq announced
  /\ lootEventCount \in Nat /\ taken \in 0 .. MaxEvents
  /\ out \in Seq(Record)
  /\ pc \in [Caller -> {"idle", "name", "emit", "mob"}]
  /\ event \in [Caller -> Event \cup {NoEvent}]
  /\ from \in [Caller -> Names]
  /\ known \in [Caller -> SUBSET Mobs]

(* Every counted event becomes one record and every record was counted     *)
(* first: a counter above zero with nothing under way means records, which *)
(* is how the README's table reads lootEvents (README.md:112).             *)
CountedOnce ==
  lootEventCount = Len(out) + Cardinality({g \in Caller : pc[g] \in {"name", "emit"}})

(* Loot from an object whose NewMob event was handled before the loot's    *)
(* own event came is put down to MOB, however many mobs and callers there  *)
(* are.                                                                    *)
KnownMobs ==
  \A j \in DOMAIN out : \A id \in out[j].known :
    /\ out[j].event.code = "OtherGrabbedLoot"
    /\ out[j].event.p1.type # "absent"
    /\ AsString(out[j].event.p1) = Decimal(id)
    => out[j].from = MOB

(* And no other loot is, if its name is written as an int is, or is no     *)
(* number.                                                                 *)
Plain(s) == Canonical(s) \/ \E id \in IntType : s = Decimal(id)
OnlyMobs ==
  \A j \in DOMAIN out :
    out[j].from = MOB /\ (ParseIntStrict(AsString(out[j].event.p1)).ok
                            => Plain(AsString(out[j].event.p1)))
    => \E id \in announced : AsString(out[j].event.p1) = Decimal(id)

(* Whatever mobs are known, the decimal of an int names a mob exactly if   *)
(* it is the id of one: parseIntStrict reads every int, the least included *)
(* although the sign is applied to a number that has wrapped around.  And  *)
(* no other way to write a number of fewer digits than the greatest int    *)
(* has is taken for a mob.                                                 *)
DecimalsNameMobs ==
  /\ \A id \in IntType : IsMobName(Decimal(id)) <=> id \in mobNames
  /\ \A s \in NamesRead : Canonical(s) /\ IsMobName(s) =>
       \E id \in mobNames : s = Decimal(id)

(* "Non-numeric names are players." (controller.go:116)                    *)
Numeric(s) == Unsigned(s) # <<>> /\ \A j \in DOMAIN Unsigned(s) : Unsigned(s)[j] \in Digit

NonNumericArePlayers ==
  \A j \in DOMAIN out :
    out[j].from = MOB => Numeric(AsString(out[j].event.p1))
=============================================================================
