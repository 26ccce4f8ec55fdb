----------------------------- MODULE CodeTables -----------------------------
(***************************************************************************)
(* The generated tables of internal/protocol: the members of the two       *)
(* upstream enums, numbered from zero without a gap, and their names.  The *)
(* names that the program depends on stand here as they are; of the others *)
(* it matters only that they are different, so that the n-th one is        *)
(* <<enum, n>>.                                                            *)
(***************************************************************************)
EXTENDS Integers

EventCode == 0 .. 711
OperationCode == 0 .. 555

EventCodeNewLoot == 98
EventCodeNewMob == 123
EventCodeOtherGrabbedLoot == 278

EventCodeNames ==
  [c \in EventCode |->
     CASE c = EventCodeNewLoot          -> <<"NewLoot">>
       [] c = EventCodeNewMob           -> <<"NewMob">>
       [] c = EventCodeOtherGrabbedLoot -> <<"OtherGrabbedLoot">>
       [] OTHER                         -> <<"EventCodes", c>>]

OperationCodeNames == [c \in OperationCode |-> <<"OperationCodes", c>>]

(* String: a code outside the table is printed with the name of its type.  *)
EventCodeString(c) ==
  IF c \in EventCode THEN EventCodeNames[c] ELSE <<"EventCode()", c>>

OperationCodeString(c) ==
  IF c \in OperationCode THEN OperationCodeNames[c] ELSE <<"OperationCode()", c>>

(* What is printed tells codes apart, whether or not they are in a table.  *)
ASSUME NamesTellCodesApart ==
  /\ \A c, d \in -1 .. 712 : EventCodeString(c) = EventCodeString(d) => c = d
  /\ \A c, d \in -1 .. 556 : OperationCodeString(c) = OperationCodeString(d) => c = d
=============================================================================
