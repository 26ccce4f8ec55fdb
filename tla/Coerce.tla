------------------------------- MODULE Coerce -------------------------------
(***************************************************************************)
(* internal/loot/coerce.go on the values that Protocol18 decodes, and the  *)
(* record that handleGrabbedLoot makes with it (toInt64 has no caller).    *)
(***************************************************************************)
EXTENDS Protocol18

CONSTANTS
  Truncated(_),   \* the int that Go converts a float to
  Printed(_)      \* the text of a value that is no string and no integer

Names == INSTANCE ParseInt WITH Width <- LongBits

IsInteger(v) == v[1] \in {"byte", "int16", "int32", "int64"}
IsFloat(v) == v[1] \in {"float32", "float64"}

AsInt_Int32(v) ==
  CASE v[1] \in {"byte", "int16", "int32"} -> v[2]
    [] IsFloat(v)      -> Truncated(v[2])
    [] v[1] = "bool"   -> IF v[2] THEN 1 ELSE 0
    [] OTHER           -> 0

AsInt(v) ==
  CASE IsInteger(v)  -> v[2]
    [] IsFloat(v)    -> Truncated(v[2])
    [] v[1] = "bool" -> IF v[2] THEN 1 ELSE 0
    [] OTHER         -> 0

AsBool(v) == \/ v[1] = "bool" /\ v[2]
             \/ IsInteger(v) /\ v[2] # 0

(* ASCII.  A character of a name is a digit, a minus or something else to  *)
(* parseIntStrict.                                                         *)
Digits(s) == [i \in DOMAIN s |-> IF s[i] = Minus THEN 45 ELSE 48 + s[i]]
Chars(s) == [i \in DOMAIN s |-> IF s[i] \in 48 .. 57 THEN s[i] - 48
                                ELSE IF s[i] = 45 THEN Minus ELSE s[i] + 256]

AsString(v) ==
  CASE v[1] = "nil"    -> <<>>
    [] v[1] = "string" -> v[2]
    [] IsInteger(v)    -> Digits(Decimal(v[2]))
    [] OTHER           -> Printed(v)

Param(p, key) == IF key \in DOMAIN p THEN p[key] ELSE Nil

(* The record before isMobName is asked about the name.                    *)
GrabbedLoot(p) ==
  [ lootedFromName |-> AsString(Param(p, 1)),
    lootedByName   |-> AsString(Param(p, 2)),
    isSilver       |-> AsBool(Param(p, 3)),
    itemIndex      |-> AsInt(Param(p, 4)),
    quantity       |-> AsInt(Param(p, 5)) ]
=============================================================================
