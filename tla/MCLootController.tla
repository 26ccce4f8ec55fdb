-------------------------- MODULE MCLootController --------------------------
(* Constants for the runs of LootController.                               *)
EXTENDS LootController

Number(n) == [type |-> "int", n |-> n, s |-> <<>>]
Text(s) == [type |-> "string", n |-> 0, s |-> s]

Mob(v) == [code |-> "NewMob", p0 |-> v, p1 |-> NoValue]
Loot(v) == [code |-> "OtherGrabbedLoot", p0 |-> NoValue, p1 |-> v]
Body == [code |-> "NewLoot", p0 |-> Number(1), p1 |-> NoValue]
Silver == [code |-> "TakeSilver", p0 |-> Number(1), p1 |-> NoValue]

(* Three mobs, the least int among them, and loot from them, by number and *)
(* by name; a number that is no mob, a player, a mob event without an id,  *)
(* loot from nowhere.                                                      *)
Events == {Mob(Number(12)), Mob(Number(-1)), Mob(Number(-128)), Mob(NoValue), Loot(Number(12)),
           Loot(Text(<<10, 1>>)), Loot(Text(<<7>>)), Loot(Text(<<11, 1>>)),
           Loot(NoValue), Body, Silver}

(* All names of at most three characters: digits, the minus, a letter.     *)
ShortNames == UNION {[1 .. n -> {0, 1, 2, 8, 10, 11}] : n \in 0 .. 3}
FewNames == {<<10>>}

(* A player whose name is a minus sign.                                    *)
MinusEvents == {Mob(NoValue), Loot(Text(<<10>>))}
=============================================================================
