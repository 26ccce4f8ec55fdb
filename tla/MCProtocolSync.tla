--------------------------- MODULE MCProtocolSync ---------------------------
(* Constants for the run of ProtocolSync.                                  *)
EXTENDS ProtocolSync

Noted(name, value, comment) ==
  [kind |-> "member", name |-> name, value |-> value, comment |-> comment]
Comment(text, long, splits) == [text |-> text, long |-> long, splits |-> splits]
NoComment == Comment("", FALSE, FALSE)
Is(name, value) == Noted(name, value, NoComment)
Counted(name) == Is(name, Unset)
Other == [kind |-> "other", name |-> "", value |-> Unset, comment |-> NoComment]
File(lines) == [found |-> TRUE, lines |-> lines]

E1 == File(<<Is("Unused", 0), Other, Counted("Loot"), Counted("Mob")>>)
E2 == File(<<Is("Unused", 0), Counted("Leave"), Noted("Loot", Unset, Comment("of a body", TRUE, FALSE)),
             Other, Is("Mob", 5), Counted("Join")>>)
E3 == File(<<Counted("Unused"), Counted("Loot"), Is("Leave", 1)>>)
O1 == File(<<Is("Unused", 0), Counted("Ping")>>)
O2 == File(<<Is("Unused", 0), Counted("Auth"), Counted("Ping")>>)
O3 == File(<<Is("Unused", 0), Noted("Ping", Unset, Comment("of a server", TRUE, TRUE))>>)
E4 == [found |-> FALSE, lines |-> <<>>]

At(e, o, sources) == [files |-> <<e, o>>, sources |-> sources]

(* The second file alone; both, with another member and a long comment;    *)
(* two members with one value; a comment that is cut within a character;   *)
(* a file that is not there.                                               *)
Versions == << At(E1, O1, <<"a">>), At(E1, O2, <<"b">>), At(E2, O1, <<"b">>),
               At(E3, O1, <<"a">>), At(E1, O3, <<"a">>), At(E4, O1, <<"a">>) >>

SomeUses == {{"Loot", "Mob"}, {"Loot", "Mob", "Join"}}
=============================================================================
