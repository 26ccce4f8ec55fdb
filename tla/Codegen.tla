------------------------------ MODULE Codegen ------------------------------
(***************************************************************************)
(* tools/codegen: from the lines of a C# file to a table of numbered      *)
(* names.  A file is [found, lines]; found says whether the enum and its   *)
(* braces are there.  A line of it is [kind, name, value, comment]: a      *)
(* member, whose value is Unset if it has no "= N", or something that       *)
(* memberRe does not match, such as a blank line or an attribute.  A       *)
(* comment is [text, long, splits]: whether it has more than 160 bytes,    *)
(* and whether its 157th byte is followed by the rest of a character.  A   *)
(* table is a sequence of [name, value, comment], which renderGo writes as *)
(* constants, and again as a map from values to names.                     *)
(***************************************************************************)
EXTENDS Integers, Sequences, FiniteSetsExt, Functions, Subsequences

CONSTANT Unset

Line ==
  [ kind : {"member", "other"}, name : STRING, value : Nat \cup {Unset},
    comment : [text : STRING, long : BOOLEAN, splits : BOOLEAN] ]

(* A long comment is cut behind that byte.                                 *)
ExtractComment(comment) ==
  [ text |-> comment.text, cut |-> comment.long,
    torn |-> comment.long /\ comment.splits ]

Member(line, val) ==
  [name |-> line.name, value |-> val, comment |-> ExtractComment(line.comment)]

(* One turn of the loop over the lines, from what has been read and the    *)
(* next value.                                                             *)
Reads_KeepCounting(st, line) ==
  LET val == IF line.value = Unset THEN st.next ELSE line.value
  IN IF line.kind # "member" THEN st
     ELSE [members |-> Append(st.members, Member(line, val)), next |-> st.next + 1]

Reads(st, line) ==
  LET val == IF line.value = Unset THEN st.next ELSE line.value
  IN IF line.kind # "member" THEN st
     ELSE [members |-> Append(st.members, Member(line, val)), next |-> val + 1]

Members(file) ==
  LET st[n \in 0 .. Len(file.lines)] ==
        IF n = 0 THEN [members |-> <<>>, next |-> 0]
                 ELSE Reads(st[n - 1], file.lines[n])
  IN st[Len(file.lines)].members

(* generate ends with an error on a file without the enum or its members.  *)
Generates(file) == file.found /\ Members(file) # <<>>

(* The Go compiler refuses a table in which two names or two values are    *)
(* the same, or a comment that is not UTF-8.                               *)
Compiles(table) ==
  /\ \A i, j \in DOMAIN table : i # j =>
       table[i].name # table[j].name /\ table[i].value # table[j].value
  /\ \A i \in DOMAIN table : ~ table[i].comment.torn

Named(table) == {table[i].name : i \in DOMAIN table}

Numbers(table) ==
  [i \in DOMAIN table |-> [name |-> table[i].name, value |-> table[i].value]]

-----------------------------------------------------------------------------
(* The numbering of C#: a member without a value has that of the last one  *)
(* with a value before it plus their distance, or its position from zero.  *)
Value(ms, i) ==
  LET Fixed == {j \in 1 .. i : ms[j].value # Unset}
  IN IF Fixed = {} THEN i - 1 ELSE ms[Max(Fixed)].value + i - Max(Fixed)

CSharp(file) ==
  LET ms == Filtered(file.lines, {line \in Range(file.lines) : line.kind = "member"})
  IN [i \in DOMAIN ms |-> [name |-> ms[i].name, value |-> Value(ms, i)]]

(* No comment is cut within a character.                                   *)
Cuttable(file) ==
  \A i \in DOMAIN file.lines : ~ (file.lines[i].comment.long /\ file.lines[i].comment.splits)
=============================================================================
