------------------------------- MODULE RowLog -------------------------------
(***************************************************************************)
(* What loot.LogSink promises: the rows it is given are appended to the    *)
(* file one by one and whole, until one is lost; from then on all are.  A  *)
(* program that starts anew appends a header and rows of its own.          *)
(***************************************************************************)
EXTENDS Naturals, Sequences

VARIABLES
  log,      \* the whole rows in the file: <<start, number>>, the header is 0
  start,    \* how often the program was started
  next,     \* the number of the row to come
  lost      \* a row was lost since the start

lvars == <<log, start, next, lost>>

Init ==
  /\ log = <<>>
  /\ start = 1
  /\ next = 0
  /\ lost = FALSE

AppendRow ==
  /\ ~ lost
  /\ log' = Append(log, <<start, next>>)
  /\ next' = next + 1
  /\ UNCHANGED <<start, lost>>

Lose ==
  /\ ~ lost
  /\ lost' = TRUE
  /\ UNCHANGED <<log, start, next>>

Restart ==
  /\ start' = start + 1
  /\ next' = 0
  /\ lost' = FALSE
  /\ UNCHANGED log

Next == AppendRow \/ Lose \/ Restart

Spec == Init /\ [][Next]_lvars
=============================================================================
