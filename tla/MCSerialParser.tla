--------------------------- MODULE MCSerialParser ---------------------------
(* SerialParser on the packets of MCParser.                                *)
EXTENDS SerialParser, MCParser
=============================================================================
