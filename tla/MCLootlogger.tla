---------------------------- MODULE MCLootlogger ----------------------------
(* Constants for the runs of Lootlogger.                                   *)
EXTENDS Lootlogger

CONSTANTS d1, d2

Packets == {<<"other">>, <<"loot", "other">>}

Given(devices, csv, list, test, watch) ==
  [device : devices, csv : csv, listDevices : list, selfTest : test, health : watch]

(* A file and a health monitor, or neither; any device or a chosen one;    *)
(* the self-test with and without a file; the list of devices.             *)
SomeFlags ==
  Given({AllDevices, d1}, {TRUE}, {FALSE}, {FALSE}, {TRUE})
    \cup Given({d1}, {FALSE}, {FALSE}, {FALSE}, {FALSE})
    \cup Given({AllDevices}, BOOLEAN, {FALSE}, {TRUE}, {TRUE})
    \cup Given({AllDevices}, {TRUE}, {TRUE}, {FALSE}, {TRUE})
=============================================================================
