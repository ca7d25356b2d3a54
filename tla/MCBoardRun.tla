------------------------------- MODULE MCBoardRun -------------------------------
(* What the DUT prints: the golden output, a restart, a crash report, a wrong    *)
(* line, the beginning of one.  C0 and DB, which are escaped, are among its      *)
(* bytes and in the records' numbers and cycle counts.                           *)
EXTENDS BoardRun

Numbers == 49343 .. 49346                \* C0BF .. C0C2
Counts  == {<<0, 0, 0, DB>>}
Golden  == <<C0, NL, 65, NL>>
Short   == <<C0, NL>>                    \* a golden output without the end marker
Crash   == {<<88>>}
Goldens == {Golden, Short}
Scripts == {Golden, <<C0, NL, C0, NL>>, <<DB, NL, NL, 65>>, <<88, NL, NL>>}
=================================================================================
