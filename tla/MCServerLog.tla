---------------------------- MODULE MCServerLog ----------------------------
(* ServerLog with two threads, a log of three slots and a text that two    *)
(* short messages fill.                                                    *)
EXTENDS ServerLog, TLC

CONSTANTS main, t1, short, long

TwoThreads == {main, t1}
TwoMessages == {short, long}
Widths == short :> 1 @@ long :> 3
=============================================================================
