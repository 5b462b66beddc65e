--------------------------- MODULE MCIndexerIngest ----------------------------
(* One card, whose row has all its events to go wrong with, and two        *)
(* invocations of runTick: cron's and a manual one.                        *)
EXTENDS IndexerIngest

CONSTANTS c1, t1, t2
===============================================================================
