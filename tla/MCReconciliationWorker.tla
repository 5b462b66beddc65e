------------------------ MODULE MCReconciliationWorker ------------------------
(* Two paycards for either settler, a stream and a one-time payment in     *)
(* chain mode; in d1 mode an invalid paycard id as well, and four plays, of*)
(* which the first and the last share a paycard.                           *)
EXTENDS ReconciliationWorker

CONSTANTS c1, c2, bad, p1, p2

FourPlays == <<c1, bad, c2, c1>>
===============================================================================
