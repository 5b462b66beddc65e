---------------------------- MODULE MCIndexerScan -----------------------------
(* The canonical hub, two clones and a chain of a few blocks.              *)
EXTENDS IndexerScan

CONSTANTS hub, v1, v2, factory
===============================================================================
