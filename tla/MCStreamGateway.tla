--------------------------- MODULE MCStreamGateway ----------------------------
(* A stream and a one-time payment, and a log of a few events.             *)
EXTENDS StreamGateway, TLC

CONSTANTS c1, c2
===============================================================================
