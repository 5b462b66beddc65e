----------------------------- MODULE MCCardFunding -----------------------------
(* Two cards of different amounts, and a request between them.             *)
EXTENDS CardFunding, TLC

CONSTANTS k1, k2

MCAmount == k1 :> 1 @@ k2 :> 2
===============================================================================
