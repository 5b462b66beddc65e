---------------------------- MODULE MCRuntimeStore -----------------------------
(***************************************************************************)
(* A request (first), its retry with the same signature (again), a path    *)
(* ingestion, which consumes no nonce, and a request for which the period  *)
(* has no room beside first (other).                                       *)
(***************************************************************************)
EXTENDS RuntimeStore, FiniteSets

CONSTANTS first, again, ingest, other, n1, n2, refused

MCAttempts == {first, again, ingest, other}
MCNonce == [a \in MCAttempts |->
              CASE a \in {first, again} -> n1 [] a = other -> n2 [] OTHER -> NoNonce]
Document(a) == IF a = ingest THEN "path" ELSE IF a = other THEN "rival" ELSE "proposal"
MCStates == {s : s \in SUBSET {"proposal", "path", "rival"}}
MCTransition == [a \in MCAttempts |-> [s \in MCStates |->
  IF Document(a) \in s \/ Cardinality((s \cup {Document(a)}) \ {"path"}) > 1
  THEN refused ELSE s \cup {Document(a)}]]
===============================================================================
