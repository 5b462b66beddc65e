----------------------------- MODULE MCLoggedHub ------------------------------
(* The Vault of MCOpenRailsHub with its event log.                         *)
EXTENDS LoggedHub, MCOpenRailsHub
===============================================================================
