--------------------------- MODULE MCCompanionLink ---------------------------
(* A TLC instance of CompanionLink: calls of every kind, two at a time.       *)
EXTENDS CompanionLink
=============================================================================
