--------------------------- MODULE MCJobRegistry ---------------------------
(* TLC instance of JobRegistry: enough jobs for a key to come back while the *)
(* queue is full, and enough time for an entry to expire twice.              *)
EXTENDS JobRegistry
CONSTANT k1
=============================================================================
