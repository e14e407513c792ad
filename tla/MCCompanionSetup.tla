--------------------------- MODULE MCCompanionSetup ---------------------------
(* Two debug builds of one key, and a release build of another.             *)
EXTENDS CompanionSetup
MCBuilds == {
    [name |-> "old", key |-> "debug", debuggable |-> TRUE],
    [name |-> "new", key |-> "debug", debuggable |-> TRUE],
    [name |-> "release", key |-> "release", debuggable |-> FALSE] }
=============================================================================
