----------------------------- MODULE JobService -----------------------------
(***************************************************************************)
(* What the daemon's job registry promises to its clients: every accepted   *)
(* job runs at most once, one job at a time, in the order of acceptance,    *)
(* and a key that is queued or running is not accepted a second time.       *)
(***************************************************************************)
EXTENDS Naturals

CONSTANTS
    Ids,    \* job ids, numbered in the order of acceptance
    Keys,   \* idempotency keys
    NoKey   \* a job submitted without one

VARIABLES
    phase,  \* per job: none, queued, running or ended
    keyOf   \* per job: the key it was submitted with

JobInit ==
    /\ phase = [j \in Ids |-> "none"]
    /\ keyOf = [j \in Ids |-> NoKey]

Pending(k) == \E j \in Ids : keyOf[j] = k /\ phase[j] \in {"queued", "running"}

Accept(j, k) ==
    /\ phase[j] = "none"
    /\ \A i \in Ids : i < j => phase[i] # "none"
    /\ k = NoKey \/ ~Pending(k)
    /\ phase' = [phase EXCEPT ![j] = "queued"]
    /\ keyOf' = [keyOf EXCEPT ![j] = k]

Begin(j) ==
    /\ phase[j] = "queued"
    /\ \A i \in Ids : phase[i] # "running" /\ (i < j => phase[i] # "queued")
    /\ phase' = [phase EXCEPT ![j] = "running"]
    /\ UNCHANGED keyOf

End(j) ==
    /\ phase[j] = "running"
    /\ phase' = [phase EXCEPT ![j] = "ended"]
    /\ UNCHANGED keyOf

JobNext ==
    \E j \in Ids : Begin(j) \/ End(j) \/ \E k \in Keys \cup {NoKey} : Accept(j, k)

JobSpec == JobInit /\ [][JobNext]_<<phase, keyOf>>
=============================================================================
