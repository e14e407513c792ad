------------------------------- MODULE AdbLink -------------------------------
(***************************************************************************)
(* The link to the phone: Connection.ensure and rediscover over AdbBackend.  *)
(* Wireless debugging gives the phone an address that changes; the program   *)
(* keeps one in its configuration and, when it no longer answers, tries the   *)
(* saved address again, what mDNS lists, the probe ports and a scan of the     *)
(* saved host.  serial and last_port are one variable, as connect writes them; *)
(* the bare port that setup leaves in last_port and the second adb of the      *)
(* host shim are not modelled.                                               *)
(*                                                                         *)
(* Each trial (connect, then get-state) is one step: the phone may move       *)
(* between trials.  AdbBackend ignores adb's exit status, so a command on a   *)
(* dead link is an empty answer, never an error.                              *)
(***************************************************************************)
EXTENDS Integers, Sequences, SequencesExt

CONSTANTS
    Hosts, Ports,   \* an address is a host and a port
    Places,         \* the addresses the phone may have
    First,          \* the one that setup has saved
    Elsewhere,      \* addresses of other devices that mDNS may list
    ProbePorts,     \* cfg["probe_ports"], in order
    ScanRange,      \* ports that a scan covers
    MaxMoves        \* bound: times the phone moves, goes or comes back

Addrs == [host : Hosts, port : Ports]
Nowhere == [host |-> "none", port |-> 0]
ASSUME LinkConstants ==
    /\ Places \subseteq Addrs /\ First \in Places /\ Elsewhere \subseteq Addrs
    /\ Range(ProbePorts) \subseteq Ports /\ ScanRange \subseteq Ports
    /\ MaxMoves \in Nat /\ Nowhere \notin Addrs

VARIABLES
    at, linked,     \* the phone's address; the adb server has a link to it
    moves,
    serial,         \* backend.serial
    saved,          \* cfg["serial"], cfg["last_port"]
    checked,        \* _ensured_at, within ENSURE_TTL
    ens,            \* where ensure is
    todo,           \* addresses that rediscover has still to try
    heard,          \* what mDNS listed
    start, strayed  \* ensure began with this address; the phone moved since

\* The stages of rediscover, in their order.
Rediscovery == {"redial", "listed", "probing", "scanning"}
linkVars == <<at, linked, moves, serial, saved, checked, ens, todo, heard, start, strayed>>

LinkTypeOK ==
    /\ at \in Addrs \cup {Nowhere} /\ linked \in BOOLEAN /\ moves \in 0..MaxMoves
    /\ serial \in Addrs /\ saved \in Addrs /\ checked \in BOOLEAN
    /\ ens \in {"idle", "check", "wake", "saved", "ok", "failed"} \cup Rediscovery
    /\ todo \in Seq(Addrs) /\ heard \subseteq Addrs
    /\ start \in Addrs /\ strayed \in BOOLEAN

LinkInit ==
    /\ at \in {First, Nowhere} /\ linked \in {FALSE, at = First} /\ moves = 0
    /\ serial = First /\ saved = First /\ checked \in {FALSE, linked}
    /\ ens = "idle" /\ todo = <<>> /\ heard = {}
    /\ start = First /\ strayed = FALSE

\* get_state() == "device" for this serial.
Up == linked /\ serial = at

\* ensure: within the TTL the last answer stands.
EnsureBegin ==
    /\ ens = "idle"
    /\ ens' = IF checked THEN "ok" ELSE "check"
    /\ start' = saved /\ strayed' = FALSE /\ heard' = {} /\ todo' = <<>>
    /\ UNCHANGED <<at, linked, moves, serial, saved, checked>>

\* get_state, and again after a wake-up key.
EnsureLook ==
    /\ ens \in {"check", "wake"}
    /\ IF Up THEN ens' = "ok" /\ checked' = TRUE
       ELSE ens' = (IF ens = "check" THEN "wake" ELSE "saved") /\ UNCHANGED checked
    /\ UNCHANGED <<at, linked, moves, serial, saved, todo, heard, start, strayed>>

\* Mutant: an address that is the current serial is not connected again.
LinksUnlessCurrent(addr) == linked \/ (addr = at /\ addr # serial)
\* `adb connect` makes the link when the phone listens there.
Links(addr) == linked \/ addr = at

\* _try_connect: connect persists the address, then get_state judges it.
Try(addr, next, rest) ==
    /\ linked' = Links(addr)
    /\ serial' = addr /\ saved' = addr
    /\ IF linked' /\ addr = at
       THEN ens' = "ok" /\ checked' = TRUE /\ todo' = <<>>
       ELSE ens' = next /\ todo' = rest /\ UNCHANGED checked
    /\ UNCHANGED <<at, moves, start, strayed>>

\* ensure tries the saved address; rediscover begins with the two saved ones.
TrySaved == ens = "saved" /\ Try(saved, "redial", <<saved, saved>>) /\ UNCHANGED heard
TryNext ==
    /\ ens \in Rediscovery /\ todo # <<>>
    /\ Try(Head(todo), ens, Tail(todo)) /\ UNCHANGED heard

\* The next source of addresses, when the last one is used up.
Source(last, next, list) ==
    /\ ens = last /\ todo = <<>>
    /\ ens' = next /\ todo' = list
    /\ UNCHANGED <<at, linked, moves, serial, saved, checked, start, strayed>>
Listed == {<<>>} \cup {<<a>> : a \in Elsewhere \cup ({at} \ {Nowhere})}
AskMdns == \E list \in Listed : Source("redial", "listed", list) /\ heard' = Range(list)
\* _device_ip: the host of the address that was tried last.
OnHost(ports) == [n \in DOMAIN ports |-> [host |-> saved.host, port |-> ports[n]]]
Probe == Source("listed", "probing", OnHost(ProbePorts)) /\ UNCHANGED heard
\* scan_ports finds where the phone listens; the address tried last is left out.
OpenPorts ==
    IF at.host = saved.host /\ at.port \in ScanRange /\ at # saved THEN <<at.port>> ELSE <<>>
Scan == Source("probing", "scanning", OnHost(OpenPorts)) /\ UNCHANGED heard

\* Nothing answered: a live companion serves in the place of ADB, or ensure raises.
GiveUp ==
    /\ ens = "scanning" /\ todo = <<>>
    /\ \/ ens' = "ok" /\ checked' = TRUE
       \/ ens' = "failed" /\ UNCHANGED checked
    /\ UNCHANGED <<at, linked, moves, serial, saved, todo, heard, start, strayed>>

EnsureStep ==
    EnsureLook \/ TrySaved \/ TryNext \/ AskMdns \/ Probe \/ Scan \/ GiveUp

\* The environment: the phone takes another address, or is away.
Move ==
    /\ moves < MaxMoves /\ moves' = moves + 1
    /\ at' \in (Places \cup {Nowhere}) \ {at}
    /\ linked' = FALSE /\ strayed' = TRUE
    /\ UNCHANGED <<serial, saved, checked, ens, todo, heard, start>>
CheckExpires ==
    /\ checked /\ ens = "idle" /\ checked' = FALSE
    /\ UNCHANGED <<at, linked, moves, serial, saved, ens, todo, heard, start, strayed>>

-----------------------------------------------------------------------------
\* ensure gives up only on a phone that is away, or has moved in the meantime, or
\* that neither the saved address nor mDNS leads to (rediscover).
GivesUpOnlyWhenGone ==
    ens = "failed" /\ ~strayed => at # start /\ at \notin heard
=============================================================================
