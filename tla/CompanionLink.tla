---------------------------- MODULE CompanionLink ----------------------------
(***************************************************************************)
(* The way of a call from the host to the phone.  ProviderRegistry tries the *)
(* companion first and ADB next; AccessibilityProvider turns the call into   *)
(* one request; SocketTransport sends it, under one lock, on a connection it *)
(* keeps; Server and Dispatcher answer it on the phone.  A call that acts    *)
(* first asks the companion for its STOP flag (trust.companion_stopped), and *)
(* every delegation asks, through a cache, whether it is alive.              *)
(*                                                                         *)
(* A request names its call and the stage that sent it: its request_id.      *)
(* The companion may die and come back, close what is idle, and answer late. *)
(* ADB (external) always works: what matters is when it is used as well.     *)
(***************************************************************************)
EXTENDS Integers, Sequences, FiniteSets

CONSTANTS
    Calls,      \* delegated calls, each made once
    Kinds,      \* what they may be: look, tap, text, node
    MaxActive,  \* bound: calls at once (the worker and the server thread)
    MaxConns,   \* bound: connections that exist at once, on either side
    MaxTree,    \* bound: changes of the tree on the screen
    MaxDeaths,  \* bound: deaths of the companion
    MaxStops    \* bound: times STOP is engaged on the phone

NoCall == 0
ASSUME LinkConstants ==
    /\ Kinds \subseteq {"look", "tap", "text", "node"}
    /\ {MaxActive, MaxConns, MaxTree, MaxDeaths, MaxStops} \subseteq Nat
    /\ Calls \subseteq Nat /\ NoCall \notin Calls

VARIABLES
    call,       \* per call: [kind, stage, waits, conn, reused, gen, verdict, chosen]
    lock,       \* SocketTransport._lock: the call that holds it, if any
    cached,     \* _conn, 0 when there is none
    fresh,      \* less than REUSE_IDLE_S since it was used
    poisoned,   \* its file object has seen a socket timeout
    alive,      \* the ping cache: yes, no, or unknown once PING_TTL is over
    seen,       \* _last_generation (0 for None), and the tree it came with
    conns,      \* per connection: [up, inbox, doing, mark, outbox]
    running,    \* the companion's server accepts
    stopped,    \* TrustState.isStopped
    tree, life, \* the tree on the screen; the companion's process
    origin,     \* the tree when that process started
    stops,
    ran,        \* per call: [companion, adb]: times its input went in
    born        \* calls made while STOP was engaged, which it still is

host == <<call, lock, cached, fresh, poisoned, alive, seen>>
screen == <<running, stopped, tree, life, origin, stops>>
vars == <<host, conns, screen, ran, born>>

Requesting == {"check", "scan", "companion"}
Ended == {"done", "refused", "failed"}
Codes == {"none", "ok", "stopped", "stale", "rejected", "timeout", "exception"}
ConnIds == 1..MaxConns
Rids == [call : Calls, stage : Requesting]
Nobody == [call |-> NoCall, stage |-> "none"]
Seen == [gen : 0..MaxTree + 1, tree : 0..MaxTree, life : 0..MaxDeaths]
Unseen == [gen |-> 0, tree |-> 0, life |-> 0]
Closed == [up |-> FALSE, inbox |-> <<>>, doing |-> Nobody, mark |-> 0, outbox |-> <<>>]
Rid(c) == [call |-> c, stage |-> call[c].stage]

Acts(kind) == kind # "look"
\* The companion alone offers act_semantic_action; ADB offers the rest.
AdbServes(kind) == kind # "node"
\* _with_generation: set_text and semantic carry the last generation.
NeedsGeneration(kind) == kind \in {"text", "node"}
\* READ_ONLY_METHODS: ping, handshake and the observation.
ReadOnly(c) == call[c].stage # "companion" \/ ~Acts(call[c].kind)
\* treeGeneration: an AtomicLong of the process, bumped when the tree changes.
Generation == tree - origin + 1

TypeOK ==
    /\ call \in [Calls -> [kind : Kinds \cup {"none"}, stage : Requesting \cup Ended \cup {"idle", "adb"},
                           waits : BOOLEAN, conn : ConnIds \cup {0}, reused : BOOLEAN,
                           gen : 0..MaxTree + 1, chosen : Seen, verdict : Codes]]
    /\ lock \in Calls \cup {NoCall} /\ cached \in ConnIds \cup {0}
    /\ fresh \in BOOLEAN /\ poisoned \in BOOLEAN
    /\ alive \in {"yes", "no", "unknown"} /\ seen \in Seen
    /\ \A k \in ConnIds :
        /\ conns[k].up \in BOOLEAN /\ conns[k].mark \in 0..MaxTree + 1
        /\ conns[k].doing \in Rids \cup {Nobody}
        /\ \A n \in DOMAIN conns[k].inbox : conns[k].inbox[n] \in Rids
        /\ \A n \in DOMAIN conns[k].outbox :
            conns[k].outbox[n] \in [rid : Rids, code : Codes, flag : BOOLEAN, seen : Seen]
    /\ running \in BOOLEAN /\ stopped \in BOOLEAN
    /\ tree \in 0..MaxTree /\ origin \in 0..MaxTree
    /\ life \in 0..MaxDeaths /\ stops \in 0..MaxStops
    /\ ran \in [Calls -> [companion : Nat, adb : Nat]] /\ born \subseteq Calls

Init ==
    /\ call = [c \in Calls |-> [kind |-> "none", stage |-> "idle", waits |-> FALSE, conn |-> 0,
                                reused |-> FALSE, gen |-> 0, chosen |-> Unseen, verdict |-> "none"]]
    /\ lock = NoCall /\ cached = 0 /\ fresh = FALSE /\ poisoned = FALSE
    /\ alive = "unknown" /\ seen = Unseen
    /\ conns = [k \in ConnIds |-> Closed]
    /\ running = TRUE /\ stopped = FALSE /\ tree = 0 /\ life = 0 /\ origin = 0 /\ stops = 0
    /\ ran = [c \in Calls |-> [companion |-> 0, adb |-> 0]] /\ born = {}

(* ---------------------------- the host ---------------------------------- *)

\* A call is made, in the order of their names; one on a node chose it from the
\* last native observation.
Begin(c, kind) ==
    /\ call[c].stage = "idle" /\ \A d \in Calls : d < c => call[d].stage # "idle"
    /\ Cardinality({d \in Calls : call[d].stage \notin Ended \cup {"idle"}}) < MaxActive
    /\ kind = "node" => seen # Unseen
    /\ call' = [call EXCEPT ![c].stage = IF Acts(kind) THEN "check" ELSE "scan",
                            ![c].kind = kind, ![c].chosen = IF kind = "node" THEN seen ELSE Unseen]
    /\ born' = IF stopped THEN born \cup {c} ELSE born
    /\ UNCHANGED <<lock, cached, fresh, poisoned, alive, seen, conns, screen, ran>>

\* Mutant: what cannot be asked counts as not stopped.
AfterCheckFailsOpen(code, flag) == IF flag THEN "refused" ELSE "scan"
\* companion_stopped fails closed: what cannot be asked counts as stopped.
AfterCheck(code, flag) == IF code = "ok" /\ ~flag THEN "scan" ELSE "refused"
\* capabilities() is empty unless the companion is available.
AfterScan(kind, up) ==
    IF up THEN "companion" ELSE IF AdbServes(kind) THEN "adb" ELSE "failed"
\* Mutant: a stale generation falls through like any other error.
NoFallbackButStale == {"stopped"}
\* _delegate: a policy refusal propagates, any other exception moves on.
NoFallback == {"stopped", "stale"}
AfterCompanion(kind, code) ==
    IF code = "ok" THEN "done" ELSE IF code \in NoFallback THEN "refused"
    ELSE IF AdbServes(kind) THEN "adb" ELSE "failed"

\* Mutant: the lock is not released by an exception.
FinishKeepsLock(c, code, flag, what) ==
    LET stage == call[c].stage
    IN /\ call' = [call EXCEPT ![c].waits = FALSE, ![c].conn = 0, ![c].reused = FALSE,
                      ![c].verdict = IF stage = "companion" THEN code ELSE @,
                      ![c].stage = CASE stage = "check" -> AfterCheck(code, flag)
                                     [] stage = "scan" -> AfterScan(call[c].kind, code = "ok")
                                     [] OTHER -> AfterCompanion(call[c].kind, code)]
       /\ seen' = IF code = "ok" /\ what # Unseen THEN what ELSE seen
       /\ alive' = IF code = "exception" THEN "no" ELSE "yes"
       /\ lock' = IF code = "exception" THEN lock ELSE NoCall

\* The request of c ends; flag and what are what its answer carried.
Finish(c, code, flag, what) ==
    LET stage == call[c].stage
    IN /\ call' = [call EXCEPT ![c].waits = FALSE, ![c].conn = 0, ![c].reused = FALSE,
                      ![c].verdict = IF stage = "companion" THEN code ELSE @,
                      ![c].stage = CASE stage = "check" -> AfterCheck(code, flag)
                                     [] stage = "scan" -> AfterScan(call[c].kind, code = "ok")
                                     [] OTHER -> AfterCompanion(call[c].kind, code)]
       /\ seen' = IF code = "ok" /\ what # Unseen THEN what ELSE seen
       /\ alive' = IF code = "exception" \/ (code = "timeout" /\ stage = "scan") THEN "no"
                   ELSE IF code = "timeout" THEN alive ELSE "yes"
       /\ lock' = NoCall

\* Closing a connection throws away what was sent back on it; what the phone has
\* still to do on it is forgotten here unless an input is among it.
PutsIn(r) == r.stage = "companion" /\ Acts(call[r.call].kind)
Hang(cs, k) ==
    IF k = 0 THEN cs
    ELSE [cs EXCEPT ![k] = [Closed EXCEPT
            !.inbox = IF \E n \in DOMAIN cs[k].inbox : PutsIn(cs[k].inbox[n])
                      THEN cs[k].inbox ELSE <<>>,
            !.doing = IF PutsIn(cs[k].doing) THEN cs[k].doing ELSE Nobody,
            !.mark = IF PutsIn(cs[k].doing) THEN cs[k].mark ELSE 0]]

\* c sends its line on connection k of cs and waits.
SendOn(c, k, reused, cs) ==
    /\ call' = [call EXCEPT ![c].waits = TRUE, ![c].conn = k, ![c].reused = reused,
                            ![c].gen = IF call[c].stage = "companion" THEN seen.gen ELSE 0]
    /\ conns' = IF cs[k].up THEN [cs EXCEPT ![k].inbox = Append(@, Rid(c))] ELSE cs
    /\ lock' = c
    /\ UNCHANGED <<alive, seen>>

\* A new connection; nobody listening raises.
Connect(c, cs) ==
    IF running
    THEN \E k \in ConnIds :
            /\ cs[k] = Closed /\ \A n \in 1..k - 1 : cs[n] # Closed
            /\ SendOn(c, k, FALSE, [cs EXCEPT ![k].up = TRUE])
    ELSE Finish(c, "exception", FALSE, Unseen) /\ conns' = cs

\* request, _checkout and the send.  A line written to a connection its peer has
\* closed is lost unnoticed, or the write raises: then the connection is dropped
\* and the line sent on a new one.
StartRequest(c) ==
    /\ call[c].stage \in Requesting /\ ~call[c].waits /\ lock = NoCall
    /\ call[c].stage = "scan" => alive = "unknown"
    /\ \/ /\ cached # 0 /\ fresh
          /\ SendOn(c, cached, TRUE, conns) /\ UNCHANGED <<cached, fresh, poisoned>>
       \/ /\ cached # 0 /\ fresh => ~conns[cached].up
          /\ cached' = 0 /\ fresh' = FALSE /\ poisoned' = FALSE
          /\ Connect(c, Hang(conns, cached))
    /\ UNCHANGED <<screen, ran, born>>

\* ping served from its cache.
ScanFromCache(c) ==
    /\ call[c].stage = "scan" /\ ~call[c].waits /\ alive # "unknown"
    /\ call' = [call EXCEPT ![c].stage = AfterScan(call[c].kind, alive = "yes")]
    /\ UNCHANGED <<lock, cached, fresh, poisoned, alive, seen, conns, screen, ran, born>>

Unreadable(k) == k = cached /\ poisoned
OwnLines(c) == {n \in DOMAIN conns[call[c].conn].outbox :
                    conns[call[c].conn].outbox[n].rid = Rid(c)}

\* _read_response: lines with another request_id are skipped.
ReadOwn(c) ==
    LET k == call[c].conn
    IN /\ call[c].waits /\ ~Unreadable(k)
       /\ \E n \in OwnLines(c) :
            LET a == conns[k].outbox[n]
            IN /\ \A m \in OwnLines(c) : n <= m
               /\ Finish(c, a.code, a.flag, a.seen)
               /\ conns' = [conns EXCEPT ![k].outbox = SubSeq(@, n + 1, Len(@))]
       /\ cached' = k /\ fresh' = TRUE /\ UNCHANGED <<poisoned, screen, ran, born>>

\* Mutant: whatever was sent on a kept connection is sent again.
MayResendAnything(c) == call[c].reused
\* End of file before an answer: the connection is dropped; a read-only request
\* that used a kept connection is sent once more, on a new one.
MayResend(c) == call[c].reused /\ ReadOnly(c)
ReadNothing(c) ==
    LET k == call[c].conn
    IN /\ call[c].waits /\ ~Unreadable(k) /\ OwnLines(c) = {} /\ ~conns[k].up
       /\ cached' = 0 /\ fresh' = FALSE /\ poisoned' = FALSE
       /\ IF MayResend(c) THEN Connect(c, Hang(conns, k))
          ELSE Finish(c, "timeout", FALSE, Unseen) /\ conns' = Hang(conns, k)
       /\ UNCHANGED <<screen, ran, born>>

\* Mutant: a timeout leaves the kept connection readable.
PoisonsNothing(k) == FALSE
\* The socket times out in a read: the exception passes the code that drops the
\* connection.  A kept one stays kept and its file object refuses every later
\* read, at once; a new one is closed with its last reference.
Poisons(k) == k = cached
TimeOut(c) ==
    LET k == call[c].conn
    IN /\ call[c].waits
       /\ Unreadable(k) \/ (conns[k].up /\ OwnLines(c) = {})
       /\ Finish(c, "exception", FALSE, Unseen)
       /\ conns' = IF k = cached THEN conns ELSE Hang(conns, k)
       /\ poisoned' = (poisoned \/ Poisons(k))
       /\ UNCHANGED <<cached, fresh, screen, ran, born>>

\* The next candidate: ADB serves the same call.
AdbCall(c) ==
    /\ call[c].stage = "adb"
    /\ call' = [call EXCEPT ![c].stage = "done"]
    /\ ran' = IF Acts(call[c].kind) THEN [ran EXCEPT ![c].adb = @ + 1] ELSE ran
    /\ UNCHANGED <<lock, cached, fresh, poisoned, alive, seen, conns, screen, born>>

\* Time passes: REUSE_IDLE_S, or PING_TTL, is over.
ConnGrowsOld ==
    /\ fresh /\ lock = NoCall /\ fresh' = FALSE
    /\ UNCHANGED <<call, lock, cached, poisoned, alive, seen, conns, screen, ran, born>>
PingExpires ==
    /\ alive # "unknown" /\ alive' = "unknown"
    /\ UNCHANGED <<call, lock, cached, fresh, poisoned, seen, conns, screen, ran, born>>

(* ---------------------------- the phone --------------------------------- *)

\* The answer to r goes out on connection k, unless the host has closed it.
Reply(k, r, code, flag, what) ==
    [conns[k] EXCEPT !.doing = Nobody, !.mark = 0,
        !.outbox = IF conns[k].up
                   THEN Append(@, [rid |-> r, code |-> code, flag |-> flag, seen |-> what])
                   ELSE @]

\* Dispatcher.handleLine up to the handler: STOP refuses all but ping and
\* handshake.  The connection's thread takes one line at a time.
Blocked(r) == r.stage = "companion" /\ stopped
Dispatch(k) ==
    /\ conns[k].doing = Nobody /\ conns[k].inbox # <<>>
    /\ LET r == Head(conns[k].inbox)
       IN conns' = [conns EXCEPT ![k] =
                      [(IF Blocked(r) THEN Reply(k, r, "stopped", TRUE, Unseen)
                        ELSE [conns[k] EXCEPT !.doing = r]) EXCEPT !.inbox = Tail(@)]]
    /\ UNCHANGED <<host, screen, ran, born>>

Handles(k, kinds) ==
    conns[k].doing.stage = "companion" /\ call[conns[k].doing.call].kind \in kinds

\* ping and handshake; the flag is that of the moment.
Inform(k) ==
    /\ conns[k].doing.stage \in {"check", "scan"}
    /\ conns' = [conns EXCEPT ![k] = Reply(k, conns[k].doing, "ok", stopped, Unseen)]
    /\ UNCHANGED <<host, screen, ran, born>>

\* Mutant: the generation is read after the walk.
ObservedLate(k) == [gen |-> Generation, tree |-> origin + conns[k].mark - 1, life |-> life]
\* observe_native reads the generation, then walks the windows.
Observed(k) == [gen |-> conns[k].mark, tree |-> tree, life |-> life]
Observe(k) ==
    /\ Handles(k, {"look"})
    /\ conns' = [conns EXCEPT ![k] = IF conns[k].mark = 0
                    THEN [conns[k] EXCEPT !.mark = Generation]
                    ELSE Reply(k, conns[k].doing, "ok", FALSE, Observed(k))]
    /\ UNCHANGED <<host, screen, ran, born>>

\* Generation.requireFresh, at the head of set_text and semantic.
StaleFor(c) == call[c].gen # 0 /\ call[c].gen # Generation
Verify(k) ==
    /\ Handles(k, {"text", "node"}) /\ conns[k].mark = 0
    /\ conns' = [conns EXCEPT ![k] = IF StaleFor(conns[k].doing.call)
                    THEN Reply(k, conns[k].doing, "stale", FALSE, Unseen)
                    ELSE [conns[k] EXCEPT !.mark = Generation]]
    /\ UNCHANGED <<host, screen, ran, born>>

Acting(k) == Handles(k, {"tap"}) \/ (Handles(k, {"text", "node"}) /\ conns[k].mark # 0)
\* The handler acts and answers, or the framework rejects the action; a gesture
\* whose callback is late is answered "gesture_rejected" although it went in.
Perform(k) ==
    LET r == conns[k].doing
    IN /\ Acting(k)
       /\ \E code \in {"ok", "rejected"}, went \in BOOLEAN :
            /\ code = "ok" => went
            /\ code = "rejected" /\ went => Handles(k, {"tap"})
            /\ conns' = [conns EXCEPT ![k] = Reply(k, r, code, FALSE, Unseen)]
            /\ ran' = IF went THEN [ran EXCEPT ![r.call].companion = @ + 1] ELSE ran
       /\ UNCHANGED <<host, screen, born>>

\* Server.handle closes a connection that was idle for 30 s.
IdleClose(k) ==
    /\ conns[k].up /\ conns[k].doing = Nobody /\ conns[k].inbox = <<>>
    /\ k = cached => ~fresh /\ lock = NoCall
    /\ k # cached => \A c \in Calls : call[c].conn # k
    /\ conns' = [conns EXCEPT ![k].up = FALSE]
    /\ UNCHANGED <<host, screen, ran, born>>

\* Accessibility events bump treeGeneration.
TreeChanges ==
    /\ tree < MaxTree /\ tree' = tree + 1
    /\ UNCHANGED <<host, conns, running, stopped, life, origin, stops, ran, born>>

\* The stop tile, the notification or the settings screen.
SetStopped(flag) ==
    /\ stopped # flag /\ (flag => stops < MaxStops)
    /\ stopped' = flag /\ stops' = IF flag THEN stops + 1 ELSE stops
    /\ born' = IF flag THEN born ELSE {}
    /\ UNCHANGED <<host, conns, running, tree, life, origin, ran>>

\* The process dies with all it was doing, some of it done and not answered; the
\* next one counts from zero.
CompanionDies ==
    /\ running /\ life < MaxDeaths /\ running' = FALSE
    /\ conns' = [k \in ConnIds |-> [Closed EXCEPT !.outbox = conns[k].outbox]]
    /\ \E done \in SUBSET {k \in ConnIds : Acting(k)} :
        ran' = [c \in Calls |-> [ran[c] EXCEPT !.companion =
                    @ + Cardinality({k \in done : conns[k].doing.call = c})]]
    /\ UNCHANGED <<host, stopped, tree, life, origin, stops, born>>
CompanionStarts ==
    /\ ~running /\ running' = TRUE /\ life' = life + 1 /\ origin' = tree
    /\ UNCHANGED <<host, conns, stopped, tree, stops, ran, born>>

-----------------------------------------------------------------------------
HostStep(c) ==
    \/ StartRequest(c) \/ ScanFromCache(c) \/ ReadOwn(c)
    \/ ReadNothing(c) \/ TimeOut(c) \/ AdbCall(c)
PhoneStep(k) ==
    \/ Dispatch(k) \/ Inform(k) \/ Observe(k) \/ Verify(k) \/ Perform(k) \/ IdleClose(k)
Next ==
    \/ \E c \in Calls, kind \in Kinds : Begin(c, kind)
    \/ \E c \in Calls : HostStep(c)
    \/ \E k \in ConnIds : PhoneStep(k)
    \/ ConnGrowsOld \/ PingExpires \/ TreeChanges
    \/ \E flag \in BOOLEAN : SetStopped(flag)
    \/ CompanionDies \/ CompanionStarts
Spec == Init /\ [][Next]_vars /\ WF_vars(\E c \in Calls : HostStep(c))

-----------------------------------------------------------------------------
\* However the companion is asked, dies or is asked again, it performs the input
\* of one call at most once: a lost answer never makes the transport repeat an
\* action (SocketTransport._request_locked, READ_ONLY_METHODS).
CompanionActsOnce == \A c \in Calls : ran[c].companion <= 1

\* A refusal the host has heard is final: after "stopped" or "stale_generation"
\* neither the companion nor ADB puts the input in (ProviderRegistry._NO_FALLBACK).
RefusalIsFinal ==
    \A c \in Calls : call[c].verdict \in {"stopped", "stale"} => ran[c] = [companion |-> 0, adb |-> 0]

\* A call made while STOP is engaged on the phone puts nothing in by either way
\* until STOP is released, whether the companion answers, is late or is dead
\* (trust.companion_stopped, Finding 8).
StopHonoured == \A c \in born : ran[c] = [companion |-> 0, adb |-> 0]

\* A line that can be read answers the request that is waiting: a late answer
\* never reaches a later request, because its connection is closed or no longer
\* readable by then; the comparison of request ids is the second line of defence.
OnlyOwnAnswersArrive ==
    \A c \in Calls : call[c].waits /\ ~Unreadable(call[c].conn) =>
        \A n \in DOMAIN conns[call[c].conn].outbox :
            conns[call[c].conn].outbox[n].rid = Rid(c)

\* A node action that passes the generation check finds the tree its node was
\* chosen from, when no other observation has renewed the generation since and
\* the companion has not started again (Generation.requireFresh, observeNative).
NodeActsOnTreeSeen ==
    [][\A k \in ConnIds :
        LET c == conns[k].doing.call
        IN /\ Handles(k, {"node"}) /\ conns[k].mark = 0 /\ conns'[k].mark # 0
           /\ call[c].gen = call[c].chosen.gen /\ call[c].chosen.life = life
           => call[c].chosen.tree = tree]_vars

\* A node action that passes the generation check finds the tree its node was
\* chosen from: "the companion refuses the request with stale_generation ... when
\* the tree changed in between" (docs/providers.md). The request carries the
\* generation of the provider's latest observation (_last_generation), which is
\* not the node's own once another thread has looked.
NodeBoundToItsObservation ==
    [][\A k \in ConnIds :
        LET c == conns[k].doing.call
        IN /\ Handles(k, {"node"}) /\ conns[k].mark = 0 /\ conns'[k].mark # 0
           /\ call[c].chosen.life = life
           => call[c].chosen.tree = tree]_vars

\* Every call ends and gives the lock back, whatever the companion does.
CallsEnd == \A c \in Calls : (call[c].stage # "idle") ~> (call[c].stage \in Ended)

\* The input of one call goes in once.
InputGoesInOnce == \A c \in Calls : ran[c].companion + ran[c].adb <= 1
=============================================================================
