---------------------------- MODULE ActionFunnel ----------------------------
(***************************************************************************)
(* The single-writer action funnel, runtime.run_action: every verb that    *)
(* injects input on the phone goes through it.  Callers are threads of     *)
(* droidjig processes (the daemon has several, a one-shot CLI has one) that *)
(* share a directory of state files: the STOP sentinel, action.lock,       *)
(* idempotency.json, ratelimit.json and actions.jsonl.                     *)
(*                                                                         *)
(* One action is one stretch of run_action between two points where        *)
(* another thread, another process or the phone can be observed.  A step   *)
(* that fails with a DroidjigError becomes an error envelope, whatever its *)
(* code and whatever has been injected by then; any other exception         *)
(* ("raised") leaves run_action before the envelope is stored.  The call's  *)
(* function injects once and observes, or searches: scroll_until tests STOP, *)
(* looks, and scrolls, over and over.                                      *)
(* fcntl is taken to be present, as it is on Linux and Termux.             *)
(***************************************************************************)
EXTENDS Integers, FiniteSets

CONSTANTS
    Procs,      \* droidjig processes
    Callers,    \* threads that call run_action
    ProcOf,     \* the process each caller belongs to
    Keys,       \* idempotency keys
    NoKey,      \* a call made without one
    NoCaller,   \* nobody holds the lock
    NoEntry,    \* no cached envelope
    Verbs,
    Requests,   \* the calls clients make
    Screens,    \* what the phone may show: sets of signals of risk
    RiskPolicy, \* risk level -> allow, confirm or deny
    HasCompanion, \* companion_port is set: its STOP flag counts too
    Limits,     \* rate_limits: bucket -> count, a partial function
    Window,     \* the rate window, 60 s in the code
    TTL,        \* idempotency_ttl, 300 s by default
    MaxTime,    \* bound: the clock stops here
    MaxCalls,   \* bound: calls made in one behaviour
    MaxCrashes, \* bound: process deaths in one behaviour
    MaxStops    \* bound: times STOP is engaged in one behaviour

Modes == {"auto", "confirm", "dry-run"}
Risks == {"low", "medium", "high", "critical"}
\* What classify looks for on the screen (words, patterns, the package) ...
ScreenSignals == {"payment_keyword", "destructive_keyword", "install_keyword",
                  "guarded_package", "password_field", "otp_like_content"}
\* ... and in the call.
HighRiskVerbs == {"packages_stop", "intent_start", "intent_broadcast",
                  "notifications_reply"}
CriticalVerbs == {"packages_clear"}
Times == 0..MaxTime
Sources == {"file"} \cup (IF HasCompanion THEN {"companion"} ELSE {})  \* of STOP
Rids == 1..MaxCalls          \* request ids, in the order the calls start
Buckets == {"global", "high_risk"} \cup Verbs

ASSUME ConstantsAssumption ==
    /\ ProcOf \in [Callers -> Procs]
    /\ NoKey \notin Keys
    /\ NoCaller \notin Callers
    /\ Requests # {}
    /\ Requests \subseteq [key : Keys \cup {NoKey}, verb : Verbs, dials : BOOLEAN,
                           mode : Modes, yes : BOOLEAN]
    /\ RiskPolicy \in [Risks -> {"allow", "confirm", "deny"}]
    /\ HasCompanion \in BOOLEAN
    /\ DOMAIN Limits \subseteq Buckets
    /\ \A b \in DOMAIN Limits : Limits[b] \in Nat
    /\ Window \in Nat
    /\ TTL \in Nat
    /\ MaxTime \in Nat
    /\ MaxCalls \in Nat
    /\ MaxCrashes \in Nat
    /\ MaxStops \in Nat
    /\ Screens \subseteq SUBSET ScreenSignals

\* Envelope codes.  The refusals are the funnel's alone.  "stopped" and
\* "guarded_action" are also what a search that is halted and the companion
\* answer, before an input or after it; "failed" stands for every other error,
\* and "raised" is no envelope: the exception reached the caller.
Refusals == {"busy", "confirmation_required", "rate_limited", "dry_run"}
Codes == Refusals \cup {"stopped", "guarded_action", "failed", "ok", "raised"}
\* How an observation or an input may fail.
Failures == {"failed", "raised"} \cup (IF HasCompanion THEN {"stopped", "guarded_action"} ELSE {})
\* The verbs whose function looks for something and may scroll many times or never.
Searches == {"scroll_until"}

Entries == [ts : Times, rid : Rids, code : Codes]
Caches == [Keys -> Entries \cup {NoEntry}]
Records == [bucket : Buckets, ts : Times, rid : Rids]

ASSUME NoEntryAssumption == NoEntry \notin Entries

Never == -1     \* no envelope returned yet
Void == -2      \* calls with the key overlapped: no promise is made

VARIABLES
    clock,       \* time.time(), in ticks
    stop,        \* the sources where STOP is in force
    nextRid,     \* the next request id
    crashes,     \* process deaths so far
    stops,       \* times STOP was engaged so far
    pc,          \* where each caller stands
    rid,         \* its request id
    req,         \* its request
    ts,          \* its last reading of the clock
    risk,        \* the risk of the call on the screen it observed
    hist,        \* its pruned copy of the rate history
    view,        \* its copy of idempotency.json, between read and write
    threadLock,  \* per process: the holder of runtime._action_lock
    fileLock,    \* the holder of the flock on action.lock
    mem,         \* per process: runtime._idempotency_cache
    disk,        \* idempotency.json
    rate,        \* ratelimit.json
    \* History variables: no guard reads them, the properties do.
    inputs,      \* the calls whose input reached the phone
    audited,     \* the calls with an "ok" line in actions.jsonl
    blocked,     \* the calls with a "blocked" line
    counted,     \* every rate record ever saved
    outcome,     \* per call: the code of its envelope, once there is one
    keyOf,       \* per call: the key it was made with
    returned,    \* per process and key: ts of the stored envelope last returned
    persisted,   \* per key: ts of the last "ok" envelope returned and written
    owed,        \* calls that started while their process owed them a replay
    owedAtHome,  \* calls that started while idempotency.json owed them one
    grace        \* per source: calls past its test when STOP was engaged there

locals == <<pc, rid, req, ts, risk, hist, view>>
locks == <<threadLock, fileLock>>
promises == <<returned, persisted, owed, owedAtHome>>
logs == <<audited, blocked>>
vars == <<clock, stop, nextRid, crashes, stops, locals, locks, mem, disk, rate,
          inputs, logs, counted, outcome, keyOf, promises, grace>>

PCs == {"idle", "disk", "gate", "ask", "thread", "flock", "observe", "decide", "rate",
        "halt", "fn", "reobserve", "save", "log", "release", "store", "write"}
\* Between a successful flock and the finally clause that drops it.
Locked == {"observe", "decide", "rate", "halt", "fn", "reobserve", "save", "log", "release"}
\* Past the last test of a STOP source before an input; a search has the file's once
\* more before each scroll.
PastGate == {"thread", "flock", "observe", "decide", "rate", "fn"}
Past(source) ==
    PastGate \cup (IF source = "file" THEN {"ask"} ELSE {"halt", "reobserve"})

InCS(c) == pc[c] \in Locked

NoEntries == [k \in Keys |-> NoEntry]
AnyRequest == CHOOSE r \in Requests : TRUE

\* Every variable has its type; one part per group of variables.
BoundsOK ==
    /\ clock \in Times /\ stop \subseteq Sources
    /\ nextRid \in 1..(MaxCalls + 1)
    /\ crashes \in 0..MaxCrashes /\ stops \in 0..MaxStops
LocalsOK ==
    /\ pc \in [Callers -> PCs]
    /\ rid \in [Callers -> Rids \cup {0}]
    /\ req \in [Callers -> Requests]
    /\ ts \in [Callers -> Times]
    /\ risk \in [Callers -> Risks]
    /\ hist \in [Callers -> SUBSET Records]
    /\ view \in [Callers -> Caches]
LocksOK ==
    /\ threadLock \in [Procs -> Callers \cup {NoCaller}]
    /\ fileLock \in Callers \cup {NoCaller}
StoresOK ==
    /\ mem \in [Procs -> Caches]
    /\ disk \in Caches
    /\ rate \subseteq Records /\ counted \subseteq Records
CallsOK ==
    /\ inputs \subseteq Rids /\ audited \subseteq Rids /\ blocked \subseteq Rids
    /\ outcome \in [Rids -> Codes \cup {"none"}]
    /\ keyOf \in [Rids -> Keys \cup {NoKey}]
PromisesOK ==
    /\ returned \in [Procs -> [Keys -> Times \cup {Never, Void}]]
    /\ persisted \in [Keys -> Times \cup {Never}]
    /\ owed \subseteq Rids /\ owedAtHome \subseteq Rids
    /\ grace \in [Sources -> SUBSET Rids]
TypeOK == BoundsOK /\ LocalsOK /\ LocksOK /\ StoresOK /\ CallsOK /\ PromisesOK

Init ==
    /\ clock = 0 /\ stop = {} /\ nextRid = 1 /\ crashes = 0 /\ stops = 0
    /\ pc = [c \in Callers |-> "idle"]
    /\ rid = [c \in Callers |-> 0]
    /\ req = [c \in Callers |-> AnyRequest]
    /\ ts = [c \in Callers |-> 0]
    /\ risk = [c \in Callers |-> "low"]
    /\ hist = [c \in Callers |-> {}]
    /\ view = [c \in Callers |-> NoEntries]
    /\ threadLock = [p \in Procs |-> NoCaller]
    /\ fileLock = NoCaller
    /\ mem = [p \in Procs |-> NoEntries]
    /\ disk = NoEntries
    /\ rate = {} /\ counted = {}
    /\ inputs = {} /\ audited = {} /\ blocked = {}
    /\ outcome = [r \in Rids |-> "none"]
    /\ keyOf = [r \in Rids |-> NoKey]
    /\ returned = [p \in Procs |-> [k \in Keys |-> Never]]
    /\ persisted = [k \in Keys |-> Never]
    /\ owed = {} /\ owedAtHome = {}
    /\ grace = [source \in Sources |-> {}]

-----------------------------------------------------------------------------
(* Pure parts: the cache's freshness test, risk and policy, rates.         *)

\* Mutant: an entry expires a tick early.
FreshTooShort(e, now) == e # NoEntry /\ now - e.ts < TTL - 1

Fresh(e, now) == e # NoEntry /\ now - e.ts < TTL

\* _sweep_idempotency_cache and the filter of _idempotency_store.
Sweep(store, now) == [k \in Keys |-> IF Fresh(store[k], now) THEN store[k] ELSE NoEntry]

\* What classify adds for the call itself; "dials" says that the target of an
\* intent has one of the markers of a call or a message.
CallSignals(q) ==
    {signal \in {"critical_verb", "high_risk_verb", "critical_intent"} :
        \/ signal = "critical_verb" /\ q.verb \in CriticalVerbs
        \/ signal = "high_risk_verb" /\ q.verb \in HighRiskVerbs
        \/ signal = "critical_intent" /\ q.verb = "intent_start" /\ q.dials}

SignalLevel == [
    payment_keyword |-> "critical", destructive_keyword |-> "critical",
    install_keyword |-> "high",     guarded_package |-> "high",
    password_field |-> "high",      otp_like_content |-> "medium",
    critical_verb |-> "critical",   high_risk_verb |-> "high",
    critical_intent |-> "critical"]

\* classify: the level of the worst signal.
Classify(screen, q) ==
    LET levels == {SignalLevel[signal] : signal \in screen \cup CallSignals(q)}
    IN  IF "critical" \in levels THEN "critical"
        ELSE IF "high" \in levels THEN "high"
        ELSE IF "medium" \in levels THEN "medium" ELSE "low"

Decision(level) == RiskPolicy[level]

\* Mutant: the level is appended in the place of the bucket's name.
BucketsForLevel(verb, level) ==
    {"global", verb} \cup (IF level \in {"high", "critical"} THEN {level} ELSE {})

BucketsFor(verb, level) ==
    {"global", verb} \cup (IF level \in {"high", "critical"} THEN {"high_risk"} ELSE {})

Prune(records, now) == {h \in records : now - h.ts <= Window}

InBucket(records, b) == {h \in records : h.bucket = b}

\* Mutant: off by one, the limit itself still passes.
RateAllowsOneMore(records, verb, level) ==
    \A b \in BucketsFor(verb, level) \cap DOMAIN Limits :
        Cardinality(InBucket(records, b)) <= Limits[b]

RateAllows(records, verb, level) ==
    \A b \in BucketsFor(verb, level) \cap DOMAIN Limits :
        Cardinality(InBucket(records, b)) < Limits[b]

NewRecords(c) ==
    {[bucket |-> b, ts |-> ts[c], rid |-> rid[c]] : b \in BucketsFor(req[c].verb, risk[c])}

-----------------------------------------------------------------------------
(* Control. *)

Goto(c, label) == pc' = [pc EXCEPT ![c] = label]

\* The frame of the call is gone: its locals take their initial values.
Idle(c) ==
    /\ Goto(c, "idle")
    /\ rid' = [rid EXCEPT ![c] = 0]
    /\ req' = [req EXCEPT ![c] = AnyRequest]
    /\ ts' = [ts EXCEPT ![c] = 0]
    /\ risk' = [risk EXCEPT ![c] = "low"]
    /\ hist' = [hist EXCEPT ![c] = {}]
    /\ view' = [view EXCEPT ![c] = NoEntries]

\* run_action after the body: only a call with a key, and an envelope, stores it.
Leave(c, code) ==
    IF req[c].key = NoKey \/ code = "raised"
    THEN Idle(c)
    ELSE Goto(c, "store") /\ UNCHANGED <<rid, req, ts, risk, hist, view>>

\* A refusal before the locks are held.
Refuse(c, code) ==
    /\ outcome' = [outcome EXCEPT ![rid[c]] = code]
    /\ Leave(c, code)

\* The body has its envelope or its exception: the finally clause comes next.
Finish(c, code) ==
    /\ outcome' = [outcome EXCEPT ![rid[c]] = code]
    /\ Goto(c, "release")
    /\ UNCHANGED <<rid, req, ts, risk, hist, view>>

\* log(..., outcome="blocked") and the refusal; the append itself may fail.
Block(c, code) ==
    \/ blocked' = blocked \cup {rid[c]} /\ Finish(c, code)
    \/ Finish(c, "raised") /\ UNCHANGED blocked

Proceed(c, label) ==
    /\ Goto(c, label)
    /\ UNCHANGED <<rid, req, ts, risk, hist, view, outcome>>

-----------------------------------------------------------------------------
(* The call starts: request id, then the in-memory half of the lookup.     *)

\* run_action hands back the cached envelope, whose code is e.code.
Replay(c, r, e) == outcome' = [outcome EXCEPT ![r] = e.code]

Owes(p, k) == returned[p][k] >= 0 /\ clock - returned[p][k] < TTL
OwesAtHome(k) == persisted[k] >= 0 /\ clock - persisted[k] < TTL

\* Bookkeeping of the promises: what is owed to a call that starts, and which
\* keys have overlapping calls in one process.
Promise(c, r, k) ==
    LET p == ProcOf[c]
        overlaps == \E d \in Callers \ {c} :
                        ProcOf[d] = p /\ pc[d] # "idle" /\ req[d].key = k
    IN  IF k = NoKey THEN UNCHANGED promises
        ELSE /\ owed' = IF Owes(p, k) /\ ~overlaps THEN owed \cup {r} ELSE owed
             /\ owedAtHome' = IF OwesAtHome(k) THEN owedAtHome \cup {r} ELSE owedAtHome
             /\ returned' = IF overlaps THEN [returned EXCEPT ![p][k] = Void] ELSE returned
             /\ UNCHANGED persisted

Start(c, q) ==
    /\ pc[c] = "idle"
    /\ nextRid <= MaxCalls
    /\ nextRid' = nextRid + 1
    /\ keyOf' = [keyOf EXCEPT ![nextRid] = q.key]
    /\ Promise(c, nextRid, q.key)
    /\ IF q.key = NoKey
       THEN /\ Goto(c, "gate")
            /\ rid' = [rid EXCEPT ![c] = nextRid]
            /\ req' = [req EXCEPT ![c] = q]
            /\ UNCHANGED <<ts, mem, outcome>>
       ELSE LET p == ProcOf[c]
                e == mem[p][q.key]
            IN  IF Fresh(e, clock)
                THEN /\ Replay(c, nextRid, e)
                     /\ UNCHANGED <<pc, rid, req, ts, mem>>
                ELSE /\ Goto(c, "disk")
                     /\ rid' = [rid EXCEPT ![c] = nextRid]
                     /\ req' = [req EXCEPT ![c] = q]
                     /\ ts' = [ts EXCEPT ![c] = clock]
                     /\ mem' = [mem EXCEPT ![p][q.key] = NoEntry]
                     /\ UNCHANGED outcome
    /\ UNCHANGED <<clock, stop, crashes, stops, risk, hist, view, locks, disk, rate,
                   inputs, logs, counted, grace>>

\* The on-disk half: a fresh entry is copied to memory, with its own time.
LookupDisk(c) ==
    LET k == req[c].key
        e == disk[k]
    IN  /\ pc[c] = "disk"
        /\ IF Fresh(e, ts[c])
           THEN /\ mem' = [mem EXCEPT ![ProcOf[c]][k] = e]
                /\ Replay(c, rid[c], e)
                /\ Idle(c)
           ELSE Proceed(c, "gate") /\ UNCHANGED mem
        /\ UNCHANGED <<clock, stop, nextRid, crashes, stops, locks, disk, rate, inputs,
                       logs, counted, keyOf, promises, grace>>

CheckMode(c) ==
    IF req[c].mode = "confirm" /\ ~req[c].yes
    THEN Refuse(c, "confirmation_required")
    ELSE Proceed(c, "thread")

\* Mutant: --yes also overrides the kill switch.
GateYesOverridesStop(c) ==
    /\ pc[c] = "gate"
    /\ IF "file" \in stop /\ ~req[c].yes THEN Refuse(c, "stopped")
       ELSE IF HasCompanion THEN Proceed(c, "ask") ELSE CheckMode(c)
    /\ UNCHANGED <<clock, stop, nextRid, crashes, stops, locks, mem, disk, rate, inputs,
                   logs, counted, keyOf, promises, grace>>

\* The kill switch is read once: first the STOP file ...
Gate(c) ==
    /\ pc[c] = "gate"
    /\ IF "file" \in stop THEN Refuse(c, "stopped")
       ELSE IF HasCompanion THEN Proceed(c, "ask") ELSE CheckMode(c)
    /\ UNCHANGED <<clock, stop, nextRid, crashes, stops, locks, mem, disk, rate, inputs,
                   logs, counted, keyOf, promises, grace>>

\* ... then, over its socket, the companion's flag; a companion that does not
\* answer counts as stopped.
AskCompanion(c) ==
    /\ pc[c] = "ask"
    /\ \/ Refuse(c, "stopped")
       \/ "companion" \notin stop /\ CheckMode(c)
    /\ UNCHANGED <<clock, stop, nextRid, crashes, stops, locks, mem, disk, rate, inputs,
                   logs, counted, keyOf, promises, grace>>

\* _action_lock.acquire(blocking=False)
AcquireThreadLock(c) ==
    LET p == ProcOf[c]
    IN  /\ pc[c] = "thread"
        /\ IF threadLock[p] = NoCaller
           THEN threadLock' = [threadLock EXCEPT ![p] = c] /\ Proceed(c, "flock")
           ELSE Refuse(c, "busy") /\ UNCHANGED threadLock
        /\ UNCHANGED <<clock, stop, nextRid, crashes, stops, fileLock, mem, disk, rate,
                       inputs, logs, counted, keyOf, promises, grace>>

\* open(action.lock), then flock(LOCK_EX | LOCK_NB).  When another process
\* holds it the thread lock is given back; when the open itself raises, which
\* happens before the try, nothing gives it back.
AcquireFileLock(c) ==
    /\ pc[c] = "flock"
    /\ \/ /\ fileLock = NoCaller
          /\ fileLock' = c
          /\ Proceed(c, "observe")
          /\ UNCHANGED threadLock
       \/ /\ fileLock # NoCaller
          /\ threadLock' = [threadLock EXCEPT ![ProcOf[c]] = NoCaller]
          /\ Refuse(c, "busy")
          /\ UNCHANGED fileLock
       \/ Refuse(c, "raised") /\ UNCHANGED locks
    /\ UNCHANGED <<clock, stop, nextRid, crashes, stops, mem, disk, rate, inputs,
                   logs, counted, keyOf, promises, grace>>

-----------------------------------------------------------------------------
(* Under both locks. *)

\* build, conn.ensure and observer.observe: the risk of the call on the screen, an
\* error envelope, or an exception (conn.ensure raises the built-in ConnectionError).
Observe(c) ==
    /\ pc[c] = "observe"
    /\ \/ \E screen \in Screens :
            /\ risk' = [risk EXCEPT ![c] = Classify(screen, req[c])]
            /\ Goto(c, "decide")
            /\ UNCHANGED <<rid, req, ts, hist, view, outcome>>
       \/ \E code \in Failures : Finish(c, code)
    /\ UNCHANGED <<clock, stop, nextRid, crashes, stops, locks, mem, disk, rate, inputs,
                   logs, counted, keyOf, promises, grace>>

Decide(c) ==
    /\ pc[c] = "decide"
    /\ \/ /\ Decision(risk[c]) = "deny"
          /\ Block(c, "guarded_action")
       \/ /\ Decision(risk[c]) = "confirm" /\ ~req[c].yes
          /\ Block(c, "confirmation_required")
       \/ /\ Decision(risk[c]) = "allow" \/ (Decision(risk[c]) = "confirm" /\ req[c].yes)
          /\ Proceed(c, "rate")
          /\ UNCHANGED blocked
    /\ UNCHANGED <<clock, stop, nextRid, crashes, stops, locks, mem, disk, rate, inputs,
                   audited, counted, keyOf, promises, grace>>

\* The clock is read once for the prune, the check and the records to come.
RateCheck(c) ==
    LET recent == Prune(rate, clock)
    IN  /\ pc[c] = "rate"
        /\ IF ~RateAllows(recent, req[c].verb, risk[c]) THEN Block(c, "rate_limited")
           ELSE IF req[c].mode = "dry-run" THEN Finish(c, "dry_run") /\ UNCHANGED blocked
           ELSE /\ Goto(c, IF req[c].verb \in Searches THEN "halt" ELSE "fn")
                /\ ts' = [ts EXCEPT ![c] = clock]
                /\ hist' = [hist EXCEPT ![c] = recent]
                /\ UNCHANGED <<rid, req, risk, view, outcome, blocked>>
        /\ UNCHANGED <<clock, stop, nextRid, crashes, stops, locks, mem, disk, rate, inputs,
                       audited, counted, keyOf, promises, grace>>

\* A search tests the STOP file before each of its looks.
Halt(c) ==
    /\ pc[c] = "halt"
    /\ IF "file" \in stop THEN Finish(c, "stopped") ELSE Proceed(c, "fn")
    /\ UNCHANGED <<clock, stop, nextRid, crashes, stops, locks, mem, disk, rate, inputs, logs,
                   counted, keyOf, promises, grace>>

\* The first half of fn: the input reaches the phone, or is lost (adb's return
\* code is not looked at), or a search ends, at what it looked for or after its
\* last scroll, or fn fails (a stale snapshot, an element that is gone, a bad
\* argument, a refusal of the companion; in a search perhaps behind a scroll).
Input(c) ==
    /\ pc[c] = "fn"
    /\ \/ inputs' = inputs \cup {rid[c]} /\ Proceed(c, "reobserve")
       \/ /\ \/ Proceed(c, "reobserve")
             \/ req[c].verb \in Searches /\ Proceed(c, "save")
             \/ \E code \in Failures : Finish(c, code)
          /\ UNCHANGED inputs
    /\ UNCHANGED <<clock, stop, nextRid, crashes, stops, locks, mem, disk, rate, logs,
                   counted, keyOf, promises, grace>>

\* Mutant: the history is not saved.
ReobserveForgetsRate(c) ==
    /\ pc[c] = "reobserve"
    /\ Proceed(c, "log")
    /\ UNCHANGED <<clock, stop, nextRid, crashes, stops, locks, mem, disk, rate, inputs,
                   logs, counted, keyOf, promises, grace>>

\* The second half of fn, after an input: the observation, a search's next round,
\* or a failure of any code (a reply that is late, a second tap that is refused, a
\* guarded or locked screen).
Reobserve(c) ==
    /\ pc[c] = "reobserve"
    /\ \/ Proceed(c, IF req[c].verb \in Searches THEN "halt" ELSE "save")
       \/ \E code \in Failures : Finish(c, code)
    /\ UNCHANGED <<clock, stop, nextRid, crashes, stops, locks, mem, disk, rate, inputs,
                   logs, counted, keyOf, promises, grace>>

\* _save_rate, which raises when the file cannot be written.
SaveRate(c) ==
    /\ pc[c] = "save"
    /\ \/ /\ rate' = hist[c] \cup NewRecords(c)
          /\ counted' = counted \cup NewRecords(c)
          /\ Proceed(c, "log")
       \/ Finish(c, "raised") /\ UNCHANGED <<rate, counted>>
    /\ UNCHANGED <<clock, stop, nextRid, crashes, stops, locks, mem, disk, inputs, logs,
                   keyOf, promises, grace>>

LogOk(c) ==
    /\ pc[c] = "log"
    /\ \/ audited' = audited \cup {rid[c]} /\ Finish(c, "ok")
       \/ Finish(c, "raised") /\ UNCHANGED audited
    /\ UNCHANGED <<clock, stop, nextRid, crashes, stops, locks, mem, disk, rate, inputs,
                   blocked, counted, keyOf, promises, grace>>

\* Mutant: the locks are dropped after the body instead of in a finally clause.
ReleaseWithoutFinally(c) ==
    /\ pc[c] = "release"
    /\ IF outcome[rid[c]] = "raised" THEN UNCHANGED locks
       ELSE /\ fileLock' = NoCaller
            /\ threadLock' = [threadLock EXCEPT ![ProcOf[c]] = NoCaller]
    /\ Leave(c, outcome[rid[c]])
    /\ UNCHANGED <<clock, stop, nextRid, crashes, stops, mem, disk, rate, inputs, logs,
                   counted, outcome, keyOf, promises, grace>>

\* The finally clause runs on every path out of the body.
Release(c) ==
    /\ pc[c] = "release"
    /\ fileLock' = NoCaller
    /\ threadLock' = [threadLock EXCEPT ![ProcOf[c]] = NoCaller]
    /\ Leave(c, outcome[rid[c]])
    /\ UNCHANGED <<clock, stop, nextRid, crashes, stops, mem, disk, rate, inputs, logs,
                   counted, outcome, keyOf, promises, grace>>

-----------------------------------------------------------------------------
(* _idempotency_store, after the locks are gone. *)

\* Mutant: the stored envelope always says ok.
StoreOk(c) ==
    LET k == req[c].key
        p == ProcOf[c]
        e == [ts |-> clock, rid |-> rid[c], code |-> "ok"]
    IN  /\ pc[c] = "store"
        /\ mem' = [mem EXCEPT ![p] = [Sweep(mem[p], clock) EXCEPT ![k] = e]]
        /\ view' = [view EXCEPT ![c] = [Sweep(disk, clock) EXCEPT ![k] = e]]
        /\ ts' = [ts EXCEPT ![c] = clock]
        /\ Goto(c, "write")
        /\ UNCHANGED <<clock, stop, nextRid, crashes, stops, rid, req, risk, hist, locks,
                       disk, rate, inputs, logs, counted, outcome, keyOf, promises,
                       grace>>

\* The memory cache, and the read half of the update of idempotency.json.
Store(c) ==
    LET k == req[c].key
        p == ProcOf[c]
        e == [ts |-> clock, rid |-> rid[c], code |-> outcome[rid[c]]]
    IN  /\ pc[c] = "store"
        /\ mem' = [mem EXCEPT ![p] = [Sweep(mem[p], clock) EXCEPT ![k] = e]]
        /\ view' = [view EXCEPT ![c] = [Sweep(disk, clock) EXCEPT ![k] = e]]
        /\ ts' = [ts EXCEPT ![c] = clock]
        /\ Goto(c, "write")
        /\ UNCHANGED <<clock, stop, nextRid, crashes, stops, rid, req, risk, hist, locks,
                       disk, rate, inputs, logs, counted, outcome, keyOf, promises,
                       grace>>

\* The write half: the whole file is replaced, or an OSError is swallowed.
\* Either way the envelope is returned.
Write(c) ==
    LET k == req[c].key
        p == ProcOf[c]
    IN  /\ pc[c] = "write"
        /\ returned' = IF returned[p][k] = Void THEN returned
                       ELSE [returned EXCEPT ![p][k] = ts[c]]
        /\ \/ /\ disk' = view[c]
              /\ persisted' = IF outcome[rid[c]] = "ok"
                              THEN [persisted EXCEPT ![k] = ts[c]] ELSE persisted
           \/ UNCHANGED <<disk, persisted>>
        /\ Idle(c)
        /\ UNCHANGED <<clock, stop, nextRid, crashes, stops, locks, mem, rate, inputs, logs,
                       counted, outcome, keyOf, owed, owedAtHome, grace>>

-----------------------------------------------------------------------------
(* The environment. *)

Tick ==
    /\ clock < MaxTime
    /\ clock' = clock + 1
    /\ UNCHANGED <<stop, nextRid, crashes, stops, locals, locks, mem, disk, rate, inputs,
                   logs, counted, outcome, keyOf, promises, grace>>

\* audit.engage_stop and audit.clear_stop, from any process or by hand, and the
\* companion's own switch.
EngageStop(source) ==
    /\ source \notin stop
    /\ stops < MaxStops
    /\ stops' = stops + 1
    /\ stop' = stop \cup {source}
    /\ grace' = [grace EXCEPT ![source] =
                    {rid[c] : c \in {d \in Callers : pc[d] \in Past(source)}}]
    /\ UNCHANGED <<clock, nextRid, crashes, locals, locks, mem, disk, rate, inputs,
                   logs, counted, outcome, keyOf, promises>>

ClearStop(source) ==
    /\ source \in stop
    /\ stop' = stop \ {source}
    /\ grace' = [grace EXCEPT ![source] = {}]
    /\ UNCHANGED <<clock, nextRid, crashes, stops, locals, locks, mem, disk, rate, inputs,
                   logs, counted, outcome, keyOf, promises>>

\* A process ends: killed in the middle of a call, or a one-shot CLI that is
\* done.  The kernel drops its flock; its memory and its threads are gone.
Die(p) ==
    LET dead == {c \in Callers : ProcOf[c] = p}
    IN  /\ crashes < MaxCrashes
        /\ crashes' = crashes + 1
        /\ pc' = [c \in Callers |-> IF c \in dead THEN "idle" ELSE pc[c]]
        /\ rid' = [c \in Callers |-> IF c \in dead THEN 0 ELSE rid[c]]
        /\ req' = [c \in Callers |-> IF c \in dead THEN AnyRequest ELSE req[c]]
        /\ ts' = [c \in Callers |-> IF c \in dead THEN 0 ELSE ts[c]]
        /\ risk' = [c \in Callers |-> IF c \in dead THEN "low" ELSE risk[c]]
        /\ hist' = [c \in Callers |-> IF c \in dead THEN {} ELSE hist[c]]
        /\ view' = [c \in Callers |-> IF c \in dead THEN NoEntries ELSE view[c]]
        /\ threadLock' = [threadLock EXCEPT ![p] = NoCaller]
        /\ fileLock' = IF fileLock \in dead THEN NoCaller ELSE fileLock
        /\ mem' = [mem EXCEPT ![p] = NoEntries]
        /\ returned' = [returned EXCEPT ![p] = [k \in Keys |-> Never]]
        /\ UNCHANGED <<clock, stop, stops, nextRid, disk, rate, inputs, logs, counted,
                       outcome, keyOf, persisted, owed, owedAtHome, grace>>

Step(c) ==
    \/ LookupDisk(c) \/ Gate(c) \/ AskCompanion(c) \/ AcquireThreadLock(c)
    \/ AcquireFileLock(c)
    \/ Observe(c) \/ Decide(c) \/ RateCheck(c) \/ Halt(c) \/ Input(c) \/ Reobserve(c)
    \/ SaveRate(c) \/ LogOk(c) \/ Release(c) \/ Store(c) \/ Write(c)

Next ==
    \/ \E c \in Callers : Step(c)
    \/ \E c \in Callers, q \in Requests : Start(c, q)
    \/ \E p \in Procs : Die(p)
    \/ \E source \in Sources : EngageStop(source) \/ ClearStop(source)
    \/ Tick

\* A thread that runs keeps running; clients, the clock, STOP and crashes owe
\* nothing.  No step of a call waits for another call: the locks do not block.
Fairness == \A c \in Callers : WF_vars(Step(c))

Spec == Init /\ [][Next]_vars /\ Fairness

-----------------------------------------------------------------------------
(* Properties.                                                            *)

\* At most one call in the system, over all threads and processes, is between
\* a won flock and its finally clause; the flock is held exactly by that call,
\* on every path out of the body; and it holds its process's thread lock too.
SingleWriter ==
    /\ \A c, d \in Callers : InCS(c) /\ InCS(d) => c = d
    /\ \A c \in Callers : fileLock = c <=> InCS(c)
    /\ \A c \in Callers : InCS(c) \/ pc[c] = "flock" => threadLock[ProcOf[c]] = c

\* However the calls of all processes interleave, crash or fail, the rate
\* records ever saved never exceed a bucket's limit in any window.
RateLimitHolds ==
    \A b \in DOMAIN Limits, t \in Times :
        Cardinality({h \in InBucket(counted, b) : t - Window <= h.ts /\ h.ts <= t})
            <= Limits[b]

\* The file's read-modify-write loses no record that is still in the window:
\* a limit is enforced on everything that was counted.
NoRateRecordLost == \A h \in counted : clock - h.ts <= Window => h \in rate

\* What an envelope and the audit log say of the input, over every path on which a
\* call may fail: busy, unconfirmed, rate-limited and dry-run calls, and those with a
\* "blocked" line, have injected nothing; an audited call was counted under a verb;
\* an ok has its audit line, or repeats one with the same key and injected nothing
\* itself.  No more is true: a call that ends "stopped", "guarded_action" or "failed"
\* may have injected before, and an ok may have lost its input on the way.
EnvelopeTellsTheTruth ==
    /\ \A r \in Rids : outcome[r] \in Refusals => r \notin inputs
    /\ \A r \in blocked : r \notin inputs /\ outcome[r] # "ok"
    /\ \A r \in audited : \E h \in counted : h.rid = r /\ h.bucket \in Verbs
    /\ \A r \in Rids : outcome[r] = "ok" /\ r \notin audited =>
          r \notin inputs /\ \E s \in audited : keyOf[s] = keyOf[r] /\ keyOf[r] # NoKey

\* Every cached envelope, in memory or on disk, is the one the call it names
\* got, and is filed under the key that call was made with: a replay reports
\* an earlier call with its own key.
CachedEnvelopesAreGenuine ==
    LET Genuine(k, e) == e # NoEntry => keyOf[e.rid] = k /\ outcome[e.rid] = e.code
    IN  \A k \in Keys : Genuine(k, disk[k]) /\ \A p \in Procs : Genuine(k, mem[p][k])

\* A call made after an answer with the same key in the same process, within
\* the TTL, injects nothing, provided the key's calls do not overlap there.
ReplayInProcess == owed \cap inputs = {}

\* While STOP is in force at a source, only calls that had already passed the
\* test of that source inject input: a call that starts later, or is still in
\* its lookup, never does, nor a search that finds the STOP file before it scrolls.
StopAdmitsNoNewCall ==
    [][\A source \in stop : inputs' \ inputs \subseteq grace[source]]_vars

-----------------------------------------------------------------------------
(* What the documents say and the code does not do.                        *)

\* docs/safety.md: deduplication holds across one-shot invocations.  A call made
\* within the TTL of an "ok" envelope that was returned and written to
\* idempotency.json, by whatever process, injects nothing.
ReplayAcrossProcesses == owedAtHome \cap inputs = {}

\* docs/safety.md: a repeated key replays the first envelope instead of executing
\* the action again.  No two calls with a key are both executed.
KeyExecutesOnce ==
    \A r, s \in audited : keyOf[r] = keyOf[s] /\ keyOf[r] # NoKey => r = s

\* docs/safety.md: every executed action is appended to the log.  An input that
\* landed has its audit line once the call is over.
EveryInputAudited ==
    \A r \in inputs : outcome[r] # "none" => r \in audited
=============================================================================
