------------------------------- MODULE Daemon -------------------------------
(***************************************************************************)
(* The daemon process and its clients.  One server thread accepts one       *)
(* connection at a time and serves its request lines until the peer closes; *)
(* one worker thread runs the accepted jobs.  They share the job registry    *)
(* (JobService is what it promises), the warm session, the snapshot cache,   *)
(* the funnel's thread lock, the STOP file and _write_lock: the worker holds *)
(* it for a whole job, the server for one mutating request.                 *)
(*                                                                         *)
(* A client probes the daemon with a ping on a connection of its own, then  *)
(* sends its request on another.  run_action is reduced to the steps other   *)
(* threads can see; ActionFunnel has the rest of it.  Calls carry no         *)
(* idempotency key here, and runs of macros are short.                      *)
(***************************************************************************)
EXTENDS Integers, Sequences, FiniteSets

CONSTANTS
    Clients,    \* processes that use DaemonClient, one command at a time
    Discovered, \* those that found the daemon before the behaviour starts
    Apps,       \* apps that can be in the foreground
    Commands,   \* the requests clients send: [method, job, pin]
    QueueMax,   \* job_queue_max
    Reuse,      \* action_observe_ttl > 0: a recent observation may be reused
    MacroSteps, \* bound: actions in a macro
    MaxJobs,    \* bound: jobs created in one behaviour
    MaxConns,   \* bound: connections opened in one behaviour
    MaxPolls,   \* bound: job_poll requests on one connection
    MaxSnaps,   \* bound: snapshots in the cache
    MaxEvents   \* bound: times the user acts: app switches, STOP by hand, Ctrl-C

Methods == {"act", "observe", "find", "macro_run", "macro_cancel", "stop",
            "shutdown", "events_poll"}
JobKinds == {"act", "observe", "find", "macro_run"}
JobIds == 1..MaxJobs
NoJob == 0
Conns == 1..MaxConns
NoConn == 0
\* job: the one a cancellation names; pin: the snapshot_id an act carries, or 0.
Requests == [method : Methods \cup {"ping", "job_poll", "none"},
             job : JobIds \cup {NoJob}, pin : 0..MaxSnaps]

ASSUME DaemonConstants ==
    /\ Discovered \subseteq Clients
    /\ Commands \subseteq Requests
    /\ \A q \in Commands : q.method \in Methods
    /\ QueueMax \in Nat /\ MacroSteps \in Nat \ {0}
    /\ MaxJobs \in Nat /\ MaxConns \in Nat /\ MaxPolls \in Nat
    /\ MaxSnaps \in Nat /\ MaxSnaps >= MaxJobs /\ MaxEvents \in Nat
    /\ Reuse \in BOOLEAN
    /\ "none" \notin Apps

Nothing == [method |-> "none", job |-> NoJob, pin |-> 0]
Threads == {"server", "worker"}

VARIABLES
    \* clients and connections
    cpc, at,        \* per client: where it stands, and its connection
    nextConn,
    backlog,        \* connections not accepted yet, oldest first
    line,           \* per connection: the request line not read yet
    answer,         \* per connection: the answer not read yet
    open,           \* per connection: "open", "closed" or "reset" by the client
    owns,           \* per connection: the job its answers named
    polls,          \* per connection: job_poll requests so far
    \* the server thread
    spc, serving, handling,
    running,        \* _running
    \* the job registry and the worker
    phase,          \* JobService's
    job,            \* per job: its request
    jobsStopped,    \* JobRegistry._stopped
    wpc, cur,
    left,           \* per thread: macro actions left to run
    \* shared by the two threads
    fpc,            \* per thread: its place in run_action
    actionLock,     \* runtime._action_lock
    stopFile,
    seenApp,        \* session.last: the app it shows
    snaps,          \* the snapshot cache: per id, the app
    phone,          \* the app in the foreground
    events,         \* what the user did so far
    \* History variables: no guard reads them, the properties do.
    judged,         \* per thread: session.last is still the one policy judged
    inputs,         \* inputs of the daemon's threads
    barrier,        \* a stop request was handled, and STOP not cleared since
    inFlight        \* the cancel being handled named a running job when it was read

clients == <<cpc, at>>
conns == <<nextConn, backlog, line, answer, open, owns, polls>>
server == <<spc, serving, handling, running>>
jobs == <<phase, job, jobsStopped>>
worker == <<wpc, cur>>
funnel == <<left, fpc, actionLock, seenApp, judged, inputs>>
user == <<phone, events>>
stopping == <<stopFile, barrier>>
vars == <<clients, conns, server, jobs, worker, funnel, snaps, stopping, user, inFlight>>

Places == {"out", "gate", "observe", "inject", "after", "ok", "failed"}

TypeOK ==
    /\ cpc \in [Clients -> {"idle", "ping", "ready", "call", "poll", "late", "bypass"}]
    /\ at \in [Clients -> Conns \cup {NoConn}]
    /\ nextConn \in 1..(MaxConns + 1)
    /\ backlog \in Seq(Conns)
    /\ line \in [Conns -> Requests]
    /\ answer \in [Conns -> {"none", "ok", "accepted", "ended", "busy", "not_found", "failed"}]
    /\ open \in [Conns -> {"open", "closed", "reset"}]
    /\ owns \in [Conns -> JobIds \cup {NoJob}]
    /\ polls \in [Conns -> 0..MaxPolls]
    /\ spc \in {"accept", "read", "handle", "macros", "leaving", "down"}
    /\ serving \in Conns \cup {NoConn}
    /\ handling \in Requests
    /\ running \in BOOLEAN
    /\ phase \in [JobIds -> {"none", "queued", "running", "ended"}]
    /\ job \in [JobIds -> Requests]
    /\ jobsStopped \in BOOLEAN
    /\ wpc \in {"idle", "pick", "lock", "validate", "look", "step", "funnel", "put", "end",
                "dead"}
    /\ cur \in JobIds \cup {NoJob}
    /\ left \in [Threads -> 0..MacroSteps]
    /\ fpc \in [Threads -> Places]
    /\ actionLock \in Threads \cup {"free"}
    /\ stopFile \in BOOLEAN
    /\ seenApp \in Apps \cup {"none"}
    /\ snaps \in Seq(Apps) /\ Len(snaps) <= MaxSnaps
    /\ phone \in Apps
    /\ events \in 0..MaxEvents
    /\ judged \in [Threads -> BOOLEAN]
    /\ inputs \in Nat
    /\ barrier \in BOOLEAN /\ inFlight \in BOOLEAN

Init ==
    /\ cpc = [c \in Clients |-> IF c \in Discovered THEN "ready" ELSE "idle"]
    /\ at = [c \in Clients |-> NoConn]
    /\ nextConn = 1 /\ backlog = <<>>
    /\ line = [n \in Conns |-> Nothing]
    /\ answer = [n \in Conns |-> "none"]
    /\ open = [n \in Conns |-> "open"]
    /\ owns = [n \in Conns |-> NoJob]
    /\ polls = [n \in Conns |-> 0]
    /\ spc = "accept" /\ serving = NoConn /\ handling = Nothing /\ running = TRUE
    /\ phase = [j \in JobIds |-> "none"] /\ job = [j \in JobIds |-> Nothing]
    /\ jobsStopped = FALSE
    /\ wpc = "idle" /\ cur = NoJob
    /\ left = [t \in Threads |-> 0] /\ fpc = [t \in Threads |-> "out"]
    /\ actionLock = "free" /\ stopFile = FALSE
    /\ seenApp = "none" /\ snaps = <<>>
    /\ phone \in Apps /\ events = 0
    /\ judged = [t \in Threads |-> FALSE] /\ inputs = 0
    /\ barrier = FALSE /\ inFlight = FALSE

Up == spc # "down"

\* shutdown() stops the jobs, closes the socket and removes daemon.json.
Listening == ~jobsStopped

\* Neither waiting to be accepted nor being served: the daemon let it go.
Lost(n) == serving # n /\ \A i \in DOMAIN backlog : backlog[i] # n

\* The worker is inside _run_job.
WriteLocked == wpc \in {"validate", "look", "step", "funnel", "put"}

Service == INSTANCE JobService
           WITH Ids <- JobIds, Keys <- {}, NoKey <- "none",
                keyOf <- [j \in JobIds |-> "none"]

-----------------------------------------------------------------------------
(* Clients: discover, call, submit_and_wait. *)

\* A new connection, whose first line is written at once.
Open(c, q) ==
    /\ nextConn <= MaxConns
    /\ nextConn' = nextConn + 1
    /\ at' = [at EXCEPT ![c] = nextConn]
    /\ backlog' = Append(backlog, nextConn)
    /\ line' = [line EXCEPT ![nextConn] = q]
    /\ UNCHANGED <<answer, open, owns, polls>>

\* The client closes: with an answer it has not read, the peer sees a reset.
Close(c) ==
    /\ open' = [open EXCEPT ![at[c]] = IF answer[at[c]] = "none" THEN "closed" ELSE "reset"]
    /\ at' = [at EXCEPT ![c] = NoConn]
    /\ UNCHANGED <<nextConn, backlog, line, answer, owns, polls>>

\* It reads the answer, then closes.
ReadAndClose(c) ==
    /\ answer' = [answer EXCEPT ![at[c]] = "none"]
    /\ open' = [open EXCEPT ![at[c]] = "closed"]
    /\ at' = [at EXCEPT ![c] = NoConn]
    /\ UNCHANGED <<nextConn, backlog, line, owns, polls>>

ClientFrame == UNCHANGED <<server, jobs, worker, funnel, snaps, stopping, user, inFlight>>

\* discover: daemon.json is there while the daemon listens.
Discover(c) ==
    /\ cpc[c] = "idle" /\ Listening
    /\ Open(c, [Nothing EXCEPT !.method = "ping"])
    /\ cpc' = [cpc EXCEPT ![c] = "ping"]
    /\ ClientFrame

PingAnswered(c) ==
    /\ cpc[c] = "ping" /\ answer[at[c]] # "none"
    /\ ReadAndClose(c)
    /\ cpc' = [cpc EXCEPT ![c] = "ready"]
    /\ ClientFrame

\* The server is kept by a connection that is not a mere probe.
Busy == serving # NoConn /\ \A d \in Clients : at[d] = serving => cpc[d] # "ping"

\* The ping's second is over while the daemon is busy, or gone: the command runs
\* in this process.
PingTimeout(c) ==
    /\ cpc[c] = "ping" /\ answer[at[c]] = "none"
    /\ Busy \/ Lost(at[c])
    /\ Close(c)
    /\ cpc' = [cpc EXCEPT ![c] = "bypass"]
    /\ ClientFrame

BypassEnds(c) ==
    /\ cpc[c] = "bypass"
    /\ cpc' = [cpc EXCEPT ![c] = "idle"]
    /\ UNCHANGED <<at, conns>>
    /\ ClientFrame

\* A refused connection is an error envelope: the command is over.
Call(c, q) ==
    /\ cpc[c] = "ready"
    /\ \/ Listening /\ Open(c, q) /\ cpc' = [cpc EXCEPT ![c] = "call"]
       \/ ~Listening /\ cpc' = [cpc EXCEPT ![c] = "idle"] /\ UNCHANGED <<at, conns>>
    /\ ClientFrame

\* An accepted job is polled on the same connection; all else ends the command.
CallAnswered(c) ==
    /\ cpc[c] = "call" /\ answer[at[c]] # "none"
    /\ \/ /\ answer[at[c]] = "accepted" /\ polls[at[c]] < MaxPolls
          /\ cpc' = [cpc EXCEPT ![c] = "poll"]
          /\ answer' = [answer EXCEPT ![at[c]] = "none"]
          /\ UNCHANGED <<at, nextConn, backlog, line, open, owns, polls>>
       \/ /\ answer[at[c]] # "accepted" \/ polls[at[c]] = MaxPolls
          /\ cpc' = [cpc EXCEPT ![c] = "idle"]
          /\ ReadAndClose(c)
    /\ ClientFrame

\* job_poll, or the overall timeout of submit_and_wait.
PollOrExpire(c) ==
    /\ cpc[c] = "poll"
    /\ \/ /\ cpc' = [cpc EXCEPT ![c] = "call"]
          /\ line' = [line EXCEPT ![at[c]] = [Nothing EXCEPT !.method = "job_poll", !.job = owns[at[c]]]]
          /\ polls' = [polls EXCEPT ![at[c]] = @ + 1]
          /\ UNCHANGED <<at, nextConn, backlog, answer, open, owns>>
       \/ /\ cpc' = [cpc EXCEPT ![c] = "idle"]
          /\ Close(c)
    /\ ClientFrame

\* The RPC's five seconds are over: the answer may still come before the close.
CallTimeout(c) ==
    /\ cpc[c] = "call" /\ answer[at[c]] = "none"
    /\ cpc' = [cpc EXCEPT ![c] = "late"]
    /\ UNCHANGED <<at, conns>>
    /\ ClientFrame

LateClose(c) ==
    /\ cpc[c] = "late"
    /\ Close(c)
    /\ cpc' = [cpc EXCEPT ![c] = "idle"]
    /\ ClientFrame

ClientStep(c) ==
    \/ PingAnswered(c) \/ BypassEnds(c) \/ CallAnswered(c) \/ PollOrExpire(c)
    \/ LateClose(c) \/ (Lost(at[c]) /\ (PingTimeout(c) \/ CallTimeout(c)))

-----------------------------------------------------------------------------
(* The server thread: serve_forever, _serve_conn, handle_line. *)

Accept ==
    /\ spc = "accept" /\ running /\ backlog # <<>>
    /\ serving' = Head(backlog) /\ backlog' = Tail(backlog)
    /\ spc' = "read"
    /\ UNCHANGED <<clients, nextConn, line, answer, open, owns, polls, handling, running,
                   jobs, worker, funnel, snaps, stopping, user, inFlight>>

\* The next line.
Read ==
    /\ spc = "read" /\ open[serving] # "reset" /\ line[serving] # Nothing
    /\ handling' = line[serving]
    /\ line' = [line EXCEPT ![serving] = Nothing]
    /\ spc' = "handle"
    /\ inFlight' = (/\ handling'.method = "macro_cancel"
                    /\ handling'.job \in JobIds
                    /\ phase[handling'.job] = "running"
                    /\ job[handling'.job].method = "macro_run")
    /\ UNCHANGED <<clients, nextConn, backlog, answer, open, owns, polls, serving, running,
                   jobs, worker, funnel, snaps, stopping, user>>

\* Mutant: the end of the connection is taken for one of the blank lines.
HangUpIsBlank ==
    /\ spc = "read" /\ open[serving] = "closed" /\ line[serving] = Nothing
    /\ UNCHANGED vars

\* The end of the connection: the server accepts another.
HangUp ==
    /\ spc = "read" /\ open[serving] = "closed" /\ line[serving] = Nothing
    /\ spc' = "accept" /\ serving' = NoConn
    /\ UNCHANGED <<clients, conns, handling, running, jobs, worker, funnel, snaps,
                   stopping, user, inFlight>>

\* A reset is an OSError _serve_conn does not catch: the daemon shuts down.
ConnectionReset ==
    /\ spc = "read" /\ open[serving] = "reset"
    /\ spc' = "leaving" /\ jobsStopped' = TRUE /\ running' = FALSE
    /\ serving' = NoConn /\ backlog' = <<>>
    /\ UNCHANGED <<clients, nextConn, line, answer, open, owns, polls, handling, phase, job,
                   worker, funnel, snaps, stopping, user, inFlight>>

\* The answer is written; a peer that has closed does not read it.
Reply(a, j) ==
    /\ answer' = IF open[serving] = "open" THEN [answer EXCEPT ![serving] = a] ELSE answer
    /\ owns' = [owns EXCEPT ![serving] = j]
    /\ handling' = Nothing /\ inFlight' = FALSE
    /\ spc' = "read"
    /\ UNCHANGED <<clients, nextConn, backlog, line, open, polls, serving>>

\* Mutant: stop is not in MUTATING.
MutatingButStop == {"macro_run", "macro_cancel"}

\* rpc.MUTATING, as far as it is modelled: handled under _write_lock.
Mutating == {"stop", "macro_run", "macro_cancel"}

\* A method may be handled: a mutating one waits until the worker's job is over.
Handling(m) ==
    /\ spc = "handle" /\ handling.method = m
    /\ m \in Mutating => ~WriteLocked

HandlePing ==
    /\ Handling("ping")
    /\ Reply("ok", NoJob)
    /\ UNCHANGED <<running, jobs, worker, funnel, snaps, stopping, user>>

\* jobs.submit: the id of a new job, or BusyError.  The bound: ids are left.
HandleSubmit ==
    /\ \E m \in JobKinds : Handling(m)
    /\ \/ \E j \in JobIds :
            /\ Cardinality({i \in JobIds : phase[i] = "queued"}) < QueueMax
            /\ Service!Accept(j, "none")
            /\ job' = [job EXCEPT ![j] = handling]
            /\ Reply("accepted", j)
       \/ /\ \/ Cardinality({i \in JobIds : phase[i] = "queued"}) >= QueueMax
             \/ \A i \in JobIds : phase[i] # "none"
          /\ Reply("busy", NoJob)
          /\ UNCHANGED <<phase, job>>
    /\ UNCHANGED <<running, jobsStopped, worker, funnel, snaps, stopping, user>>

HandleJobPoll ==
    /\ Handling("job_poll")
    /\ Reply(IF phase[handling.job] = "ended" THEN "ended" ELSE "accepted", handling.job)
    /\ UNCHANGED <<running, jobs, worker, funnel, snaps, stopping, user>>

\* _macro_tokens: nothing is ever put in it.
MacroTokens == {}

HandleMacroCancel ==
    /\ Handling("macro_cancel")
    /\ Reply(IF handling.job \in MacroTokens THEN "ok" ELSE "not_found", NoJob)
    /\ UNCHANGED <<running, jobs, worker, funnel, snaps, stopping, user>>

\* engage_stop, which raises when the file cannot be written.
HandleStop ==
    /\ Handling("stop")
    /\ \/ stopFile' = TRUE /\ barrier' = TRUE /\ Reply("ok", NoJob)
       \/ Reply("failed", NoJob) /\ UNCHANGED stopping
    /\ UNCHANGED <<running, jobs, worker, funnel, snaps, user>>

HandleShutdown ==
    /\ Handling("shutdown")
    /\ running' = FALSE
    /\ Reply("ok", NoJob)
    /\ UNCHANGED <<jobs, worker, funnel, snaps, stopping, user>>

\* events_poll: a trigger or a schedule may run a macro, on this thread and
\* without the write lock.
HandleEventsPoll ==
    /\ Handling("events_poll")
    /\ \E n \in 0..MacroSteps : left' = [left EXCEPT !["server"] = n]
    /\ spc' = "macros"
    /\ UNCHANGED <<clients, conns, serving, handling, running, jobs, worker, fpc,
                   actionLock, seenApp, judged, inputs, snaps, stopping, user, inFlight>>

\* Engine._exec_action: the next action, which a retry or a finally allows after
\* a failed one too, or the end of the macro.
TriggeredMacro ==
    /\ spc = "macros" /\ fpc["server"] \in {"out", "ok", "failed"}
    /\ \/ /\ left["server"] > 0
          /\ left' = [left EXCEPT !["server"] = @ - 1]
          /\ fpc' = [fpc EXCEPT !["server"] = "gate"]
          /\ UNCHANGED <<clients, conns, spc, serving, handling, inFlight>>
       \/ /\ left' = [left EXCEPT !["server"] = 0]
          /\ fpc' = [fpc EXCEPT !["server"] = "out"]
          /\ Reply("ok", NoJob)
    /\ UNCHANGED <<running, jobs, worker, actionLock, seenApp, judged, inputs, snaps,
                   stopping, user>>

\* The loop ends: shutdown stops the jobs, then the process ends and takes the
\* worker with it.
Leave ==
    /\ spc = "accept" /\ ~running
    /\ spc' = "leaving" /\ jobsStopped' = TRUE /\ backlog' = <<>>
    /\ UNCHANGED <<clients, nextConn, line, answer, open, owns, polls, serving, handling,
                   running, phase, job, worker, funnel, snaps, stopping, user, inFlight>>

ExitProcess ==
    /\ spc = "leaving"
    /\ spc' = "down" /\ wpc' = "dead"
    /\ UNCHANGED <<clients, conns, serving, handling, running, jobs, cur, funnel, snaps,
                   stopping, user, inFlight>>

-----------------------------------------------------------------------------
(* run_action, on thread t: the steps another thread of the daemon sees.   *)

FunnelFrame == UNCHANGED <<clients, conns, server, jobs, worker, left, snaps, stopping, user,
                           inFlight>>

\* Mutant: the thread lock is not tried.
FEnterAnyway(t) ==
    /\ fpc[t] = "gate"
    /\ fpc' = [fpc EXCEPT ![t] = IF stopFile THEN "failed" ELSE "observe"]
    /\ actionLock' = IF stopFile THEN actionLock ELSE t
    /\ UNCHANGED <<seenApp, judged, inputs>>
    /\ FunnelFrame

\* The kill switch, the thread lock, and the flock, which another process may
\* hold.
FEnter(t) ==
    /\ fpc[t] = "gate"
    /\ \/ ~stopFile /\ actionLock = "free"
          /\ actionLock' = t /\ fpc' = [fpc EXCEPT ![t] = "observe"]
       \/ fpc' = [fpc EXCEPT ![t] = "failed"] /\ UNCHANGED actionLock
    /\ UNCHANGED <<seenApp, judged, inputs>>
    /\ FunnelFrame

Unlocked(t, place) == actionLock' = "free" /\ fpc' = [fpc EXCEPT ![t] = place]

\* session.set_snapshot by thread t: what the others had judged is gone.
SetSnapshot(t) ==
    /\ seenApp' = phone
    /\ judged' = [u \in Threads |-> u = t]

\* observe, or the reuse of a recent observation, then policy.explain: go on,
\* or stop with a refusal or an error.
FObserve(t) ==
    /\ fpc[t] = "observe"
    /\ \/ /\ \/ SetSnapshot(t)
             \/ Reuse /\ seenApp # "none" /\ judged' = [judged EXCEPT ![t] = TRUE]
                /\ UNCHANGED seenApp
          /\ \/ fpc' = [fpc EXCEPT ![t] = "inject"] /\ UNCHANGED actionLock
             \/ Unlocked(t, "failed")
       \/ UNCHANGED <<seenApp, judged>> /\ Unlocked(t, "failed")
    /\ UNCHANGED inputs
    /\ FunnelFrame

\* fn resolves its target against session.last and injects, or fails.
FInject(t) ==
    /\ fpc[t] = "inject"
    /\ \/ inputs' = inputs + 1 /\ fpc' = [fpc EXCEPT ![t] = "after"] /\ UNCHANGED actionLock
       \/ Unlocked(t, "failed") /\ UNCHANGED inputs
    /\ UNCHANGED <<seenApp, judged>>
    /\ FunnelFrame

\* fn observes again; the locks go.
FAfter(t) ==
    /\ fpc[t] = "after"
    /\ \/ SetSnapshot(t) /\ \E place \in {"ok", "failed"} : Unlocked(t, place)
       \/ UNCHANGED <<seenApp, judged>> /\ Unlocked(t, "failed")
    /\ UNCHANGED inputs
    /\ FunnelFrame

FunnelStep(t) ==
    /\ Up
    /\ FEnter(t) \/ FObserve(t) \/ FInject(t) \/ FAfter(t)

-----------------------------------------------------------------------------
(* The worker: the registry's loop, and _run_job under the write lock.     *)

WorkerFrame == UNCHANGED <<clients, conns, server, stopping, user, inFlight>>

\* _loop reads _stopped without the lock.
WLoop ==
    /\ wpc = "idle"
    /\ wpc' = IF jobsStopped THEN "dead" ELSE "pick"
    /\ UNCHANGED <<jobs, cur, funnel, snaps>>
    /\ WorkerFrame

WPick ==
    /\ wpc = "pick"
    /\ \/ \E j \in JobIds : Service!Begin(j) /\ cur' = j /\ wpc' = "lock"
       \/ /\ \A i \in JobIds : phase[i] # "queued"
          /\ jobsStopped /\ wpc' = "idle" /\ UNCHANGED <<phase, cur>>
    /\ UNCHANGED <<job, jobsStopped, funnel, snaps>>
    /\ WorkerFrame

\* _run_job: the write lock, then the run of the job's method.
WLock ==
    /\ wpc = "lock"
    /\ CASE job[cur].method = "act" -> wpc' = "validate" /\ UNCHANGED left
         [] job[cur].method = "macro_run" ->
              wpc' = "step" /\ \E n \in 1..MacroSteps : left' = [left EXCEPT !["worker"] = n]
         [] OTHER -> wpc' = "look" /\ UNCHANGED left
    /\ UNCHANGED <<jobs, cur, fpc, actionLock, seenApp, judged, inputs, snaps>>
    /\ WorkerFrame

\* SnapshotCache.validate.  The caller passes the cache's own current foreground.
CurrentId == Len(snaps)
CurrentForeground == IF CurrentId = 0 THEN "none" ELSE snaps[CurrentId]
Valid(pin) == pin # 0 => pin = CurrentId /\ snaps[pin] = CurrentForeground

EnterFunnel == wpc' = "funnel" /\ fpc' = [fpc EXCEPT !["worker"] = "gate"]

\* _run_act: a stale snapshot, or parameters _fn_for rejects, end the job.
WValidate ==
    /\ wpc = "validate"
    /\ \/ Valid(job[cur].pin) /\ EnterFunnel
       \/ wpc' = "end" /\ UNCHANGED fpc
    /\ UNCHANGED <<jobs, cur, left, actionLock, seenApp, judged, inputs, snaps>>
    /\ WorkerFrame

\* _run_observe and _run_find: the session is set without the funnel's lock.
WLook ==
    /\ wpc = "look"
    /\ wpc' = "end"
    /\ \/ UNCHANGED <<seenApp, judged, snaps>>
       \/ /\ SetSnapshot("worker")
          /\ snaps' = IF job[cur].method = "observe" THEN Append(snaps, phone) ELSE snaps
    /\ UNCHANGED <<jobs, cur, left, fpc, actionLock, inputs>>
    /\ WorkerFrame

\* Engine._exec_action: the gate refuses, or the action runs.
WStep ==
    /\ wpc = "step"
    /\ \/ left["worker"] > 0 /\ EnterFunnel /\ left' = [left EXCEPT !["worker"] = @ - 1]
       \/ wpc' = "end" /\ left' = [left EXCEPT !["worker"] = 0] /\ UNCHANGED fpc
    /\ UNCHANGED <<jobs, cur, actionLock, seenApp, judged, inputs, snaps>>
    /\ WorkerFrame

\* run_action returned, with an envelope or an exception.
WReturn ==
    /\ wpc = "funnel" /\ fpc["worker"] \in {"ok", "failed"}
    /\ fpc' = [fpc EXCEPT !["worker"] = "out"]
    /\ wpc' = CASE job[cur].method = "macro_run" -> "step"
                [] fpc["worker"] = "ok" -> "put"
                [] OTHER -> "end"
    /\ UNCHANGED <<jobs, cur, left, actionLock, seenApp, judged, inputs, snaps>>
    /\ WorkerFrame

\* An ok act: what the session holds by now becomes the current snapshot.
WPut ==
    /\ wpc = "put"
    /\ wpc' = "end" /\ snaps' = Append(snaps, seenApp)
    /\ UNCHANGED <<jobs, cur, funnel>>
    /\ WorkerFrame

\* The write lock is released; run_next ends the job.
WEnd ==
    /\ wpc = "end"
    /\ Service!End(cur)
    /\ wpc' = "idle" /\ cur' = NoJob
    /\ UNCHANGED <<job, jobsStopped, funnel, snaps>>
    /\ WorkerFrame

-----------------------------------------------------------------------------
(* The user, at the phone and at the host. *)

UserFrame == UNCHANGED <<clients, nextConn, line, answer, open, owns, polls, spc, serving,
                         handling, phase, job, worker, funnel, snaps, inFlight>>

UserActs ==
    /\ Up /\ events < MaxEvents
    /\ events' = events + 1
    /\ \/ /\ phone' \in Apps \ {phone}
          /\ UNCHANGED <<stopping, backlog, running, jobsStopped>>
       \/ /\ ~stopFile /\ stopFile' = TRUE
          /\ UNCHANGED <<barrier, phone, backlog, running, jobsStopped>>
       \/ /\ stopFile /\ stopFile' = FALSE /\ barrier' = FALSE
          /\ UNCHANGED <<phone, backlog, running, jobsStopped>>
       \* Ctrl-C: the handler calls shutdown on the server thread, which then
       \* goes on where it was.
       \/ /\ ~jobsStopped
          /\ running' = FALSE /\ jobsStopped' = TRUE /\ backlog' = <<>>
          /\ UNCHANGED <<phone, stopping>>
    /\ UserFrame

ServerStep ==
    \/ Accept \/ Read \/ HangUp \/ ConnectionReset \/ HandlePing \/ HandleSubmit \/ HandleJobPoll
    \/ HandleMacroCancel \/ HandleStop \/ HandleShutdown \/ HandleEventsPoll
    \/ TriggeredMacro \/ Leave \/ ExitProcess
WorkerStep ==
    \/ WLoop \/ WPick \/ WLock \/ WValidate \/ WLook \/ WStep \/ WReturn \/ WPut \/ WEnd

Next ==
    \/ ServerStep
    \/ WorkerStep
    \/ \E t \in Threads : FunnelStep(t)
    \/ \E c \in Clients : ClientStep(c) \/ Discover(c) \/ PingTimeout(c) \/ CallTimeout(c)
    \/ \E c \in Clients, q \in Commands : Call(c, q)
    \/ UserActs

\* The threads run; a client reads its answers and gives up in the end.  Weak
\* fairness is enough for the server's wait on the write lock because the jobs
\* are bounded: threading.Lock promises no more.
Fairness ==
    /\ WF_vars(ServerStep \/ FunnelStep("server"))
    /\ WF_vars(WorkerStep \/ FunnelStep("worker"))
    /\ \A c \in Clients : WF_vars(ClientStep(c))

Spec == Init /\ [][Next]_vars /\ Fairness

-----------------------------------------------------------------------------
(* Properties.  CancelIsHeard, PinnedForeground and CommandsGoThroughTheDaemon  *)
(* are the documents' and not true of this code: viol_pin checks one, and the    *)
(* README (Divergences) has the counterexamples of the others.                 *)

\* A job's input goes to the screen its policy decision was made on: no other
\* thread of the daemon changes the warm session in between.
JobsActOnWhatTheyJudged ==
    fpc["worker"] = "inject" => judged["worker"]

\* Once the daemon has handled a stop request none of its threads injects
\* anything until a human clears STOP: not the job that was running, which the
\* request waited for, nor those in the queue.
StopIsABarrier == [][barrier /\ barrier' => inputs' = inputs]_vars

\* Every request sent is answered, or the daemon goes away: one slow job, a
\* client that vanished or one that keeps its connection does not starve the
\* others for ever.
RequestsAnswered ==
    \A c \in Clients : cpc[c] \in {"ping", "call"} ~> cpc[c] \notin {"ping", "call"}

\* A cancellation that names a run in flight finds it.
CancelIsHeard ==
    [][inFlight /\ spc = "handle" /\ spc' = "read"
        => answer'[serving] # "not_found"]_vars

\* An act pinned to a snapshot injects only on a screen, as observed for the
\* act, that has the snapshot's app in the foreground.
PinnedForeground ==
    [][fpc["worker"] = "inject" /\ fpc'["worker"] = "after"
          /\ job[cur].method = "act" /\ job[cur].pin # 0
        => seenApp = snaps[job[cur].pin]]_vars

\* While the daemon runs, a command goes through it.
CommandsGoThroughTheDaemon ==
    [][\A c \in Clients : running /\ cpc[c] # "bypass" => cpc'[c] # "bypass"]_vars
=============================================================================
