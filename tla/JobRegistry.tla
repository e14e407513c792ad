---------------------------- MODULE JobRegistry ----------------------------
(***************************************************************************)
(* daemon/jobs.py: a bounded FIFO of device jobs and the one worker that   *)
(* runs them, in one daemon process.  Two threads: the server, which        *)
(* serves one request line at a time (submit and job_poll), and the worker. *)
(* They share the registry under the condition variable _cv, except that    *)
(* job_poll reads the fields of a Job without it, and _loop reads _stopped. *)
(*                                                                         *)
(* One action is what a thread does between two points where the other, or  *)
(* the clock, can be seen: a critical section that reads the clock twice is *)
(* two actions with _cv held in between.  run_fn is external here: it       *)
(* returns an envelope, or an exception that becomes one.                   *)
(***************************************************************************)
EXTENDS Integers, Sequences

CONSTANTS
    Keys,      \* idempotency keys
    NoKey,     \* a submission without one
    QueueMax,  \* job_queue_max
    TTL,       \* idempotency_ttl
    MaxJobs,   \* bound: jobs created in one behaviour
    MaxTime    \* bound: the clock stops here

ASSUME JobConstants ==
    /\ NoKey \notin Keys
    /\ QueueMax \in Nat
    /\ TTL \in Nat \ {0}
    /\ MaxJobs \in Nat
    /\ MaxTime \in Nat

Ids == 1..MaxJobs       \* uuids, in the order of creation
NoJob == 0
Times == 0..MaxTime
Never == -1             \* ts_finished is None
Live == {"queued", "running"}
Terminal == {"done", "error"}
Results == {"ok", "failed"}     \* envelopes, by their "ok" field

VARIABLES
    clock,
    nextId,     \* the id the next job gets
    status,     \* _jobs: per job, "absent" when it is not in the dictionary
    key,        \* Job.idempotency_key
    result,     \* Job.result_env
    finished,   \* Job.ts_finished
    byKey,      \* _by_key, NoJob where it has no entry
    queue,      \* _queue
    cv,         \* who holds _cv: "server", "worker" or nobody
    stopped,    \* _stopped
    wpc,        \* the worker's place
    cur,        \* the job it runs
    spc,        \* the server's place
    want,       \* the key of the submission it serves
    polled,     \* the job it polls
    seen,       \* the status it read
    \* History variables: no guard reads them, the properties do.
    accepted,   \* per job: when its submission was checked for duplicates
    truth,      \* per job: the envelope its run produced
    late        \* how many jobs were started after stop() set its flag

worker == <<wpc, cur>>
server == <<spc, want, polled, seen>>
fields == <<status, key, result, finished>>
history == <<accepted, truth, late>>
vars == <<clock, nextId, fields, byKey, queue, cv, stopped, worker, server, history>>

TypeOK ==
    /\ clock \in Times
    /\ nextId \in 1..(MaxJobs + 1)
    /\ status \in [Ids -> Live \cup Terminal \cup {"absent"}]
    /\ key \in [Ids -> Keys \cup {NoKey}]
    /\ result \in [Ids -> Results \cup {"none"}]
    /\ finished \in [Ids -> Times \cup {Never}]
    /\ byKey \in [Keys -> Ids \cup {NoJob}]
    /\ queue \in Seq(Ids)
    /\ cv \in {"free", "server", "worker"}
    /\ stopped \in BOOLEAN
    /\ wpc \in {"loop", "pick", "wait", "run", "result", "status", "time", "dead"}
    /\ cur \in Ids \cup {NoJob}
    /\ spc \in {"idle", "dedupe", "status", "result", "exited"}
    /\ want \in Keys \cup {NoKey}
    /\ polled \in Ids \cup {NoJob}
    /\ seen \in Live \cup Terminal \cup {"absent"}
    /\ accepted \in [Ids -> Times \cup {Never}]
    /\ truth \in [Ids -> Results \cup {"none"}]
    /\ late \in Nat

Init ==
    /\ clock = 0 /\ nextId = 1
    /\ status = [j \in Ids |-> "absent"]
    /\ key = [j \in Ids |-> NoKey]
    /\ result = [j \in Ids |-> "none"]
    /\ finished = [j \in Ids |-> Never]
    /\ byKey = [k \in Keys |-> NoJob]
    /\ queue = <<>>
    /\ cv = "free" /\ stopped = FALSE
    /\ wpc = "loop" /\ cur = NoJob
    /\ spc = "idle" /\ want = NoKey /\ polled = NoJob /\ seen = "absent"
    /\ accepted = [j \in Ids |-> Never]
    /\ truth = [j \in Ids |-> "none"]
    /\ late = 0

-----------------------------------------------------------------------------
(* submit *)

Expired(j) == status[j] \in Terminal /\ finished[j] # Never /\ finished[j] <= clock - TTL

\* Mutant: the entry of the key goes even when a newer job owns it.
SweepAnyKey ==
    LET swept == {j \in Ids : Expired(j)}
    IN  /\ status' = [j \in Ids |-> IF j \in swept THEN "absent" ELSE status[j]]
        /\ byKey' = [k \in Keys |-> IF \E j \in swept : key[j] = k THEN NoJob ELSE byKey[k]]

\* _sweep_locked: terminal jobs past their time go, and the entry of their key
\* if it is still theirs.
Sweep ==
    LET swept == {j \in Ids : Expired(j)}
    IN  /\ status' = [j \in Ids |-> IF j \in swept THEN "absent" ELSE status[j]]
        /\ byKey' = [k \in Keys |-> IF byKey[k] \in swept /\ key[byKey[k]] = k
                                    THEN NoJob ELSE byKey[k]]

\* _dedupe_locked: j, the entry of k, answers a submission with the key k.
Duplicate(k, j) ==
    /\ k # NoKey
    /\ j # NoJob
    /\ \/ status[j] \in Live
       \/ status[j] \in Terminal /\ finished[j] # Never /\ clock - finished[j] < TTL

Entry(k) == IF k \in Keys THEN byKey[k] ELSE NoJob

\* submit takes _cv and sweeps.  The bound: ids are left for a new job.
Submit(k) ==
    /\ spc = "idle" /\ cv = "free"
    /\ nextId <= MaxJobs
    /\ cv' = "server" /\ spc' = "dedupe" /\ want' = k
    /\ Sweep
    /\ UNCHANGED <<clock, nextId, key, result, finished, queue, stopped, worker, polled,
                   seen, history>>

\* Mutant: off by one, the queue takes one job too many.
AdmitOneMore == Len(queue) <= QueueMax

Admit == Len(queue) < QueueMax

\* The rest of the critical section, which reads the clock again: the id of the
\* duplicate, BusyError, or the id of a new job.
Enqueue ==
    /\ spc = "dedupe"
    /\ spc' = "idle" /\ cv' = "free" /\ want' = NoKey
    /\ \/ /\ Duplicate(want, Entry(want)) \/ ~Admit
          /\ UNCHANGED <<nextId, fields, byKey, queue, accepted>>
       \/ /\ ~Duplicate(want, Entry(want)) /\ Admit
          /\ status' = [status EXCEPT ![nextId] = "queued"]
          /\ key' = [key EXCEPT ![nextId] = want]
          /\ byKey' = IF want = NoKey THEN byKey ELSE [byKey EXCEPT ![want] = nextId]
          /\ queue' = Append(queue, nextId)
          /\ nextId' = nextId + 1
          /\ accepted' = [accepted EXCEPT ![nextId] = clock]
          /\ UNCHANGED <<result, finished>>
    /\ UNCHANGED <<clock, stopped, worker, polled, seen, truth, late>>

-----------------------------------------------------------------------------
(* job_poll: the lookup is under _cv, the two reads of the Job are not. *)

\* An id that is not in the dictionary is answered unknown_job.
Poll(j) ==
    /\ spc = "idle" /\ cv = "free"
    /\ status[j] # "absent"
    /\ spc' = "status" /\ polled' = j
    /\ UNCHANGED <<clock, nextId, fields, byKey, queue, cv, stopped, worker, want, seen,
                   history>>

PollStatus ==
    /\ spc = "status"
    /\ seen' = status[polled]
    /\ spc' = "result"
    /\ UNCHANGED <<clock, nextId, fields, byKey, queue, cv, stopped, worker, want, polled,
                   history>>

\* The answer is the pair of seen and result[polled].
PollResult ==
    /\ spc = "result"
    /\ spc' = "idle" /\ polled' = NoJob /\ seen' = "absent"
    /\ UNCHANGED <<clock, nextId, fields, byKey, queue, cv, stopped, worker, want, history>>

-----------------------------------------------------------------------------
(* The worker: _loop and run_next. *)

\* Mutant: the loop does not look at _stopped.
LoopForever ==
    /\ wpc = "loop"
    /\ wpc' = "pick"
    /\ UNCHANGED <<clock, nextId, fields, byKey, queue, cv, stopped, cur, server, history>>

\* _loop looks at _stopped without the lock.
Loop ==
    /\ wpc = "loop"
    /\ wpc' = IF stopped THEN "dead" ELSE "pick"
    /\ UNCHANGED <<clock, nextId, fields, byKey, queue, cv, stopped, cur, server, history>>

\* Mutant: the queue is taken from its other end.
TakeLast ==
    LET j == queue[Len(queue)]
    IN  /\ queue' = SubSeq(queue, 1, Len(queue) - 1)
        /\ status' = [status EXCEPT ![j] = "running"]
        /\ cur' = j
        /\ wpc' = "run"
        /\ late' = IF stopped THEN late + 1 ELSE late

\* The critical section that takes the head of the queue.
TakeHead ==
    LET j == Head(queue)
    IN  /\ queue' = Tail(queue)
        /\ status' = [status EXCEPT ![j] = "running"]
        /\ cur' = j
        /\ wpc' = "run"
        /\ late' = IF stopped THEN late + 1 ELSE late

Pick ==
    /\ wpc = "pick" /\ cv = "free"
    /\ \/ /\ queue # <<>>
          /\ TakeHead
       \/ /\ queue = <<>>
          /\ wpc' = IF stopped THEN "loop" ELSE "wait"
          /\ UNCHANGED <<queue, status, cur, late>>
    /\ UNCHANGED <<clock, nextId, key, result, finished, byKey, cv, stopped, server,
                   accepted, truth>>

\* _cv.wait returns, on a notification or after its timeout, with _cv again;
\* with nothing to do it waits again.
Wake ==
    /\ wpc = "wait" /\ cv = "free"
    /\ \/ /\ stopped
          /\ wpc' = "loop"
          /\ UNCHANGED <<queue, status, cur, late>>
       \/ /\ ~stopped /\ queue # <<>>
          /\ TakeHead
    /\ UNCHANGED <<clock, nextId, key, result, finished, byKey, cv, stopped, server,
                   accepted, truth>>

\* Mutant: an exception of run_fn ends the worker.
RunUncaught ==
    /\ wpc = "run"
    /\ \E r \in Results : /\ truth' = [truth EXCEPT ![cur] = r]
                         /\ wpc' = IF r = "ok" THEN "result" ELSE "dead"
    /\ UNCHANGED <<clock, nextId, fields, byKey, queue, cv, stopped, cur, server, accepted,
                   late>>

\* run_fn, outside the lock: an envelope, or an exception turned into one.
Run ==
    /\ wpc = "run"
    /\ \E r \in Results : truth' = [truth EXCEPT ![cur] = r]
    /\ wpc' = "result"
    /\ UNCHANGED <<clock, nextId, fields, byKey, queue, cv, stopped, cur, server, accepted,
                   late>>

\* Mutant: the status before the result.
AssignStatusFirst(n) ==
    IF n = 2 THEN result' = [result EXCEPT ![cur] = truth[cur]] /\ UNCHANGED status
    ELSE /\ status' = [status EXCEPT ![cur] = IF truth[cur] = "ok" THEN "done" ELSE "error"]
         /\ UNCHANGED result

\* The order of the assignments that end a job: first its envelope, then its status.
Assign(n) ==
    IF n = 1 THEN result' = [result EXCEPT ![cur] = truth[cur]] /\ UNCHANGED status
    ELSE /\ status' = [status EXCEPT ![cur] = IF truth[cur] = "ok" THEN "done" ELSE "error"]
         /\ UNCHANGED result

\* They are made under _cv, but job_poll may read between them.
FinishFirst ==
    /\ wpc = "result" /\ cv = "free"
    /\ cv' = "worker"
    /\ Assign(1)
    /\ wpc' = "status"
    /\ UNCHANGED <<clock, nextId, key, finished, byKey, queue, stopped, cur, server, history>>

FinishSecond ==
    /\ wpc = "status"
    /\ Assign(2)
    /\ wpc' = "time"
    /\ UNCHANGED <<clock, nextId, key, finished, byKey, queue, cv, stopped, cur, server,
                   history>>

\* Mutant: ts_finished holds the time of expiry.
FinishTimeExpiry ==
    /\ wpc = "time"
    /\ finished' = [finished EXCEPT ![cur] = clock + TTL]
    /\ cv' = "free" /\ wpc' = "loop" /\ cur' = NoJob
    /\ UNCHANGED <<clock, nextId, status, key, result, byKey, queue, stopped, server,
                   accepted, truth, late>>

FinishTime ==
    /\ wpc = "time"
    /\ finished' = [finished EXCEPT ![cur] = clock]
    /\ cv' = "free" /\ wpc' = "loop" /\ cur' = NoJob
    /\ UNCHANGED <<clock, nextId, status, key, result, byKey, queue, stopped, server,
                   accepted, truth, late>>

-----------------------------------------------------------------------------
(* Shutdown. *)

\* stop(), from serve_forever's finally clause or from the signal handler,
\* which interrupts the server thread anywhere; _cv is reentrant.
Stop ==
    /\ ~stopped
    /\ spc # "exited"
    /\ cv # "worker"
    /\ stopped' = TRUE
    /\ UNCHANGED <<clock, nextId, fields, byKey, queue, cv, worker, server, history>>

\* The process ends after join(2.0): the worker is a daemon thread, cut where
\* it stands.
Exit ==
    /\ stopped
    /\ spc = "idle"
    /\ spc' = "exited"
    /\ wpc' = "dead"
    /\ UNCHANGED <<clock, nextId, fields, byKey, queue, cv, stopped, cur, want, polled, seen,
                   history>>

Tick ==
    /\ clock < MaxTime
    /\ clock' = clock + 1
    /\ UNCHANGED <<nextId, fields, byKey, queue, cv, stopped, worker, server, history>>

WorkerStep == Loop \/ Pick \/ Wake \/ Run \/ FinishFirst \/ FinishSecond \/ FinishTime
ServerStep == Enqueue \/ PollStatus \/ PollResult

Next ==
    \/ WorkerStep
    \/ ServerStep
    \/ \E k \in Keys \cup {NoKey} : Submit(k)
    \/ \E j \in Ids : Poll(j)
    \/ Stop \/ Exit \/ Tick

\* Threads that run keep running.  The worker contends for _cv with a server
\* that may take it again and again: a lock that is free infinitely often is
\* not taken for ever by the other thread only.
Fairness == WF_vars(ServerStep) /\ SF_vars(WorkerStep)

Spec == Init /\ [][Next]_vars /\ Fairness

-----------------------------------------------------------------------------
(* Properties. *)

\* The FIFO and the dictionary agree: what is queued is there, once, waiting,
\* in the order of submission, and never more than job_queue_max of it.  When
\* it fails the worker dies of a KeyError outside its try.
QueueAgrees ==
    /\ Len(queue) <= QueueMax
    /\ \A j \in Ids : status[j] = "queued" <=> \E i \in DOMAIN queue : queue[i] = j
    /\ \A i, l \in DOMAIN queue : i < l => queue[i] < queue[l]

\* Two jobs of one key: the later was accepted only when the earlier had ended,
\* at least the TTL before, however the sweep and the clock interleave.
NoEarlyRepeat ==
    \A i, j \in Ids :
        i < j /\ j < nextId /\ key[i] = key[j] /\ key[i] # NoKey
            => finished[i] # Never /\ accepted[j] - finished[i] >= TTL

\* An answer of job_poll that says a job has ended carries the envelope of that
\* job's run, although the status and the result are read without the lock.
PollTellsTheTruth ==
    [][spc = "result" /\ spc' = "idle" /\ seen \in Terminal
        => /\ result[polled] = truth[polled] /\ result[polled] # "none"
           /\ seen = "done" <=> result[polled] = "ok"]_vars

\* After stop() has set its flag at most one more job starts: the one the worker
\* takes when it read the flag just before.
AtMostOneLateStart == late <= 1

\* A job the daemon holds ends, unless it is told to stop.
AcceptedJobsEnd == \A j \in Ids : status[j] = "queued" ~> (finished[j] # Never \/ stopped)

\* The registry implements the job service.  A job that left the dictionary has
\* ended.
Phase(j) ==
    CASE status[j] \in Live -> status[j]
      [] status[j] \in Terminal -> "ended"
      [] status[j] = "absent" -> IF j < nextId THEN "ended" ELSE "none"
Service == INSTANCE JobService WITH phase <- [j \in Ids |-> Phase(j)], keyOf <- key
ServiceSpec == Service!JobSpec
=============================================================================
