# A TLA+ verification project for droidjig (phonectl)

droidjig drives an Android phone from a host process: a CLI and an MCP server
translate verbs into adb commands or into requests to a companion app on the
phone; a daemon keeps a warm session and runs actions and macros as jobs. What
is hard about it is not any single verb but who may touch the phone when, what
an answer means after a failure, and what a stop, a retry, a second process or a
screen that changes does in between. This directory models those parts in TLA+,
checks them with TLC, and proves the central ones with TLAPS.

Paths below are relative to the repository (`src/droidjig/...` is the Python
package, and paths without a directory are in it; `android/...` is the Kotlin
companion).

    cd tla
    tlasany ActionFunnel.tla                                   # parse
    tlc -workers 2 -config MCDaemon.cfg MCDaemon               # model-check
    tlapm ActionFunnelProofs.tla                               # check the proofs

## 1. Inventory

| component | source | state | operations | hard behaviours |
|---|---|---|---|---|
| action funnel | `runtime.py`, `ratelimit.py`, `audit.py`, `policy.py`, `risk.py`, `config.py` | thread lock, `action.lock`, `idempotency.json` and its memory copy, `ratelimit.json`, `actions.jsonl`, `STOP` | `run_action`, `engage_stop`, `clear_stop` | threads and processes that share files; failures on both sides of an input; crashes; expiry |
| job registry | `daemon/jobs.py` | FIFO, dictionary, key index, `_stopped`, one worker | `submit`, `get`, `run_next`, `stop` | unlocked reads; sweeps; a stop in every place |
| daemon server, clients | `daemon/server.py`, `rpc.py`, `client.py`, `discovery.py`, `snapshots.py`, `cli.py` | connection served, `_write_lock`, warm session, snapshot cache, `daemon.json` | ping, act, observe, find, macro_run, job_poll, macro_cancel, stop, shutdown, events_poll | one server thread, one worker; timeouts; vanished clients; a session two threads use |
| events and triggers | `daemon/events.py`, `poller.py`, `triggers.py`, `macro/limits.py`, `android/.../EventRing` | the bus (a list that only grows), cursors, keys seen, armed times, the limits' file; on the phone a ring of 200 | publish, poll, drain, step, due | publication from two threads; cursors moved before the work is done; restarts of either end |
| macro engine | `macro/engine.py`, `conditions.py`, `variables.py` | scopes, run state, Python's stack | if, switch, loops, retry, try, stop, confirm, actions | retry after a failure behind the input; `_Stop` through nested handlers |
| autonomy | `macro/autonomy.py` | a JSONL ledger | grant, revoke, `live_grants`, `decide` | expiry; torn lines; an append during a run |
| transport and registry | `providers/transport.py`, `providers/registry.py`, `providers/accessibility.py`, `trust.py` | the kept connection, the ping cache, the last generation | request, ping, delegate, companion_stopped | resend, late answers, fall-through after an ambiguous failure |
| companion | `android/.../transport`, `state`, `accessibility` | STOP flag, tree generation, event ring | dispatch, guards, handlers, publish | framework events against requests; deaths; idle connections |
| observation and actuation | `observer.py`, `actuator.py`, `session.py`, `connection.py`, `adb_backend.py` | `session.last`, the address of the phone, the adb connection | observe, the verbs, ensure, rediscover | a phone that moves; a screen that changes or locks between any two commands |
| screen parsing | `ui_parser.py`, `session.py` | the snapshot's elements and relations | parse, relate, find, extract a form | two numberings of the same nodes; callers with and without relations |
| companion setup | `companion_setup.py` | `config.json`; on the phone package, token, setting, server | six steps, each skipped when done | failure or interruption between steps; what was lost since |
| state files | `state.py` | JSON files and JSONL ledgers | read, atomic replacement, append | torn writes |
| front ends, diagnostics, redaction, macro memory | `mcp_server.py`, `setup.py`, ... | none of their own, or best-effort statistics | prompts, formatting, pairing | none a model checker reaches |

How they interact. A front end asks the daemon when a ping finds one, else it
runs the verb in its own process; either way every input goes through
`run_action`, whose locks (`_action_lock` per process, a flock on `action.lock`
across processes) are the only thing that all the paths share. In the daemon,
the server thread turns act, observe, find and macro_run into jobs; the worker
runs each under `_write_lock`, which the server takes for the other mutating
requests; events_poll alone runs macros on the server thread, outside
`_write_lock`. All of them use one warm session. `run_action` reads the `STOP`
file and the companion's flag, and keeps its promises in files that any process
of the same home may write. Below it, an observation or an input goes to the
companion over one kept connection and, when that fails, to adb at an address
that is looked for again whenever the phone has moved.

What makes each part correct:

- funnel: one writer at a time; a call that is busy, unconfirmed, over its rate, a
  dry run or blocked injected nothing, an ok was counted and logged, or repeats one
  that was; a rate limit holds over all processes; STOP admits no call that had not
  passed its test; a replayed envelope is a genuine one, and a repeated key does
  not inject again;
- registry: an accepted job runs exactly once, in order, and ends; a pending key
  is accepted once; an answer "done" carries the result;
- daemon: a job acts on the screen it was judged on; a handled stop is a barrier;
  every request is answered or the daemon goes away;
- events: every event is taken once, in order; limits and intervals hold
  whatever restarts; a notification that stays is seen;
- macros: an unattended action has a grant that is neither revoked nor expired;
  a failure is never lost in a handler; a keyed input goes in once; runs end;
- transport: an answer belongs to its request; the companion acts at most once
  per call; a refusal is final and STOP on the phone is honoured on every way;
- screen: a pinned input hits what its caller saw; a locked phone is left alone;
  the search for the phone gives up only when nothing leads to it;
- parsing: an index means the same node in list, relations, answer and form;
- setup: running it again repairs whatever an earlier run has left, and what else
  is on stays on.

## 2. Plan

Order: what is shared by every path first, then what composes it. Every module
of the plan is written:

1. `ActionFunnel`, with `ActionFunnelProofs`;
2. `JobService`, the abstract specification of the registry, and `JobRegistry`,
   which implements it, with `JobRegistryProofs`;
3. `Daemon`, which composes `JobService`, the funnel's steps as other threads see
   them, and the clients, with `DaemonProofs`;
4. `EventTriggers`: bus, poller, triggers, limits and scheduler in one handler,
   with `EventTriggersProofs`;
5. `MacroEngine`: the interpreter, the ledger of grants and the gate, with
   `MacroEngineProofs`;
6. `CompanionLink`: registry, transport and dispatcher over one phone, with
   `CompanionLinkProofs`;
7. `AdbLink` and `ScreenActions`, which extends it: one command from `ensure` to
   its envelope, with `ScreenProofs`;
8. `UiTree`, pure algorithms against a reference definition over every small tree,
   also with `ScreenProofs`;
9. `CompanionSetup`, steps that must survive each other's failure, with
   `CompanionSetupProofs`.

Every safety property and every action property that a run checks is proved;
section 5 says why liveness stays with TLC.

## 3. Modules

### ActionFunnel (`runtime.py` and what it calls)

Callers are threads of processes; `ProcOf` says which. One action is the code
between two points where another thread, another process or the phone can be
observed, so the places in `pc` follow `run_action` line by line:

| place | code | action |
|---|---|---|
| idle | `run_action` 154-165, lookup in memory | `Start` |
| disk | `_idempotency_lookup` 41-47 | `LookupDisk` |
| gate, ask | `kill_switch`, mode | `Gate`, `AskCompanion` |
| thread, flock | `_action_lock`, `_acquire_file_lock` | `AcquireThreadLock`, `AcquireFileLock` |
| observe, decide | build, ensure, observe; `policy.explain` | `Observe`, `Decide` |
| rate | prune and check | `RateCheck` |
| halt | the test of STOP in `scroll_until`'s loop | `Halt` |
| fn, reobserve | the two halves of `fn`, before and behind an input | `Input`, `Reobserve` |
| save, log | `_save_rate`, `log_action` | `SaveRate`, `LogOk` |
| release | the finally clause | `Release` |
| store, write | `_idempotency_store`, its read and its write | `Store`, `Write` |

Files are variables (`disk`, `rate`, `audited`, `stop`), because `write_json`
replaces a file atomically and readers see one version. Each step that can fail
does so nondeterministically, with an envelope (a DroidjigError) or with an
exception that leaves `run_action` before the envelope is cached. The screen is the
set of signals that `risk.classify` finds on it; `Classify` takes the worst of them
and of those of the call itself. `fn` is the verb's function. Most inject once and
observe; a search (`Searches`) goes round: STOP, look, scroll, until it has found
what it looked for, may scroll no more or is halted. Either half of `fn` may fail
with any code (`Failures`, and "stopped" of `Halt`), so a call that ends "stopped",
"guarded_action" or with an error may have scrolls or a tap in; and an input may be
lost on the way without a word, because adb's return code is not looked at. What
`EnvelopeTellsTheTruth` says is what remains true on all these paths.
`Die` is the death of a process in any place.
`inputs`, `counted`, `returned`, `owed` and the other history variables record
what happened and what was promised; no guard reads them. A rate record carries
the id of the call it counts, which the file does not have: it keeps two records
of the same tick apart in a set.

### JobService and JobRegistry (`daemon/jobs.py`)

`JobService` is the promise: accepted ids get a phase, begin one at a time in
order, end, and a key with a pending job is not accepted again. `JobRegistry`
is the code: two threads, `_cv`, the sweep and the duplicate check of `submit`
(two readings of the clock in one critical section, hence two actions with `_cv`
held), the assignments that end a job one by one because `job_poll` reads
without `_cv`, `_loop`'s unlocked reading of `_stopped`, `stop` from the signal
handler anywhere, and the exit that cuts the worker. The property `ServiceSpec`
is the refinement; its mapping derives `phase` from the dictionary, the worker's
place and the ids handed out.

### Daemon (`daemon/`, `cli.py`)

The server thread's places are accept, read, handle, macros (inside
events_poll), leaving and down; the worker's those of `_loop`, `run_next` and
`_run_job`; `fpc` is each thread's place inside `run_action`, reduced to gate,
observe, inject and after. `WriteLocked` is `_write_lock`, derived from the
worker's place. A connection has at most one unread line and one unread answer;
closing with an unread answer resets it, and the reset is an exception that
leaves `serve_forever` through its finally clause: the daemon shuts down.
`Discover` to `LateClose` are `discovery.discover`, `_dispatch`,
`DaemonClient.call` and `submit_and_wait` with their timeouts. The registry is
`JobService` with no keys. `judged` is a history variable: per thread, whether
`session.last` is still the observation its policy decision was made on.

### EventTriggers (`daemon/events.py`, `poller.py`, `triggers.py`, `macro/limits.py`)

All of it runs inside the handler of events_poll, on the server's thread;
`server.at` is the handler's place (ui, notes, match, run, due, duerun) and `todo`
what it holds. `EventBus.publish` is two steps on each of two threads, the number
and the append (`Take`, `AppendHeld`), because the counter and the list are not
one critical section: the worker's append may come after a higher number's. The
cursors move where the code moves them: `poller.cursor` before the notifications
are read, `cursor` before the macros are listed. `CompanionRestarts` empties the
ring and starts its numbers again while `poller.cursor` stays; `DaemonRestarts`
loses everything but `macro_runs_history.json`. `Engine.run` is one step that
returns or raises: `MacroEngine` has its inside. `history` is that file as a set of
runs with their times; the number of the run, which the file does not have, keeps two
of a tick apart. A list comprehension that filters is `Picked`: the items at the
`Place`s that pass, in their order.

### MacroEngine (`macro/engine.py`, `macro/autonomy.py`)

Python's recursion is a stack of frames (`run.frames`, innermost first): a list of
steps, a loop, a retry, a try. `_Stop` is `stopping`, which `Unwind` carries
through the frames that do not catch it; `RetryJudges` and `TryEnds` are the two
that do. An exception of any other kind ends the run (`Raise`). `ledger` is what
can be read of `autonomy.jsonl`; a torn line swallows the line appended after it.
`GateRisk` is what `risk.classify` makes of the gate's call, "low" in every case.
`run_action` is one step with its outcomes and the cache of its envelopes, which
keeps failures too. A document is nested steps; `Blocks` are the lists of steps in
the documents and their remainders, and `DocumentAssumption` says that `Steps`, what
`schema.py` lets through, has its nested lists among them. `max_attempts` is not
validated: a retry with none does nothing. Variables and conditions are outcomes (holds, fails, raises).

### CompanionLink (`providers/transport.py`, `registry.py`, `accessibility.py`, `trust.py`; `android/.../transport`)

One call passes the stages check (`companion_stopped`), scan (the liveness ping,
from its cache or not), companion and adb, each of the first three a request of
its own over `SocketTransport`. `StartRequest` is the checkout of the connection
and the send, under `lock`; `ReadOwn`, `ReadNothing` and `TimeOut` are the three
ends of a read. `poisoned` says that a timeout has been raised from the kept
connection's file object, which never reads again; `Hang` closes, and what the
phone has already received on a closed connection it still performs (requests that
put nothing in are dropped with it when nothing else is there: their answers could
not be sent). On the
phone each connection is a thread (`doing`, `mark`): the STOP test, then the
handler with its reading of the generation and its action as separate steps.

### AdbLink and ScreenActions (`connection.py`, `observer.py`, `actuator.py`, `session.py`)

`AdbLink` is `ensure` and `rediscover`, one trial of an address per step, with a
phone that moves between trials; `serial` and `saved` change with each trial, as
`connect` writes them. `ScreenActions` extends it with one command: the
observation in its two halves (the tree, the window's lines) with its retries,
`_check_stale` and the second look, the resolution against `session.last`, the
input (lost without notice on a dead link), and the loops of `scroll_until` and
`wait_for`. The screen, its lock, the address and STOP change between any two
of these steps. A screen is a few nodes with text, place and clickability, enough
to tell an element from another of the same text and a list of elements from its
neighbour by an index.

### UiTree (`ui_parser.py`, `session.py`)

Here the definitions are the algorithms, as recursive functions, and the
properties compare them with the containment of nodes in the dump. Document order
is a sequence, so a recursion over the tree is one over positions: `Around`, the
counter and what `visit` hands down each look at an earlier node only.
`ParseElements` and `IterTree` number the meaningful nodes independently;
`MatchSelector`, `Nth`, `Label` and `ExtractForm` look things up by those
numbers. The actions are the callers, which differ in asking for relations.

### CompanionSetup (`companion_setup.py`)

The command's place follows the six steps; `run.cfg` is the configuration as it
was read when the command began, and `Save` writes all of it. The phone's package,
token, accessibility setting and server change by the steps, by the owner and by
Android. `flaky` is a link on which adb fails: only the install looks at a return
code, so what is asked for may read as absent (`Printed`, and the disjuncts with
`flaky` of the steps) and what is written or sent may be lost (`Unreached`).
`misread` records that the reading of the accessibility setting was such a one,
`fits` that the hash on file was that of the phone's package when the run began,
`broken` that the host's token is not the companion's.

`MC*` modules only give constants values. A definition whose comment starts with
"Mutant:" is a plausible bug of the definition after it; it is used by no
specification and serves to show that the property it is paired with can fail.

## 4. Runs

| run | instance | checks |
|---|---|---|
| funnel_interleaving | 3 callers in 2 processes, 2 calls (a tap or a search), 1 crash, 1 stop, companion, 3 screens (allowed, to confirm, denied), clock stopped | `TypeOK`, `SingleWriter`, `EnvelopeTellsTheTruth`, `StopAdmitsNoNewCall` |
| funnel_time | 2 processes, 3 calls of a high-risk verb, clock 0..2, window 1, TTL 2 | `RateLimitHolds`, `CachedEnvelopesAreGenuine`, `ReplayInProcess` |
| job_registry | 3 jobs, queue of 2, one key or none, TTL 1, clock 0..2 | `TypeOK`, `QueueAgrees`, `NoEarlyRepeat`, `PollTellsTheTruth`, `AtMostOneLateStart`, `ServiceSpec`, `AcceptedJobsEnd` |
| daemon | 2 clients (one has the daemon's address, one discovers it), 3 connections, 2 jobs, 1 poll each, 1 user event | `JobsActOnWhatTheyJudged`, `StopIsABarrier`, `RequestsAnswered` |
| event_triggers | 3 macros (hourly limit, cooldown, schedule), 1 notification, batches of 2, ring of 1, 1 event of the worker, 2 UI events, 1 upset, clock 1..2, hour and cooldown of 1 | `LimitsHold`, `EventsTakenOnce`, `ScheduleKeepsInterval`, `NotesReachTheManager` |
| macro_engine | 4 documents, 1 run, lists of at most 2, 3 ledger lines, clock 0..1 | `TypeOK`, `GrantCoversUnattended`, `FailuresCount`, `KeyedInputGoesInOnce`, `RunsEnd` |
| companion_link | 2 calls (look, text, node) at once, 2 connections, 1 change of the tree, 1 death, 1 STOP | `CompanionActsOnce`, `RefusalIsFinal`, `StopHonoured`, `OnlyOwnAnswersArrive`, `NodeActsOnTreeSeen`, `CallsEnd` |
| screen_actions | 1 command of 7 verbs, 3 screens, 3 addresses, 1 move, 1 change or lock, 2 attempts, 2 scrolls | `GivesUpOnlyWhenGone`, `PinnedInputHitsWhatWasSeen`, `LockedPhoneIsLeftAlone`, `OneScrollAfterStop`, `CommandsEnd` |
| ui_tree | every tree of up to 4 nodes, 3 texts, up to 2 fields, 5 selectors | `IndicesMeanNodes` |
| companion_setup | 3 builds, 3 runs, 3 upsets (a link that fails among them), 3 tokens, 3 polls, a server that needs 2 | `RerunsRepair`, `OthersStayOn` |
| viol_pin, viol_double | the smallest instances that show it | what a document says and the code does not do, section 7 |

Deadlock is not checked: every instance stops when its bounded calls, jobs,
connections, commands or runs are used up.

Why these bounds are enough. The funnel's hazards are pairs: two calls of one
process meet at the thread lock, two of different processes at the flock and at
the files, so 3 callers in 2 processes give both kinds of pair; a third call is
needed only to profit from what two have done to a file, and `funnel_time` has
three. Time matters at a window's and a TTL's edge, so both are one or two ticks
and the clock runs past them. Crashes and stops act at any place, and one of each
already meets every place. In the registry a queue of two with three jobs is full,
emptied and refilled, and a key's job can be swept and submitted again while a
newer job has the key. In the daemon one client's job, connection or timeout
stands in the way of the other's ping, call or stop; two jobs let one run while
another waits; the one user event may be STOP by hand, its removal, or Ctrl-C.
The second app, which only the pinned snapshot tells apart, is in `viol_pin`.

On the bus a reordering takes one event of each thread, and a batch of 2 with
more events than that is full; a ring of 1 overflows at the second UI event; an
hour and a cooldown of 1 are met at their edge on the clock's two ticks: a second
run in the same tick is refused, one in the next has exactly the difference that
allows it. What lies further apart is left to the proof. The macro documents
nest every handler in another, once with a retry inside a try and once the
reverse, and loops twice around both; three lines hold a grant, a torn line and a
revocation. On the link two calls contend for the lock and the kept connection,
the second connection is the resend's, and each call is a request per stage: one
death, stop and change of the tree already fall between any two of them. A
screen's command looks twice at most at what it judges, so one change before,
between or after is every case; two scrolls tell "before every scroll" from
"before the loop". Four nodes make a field, its label, a parent that says
nothing and a sibling of the same text. Three setups are a failed one, a repair
and the one after it; three upsets let a link fail, another service be switched and a
run be interrupted in one behaviour.

Fairness. Only what the code's scheduling gives. Funnel: weak fairness of each
caller's steps (a thread that runs goes on; neither lock blocks). Registry: weak
fairness of the server's own steps; strong fairness of the worker, which
contends for `_cv` with a server that may take it again and again between. No
fairness of clients, the clock or stop. Daemon: weak fairness of each thread and
of each client's steps (it reads an answer, and every wait of a client has a
timeout). The server's wait for `_write_lock` needs no strong fairness here
because jobs are bounded; `threading.Lock` promises none, so an unbounded stream
of jobs is outside what `RequestsAnswered` claims. Timeouts may fire when the
server is busy, and must only when the connection is lost. Events: weak fairness
of the polling client and the handler (`phone_events` and `droidjig events` poll
in a loop), and strong fairness of `DrainNotes`, that is, a provider that is asked
again and again answers some time; without it the notifications could fail in
every poll. A source of UI events that raises (`poller.py:16`) ends its poll before
anything has changed, which is a stuttering step; the fairness of the poll is thus
also an assumption that this source answers some time. Macro engine: weak fairness of the interpreter. Companion link: weak
fairness of the host's steps only, which include the socket's timeout: the phone
owes nothing. Screen: weak fairness of the command's steps and of the deadline
(time passes); the phone, its owner and the link owe nothing.

## 5. Proofs

`ActionFunnelProofs` proves, for all values of the constants that satisfy
`ConstantsAssumption` and `NoEntryAssumption` (any number of processes, threads,
keys, calls, crashes, stops, any limits and window):

- `TypeCorrect`: `Spec => [](TypeOK /\ CallInv)`. `TypeOK` is not inductive alone: `rid[c]` indexes
  `outcome`, so the strengthening says that a call that runs has a request id,
  and past the body an outcome.
- `SingleWriterAlways`: `Spec => []SingleWriter`. The conjunct about the thread
  lock is what makes "the flock is held exactly by the call in the critical
  section" inductive: `Release` clears the flock unconditionally, which is
  harmless only because the releasing call holds it.
- `RateLimitsEnforced`: `Spec => [](RateLimitHolds /\ NoRateRecordLost)`. The
  argument: the flock makes the prune, check and save of one call exclusive, so
  `hist` of the call between check and save is still the file's content in the
  window (this needs `SingleWriter`); a bucket's records in any window that ends
  now are among those counted at the check; and a window that ended earlier
  cannot change.
- `StopAdmitsNothingNew`: the action property `StopAdmitsNoNewCall`. Its
  invariant: while STOP is in force at a source, every call past that source's
  test is in `grace`. For the STOP file a search is past it only between the test
  of one round and the scroll of that round.

The second half of `ActionFunnelProofs` proves, for the same constants, what an
envelope says and what a replay repeats. It first sorts the sixteen steps of a call into shapes
(before `fn`; in `fn` and behind it; the end of the body, the finally clause, a
replay from the file, the two halves of the store), and each invariant has one
lemma per shape:

- `EnvelopesTellTheTruth`: `Spec => []EnvelopeTellsTheTruth`. `EnvInv` says that no
  two running calls have the same request id, that a call before the end of its
  body has no envelope, that before `fn` it has no input either, and that at the
  log line it is counted: the code of an envelope says something only because of
  where the call stood when it got it, and in `fn` no failure has the code of a
  refusal (`NoFailureRefuses`). The last conjunct is `OkInv`: an ok without a line
  was a replay, and the call it repeats was logged; it needs `CachesInv`, because a
  replay of a replay leads back to the log through the caches.
- `CachesAreGenuine`: `Spec => []CachedEnvelopesAreGenuine`. `CachesInv` asks the same of
  the copy of the file that a call holds between the read and the write of
  `idempotency.json`, which replaces the whole file; an envelope once given never
  changes, and the next request id has none.
- `ReplaysHoldInProcess`: `Spec => []ReplayInProcess`. `ReplayInv`: what was returned less
  than a TTL ago is in the memory of the process, or something younger is. Three
  conjuncts carry it: a call between its two lookups has dropped only an entry
  that was due (so the older entry it may copy from the file harms nothing), a
  call that has stored its envelope and not returned it is already covered, and
  calls of one key that overlap have voided the promise.

`JobRegistryProofs` proves all the registry's safety for all values that satisfy
`JobConstants` (any keys, queue size, TTL, number of jobs and length of time):
`RegistryTypes`, `QueueAlwaysAgrees`, `KeysAreNotRepeated`, `StopIsPrompt` and
`PollsAreTruthful` (the run's `TypeOK`, `QueueAgrees`, `NoEarlyRepeat`,
`AtMostOneLateStart` and `PollTellsTheTruth`), and `RegistryImplementsService`,
the refinement `ServiceSpec`. They share one inductive invariant, `IInv`, which
adds to the properties:

- `PlacesInv`: a place that uses a job has one, and `_cv` is held where the code
  holds it;
- `RunInv`: only the worker's job runs, and a job has ended without its finishing
  time only inside the worker's last critical section, or when the process ended
  there. The sweep, which reads the finishing time, cannot run in between;
- `FreshInv`: ids not handed out are in no queue, have no status and no time;
- `KeyInv`: a job with a key is its key's entry in `_by_idem`, or ended the TTL
  ago. This is the whole of `NoEarlyRepeat`: a sweep that deletes the wrong entry,
  or a submission that overwrites a live one, breaks it;
- `ResultInv`: what `job_poll` has read of a job is final although it reads
  without `_cv`, because the worker assigns the result before the status;
- `LateInv`: once a job has started after stop, the worker cannot reach the queue.

The refinement is one lemma per kind of step: a submission that sweeps changes no
phase, because a job that left the dictionary counts as ended; an accepted job
takes the next id and finds no pending job of its key (by `KeyInv`); the worker
takes the least queued id (by `QueueAgrees`); everything else stutters.
`JobService` has no fairness, so the whole of `ServiceSpec` is proved.

`MacroEngineProofs` proves, for every set of documents, keys and lengths of
ledger, run and time that satisfies `EngineAssumption`:

- `GrantsCoverUnattended`: `Spec => []GrantCoversUnattended`. Its strengthening,
  `LedgerInv`, says that every grant the replay of the readable lines finds live is
  one its owner still believes in, or one whose revocation was glued to a torn
  line: an appended revocation removes from `LiveGrants` at least what its owner
  withdraws, whichever of id and macro it names.
- `FailuresAlwaysCount`: `Spec => []FailuresCount`. `FailureInv` says that an
  unhandled failure means that the stack is unwinding, so no action is ready, and
  that a failure no retry began anew shows in `ok`; a retry that begins anew forgets
  both together.
- `KeyedInputsGoInOnce`: `Spec => []KeyedInputGoesInOnce`. `CacheInv`: a key whose
  input went in during this run has an envelope, unless the run has ended by an
  exception; and only a key without one injects.
- `EngineTypes`: `Spec => []TypeOK`, from `DocumentAssumption`. A type of nested
  documents would be a recursive set; that `Blocks` is closed under "the list in a
  step" and "the rest of a list" is all that the stack needs (`StackInv`). A retry
  stays on it with an attempt left because `RetryJudges` counts down only before the
  last; `BookInv` has the numbers of the ledger's lines and the codes of the cache.

The first three use no type of documents: `Shape` says what they need of a run, so
they hold of documents the validator would refuse.

`EventTriggersProofs` proves, for any macros with any cooldowns, limits and intervals,
any batches, rings, restarts and lengths of time that satisfy `TriggerAssumption`:

- lemmas about filters: `Place(idx, n)` is the n-th smallest of `idx`, it grows with
  `n` and reaches every member (`PlaceIs`, `PlacesGrow`, `EveryPlace`), which is what
  "in their order" means wherever a list is filtered;
- `LimitsAlwaysHold` (`LimitsHold`). `LimitsInv`: the file is a subset of the macro's
  runs that has the last one and every run of the last hour, and runs are in order of
  time. A firing prunes what is older than the hour and must not prune what a
  cooldown longer than the hour still needs: the last run is written after the
  pruning, and only the last counts. The hour that begins at any run is then
  counted: those of its runs before the new one are all on file, fewer than `per_hour`;
- `EventsAreTakenOnce` (`EventsTakenOnce`). `BusInv`: numbers are different, and an
  event has at most one lower number behind it, because only one other thread can
  hold a number meanwhile. A batch is what lies above the cursor up to its last
  event's place (`BatchIs`). `CursorInv`: what was taken and lies above the cursor
  stands before a lower one that the cursor has reached. So an event is taken a
  second time only behind such a pair, and then the next batch ends at another event,
  above it; and what a batch passes over stands behind its last event;
- `SchedulesKeepIntervals` (`ScheduleKeepsInterval`). `ArmedInv`: an armed time is an
  interval behind every run that returned, and the time of the poll under way is not
  before any; a restart disarms, and a macro that is not armed is armed for later,
  not run;
- `NumbersFit`: `Spec => []TypeOK`, from the same invariants.

`DaemonProofs` proves, for any clients, connections, jobs, macros' lengths and
snapshots that satisfy `DaemonConstants`:

- `LocksAlwaysHold`: `Spec => []LockInv`, which is inductive by itself. A thread has
  the thread lock exactly in the places of `run_action` between acquisition and
  release; the worker is there only under the write lock, the server thread only
  for a triggered macro; `judged` of the worker holds at its input; and behind a
  handled stop nobody is inside.
- `JobsActOnWhatTheyJudgedAlways` and `StopBarsInputs`, the properties
  `JobsActOnWhatTheyJudged` and `StopIsABarrier`, follow from it. The one step that
  could break the first is an observation by the other thread, and that needs the
  thread lock the worker holds; what the server thread does *outside* `run_action`
  to the warm session is under the write lock.
- `DaemonTypes`: `Spec => []TypeOK`. The types need an argument twice: a poll is
  counted per connection, so no two clients may have the same; and the length of
  the snapshot cache is bounded by the jobs started (a cardinality that grows with
  each start, `SnapInv`).
- `DaemonServesJobs`: the composed daemon, with vanished clients, resets, timeouts and a
  server that leaves, implements `JobService`. `JobInv` carries it: the job in hand is
  the only one that runs.

`CompanionSetupProofs` proves, for any builds, tokens, numbers of polls and of runs
that satisfy `SetupConstants`, `RerunsAlwaysRepair` (`RerunsRepair`) and
`OthersAlwaysStayOn` (the action property `OthersStayOn`). The strengthening of
the first: while the host has not been left with an old token, all three copies
of the token (phone, file, memory of the command) agree; an undisturbed run polls
as often as the server still needs (`server + run.polls <= Delay`, and `Delay <
Attempts`); from the token on the service is on; and when it verifies, the file
holds what the memory does. Only the last makes "the answer ok" mean that the
*next* command, which reads the file, reaches the phone. `HashInv` has the package:
when the hash on file was the phone's at the start, the step install leaves the APK
of the command. The second theorem needs `ReadInv`: what is about to be written
back is still true of the other service, unless its owner has switched it or the
reading failed. The two exceptions are those of `InstalledAsAsked` and
`ExistingPreserved`, which do not hold.

`ScreenProofs` proves, for any screens, addresses, numbers of attempts and of
scrolls:

- `GivesUpOnlyOnTheGone` (`GivesUpOnlyWhenGone`): `LinkInv` says of each place of
  `ensure` which addresses have been tried by then, unless the phone strayed;
- `PinnedInputsHit` (`PinnedInputHitsWhatWasSeen`): `PinInv` says that from the
  comparison of the hashes to the input the last observation is the compared one,
  whatever the screen has done; equal hashes name the same texts and places, which
  is all of `Hash` and `Elements` that the proof needs;
- `LockedPhonesAreLeftAlone` (`LockedPhoneIsLeftAlone`): a link that held keeps
  `ensure` out of rediscovery, so the first observation sees the lock; it ends the
  command, in whichever half it sees it;
- `StopEndsScrolling` (`OneScrollAfterStop`): once one scroll is late, the loop's
  way leads through the test of STOP before another.

It also proves `IndicesNameNodes` (`IndicesMeanNodes` of `UiTree`), for any dump
that an XML document can be, any texts and any selectors that satisfy
`TreeConstants`. The state invariant is short: the snapshot's list and relations
are what the parsers return for the dump, and an answer is what `match_selector` or
`extract_form` returns for them (`TreeInv`). The argument is about the parsers, and
it is an induction over the positions in a dump:

- `LeastNatural` gives induction without an operator for a parameter: the set of
  numbers that fail has a least member, because `<` is well-founded. `Induction` and
  `RecursionExists` (a recursion on smaller numbers has a solution) come from it,
  and with the second each recursive function of `UiTree` satisfies its own equation
  (`AroundUnfolds`, `CounterUnfolds`, `HandedUnfolds`, `ElsUnfolds`,
  `AncestorsUnfold`).
- Either counter counts the nodes before a place that say something
  (`CounterCounts`, `ElementsAreNodes`), so an index names one place and both grow
  together (`IdsAreNames`); what is handed to a node is the index of the innermost
  one around it (`HandedIsInnermost`); the walk over parents passes all that is
  around, inside out (`AncestorsAreOutside`).
- The sort's rank is a bijection (`OrderRanks`, for any finite ordered set), and its
  key orders admitted elements as the reference orders their places
  (`SortedAsOnScreen`), which carries `nth_match` too (`FindNamesThem`).

`CompanionLinkProofs` proves all the safety of `CompanionLink` for any calls,
connections, deaths, changes of the tree and engagements of STOP that satisfy
`LinkConstants`. It first reduces each step to its effect on a few fields: the host
sends a request or ends one while connections only lose what they hold
(`Sending`, `Ending`, `Less`); on the phone one connection takes, refuses, marks or
answers a request. The invariants are about these:

- `AnswersAreOwn` (`OnlyOwnAnswersArrive`). `LineInv`: one call waits at a time,
  the holder of the lock; a connection that can be read carries at most that
  call's request, in one of its three places, and a connection kept for the next
  call is quiet. A timeout leaves late answers on the kept connection; that it can
  never be read again is what saves the conjunct.
- `NodesAreActedOnAsSeen` (the action property `NodeActsOnTreeSeen`). `TreeInv`: what an
  observation says is true of its time, its generation is at most the number of
  changes since its process started, and a handler's mark is a generation of the
  running process. Hence an equal generation of the same process is an equal tree.
- `CompanionNeverActsTwice` (`CompanionActsOnce`) and `RefusalsAreFinal`
  (`RefusalIsFinal`). `TokenInv`: an input is a token. It is with the host, or in one
  place of one connection, or done; an answer to it comes after it and a refusal
  instead of it. The only rule that makes a second token is the resend, and
  `MayResend` admits only requests that put nothing in.
- `StopIsHonoured` (`StopHonoured`). `StopInv`: a call made under STOP has asked or
  was refused, nothing on any connection says that STOP is off in answer to *its*
  question, and its input is nowhere. An idle call has nothing on any connection:
  without that an old answer could permit a new call.

Each theorem is laid out as initial state, one step per action, then the temporal
conclusion. What is model-checked only, and why:

- the liveness properties (`AcceptedJobsEnd`, `RequestsAnswered`,
  `NotesReachTheManager`, `RunsEnd`, `CallsEnd`, `CommandsEnd`): fairness is out of
  the installed provers' reach.

## 6. Not modelled, and why

- Funnel: `fcntl` absent (not on Linux or Termux); the clock stepping back; log
  levels other than the default; redaction, export and purge of the log; how a
  signal is found in a screen's text (the model chooses a set of signals;
  `Classify` makes a level of them and of the call, as `risk.classify` does).
- Registry: two servers (one process has one). A run function that never returns:
  then nothing behind it ends, and no document claims otherwise.
- Daemon: the token check, read-only methods, and macro_enable and memory requests
  (stores of their own); idempotency keys of jobs (in `JobRegistry`); run records;
  an observation that is reused within `action_observe_ttl` (`Reuse`, off by
  default, is in the module and off in the run); more than one action of a macro,
  in the run; an answer that arrives before its request timed out and is found
  later by the next request on the same connection.
- Events: what an event carries besides its type and key; the parsing of triggers;
  the conditions of a document (an outcome here).
- Macro engine: the expiry of a cached envelope (`idempotency_ttl`, 300 s): what
  `KeyedInputGoesInOnce` says, it says of runs that end within it; variables,
  templates, the evaluation of conditions, validation and the text of run records:
  data that only decides which branch is taken, and the model takes every branch.
- Companion: the token check, guarded packages, capability toggles
  (`GatedProvider`), password nodes, the providers with no conversation of their
  own (packages, intents, clipboard, OCR, Termux), the Android lifecycle and the
  settings screens.
- Screen: a second command after the first, which a failed rediscovery leaves an
  address that was never the phone's (`connection.py:28`); swipe, drag, fling,
  type and key differ in their adb command only; the second adb of the host shim;
  XML and dumpsys parsing; the redaction of forms.
- Setup: the grant of notifications, which cannot fail and which nothing reads;
  `push_token` and the status command.
- Macro memory is best-effort statistics that nothing depends on; the pairing
  wizard, diagnostics, OCR and the envelopes of the MCP server are I/O and
  formatting.

## 7. Divergences: where documents and code disagree

Two sentences of the documents are checked as properties and violated; each is
a run whose counterexample is short enough to read.

| run | the document | the code |
|---|---|---|
| viol_pin | `docs/daemon.md:96`, a changed foreground app is refused as stale | the cache is compared with itself (`server.py:299`) |
| viol_double | `docs/configuration.md:202`, gestures and `set_text` are never blindly replayed when an answer is lost | a companion that performed the tap and answered late times out, and the registry gives the same tap to ADB (`registry.py:98`) |

Six more sentences are stated as definitions and refuted by configurations of their
own, which `PROJECT.json` does not list among the runs; each takes TLC a minute at most.

| configuration, module | definition, and what says so | the code |
|---|---|---|
| `ViolReplay.cfg`, `MCActionFunnel` | `ReplayAcrossProcesses`; `docs/safety.md:48`, deduplication holds across one-shot invocations | two processes store at once: both read `idempotency.json`, one writes, the other writes what it read with its own entry added (`runtime.py:53`); a third call with the lost key injects |
| `ViolOverlap.cfg`, `MCActionFunnel` | `KeyExecutesOnce`; `docs/safety.md:48`, a repeated key replays the first envelope instead of executing the action again | the lookup is before the locks and the store after them (`runtime.py:157`): a call that looked before the first one stored executes behind it |
| `ViolAudit.cfg`, `MCActionFunnel` | `EveryInputAudited`; `docs/safety.md:35`, every executed action is appended to the log | the input lands and the observation behind it fails: the exception passes the rate record and the log line (`runtime.py:314`) |
| `ViolNode.cfg`, `MCCompanionLink` | `NodeBoundToItsObservation`; `docs/providers.md:87`, node ids are bound to the observation they came from, and a changed tree is refused | the request carries the generation of the provider's last observation (`providers/accessibility.py:76`), which another thread has made since, of the new tree |
| `ViolServices.cfg`, `MCCompanionSetup` | `ExistingPreserved`; `tests/test_companion_setup.py:115`, "existing entry preserved", and `docs/providers.md:110`, re-running is safe | a reading of the setting that fails is an empty list (`companion_setup.py:72`), and the companion alone is written back: the other service is off |
| `ViolInstalled.cfg`, `MCCompanionSetup` | `InstalledAsAsked`; `docs/design/2026-07-02-droidjig-companion-startup-design.md:108`, skipped when the installed hash is the APK's | an interruption between an install and the next save leaves the earlier hash on file (`companion_setup.py:52`, `61`): a run for the earlier APK ends ok with the other build on the phone |

Of the following the counterexamples are given in words; where a definition states
the document's sentence, it is named.

- `CancelIsHeard` (Daemon; `docs/macros.md:191`, macro_cancel cancels an in-flight
  run). macro_cancel waits for the lock the run holds, and its table of tokens is
  never filled (`server.py:171`): the answer is always not_found.
- `CommandsGoThroughTheDaemon` (Daemon; `docs/daemon.md:27`, every command routes
  through a running daemon). The ping has one second (`cli.py:70`); a daemon that
  serves another connection misses it and the command runs beside it.
- A `confirm` step waits for its user and `--yes` skips it (`docs/macros.md:153`,
  `171`): nobody passes `Engine` a confirmation (`engine.py:26`), so the step always
  ends the run. `stop` ends the macro at once (`docs/macros.md:156`): inside
  a try or a retry the handler takes its `_Stop` for one of its own.
- The gate classifies every action of a macro as low risk (`macro/engine.py:47`),
  so a grant's level is never looked at.
- A line of the ledger that is glued to a torn one cannot be read (`state.py:80`).
  If it was a revocation, the grant lives on; `GrantCoversUnattended` excepts
  exactly this.
- The Scheduler ignores the conditions and the limits of a document
  (`docs/macros.md:32`, `119`); and a scheduled macro that raises is run again at
  each poll until it returns. The keys a poller has seen are never forgotten: a
  notification that is removed and posted again under its key is not published.
  A companion that restarts numbers its ring from one while the poller's cursor
  stays: its events are passed over until they catch up.
- `docs/macros.md` names conditions `variable_equals` and `time_between` (114), triggers
  `notification.dismissed` and `ui.foreground_changed` (68) and a limit
  `max_per_minute` (123) that the code does not have; no bundled client calls events_poll in the
  background, so a trigger fires only while somebody polls.
- `docs/configuration.md:157` says that `last_port` is an address; setup leaves a
  bare port in it (`setup.py:116`), and `rediscover` then begins with an address
  that cannot answer.
- `docs/providers.md:110` says that setup checks the phone; the steps install and
  token trust what `config.json` recorded. `RerunsRepair` excepts both: the hash in
  `fits` (`InstalledAsAsked`), the token in `broken`: one the companion has
  lost since is kept for ever.
- `docs/cli-reference.md:305` offers selectors about siblings and ancestors
  everywhere: the daemon's find, the observation after an action, scroll_until and
  a macro's conditions have no relations and find nothing (`FindsWhatIsThere` has the
  exception). The MCP tool's find looks up an element's parent and siblings under
  `str(i)` in relations keyed by numbers (`mcp_server.py:59`): the context it adds
  to candidates is always empty.
- The command line's own `wait_for` with a selector counts half a second per look
  whatever the look took.
