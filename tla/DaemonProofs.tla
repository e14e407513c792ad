---------------------------- MODULE DaemonProofs ----------------------------
(***************************************************************************)
(* Theorems about Daemon, for any number of clients, jobs, connections and  *)
(* snapshots: what the two threads may do to each other between a decision   *)
(* and an input, what a handled stop request bars, and that the composed      *)
(* system keeps its types and the promise of the job registry.               *)
(*                                                                         *)
(* The invariant has four parts that can be kept apart: the threads and the   *)
(* locks (LockInv), the worker and its job (JobInv), the clients and their    *)
(* connections (ConnInv), and the snapshot cache, whose length is bounded by  *)
(* the jobs that have run (SnapInv).                                         *)
(***************************************************************************)
EXTENDS Daemon, FiniteSetTheorems, TLAPS

\* The places of run_action that lie between its locks' acquisition and release.
Holding == {"observe", "inject", "after"}

\* Two threads meet at three locks.  A thread holds the thread lock exactly while
\* it is inside run_action; the server thread is there only for a triggered macro;
\* the worker only under the write lock, unless the process has ended under it.
LockInv ==
    /\ fpc \in [Threads -> Places]
    /\ judged \in [Threads -> BOOLEAN]
    /\ \A t \in Threads : fpc[t] \in Holding <=> actionLock = t
    /\ spc # "macros" => fpc["server"] = "out"
    /\ fpc["worker"] # "out" => wpc = "funnel" \/ spc = "down"
    /\ spc = "down" => wpc = "dead"
    /\ fpc["worker"] = "inject" => judged["worker"]
    /\ barrier => stopFile /\ \A t \in Threads : fpc[t] \notin Holding

\* The job in hand is the only running one, from the moment it is taken to its end.
JobInv ==
    /\ phase \in [JobIds -> {"none", "queued", "running", "ended"}]
    /\ job \in [JobIds -> Requests]
    /\ cur \in JobIds \cup {NoJob}
    /\ wpc \in {"idle", "pick", "lock", "validate", "look", "step", "funnel", "put", "end", "dead"}
    /\ left \in [Threads -> 0..MacroSteps]
    /\ handling \in Requests
    /\ \A j \in JobIds : phase[j] = "running" <=> j = cur
    /\ wpc \in {"idle", "pick"} => cur = NoJob
    /\ wpc \in {"idle", "pick", "dead"} \/ cur # NoJob

\* A connection belongs to the one client that opened it; the server thread knows
\* whom it serves while it reads, handles or runs a triggered macro.
ConnInv ==
    /\ cpc \in [Clients -> {"idle", "ping", "ready", "call", "poll", "late", "bypass"}]
    /\ at \in [Clients -> Conns \cup {NoConn}]
    /\ nextConn \in 1..(MaxConns + 1)
    /\ \A c \in Clients :
         /\ at[c] < nextConn
         /\ cpc[c] \in {"ping", "call", "poll", "late"} => at[c] # NoConn
         /\ cpc[c] = "poll" => polls[at[c]] < MaxPolls
         /\ \A d \in Clients : c # d /\ at[c] # NoConn => at[c] # at[d]
    /\ polls \in [Conns -> 0..MaxPolls]
    /\ backlog \in Seq(Conns)
    /\ line \in [Conns -> Requests]
    /\ answer \in [Conns -> {"none", "ok", "accepted", "ended", "busy", "not_found", "failed"}]
    /\ open \in [Conns -> {"open", "closed", "reset"}]
    /\ owns \in [Conns -> JobIds \cup {NoJob}]
    /\ spc \in {"accept", "read", "handle", "macros", "leaving", "down"}
    /\ serving \in Conns \cup {NoConn}
    /\ handling \in Requests
    /\ spc \in {"read", "handle", "macros"} => serving # NoConn

\* A job leaves at most one snapshot, so that their number is bounded by the jobs
\* that have ended, and the one in hand; only what was observed is ever recorded.
Ended == {j \in JobIds : phase[j] = "ended"}
Started == {j \in JobIds : phase[j] \in {"running", "ended"}}
SnapInv ==
    /\ seenApp \in Apps \cup {"none"} /\ phone \in Apps
    /\ snaps \in Seq(Apps)
    /\ Len(snaps) <= Cardinality(Started)
    /\ wpc \in {"end", "dead"} \/ Len(snaps) <= Cardinality(Ended)
    /\ wpc = "put" \/ (\E t \in Threads : fpc[t] = "ok") => seenApp # "none"

\* What is left of the types.
FlagInv ==
    /\ running \in BOOLEAN /\ jobsStopped \in BOOLEAN /\ stopFile \in BOOLEAN
    /\ barrier \in BOOLEAN /\ inFlight \in BOOLEAN
    /\ actionLock \in Threads \cup {"free"}
    /\ inputs \in Nat /\ events \in 0..MaxEvents

IInv == LockInv /\ JobInv /\ ConnInv /\ SnapInv /\ FlagInv

-----------------------------------------------------------------------------
(* The threads and their locks.                                            *)

threads == <<fpc, judged, actionLock, barrier, stopFile>>

LEMMA InitLocks == Init => LockInv
BY DEF Init, LockInv, Threads, Places, Holding

\* The steps that leave both threads where they are: one that does not move the
\* program counters, one of the server outside a macro, one of the worker outside
\* the funnel.
LEMMA LocksKept ==
    ASSUME LockInv, UNCHANGED <<threads, spc, wpc>>
    PROVE  LockInv'
BY DEF LockInv, threads

LEMMA ServerMoves ==
    ASSUME LockInv, UNCHANGED <<threads, wpc>>, spc \notin {"macros", "down"}, spc' # "down"
    PROVE  LockInv'
BY DEF LockInv, threads

LEMMA WorkerMoves ==
    ASSUME LockInv, UNCHANGED <<threads, spc>>, wpc \notin {"funnel", "dead"}
    PROVE  LockInv'
BY DEF LockInv, threads

LEMMA ClientLocks ==
    ASSUME LockInv, ClientFrame
    PROVE  LockInv'
<1>1. UNCHANGED <<threads, spc, wpc>>
  BY DEF ClientFrame, server, worker, funnel, stopping, threads
<1>2. QED BY <1>1, LocksKept

\* HandleStop has waited for the worker's job, and the server itself is not in a
\* macro: nobody is between the kill switch and an input.
LEMMA StopLocks ==
    ASSUME LockInv, HandleStop
    PROVE  LockInv'
<1>1. /\ spc = "handle" /\ ~WriteLocked /\ spc' = "read"
      /\ UNCHANGED <<fpc, judged, actionLock, wpc>>
  BY DEF HandleStop, Handling, Mutating, Reply, worker, funnel
<1>2. \A t \in Threads : fpc[t] = "out"
  BY <1>1 DEF LockInv, WriteLocked, Threads
<1>3. (stopFile' /\ barrier') \/ UNCHANGED <<stopFile, barrier>>
  BY DEF HandleStop, stopping
<1>4. QED BY <1>1, <1>2, <1>3 DEF LockInv, Holding

LEMMA MacroLocks ==
    ASSUME LockInv, TriggeredMacro
    PROVE  LockInv'
<1>1. /\ spc = "macros" /\ fpc["server"] \notin Holding
      /\ UNCHANGED <<judged, actionLock, wpc, stopFile, barrier>>
  BY DEF TriggeredMacro, worker, stopping, Holding
<1>2. \/ fpc' = [fpc EXCEPT !["server"] = "gate"] /\ spc' = spc
      \/ fpc' = [fpc EXCEPT !["server"] = "out"] /\ spc' = "read"
  BY DEF TriggeredMacro, Reply
<1>3. QED BY <1>1, <1>2 DEF LockInv, Threads, Places, Holding

LEMMA ServerLocks ==
    ASSUME LockInv, ServerStep
    PROVE  LockInv'
<1> USE DEF server, jobs, worker, funnel, stopping, user, threads
<1>1. CASE Accept BY <1>1, ServerMoves DEF Accept
<1>2. CASE Read BY <1>2, ServerMoves DEF Read
<1>3. CASE HangUp BY <1>3, ServerMoves DEF HangUp
<1>4. CASE ConnectionReset BY <1>4, ServerMoves DEF ConnectionReset
<1>5. CASE HandlePing BY <1>5, ServerMoves DEF HandlePing, Handling, Reply
<1>6. CASE HandleSubmit
  <2>1. spc = "handle" /\ spc' = "read" /\ UNCHANGED <<threads, wpc>>
    BY <1>6 DEF HandleSubmit, Handling, Reply
  <2>2. QED BY <2>1, ServerMoves
<1>7. CASE HandleJobPoll BY <1>7, ServerMoves DEF HandleJobPoll, Handling, Reply
<1>8. CASE HandleMacroCancel BY <1>8, ServerMoves DEF HandleMacroCancel, Handling, Reply
<1>9. CASE HandleStop BY <1>9, StopLocks
<1>10. CASE HandleShutdown BY <1>10, ServerMoves DEF HandleShutdown, Handling, Reply
<1>11. CASE HandleEventsPoll BY <1>11, ServerMoves DEF HandleEventsPoll, Handling
<1>12. CASE TriggeredMacro BY <1>12, MacroLocks
<1>13. CASE Leave BY <1>13, ServerMoves DEF Leave
<1>14. CASE ExitProcess BY <1>14 DEF ExitProcess, LockInv
<1>15. QED
  BY <1>1, <1>2, <1>3, <1>4, <1>5, <1>6, <1>7, <1>8, <1>9, <1>10, <1>11, <1>12, <1>13, <1>14
     DEF ServerStep

LEMMA FunnelLocks ==
    ASSUME LockInv, NEW t \in Threads, FunnelStep(t)
    PROVE  LockInv'
<1>1. UNCHANGED <<spc, wpc, stopFile, barrier>> /\ spc # "down"
  BY DEF FunnelStep, Up, FEnter, FObserve, FInject, FAfter, FunnelFrame, server, worker, stopping
<1> USE <1>1 DEF LockInv, Threads, Places, Holding
<1>2. CASE FEnter(t) BY <1>2 DEF FEnter
<1>3. CASE FObserve(t)
  <2>1. /\ fpc[t] = "observe"
        /\ \/ fpc' = [fpc EXCEPT ![t] = "inject"] /\ UNCHANGED actionLock
           \/ fpc' = [fpc EXCEPT ![t] = "failed"] /\ actionLock' = "free"
    BY <1>3 DEF FObserve, Unlocked
  <2>2. UNCHANGED judged \/ judged' = [u \in Threads |-> u = t] \/ judged' = [judged EXCEPT ![t] = TRUE]
    BY <1>3 DEF FObserve, SetSnapshot
  <2>3. \A u \in Threads : u # t => fpc[u] \notin Holding
    BY <2>1
  <2>4. judged' \in [Threads -> BOOLEAN] BY <2>2
  <2>5. (fpc' = [fpc EXCEPT ![t] = "inject"] /\ UNCHANGED actionLock) => judged'[t]
    BY <1>3 DEF FObserve, SetSnapshot, Unlocked
  <2>6. QED BY <2>1, <2>3, <2>4, <2>5
<1>4. CASE FInject(t) BY <1>4 DEF FInject, Unlocked
<1>5. CASE FAfter(t)
  <2>1. /\ fpc[t] = "after" /\ actionLock' = "free"
        /\ \E place \in {"ok", "failed"} : fpc' = [fpc EXCEPT ![t] = place]
    BY <1>5 DEF FAfter, Unlocked
  <2>2. UNCHANGED judged \/ judged' = [u \in Threads |-> u = t]
    BY <1>5 DEF FAfter, SetSnapshot
  <2>3. \A u \in Threads : u # t => fpc[u] \notin Holding
    BY <2>1
  <2>4. judged' \in [Threads -> BOOLEAN] BY <2>2
  <2>5. QED BY <2>1, <2>2, <2>3, <2>4
<1>6. QED BY <1>2, <1>3, <1>4, <1>5 DEF FunnelStep

\* The worker enters run_action from outside.
LEMMA EnterLocks ==
    ASSUME LockInv, fpc["worker"] = "out", spc # "down",
           EnterFunnel \/ (wpc' = "end" /\ UNCHANGED fpc),
           UNCHANGED <<spc, stopFile, barrier, judged, actionLock>>
    PROVE  LockInv'
<1>1. CASE EnterFunnel
  <2>1. fpc' = [fpc EXCEPT !["worker"] = "gate"] /\ wpc' = "funnel"
    BY <1>1 DEF EnterFunnel
  <2>2. fpc' \in [Threads -> Places] /\ fpc'["worker"] = "gate" /\ fpc'["server"] = fpc["server"]
    BY <2>1 DEF LockInv, Threads, Places
  <2>3. \A t \in Threads : fpc'[t] \in Holding <=> fpc[t] \in Holding
    BY <2>2 DEF Threads, Holding
  <2>4. QED BY <2>1, <2>2, <2>3 DEF LockInv
<1>2. CASE wpc' = "end" /\ UNCHANGED fpc BY <1>2 DEF LockInv
<1>3. QED BY <1>1, <1>2

LEMMA WorkerLocks ==
    ASSUME LockInv, WorkerStep
    PROVE  LockInv'
<1>0. UNCHANGED <<spc, stopFile, barrier>>
  BY DEF WorkerStep, WLoop, WPick, WLock, WValidate, WLook, WStep, WReturn, WPut, WEnd,
         WorkerFrame, server, stopping
<1> USE <1>0 DEF funnel, threads
<1>1. CASE WLoop BY <1>1, WorkerMoves DEF WLoop
<1>2. CASE WPick BY <1>2, WorkerMoves DEF WPick
<1>3. CASE WLock
  <2>1. UNCHANGED threads /\ wpc = "lock" BY <1>3 DEF WLock
  <2>2. QED BY <2>1, WorkerMoves
<1>4. CASE WValidate
  <2>1. /\ wpc = "validate" /\ UNCHANGED <<judged, actionLock>>
        /\ EnterFunnel \/ (wpc' = "end" /\ UNCHANGED fpc)
    BY <1>4 DEF WValidate
  <2>2. fpc["worker"] = "out" /\ spc # "down"
    BY <2>1 DEF LockInv
  <2>3. QED BY <2>1, <2>2, EnterLocks
<1>5. CASE WLook
  <2>1. /\ wpc = "look" /\ wpc' = "end" /\ UNCHANGED <<fpc, actionLock>>
        /\ UNCHANGED judged \/ judged' = [u \in Threads |-> u = "worker"]
    BY <1>5 DEF WLook, SetSnapshot
  <2>2. QED BY <2>1 DEF LockInv, Threads
<1>6. CASE WStep
  <2>1. /\ wpc = "step" /\ UNCHANGED <<judged, actionLock>>
        /\ EnterFunnel \/ (wpc' = "end" /\ UNCHANGED fpc)
    BY <1>6 DEF WStep
  <2>2. fpc["worker"] = "out" /\ spc # "down"
    BY <2>1 DEF LockInv
  <2>3. QED BY <2>1, <2>2, EnterLocks
<1>7. CASE WReturn
  <2>1. /\ wpc = "funnel" /\ fpc["worker"] \notin Holding /\ UNCHANGED <<judged, actionLock>>
        /\ fpc' = [fpc EXCEPT !["worker"] = "out"]
    BY <1>7 DEF WReturn, Holding
  <2>2. QED BY <2>1 DEF LockInv, Threads, Places, Holding
<1>8. CASE WPut BY <1>8, WorkerMoves DEF WPut
<1>9. CASE WEnd BY <1>9, WorkerMoves DEF WEnd
<1>10. QED BY <1>1, <1>2, <1>3, <1>4, <1>5, <1>6, <1>7, <1>8, <1>9 DEF WorkerStep

LEMMA UserLocks ==
    ASSUME LockInv, UserActs
    PROVE  LockInv'
<1>1. /\ UNCHANGED <<fpc, judged, actionLock, spc, wpc>>
      /\ \/ UNCHANGED <<stopFile, barrier>>
         \/ stopFile' = TRUE /\ UNCHANGED barrier
         \/ barrier' = FALSE
  BY DEF UserActs, UserFrame, worker, funnel, stopping
<1>2. QED BY <1>1 DEF LockInv

LEMMA ClientFrames ==
    ASSUME NEW c \in Clients, ClientStep(c) \/ Discover(c) \/ PingTimeout(c) \/ CallTimeout(c)
                              \/ \E q \in Commands : Call(c, q)
    PROVE  ClientFrame
BY DEF ClientStep, Discover, PingTimeout, CallTimeout, Call, PingAnswered, BypassEnds,
       CallAnswered, PollOrExpire, LateClose

LEMMA StepLocks ==
    ASSUME LockInv, [Next]_vars
    PROVE  LockInv'
<1>1. CASE ServerStep BY <1>1, ServerLocks
<1>2. CASE WorkerStep BY <1>2, WorkerLocks
<1>3. CASE \E t \in Threads : FunnelStep(t) BY <1>3, FunnelLocks
<1>4. CASE UserActs BY <1>4, UserLocks
<1>5. CASE ClientFrame BY <1>5, ClientLocks
<1>6. CASE UNCHANGED vars
  BY <1>6, LocksKept DEF vars, server, worker, funnel, stopping, threads
<1>7. QED
  BY <1>1, <1>2, <1>3, <1>4, <1>5, <1>6, ClientFrames DEF Next

THEOREM LocksAlwaysHold == Spec => []LockInv
BY InitLocks, StepLocks, PTL DEF Spec

\* A job's input is made on the screen its policy decision was made on: the other
\* thread sets the warm session only while it holds the thread lock itself.
THEOREM JobsActOnWhatTheyJudgedAlways == Spec => []JobsActOnWhatTheyJudged
<1>1. LockInv => JobsActOnWhatTheyJudged
  BY DEF LockInv, JobsActOnWhatTheyJudged
<1>2. QED BY <1>1, LocksAlwaysHold, PTL

\* From a handled stop request to the clearing of STOP, no thread injects.
THEOREM StopBarsInputs == Spec => StopIsABarrier
<1>1. ASSUME LockInv, [Next]_vars, barrier, barrier'
      PROVE  inputs' = inputs
  <2>1. CASE \E t \in Threads : FunnelStep(t)
    <3>1. PICK t \in Threads : FunnelStep(t) BY <2>1
    <3>2. ~FInject(t) BY <1>1 DEF LockInv, FInject, Holding
    <3>3. QED BY <3>1, <3>2 DEF FunnelStep, FEnter, FObserve, FAfter
  <2>2. CASE ServerStep
    BY <2>2 DEF ServerStep, Accept, Read, HangUp, ConnectionReset, HandlePing, HandleSubmit,
           HandleJobPoll, HandleMacroCancel, HandleStop, HandleShutdown, HandleEventsPoll,
           TriggeredMacro, Leave, ExitProcess, funnel
  <2>3. CASE WorkerStep
    BY <2>3 DEF WorkerStep, WLoop, WPick, WLock, WValidate, WLook, WStep, WReturn, WPut, WEnd,
           funnel
  <2>4. CASE UserActs \/ ClientFrame BY <2>4 DEF UserActs, UserFrame, ClientFrame, funnel
  <2>5. CASE UNCHANGED vars BY <2>5 DEF vars, funnel
  <2>6. QED
    BY <1>1, <2>1, <2>2, <2>3, <2>4, <2>5, ClientFrames DEF Next
<1>2. [][LockInv /\ [Next]_vars => (barrier /\ barrier' => inputs' = inputs)]_vars
  BY <1>1, PTL
<1>3. QED BY <1>1, LocksAlwaysHold, PTL DEF Spec, StopIsABarrier

-----------------------------------------------------------------------------
(* The worker and its job.                                                 *)

LEMMA NothingIsRequest == Nothing \in Requests
BY DaemonConstants DEF Nothing, Requests, NoJob

LEMMA InitJobs == Init => JobInv
BY DaemonConstants, NothingIsRequest DEF Init, JobInv, JobIds, NoJob

LEMMA JobsKept ==
    ASSUME JobInv, UNCHANGED <<phase, job, cur, wpc>>,
           handling' \in Requests, left' \in [Threads -> 0..MacroSteps]
    PROVE  JobInv'
BY DEF JobInv

\* A step of the worker with the job it has, to another place of _run_job.
LEMMA JobGoesOn ==
    ASSUME JobInv, UNCHANGED <<phase, job, cur, handling>>, wpc \notin {"idle", "pick", "dead"},
           wpc' \in {"validate", "look", "step", "funnel", "put", "end"},
           left' \in [Threads -> 0..MacroSteps]
    PROVE  JobInv'
BY DEF JobInv

LEMMA SubmitJobs ==
    ASSUME JobInv, HandleSubmit
    PROVE  JobInv'
<1>1. UNCHANGED <<cur, wpc, left>> /\ handling' = Nothing
  BY DEF HandleSubmit, worker, funnel, Reply
<1>2. CASE UNCHANGED <<phase, job>>
  BY <1>1, <1>2, JobsKept, NothingIsRequest DEF JobInv
<1>3. CASE \E j \in JobIds : Service!Accept(j, "none") /\ job' = [job EXCEPT ![j] = handling]
  <2>1. PICK j \in JobIds : Service!Accept(j, "none") /\ job' = [job EXCEPT ![j] = handling]
    BY <1>3
  <2>2. phase[j] = "none" /\ phase' = [phase EXCEPT ![j] = "queued"]
    BY <2>1 DEF Service!Accept
  <2>3. QED BY <1>1, <2>1, <2>2, NothingIsRequest DEF JobInv
<1>4. QED BY <1>2, <1>3 DEF HandleSubmit

LEMMA PickJobs ==
    ASSUME JobInv, WPick
    PROVE  JobInv'
<1>1. UNCHANGED <<job, left, handling>> /\ wpc = "pick"
  BY DEF WPick, funnel, WorkerFrame, server
<1>2. CASE UNCHANGED <<phase, cur>> /\ wpc' = "idle"
  BY <1>1, <1>2 DEF JobInv
<1>3. CASE \E j \in JobIds : Service!Begin(j) /\ cur' = j /\ wpc' = "lock"
  <2>1. PICK j \in JobIds : Service!Begin(j) /\ cur' = j /\ wpc' = "lock"
    BY <1>3
  <2>2. /\ phase' = [phase EXCEPT ![j] = "running"]
        /\ \A i \in JobIds : phase[i] # "running"
    BY <2>1 DEF Service!Begin
  <2>3. \A i \in JobIds : phase'[i] = "running" <=> i = j
    BY <2>2 DEF JobInv
  <2>4. j # NoJob BY DEF JobIds, NoJob
  <2>5. QED BY <1>1, <2>1, <2>2, <2>3, <2>4 DEF JobInv
<1>4. QED BY <1>2, <1>3 DEF WPick

LEMMA EndJobs ==
    ASSUME JobInv, WEnd
    PROVE  JobInv'
<1>1. /\ UNCHANGED <<job, left, handling>> /\ wpc = "end" /\ wpc' = "idle" /\ cur' = NoJob
      /\ cur \in JobIds
  BY DEF WEnd, funnel, WorkerFrame, server, JobInv
<1>2. phase' = [phase EXCEPT ![cur] = "ended"]
  BY DEF WEnd, Service!End
<1>3. \A i \in JobIds : phase'[i] # "running" /\ i # NoJob
  BY <1>1, <1>2 DEF JobInv, JobIds, NoJob
<1>4. QED BY <1>1, <1>2, <1>3 DEF JobInv

LEMMA WorkerJobs ==
    ASSUME JobInv, WorkerStep
    PROVE  JobInv'
<1>0. UNCHANGED handling
  BY DEF WorkerStep, WLoop, WPick, WLock, WValidate, WLook, WStep, WReturn, WPut, WEnd,
         WorkerFrame, server
<1> USE <1>0 DEF jobs, funnel
<1>1. CASE WLoop BY <1>1 DEF WLoop, JobInv
<1>2. CASE WPick BY <1>2, PickJobs
<1>3. CASE WLock
  <2>1. /\ wpc = "lock" /\ UNCHANGED <<phase, job, cur>>
        /\ wpc' \in {"validate", "look", "step"}
        /\ UNCHANGED left \/ \E n \in 1..MacroSteps : left' = [left EXCEPT !["worker"] = n]
    BY <1>3 DEF WLock
  <2>2. left' \in [Threads -> 0..MacroSteps] BY <2>1, DaemonConstants DEF JobInv
  <2>3. QED BY <2>1, <2>2, JobGoesOn
<1>4. CASE WValidate BY <1>4, JobGoesOn DEF WValidate, EnterFunnel, JobInv
<1>5. CASE WLook BY <1>5, JobGoesOn DEF WLook, JobInv
<1>6. CASE WStep
  <2>1. /\ wpc = "step" /\ UNCHANGED <<phase, job, cur>> /\ wpc' \in {"funnel", "end"}
        /\ \/ left["worker"] > 0 /\ left' = [left EXCEPT !["worker"] = @ - 1]
           \/ left' = [left EXCEPT !["worker"] = 0]
    BY <1>6 DEF WStep, EnterFunnel
  <2>2. left' \in [Threads -> 0..MacroSteps] BY <2>1, DaemonConstants DEF JobInv, Threads
  <2>3. QED BY <2>1, <2>2, JobGoesOn
<1>7. CASE WReturn
  <2>1. /\ wpc = "funnel" /\ UNCHANGED <<phase, job, cur, left>>
        /\ wpc' \in {"step", "put", "end"}
    BY <1>7 DEF WReturn
  <2>2. QED BY <2>1, JobGoesOn DEF JobInv
<1>8. CASE WPut BY <1>8, JobGoesOn DEF WPut, JobInv
<1>9. CASE WEnd BY <1>9, EndJobs
<1>10. QED BY <1>1, <1>2, <1>3, <1>4, <1>5, <1>6, <1>7, <1>8, <1>9 DEF WorkerStep

LEMMA ServerJobs ==
    ASSUME JobInv, ServerStep, handling' \in Requests
    PROVE  JobInv'
<1> USE DEF jobs, worker, funnel
<1>1. CASE HandleSubmit BY <1>1, SubmitJobs
<1>2. CASE HandleEventsPoll
  <2>1. /\ UNCHANGED <<phase, job, cur, wpc>>
        /\ \E n \in 0..MacroSteps : left' = [left EXCEPT !["server"] = n]
    BY <1>2 DEF HandleEventsPoll
  <2>2. left' \in [Threads -> 0..MacroSteps] BY <2>1 DEF JobInv, Threads
  <2>3. QED BY <2>1, <2>2, JobsKept
<1>3. CASE TriggeredMacro
  <2>1. /\ UNCHANGED <<phase, job, cur, wpc>>
        /\ \/ left["server"] > 0 /\ left' = [left EXCEPT !["server"] = @ - 1]
           \/ left' = [left EXCEPT !["server"] = 0]
    BY <1>3 DEF TriggeredMacro
  <2>2. left' \in [Threads -> 0..MacroSteps] BY <2>1, DaemonConstants DEF JobInv, Threads
  <2>3. QED BY <2>1, <2>2, JobsKept
<1>4. CASE ExitProcess BY <1>4 DEF ExitProcess, JobInv
<1>5. CASE UNCHANGED <<phase, job, cur, wpc, left>>
  BY <1>5, JobsKept DEF JobInv
<1>6. QED
  BY <1>1, <1>2, <1>3, <1>4, <1>5
     DEF ServerStep, Accept, Read, HangUp, ConnectionReset, HandlePing, HandleJobPoll,
         HandleMacroCancel, HandleStop, HandleShutdown, Leave

LEMMA FunnelJobs ==
    ASSUME JobInv, NEW t \in Threads, FunnelStep(t)
    PROVE  JobInv'
<1>1. UNCHANGED <<phase, job, cur, wpc, left, handling>>
  BY DEF FunnelStep, FEnter, FObserve, FInject, FAfter, FunnelFrame, jobs, worker, server
<1>2. QED BY <1>1, JobsKept DEF JobInv

LEMMA StepJobs ==
    ASSUME JobInv, handling' \in Requests, [Next]_vars
    PROVE  JobInv'
<1>1. CASE ServerStep BY <1>1, ServerJobs
<1>2. CASE WorkerStep BY <1>2, WorkerJobs
<1>3. CASE \E t \in Threads : FunnelStep(t) BY <1>3, FunnelJobs
<1>4. CASE UserActs
  BY <1>4, JobsKept DEF UserActs, UserFrame, worker, funnel, JobInv
<1>5. CASE ClientFrame BY <1>5, JobsKept DEF ClientFrame, server, jobs, worker, funnel, JobInv
<1>6. CASE UNCHANGED vars BY <1>6, JobsKept DEF vars, server, jobs, worker, funnel, JobInv
<1>7. QED
  BY <1>1, <1>2, <1>3, <1>4, <1>5, <1>6, ClientFrames DEF Next

-----------------------------------------------------------------------------
(* The clients and their connections.                                      *)

LEMMA InitConns == Init => ConnInv
BY DaemonConstants, NothingIsRequest DEF Init, ConnInv, Conns, NoConn, NoJob

LEMMA ConnsKept ==
    ASSUME ConnInv, UNCHANGED <<clients, conns, server>>
    PROVE  ConnInv'
BY DEF ConnInv, clients, conns, server

LEMMA OpenConn ==
    ASSUME ConnInv, NEW c \in Clients, NEW q \in Requests, Open(c, q), UNCHANGED server,
           NEW place \in {"ping", "call"}, cpc' = [cpc EXCEPT ![c] = place]
    PROVE  ConnInv'
<1>1. nextConn \in Conns /\ nextConn # NoConn
  BY DaemonConstants DEF Open, ConnInv, Conns, NoConn
<1>2. nextConn' \in 1..(MaxConns + 1) /\ nextConn' = nextConn + 1
  BY DaemonConstants DEF Open, ConnInv
<1>3. at' = [at EXCEPT ![c] = nextConn] /\ at' \in [Clients -> Conns \cup {NoConn}]
  BY <1>1 DEF Open, ConnInv
<1>4. cpc' \in [Clients -> {"idle", "ping", "ready", "call", "poll", "late", "bypass"}]
  BY DEF ConnInv
<1>5. ASSUME NEW d \in Clients
      PROVE  /\ at'[d] < nextConn'
             /\ cpc'[d] \in {"ping", "call", "poll", "late"} => at'[d] # NoConn
             /\ cpc'[d] = "poll" => polls[at'[d]] < MaxPolls
             /\ \A e \in Clients : d # e /\ at'[d] # NoConn => at'[d] # at'[e]
  BY <1>1, <1>2, <1>3 DEF ConnInv, Conns, NoConn
<1>6. UNCHANGED <<answer, open, owns, polls>> /\ line' \in [Conns -> Requests]
      /\ backlog' \in Seq(Conns)
  BY <1>1 DEF Open, ConnInv
<1>7. QED BY <1>1, <1>2, <1>3, <1>4, <1>5, <1>6 DEF ConnInv, server

\* Closing: the client has no connection any more.
LEMMA CloseConn ==
    ASSUME ConnInv, NEW c \in Clients, Close(c) \/ ReadAndClose(c), UNCHANGED server,
           NEW place \in {"ready", "bypass", "idle"}, cpc' = [cpc EXCEPT ![c] = place]
    PROVE  ConnInv'
<1>1. at' = [at EXCEPT ![c] = NoConn] /\ UNCHANGED <<nextConn, backlog, line, owns, polls>>
  BY DEF Close, ReadAndClose
<1>2. /\ open' \in [Conns -> {"open", "closed", "reset"}]
      /\ answer' \in [Conns -> {"none", "ok", "accepted", "ended", "busy", "not_found", "failed"}]
  BY DEF Close, ReadAndClose, ConnInv
<1>3. at' \in [Clients -> Conns \cup {NoConn}] BY <1>1 DEF ConnInv
<1>4. cpc' \in [Clients -> {"idle", "ping", "ready", "call", "poll", "late", "bypass"}]
  BY DEF ConnInv
<1>5. ASSUME NEW d \in Clients
      PROVE  /\ at'[d] < nextConn
             /\ cpc'[d] \in {"ping", "call", "poll", "late"} => at'[d] # NoConn
             /\ cpc'[d] = "poll" => polls[at'[d]] < MaxPolls
             /\ \A e \in Clients : d # e /\ at'[d] # NoConn => at'[d] # at'[e]
  BY <1>1 DEF ConnInv, NoConn
<1>6. QED BY <1>1, <1>2, <1>3, <1>4, <1>5 DEF ConnInv, server

\* It stays connected, and waits for something else.
LEMMA WaitConn ==
    ASSUME ConnInv, NEW c \in Clients, UNCHANGED <<at, nextConn, backlog, open, owns, server>>,
           line' \in [Conns -> Requests], polls' \in [Conns -> 0..MaxPolls],
           answer' \in [Conns -> {"none", "ok", "accepted", "ended", "busy", "not_found", "failed"}],
           \A n \in Conns : n # at[c] => polls'[n] = polls[n],
           NEW place \in {"call", "poll", "late", "idle"}, cpc' = [cpc EXCEPT ![c] = place],
           place = "idle" \/ at[c] # NoConn, place = "poll" => polls'[at[c]] < MaxPolls
    PROVE  ConnInv'
<1>1. cpc' \in [Clients -> {"idle", "ping", "ready", "call", "poll", "late", "bypass"}]
  BY DEF ConnInv
<1>2. ASSUME NEW d \in Clients
      PROVE  /\ cpc'[d] \in {"ping", "call", "poll", "late"} => at[d] # NoConn
             /\ cpc'[d] = "poll" => polls'[at[d]] < MaxPolls
  BY DEF ConnInv
<1>3. QED BY <1>1, <1>2 DEF ConnInv, server

LEMMA PollRequest ==
    ASSUME NEW j \in JobIds \cup {NoJob}, NEW n, n = [method |-> "none", job |-> NoJob, pin |-> 0]
    PROVE  [n EXCEPT !.method = "job_poll", !.job = j] \in Requests
<1>1. [n EXCEPT !.method = "job_poll", !.job = j] \in [method : {"job_poll"}, job : {j}, pin : {0}]
  OBVIOUS
<1>2. [method : {"job_poll"}, job : {j}, pin : {0}] \subseteq Requests
  BY DaemonConstants DEF Requests
<1>3. QED BY <1>1, <1>2

LEMMA ClientConns ==
    ASSUME ConnInv, NEW c \in Clients,
           ClientStep(c) \/ Discover(c) \/ PingTimeout(c) \/ CallTimeout(c)
             \/ \E q \in Commands : Call(c, q)
    PROVE  ConnInv'
<1>0. UNCHANGED server BY ClientFrames DEF ClientFrame
<1>1. CASE Discover(c)
  <2>1. [Nothing EXCEPT !.method = "ping"] \in Requests
    BY DaemonConstants DEF Nothing, Requests, NoJob
  <2>2. QED BY <1>0, <1>1, <2>1, OpenConn DEF Discover
<1>2. CASE \E q \in Commands : Call(c, q)
  <2>1. PICK q \in Commands : Call(c, q) BY <1>2
  <2>2. CASE Open(c, q) /\ cpc' = [cpc EXCEPT ![c] = "call"]
    BY <1>0, <2>2, DaemonConstants, OpenConn
  <2>3. CASE cpc' = [cpc EXCEPT ![c] = "idle"] /\ UNCHANGED <<at, conns>>
    BY <1>0, <2>3, WaitConn DEF ConnInv, conns
  <2>4. QED BY <2>1, <2>2, <2>3 DEF Call
<1>3. CASE PingTimeout(c) BY <1>0, <1>3, CloseConn DEF PingTimeout
<1>4. CASE CallTimeout(c) BY <1>0, <1>4, WaitConn DEF CallTimeout, ConnInv, conns
<1>5. CASE PingAnswered(c) BY <1>0, <1>5, CloseConn DEF PingAnswered
<1>6. CASE BypassEnds(c) BY <1>0, <1>6, WaitConn DEF BypassEnds, ConnInv, conns
<1>7. CASE CallAnswered(c)
  <2>1. cpc[c] = "call" /\ at[c] # NoConn BY <1>7 DEF CallAnswered, ConnInv
  <2>2. CASE /\ polls[at[c]] < MaxPolls
             /\ cpc' = [cpc EXCEPT ![c] = "poll"]
             /\ answer' = [answer EXCEPT ![at[c]] = "none"]
             /\ UNCHANGED <<at, nextConn, backlog, line, open, owns, polls>>
    <3>1. answer' \in [Conns -> {"none", "ok", "accepted", "ended", "busy", "not_found", "failed"}]
      BY <2>2 DEF ConnInv
    <3>2. QED BY <1>0, <2>1, <2>2, <3>1, WaitConn DEF ConnInv
  <2>3. CASE cpc' = [cpc EXCEPT ![c] = "idle"] /\ ReadAndClose(c)
    BY <1>0, <2>3, CloseConn
  <2>4. QED BY <1>7, <2>2, <2>3 DEF CallAnswered
<1>8. CASE PollOrExpire(c)
  <2>1. cpc[c] = "poll" /\ at[c] \in Conns /\ polls[at[c]] < MaxPolls
    BY <1>8 DEF PollOrExpire, ConnInv
  <2>2. CASE /\ cpc' = [cpc EXCEPT ![c] = "call"]
             /\ line' = [line EXCEPT ![at[c]] = [Nothing EXCEPT !.method = "job_poll",
                                                                !.job = owns[at[c]]]]
             /\ polls' = [polls EXCEPT ![at[c]] = @ + 1]
             /\ UNCHANGED <<at, nextConn, backlog, answer, open, owns>>
    <3>1. [Nothing EXCEPT !.method = "job_poll", !.job = owns[at[c]]] \in Requests
      <4>1. owns[at[c]] \in JobIds \cup {NoJob} BY <2>1 DEF ConnInv
      <4>2. QED BY <4>1, PollRequest DEF Nothing
    <3>2. line' \in [Conns -> Requests] BY <2>2, <3>1 DEF ConnInv
    <3>3. /\ polls' \in [Conns -> 0..MaxPolls]
          /\ \A n \in Conns : n # at[c] => polls'[n] = polls[n]
      BY <2>1, <2>2, DaemonConstants DEF ConnInv
    <3>4. at[c] # NoConn BY <2>1 DEF Conns, NoConn
    <3>5. QED BY <1>0, <2>2, <3>2, <3>3, <3>4, WaitConn DEF ConnInv
  <2>3. CASE cpc' = [cpc EXCEPT ![c] = "idle"] /\ Close(c)
    BY <1>0, <2>3, CloseConn
  <2>4. QED BY <1>8, <2>2, <2>3 DEF PollOrExpire
<1>9. CASE LateClose(c) BY <1>0, <1>9, CloseConn DEF LateClose
<1>10. QED
  BY <1>1, <1>2, <1>3, <1>4, <1>5, <1>6, <1>7, <1>8, <1>9 DEF ClientStep

LEMMA ReplyConns ==
    ASSUME ConnInv, NEW a \in {"ok", "accepted", "ended", "busy", "not_found", "failed"},
           NEW j \in JobIds \cup {NoJob}, Reply(a, j), serving # NoConn
    PROVE  ConnInv'
<1>1. /\ serving \in Conns /\ UNCHANGED <<clients, nextConn, backlog, line, open, polls, serving>>
      /\ handling' \in Requests /\ spc' = "read"
  BY NothingIsRequest DEF Reply, ConnInv
<1>2. answer' \in [Conns -> {"none", "ok", "accepted", "ended", "busy", "not_found", "failed"}]
  BY DEF Reply, ConnInv
<1>3. owns' \in [Conns -> JobIds \cup {NoJob}]
  BY <1>1 DEF Reply, ConnInv
<1>4. QED BY <1>1, <1>2, <1>3 DEF ConnInv, clients

\* The server accepts, or goes on with the connection it has, or leaves.
LEMMA ServerConns ==
    ASSUME ConnInv, UNCHANGED <<clients, nextConn, answer, open, owns, polls>>,
           backlog' \in Seq(Conns), line' \in [Conns -> Requests], handling' \in Requests,
           serving' \in Conns \cup {NoConn},
           spc' \in {"accept", "read", "handle", "macros", "leaving", "down"},
           spc' \in {"accept", "leaving", "down"} \/ serving' # NoConn
    PROVE  ConnInv'
BY DEF ConnInv, clients

LEMMA HandledReplies ==
    ASSUME ConnInv, JobInv,
           \/ HandlePing \/ HandleSubmit \/ HandleJobPoll \/ HandleMacroCancel \/ HandleStop
           \/ HandleShutdown
    PROVE  \E a \in {"ok", "accepted", "ended", "busy", "not_found", "failed"},
              j \in JobIds \cup {NoJob} : Reply(a, j) /\ serving # NoConn
<1>1. serving # NoConn
  BY DEF ConnInv, HandlePing, HandleSubmit, HandleJobPoll, HandleMacroCancel, HandleStop,
         HandleShutdown, Handling
<1>2. CASE HandlePing BY <1>1, <1>2 DEF HandlePing
<1>3. CASE HandleSubmit BY <1>1, <1>3 DEF HandleSubmit
<1>4. CASE HandleJobPoll
  <2>1. handling.job \in JobIds \cup {NoJob} BY DEF ConnInv, Requests
  <2>2. \E a \in {"ended", "accepted"} : Reply(a, handling.job) BY <1>4 DEF HandleJobPoll
  <2>3. QED BY <1>1, <2>1, <2>2
<1>5. CASE HandleMacroCancel
  <2>1. \E a \in {"ok", "not_found"} : Reply(a, NoJob) BY <1>5 DEF HandleMacroCancel
  <2>2. QED BY <1>1, <2>1
<1>6. CASE HandleStop BY <1>1, <1>6 DEF HandleStop
<1>7. CASE HandleShutdown BY <1>1, <1>7 DEF HandleShutdown
<1>8. QED BY <1>2, <1>3, <1>4, <1>5, <1>6, <1>7

LEMMA ServerStepConns ==
    ASSUME ConnInv, JobInv, ServerStep
    PROVE  ConnInv'
<1> USE DEF clients, conns
<1>1. CASE Accept
  <2>1. Head(backlog) \in Conns /\ Tail(backlog) \in Seq(Conns)
    BY <1>1 DEF Accept, ConnInv
  <2>2. Head(backlog) # NoConn BY <2>1 DEF Conns, NoConn
  <2>3. QED BY <1>1, <2>1, <2>2, ServerConns DEF Accept, ConnInv
<1>2. CASE Read
  <2>1. serving \in Conns BY <1>2 DEF Read, ConnInv
  <2>2. line[serving] \in Requests /\ line' \in [Conns -> Requests]
    BY <1>2, <2>1, NothingIsRequest DEF Read, ConnInv
  <2>3. QED BY <1>2, <2>1, <2>2, ServerConns DEF Read, ConnInv
<1>3. CASE HangUp BY <1>3, ServerConns DEF HangUp, ConnInv
<1>4. CASE ConnectionReset
  <2>1. /\ UNCHANGED <<clients, nextConn, answer, open, owns, polls, line, handling>>
        /\ backlog' = <<>> /\ serving' = NoConn /\ spc' = "leaving"
    BY <1>4 DEF ConnectionReset
  <2>2. <<>> \in Seq(Conns) OBVIOUS
  <2>3. QED BY <2>1, <2>2, ServerConns DEF ConnInv
<1>5. CASE \/ HandlePing \/ HandleSubmit \/ HandleJobPoll \/ HandleMacroCancel \/ HandleStop
           \/ HandleShutdown
  BY <1>5, HandledReplies, ReplyConns
<1>6. CASE HandleEventsPoll BY <1>6, ServerConns DEF HandleEventsPoll, Handling, ConnInv
<1>7. CASE TriggeredMacro
  <2>1. serving # NoConn BY <1>7 DEF TriggeredMacro, ConnInv
  <2>2. CASE Reply("ok", NoJob) BY <2>1, <2>2, ReplyConns
  <2>3. CASE UNCHANGED <<clients, conns, spc, serving, handling, inFlight>>
    BY <2>1, <2>3, ServerConns DEF ConnInv
  <2>4. QED BY <1>7, <2>2, <2>3 DEF TriggeredMacro
<1>8. CASE Leave BY <1>8, ServerConns DEF Leave, ConnInv
<1>9. CASE ExitProcess BY <1>9, ServerConns DEF ExitProcess, ConnInv
<1>10. QED
  BY <1>1, <1>2, <1>3, <1>4, <1>5, <1>6, <1>7, <1>8, <1>9 DEF ServerStep

LEMMA StepConns ==
    ASSUME ConnInv, JobInv, [Next]_vars
    PROVE  ConnInv'
<1>1. CASE ServerStep BY <1>1, ServerStepConns
<1>2. CASE WorkerStep
  BY <1>2, ConnsKept
     DEF WorkerStep, WLoop, WPick, WLock, WValidate, WLook, WStep, WReturn, WPut, WEnd,
         WorkerFrame
<1>3. CASE \E t \in Threads : FunnelStep(t)
  BY <1>3, ConnsKept DEF FunnelStep, FEnter, FObserve, FInject, FAfter, FunnelFrame
<1>4. CASE UserActs
  <2>1. UNCHANGED <<clients, nextConn, line, answer, open, owns, polls, spc, serving, handling>>
    BY <1>4 DEF UserActs, UserFrame
  <2>2. <<>> \in Seq(Conns) /\ backlog \in Seq(Conns) BY DEF ConnInv
  <2>3. backlog' = backlog \/ backlog' = <<>> BY <1>4 DEF UserActs
  <2>4. QED BY <2>1, <2>2, <2>3, ServerConns DEF ConnInv
<1>5. CASE UNCHANGED vars BY <1>5, ConnsKept DEF vars
<1>6. CASE \E c \in Clients : \/ ClientStep(c) \/ Discover(c) \/ PingTimeout(c) \/ CallTimeout(c)
                              \/ \E q \in Commands : Call(c, q)
  BY <1>6, ClientConns
<1>7. QED
  BY <1>1, <1>2, <1>3, <1>4, <1>5, <1>6 DEF Next

-----------------------------------------------------------------------------
(* The snapshot cache.                                                     *)

LEMMA FiniteJobs ==
    /\ IsFiniteSet(Ended) /\ IsFiniteSet(Started)
    /\ Cardinality(Ended) \in Nat /\ Cardinality(Started) \in Nat
    /\ Cardinality(Ended) <= Cardinality(Started)
    /\ Cardinality(Started) <= MaxJobs
<1>1. IsFiniteSet(JobIds) /\ Cardinality(JobIds) = MaxJobs
  BY DaemonConstants, FS_Interval DEF JobIds
<1>2. Started \subseteq JobIds /\ Ended \subseteq Started
  BY DEF Started, Ended
<1>3. IsFiniteSet(Started) /\ Cardinality(Started) <= MaxJobs
  BY <1>1, <1>2, FS_Subset
<1>4. IsFiniteSet(Ended) /\ Cardinality(Ended) <= Cardinality(Started)
  BY <1>2, <1>3, FS_Subset
<1>5. QED BY <1>3, <1>4, FS_CardinalityType

\* The job in hand has started and not ended.
LEMMA JobInHand ==
    ASSUME JobInv, cur \in JobIds
    PROVE  Started = Ended \cup {cur} /\ Cardinality(Started) = Cardinality(Ended) + 1
<1>1. cur \notin Ended /\ Started = Ended \cup {cur}
  BY DEF JobInv, Ended, Started
<1>2. QED BY <1>1, FiniteJobs, FS_AddElement

LEMMA InitSnaps == Init => SnapInv
<1> SUFFICES ASSUME Init PROVE SnapInv
  OBVIOUS
<1>1. snaps = <<>> /\ snaps \in Seq(Apps) /\ Len(snaps) = 0 BY DEF Init
<1>2. QED BY <1>1, FiniteJobs DEF Init, SnapInv, Threads

\* No snapshot is added, and no job begins or ends.
LEMMA SnapsKept ==
    ASSUME SnapInv, LockInv, UNCHANGED <<snaps, Ended, Started>>, phone' \in Apps,
           seenApp' = seenApp \/ seenApp' = phone,
           wpc' = wpc \/ wpc' \in {"dead", "end"} \/ wpc \notin {"end", "dead"},
           wpc' = "put" => wpc = "put" \/ fpc["worker"] = "ok",
           \A t \in Threads : fpc'[t] = "ok" => fpc[t] = "ok" \/ seenApp' = phone
    PROVE  SnapInv'
<1>1. seenApp' \in Apps \cup {"none"} BY DEF SnapInv
<1>2. seenApp' = phone => seenApp' # "none" BY DaemonConstants DEF SnapInv
<1>3. wpc' = "put" \/ (\E t \in Threads : fpc'[t] = "ok") => seenApp' # "none"
  BY <1>2 DEF SnapInv, Threads
<1>4. QED BY <1>1, <1>3 DEF SnapInv

LEMMA PhaseSnaps ==
    ASSUME UNCHANGED phase
    PROVE  UNCHANGED <<Ended, Started>>
BY DEF Ended, Started

\* The job in hand adds one.
LEMMA SnapAdded ==
    ASSUME SnapInv, JobInv, LockInv, UNCHANGED <<phase, phone, fpc>>, wpc \in {"look", "put"},
           wpc' = "end", seenApp' = seenApp \/ seenApp' = phone,
           NEW app \in Apps, snaps' = Append(snaps, app)
    PROVE  SnapInv'
<1>1. cur \in JobIds BY DEF JobInv
<1>2. Cardinality(Started) = Cardinality(Ended) + 1 BY <1>1, JobInHand
<1>3. snaps' \in Seq(Apps) /\ Len(snaps') = Len(snaps) + 1 BY DEF SnapInv
<1>4. Len(snaps') <= Cardinality(Started) BY <1>2, <1>3, FiniteJobs DEF SnapInv
<1>5. phone # "none" BY DaemonConstants DEF SnapInv
<1>6. UNCHANGED Started BY PhaseSnaps
<1>7. QED BY <1>3, <1>4, <1>5, <1>6 DEF SnapInv

LEMMA WorkerSnaps ==
    ASSUME SnapInv, JobInv, LockInv, WorkerStep
    PROVE  SnapInv'
<1>0. UNCHANGED phone
  BY DEF WorkerStep, WLoop, WPick, WLock, WValidate, WLook, WStep, WReturn, WPut, WEnd,
         WorkerFrame, user
<1>a. phone' \in Apps BY <1>0 DEF SnapInv
<1> USE DEF jobs, funnel
<1>1. CASE WLoop
  <2>1. UNCHANGED <<phase, snaps, seenApp, fpc>> /\ wpc = "idle" /\ wpc' # "put"
    BY <1>1 DEF WLoop
  <2>2. QED BY <1>a, <2>1, PhaseSnaps, SnapsKept
<1>2. CASE WPick
  <2>1. UNCHANGED <<snaps, seenApp, fpc>> /\ wpc = "pick" /\ wpc' \in {"lock", "idle"}
    BY <1>2 DEF WPick
  <2>2. CASE UNCHANGED phase
    BY <1>a, <2>1, <2>2, PhaseSnaps, SnapsKept
  <2>3. CASE \E j \in JobIds : Service!Begin(j)
    <3>1. PICK j \in JobIds : Service!Begin(j) BY <2>3
    <3>2. phase[j] = "queued" /\ phase' = [phase EXCEPT ![j] = "running"]
      BY <3>1 DEF Service!Begin
    <3>3. Ended' = Ended /\ Started' = Started \cup {j}
      BY <3>2 DEF JobInv, Ended, Started
    <3>4. Cardinality(Started \cup {j}) >= Cardinality(Started)
      <4>1. Cardinality(Started \cup {j})
              = IF j \in Started THEN Cardinality(Started) ELSE Cardinality(Started) + 1
        BY FiniteJobs, FS_AddElement
      <4>2. Cardinality(Started) \in Nat BY FiniteJobs
      <4>3. QED BY <4>1, <4>2
    <3>5. /\ Cardinality(Ended') = Cardinality(Ended) /\ Cardinality(Started') \in Nat
          /\ Len(snaps) \in Nat /\ Len(snaps') = Len(snaps)
      BY <2>1, <3>3, FiniteJobs, FS_AddElement, FS_CardinalityType DEF SnapInv
    <3>6. Len(snaps') <= Cardinality(Started') /\ Len(snaps') <= Cardinality(Ended')
      BY <2>1, <3>3, <3>4, <3>5, FiniteJobs DEF SnapInv
    <3>7. QED BY <1>a, <2>1, <3>6 DEF SnapInv
  <2>4. QED BY <1>2, <2>2, <2>3 DEF WPick
<1>3. CASE WLock
  <2>1. UNCHANGED <<phase, snaps, seenApp, fpc>> /\ wpc = "lock"
        /\ wpc' \in {"validate", "look", "step"}
    BY <1>3 DEF WLock
  <2>2. QED BY <1>a, <2>1, PhaseSnaps, SnapsKept
<1>4. CASE WValidate
  <2>1. /\ UNCHANGED <<phase, snaps, seenApp>> /\ wpc = "validate" /\ wpc' \in {"funnel", "end"}
        /\ fpc' = fpc \/ fpc' = [fpc EXCEPT !["worker"] = "gate"]
    BY <1>4 DEF WValidate, EnterFunnel
  <2>2. \A t \in Threads : fpc'[t] = "ok" => fpc[t] = "ok" BY <2>1 DEF LockInv
  <2>3. QED BY <1>a, <2>1, <2>2, PhaseSnaps, SnapsKept
<1>5. CASE WLook
  <2>1. /\ UNCHANGED <<phase, fpc>> /\ wpc = "look" /\ wpc' = "end"
        /\ seenApp' = seenApp \/ seenApp' = phone
        /\ snaps' = snaps \/ snaps' = Append(snaps, phone)
    BY <1>5 DEF WLook, SetSnapshot
  <2>2. CASE snaps' = snaps BY <1>a, <2>1, <2>2, PhaseSnaps, SnapsKept
  <2>3. CASE snaps' = Append(snaps, phone)
    BY <1>0, <1>a, <2>1, <2>3, SnapAdded DEF SnapInv
  <2>4. QED BY <2>1, <2>2, <2>3
<1>6. CASE WStep
  <2>1. /\ UNCHANGED <<phase, snaps, seenApp>> /\ wpc = "step" /\ wpc' \in {"funnel", "end"}
        /\ fpc' = fpc \/ fpc' = [fpc EXCEPT !["worker"] = "gate"]
    BY <1>6 DEF WStep, EnterFunnel
  <2>2. \A t \in Threads : fpc'[t] = "ok" => fpc[t] = "ok" BY <2>1 DEF LockInv
  <2>3. QED BY <1>a, <2>1, <2>2, PhaseSnaps, SnapsKept
<1>7. CASE WReturn
  <2>1. /\ UNCHANGED <<phase, snaps, seenApp>> /\ wpc = "funnel"
        /\ fpc' = [fpc EXCEPT !["worker"] = "out"]
        /\ wpc' = "put" => fpc["worker"] = "ok"
    BY <1>7 DEF WReturn
  <2>2. \A t \in Threads : fpc'[t] = "ok" => fpc[t] = "ok" BY <2>1 DEF LockInv
  <2>3. QED BY <1>a, <2>1, <2>2, PhaseSnaps, SnapsKept
<1>8. CASE WPut
  <2>1. UNCHANGED <<phase, fpc, seenApp>> /\ wpc = "put" /\ wpc' = "end"
        /\ snaps' = Append(snaps, seenApp)
    BY <1>8 DEF WPut
  <2>2. seenApp \in Apps BY <2>1 DEF SnapInv
  <2>3. QED BY <1>0, <2>1, <2>2, SnapAdded
<1>9. CASE WEnd
  <2>1. UNCHANGED <<snaps, seenApp, fpc>> /\ wpc = "end" /\ wpc' = "idle" /\ cur \in JobIds
        /\ phase' = [phase EXCEPT ![cur] = "ended"]
    BY <1>9 DEF WEnd, Service!End, JobInv
  <2>2. Started' = Started /\ Ended' = Started
    BY <2>1 DEF JobInv, Ended, Started
  <2>3. QED BY <1>a, <2>1, <2>2 DEF SnapInv
<1>10. QED BY <1>1, <1>2, <1>3, <1>4, <1>5, <1>6, <1>7, <1>8, <1>9 DEF WorkerStep

LEMMA ServerSnaps ==
    ASSUME SnapInv, JobInv, LockInv, ServerStep
    PROVE  SnapInv'
<1> USE DEF jobs, funnel, user, worker
<1>1. UNCHANGED <<snaps, seenApp, phone>>
  BY DEF ServerStep, Accept, Read, HangUp, ConnectionReset, HandlePing, HandleSubmit,
         HandleJobPoll, HandleMacroCancel, HandleStop, HandleShutdown, HandleEventsPoll,
         TriggeredMacro, Leave, ExitProcess
<1>2. phone' \in Apps BY <1>1 DEF SnapInv
<1>3. CASE HandleSubmit
  <2>1. UNCHANGED <<wpc, fpc>> BY <1>3 DEF HandleSubmit
  <2>2. CASE \E j \in JobIds : Service!Accept(j, "none")
    <3>1. PICK j \in JobIds : Service!Accept(j, "none") BY <2>2
    <3>2. phase[j] = "none" /\ phase' = [phase EXCEPT ![j] = "queued"]
      BY <3>1 DEF Service!Accept
    <3>3. UNCHANGED <<Ended, Started>> BY <3>2 DEF JobInv, Ended, Started
    <3>4. QED BY <1>1, <1>2, <2>1, <3>3, SnapsKept
  <2>3. CASE UNCHANGED phase BY <1>1, <1>2, <2>1, <2>3, PhaseSnaps, SnapsKept
  <2>4. QED BY <1>3, <2>2, <2>3 DEF HandleSubmit
<1>4. CASE TriggeredMacro
  <2>1. UNCHANGED <<wpc, phase>>
        /\ \E place \in {"gate", "out"} : fpc' = [fpc EXCEPT !["server"] = place]
    BY <1>4 DEF TriggeredMacro
  <2>2. \A t \in Threads : fpc'[t] = "ok" => fpc[t] = "ok" BY <2>1 DEF LockInv
  <2>3. QED BY <1>1, <1>2, <2>1, <2>2, PhaseSnaps, SnapsKept
<1>5. CASE ExitProcess
  <2>1. UNCHANGED <<phase, fpc>> /\ wpc' = "dead" BY <1>5 DEF ExitProcess
  <2>2. QED BY <1>1, <1>2, <2>1, PhaseSnaps, SnapsKept
<1>6. CASE UNCHANGED <<wpc, phase, fpc>>
  BY <1>1, <1>2, <1>6, PhaseSnaps, SnapsKept
<1>7. QED
  BY <1>3, <1>4, <1>5, <1>6
     DEF ServerStep, Accept, Read, HangUp, ConnectionReset, HandlePing, HandleJobPoll,
         HandleMacroCancel, HandleStop, HandleShutdown, HandleEventsPoll, Leave

LEMMA FunnelSnaps ==
    ASSUME SnapInv, LockInv, NEW t \in Threads, FunnelStep(t)
    PROVE  SnapInv'
<1>1. UNCHANGED <<phase, snaps, phone, wpc>>
  BY DEF FunnelStep, FEnter, FObserve, FInject, FAfter, FunnelFrame, jobs, worker, user
<1>2. phone' \in Apps BY <1>1 DEF SnapInv
<1>3. \E place \in Places :
        /\ fpc' = [fpc EXCEPT ![t] = place]
        /\ seenApp' = phone \/ (UNCHANGED seenApp /\ place # "ok")
  <2>1. CASE FEnter(t) BY <2>1 DEF FEnter, Places
  <2>2. CASE FObserve(t) BY <2>2 DEF FObserve, Unlocked, SetSnapshot, Places
  <2>3. CASE FInject(t) BY <2>3 DEF FInject, Unlocked, Places
  <2>4. CASE FAfter(t) BY <2>4 DEF FAfter, Unlocked, SetSnapshot, Places
  <2>5. QED BY <2>1, <2>2, <2>3, <2>4 DEF FunnelStep
<1>4. \A u \in Threads : fpc'[u] = "ok" => fpc[u] = "ok" \/ seenApp' = phone
  BY <1>3 DEF LockInv
<1>5. QED BY <1>1, <1>2, <1>3, <1>4, PhaseSnaps, SnapsKept

LEMMA StepSnaps ==
    ASSUME SnapInv, JobInv, LockInv, [Next]_vars
    PROVE  SnapInv'
<1> USE DEF jobs, worker, funnel, user
<1>1. CASE ServerStep BY <1>1, ServerSnaps
<1>2. CASE WorkerStep BY <1>2, WorkerSnaps
<1>3. CASE \E t \in Threads : FunnelStep(t) BY <1>3, FunnelSnaps
<1>4. CASE UserActs
  <2>1. UNCHANGED <<phase, snaps, seenApp, wpc, fpc>> BY <1>4 DEF UserActs, UserFrame
  <2>2. phone' \in Apps BY <1>4 DEF UserActs, SnapInv
  <2>3. QED BY <2>1, <2>2, PhaseSnaps, SnapsKept
<1>5. CASE ClientFrame BY <1>5, PhaseSnaps, SnapsKept DEF ClientFrame, SnapInv
<1>6. CASE UNCHANGED vars BY <1>6, PhaseSnaps, SnapsKept DEF vars, SnapInv
<1>7. QED
  BY <1>1, <1>2, <1>3, <1>4, <1>5, <1>6, ClientFrames DEF Next

-----------------------------------------------------------------------------
(* The whole invariant.                                                    *)

LEMMA StepFlags ==
    ASSUME FlagInv, [Next]_vars
    PROVE  FlagInv'
<1> USE DEF FlagInv
<1>1. CASE WorkerStep
  BY <1>1 DEF WorkerStep, WLoop, WPick, WLock, WValidate, WLook, WStep, WReturn, WPut, WEnd,
              WorkerFrame, server, jobs, worker, funnel, stopping, user
<1>2. CASE \E t \in Threads : FunnelStep(t)
  <2>1. PICK t \in Threads : FunnelStep(t) BY <1>2
  <2>2. UNCHANGED <<running, jobsStopped, stopFile, barrier, inFlight, events>>
    BY <2>1 DEF FunnelStep, FEnter, FObserve, FInject, FAfter, FunnelFrame, server, jobs, stopping,
                user
  <2>3. /\ actionLock' \in {actionLock, t, "free"}
        /\ inputs' = inputs \/ inputs' = inputs + 1
    BY <2>1 DEF FunnelStep, FEnter, FObserve, FInject, FAfter, Unlocked
  <2>4. actionLock' \in Threads \cup {"free"} /\ inputs' \in Nat BY <2>3
  <2>5. QED BY <2>2, <2>4
<1>3. CASE ServerStep
  <2>1. UNCHANGED <<actionLock, inputs, events>>
    BY <1>3 DEF ServerStep, Accept, Read, HangUp, ConnectionReset, HandlePing, HandleSubmit,
           HandleJobPoll, HandleMacroCancel, HandleStop, HandleShutdown, HandleEventsPoll,
           TriggeredMacro, Leave, ExitProcess, funnel, user
  <2>2. /\ running' = running \/ running' = FALSE
        /\ jobsStopped' = jobsStopped \/ jobsStopped' = TRUE
        /\ stopFile' = stopFile \/ stopFile' = TRUE
        /\ barrier' = barrier \/ barrier' = TRUE
    BY <1>3 DEF ServerStep, Accept, Read, HangUp, ConnectionReset, HandlePing, HandleSubmit,
           HandleJobPoll, HandleMacroCancel, HandleStop, HandleShutdown, HandleEventsPoll,
           TriggeredMacro, Leave, ExitProcess, stopping, jobs
  <2>3. inFlight' \in BOOLEAN
    <3>1. CASE Read
      BY <3>1 DEF Read
    <3>2. CASE ~Read
      BY <1>3, <3>2 DEF ServerStep, Accept, HangUp, ConnectionReset, HandlePing, HandleSubmit,
             HandleJobPoll, HandleMacroCancel, HandleStop, HandleShutdown, HandleEventsPoll,
             TriggeredMacro, Leave, ExitProcess, Reply
    <3>3. QED BY <3>1, <3>2
  <2>4. QED BY <2>1, <2>2, <2>3
<1>4. CASE UserActs
  <2>1. UNCHANGED <<actionLock, inputs, inFlight>> /\ events' = events + 1 /\ events < MaxEvents
    BY <1>4 DEF UserActs, UserFrame, funnel
  <2>2. /\ running' = running \/ running' = FALSE
        /\ jobsStopped' = jobsStopped \/ jobsStopped' = TRUE
        /\ stopFile' \in {stopFile, TRUE, FALSE}
        /\ barrier' \in {barrier, FALSE}
    BY <1>4 DEF UserActs, stopping
  <2>3. events' \in 0..MaxEvents BY <2>1, DaemonConstants
  <2>4. QED BY <2>1, <2>2, <2>3
<1>5. CASE ClientFrame BY <1>5 DEF ClientFrame, server, jobs, funnel, stopping, user
<1>6. CASE UNCHANGED vars BY <1>6 DEF vars, server, jobs, funnel, stopping, user
<1>7. QED
  BY <1>1, <1>2, <1>3, <1>4, <1>5, <1>6, ClientFrames DEF Next

THEOREM DaemonInvariant == Spec => []IInv
<1>1. Init => IInv
  <2>1. Init => FlagInv
    <3>1. 0 \in 0..MaxEvents /\ 0 \in Nat BY DaemonConstants
    <3>2. Init => inputs \in Nat /\ events \in 0..MaxEvents /\ actionLock \in Threads \cup {"free"}
      BY <3>1 DEF Init
    <3>3. Init => /\ running \in BOOLEAN /\ jobsStopped \in BOOLEAN /\ stopFile \in BOOLEAN
                  /\ barrier \in BOOLEAN /\ inFlight \in BOOLEAN
      BY DEF Init
    <3>4. QED BY <3>2, <3>3 DEF FlagInv
  <2>2. QED BY <2>1, InitLocks, InitJobs, InitConns, InitSnaps DEF IInv
<1>2. IInv /\ [Next]_vars => IInv'
  <2> SUFFICES ASSUME IInv, [Next]_vars PROVE IInv'
    OBVIOUS
  <2>1. ConnInv' BY StepConns DEF IInv
  <2>2. JobInv' BY <2>1, StepJobs DEF IInv, ConnInv
  <2>3. QED BY <2>1, <2>2, StepLocks, StepSnaps, StepFlags DEF IInv
<1>3. QED BY <1>1, <1>2, PTL DEF Spec

\* Every variable keeps its type; above all, no client polls oftener than it may, a
\* connection is not shared, and the snapshot cache does not outgrow the jobs.
THEOREM DaemonTypes == Spec => []TypeOK
<1>1. IInv => TypeOK
  <2> SUFFICES ASSUME IInv PROVE TypeOK
    OBVIOUS
  <2>1. Len(snaps) <= MaxSnaps
    <3>1. Len(snaps) \in Nat /\ Len(snaps) <= Cardinality(Started) BY DEF IInv, SnapInv
    <3>2. QED BY <3>1, FiniteJobs, DaemonConstants
  <2>2. QED BY <2>1 DEF IInv, LockInv, JobInv, ConnInv, SnapInv, FlagInv, TypeOK
<1>2. QED BY <1>1, DaemonInvariant, PTL

-----------------------------------------------------------------------------
(* The daemon's jobs, whatever the clients, the server thread and the user do  *)
(* around them, are those the registry promises.                             *)

LEMMA ServiceStep ==
    ASSUME IInv, [Next]_vars
    PROVE  Service!JobNext \/ UNCHANGED phase
<1> USE DEF jobs
<1>1. CASE ServerStep
  <2>1. CASE HandleSubmit
    BY <2>1 DEF HandleSubmit, Service!JobNext
  <2>2. CASE UNCHANGED phase BY <2>2
  <2>3. QED
    BY <1>1, <2>1, <2>2
       DEF ServerStep, Accept, Read, HangUp, ConnectionReset, HandlePing, HandleJobPoll,
           HandleMacroCancel, HandleStop, HandleShutdown, HandleEventsPoll, TriggeredMacro, Leave,
           ExitProcess
<1>2. CASE WorkerStep
  <2>1. CASE WPick BY <2>1 DEF WPick, Service!JobNext
  <2>2. CASE WEnd
    <3>1. cur \in JobIds BY <2>2 DEF WEnd, IInv, JobInv
    <3>2. QED BY <2>2, <3>1 DEF WEnd, Service!JobNext
  <2>3. CASE UNCHANGED phase BY <2>3
  <2>4. QED
    BY <1>2, <2>1, <2>2, <2>3 DEF WorkerStep, WLoop, WLock, WValidate, WLook, WStep, WReturn, WPut
<1>3. CASE \E t \in Threads : FunnelStep(t)
  BY <1>3 DEF FunnelStep, FEnter, FObserve, FInject, FAfter, FunnelFrame
<1>4. CASE UserActs \/ ClientFrame \/ UNCHANGED vars
  BY <1>4 DEF UserActs, UserFrame, ClientFrame, vars
<1>5. QED BY <1>1, <1>2, <1>3, <1>4, ClientFrames DEF Next

\* The composed daemon implements the abstract job service: every accepted job runs
\* once, one at a time, in the order of acceptance.
THEOREM DaemonServesJobs == Spec => Service!JobSpec
<1>1. Init => Service!JobInit
  BY DEF Init, Service!JobInit
<1>2. IInv /\ [Next]_vars => [Service!JobNext]_<<phase, [j \in JobIds |-> "none"]>>
  BY ServiceStep
<1>3. QED
  BY <1>1, <1>2, DaemonInvariant, PTL DEF Spec, Service!JobSpec
=============================================================================
