------------------------- MODULE JobRegistryProofs -------------------------
(* Theorems about JobRegistry, for every value of its constants.            *)
EXTENDS JobRegistry, TLAPS

(***************************************************************************)
(* The inductive invariant.                                                *)
(***************************************************************************)

\* Who is where: a place that uses a job has one, and _cv is held where the
\* code holds it.
PlacesInv ==
    /\ wpc \in {"run", "result", "status", "time"} => cur \in Ids
    /\ wpc \in {"loop", "pick", "wait"} => cur = NoJob
    /\ wpc \in {"status", "time"} => cv = "worker"
    /\ spc = "dedupe" => cv = "server" /\ nextId \in Ids
    /\ spc \in {"status", "result"} => polled \in Ids

\* At most one job runs, the worker's; a job has its finishing time after its
\* status, and only inside the worker's last critical section (or when the
\* process ended there) is there one without the other.
RunInv ==
    /\ wpc \in {"run", "result", "status"} => status[cur] = "running"
    /\ wpc = "time" => status[cur] \in Terminal /\ finished[cur] = Never
    /\ \A j \in Ids : status[j] = "running" => j = cur
    /\ \A j \in Ids : status[j] \in Live => finished[j] = Never
    /\ \A j \in Ids : status[j] \in Terminal /\ finished[j] = Never
                        => (wpc = "time" /\ j = cur) \/ spc = "exited"

\* Ids not handed out yet are nowhere.
FreshInv ==
    /\ \A i \in DOMAIN queue : queue[i] < nextId
    /\ \A j \in Ids : j >= nextId => status[j] = "absent" /\ finished[j] = Never

\* A job with a key is its key's entry, or has ended at least the TTL ago.
KeyInv ==
    /\ \A k \in Keys : byKey[k] # NoJob
                        => /\ byKey[k] < nextId /\ key[byKey[k]] = k
                           /\ status[byKey[k]] # "absent"
    /\ \A j \in Ids : j < nextId /\ key[j] # NoKey
                        => byKey[key[j]] = j
                           \/ (finished[j] # Never /\ clock - finished[j] >= TTL)

\* A job that has ended holds the envelope of its run, and one that was seen to
\* have ended never runs again.
Told(j, s) == /\ result[j] = truth[j] /\ result[j] # "none"
              /\ s = "done" <=> result[j] = "ok"
ResultInv ==
    /\ wpc = "result" => truth[cur] # "none"
    /\ wpc = "status" => result[cur] = truth[cur] /\ truth[cur] # "none"
    /\ \A j \in Ids : status[j] \in Terminal => Told(j, status[j])
    /\ spc = "status" => polled < nextId
    /\ spc = "result" => polled < nextId
    /\ spc = "result" /\ seen \in Terminal
        => status[polled] \notin Live /\ Told(polled, seen)

LateInv ==
    /\ late \in {0, 1}
    /\ late = 1 => stopped /\ wpc \notin {"pick", "wait"}

IInv == /\ TypeOK /\ PlacesInv /\ RunInv /\ FreshInv /\ QueueAgrees /\ KeyInv
        /\ NoEarlyRepeat /\ ResultInv /\ LateInv

-----------------------------------------------------------------------------
(* The queue. *)

LEMMA AppendFacts ==
    ASSUME NEW q \in Seq(Ids), NEW j \in Ids
    PROVE  /\ Append(q, j) \in Seq(Ids)
           /\ Len(Append(q, j)) = Len(q) + 1
           /\ \A i \in 1..Len(q) : Append(q, j)[i] = q[i]
           /\ Append(q, j)[Len(q) + 1] = j
  OBVIOUS

LEMMA TailFacts ==
    ASSUME NEW q \in Seq(Ids), q # <<>>
    PROVE  /\ Head(q) \in Ids /\ Head(q) = q[1] /\ Len(q) \in Nat /\ Len(q) > 0
           /\ Tail(q) \in Seq(Ids) /\ Len(Tail(q)) = Len(q) - 1
           /\ \A i \in 1..(Len(q) - 1) : Tail(q)[i] = q[i + 1]
  OBVIOUS

LEMMA IdsAreNumbers ==
    /\ \A j \in Ids : j \in Nat /\ j # NoJob /\ j <= MaxJobs
    /\ NoJob \notin Ids
    /\ \A n \in 1..(MaxJobs + 1) : n <= MaxJobs => n \in Ids
  BY JobConstants DEF Ids, NoJob

-----------------------------------------------------------------------------
(* The initial state. *)

LEMMA InvInit == Init => IInv
  <1> SUFFICES ASSUME Init PROVE IInv
    OBVIOUS
  <1>1. TypeOK
    <2>1. queue \in Seq(Ids)
      BY DEF Init
    <2>2. 0 \in Times /\ 1 \in 1..(MaxJobs + 1)
      BY JobConstants DEF Times
    <2> QED
      BY <2>1, <2>2 DEF Init, TypeOK, NoJob, Live
  <1>2. PlacesInv /\ RunInv
    BY JobConstants DEF Init, PlacesInv, RunInv, Live, Terminal
  <1>3. FreshInv /\ QueueAgrees
    BY JobConstants DEF Init, FreshInv, QueueAgrees
  <1>4. KeyInv /\ NoEarlyRepeat
    BY JobConstants DEF Init, KeyInv, NoEarlyRepeat, Ids
  <1>5. ResultInv /\ LateInv
    BY DEF Init, ResultInv, LateInv, Terminal
  <1> QED
    BY <1>1, <1>2, <1>3, <1>4, <1>5 DEF IInv

LEMMA InvLoop ==
    ASSUME IInv, Loop
    PROVE  IInv'
  <1>1. TypeOK'
    BY DEF IInv, Loop, fields, server, history, TypeOK
  <1>2. PlacesInv'
    BY DEF IInv, Loop, fields, server, history, PlacesInv
  <1>3. RunInv'
    BY DEF IInv, Loop, fields, server, history, RunInv, Terminal
  <1>4. FreshInv'
    BY IdsAreNumbers, JobConstants DEF IInv, Loop, fields, server, history, TypeOK, FreshInv
  <1>5. QueueAgrees'
    BY DEF IInv, Loop, fields, QueueAgrees
  <1>6. KeyInv'
    BY DEF IInv, Loop, fields, KeyInv
  <1>7. NoEarlyRepeat'
    BY DEF IInv, Loop, fields, server, history, NoEarlyRepeat
  <1>8. ResultInv'
    BY DEF IInv, Loop, fields, server, history, RunInv, ResultInv, Told, Terminal
  <1>9. LateInv'
    BY DEF IInv, Loop, fields, server, history, LateInv
  <1> QED
    BY <1>1, <1>2, <1>3, <1>4, <1>5, <1>6, <1>7, <1>8, <1>9 DEF IInv

LEMMA InvRun ==
    ASSUME IInv, Run
    PROVE  IInv'
  <1>1. TypeOK'
    BY IdsAreNumbers, JobConstants
       DEF IInv, Run, Results, fields, server, TypeOK, PlacesInv, Live
  <1>2. PlacesInv'
    BY DEF IInv, Run, Results, fields, server, PlacesInv
  <1>3. RunInv'
    BY DEF IInv, Run, Results, fields, server, RunInv, Terminal
  <1>4. FreshInv'
    BY DEF IInv, Run, Results, fields, FreshInv
  <1>5. QueueAgrees'
    BY DEF IInv, Run, Results, fields, QueueAgrees
  <1>6. KeyInv'
    BY DEF IInv, Run, Results, fields, KeyInv
  <1>7. NoEarlyRepeat'
    BY DEF IInv, Run, Results, fields, NoEarlyRepeat
  <1>8. ResultInv'
    BY DEF IInv, Run, Results, fields, server, TypeOK, PlacesInv, RunInv, ResultInv, Told,
           Live, Terminal
  <1>9. LateInv'
    BY DEF IInv, Run, Results, fields, LateInv
  <1> QED
    BY <1>1, <1>2, <1>3, <1>4, <1>5, <1>6, <1>7, <1>8, <1>9 DEF IInv

LEMMA InvFinishFirst ==
    ASSUME IInv, FinishFirst
    PROVE  IInv'
  <1>1. TypeOK'
    BY DEF IInv, FinishFirst, Assign, server, history, TypeOK
  <1>2. PlacesInv'
    BY DEF IInv, FinishFirst, Assign, server, history, PlacesInv
  <1>3. RunInv'
    BY DEF IInv, FinishFirst, Assign, server, history, RunInv, Terminal
  <1>4. FreshInv'
    BY DEF IInv, FinishFirst, Assign, FreshInv
  <1>5. QueueAgrees'
    BY DEF IInv, FinishFirst, Assign, QueueAgrees
  <1>6. KeyInv'
    BY DEF IInv, FinishFirst, Assign, KeyInv
  <1>7. NoEarlyRepeat'
    BY DEF IInv, FinishFirst, Assign, server, history, NoEarlyRepeat
  <1>8. ResultInv'
    BY DEF IInv, FinishFirst, Assign, server, history, TypeOK, PlacesInv, RunInv,
           ResultInv, Told, Live, Terminal
  <1>9. LateInv'
    BY DEF IInv, FinishFirst, Assign, server, history, LateInv
  <1> QED
    BY <1>1, <1>2, <1>3, <1>4, <1>5, <1>6, <1>7, <1>8, <1>9 DEF IInv

LEMMA InvPollStatus ==
    ASSUME IInv, PollStatus
    PROVE  IInv'
  <1>1. TypeOK'
    BY DEF IInv, PollStatus, fields, worker, history, TypeOK, PlacesInv, Live
  <1>2. PlacesInv'
    BY DEF IInv, PollStatus, fields, worker, history, PlacesInv
  <1>3. RunInv'
    BY DEF IInv, PollStatus, fields, worker, history, RunInv, Terminal
  <1>4. FreshInv'
    BY DEF IInv, PollStatus, fields, FreshInv
  <1>5. QueueAgrees'
    BY DEF IInv, PollStatus, fields, QueueAgrees
  <1>6. KeyInv'
    BY DEF IInv, PollStatus, fields, KeyInv
  <1>7. NoEarlyRepeat'
    BY DEF IInv, PollStatus, fields, worker, history, NoEarlyRepeat
  <1>8. ResultInv'
    BY DEF IInv, PollStatus, fields, worker, history, PlacesInv, RunInv, ResultInv, Told,
           Live, Terminal
  <1>9. LateInv'
    BY DEF IInv, PollStatus, fields, worker, history, LateInv
  <1> QED
    BY <1>1, <1>2, <1>3, <1>4, <1>5, <1>6, <1>7, <1>8, <1>9 DEF IInv

LEMMA InvPollResult ==
    ASSUME IInv, PollResult
    PROVE  IInv'
  <1>1. TypeOK'
    BY DEF IInv, PollResult, fields, worker, history, TypeOK
  <1>2. PlacesInv'
    BY DEF IInv, PollResult, fields, worker, history, PlacesInv
  <1>3. RunInv'
    BY DEF IInv, PollResult, fields, worker, history, RunInv, Terminal
  <1>4. FreshInv'
    BY DEF IInv, PollResult, fields, FreshInv
  <1>5. QueueAgrees'
    BY DEF IInv, PollResult, fields, QueueAgrees
  <1>6. KeyInv'
    BY DEF IInv, PollResult, fields, KeyInv
  <1>7. NoEarlyRepeat'
    BY DEF IInv, PollResult, fields, worker, history, NoEarlyRepeat
  <1>8. ResultInv'
    BY DEF IInv, PollResult, fields, worker, history, RunInv, ResultInv, Told, Terminal
  <1>9. LateInv'
    BY DEF IInv, PollResult, fields, worker, history, LateInv
  <1> QED
    BY <1>1, <1>2, <1>3, <1>4, <1>5, <1>6, <1>7, <1>8, <1>9 DEF IInv

LEMMA InvStop ==
    ASSUME IInv, Stop
    PROVE  IInv'
  <1>1. TypeOK'
    BY DEF IInv, Stop, fields, worker, server, history, TypeOK
  <1>2. PlacesInv'
    BY DEF IInv, Stop, fields, worker, server, history, PlacesInv
  <1>3. RunInv'
    BY DEF IInv, Stop, fields, worker, server, history, RunInv, Terminal
  <1>4. FreshInv'
    BY DEF IInv, Stop, fields, FreshInv
  <1>5. QueueAgrees'
    BY DEF IInv, Stop, fields, QueueAgrees
  <1>6. KeyInv'
    BY DEF IInv, Stop, fields, KeyInv
  <1>7. NoEarlyRepeat'
    BY DEF IInv, Stop, fields, worker, server, history, NoEarlyRepeat
  <1>8. ResultInv'
    BY IdsAreNumbers, JobConstants
       DEF IInv, Stop, fields, worker, server, history, RunInv, ResultInv, Told, Terminal
  <1>9. LateInv'
    BY DEF IInv, Stop, fields, worker, server, history, TypeOK, LateInv
  <1> QED
    BY <1>1, <1>2, <1>3, <1>4, <1>5, <1>6, <1>7, <1>8, <1>9 DEF IInv

LEMMA InvExit ==
    ASSUME IInv, Exit
    PROVE  IInv'
  <1>1. TypeOK'
    BY DEF IInv, Exit, fields, history, TypeOK
  <1>2. PlacesInv'
    BY DEF IInv, Exit, fields, PlacesInv
  <1>3. RunInv'
    BY DEF IInv, Exit, fields, RunInv, Terminal
  <1>4. FreshInv'
    BY DEF IInv, Exit, fields, FreshInv
  <1>5. QueueAgrees'
    BY DEF IInv, Exit, fields, QueueAgrees
  <1>6. KeyInv'
    BY DEF IInv, Exit, fields, KeyInv
  <1>7. NoEarlyRepeat'
    BY DEF IInv, Exit, fields, history, NoEarlyRepeat
  <1>8. ResultInv'
    BY DEF IInv, Exit, fields, history, RunInv, ResultInv, Told, Terminal
  <1>9. LateInv'
    BY DEF IInv, Exit, fields, history, LateInv
  <1> QED
    BY <1>1, <1>2, <1>3, <1>4, <1>5, <1>6, <1>7, <1>8, <1>9 DEF IInv

LEMMA InvTick ==
    ASSUME IInv, Tick
    PROVE  IInv'
  <1>1. TypeOK'
    BY IdsAreNumbers, JobConstants
       DEF IInv, Tick, Times, fields, worker, server, history, TypeOK
  <1>2. PlacesInv'
    BY DEF IInv, Tick, Times, fields, worker, server, history, PlacesInv
  <1>3. RunInv'
    BY DEF IInv, Tick, Times, fields, worker, server, history, RunInv, Terminal
  <1>4. FreshInv'
    BY DEF IInv, Tick, Times, fields, FreshInv
  <1>5. QueueAgrees'
    BY DEF IInv, Tick, Times, fields, QueueAgrees
  <1>6. KeyInv'
    BY IdsAreNumbers, JobConstants DEF IInv, Tick, Times, fields, TypeOK, KeyInv
  <1>7. NoEarlyRepeat'
    BY DEF IInv, Tick, Times, fields, worker, server, history, NoEarlyRepeat
  <1>8. ResultInv'
    BY DEF IInv, Tick, Times, fields, worker, server, history, RunInv, ResultInv, Told,
           Terminal
  <1>9. LateInv'
    BY DEF IInv, Tick, Times, fields, worker, server, history, LateInv
  <1> QED
    BY <1>1, <1>2, <1>3, <1>4, <1>5, <1>6, <1>7, <1>8, <1>9 DEF IInv

LEMMA InvPoll ==
    ASSUME IInv, NEW j \in Ids, Poll(j)
    PROVE  IInv'
  <1>1. TypeOK'
    BY DEF IInv, Poll, fields, worker, history, TypeOK
  <1>2. PlacesInv'
    BY DEF IInv, Poll, fields, worker, history, PlacesInv
  <1>3. RunInv'
    BY DEF IInv, Poll, fields, worker, history, RunInv, Terminal
  <1>4. FreshInv'
    BY DEF IInv, Poll, fields, FreshInv
  <1>5. QueueAgrees'
    BY DEF IInv, Poll, fields, QueueAgrees
  <1>6. KeyInv'
    BY DEF IInv, Poll, fields, KeyInv
  <1>7. NoEarlyRepeat'
    BY DEF IInv, Poll, fields, worker, history, NoEarlyRepeat
  <1>8. ResultInv'
    <2>1. j < nextId
      BY IdsAreNumbers DEF IInv, TypeOK, FreshInv, Poll
    <2> QED
      BY <2>1 DEF IInv, Poll, fields, worker, history, ResultInv, Told
  <1>9. LateInv'
    BY DEF IInv, Poll, fields, worker, history, TypeOK, LateInv
  <1> QED
    BY <1>1, <1>2, <1>3, <1>4, <1>5, <1>6, <1>7, <1>8, <1>9 DEF IInv

LEMMA InvFinishSecond ==
    ASSUME IInv, FinishSecond
    PROVE  IInv'
  <1>1. TypeOK'
    <2>1. status' \in [Ids -> Live \cup Terminal \cup {"absent"}]
      BY DEF IInv, FinishSecond, Assign, TypeOK, Terminal
    <2> QED
      BY <2>1 DEF IInv, FinishSecond, Assign, server, history, TypeOK
  <1>2. PlacesInv'
    BY DEF IInv, FinishSecond, Assign, server, history, PlacesInv
  <1>3. RunInv'
    BY DEF IInv, FinishSecond, Assign, server, history, TypeOK, PlacesInv, RunInv, Live,
           Terminal
  <1>4. FreshInv'
    <2>1. cur \in Ids /\ status[cur] = "running"
      BY DEF IInv, PlacesInv, RunInv, FinishSecond
    <2> QED
      BY <2>1, IdsAreNumbers DEF IInv, FinishSecond, Assign, TypeOK, FreshInv
  <1>5. QueueAgrees'
    <2>1. cur \in Ids /\ status[cur] = "running" /\ status'[cur] # "queued"
      BY DEF IInv, PlacesInv, RunInv, FinishSecond, Assign, TypeOK
    <2>2. \A j \in Ids : status'[j] = "queued" <=> status[j] = "queued"
      BY <2>1 DEF IInv, FinishSecond, Assign, TypeOK
    <2>3. queue' = queue
      BY DEF FinishSecond
    <2> QED
      BY <2>2, <2>3 DEF IInv, QueueAgrees
  <1>6. KeyInv'
    BY DEF IInv, FinishSecond, Assign, TypeOK, KeyInv
  <1>7. NoEarlyRepeat'
    BY DEF IInv, FinishSecond, Assign, server, history, NoEarlyRepeat
  <1>8. ResultInv'
    BY DEF IInv, FinishSecond, Assign, server, history, TypeOK, PlacesInv, RunInv,
           ResultInv, Told, Live, Terminal
  <1>9. LateInv'
    BY DEF IInv, FinishSecond, Assign, server, history, LateInv
  <1> QED
    BY <1>1, <1>2, <1>3, <1>4, <1>5, <1>6, <1>7, <1>8, <1>9 DEF IInv

LEMMA InvFinishTime ==
    ASSUME IInv, FinishTime
    PROVE  IInv'
  <1> USE IdsAreNumbers, JobConstants
  <1>a. /\ cur \in Ids /\ status[cur] \in Terminal /\ finished[cur] = Never
        /\ cur < nextId
    <2>1. cur \in Ids /\ status[cur] \in Terminal /\ finished[cur] = Never
      BY DEF IInv, FinishTime, PlacesInv, RunInv
    <2>2. nextId \in Nat /\ status[cur] # "absent"
      BY <2>1 DEF IInv, TypeOK, Terminal
    <2> QED
      BY <2>1, <2>2 DEF IInv, FreshInv
  <1>b. /\ finished'[cur] = clock /\ clock # Never
        /\ \A j \in Ids : j # cur => finished'[j] = finished[j]
    BY <1>a DEF IInv, FinishTime, TypeOK, Times, Never
  <1>1. TypeOK'
    BY DEF IInv, FinishTime, Times, server, TypeOK
  <1>2. PlacesInv'
    BY DEF IInv, FinishTime, Times, server, PlacesInv
  <1>3. RunInv'
    <2>1. status' = status /\ cur' = NoJob /\ wpc' = "loop" /\ wpc = "time" /\ spc' = spc
      BY DEF FinishTime, server
    <2>2. \A j \in Ids : status[j] # "running"
      BY <1>a, <2>1 DEF IInv, RunInv, Terminal
    <2>3. \A j \in Ids : status[j] \in Live => finished'[j] = Never
      BY <1>a, <1>b DEF IInv, RunInv, Live, Terminal
    <2>4. \A j \in Ids : status[j] \in Terminal /\ finished'[j] = Never => spc = "exited"
      BY <1>b DEF IInv, RunInv
    <2> QED
      BY <2>1, <2>2, <2>3, <2>4 DEF RunInv
  <1>4. FreshInv'
    BY <1>a, <1>b DEF IInv, FinishTime, TypeOK, FreshInv
  <1>5. QueueAgrees'
    BY DEF IInv, FinishTime, Times, QueueAgrees
  <1>6. KeyInv'
    BY <1>a, <1>b DEF IInv, FinishTime, TypeOK, KeyInv
  <1>7. NoEarlyRepeat'
    BY <1>a, <1>b DEF IInv, FinishTime, TypeOK, NoEarlyRepeat
  <1>8. ResultInv'
    BY DEF IInv, FinishTime, Times, server, RunInv, ResultInv, Told, Terminal
  <1>9. LateInv'
    BY DEF IInv, FinishTime, Times, LateInv
  <1> QED
    BY <1>1, <1>2, <1>3, <1>4, <1>5, <1>6, <1>7, <1>8, <1>9 DEF IInv

LEMMA SweepFacts ==
    ASSUME Sweep
    PROVE  /\ \A j \in Ids : status'[j] = IF Expired(j) THEN "absent" ELSE status[j]
           /\ \A m \in Keys : byKey'[m] =
                  IF byKey[m] \in {j \in Ids : Expired(j)} /\ key[byKey[m]] = m
                  THEN NoJob ELSE byKey[m]
  BY DEF Sweep

LEMMA InvSubmit ==
    ASSUME IInv, NEW k \in Keys \cup {NoKey}, Submit(k)
    PROVE  IInv'
  <1>a. \A j \in Ids :
            \/ status'[j] = status[j]
            \/ status'[j] = "absent" /\ Expired(j)
    BY SweepFacts DEF Submit
  <1>b. \A m \in Keys :
            \/ /\ byKey'[m] = NoJob /\ key[byKey[m]] = m /\ byKey[m] \in Ids
               /\ Expired(byKey[m])
            \/ /\ byKey'[m] = byKey[m]
               /\ byKey[m] \in Ids => \/ status'[byKey[m]] = status[byKey[m]]
                                     \/ key[byKey[m]] # m
    BY SweepFacts DEF Submit
  <1>1. TypeOK'
    BY DEF IInv, Submit, Sweep, Expired, worker, history, TypeOK
  <1>2. PlacesInv'
    BY IdsAreNumbers, JobConstants
       DEF IInv, Submit, Sweep, Expired, worker, history, TypeOK, PlacesInv
  <1>3. RunInv'
    BY DEF IInv, Submit, Sweep, Expired, worker, history, PlacesInv, RunInv, Live, Terminal
  <1>4. FreshInv'
    BY DEF IInv, Submit, Sweep, Expired, FreshInv
  <1>5. QueueAgrees'
    <2>1. \A j \in Ids : status'[j] = "queued" <=> status[j] = "queued"
      BY <1>a DEF Expired, Terminal
    <2>2. queue' = queue
      BY DEF Submit
    <2> QED
      BY <2>1, <2>2 DEF IInv, QueueAgrees
  <1>6. KeyInv'
    <2>1. key' = key /\ finished' = finished /\ nextId' = nextId /\ clock' = clock
      BY DEF Submit
    <2>2. \A m \in Keys : byKey'[m] # NoJob => /\ byKey'[m] < nextId' /\ key'[byKey'[m]] = m
                                               /\ status'[byKey'[m]] # "absent"
      BY <1>b, <2>1 DEF IInv, TypeOK, KeyInv
    <2>3. ASSUME NEW j \in Ids, j < nextId, key[j] # NoKey
          PROVE  byKey'[key[j]] = j \/ (finished[j] # Never /\ clock - finished[j] >= TTL)
      <3>1. key[j] \in Keys
        BY <2>3 DEF IInv, TypeOK
      <3>2. CASE byKey[key[j]] = j /\ byKey'[key[j]] # j
        BY <1>b, <3>1, <3>2, JobConstants, IdsAreNumbers
           DEF IInv, TypeOK, Expired, Times, Never
      <3> QED
        BY <2>3, <3>1, <3>2 DEF IInv, KeyInv
    <2> QED
      BY <2>1, <2>2, <2>3 DEF KeyInv
  <1>7. NoEarlyRepeat'
    BY DEF IInv, Submit, Sweep, Expired, worker, history, NoEarlyRepeat
  <1>8. ResultInv'
    BY DEF IInv, Submit, Sweep, Expired, worker, history, RunInv, ResultInv, Told, Terminal
  <1>9. LateInv'
    BY DEF IInv, Submit, Sweep, Expired, worker, history, LateInv
  <1> QED
    BY <1>1, <1>2, <1>3, <1>4, <1>5, <1>6, <1>7, <1>8, <1>9 DEF IInv

\* A submission that is answered with an older job, or refused.
LEMMA InvRefused ==
    ASSUME IInv, spc = "dedupe", spc' = "idle", cv' = "free", want' = NoKey,
           UNCHANGED <<clock, nextId, fields, byKey, queue, accepted, stopped, worker, polled,
                       seen, truth, late>>
    PROVE  IInv'
  <1>1. TypeOK'
    BY DEF IInv, fields, worker, TypeOK, PlacesInv, Live
  <1>2. PlacesInv'
    BY DEF IInv, fields, worker, TypeOK, PlacesInv
  <1>3. RunInv'
    BY DEF IInv, fields, worker, TypeOK, PlacesInv, RunInv, Live, Terminal
  <1>4. FreshInv'
    BY DEF IInv, fields, worker, TypeOK, FreshInv
  <1>5. QueueAgrees'
    BY DEF IInv, fields, worker, TypeOK, QueueAgrees
  <1>6. KeyInv'
    BY DEF IInv, fields, worker, TypeOK, KeyInv
  <1>7. NoEarlyRepeat'
    BY DEF IInv, fields, worker, TypeOK, NoEarlyRepeat
  <1>8. ResultInv'
    BY DEF IInv, fields, worker, TypeOK, PlacesInv, RunInv, ResultInv, Told, Live, Terminal
  <1>9. LateInv'
    BY DEF IInv, fields, worker, TypeOK, LateInv
  <1> QED
    BY <1>1, <1>2, <1>3, <1>4, <1>5, <1>6, <1>7, <1>8, <1>9 DEF IInv

\* A submission that becomes a job.

LEMMA InvAccepted ==
    ASSUME IInv, spc = "dedupe",
           ~Duplicate(want, Entry(want)), Admit,
           spc' = "idle", cv' = "free", want' = NoKey,
           status' = [status EXCEPT ![nextId] = "queued"],
           key' = [key EXCEPT ![nextId] = want],
           byKey' = (IF want = NoKey THEN byKey ELSE [byKey EXCEPT ![want] = nextId]),
           queue' = Append(queue, nextId),
           nextId' = nextId + 1,
           accepted' = [accepted EXCEPT ![nextId] = clock],
           UNCHANGED <<result, finished, clock, stopped, worker, polled, seen, truth, late>>
    PROVE  IInv'
  <1> USE IdsAreNumbers, JobConstants
  <1>a. /\ nextId \in Ids /\ nextId \in Nat /\ nextId + 1 \in 1..(MaxJobs + 1)
        /\ status[nextId] = "absent" /\ finished[nextId] = Never /\ cv = "server"
    BY DEF IInv, PlacesInv, TypeOK, FreshInv, Ids
  <1>b. /\ queue' \in Seq(Ids) /\ Len(queue) \in Nat /\ Len(queue') = Len(queue) + 1
        /\ \A i \in 1..Len(queue) : queue'[i] = queue[i]
        /\ queue'[Len(queue) + 1] = nextId
        /\ DOMAIN queue = 1..Len(queue) /\ DOMAIN queue' = 1..Len(queue')
    BY <1>a, AppendFacts DEF IInv, TypeOK
  <1>c. /\ status'[nextId] = "queued" /\ key'[nextId] = want /\ accepted'[nextId] = clock
        /\ \A j \in Ids : j # nextId => /\ status'[j] = status[j] /\ key'[j] = key[j]
                                        /\ accepted'[j] = accepted[j]
    BY <1>a DEF IInv, TypeOK
  \* An earlier job of the key has ended the TTL ago.
  <1>d. ASSUME NEW i \in Ids, i < nextId, key[i] = want, want # NoKey
        PROVE  finished[i] # Never /\ clock - finished[i] >= TTL
    <2>1. want \in Keys /\ Entry(want) = byKey[want]
      BY <1>d DEF IInv, TypeOK, Entry
    <2>2. CASE byKey[want] = i
      <3>1. status[i] \in Live \cup Terminal
        BY <2>1, <2>2 DEF IInv, TypeOK, KeyInv, Live, Terminal
      <3>2. status[i] \notin Live /\ (finished[i] = Never \/ clock - finished[i] >= TTL)
        BY <1>d, <2>1, <2>2, <3>1 DEF IInv, TypeOK, Duplicate, Times, Never
      <3>3. finished[i] # Never
        BY <1>a, <3>1, <3>2 DEF IInv, PlacesInv, RunInv
      <3> QED
        BY <3>2, <3>3
    <2>3. CASE byKey[want] # i
      BY <1>d, <2>3 DEF IInv, KeyInv
    <2> QED
      BY <2>2, <2>3
  <1>1. TypeOK'
    <2>1. byKey' \in [Keys -> Ids \cup {NoJob}]
      BY <1>a DEF IInv, TypeOK
    <2>2. status' \in [Ids -> Live \cup Terminal \cup {"absent"}]
      BY <1>a DEF IInv, TypeOK, Live
    <2>3. key' \in [Ids -> Keys \cup {NoKey}] /\ accepted' \in [Ids -> Times \cup {Never}]
      BY <1>a DEF IInv, TypeOK
    <2> QED
      BY <1>a, <1>b, <2>1, <2>2, <2>3 DEF IInv, worker, TypeOK
  <1>2. PlacesInv'
    BY DEF IInv, worker, PlacesInv
  <1>3. RunInv'
    BY <1>a, <1>c DEF IInv, worker, TypeOK, PlacesInv, RunInv, Live, Terminal
  <1>4. FreshInv'
    <2>1. ASSUME NEW i \in DOMAIN queue' PROVE queue'[i] < nextId'
      <3>1. CASE i \in 1..Len(queue)
        <4>1. i \in DOMAIN queue /\ queue'[i] = queue[i] /\ queue[i] \in Ids
          BY <1>b, <3>1 DEF IInv, TypeOK
        <4>2. queue[i] < nextId
          BY <4>1 DEF IInv, FreshInv
        <4>3. queue[i] \in Nat
          BY <4>1, IdsAreNumbers
        <4> QED
          BY <1>a, <4>1, <4>2, <4>3
      <3>2. CASE i = Len(queue) + 1
        BY <1>a, <1>b, <3>2
      <3> QED
        BY <1>b, <2>1, <3>1, <3>2
    <2>2. \A j \in Ids : j >= nextId' => status'[j] = "absent" /\ finished'[j] = Never
      BY <1>a, <1>c DEF IInv, FreshInv
    <2> QED
      BY <2>1, <2>2 DEF FreshInv
  <1>5. QueueAgrees'
    <2>1. Len(queue') <= QueueMax
      BY <1>b DEF Admit
    <2>2. \A j \in Ids : status'[j] = "queued" <=> \E i \in DOMAIN queue' : queue'[i] = j
      BY <1>a, <1>b, <1>c DEF IInv, QueueAgrees
    <2>3. \A i, l \in DOMAIN queue' : i < l => queue'[i] < queue'[l]
      BY <1>a, <1>b DEF IInv, QueueAgrees, FreshInv
    <2> QED
      BY <2>1, <2>2, <2>3 DEF QueueAgrees
  <1>6. KeyInv'
    <2>1. ASSUME NEW k \in Keys, byKey'[k] # NoJob
          PROVE  /\ byKey'[k] < nextId' /\ key'[byKey'[k]] = k
                 /\ status'[byKey'[k]] # "absent"
      <3>1. CASE k = want
        BY <1>a, <1>c, <2>1, <3>1 DEF IInv, TypeOK
      <3>2. CASE k # want
        <4>1. byKey'[k] = byKey[k] /\ byKey[k] \in Ids
          BY <2>1, <3>2 DEF IInv, TypeOK
        <4>2. byKey[k] < nextId /\ key[byKey[k]] = k /\ status[byKey[k]] # "absent"
          BY <2>1, <4>1 DEF IInv, KeyInv
        <4>3. byKey[k] \in Nat
          BY <4>1
        <4>4. byKey[k] # nextId /\ byKey[k] < nextId + 1
          <5> DEFINE e == byKey[k]
          <5>1. e \in Nat /\ e < nextId
            BY <4>2, <4>3
          <5> HIDE DEF e
          <5>2. e # nextId /\ e < nextId + 1
            BY <1>a, <5>1
          <5> QED
            BY <5>2 DEF e
        <4> QED
          BY <1>c, <4>1, <4>2, <4>4
      <3> QED
        BY <3>1, <3>2
    <2>2. ASSUME NEW j \in Ids, j < nextId', key'[j] # NoKey
          PROVE  byKey'[key'[j]] = j \/ (finished[j] # Never /\ clock - finished[j] >= TTL)
      <3>1. CASE j = nextId
        BY <1>a, <1>c, <2>2, <3>1 DEF IInv, TypeOK
      <3>2. CASE j # nextId
        BY <1>a, <1>c, <1>d, <2>2, <3>2 DEF IInv, TypeOK, KeyInv
      <3> QED
        BY <3>1, <3>2
    <2> QED
      BY <2>1, <2>2 DEF KeyInv
  <1>7. NoEarlyRepeat'
    <2>1. ASSUME NEW i \in Ids, NEW j \in Ids,
                 i < j, j < nextId', key'[i] = key'[j], key'[i] # NoKey
          PROVE  finished[i] # Never /\ accepted'[j] - finished[i] >= TTL
      <3>1. CASE j = nextId
        BY <1>a, <1>c, <1>d, <2>1, <3>1
      <3>2. CASE j # nextId
        BY <1>a, <1>c, <2>1, <3>2 DEF IInv, TypeOK, NoEarlyRepeat
      <3> QED
        BY <3>1, <3>2
    <2> QED
      BY <2>1 DEF NoEarlyRepeat
  <1>8. ResultInv'
    BY <1>a, <1>c
       DEF IInv, worker, TypeOK, PlacesInv, RunInv, ResultInv, Told, Live, Terminal
  <1>9. LateInv'
    BY DEF IInv, worker, LateInv
  <1> QED
    BY <1>1, <1>2, <1>3, <1>4, <1>5, <1>6, <1>7, <1>8, <1>9 DEF IInv

LEMMA InvEnqueue == IInv /\ Enqueue => IInv'
  BY InvRefused, InvAccepted DEF Enqueue, fields

\* The worker takes the head of the queue.

LEMMA InvTakeHead ==
    ASSUME IInv, wpc \in {"pick", "wait"}, wpc = "wait" => ~stopped, queue # <<>>,
           cv = "free", TakeHead,
           UNCHANGED <<clock, nextId, key, result, finished, byKey, cv, stopped, server,
                       accepted, truth>>
    PROVE  IInv'
  <1> DEFINE j == Head(queue)
  <1> USE IdsAreNumbers
  <1>a. /\ j \in Ids /\ j = queue[1] /\ Len(queue) \in Nat /\ Len(queue) > 0
        /\ queue' \in Seq(Ids) /\ Len(queue') = Len(queue) - 1
        /\ \A i \in 1..(Len(queue) - 1) : queue'[i] = queue[i + 1]
        /\ DOMAIN queue = 1..Len(queue) /\ DOMAIN queue' = 1..Len(queue')
    BY TailFacts DEF IInv, TypeOK, TakeHead
  <1>b. status[j] = "queued" /\ j < nextId /\ finished[j] = Never
    BY <1>a DEF IInv, QueueAgrees, FreshInv, RunInv, Live
  <1>c. /\ status'[j] = "running" /\ cur' = j /\ wpc' = "run"
        /\ \A i \in Ids : i # j => status'[i] = status[i]
    BY <1>a DEF IInv, TypeOK, TakeHead
  <1>d. \A i \in Ids : status[i] # "running"
    BY DEF IInv, PlacesInv, RunInv
  <1> HIDE DEF j
  <1>1. TypeOK'
    <2>1. status' \in [Ids -> Live \cup Terminal \cup {"absent"}]
      BY DEF IInv, TypeOK, TakeHead, Live
    <2>2. late' \in Nat
      BY DEF IInv, TypeOK, TakeHead
    <2> QED
      BY <1>a, <1>c, <2>1, <2>2 DEF IInv, server, TypeOK
  <1>2. PlacesInv'
    BY <1>a, <1>c DEF IInv, server, TypeOK, PlacesInv
  <1>3. RunInv'
    BY <1>a, <1>b, <1>c, <1>d DEF IInv, server, RunInv, Live, Terminal
  <1>4. FreshInv'
    <2>1. \A i \in DOMAIN queue' : i + 1 \in DOMAIN queue /\ queue'[i] = queue[i + 1]
      BY <1>a
    <2>2. \A i \in DOMAIN queue' : queue'[i] < nextId
      BY <2>1 DEF IInv, FreshInv
    <2>3. \A i \in Ids : i >= nextId => i # j
      BY <1>a, <1>b DEF IInv, TypeOK
    <2> QED
      BY <1>c, <2>2, <2>3 DEF IInv, FreshInv
  <1>5. QueueAgrees'
    <2>1. Len(queue') <= QueueMax
      BY <1>a, JobConstants DEF IInv, QueueAgrees
    <2>2. \A i, l \in DOMAIN queue' : i < l => queue'[i] < queue'[l]
      <3>1. \A i \in DOMAIN queue' : i + 1 \in DOMAIN queue /\ queue'[i] = queue[i + 1]
        BY <1>a
      <3>2. \A i, l \in DOMAIN queue' : i < l => i + 1 < l + 1
        BY <1>a
      <3> QED
        BY <3>1, <3>2 DEF IInv, QueueAgrees
    <2>3. ASSUME NEW i \in Ids, status'[i] = "queued"
          PROVE  \E l \in DOMAIN queue' : queue'[l] = i
      <3>1. PICK l \in DOMAIN queue : queue[l] = i
        BY <1>c, <2>3 DEF IInv, QueueAgrees
      <3>2. l # 1
        BY <1>a, <1>c, <2>3, <3>1
      <3>3. l \in 1..Len(queue) /\ Len(queue) \in Nat
        BY <1>a, <3>1
      <3>4. l - 1 \in 1..(Len(queue) - 1) /\ (l - 1) + 1 = l
        BY <3>2, <3>3
      <3>5. l - 1 \in DOMAIN queue'
        BY <1>a, <3>4
      <3>6. queue'[l - 1] = queue[l]
        BY <1>a, <3>4
      <3> QED
        BY <3>1, <3>5, <3>6
    <2>4. ASSUME NEW l \in DOMAIN queue' PROVE status'[queue'[l]] = "queued"
      <3>1. /\ l + 1 \in DOMAIN queue /\ 1 \in DOMAIN queue /\ 1 < l + 1
            /\ queue'[l] = queue[l + 1]
        BY <1>a, <2>4
      <3>a. queue[l + 1] \in Ids
        BY <1>a, <3>1 DEF IInv, TypeOK
      <3>b. queue[l + 1] # j /\ status[queue[l + 1]] = "queued"
        <4>1. queue[1] < queue[l + 1] /\ status[queue[l + 1]] = "queued"
          BY <3>1, <3>a DEF IInv, QueueAgrees
        <4> QED
          BY <1>a, <3>a, <4>1, IdsAreNumbers
      <3> QED
        BY <1>c, <3>1, <3>a, <3>b
    <2> QED
      BY <2>1, <2>2, <2>3, <2>4 DEF QueueAgrees
  <1>6. KeyInv'
    BY <1>a, <1>c DEF IInv, TypeOK, KeyInv
  <1>7. NoEarlyRepeat'
    BY DEF IInv, TakeHead, NoEarlyRepeat
  <1>8. ResultInv'
    BY <1>a, <1>b, <1>c DEF IInv, server, TypeOK, PlacesInv, ResultInv, Told, Live, Terminal
  <1>9. LateInv'
    BY <1>c DEF IInv, TakeHead, LateInv
  <1> QED
    BY <1>1, <1>2, <1>3, <1>4, <1>5, <1>6, <1>7, <1>8, <1>9 DEF IInv

\* The worker finds nothing to take.
LEMMA InvNothingTaken ==
    ASSUME IInv, wpc \in {"pick", "wait"}, wpc' \in {"loop", "wait"}, wpc' = "loop" <=> stopped,
           UNCHANGED <<clock, nextId, fields, byKey, queue, cv, stopped, cur, server, history>>
    PROVE  IInv'
  <1>1. TypeOK'
    BY DEF IInv, fields, server, history, TypeOK, PlacesInv, Live
  <1>2. PlacesInv'
    BY DEF IInv, fields, server, history, TypeOK, PlacesInv
  <1>3. RunInv'
    BY DEF IInv, fields, server, history, TypeOK, PlacesInv, RunInv, Live, Terminal
  <1>4. FreshInv'
    BY DEF IInv, fields, server, history, TypeOK, FreshInv
  <1>5. QueueAgrees'
    BY DEF IInv, fields, server, history, TypeOK, QueueAgrees
  <1>6. KeyInv'
    BY DEF IInv, fields, server, history, TypeOK, KeyInv
  <1>7. NoEarlyRepeat'
    BY DEF IInv, fields, server, history, TypeOK, NoEarlyRepeat
  <1>8. ResultInv'
    BY DEF IInv, fields, server, history, TypeOK, PlacesInv, RunInv, ResultInv, Told, Live,
           Terminal
  <1>9. LateInv'
    BY DEF IInv, fields, server, history, TypeOK, LateInv
  <1> QED
    BY <1>1, <1>2, <1>3, <1>4, <1>5, <1>6, <1>7, <1>8, <1>9 DEF IInv

LEMMA InvTake == IInv /\ (Pick \/ Wake) => IInv'
  <1>1. ASSUME IInv, Pick PROVE IInv'
    BY <1>1, InvTakeHead, InvNothingTaken DEF Pick, fields, history
  <1>2. ASSUME IInv, Wake PROVE IInv'
    BY <1>2, InvTakeHead, InvNothingTaken DEF Wake, fields, history
  <1> QED
    BY <1>1, <1>2

LEMMA InvStutter == IInv /\ UNCHANGED vars => IInv'
  <1> SUFFICES ASSUME IInv, UNCHANGED vars PROVE IInv'
    OBVIOUS
  <1> USE DEF vars, fields, worker, server, history
  <1>1. TypeOK' /\ PlacesInv' /\ RunInv' /\ FreshInv'
    BY DEF IInv, TypeOK, PlacesInv, RunInv, FreshInv
  <1>2. QueueAgrees' /\ KeyInv' /\ NoEarlyRepeat' /\ LateInv'
    BY DEF IInv, QueueAgrees, KeyInv, NoEarlyRepeat, LateInv
  <1>3. ResultInv'
    BY DEF IInv, ResultInv, Told
  <1> QED
    BY <1>1, <1>2, <1>3 DEF IInv

LEMMA InvNext == IInv /\ [Next]_vars => IInv'
  <1> SUFFICES ASSUME IInv, [Next]_vars PROVE IInv'
    OBVIOUS
  <1>1. CASE WorkerStep
    BY <1>1, InvLoop, InvTake, InvRun, InvFinishFirst, InvFinishSecond, InvFinishTime
       DEF WorkerStep
  <1>2. CASE ServerStep
    BY <1>2, InvEnqueue, InvPollStatus, InvPollResult DEF ServerStep
  <1>3. CASE \E k \in Keys \cup {NoKey} : Submit(k)
    BY <1>3, InvSubmit
  <1>4. CASE \E j \in Ids : Poll(j)
    BY <1>4, InvPoll
  <1>5. CASE Stop \/ Exit \/ Tick
    BY <1>5, InvStop, InvExit, InvTick
  <1>6. CASE UNCHANGED vars
    BY <1>6, InvStutter
  <1> QED
    BY <1>1, <1>2, <1>3, <1>4, <1>5, <1>6 DEF Next

LEMMA InvAlways == Spec => []IInv
  BY InvInit, InvNext, PTL DEF Spec

-----------------------------------------------------------------------------
(* The theorems. *)

\* Every variable of the registry keeps its type.
THEOREM RegistryTypes == Spec => []TypeOK
  <1>1. IInv => TypeOK
    BY DEF IInv
  <1> QED
    BY <1>1, InvAlways, PTL

\* The worker always finds the job whose id it pops, in the order of submission.
THEOREM QueueAlwaysAgrees == Spec => []QueueAgrees
  <1>1. IInv => QueueAgrees
    BY DEF IInv
  <1> QED
    BY <1>1, InvAlways, PTL

\* No key runs twice within the TTL of its last end, whatever sweeps in between.
THEOREM KeysAreNotRepeated == Spec => []NoEarlyRepeat
  <1>1. IInv => NoEarlyRepeat
    BY DEF IInv
  <1> QED
    BY <1>1, InvAlways, PTL

\* stop() lets at most one more job start.
THEOREM StopIsPrompt == Spec => []AtMostOneLateStart
  <1>1. IInv => AtMostOneLateStart
    BY DEF IInv, LateInv, AtMostOneLateStart
  <1> QED
    BY <1>1, InvAlways, PTL

\* An answer "done" or "error" of job_poll comes with the envelope of that run.
THEOREM PollsAreTruthful == Spec => PollTellsTheTruth
  <1>1. IInv => (spc = "result" /\ spc' = "idle" /\ seen \in Terminal
                  => /\ result[polled] = truth[polled] /\ result[polled] # "none"
                     /\ seen = "done" <=> result[polled] = "ok")
    BY DEF IInv, ResultInv, Told
  <1> QED
    BY <1>1, InvAlways, PTL DEF PollTellsTheTruth

-----------------------------------------------------------------------------
(* The registry implements the job service. *)

LEMMA PhaseOfStatus ==
    ASSUME NEW j \in Ids
    PROVE  /\ status[j] \in Live => Phase(j) = status[j]
           /\ status[j] \in Terminal => Phase(j) = "ended"
           /\ status[j] = "absent" => Phase(j) = IF j < nextId THEN "ended" ELSE "none"
  BY DEF Phase, Live, Terminal

LEMMA PhaseOfStatusNext ==
    ASSUME NEW j \in Ids
    PROVE  /\ status'[j] \in Live => Phase(j)' = status'[j]
           /\ status'[j] \in Terminal => Phase(j)' = "ended"
  BY DEF Phase, Live, Terminal

LEMMA PhaseKept ==
    ASSUME NEW j \in Ids, status'[j] = status[j],
           (j < nextId)' <=> j < nextId
    PROVE  Phase(j)' = Phase(j)
  BY DEF Phase

PhasesKept == key' = key /\ \A i \in Ids : Phase(i)' = Phase(i)

LEMMA KeptStutters == PhasesKept => UNCHANGED <<[j \in Ids |-> Phase(j)], key>>
  BY DEF PhasesKept

\* A step that changes the phase of one job.
LEMMA OnePhaseMoves ==
    ASSUME NEW j \in Ids, NEW p, Phase(j)' = p,
           \A i \in Ids : i # j => Phase(i)' = Phase(i)
    PROVE  [i \in Ids |-> Phase(i)]' = [[i \in Ids |-> Phase(i)] EXCEPT ![j] = p]
  <1> DEFINE f == [i \in Ids |-> Phase(i)]
  <1>1. f' = [i \in Ids |-> IF i = j THEN p ELSE f[i]]
    OBVIOUS
  <1> QED
    BY <1>1

LEMMA RefinesInit == Init => Service!JobInit
  BY PhaseOfStatus, JobConstants DEF Init, Service!JobInit, Ids

LEMMA RefinesSubmit ==
    ASSUME IInv, NEW k \in Keys \cup {NoKey}, Submit(k)
    PROVE  PhasesKept
  <1>1. key' = key /\ nextId' = nextId
    BY DEF Submit
  <1>2. ASSUME NEW i \in Ids PROVE Phase(i)' = Phase(i)
    <2>1. CASE status'[i] = status[i]
      BY <1>1, <2>1, PhaseKept
    <2>2. CASE status'[i] = "absent" /\ status[i] \in Terminal
      <3>1. nextId \in Nat /\ status[i] # "absent"
        BY <2>2 DEF IInv, TypeOK, Terminal
      <3>2. i < nextId
        BY <3>1, IdsAreNumbers DEF IInv, FreshInv
      <3> QED
        BY <1>1, <2>2, <3>2, PhaseOfStatus DEF Phase, Live, Terminal
    <2> QED
      BY <2>1, <2>2, SweepFacts DEF Submit, Expired
  <1> QED
    BY <1>1, <1>2 DEF PhasesKept

LEMMA RefinesEnqueue ==
    ASSUME IInv, Enqueue
    PROVE  PhasesKept \/ \E j \in Ids, k \in Keys \cup {NoKey} : Service!Accept(j, k)
  <1>1. CASE UNCHANGED <<nextId, fields>>
    BY <1>1, PhaseKept DEF PhasesKept, fields
  <1>2. CASE /\ ~Duplicate(want, Entry(want))
             /\ status' = [status EXCEPT ![nextId] = "queued"]
             /\ key' = [key EXCEPT ![nextId] = want] /\ nextId' = nextId + 1
    <2>1. /\ nextId \in Ids /\ nextId \in Nat /\ want \in Keys \cup {NoKey}
          /\ status[nextId] = "absent"
      BY IdsAreNumbers DEF IInv, Enqueue, PlacesInv, TypeOK, FreshInv
    <2> PICK n \in Ids : n = nextId
      BY <2>1
    <2>2. Phase(n) = "none"
      BY <2>1, PhaseOfStatus
    <2>3. ASSUME NEW i \in Ids, i < n PROVE Phase(i) # "none"
      BY <2>3, PhaseOfStatus DEF IInv, TypeOK, Live
    <2>4. status'[n] = "queued" /\ Phase(n)' = "queued"
      BY <1>2, <2>1, PhaseOfStatusNext DEF IInv, TypeOK, Live
    <2>5. ASSUME NEW i \in Ids, i # n PROVE Phase(i)' = Phase(i)
      <3>1. status'[i] = status[i] /\ (i < nextId' <=> i < nextId)
        BY <1>2, <2>1, <2>5, IdsAreNumbers DEF IInv, TypeOK
      <3> QED
        BY <3>1, PhaseKept
    <2>6. ASSUME want # NoKey, NEW i \in Ids, key[i] = want,
                 Phase(i) \in {"queued", "running"}
          PROVE  FALSE
      <3>1. status[i] \in Live
        BY <2>6, PhaseOfStatus DEF IInv, TypeOK, Live
      <3>2. i < nextId /\ finished[i] = Never
        BY <3>1, <2>1, IdsAreNumbers DEF IInv, FreshInv, RunInv, Live
      <3>3. byKey[want] = i /\ Entry(want) = i
        BY <2>1, <2>6, <3>2 DEF IInv, KeyInv, Entry
      <3> QED
        BY <1>2, <2>6, <3>1, <3>3, IdsAreNumbers DEF Duplicate
    <2>7. want = NoKey \/ ~Service!Pending(want)
      BY <2>6 DEF Service!Pending
    <2>8. [j \in Ids |-> Phase(j)]' = [[j \in Ids |-> Phase(j)] EXCEPT ![n] = "queued"]
      BY <2>4, <2>5, OnePhaseMoves
    <2>9. Service!Accept(n, want)
      BY <1>2, <2>2, <2>3, <2>7, <2>8 DEF Service!Accept
    <2> QED
      BY <2>1, <2>9
  <1> QED
    BY <1>1, <1>2 DEF Enqueue

LEMMA RefinesTakeHead ==
    ASSUME IInv, wpc \in {"pick", "wait"}, queue # <<>>, TakeHead, UNCHANGED <<key, nextId>>
    PROVE  \E j \in Ids : Service!Begin(j)
  <1> PICK j \in Ids : j = Head(queue)
    BY TailFacts DEF IInv, TypeOK
  <1>1. j = queue[1] /\ 1 \in DOMAIN queue
    BY TailFacts DEF IInv, TypeOK
  <1>2. status[j] = "queued" /\ Phase(j) = "queued"
    BY <1>1, PhaseOfStatus DEF IInv, QueueAgrees, Live
  <1>3. ASSUME NEW i \in Ids PROVE Phase(i) # "running"
    <2>1. status[i] # "running"
      BY IdsAreNumbers DEF IInv, PlacesInv, RunInv
    <2> QED
      BY <2>1, PhaseOfStatus DEF IInv, TypeOK, Live
  <1>4. ASSUME NEW i \in Ids, i < j PROVE Phase(i) # "queued"
    <2>1. status[i] # "queued"
      <3>1. \A l \in DOMAIN queue : l = 1 \/ 1 < l
        BY DEF IInv, TypeOK
      <3>2. \A l \in DOMAIN queue : queue[l] = j \/ j < queue[l]
        BY <1>1, <3>1 DEF IInv, QueueAgrees
      <3>3. \A l \in DOMAIN queue : queue[l] # i
        BY <1>1, <1>4, <3>2, IdsAreNumbers
      <3> QED
        BY <3>3 DEF IInv, QueueAgrees
    <2> QED
      BY <2>1, PhaseOfStatus DEF IInv, TypeOK, Live
  <1>5. status'[j] = "running" /\ \A i \in Ids : i # j => status'[i] = status[i]
    BY <1>1 DEF IInv, TypeOK, TakeHead
  <1>6. Phase(j)' = "running" /\ \A i \in Ids : i # j => Phase(i)' = Phase(i)
    BY <1>1, <1>5, PhaseKept, PhaseOfStatusNext DEF Live
  <1>7. [i \in Ids |-> Phase(i)]' = [[i \in Ids |-> Phase(i)] EXCEPT ![j] = "running"]
    BY <1>1, <1>6, OnePhaseMoves
  <1>8. Service!Begin(j)
    BY <1>1, <1>2, <1>3, <1>4, <1>7 DEF Service!Begin
  <1> QED
    BY <1>8

LEMMA RefinesFinish ==
    ASSUME IInv, FinishSecond
    PROVE  \E j \in Ids : Service!End(j)
  <1> PICK j \in Ids : j = cur
    BY DEF IInv, FinishSecond, PlacesInv
  <1>1. status[j] = "running" /\ Phase(j) = "running"
    BY PhaseOfStatus DEF IInv, FinishSecond, PlacesInv, RunInv, Live
  <1>2. status'[j] \in Terminal /\ \A i \in Ids : i # j => status'[i] = status[i]
    BY <1>1 DEF IInv, TypeOK, FinishSecond, Assign, Terminal
  <1>3. Phase(j)' = "ended" /\ \A i \in Ids : i # j => Phase(i)' = Phase(i)
    BY <1>1, <1>2, PhaseKept, PhaseOfStatusNext DEF FinishSecond
  <1>4. [i \in Ids |-> Phase(i)]' = [[i \in Ids |-> Phase(i)] EXCEPT ![j] = "ended"]
    BY <1>1, <1>3, OnePhaseMoves
  <1>5. Service!End(j)
    BY <1>1, <1>4 DEF Service!End, FinishSecond
  <1> QED
    BY <1>5

LEMMA RefinesNext ==
    IInv /\ [Next]_vars => [Service!JobNext]_<<[j \in Ids |-> Phase(j)], key>>
  <1> SUFFICES ASSUME IInv, [Next]_vars
               PROVE  Service!JobNext \/ UNCHANGED <<[j \in Ids |-> Phase(j)], key>>
    OBVIOUS
  <1>1. CASE UNCHANGED <<status, key, nextId>>
    BY <1>1, KeptStutters, PhaseKept DEF PhasesKept
  <1>2. CASE \E k \in Keys \cup {NoKey} : Submit(k)
    BY <1>2, RefinesSubmit, KeptStutters
  <1>3. CASE Enqueue
    BY <1>3, RefinesEnqueue, KeptStutters DEF Service!JobNext
  <1>4. CASE Pick \/ Wake
    BY <1>1, <1>4, RefinesTakeHead DEF Pick, Wake, Service!JobNext
  <1>5. CASE FinishSecond
    BY <1>5, RefinesFinish DEF Service!JobNext
  <1> QED
    BY <1>1, <1>2, <1>3, <1>4, <1>5
       DEF Next, WorkerStep, ServerStep, Loop, Run, FinishFirst, FinishTime, Assign,
           PollStatus, PollResult, Poll, Stop, Exit, Tick, vars, fields

\* What the server and the worker do with their queue, dictionary and keys, in
\* every interleaving, is what JobService allows: one run per accepted job, in
\* order, and no second acceptance of a pending key.
THEOREM RegistryImplementsService == Spec => ServiceSpec
  <1>1. Init => Service!JobInit
    BY RefinesInit
  <1>2. IInv /\ [Next]_vars => [Service!JobNext]_<<[j \in Ids |-> Phase(j)], key>>
    BY RefinesNext
  <1> QED
    BY <1>1, <1>2, InvAlways, PTL DEF Spec, ServiceSpec, Service!JobSpec
=============================================================================
