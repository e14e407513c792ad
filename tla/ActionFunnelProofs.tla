------------------------- MODULE ActionFunnelProofs -------------------------
(* Theorems about ActionFunnel, for every value of its constants.           *)
EXTENDS ActionFunnel, FiniteSetTheorems, TLAPS

(***************************************************************************)
(* Types.  A call that runs has a request id, and one that is past its     *)
(* body has an envelope: without this a step could store or count nothing. *)
(***************************************************************************)
OutcomeOK == outcome \in [Rids -> Codes \cup {"none"}]
CallInv ==
    /\ \A c \in Callers : pc[c] # "idle" => rid[c] \in Rids
    /\ \A c \in Callers :
            pc[c] \in {"release", "store", "write"} => outcome[rid[c]] \in Codes
    /\ \A c \in Callers :
            pc[c] \in {"disk", "store", "write"} => req[c].key # NoKey
FramesInv == LocalsOK /\ OutcomeOK /\ CallInv
TypeInv == TypeOK /\ CallInv

LEMMA DefaultsType == AnyRequest \in Requests /\ NoEntries \in Caches
  BY ConstantsAssumption DEF AnyRequest, NoEntries, Caches

LEMMA ZeroIsATime == 0 \in Times
  BY ConstantsAssumption DEF Times

LEMMA ProcType == ASSUME NEW c \in Callers PROVE ProcOf[c] \in Procs
  BY ConstantsAssumption

(***************************************************************************)
(* The helpers of the actions keep the frames of the calls well typed.     *)
(***************************************************************************)
LEMMA GotoType ==
    ASSUME FramesInv, NEW c \in Callers, NEW l \in PCs, Goto(c, l),
           UNCHANGED <<rid, req, ts, risk, hist, view>>, OutcomeOK',
           \A r \in Rids : outcome[r] \in Codes => outcome'[r] \in Codes,
           rid[c] \in Rids,
           l \in {"release", "store", "write"} => outcome'[rid[c]] \in Codes,
           l \in {"disk", "store", "write"} => req[c].key # NoKey
    PROVE  FramesInv'
  <1>1. LocalsOK'
    BY DEF FramesInv, LocalsOK, Goto
  <1>2. \A d \in Callers : d # c => pc'[d] = pc[d]
    BY DEF FramesInv, LocalsOK, Goto
  <1>3. pc'[c] = l
    BY DEF FramesInv, LocalsOK, Goto
  <1>4. CallInv'
    BY <1>2, <1>3 DEF FramesInv, CallInv
  <1> QED
    BY <1>1, <1>4 DEF FramesInv

LEMMA IdleType ==
    ASSUME FramesInv, NEW c \in Callers, Idle(c), OutcomeOK',
           \A r \in Rids : outcome[r] \in Codes => outcome'[r] \in Codes
    PROVE  FramesInv'
  <1>1. LocalsOK'
    BY DefaultsType, ZeroIsATime DEF FramesInv, LocalsOK, Idle, Goto, PCs, Risks
  <1>2. pc'[c] = "idle"
    BY DEF FramesInv, LocalsOK, Idle, Goto
  <1>3. \A d \in Callers :
            d # c => pc'[d] = pc[d] /\ rid'[d] = rid[d] /\ req'[d] = req[d]
    BY DEF FramesInv, LocalsOK, Idle, Goto
  <1>4. CallInv'
    BY <1>2, <1>3 DEF FramesInv, CallInv
  <1> QED
    BY <1>1, <1>4 DEF FramesInv

LEMMA OutcomeType ==
    ASSUME OutcomeOK, NEW r, NEW code \in Codes,
           outcome' = [outcome EXCEPT ![r] = code]
    PROVE  /\ OutcomeOK'
           /\ \A s \in Rids : outcome[s] \in Codes => outcome'[s] \in Codes
           /\ r \in Rids => outcome'[r] = code
  BY DEF OutcomeOK

LEMMA LeaveType ==
    ASSUME FramesInv, NEW c \in Callers, NEW code, Leave(c, code), OutcomeOK',
           \A r \in Rids : outcome[r] \in Codes => outcome'[r] \in Codes,
           rid[c] \in Rids, outcome'[rid[c]] \in Codes
    PROVE  FramesInv'
  BY IdleType, GotoType DEF Leave, PCs

LEMMA ProceedType ==
    ASSUME FramesInv, NEW c \in Callers, pc[c] # "idle",
           NEW l \in PCs \ {"disk", "release", "store", "write"}, Proceed(c, l)
    PROVE  FramesInv'
  <1>1. OutcomeOK' /\ rid[c] \in Rids
    BY DEF FramesInv, OutcomeOK, CallInv, Proceed
  <1> QED
    BY <1>1, GotoType DEF Proceed

LEMMA RefuseType ==
    ASSUME FramesInv, NEW c \in Callers, pc[c] # "idle",
           NEW code \in Codes, Refuse(c, code)
    PROVE  FramesInv'
  <1>1. OutcomeOK /\ rid[c] \in Rids
    BY DEF FramesInv, CallInv
  <1> QED
    BY <1>1, LeaveType, OutcomeType DEF Refuse

LEMMA FinishType ==
    ASSUME FramesInv, NEW c \in Callers, pc[c] # "idle",
           NEW code \in Codes, Finish(c, code)
    PROVE  FramesInv'
  <1>1. OutcomeOK /\ rid[c] \in Rids
    BY DEF FramesInv, CallInv
  <1> QED
    BY <1>1, GotoType, OutcomeType DEF Finish, PCs

LEMMA BlockType ==
    ASSUME FramesInv, CallsOK, NEW c \in Callers, pc[c] # "idle",
           NEW code \in Codes, Block(c, code)
    PROVE  FramesInv' /\ blocked' \subseteq Rids
  <1>1. rid[c] \in Rids /\ "raised" \in Codes
    BY DEF FramesInv, CallInv, Codes
  <1> QED
    BY <1>1, FinishType DEF Block, CallsOK

LEMMA TypeInit == Init => TypeInv
  <1> SUFFICES ASSUME Init PROVE TypeInv
    OBVIOUS
  <1>1. /\ clock \in Times /\ nextRid \in 1..(MaxCalls + 1)
        /\ crashes \in 0..MaxCrashes /\ stops \in 0..MaxStops
    BY ConstantsAssumption DEF Init, Times
  <1>2. BoundsOK
    BY <1>1 DEF Init, BoundsOK
  <1>3. LocalsOK
    BY DefaultsType, ZeroIsATime DEF Init, LocalsOK, PCs, Risks
  <1>4. LocksOK /\ StoresOK
    BY DefaultsType DEF Init, LocksOK, StoresOK
  <1>5. CallsOK
    BY DEF Init, CallsOK
  <1>6. PromisesOK
    BY DEF Init, PromisesOK
  <1>7. CallInv
    BY DEF Init, CallInv
  <1> QED
    BY <1>2, <1>3, <1>4, <1>5, <1>6, <1>7 DEF TypeInv, TypeOK

(***************************************************************************)
(* One lemma per step of a call.                                           *)
(***************************************************************************)
LEMMA TypeGate ==
    ASSUME TypeInv, NEW c \in Callers, Gate(c) \/ AskCompanion(c)
    PROVE  TypeInv'
  <1>1. FramesInv /\ pc[c] # "idle"
    BY DEF TypeInv, TypeOK, FramesInv, OutcomeOK, CallsOK, Gate, AskCompanion
  <1>2. ASSUME CheckMode(c) PROVE FramesInv'
    BY <1>1, <1>2, RefuseType, ProceedType DEF CheckMode, Codes, Refusals, PCs
  <1>3. FramesInv'
    BY <1>1, <1>2, RefuseType, ProceedType
    DEF Gate, AskCompanion, Codes, Refusals, PCs
  <1>4. BoundsOK' /\ LocksOK' /\ StoresOK' /\ PromisesOK'
    BY DEF TypeInv, TypeOK, Gate, AskCompanion, BoundsOK, LocksOK, StoresOK, PromisesOK,
           locks, promises
  <1>5. CallsOK'
    BY <1>3 DEF TypeInv, TypeOK, Gate, AskCompanion, CallsOK, FramesInv, OutcomeOK, logs
  <1> QED
    BY <1>3, <1>4, <1>5 DEF TypeInv, TypeOK, FramesInv

LEMMA NewRecordsType ==
    ASSUME TypeInv, NEW c \in Callers, rid[c] \in Rids
    PROVE  NewRecords(c) \subseteq Records
  <1>1. BucketsFor(req[c].verb, risk[c]) \subseteq Buckets
    BY ConstantsAssumption DEF TypeInv, TypeOK, LocalsOK, BucketsFor, Buckets
  <1> QED
    BY <1>1 DEF TypeInv, TypeOK, LocalsOK, NewRecords, Records

LEMMA ReleaseFrames ==
    ASSUME FramesInv, NEW c \in Callers, pc[c] = "release",
           Leave(c, outcome[rid[c]]), UNCHANGED outcome
    PROVE  FramesInv'
  <1>1. OutcomeOK' /\ rid[c] \in Rids /\ outcome'[rid[c]] \in Codes
    BY DEF FramesInv, OutcomeOK, CallInv
  <1> QED
    BY <1>1, LeaveType

LEMMA TypeAcquireThreadLock ==
    ASSUME TypeInv, NEW c \in Callers, AcquireThreadLock(c)
    PROVE  TypeInv'
  <1>1. FramesInv /\ CallsOK /\ pc[c] # "idle" /\ rid[c] \in Rids
    BY DEF TypeInv, TypeOK, FramesInv, OutcomeOK, CallsOK, CallInv, AcquireThreadLock
  <1>2. FramesInv'
    BY <1>1, RefuseType, ProceedType
    DEF AcquireThreadLock, Codes, Refusals, PCs
  <1>3. BoundsOK' /\ StoresOK' /\ PromisesOK'
    BY DEF TypeInv, TypeOK, AcquireThreadLock, BoundsOK, StoresOK, PromisesOK, locks, promises
  <1>4. LocksOK'
    BY <1>1, ProcType DEF TypeInv, TypeOK, AcquireThreadLock, LocksOK
  <1>5. CallsOK'
    BY <1>1, <1>2 DEF TypeInv, TypeOK, AcquireThreadLock, CallsOK, FramesInv, OutcomeOK, logs
  <1> QED
    BY <1>2, <1>3, <1>4, <1>5 DEF TypeInv, TypeOK, FramesInv

LEMMA TypeAcquireFileLock ==
    ASSUME TypeInv, NEW c \in Callers, AcquireFileLock(c)
    PROVE  TypeInv'
  <1>1. FramesInv /\ CallsOK /\ pc[c] # "idle" /\ rid[c] \in Rids
    BY DEF TypeInv, TypeOK, FramesInv, OutcomeOK, CallsOK, CallInv, AcquireFileLock
  <1>2. FramesInv'
    BY <1>1, RefuseType, ProceedType
    DEF AcquireFileLock, Codes, Refusals, PCs
  <1>3. BoundsOK' /\ StoresOK' /\ PromisesOK'
    BY DEF TypeInv, TypeOK, AcquireFileLock, BoundsOK, StoresOK, PromisesOK, locks, promises
  <1>4. LocksOK'
    BY <1>1, ProcType DEF TypeInv, TypeOK, AcquireFileLock, LocksOK, locks
  <1>5. CallsOK'
    BY <1>1, <1>2 DEF TypeInv, TypeOK, AcquireFileLock, CallsOK, FramesInv, OutcomeOK, logs
  <1> QED
    BY <1>2, <1>3, <1>4, <1>5 DEF TypeInv, TypeOK, FramesInv

LEMMA TypeDecide ==
    ASSUME TypeInv, NEW c \in Callers, Decide(c)
    PROVE  TypeInv'
  <1>1. FramesInv /\ CallsOK /\ pc[c] # "idle" /\ rid[c] \in Rids
    BY DEF TypeInv, TypeOK, FramesInv, OutcomeOK, CallsOK, CallInv, Decide
  <1>2. FramesInv' /\ blocked' \subseteq Rids
    BY <1>1, BlockType, ProceedType
    DEF Decide, CallsOK, Codes, Refusals, PCs
  <1>3. BoundsOK' /\ LocksOK' /\ StoresOK' /\ PromisesOK'
    BY DEF TypeInv, TypeOK, Decide, BoundsOK, LocksOK, StoresOK, PromisesOK, locks, promises
  <1>4. CallsOK'
    BY <1>1, <1>2 DEF TypeInv, TypeOK, Decide, CallsOK, FramesInv, OutcomeOK, logs
  <1> QED
    BY <1>2, <1>3, <1>4 DEF TypeInv, TypeOK, FramesInv

LEMMA FailuresType == Failures \subseteq Codes
  BY DEF Failures, Codes

LEMMA TypeHalt ==
    ASSUME TypeInv, NEW c \in Callers, Halt(c)
    PROVE  TypeInv'
  <1>1. FramesInv /\ CallsOK /\ pc[c] # "idle" /\ rid[c] \in Rids
    BY DEF TypeInv, TypeOK, FramesInv, OutcomeOK, CallsOK, CallInv, Halt
  <1>2. FramesInv'
    BY <1>1, FinishType, ProceedType DEF Halt, Codes, PCs
  <1>3. BoundsOK' /\ LocksOK' /\ StoresOK' /\ PromisesOK'
    BY DEF TypeInv, TypeOK, Halt, BoundsOK, LocksOK, StoresOK, PromisesOK, locks, promises
  <1>4. CallsOK'
    BY <1>1, <1>2 DEF TypeInv, TypeOK, Halt, CallsOK, FramesInv, OutcomeOK, logs
  <1> QED
    BY <1>2, <1>3, <1>4 DEF TypeInv, TypeOK, FramesInv

LEMMA TypeInput ==
    ASSUME TypeInv, NEW c \in Callers, Input(c)
    PROVE  TypeInv'
  <1>1. FramesInv /\ CallsOK /\ pc[c] # "idle" /\ rid[c] \in Rids
    BY DEF TypeInv, TypeOK, FramesInv, OutcomeOK, CallsOK, CallInv, Input
  <1>2. FramesInv'
    BY <1>1, FailuresType, FinishType, ProceedType DEF Input, PCs
  <1>3. BoundsOK' /\ LocksOK' /\ StoresOK' /\ PromisesOK'
    BY DEF TypeInv, TypeOK, Input, BoundsOK, LocksOK, StoresOK, PromisesOK, locks, promises
  <1>4. CallsOK'
    BY <1>1, <1>2 DEF TypeInv, TypeOK, Input, CallsOK, FramesInv, OutcomeOK, logs
  <1> QED
    BY <1>2, <1>3, <1>4 DEF TypeInv, TypeOK, FramesInv

LEMMA TypeReobserve ==
    ASSUME TypeInv, NEW c \in Callers, Reobserve(c)
    PROVE  TypeInv'
  <1>1. FramesInv /\ CallsOK /\ pc[c] # "idle" /\ rid[c] \in Rids
    BY DEF TypeInv, TypeOK, FramesInv, OutcomeOK, CallsOK, CallInv, Reobserve
  <1>2. FramesInv'
    BY <1>1, FailuresType, FinishType, ProceedType DEF Reobserve, PCs
  <1>3. BoundsOK' /\ LocksOK' /\ StoresOK' /\ PromisesOK'
    BY DEF TypeInv, TypeOK, Reobserve, BoundsOK, LocksOK, StoresOK, PromisesOK, locks, promises
  <1>4. CallsOK'
    BY <1>1, <1>2 DEF TypeInv, TypeOK, Reobserve, CallsOK, FramesInv, OutcomeOK, logs
  <1> QED
    BY <1>2, <1>3, <1>4 DEF TypeInv, TypeOK, FramesInv

LEMMA TypeLogOk ==
    ASSUME TypeInv, NEW c \in Callers, LogOk(c)
    PROVE  TypeInv'
  <1>1. FramesInv /\ CallsOK /\ pc[c] # "idle" /\ rid[c] \in Rids
    BY DEF TypeInv, TypeOK, FramesInv, OutcomeOK, CallsOK, CallInv, LogOk
  <1>2. FramesInv'
    BY <1>1, FinishType
    DEF LogOk, Codes, Refusals, PCs
  <1>3. BoundsOK' /\ LocksOK' /\ StoresOK' /\ PromisesOK'
    BY DEF TypeInv, TypeOK, LogOk, BoundsOK, LocksOK, StoresOK, PromisesOK, locks, promises
  <1>4. CallsOK'
    BY <1>1, <1>2 DEF TypeInv, TypeOK, LogOk, CallsOK, FramesInv, OutcomeOK, logs
  <1> QED
    BY <1>2, <1>3, <1>4 DEF TypeInv, TypeOK, FramesInv

LEMMA TypeSaveRate ==
    ASSUME TypeInv, NEW c \in Callers, SaveRate(c)
    PROVE  TypeInv'
  <1>1. FramesInv /\ CallsOK /\ pc[c] # "idle" /\ rid[c] \in Rids
    BY DEF TypeInv, TypeOK, FramesInv, OutcomeOK, CallsOK, CallInv, SaveRate
  <1>2. FramesInv'
    BY <1>1, FinishType, ProceedType
    DEF SaveRate, Codes, Refusals, PCs
  <1>3. BoundsOK' /\ LocksOK' /\ PromisesOK'
    BY DEF TypeInv, TypeOK, SaveRate, BoundsOK, LocksOK, PromisesOK, locks, promises
  <1>4. StoresOK'
    BY <1>1, NewRecordsType DEF TypeInv, TypeOK, SaveRate, StoresOK, LocalsOK
  <1>5. CallsOK'
    BY <1>1, <1>2 DEF TypeInv, TypeOK, SaveRate, CallsOK, FramesInv, OutcomeOK, logs
  <1> QED
    BY <1>2, <1>3, <1>4, <1>5 DEF TypeInv, TypeOK, FramesInv

LEMMA TypeRelease ==
    ASSUME TypeInv, NEW c \in Callers, Release(c)
    PROVE  TypeInv'
  <1>1. FramesInv /\ CallsOK /\ pc[c] # "idle" /\ rid[c] \in Rids
    BY DEF TypeInv, TypeOK, FramesInv, OutcomeOK, CallsOK, CallInv, Release
  <1>2. FramesInv'
    BY <1>1, ReleaseFrames
    DEF Release, Codes, Refusals, PCs
  <1>3. BoundsOK' /\ StoresOK' /\ PromisesOK'
    BY DEF TypeInv, TypeOK, Release, BoundsOK, StoresOK, PromisesOK, locks, promises
  <1>4. LocksOK'
    BY <1>1, ProcType DEF TypeInv, TypeOK, Release, LocksOK
  <1>5. CallsOK'
    BY <1>1, <1>2 DEF TypeInv, TypeOK, Release, CallsOK, FramesInv, OutcomeOK, logs
  <1> QED
    BY <1>2, <1>3, <1>4, <1>5 DEF TypeInv, TypeOK, FramesInv

LEMMA ClassifyType == ASSUME NEW screen, NEW q PROVE Classify(screen, q) \in Risks
  BY DEF Classify, Risks

LEMMA TypeObserve ==
    ASSUME TypeInv, NEW c \in Callers, Observe(c)
    PROVE  TypeInv'
  <1>1. FramesInv /\ CallsOK /\ pc[c] # "idle" /\ rid[c] \in Rids
    BY DEF TypeInv, TypeOK, FramesInv, OutcomeOK, CallsOK, CallInv, Observe
  <1>2. ASSUME NEW code \in Failures, Finish(c, code)
        PROVE  FramesInv'
    BY <1>1, <1>2, FailuresType, FinishType
  <1>3. ASSUME NEW level \in Risks, risk' = [risk EXCEPT ![c] = level],
               Goto(c, "decide"), UNCHANGED <<rid, req, ts, hist, view, outcome>>
        PROVE  FramesInv'
    <2>1. LocalsOK'
      BY <1>1, <1>3 DEF FramesInv, LocalsOK, Goto, PCs
    <2>2. \A d \in Callers : pc'[d] = IF d = c THEN "decide" ELSE pc[d]
      BY <1>1, <1>3 DEF FramesInv, LocalsOK, Goto
    <2>3. CallInv'
      BY <1>1, <1>3, <2>2 DEF FramesInv, CallInv
    <2> QED
      BY <1>1, <1>3, <2>1, <2>3 DEF FramesInv, OutcomeOK
  <1>4. FramesInv'
    BY <1>2, <1>3, ClassifyType DEF Observe
  <1>5. BoundsOK' /\ LocksOK' /\ StoresOK' /\ PromisesOK'
    BY DEF TypeInv, TypeOK, Observe, BoundsOK, LocksOK, StoresOK, PromisesOK, locks, promises
  <1>6. CallsOK'
    BY <1>1, <1>4 DEF Observe, CallsOK, FramesInv, OutcomeOK, logs
  <1> QED
    BY <1>4, <1>5, <1>6 DEF TypeInv, TypeOK, FramesInv

LEMMA TypeRateCheck ==
    ASSUME TypeInv, NEW c \in Callers, RateCheck(c)
    PROVE  TypeInv'
  <1>1. FramesInv /\ CallsOK /\ pc[c] # "idle" /\ rid[c] \in Rids /\ clock \in Times
    BY DEF TypeInv, TypeOK, BoundsOK, FramesInv, OutcomeOK, CallsOK, CallInv, RateCheck
  <1>2. Prune(rate, clock) \in SUBSET Records
    BY DEF TypeInv, TypeOK, StoresOK, Prune
  <1>3. ASSUME Block(c, "rate_limited")
        PROVE  FramesInv' /\ blocked' \subseteq Rids
    BY <1>1, <1>3, BlockType DEF Codes, Refusals
  <1>4. ASSUME Finish(c, "dry_run") /\ UNCHANGED blocked
        PROVE  FramesInv' /\ blocked' \subseteq Rids
    BY <1>1, <1>4, FinishType DEF Codes, Refusals, CallsOK
  <1>5. ASSUME NEW l \in {"halt", "fn"}, Goto(c, l), ts' = [ts EXCEPT ![c] = clock],
               hist' = [hist EXCEPT ![c] = Prune(rate, clock)],
               UNCHANGED <<rid, req, risk, view, outcome, blocked>>
        PROVE  FramesInv' /\ blocked' \subseteq Rids
    <2>1. LocalsOK'
      BY <1>1, <1>2, <1>5 DEF FramesInv, LocalsOK, Goto, PCs
    <2>2. \A d \in Callers : pc'[d] = IF d = c THEN l ELSE pc[d]
      BY <1>1, <1>5 DEF FramesInv, LocalsOK, Goto
    <2>3. CallInv'
      BY <1>1, <1>5, <2>2 DEF FramesInv, CallInv
    <2> QED
      BY <1>1, <1>5, <2>1, <2>3 DEF FramesInv, OutcomeOK, CallsOK
  <1>6. FramesInv' /\ blocked' \subseteq Rids
    BY <1>3, <1>4, <1>5 DEF RateCheck
  <1>7. BoundsOK' /\ LocksOK' /\ StoresOK' /\ PromisesOK'
    BY DEF TypeInv, TypeOK, RateCheck, BoundsOK, LocksOK, StoresOK, PromisesOK, locks, promises
  <1>8. CallsOK'
    BY <1>1, <1>6 DEF RateCheck, CallsOK, FramesInv, OutcomeOK
  <1> QED
    BY <1>6, <1>7, <1>8 DEF TypeInv, TypeOK, FramesInv

LEMMA SweepType ==
    ASSUME NEW s \in Caches, NEW now
    PROVE  Sweep(s, now) \in Caches
  BY DEF Sweep, Caches

LEMMA TypeStore ==
    ASSUME TypeInv, NEW c \in Callers, Store(c)
    PROVE  TypeInv'
  <1> DEFINE e == [ts |-> clock, rid |-> rid[c], code |-> outcome[rid[c]]]
             filed(s) == [Sweep(s, clock) EXCEPT ![req[c].key] = e]
  <1>1. FramesInv /\ CallsOK /\ clock \in Times
    BY DEF TypeInv, TypeOK, BoundsOK, FramesInv, OutcomeOK, CallsOK
  <1>2. e \in Entries
    BY <1>1 DEF FramesInv, CallInv, Store, Entries
  <1>3. ASSUME NEW s \in Caches PROVE filed(s) \in Caches
    BY <1>2, SweepType DEF Caches
  <1>4. filed(mem[ProcOf[c]]) \in Caches /\ filed(disk) \in Caches
    BY <1>3, ProcType DEF TypeInv, TypeOK, StoresOK
  <1>5. /\ view' = [view EXCEPT ![c] = filed(disk)]
        /\ mem' = [mem EXCEPT ![ProcOf[c]] = filed(mem[ProcOf[c]])]
    BY DEF Store
  <1> HIDE DEF filed
  <1>6. LocalsOK'
    <2>1. /\ pc' = [pc EXCEPT ![c] = "write"] /\ ts' = [ts EXCEPT ![c] = clock]
          /\ UNCHANGED <<rid, req, risk, hist>>
      BY DEF Store, Goto
    <2>2. pc' \in [Callers -> PCs] /\ ts' \in [Callers -> Times]
      BY <1>1, <2>1 DEF FramesInv, LocalsOK, PCs
    <2>3. view' \in [Callers -> Caches] BY <1>1, <1>4, <1>5 DEF FramesInv, LocalsOK
    <2>4. QED BY <1>1, <2>1, <2>2, <2>3 DEF FramesInv, LocalsOK
  <1>7. \A d \in Callers : pc'[d] = IF d = c THEN "write" ELSE pc[d]
    BY <1>1 DEF FramesInv, LocalsOK, Store, Goto
  <1>8. CallInv'
    BY <1>1, <1>7 DEF FramesInv, CallInv, Store
  <1>9. StoresOK'
    BY <1>4, <1>5 DEF TypeInv, TypeOK, StoresOK, Store
  <1>10. BoundsOK' /\ LocksOK' /\ CallsOK' /\ PromisesOK'
    BY DEF TypeInv, TypeOK, Store, BoundsOK, LocksOK, CallsOK, PromisesOK, locks, logs, promises
  <1> QED
    BY <1>6, <1>8, <1>9, <1>10 DEF TypeInv, TypeOK

LEMMA TypeWrite ==
    ASSUME TypeInv, NEW c \in Callers, Write(c)
    PROVE  TypeInv'
  <1>1. FramesInv /\ CallsOK
    BY DEF TypeInv, TypeOK, FramesInv, OutcomeOK, CallsOK
  <1>2. FramesInv'
    BY <1>1, IdleType DEF Write, FramesInv, OutcomeOK
  <1>3. StoresOK'
    BY DEF TypeInv, TypeOK, StoresOK, LocalsOK, Write
  <1>4. ts[c] \in Times
    BY <1>1 DEF FramesInv, LocalsOK
  <1>5. PromisesOK'
    BY <1>4 DEF TypeInv, TypeOK, PromisesOK, Write
  <1>6. BoundsOK' /\ LocksOK' /\ CallsOK'
    BY DEF TypeInv, TypeOK, Write, BoundsOK, LocksOK, CallsOK, locks, logs
  <1> QED
    BY <1>2, <1>3, <1>5, <1>6 DEF TypeInv, TypeOK, FramesInv

LEMMA EntryOfCache ==
    ASSUME NEW s \in Caches, NEW k \in Keys, NEW now, Fresh(s[k], now)
    PROVE  s[k] \in Entries
  BY DEF Caches, Fresh

LEMMA TypeLookupDisk ==
    ASSUME TypeInv, NEW c \in Callers, LookupDisk(c)
    PROVE  TypeInv'
  <1> DEFINE k == req[c].key
             e == disk[k]
  <1>1. FramesInv /\ CallsOK /\ pc[c] = "disk" /\ pc[c] # "idle" /\ rid[c] \in Rids
    BY DEF TypeInv, TypeOK, FramesInv, OutcomeOK, CallsOK, CallInv, LookupDisk
  <1>2. BoundsOK' /\ LocksOK' /\ PromisesOK'
    BY DEF TypeInv, TypeOK, LookupDisk, BoundsOK, LocksOK, PromisesOK, locks, promises
  <1>3. ASSUME Fresh(e, ts[c])
        PROVE  FramesInv' /\ StoresOK' /\ CallsOK'
    <2>1. k \in Keys
      BY <1>1, ConstantsAssumption DEF FramesInv, LocalsOK, CallInv
    <2>2. e \in Entries
      BY <1>3, <2>1, EntryOfCache DEF TypeInv, TypeOK, StoresOK
    <2>3. e.code \in Codes
      BY <2>2 DEF Entries
    <2>4. /\ mem' = [mem EXCEPT ![ProcOf[c]][k] = e]
          /\ outcome' = [outcome EXCEPT ![rid[c]] = e.code]
          /\ Idle(c)
          /\ UNCHANGED <<disk, rate, counted, inputs, logs, keyOf>>
      BY <1>3 DEF LookupDisk, Replay
    <2> HIDE DEF e, k
    <2>5. FramesInv'
      BY <1>1, <2>3, <2>4, OutcomeType, IdleType DEF FramesInv
    <2>6. [mem[ProcOf[c]] EXCEPT ![k] = e] \in Caches
      BY <2>2, ProcType DEF TypeInv, TypeOK, StoresOK, Caches
    <2>7. StoresOK'
      BY <2>4, <2>6, ProcType DEF TypeInv, TypeOK, StoresOK
    <2>8. CallsOK'
      BY <1>1, <2>4, <2>5 DEF CallsOK, FramesInv, OutcomeOK, logs
    <2> QED
      BY <2>5, <2>7, <2>8
  <1>4. ASSUME ~Fresh(e, ts[c])
        PROVE  FramesInv' /\ StoresOK' /\ CallsOK'
    <2>1. FramesInv'
      BY <1>1, <1>4, ProceedType DEF LookupDisk, PCs
    <2>2. StoresOK' /\ CallsOK'
      BY <1>4, <2>1
      DEF TypeInv, TypeOK, LookupDisk, StoresOK, CallsOK, Proceed, logs
    <2> QED
      BY <2>1, <2>2
  <1> QED
    BY <1>2, <1>3, <1>4 DEF TypeInv, TypeOK, FramesInv

(***************************************************************************)
(* The start of a call, and the environment.                               *)
(***************************************************************************)
LEMMA PromiseType ==
    ASSUME PromisesOK, LocalsOK, NEW c \in Callers, NEW r \in Rids, NEW k \in Keys \cup {NoKey},
           Promise(c, r, k), UNCHANGED grace
    PROVE  PromisesOK'
  <1>1. CASE k = NoKey
    BY <1>1 DEF Promise, promises, PromisesOK
  <1>2. CASE k # NoKey
    <2>1. /\ owed' \subseteq Rids /\ owedAtHome' \subseteq Rids
          /\ persisted' \in [Keys -> Times \cup {Never}]
      BY <1>2 DEF Promise, PromisesOK
    <2>2. returned' = returned \/ returned' = [returned EXCEPT ![ProcOf[c]][k] = Void]
      BY <1>2 DEF Promise
    <2>3. returned' \in [Procs -> [Keys -> Times \cup {Never, Void}]]
      <3>1. [returned[ProcOf[c]] EXCEPT ![k] = Void] \in [Keys -> Times \cup {Never, Void}]
        BY ProcType DEF PromisesOK
      <3> QED
        BY <2>2, <3>1, ProcType DEF PromisesOK
    <2> QED
      BY <2>1, <2>3 DEF PromisesOK
  <1> QED
    BY <1>1, <1>2

LEMMA TypeStart ==
    ASSUME TypeInv, NEW c \in Callers, NEW q \in Requests, Start(c, q)
    PROVE  TypeInv'
  <1> DEFINE e == mem[ProcOf[c]][q.key]
  <1>1. FramesInv /\ CallsOK /\ StoresOK /\ PromisesOK /\ clock \in Times
    BY DEF TypeInv, TypeOK, BoundsOK, FramesInv, OutcomeOK, CallsOK
  <1>2. nextRid \in Rids /\ nextRid' \in 1..(MaxCalls + 1)
    BY ConstantsAssumption DEF TypeInv, TypeOK, BoundsOK, Start, Rids
  <1>3. q.key \in Keys \cup {NoKey}
    BY ConstantsAssumption
  <1>4. BoundsOK' /\ LocksOK'
    BY <1>2 DEF TypeInv, TypeOK, BoundsOK, LocksOK, Start, locks
  <1>5. PromisesOK'
    BY <1>1, <1>2, <1>3, PromiseType DEF Start, FramesInv
  <1>6. CallsOK' \/ ~OutcomeOK'
    BY <1>1, <1>2, <1>3 DEF Start, CallsOK, OutcomeOK, logs
  <1>7. ASSUME NEW l \in {"gate", "disk"}, Goto(c, l), OutcomeOK', UNCHANGED outcome,
               rid' = [rid EXCEPT ![c] = nextRid], req' = [req EXCEPT ![c] = q],
               LocalsOK', l = "disk" => q.key # NoKey
        PROVE  FramesInv'
    <2>1. \A d \in Callers :
              /\ pc'[d] = IF d = c THEN l ELSE pc[d]
              /\ rid'[d] = IF d = c THEN nextRid ELSE rid[d]
              /\ req'[d] = IF d = c THEN q ELSE req[d]
      BY <1>1, <1>7 DEF FramesInv, LocalsOK, Goto
    <2>2. CallInv'
      BY <1>1, <1>2, <1>7, <2>1 DEF FramesInv, CallInv
    <2> QED
      BY <1>7, <2>2 DEF FramesInv
  <1>8. CASE q.key = NoKey
    <2>1. LocalsOK'
      BY <1>1, <1>2, <1>8 DEF Start, FramesInv, LocalsOK, Goto, PCs
    <2>2. FramesInv'
      BY <1>1, <1>7, <1>8, <2>1 DEF Start, FramesInv, OutcomeOK
    <2>3. StoresOK'
      BY <1>1, <1>8 DEF Start, StoresOK
    <2> QED
      BY <1>4, <1>5, <1>6, <2>2, <2>3 DEF FramesInv, TypeInv, TypeOK
  <1>9. CASE q.key # NoKey /\ Fresh(e, clock)
    <2>1. e \in Entries
      BY <1>1, <1>3, <1>9, ProcType, EntryOfCache DEF StoresOK
    <2>2. e.code \in Codes
      BY <2>1 DEF Entries
    <2>3. /\ outcome' = [outcome EXCEPT ![nextRid] = e.code]
          /\ UNCHANGED <<pc, rid, req, ts, mem, risk, hist, view, disk, rate, counted>>
      BY <1>9 DEF Start, Replay
    <2> HIDE DEF e
    <2>4. OutcomeOK' /\ \A s \in Rids : outcome[s] \in Codes => outcome'[s] \in Codes
      BY <1>1, <2>2, <2>3, OutcomeType DEF FramesInv
    <2>5. FramesInv'
      BY <1>1, <2>3, <2>4 DEF FramesInv, LocalsOK, CallInv
    <2>6. StoresOK'
      BY <1>1, <2>3 DEF StoresOK
    <2> QED
      BY <1>4, <1>5, <1>6, <2>5, <2>6 DEF FramesInv, TypeInv, TypeOK
  <1>10. CASE q.key # NoKey /\ ~Fresh(e, clock)
    <2>1. LocalsOK'
      BY <1>1, <1>2, <1>10 DEF Start, FramesInv, LocalsOK, Goto, PCs
    <2>2. FramesInv'
      BY <1>1, <1>7, <1>10, <2>1 DEF Start, FramesInv, OutcomeOK
    <2>3. mem' = [mem EXCEPT ![ProcOf[c]][q.key] = NoEntry]
      BY <1>10 DEF Start
    <2>4. [mem[ProcOf[c]] EXCEPT ![q.key] = NoEntry] \in Caches
      BY <1>1, ProcType DEF StoresOK, Caches
    <2>5. StoresOK'
      BY <1>1, <2>3, <2>4, ProcType DEF Start, StoresOK
    <2> QED
      BY <1>4, <1>5, <1>6, <2>2, <2>5 DEF FramesInv, TypeInv, TypeOK
  <1> QED
    BY <1>8, <1>9, <1>10

LEMMA TypeTick ==
    ASSUME TypeInv, Tick
    PROVE  TypeInv'
  <1>1. BoundsOK'
    BY ConstantsAssumption DEF TypeInv, TypeOK, BoundsOK, Times, Tick
  <1> QED
    BY <1>1 DEF TypeInv, TypeOK, Tick, LocalsOK, CallInv, CallsOK, LocksOK, StoresOK,
                PromisesOK, locals, locks, logs, promises

LEMMA TypeStop ==
    ASSUME TypeInv, NEW source \in Sources, EngageStop(source) \/ ClearStop(source)
    PROVE  TypeInv'
  <1>1. UNCHANGED <<locals, locks, mem, disk, rate, inputs, logs, counted, outcome,
                    keyOf, promises>>
    BY DEF EngageStop, ClearStop
  <1>2. BoundsOK'
    <2>1. BoundsOK /\ MaxStops \in Nat
      BY ConstantsAssumption DEF TypeInv, TypeOK
    <2>2. CASE EngageStop(source)
      BY <2>1, <2>2 DEF BoundsOK, EngageStop
    <2>3. CASE ClearStop(source)
      BY <2>1, <2>3 DEF BoundsOK, ClearStop
    <2> QED
      BY <2>2, <2>3
  <1>3. LocalsOK' /\ CallInv' /\ CallsOK' /\ LocksOK' /\ StoresOK'
    BY <1>1 DEF TypeInv, TypeOK, LocalsOK, CallInv, CallsOK, LocksOK, StoresOK,
                locals, locks, logs
  <1>4. grace' \in [Sources -> SUBSET Rids]
    <2>1. \A c \in Callers : pc[c] \in Past(source) => rid[c] \in Rids
      BY DEF TypeInv, CallInv, PastGate, Past
    <2>2. {rid[c] : c \in {d \in Callers : pc[d] \in Past(source)}} \subseteq Rids
      BY <2>1
    <2>3. grace \in [Sources -> SUBSET Rids]
      BY DEF TypeInv, TypeOK, PromisesOK
    <2> QED
      BY <2>2, <2>3 DEF EngageStop, ClearStop
  <1>5. PromisesOK'
    BY <1>1, <1>4 DEF TypeInv, TypeOK, PromisesOK, promises
  <1> QED
    BY <1>2, <1>3, <1>5 DEF TypeInv, TypeOK

LEMMA TypeDie ==
    ASSUME TypeInv, NEW p \in Procs, Die(p)
    PROVE  TypeInv'
  <1>1. BoundsOK'
    BY ConstantsAssumption DEF TypeInv, TypeOK, BoundsOK, Die
  <1>2. LocalsOK'
    BY DefaultsType, ZeroIsATime DEF TypeInv, TypeOK, LocalsOK, Die, PCs, Risks
  <1>3. CallInv'
    BY DEF TypeInv, TypeOK, LocalsOK, CallInv, Die
  <1>4. LocksOK'
    BY DEF TypeInv, TypeOK, LocksOK, Die
  <1>5. StoresOK'
    BY DefaultsType DEF TypeInv, TypeOK, StoresOK, Die
  <1>6. CallsOK'
    BY DEF TypeInv, TypeOK, CallsOK, Die, logs
  <1>7. PromisesOK'
    BY DEF TypeInv, TypeOK, PromisesOK, Die
  <1> QED
    BY <1>1, <1>2, <1>3, <1>4, <1>5, <1>6, <1>7 DEF TypeInv, TypeOK

LEMMA TypeStutter == TypeInv /\ UNCHANGED vars => TypeInv'
  BY DEF TypeInv, TypeOK, BoundsOK, LocalsOK, LocksOK, StoresOK, CallsOK, PromisesOK,
         CallInv, vars, locals, locks, logs, promises

LEMMA TypeNext == TypeInv /\ [Next]_vars => TypeInv'
  <1> SUFFICES ASSUME TypeInv, Next PROVE TypeInv'
    BY TypeStutter
  <1>1. ASSUME NEW c \in Callers, Step(c) PROVE TypeInv'
    BY <1>1, TypeLookupDisk, TypeGate, TypeAcquireThreadLock, TypeAcquireFileLock,
       TypeObserve, TypeDecide, TypeRateCheck, TypeHalt, TypeInput, TypeReobserve,
       TypeSaveRate, TypeLogOk, TypeRelease, TypeStore, TypeWrite
    DEF Step
  <1> QED
    BY <1>1, TypeStart, TypeDie, TypeTick, TypeStop DEF Next

\* Every variable keeps its type; a call that runs has a request id, and one
\* that is past its body has an envelope code.
THEOREM TypeCorrect == Spec => [](TypeOK /\ CallInv)
  <1>1. Init => TypeInv
    BY TypeInit
  <1>2. TypeInv /\ [Next]_vars => TypeInv'
    BY TypeNext
  <1>3. Spec => []TypeInv
    BY <1>1, <1>2, PTL DEF Spec
  <1> QED
    BY <1>3 DEF TypeInv

(***************************************************************************)
(* How a step moves: only the frame of its caller changes, and every step  *)
(* but four leaves the caller's side of the lock where it was.             *)
(***************************************************************************)
OnlyMoves(c) == \A d \in Callers \ {c} :
                    /\ pc'[d] = pc[d] /\ rid'[d] = rid[d] /\ req'[d] = req[d]
                    /\ ts'[d] = ts[d] /\ risk'[d] = risk[d] /\ hist'[d] = hist[d]
Keeps(c) == /\ rid'[c] = rid[c] /\ req'[c] = req[c] /\ ts'[c] = ts[c]
            /\ risk'[c] = risk[c] /\ hist'[c] = hist[c]

LEMMA GotoMoves ==
    ASSUME LocalsOK, NEW c \in Callers, NEW l, Goto(c, l)
    PROVE  pc'[c] = l /\ \A d \in Callers \ {c} : pc'[d] = pc[d]
  BY DEF LocalsOK, Goto

LEMMA ProceedMoves ==
    ASSUME LocalsOK, NEW c \in Callers, NEW l, Proceed(c, l)
    PROVE  pc'[c] = l /\ OnlyMoves(c) /\ Keeps(c)
  BY GotoMoves DEF Proceed, OnlyMoves, Keeps

LEMMA FinishMoves ==
    ASSUME LocalsOK, NEW c \in Callers, NEW code, Finish(c, code)
    PROVE  pc'[c] = "release" /\ OnlyMoves(c) /\ Keeps(c)
  BY GotoMoves DEF Finish, OnlyMoves, Keeps

LEMMA BlockMoves ==
    ASSUME LocalsOK, NEW c \in Callers, NEW code, Block(c, code)
    PROVE  pc'[c] = "release" /\ OnlyMoves(c) /\ Keeps(c)
  BY FinishMoves DEF Block

LEMMA IdleMoves ==
    ASSUME LocalsOK, NEW c \in Callers, Idle(c)
    PROVE  pc'[c] = "idle" /\ OnlyMoves(c)
  <1>1. pc'[c] = "idle" /\ \A d \in Callers \ {c} : pc'[d] = pc[d]
    BY GotoMoves DEF Idle
  <1> QED
    BY <1>1 DEF LocalsOK, Idle, OnlyMoves

LEMMA LeaveMoves ==
    ASSUME LocalsOK, NEW c \in Callers, NEW code, Leave(c, code)
    PROVE  pc'[c] \in {"idle", "store"} /\ OnlyMoves(c)
  <1>1. CASE Idle(c)
    BY <1>1, IdleMoves
  <1>2. CASE Goto(c, "store") /\ UNCHANGED <<rid, req, ts, risk, hist, view>>
    BY <1>2, GotoMoves DEF OnlyMoves
  <1> QED
    BY <1>1, <1>2 DEF Leave

LEMMA RefuseMoves ==
    ASSUME LocalsOK, NEW c \in Callers, NEW code, Refuse(c, code)
    PROVE  pc'[c] \in {"idle", "store"} /\ OnlyMoves(c)
  BY LeaveMoves DEF Refuse

LEMMA CheckModeMoves ==
    ASSUME LocalsOK, NEW c \in Callers, CheckMode(c)
    PROVE  /\ OnlyMoves(c)
           /\ \/ pc'[c] \in {"idle", "store"}
              \/ pc'[c] = "thread" /\ Keeps(c)
  BY RefuseMoves, ProceedMoves DEF CheckMode

(***************************************************************************)
(* Mutual exclusion.  SingleWriter is inductive, given the types: the last *)
(* conjunct is what makes giving the thread lock back safe.                *)
(***************************************************************************)
LEMMA SingleWriterKept ==
    ASSUME SingleWriter, UNCHANGED locks, NEW c \in Callers,
           \A d \in Callers \ {c} : pc'[d] = pc[d],
           pc[c] \in Locked <=> pc'[c] \in Locked,
           pc'[c] = "flock" => pc[c] = "flock"
    PROVE  SingleWriter'
  <1>1. \A d \in Callers : InCS(d)' <=> InCS(d)
    BY DEF InCS
  <1>2. \A d \in Callers : pc'[d] = "flock" => pc[d] = "flock"
    OBVIOUS
  <1> QED
    BY <1>1, <1>2 DEF SingleWriter, locks

LEMMA SingleWriterThread ==
    ASSUME TypeInv, SingleWriter, NEW c \in Callers, AcquireThreadLock(c)
    PROVE  SingleWriter'
  <1>1. LocalsOK /\ LocksOK /\ pc[c] = "thread"
    BY DEF TypeInv, TypeOK, AcquireThreadLock
  <1>2. ASSUME Refuse(c, "busy"), UNCHANGED locks PROVE SingleWriter'
    BY <1>1, <1>2, RefuseMoves, SingleWriterKept DEF OnlyMoves, Locked
  <1>3. ASSUME threadLock[ProcOf[c]] = NoCaller, Proceed(c, "flock"), UNCHANGED fileLock,
               threadLock' = [threadLock EXCEPT ![ProcOf[c]] = c]
        PROVE  SingleWriter'
    <2>1. pc'[c] = "flock" /\ \A d \in Callers \ {c} : pc'[d] = pc[d]
      BY <1>1, <1>3, ProceedMoves DEF OnlyMoves
    <2>2. \A d \in Callers : InCS(d)' <=> InCS(d)
      BY <1>1, <2>1 DEF InCS, Locked
    <2>3. \A d \in Callers \ {c} :
              InCS(d) \/ pc[d] = "flock" => ProcOf[d] # ProcOf[c]
      BY <1>3, ConstantsAssumption DEF SingleWriter
    <2>4. threadLock'[ProcOf[c]] = c
      BY <1>1, <1>3, ProcType DEF LocksOK
    <2>5. \A d \in Callers : InCS(d)' \/ pc'[d] = "flock" => threadLock'[ProcOf[d]] = d
      BY <1>1, <1>3, <2>1, <2>2, <2>3, <2>4, ProcType DEF SingleWriter, LocksOK
    <2> QED
      BY <1>3, <2>2, <2>5 DEF SingleWriter
  <1> QED
    BY <1>2, <1>3 DEF AcquireThreadLock, locks

LEMMA SingleWriterFlock ==
    ASSUME TypeInv, SingleWriter, NEW c \in Callers, AcquireFileLock(c)
    PROVE  SingleWriter'
  <1>1. LocalsOK /\ LocksOK /\ pc[c] = "flock" /\ ~InCS(c)
    BY DEF TypeInv, TypeOK, AcquireFileLock, InCS, Locked
  <1>2. threadLock[ProcOf[c]] = c
    BY <1>1 DEF SingleWriter
  <1>3. ASSUME fileLock = NoCaller, fileLock' = c, Proceed(c, "observe"),
               UNCHANGED threadLock
        PROVE  SingleWriter'
    <2>1. pc'[c] = "observe" /\ \A d \in Callers \ {c} : pc'[d] = pc[d]
      BY <1>1, <1>3, ProceedMoves DEF OnlyMoves
    <2>2. \A d \in Callers : ~InCS(d)
      BY <1>3, ConstantsAssumption DEF SingleWriter
    <2>3. InCS(c)' /\ \A d \in Callers \ {c} : ~InCS(d)'
      BY <2>1, <2>2 DEF InCS, Locked
    <2> QED
      BY <1>2, <1>3, <2>1, <2>3 DEF SingleWriter
  <1>4. ASSUME Refuse(c, "raised"), UNCHANGED locks PROVE SingleWriter'
    BY <1>1, <1>4, RefuseMoves, SingleWriterKept DEF OnlyMoves, Locked
  <1>5. ASSUME Refuse(c, "busy"), UNCHANGED fileLock,
               threadLock' = [threadLock EXCEPT ![ProcOf[c]] = NoCaller]
        PROVE  SingleWriter'
    <2>1. pc'[c] \in {"idle", "store"} /\ \A d \in Callers \ {c} : pc'[d] = pc[d]
      BY <1>1, <1>5, RefuseMoves DEF OnlyMoves
    <2>2. \A d \in Callers : InCS(d)' <=> InCS(d)
      BY <1>1, <2>1 DEF InCS, Locked
    <2>3. \A d \in Callers \ {c} : InCS(d) \/ pc[d] = "flock" => ProcOf[d] # ProcOf[c]
      BY <1>2 DEF SingleWriter
    <2>4. \A d \in Callers \ {c} : InCS(d)' \/ pc'[d] = "flock" => threadLock'[ProcOf[d]] = d
      BY <1>1, <1>5, <2>1, <2>2, <2>3 DEF SingleWriter, LocksOK
    <2>5. \A d \in Callers : InCS(d)' \/ pc'[d] = "flock" => threadLock'[ProcOf[d]] = d
      BY <1>1, <2>1, <2>2, <2>4
    <2> QED
      BY <1>5, <2>2, <2>5 DEF SingleWriter
  <1> QED
    BY <1>3, <1>4, <1>5 DEF AcquireFileLock

LEMMA SingleWriterRelease ==
    ASSUME TypeInv, SingleWriter, NEW c \in Callers, Release(c)
    PROVE  SingleWriter'
  <1>1. LocalsOK /\ LocksOK /\ pc[c] = "release" /\ InCS(c)
    BY DEF TypeInv, TypeOK, Release, InCS, Locked
  <1>2. pc'[c] \in {"idle", "store"} /\ \A d \in Callers \ {c} : pc'[d] = pc[d]
    BY <1>1, LeaveMoves DEF Release, OnlyMoves
  <1>3. \A d \in Callers : ~InCS(d)'
    BY <1>1, <1>2 DEF SingleWriter, InCS, Locked
  <1>4. fileLock' = NoCaller /\ \A d \in Callers : fileLock' # d
    BY ConstantsAssumption DEF Release
  <1>5. ASSUME NEW d \in Callers, pc'[d] = "flock" PROVE threadLock'[ProcOf[d]] = d
    <2>1. d # c /\ pc[d] = "flock"
      BY <1>2, <1>5
    <2>2. threadLock[ProcOf[d]] = d /\ threadLock[ProcOf[c]] = c
      BY <1>1, <2>1 DEF SingleWriter
    <2> QED
      BY <1>1, <2>1, <2>2 DEF Release, LocksOK
  <1> QED
    BY <1>3, <1>4, <1>5 DEF SingleWriter

LEMMA SingleWriterDie ==
    ASSUME TypeInv, SingleWriter, NEW p \in Procs, Die(p)
    PROVE  SingleWriter'
  <1>1. \A d \in Callers : pc'[d] = IF ProcOf[d] = p THEN "idle" ELSE pc[d]
    BY DEF Die
  <1>2. \A d \in Callers : InCS(d)' <=> InCS(d) /\ ProcOf[d] # p
    BY <1>1 DEF InCS, Locked
  <1>3. \A d \in Callers : fileLock' = d <=> fileLock = d /\ ProcOf[d] # p
    BY ConstantsAssumption DEF Die
  <1>4. \A d \in Callers : pc'[d] = "flock" => pc[d] = "flock" /\ ProcOf[d] # p
    BY <1>1
  <1>5. \A d \in Callers : ProcOf[d] # p => threadLock'[ProcOf[d]] = threadLock[ProcOf[d]]
    BY ProcType DEF Die, TypeInv, TypeOK, LocksOK
  <1> QED
    BY <1>2, <1>3, <1>4, <1>5 DEF SingleWriter

LEMMA SingleWriterStep ==
    ASSUME TypeInv, SingleWriter, NEW c \in Callers, Step(c)
    PROVE  SingleWriter'
  <1>1. LocalsOK
    BY DEF TypeInv, TypeOK
  <1>2. CASE LookupDisk(c)
    BY <1>1, <1>2, IdleMoves, ProceedMoves, SingleWriterKept
    DEF LookupDisk, OnlyMoves, Locked
  <1>3. CASE Gate(c)
    BY <1>1, <1>3, RefuseMoves, ProceedMoves, CheckModeMoves, SingleWriterKept
    DEF Gate, OnlyMoves, Locked
  <1>13. CASE AskCompanion(c)
    BY <1>1, <1>13, RefuseMoves, CheckModeMoves, SingleWriterKept
    DEF AskCompanion, OnlyMoves, Locked
  <1>4. CASE Observe(c)
    BY <1>1, <1>4, FinishMoves, GotoMoves, SingleWriterKept
    DEF Observe, OnlyMoves, Locked
  <1>5. CASE Decide(c)
    BY <1>1, <1>5, BlockMoves, ProceedMoves, SingleWriterKept
    DEF Decide, OnlyMoves, Locked
  <1>6. CASE RateCheck(c)
    BY <1>1, <1>6, BlockMoves, FinishMoves, GotoMoves, SingleWriterKept
    DEF RateCheck, OnlyMoves, Locked
  <1>14. CASE Halt(c)
    BY <1>1, <1>14, FinishMoves, ProceedMoves, SingleWriterKept
    DEF Halt, OnlyMoves, Locked
  <1>7. CASE Input(c)
    BY <1>1, <1>7, FinishMoves, ProceedMoves, SingleWriterKept
    DEF Input, OnlyMoves, Locked
  <1>8. CASE Reobserve(c)
    BY <1>1, <1>8, FinishMoves, ProceedMoves, SingleWriterKept
    DEF Reobserve, OnlyMoves, Locked
  <1>9. CASE SaveRate(c)
    BY <1>1, <1>9, FinishMoves, ProceedMoves, SingleWriterKept
    DEF SaveRate, OnlyMoves, Locked
  <1>10. CASE LogOk(c)
    BY <1>1, <1>10, FinishMoves, SingleWriterKept DEF LogOk, OnlyMoves, Locked
  <1>11. CASE Store(c)
    BY <1>1, <1>11, GotoMoves, SingleWriterKept DEF Store, OnlyMoves, Locked
  <1>12. CASE Write(c)
    BY <1>1, <1>12, IdleMoves, SingleWriterKept DEF Write, OnlyMoves, Locked
  <1> QED
    BY <1>2, <1>3, <1>4, <1>5, <1>6, <1>7, <1>8, <1>9, <1>10, <1>11, <1>12, <1>13,
       <1>14, SingleWriterThread, SingleWriterFlock, SingleWriterRelease
    DEF Step

LEMMA SingleWriterNext == TypeInv /\ SingleWriter /\ [Next]_vars => SingleWriter'
  <1> SUFFICES ASSUME TypeInv, SingleWriter, [Next]_vars PROVE SingleWriter'
    OBVIOUS
  <1>1. ASSUME NEW c \in Callers, NEW q \in Requests, Start(c, q) PROVE SingleWriter'
    <2>1. LocalsOK /\ pc[c] = "idle" /\ UNCHANGED locks
      BY <1>1 DEF TypeInv, TypeOK, Start
    <2>2. pc' = pc \/ Goto(c, "gate") \/ Goto(c, "disk")
      BY <1>1 DEF Start
    <2> QED
      BY <2>1, <2>2, GotoMoves, SingleWriterKept DEF Locked
  <1>2. ASSUME UNCHANGED <<pc, locks>> PROVE SingleWriter'
    BY <1>2 DEF SingleWriter, InCS, locks
  <1>3. CASE Tick \/ UNCHANGED vars
    BY <1>2, <1>3 DEF Tick, vars, locals
  <1>4. ASSUME NEW source, EngageStop(source) \/ ClearStop(source) PROVE SingleWriter'
    BY <1>2, <1>4 DEF EngageStop, ClearStop, locals
  <1> QED
    BY <1>1, <1>3, <1>4, SingleWriterStep, SingleWriterDie DEF Next

\* At most one call at a time, over all threads and all processes, is between a
\* won flock and its finally clause, and it holds both locks: for any number of
\* processes, threads, calls, crashes and STOPs.
THEOREM SingleWriterAlways == Spec => []SingleWriter
  <1>1. Init => SingleWriter
    BY ConstantsAssumption DEF Init, SingleWriter, InCS, Locked
  <1>2. TypeInv /\ SingleWriter /\ [Next]_vars => SingleWriter'
    BY SingleWriterNext
  <1> QED
    BY <1>1, <1>2, TypeInit, TypeNext, PTL DEF Spec

(***************************************************************************)
(* Rate limits.  The file holds every record still in the window; a call   *)
(* that passed the check holds a copy of those, was admitted on that copy, *)
(* and no other call can save in between.                                  *)
(***************************************************************************)
Admitted == {"halt", "fn", "reobserve", "save"}
CopyIsComplete(c) == \A h \in counted : ts[c] - h.ts <= Window => h \in hist[c]
RateInv ==
    /\ NoRateRecordLost
    /\ RateLimitHolds
    /\ IsFiniteSet(rate) /\ IsFiniteSet(counted)
    /\ \A h \in counted : h.ts <= clock
    /\ \A c \in Callers : pc[c] \in Admitted =>
            /\ ts[c] <= clock
            /\ \A h \in counted : h.ts <= ts[c]
            /\ CopyIsComplete(c)
            /\ IsFiniteSet(hist[c])
            /\ RateAllows(hist[c], req[c].verb, risk[c])

LEMMA RateInvInit == Init => RateInv
  <1> SUFFICES ASSUME Init PROVE RateInv
    OBVIOUS
  <1>1. IsFiniteSet({}) /\ Cardinality({}) = 0
    BY FS_EmptySet
  <1>2. RateLimitHolds
    <2> SUFFICES ASSUME NEW b \in DOMAIN Limits, NEW t \in Times
                 PROVE Cardinality({h \in InBucket(counted, b) :
                                        t - Window <= h.ts /\ h.ts <= t}) <= Limits[b]
      BY DEF RateLimitHolds
    <2>1. {h \in InBucket(counted, b) : t - Window <= h.ts /\ h.ts <= t} = {}
      BY DEF Init, InBucket
    <2>2. Limits[b] \in Nat
      BY ConstantsAssumption
    <2>3. 0 <= Limits[b]
      BY <2>2
    <2> QED
      BY <1>1, <2>1, <2>3
  <1>3. \A c \in Callers : pc[c] \notin Admitted
    BY DEF Init, Admitted
  <1> QED
    BY <1>1, <1>2, <1>3 DEF Init, RateInv, NoRateRecordLost

\* A step that neither saves nor admits a call, and does not turn the clock back.
LEMMA RateInvKept ==
    ASSUME TypeInv, RateInv, UNCHANGED <<rate, counted>>, clock' \in Times,
           clock <= clock',
           \A d \in Callers : pc'[d] \in Admitted =>
                /\ pc[d] \in Admitted /\ req'[d] = req[d] /\ ts'[d] = ts[d]
                /\ risk'[d] = risk[d] /\ hist'[d] = hist[d]
    PROVE  RateInv'
  <1>1. /\ clock \in Int /\ clock' \in Int /\ Window \in Int
        /\ \A h \in counted : h.ts \in Int
        /\ \A d \in Callers : ts[d] \in Int
    BY ConstantsAssumption
    DEF TypeInv, TypeOK, BoundsOK, LocalsOK, StoresOK, Times, Records
  <1>2. RateLimitHolds'
    BY DEF RateInv, RateLimitHolds, InBucket
  <1>3. NoRateRecordLost'
    BY <1>1 DEF RateInv, NoRateRecordLost
  <1>4. \A h \in counted' : h.ts <= clock'
    BY <1>1 DEF RateInv
  <1>5. ASSUME NEW d \in Callers, pc'[d] \in Admitted
        PROVE  /\ ts'[d] <= clock'
               /\ \A h \in counted' : h.ts <= ts'[d]
               /\ CopyIsComplete(d)'
               /\ IsFiniteSet(hist'[d])
               /\ RateAllows(hist[d], req[d].verb, risk[d])'
    <2>1. /\ ts[d] <= clock
          /\ \A h \in counted : h.ts <= ts[d]
          /\ CopyIsComplete(d)
          /\ IsFiniteSet(hist[d])
          /\ RateAllows(hist[d], req[d].verb, risk[d])
      BY <1>5 DEF RateInv
    <2>2. CopyIsComplete(d)'
      BY <1>5, <2>1 DEF CopyIsComplete
    <2>3. RateAllows(hist[d], req[d].verb, risk[d])'
      BY <1>5, <2>1 DEF RateAllows, BucketsFor, InBucket
    <2> QED
      BY <1>1, <1>5, <2>1, <2>2, <2>3
  <1> QED
    BY <1>2, <1>3, <1>4, <1>5 DEF RateInv

LEMMA RateInvCheck ==
    ASSUME TypeInv, RateInv, NEW c \in Callers, RateCheck(c)
    PROVE  RateInv'
  <1> DEFINE recent == Prune(rate, clock)
  <1>1. LocalsOK /\ clock \in Times /\ UNCHANGED <<rate, counted, clock>>
    BY DEF TypeInv, TypeOK, BoundsOK, RateCheck
  <1>2. clock \in Int /\ clock <= clock'
    BY <1>1, ConstantsAssumption DEF Times
  <1>3. ASSUME pc'[c] = "release", OnlyMoves(c) PROVE RateInv'
    BY <1>1, <1>2, <1>3, RateInvKept DEF OnlyMoves, Admitted
  <1>4. ASSUME NEW l \in {"halt", "fn"}, Goto(c, l), ts' = [ts EXCEPT ![c] = clock],
               hist' = [hist EXCEPT ![c] = recent], UNCHANGED <<rid, req, risk>>,
               RateAllows(recent, req[c].verb, risk[c])
        PROVE  RateInv'
    <2>1. pc'[c] = l /\ \A d \in Callers \ {c} : pc'[d] = pc[d]
      BY <1>1, <1>4, GotoMoves
    <2>2. \A d \in Callers \ {c} : ts'[d] = ts[d] /\ hist'[d] = hist[d]
      BY <1>1, <1>4 DEF LocalsOK
    <2>3. ts'[c] = clock /\ hist'[c] = recent
      BY <1>1, <1>4 DEF LocalsOK
    <2>4. \A h \in counted : clock - h.ts <= Window => h \in recent
      BY DEF RateInv, NoRateRecordLost, Prune
    <2>5. IsFiniteSet(recent)
      <3>1. recent \subseteq rate
        BY DEF Prune
      <3> QED
        BY <3>1, FS_Subset DEF RateInv
    <2>6. RateAllows(hist[c], req[c].verb, risk[c])'
      BY <1>4, <2>3 DEF RateAllows, BucketsFor, InBucket
    <2>7. CopyIsComplete(c)' /\ ts'[c] <= clock' /\ \A h \in counted' : h.ts <= ts'[c]
      BY <1>1, <1>2, <2>3, <2>4 DEF CopyIsComplete, RateInv
    <2>8. ASSUME NEW d \in Callers \ {c}, pc'[d] \in Admitted
          PROVE  /\ ts'[d] <= clock'
                 /\ \A h \in counted' : h.ts <= ts'[d]
                 /\ CopyIsComplete(d)'
                 /\ IsFiniteSet(hist'[d])
                 /\ RateAllows(hist[d], req[d].verb, risk[d])'
      <3>1. /\ ts[d] <= clock /\ \A h \in counted : h.ts <= ts[d]
            /\ CopyIsComplete(d) /\ IsFiniteSet(hist[d])
            /\ RateAllows(hist[d], req[d].verb, risk[d])
        BY <2>1, <2>8 DEF RateInv
      <3>2. RateAllows(hist[d], req[d].verb, risk[d])'
        BY <1>4, <2>2, <3>1 DEF RateAllows, BucketsFor, InBucket
      <3>3. CopyIsComplete(d)'
        BY <1>1, <2>2, <3>1 DEF CopyIsComplete
      <3> QED
        BY <1>1, <2>2, <3>1, <3>2, <3>3
    <2>9. RateLimitHolds' /\ NoRateRecordLost'
      BY <1>1 DEF RateInv, RateLimitHolds, NoRateRecordLost, InBucket
    <2>10. \A d \in Callers : pc'[d] \in Admitted =>
              /\ ts'[d] <= clock'
              /\ \A h \in counted' : h.ts <= ts'[d]
              /\ CopyIsComplete(d)'
              /\ IsFiniteSet(hist'[d])
              /\ RateAllows(hist[d], req[d].verb, risk[d])'
      BY <2>3, <2>5, <2>6, <2>7, <2>8
    <2> QED
      BY <1>1, <2>9, <2>10 DEF RateInv
  <1> QED
    BY <1>1, <1>3, <1>4, BlockMoves, FinishMoves DEF RateCheck

LEMMA NewRecordsInBucket ==
    ASSUME NEW c \in Callers, NEW b
    PROVE  /\ b \in BucketsFor(req[c].verb, risk[c]) =>
                InBucket(NewRecords(c), b) = {[bucket |-> b, ts |-> ts[c], rid |-> rid[c]]}
           /\ b \notin BucketsFor(req[c].verb, risk[c]) => InBucket(NewRecords(c), b) = {}
  BY DEF InBucket, NewRecords

LEMMA NewRecordsFinite == ASSUME NEW c \in Callers PROVE IsFiniteSet(NewRecords(c))
  <1> DEFINE rec(b) == [bucket |-> b, ts |-> ts[c], rid |-> rid[c]]
             all == ({rec("global")} \cup {rec(req[c].verb)}) \cup {rec("high_risk")}
  <1>1. NewRecords(c) \subseteq all
    BY DEF NewRecords, BucketsFor
  <1>2. IsFiniteSet({rec("global")})
    BY FS_Singleton
  <1>3. IsFiniteSet({rec("global")} \cup {rec(req[c].verb)})
    <2> HIDE DEF rec
    <2> QED
      BY <1>2, FS_AddElement
  <1>4. IsFiniteSet(all)
    <2> HIDE DEF rec
    <2> QED
      BY <1>3, FS_AddElement
  <1> QED
    <2> HIDE DEF all
    <2> QED
      BY <1>1, <1>4, FS_Subset

LEMMA AddOne ==
    ASSUME NEW S, NEW x, IsFiniteSet(S)
    PROVE  Cardinality(S \cup {x}) <= Cardinality(S) + 1
  <1>1. Cardinality(S) \in Nat
    BY FS_CardinalityType
  <1>2. \/ Cardinality(S \cup {x}) = Cardinality(S)
        \/ Cardinality(S \cup {x}) = Cardinality(S) + 1
    BY FS_AddElement
  <1> QED
    BY <1>1, <1>2

\* The heart of the argument: admitting a call on a complete copy keeps every
\* window of the bucket within its limit.
LEMMA AdmittedFits ==
    ASSUME TypeInv, RateInv, NEW c \in Callers, pc[c] \in Admitted,
           NEW b \in DOMAIN Limits, NEW t \in Times
    PROVE  Cardinality({h \in InBucket(counted \cup NewRecords(c), b) :
                            t - Window <= h.ts /\ h.ts <= t}) <= Limits[b]
  <1> DEFINE W(S) == {h \in S : t - Window <= h.ts /\ h.ts <= t}
             old == W(InBucket(counted, b))
             new == W(InBucket(NewRecords(c), b))
             rec == [bucket |-> b, ts |-> ts[c], rid |-> rid[c]]
  <1>1. W(InBucket(counted \cup NewRecords(c), b)) = old \cup new
    BY DEF InBucket
  <1>2. Cardinality(old) <= Limits[b]
    BY DEF RateInv, RateLimitHolds
  <1>3. /\ t \in Int /\ Window \in Nat /\ ts[c] \in Int /\ Limits[b] \in Nat
        /\ \A h \in counted : h.ts \in Int
    BY ConstantsAssumption DEF TypeInv, TypeOK, LocalsOK, StoresOK, Times, Records
  <1>4. CASE new = {}
    BY <1>1, <1>2, <1>4
  <1>5. CASE new # {}
    <2>1. b \in BucketsFor(req[c].verb, risk[c]) /\ InBucket(NewRecords(c), b) = {rec}
      BY <1>5, NewRecordsInBucket
    <2>2. new = {rec} /\ ts[c] <= t /\ t - Window <= ts[c]
      BY <1>5, <2>1
    <2>3. /\ CopyIsComplete(c) /\ IsFiniteSet(hist[c])
          /\ RateAllows(hist[c], req[c].verb, risk[c])
      BY DEF RateInv
    <2>4. old \subseteq InBucket(hist[c], b)
      <3> SUFFICES ASSUME NEW h \in old PROVE h \in InBucket(hist[c], b)
        OBVIOUS
      <3>1. h \in counted /\ h.bucket = b /\ t - Window <= h.ts
        BY DEF InBucket
      <3>2. ts[c] - h.ts <= Window
        BY <1>3, <2>2, <3>1
      <3> QED
        BY <2>3, <3>1, <3>2 DEF CopyIsComplete, InBucket
    <2>5. InBucket(hist[c], b) \subseteq hist[c]
      BY DEF InBucket
    <2>6. IsFiniteSet(InBucket(hist[c], b))
      BY <2>3, <2>5, FS_Subset
    <2>7. IsFiniteSet(old) /\ Cardinality(old) <= Cardinality(InBucket(hist[c], b))
      BY <2>4, <2>6, FS_Subset
    <2>8. Cardinality(InBucket(hist[c], b)) < Limits[b]
      BY <2>1, <2>3 DEF RateAllows
    <2>9. Cardinality(old) \in Nat /\ Cardinality(InBucket(hist[c], b)) \in Nat
      BY <2>6, <2>7, FS_CardinalityType
    <2>10. Cardinality(old \cup {rec}) <= Cardinality(old) + 1
      BY <2>7, AddOne
    <2> HIDE DEF old, rec, new
    <2>11. Cardinality(old \cup {rec}) \in Nat
      BY <2>7, FS_AddElement, FS_CardinalityType
    <2>12. Cardinality(old \cup {rec}) <= Limits[b]
      BY <1>3, <2>7, <2>8, <2>9, <2>10, <2>11
    <2> QED
      BY <1>1, <2>2, <2>12
  <1> QED
    BY <1>4, <1>5

LEMMA RateInvSave ==
    ASSUME TypeInv, SingleWriter, RateInv, NEW c \in Callers, SaveRate(c)
    PROVE  RateInv'
  <1>1. LocalsOK /\ pc[c] = "save" /\ pc[c] \in Admitted /\ UNCHANGED clock
        /\ clock \in Times
    BY DEF TypeInv, TypeOK, BoundsOK, SaveRate, Admitted
  <1>2. /\ clock \in Int /\ clock <= clock' /\ Window \in Nat /\ ts[c] \in Int
        /\ \A h \in counted : h.ts \in Int
    BY <1>1, ConstantsAssumption DEF TypeInv, TypeOK, LocalsOK, StoresOK, Times, Records
  <1>3. ASSUME Finish(c, "raised"), UNCHANGED <<rate, counted>> PROVE RateInv'
    BY <1>1, <1>2, <1>3, FinishMoves, RateInvKept DEF OnlyMoves, Admitted
  <1>4. ASSUME rate' = hist[c] \cup NewRecords(c),
               counted' = counted \cup NewRecords(c), Proceed(c, "log")
        PROVE  RateInv'
    <2>1. pc'[c] = "log" /\ \A d \in Callers \ {c} : pc'[d] = pc[d]
      BY <1>1, <1>4, ProceedMoves DEF OnlyMoves
    <2>2. \A d \in Callers : pc'[d] \notin Admitted
      BY <1>1, <2>1 DEF SingleWriter, InCS, Locked, Admitted
    <2>3. /\ CopyIsComplete(c) /\ IsFiniteSet(hist[c]) /\ ts[c] <= clock
      BY <1>1 DEF RateInv
    <2>4. \A h \in NewRecords(c) : h.ts = ts[c]
      BY DEF NewRecords
    <2>5. \A h \in counted' : h.ts <= clock'
      BY <1>1, <1>4, <2>3, <2>4 DEF RateInv
    <2>6. NoRateRecordLost'
      <3> SUFFICES ASSUME NEW h \in counted', clock' - h.ts <= Window PROVE h \in rate'
        BY DEF NoRateRecordLost
      <3>1. CASE h \in NewRecords(c)
        BY <1>4, <3>1
      <3>2. CASE h \in counted
        <4>1. ts[c] - h.ts <= Window
          BY <1>1, <1>2, <2>3, <3>2
        <4> QED
          BY <1>4, <2>3, <3>2, <4>1 DEF CopyIsComplete
      <3> QED
        BY <1>4, <3>1, <3>2
    <2>7. RateLimitHolds'
      BY <1>1, <1>4, AdmittedFits DEF RateLimitHolds
    <2>8. IsFiniteSet(rate') /\ IsFiniteSet(counted')
      BY <1>4, <2>3, NewRecordsFinite, FS_Union DEF RateInv
    <2> QED
      BY <2>2, <2>5, <2>6, <2>7, <2>8 DEF RateInv
  <1> QED
    BY <1>3, <1>4 DEF SaveRate

LEMMA RateInvStep ==
    ASSUME TypeInv, SingleWriter, RateInv, NEW c \in Callers, Step(c)
    PROVE  RateInv'
  <1>1. LocalsOK /\ clock \in Times /\ clock <= clock
    BY ConstantsAssumption DEF TypeInv, TypeOK, BoundsOK, Times
  <1>2. ASSUME UNCHANGED <<rate, counted, clock>>, OnlyMoves(c), pc'[c] \notin Admitted
        PROVE  RateInv'
    BY <1>1, <1>2, RateInvKept DEF OnlyMoves
  <1>3. CASE LookupDisk(c)
    BY <1>1, <1>2, <1>3, IdleMoves, ProceedMoves DEF LookupDisk, Admitted
  <1>4. CASE Gate(c)
    BY <1>1, <1>2, <1>4, RefuseMoves, ProceedMoves, CheckModeMoves DEF Gate, Admitted
  <1>15. CASE AskCompanion(c)
    BY <1>1, <1>2, <1>15, RefuseMoves, CheckModeMoves DEF AskCompanion, Admitted
  <1>5. CASE AcquireThreadLock(c)
    BY <1>1, <1>2, <1>5, RefuseMoves, ProceedMoves DEF AcquireThreadLock, Admitted
  <1>6. CASE AcquireFileLock(c)
    BY <1>1, <1>2, <1>6, RefuseMoves, ProceedMoves DEF AcquireFileLock, Admitted
  <1>7. CASE Observe(c)
    <2>1. ASSUME Goto(c, "decide"), NEW level, risk' = [risk EXCEPT ![c] = level],
                 UNCHANGED <<rid, req, ts, hist>>
          PROVE  pc'[c] = "decide" /\ OnlyMoves(c)
      BY <1>1, <2>1, GotoMoves DEF OnlyMoves, LocalsOK
    <2> QED
      BY <1>1, <1>2, <1>7, <2>1, FinishMoves DEF Observe, Admitted
  <1>8. CASE Decide(c)
    BY <1>1, <1>2, <1>8, BlockMoves, ProceedMoves DEF Decide, Admitted
  <1>9. CASE Halt(c) \/ Input(c) \/ Reobserve(c)
    <2>1. UNCHANGED <<rate, counted, clock>> /\ pc[c] \in Admitted
      BY <1>9 DEF Halt, Input, Reobserve, Admitted
    <2>2. ASSUME NEW l, Proceed(c, l) PROVE RateInv'
      BY <1>1, <2>1, <2>2, ProceedMoves, RateInvKept DEF OnlyMoves, Keeps
    <2>3. ASSUME NEW code, Finish(c, code) PROVE RateInv'
      BY <1>1, <1>2, <2>1, <2>3, FinishMoves DEF Admitted
    <2> QED
      BY <1>9, <2>2, <2>3 DEF Halt, Input, Reobserve
  <1>11. CASE LogOk(c)
    BY <1>1, <1>2, <1>11, FinishMoves DEF LogOk, Admitted
  <1>12. CASE Release(c)
    BY <1>1, <1>2, <1>12, LeaveMoves DEF Release, Admitted
  <1>13. CASE Store(c)
    <2>1. pc'[c] = "write" /\ OnlyMoves(c)
      BY <1>1, <1>13, GotoMoves DEF Store, OnlyMoves, LocalsOK
    <2> QED
      BY <1>2, <1>13, <2>1 DEF Store, Admitted
  <1>14. CASE Write(c)
    BY <1>1, <1>2, <1>14, IdleMoves DEF Write, Admitted
  <1> QED
    BY <1>3, <1>4, <1>5, <1>6, <1>7, <1>8, <1>9, <1>11, <1>12, <1>13, <1>14,
       <1>15, RateInvCheck, RateInvSave
    DEF Step

LEMMA RateInvNext == TypeInv /\ SingleWriter /\ RateInv /\ [Next]_vars => RateInv'
  <1> SUFFICES ASSUME TypeInv, SingleWriter, RateInv, [Next]_vars PROVE RateInv'
    OBVIOUS
  <1>1. LocalsOK /\ clock \in Times /\ clock <= clock
    BY ConstantsAssumption DEF TypeInv, TypeOK, BoundsOK, Times
  <1>2. ASSUME NEW c \in Callers, NEW q \in Requests, Start(c, q) PROVE RateInv'
    <2>1. /\ UNCHANGED <<rate, counted, clock, risk, hist>>
          /\ \/ UNCHANGED <<pc, req, ts>>
             \/ /\ Goto(c, "gate") \/ Goto(c, "disk")
                /\ req' = [req EXCEPT ![c] = q]
                /\ ts' = ts \/ ts' = [ts EXCEPT ![c] = clock]
      BY <1>2 DEF Start
    <2>2. \A d \in Callers : pc'[d] \in Admitted =>
              pc[d] \in Admitted /\ req'[d] = req[d] /\ ts'[d] = ts[d]
      BY <1>1, <2>1, GotoMoves DEF Admitted, LocalsOK
    <2> QED
      BY <1>1, <2>1, <2>2, RateInvKept
  <1>3. ASSUME NEW p \in Procs, Die(p) PROVE RateInv'
    <2>1. \A d \in Callers : pc'[d] \in Admitted =>
              /\ pc[d] \in Admitted /\ req'[d] = req[d] /\ ts'[d] = ts[d]
              /\ risk'[d] = risk[d] /\ hist'[d] = hist[d]
      BY <1>3 DEF Die, Admitted
    <2> QED
      BY <1>1, <1>3, <2>1, RateInvKept DEF Die
  <1>4. CASE Tick
    <2>1. clock' \in Times /\ clock <= clock'
      BY <1>1, <1>4, ConstantsAssumption DEF Tick, Times
    <2> QED
      BY <1>4, <2>1, RateInvKept DEF Tick, locals
  <1>5. CASE UNCHANGED vars
    BY <1>1, <1>5, RateInvKept DEF vars, locals
  <1>6. ASSUME NEW source, EngageStop(source) \/ ClearStop(source) PROVE RateInv'
    BY <1>1, <1>6, RateInvKept DEF EngageStop, ClearStop, locals
  <1> QED
    BY <1>2, <1>3, <1>4, <1>5, <1>6, RateInvStep DEF Next

\* No rate record still in the window is ever lost from ratelimit.json, and no
\* window of a bucket ever holds more than its limit, whatever the number of
\* processes and threads and wherever they crash or fail.
THEOREM RateLimitsEnforced == Spec => [](RateLimitHolds /\ NoRateRecordLost)
  <1>1. Init => TypeInv /\ SingleWriter /\ RateInv
    BY TypeInit, RateInvInit, ConstantsAssumption DEF Init, SingleWriter, InCS, Locked
  <1>2. TypeInv /\ SingleWriter /\ RateInv /\ [Next]_vars
            => TypeInv' /\ SingleWriter' /\ RateInv'
    BY TypeNext, SingleWriterNext, RateInvNext
  <1>3. Spec => []RateInv
    BY <1>1, <1>2, PTL DEF Spec
  <1>4. RateInv => RateLimitHolds /\ NoRateRecordLost
    BY DEF RateInv
  <1> QED
    BY <1>3, <1>4, PTL

(***************************************************************************)
(* STOP.  While it is in force, whoever is past the kill switch was there   *)
(* when it was engaged.                                                    *)
(***************************************************************************)
StopInv == \A source \in stop, c \in Callers :
                pc[c] \in Past(source) => rid[c] \in grace[source]

Graced == \A source \in stop : inputs' \ inputs \subseteq grace[source]

LEMMA StopInvKept ==
    ASSUME StopInv, UNCHANGED <<stop, grace>>,
           \A d \in Callers, source \in stop :
                pc'[d] \in Past(source) => pc[d] \in Past(source) /\ rid'[d] = rid[d]
    PROVE  StopInv'
  BY DEF StopInv

\* Each step of a call keeps the invariant, and injects only what it allows.
LEMMA StopInvStep ==
    ASSUME TypeInv, StopInv, NEW c \in Callers, Step(c)
    PROVE  StopInv' /\ Graced
  <1>1. LocalsOK
    BY DEF TypeInv, TypeOK
  <1>2. ASSUME UNCHANGED <<stop, grace, inputs>>, OnlyMoves(c),
               \A source \in stop :
                    pc'[c] \in Past(source) => pc[c] \in Past(source) /\ rid'[c] = rid[c]
        PROVE  StopInv' /\ Graced
    BY <1>2, StopInvKept DEF OnlyMoves, Graced
  <1>3. CASE LookupDisk(c)
    BY <1>1, <1>2, <1>3, IdleMoves, ProceedMoves DEF LookupDisk, Past, PastGate
  <1>4. CASE Gate(c)
    <2>1. OnlyMoves(c) /\ UNCHANGED <<stop, grace, inputs>>
      BY <1>1, <1>4, RefuseMoves, ProceedMoves, CheckModeMoves DEF Gate
    <2>2. ASSUME NEW source \in stop PROVE pc'[c] \notin Past(source)
      <3>1. CASE source = "file"
        BY <1>1, <1>4, <3>1, RefuseMoves DEF Gate, Past, PastGate
      <3>2. CASE source = "companion"
        <4>1. HasCompanion /\ Past(source) = PastGate \cup {"halt", "reobserve"}
          BY <3>2 DEF TypeInv, TypeOK, BoundsOK, Sources, Past
        <4>2. pc'[c] = "ask" \/ pc'[c] \in {"idle", "store"}
          BY <1>1, <1>4, <4>1, RefuseMoves, ProceedMoves DEF Gate
        <4> QED
          BY <4>1, <4>2 DEF PastGate
      <3> QED
        BY <3>1, <3>2 DEF TypeInv, TypeOK, BoundsOK, Sources
    <2> QED
      BY <1>2, <2>1, <2>2
  <1>17. CASE AskCompanion(c)
    <2>1. OnlyMoves(c) /\ UNCHANGED <<stop, grace, inputs>> /\ pc[c] = "ask"
      BY <1>1, <1>17, RefuseMoves, CheckModeMoves DEF AskCompanion
    <2>2. CASE Refuse(c, "stopped")
      <3>1. \A source \in stop : pc'[c] \notin Past(source)
        BY <1>1, <2>2, RefuseMoves DEF Past, PastGate
      <3> QED
        BY <1>2, <2>1, <3>1
    <2>3. CASE "companion" \notin stop /\ CheckMode(c)
      <3>1. \A source \in stop : source = "file"
        BY <2>3 DEF TypeInv, TypeOK, BoundsOK, Sources
      <3>2. \A source \in stop : pc[c] \in Past(source)
        BY <2>1, <3>1 DEF Past
      <3>3. \A source \in stop : pc'[c] \in Past(source) => rid'[c] = rid[c]
        BY <1>1, <2>3, CheckModeMoves DEF Past, PastGate, Keeps
      <3> QED
        BY <1>2, <2>1, <3>2, <3>3
    <2> QED
      BY <1>17, <2>2, <2>3 DEF AskCompanion
  <1>5. CASE AcquireThreadLock(c)
    BY <1>1, <1>2, <1>5, RefuseMoves, ProceedMoves DEF AcquireThreadLock, Past, PastGate, Keeps
  <1>6. CASE AcquireFileLock(c)
    BY <1>1, <1>2, <1>6, RefuseMoves, ProceedMoves DEF AcquireFileLock, Past, PastGate, Keeps
  <1>7. CASE Observe(c)
    <2>1. ASSUME Goto(c, "decide"), NEW level, risk' = [risk EXCEPT ![c] = level],
                 UNCHANGED <<rid, req, ts, hist>>
          PROVE  pc'[c] = "decide" /\ OnlyMoves(c) /\ rid'[c] = rid[c]
      BY <1>1, <2>1, GotoMoves DEF OnlyMoves, LocalsOK
    <2> QED
      BY <1>1, <1>2, <1>7, <2>1, FinishMoves DEF Observe, Past, PastGate
  <1>8. CASE Decide(c)
    BY <1>1, <1>2, <1>8, BlockMoves, ProceedMoves DEF Decide, Past, PastGate, Keeps
  <1>9. CASE RateCheck(c)
    <2>1. ASSUME NEW l \in {"halt", "fn"}, Goto(c, l), ts' = [ts EXCEPT ![c] = clock],
                 hist' = [hist EXCEPT ![c] = Prune(rate, clock)], UNCHANGED <<rid, req, risk>>
          PROVE  pc'[c] = l /\ OnlyMoves(c) /\ rid'[c] = rid[c]
      BY <1>1, <2>1, GotoMoves DEF OnlyMoves, LocalsOK
    <2> QED
      BY <1>1, <1>2, <1>9, <2>1, BlockMoves, FinishMoves DEF RateCheck, Past, PastGate
  <1>18. CASE Halt(c)
    <2>1. OnlyMoves(c) /\ UNCHANGED <<stop, grace, inputs>> /\ pc[c] = "halt"
      BY <1>1, <1>18, FinishMoves, ProceedMoves DEF Halt
    <2>2. CASE Finish(c, "stopped")
      BY <1>1, <1>2, <2>1, <2>2, FinishMoves DEF Past, PastGate
    <2>3. CASE "file" \notin stop /\ Proceed(c, "fn")
      <3>1. \A source \in stop : pc[c] \in Past(source)
        BY <2>1, <2>3 DEF Past
      <3>2. rid'[c] = rid[c]
        BY <1>1, <2>3, ProceedMoves DEF Keeps
      <3> QED
        BY <1>2, <2>1, <3>1, <3>2
    <2> QED
      BY <1>18, <2>2, <2>3 DEF Halt
  <1>10. CASE Input(c)
    <2>1. pc[c] = "fn" /\ UNCHANGED <<stop, grace>>
      BY <1>10 DEF Input
    <2>2. \A source \in stop : pc[c] \in Past(source)
      BY <2>1 DEF Past, PastGate
    <2>3. OnlyMoves(c) /\ rid'[c] = rid[c]
      BY <1>1, <1>10, FinishMoves, ProceedMoves DEF Input, Keeps
    <2>4. StopInv'
      BY <2>1, <2>2, <2>3, StopInvKept DEF OnlyMoves
    <2>5. inputs' \ inputs \subseteq {rid[c]}
      BY <1>10 DEF Input
    <2> QED
      BY <2>1, <2>2, <2>4, <2>5 DEF StopInv, Graced
  <1>11. CASE Reobserve(c)
    <2>1. OnlyMoves(c) /\ UNCHANGED <<stop, grace, inputs>> /\ rid'[c] = rid[c]
      BY <1>1, <1>11, FinishMoves, ProceedMoves DEF Reobserve, Keeps
    <2>2. pc[c] = "reobserve" /\ pc'[c] \in {"halt", "save", "release"}
      BY <1>1, <1>11, FinishMoves, ProceedMoves DEF Reobserve
    <2>3. \A source \in stop : pc'[c] \in Past(source) => pc[c] \in Past(source)
      BY <2>2 DEF Past, PastGate
    <2> QED
      BY <1>2, <2>1, <2>3
  <1>12. CASE SaveRate(c)
    BY <1>1, <1>2, <1>12, FinishMoves, ProceedMoves DEF SaveRate, Past, PastGate
  <1>13. CASE LogOk(c)
    BY <1>1, <1>2, <1>13, FinishMoves DEF LogOk, Past, PastGate
  <1>14. CASE Release(c)
    BY <1>1, <1>2, <1>14, LeaveMoves DEF Release, Past, PastGate
  <1>15. CASE Store(c)
    <2>1. pc'[c] = "write" /\ OnlyMoves(c)
      BY <1>1, <1>15, GotoMoves DEF Store, OnlyMoves, LocalsOK
    <2> QED
      BY <1>2, <1>15, <2>1 DEF Store, Past, PastGate
  <1>16. CASE Write(c)
    BY <1>1, <1>2, <1>16, IdleMoves DEF Write, Past, PastGate
  <1> QED
    BY <1>3, <1>4, <1>5, <1>6, <1>7, <1>8, <1>9, <1>10, <1>11, <1>12, <1>13, <1>14,
       <1>15, <1>16, <1>17, <1>18
    DEF Step

LEMMA StopInvNext ==
    ASSUME TypeInv, StopInv, [Next]_vars
    PROVE  StopInv' /\ Graced
  <1>1. LocalsOK
    BY DEF TypeInv, TypeOK
  <1>2. ASSUME UNCHANGED <<stop, grace, inputs>>,
               \A d \in Callers, source \in stop : pc'[d] \in Past(source) =>
                    pc[d] \in Past(source) /\ rid'[d] = rid[d]
        PROVE  StopInv' /\ Graced
    BY <1>2, StopInvKept DEF Graced
  <1>3. ASSUME NEW c \in Callers, NEW q \in Requests, Start(c, q)
        PROVE  StopInv' /\ Graced
    <2>1. /\ UNCHANGED <<stop, grace, inputs>>
          /\ \/ UNCHANGED <<pc, rid>>
             \/ /\ Goto(c, "gate") \/ Goto(c, "disk")
                /\ rid' = [rid EXCEPT ![c] = nextRid]
      BY <1>3 DEF Start
    <2>2. \A d \in Callers, source \in stop :
              pc'[d] \in Past(source) => pc[d] \in Past(source) /\ rid'[d] = rid[d]
      BY <1>1, <2>1, GotoMoves DEF Past, PastGate, LocalsOK
    <2> QED
      BY <1>2, <2>1, <2>2
  <1>4. ASSUME NEW p \in Procs, Die(p)
        PROVE  StopInv' /\ Graced
    BY <1>2, <1>4 DEF Die, Past, PastGate
  <1>5. ASSUME NEW source \in Sources, EngageStop(source) PROVE StopInv' /\ Graced
    <2>1. /\ UNCHANGED <<pc, rid, inputs>> /\ stop' = stop \cup {source}
          /\ grace' = [grace EXCEPT ![source] =
                          {rid[c] : c \in {d \in Callers : pc[d] \in Past(source)}}]
      BY <1>5 DEF EngageStop, locals
    <2>2. grace \in [Sources -> SUBSET Rids] /\ stop \subseteq Sources
      BY DEF TypeInv, TypeOK, BoundsOK, PromisesOK
    <2>3. ASSUME NEW s \in stop', NEW c \in Callers, pc'[c] \in Past(s)
          PROVE  rid'[c] \in grace'[s]
      <3>1. CASE s = source
        BY <2>1, <2>2, <2>3, <3>1
      <3>2. CASE s # source
        BY <2>1, <2>2, <2>3, <3>2 DEF StopInv
      <3> QED
        BY <3>1, <3>2
    <2> QED
      BY <2>1, <2>3 DEF StopInv, Graced
  <1>6. ASSUME NEW source \in Sources, ClearStop(source) PROVE StopInv' /\ Graced
    <2>1. /\ UNCHANGED <<pc, rid, inputs>> /\ stop' = stop \ {source}
          /\ grace' = [grace EXCEPT ![source] = {}]
      BY <1>6 DEF ClearStop, locals
    <2>2. \A s \in stop' : s \in stop /\ grace'[s] = grace[s]
      BY <2>1 DEF TypeInv, TypeOK, BoundsOK, PromisesOK
    <2> QED
      BY <2>1, <2>2 DEF StopInv, Graced
  <1>7. CASE Tick \/ UNCHANGED vars
    BY <1>2, <1>7 DEF Tick, vars, locals
  <1> QED
    BY <1>3, <1>4, <1>5, <1>6, <1>7, StopInvStep DEF Next

\* Once STOP is engaged, no call that had not yet passed the kill switch injects
\* input, until STOP is cleared.
THEOREM StopAdmitsNothingNew == Spec => StopAdmitsNoNewCall
  <1>1. Init => TypeInv /\ StopInv
    BY TypeInit DEF Init, StopInv
  <1>2. TypeInv /\ StopInv /\ [Next]_vars
            => /\ TypeInv' /\ StopInv'
               /\ [Graced]_vars
    BY TypeNext, StopInvNext
  <1> QED
    BY <1>1, <1>2, PTL DEF Spec, StopAdmitsNoNewCall, Graced

-----------------------------------------------------------------------------
(* What an envelope says and what a replay repeats.                         *)

(***************************************************************************)
(* The shapes of a step, as far as envelopes, logs and caches are concerned. *)
(***************************************************************************)
Early == {"disk", "gate", "ask", "thread", "flock", "observe", "decide", "rate"}
Acting == {"halt", "fn", "reobserve", "save", "log"}
After == {"release", "store", "write"}

Frame(c) ==
    /\ OnlyMoves(c) /\ \A d \in Callers \ {c} : view'[d] = view[d]
    /\ UNCHANGED <<clock, nextRid, keyOf>>
SameCall(c) == rid'[c] = rid[c] /\ req'[c] = req[c] /\ view'[c] = view[c]
MaySettle(c) == pc'[c] # "idle" => SameCall(c)
SameStores == UNCHANGED <<mem, disk, promises>>

\* Before fn is called, towards it.
Walk(c) ==
    /\ pc[c] \in Early /\ pc'[c] \in (Early \ {"disk"}) \cup {"halt", "fn"}
    /\ Frame(c) /\ SameCall(c) /\ SameStores
    /\ UNCHANGED <<inputs, logs, outcome>> /\ counted \subseteq counted'
\* In fn, where an input may go in at any round of a search, and behind it.
Act(c) ==
    /\ pc[c] \in Acting /\ pc'[c] \in Acting
    /\ Frame(c) /\ SameCall(c) /\ SameStores
    /\ inputs' = inputs \/ (pc[c] = "fn" /\ inputs' = inputs \cup {rid[c]})
    /\ pc'[c] = "log" => \E h \in counted' : h.rid = rid[c] /\ h.bucket \in Verbs
    /\ UNCHANGED <<logs, outcome>> /\ counted \subseteq counted'
\* The call has its envelope, or its exception.
Gains(c, code) ==
    /\ \/ audited' = audited /\ code # "ok"
       \/ pc[c] = "log" /\ audited' = audited \cup {rid[c]}
    /\ \/ blocked' = blocked
       \/ pc[c] \in Early /\ code # "ok" /\ blocked' = blocked \cup {rid[c]}
Concludes(c, code) ==
    /\ outcome' = [outcome EXCEPT ![rid[c]] = code]
    /\ code \in Refusals => pc[c] \in Early
    /\ Gains(c, code)
End(c) ==
    /\ pc[c] \in Early \cup Acting
    /\ pc'[c] \in {"idle", "store", "release"}
    /\ Frame(c) /\ MaySettle(c) /\ view'[c] \in {view[c], NoEntries} /\ SameStores
    /\ \E code \in Codes : Concludes(c, code)
    /\ UNCHANGED inputs /\ counted \subseteq counted'
\* The finally clause, and what follows.
Depart(c) ==
    /\ pc[c] = "release" /\ pc'[c] \in {"idle", "store"}
    /\ Frame(c) /\ MaySettle(c) /\ view'[c] \in {view[c], NoEntries} /\ SameStores
    /\ UNCHANGED <<inputs, logs, outcome, counted>>

LEMMA ProceedShape ==
    ASSUME LocalsOK, NEW c \in Callers, NEW l, Proceed(c, l), UNCHANGED <<clock, nextRid, keyOf>>
    PROVE  pc'[c] = l /\ Frame(c) /\ SameCall(c) /\ UNCHANGED outcome
  BY ProceedMoves DEF Proceed, Frame, SameCall

LEMMA FinishShape ==
    ASSUME LocalsOK, NEW c \in Callers, NEW code, Finish(c, code),
           UNCHANGED <<clock, nextRid, keyOf>>
    PROVE  /\ pc'[c] = "release" /\ Frame(c) /\ MaySettle(c) /\ view'[c] = view[c]
           /\ outcome' = [outcome EXCEPT ![rid[c]] = code]
  BY FinishMoves DEF Finish, Frame, SameCall, MaySettle

LEMMA LeaveShape ==
    ASSUME LocalsOK, NEW c \in Callers, NEW code, Leave(c, code),
           UNCHANGED <<clock, nextRid, keyOf>>
    PROVE  /\ pc'[c] \in {"idle", "store"} /\ Frame(c) /\ MaySettle(c)
           /\ view'[c] \in {view[c], NoEntries}
  <1>1. CASE Idle(c)
    <2>1. pc'[c] = "idle" /\ OnlyMoves(c)
      BY <1>1, IdleMoves
    <2>2. view' = [view EXCEPT ![c] = NoEntries]
      BY <1>1 DEF Idle
    <2> QED
      BY <2>1, <2>2 DEF LocalsOK, Frame, MaySettle
  <1>2. CASE Goto(c, "store") /\ UNCHANGED <<rid, req, ts, risk, hist, view>>
    BY <1>2, GotoMoves DEF OnlyMoves, Frame, MaySettle, SameCall
  <1> QED
    BY <1>1, <1>2 DEF Leave

LEMMA RefuseEnds ==
    ASSUME LocalsOK, NEW c \in Callers, NEW code \in Codes \ {"ok"}, Refuse(c, code),
           pc[c] \in Early,
           UNCHANGED <<clock, nextRid, keyOf, mem, disk, promises, inputs, logs, counted>>
    PROVE  End(c)
  <1>1. /\ pc'[c] \in {"idle", "store"} /\ Frame(c) /\ MaySettle(c)
        /\ view'[c] \in {view[c], NoEntries}
    BY LeaveShape DEF Refuse
  <1>2. Concludes(c, code)
    BY DEF Refuse, Concludes, Gains, logs
  <1> QED
    BY <1>1, <1>2 DEF End, SameStores

LEMMA FinishEnds ==
    ASSUME LocalsOK, NEW c \in Callers, NEW code \in Codes, Finish(c, code),
           pc[c] \in Early \cup Acting, code \in Refusals => pc[c] \in Early, Gains(c, code),
           UNCHANGED <<clock, nextRid, keyOf, mem, disk, promises, inputs>>,
           counted \subseteq counted'
    PROVE  End(c)
  <1>1. /\ pc'[c] = "release" /\ Frame(c) /\ MaySettle(c) /\ view'[c] = view[c]
        /\ Concludes(c, code)
    BY FinishShape DEF Concludes
  <1> QED
    BY <1>1 DEF End, SameStores

LEMMA BlockEnds ==
    ASSUME LocalsOK, NEW c \in Callers, NEW code \in Codes \ {"ok"}, Block(c, code),
           pc[c] \in Early,
           UNCHANGED <<clock, nextRid, keyOf, mem, disk, promises, inputs, audited, counted>>
    PROVE  End(c)
  <1>1. CASE blocked' = blocked \cup {rid[c]} /\ Finish(c, code)
    BY <1>1, FinishEnds DEF Gains
  <1>2. CASE Finish(c, "raised") /\ UNCHANGED blocked
    BY <1>2, FinishEnds DEF Gains, Codes
  <1> QED
    BY <1>1, <1>2 DEF Block

LEMMA ProceedWalks ==
    ASSUME LocalsOK, NEW c \in Callers, NEW l \in (Early \ {"disk"}) \cup {"halt", "fn"},
           Proceed(c, l), pc[c] \in Early,
           UNCHANGED <<clock, nextRid, keyOf, mem, disk, promises, inputs, logs, counted>>
    PROVE  Walk(c)
  BY ProceedShape DEF Walk, SameStores

LEMMA CheckModeShape ==
    ASSUME LocalsOK, NEW c \in Callers, CheckMode(c), pc[c] \in Early,
           UNCHANGED <<clock, nextRid, keyOf, mem, disk, promises, inputs, logs, counted>>
    PROVE  Walk(c) \/ End(c)
  <1>1. CASE Refuse(c, "confirmation_required")
    BY <1>1, RefuseEnds DEF Codes, Refusals
  <1>2. CASE Proceed(c, "thread")
    BY <1>2, ProceedWalks DEF Early
  <1> QED
    BY <1>1, <1>2 DEF CheckMode

LEMMA GateShape ==
    ASSUME LocalsOK, NEW c \in Callers, Gate(c) \/ AskCompanion(c)
    PROVE  Walk(c) \/ End(c)
  <1>1. /\ pc[c] \in Early
        /\ UNCHANGED <<clock, nextRid, keyOf, mem, disk, promises, inputs, logs, counted>>
    BY DEF Gate, AskCompanion, Early
  <1>2. CASE Refuse(c, "stopped")
    BY <1>1, <1>2, RefuseEnds DEF Codes, Refusals
  <1>3. CASE Proceed(c, "ask")
    BY <1>1, <1>3, ProceedWalks DEF Early
  <1>4. CASE CheckMode(c)
    BY <1>1, <1>4, CheckModeShape
  <1> QED
    BY <1>2, <1>3, <1>4 DEF Gate, AskCompanion

LEMMA LockShape ==
    ASSUME LocalsOK, NEW c \in Callers, AcquireThreadLock(c) \/ AcquireFileLock(c)
    PROVE  Walk(c) \/ End(c)
  <1>1. /\ pc[c] \in Early
        /\ UNCHANGED <<clock, nextRid, keyOf, mem, disk, promises, inputs, logs, counted>>
    BY DEF AcquireThreadLock, AcquireFileLock, Early
  <1>2. CASE Refuse(c, "busy") \/ Refuse(c, "raised")
    BY <1>1, <1>2, RefuseEnds DEF Codes, Refusals
  <1>3. CASE Proceed(c, "flock") \/ Proceed(c, "observe")
    BY <1>1, <1>3, ProceedWalks DEF Early
  <1> QED
    BY <1>2, <1>3 DEF AcquireThreadLock, AcquireFileLock

LEMMA NoFailureRefuses == \A code \in Failures : code # "ok" /\ code \notin Refusals
  BY DEF Failures, Refusals

LEMMA ObserveShape ==
    ASSUME LocalsOK, NEW c \in Callers, Observe(c)
    PROVE  Walk(c) \/ End(c)
  <1>1. /\ pc[c] \in Early
        /\ UNCHANGED <<clock, nextRid, keyOf, mem, disk, promises, inputs, logs, counted>>
    BY DEF Observe, Early
  <1>2. ASSUME NEW code \in Failures, Finish(c, code) PROVE End(c)
    BY <1>1, <1>2, FailuresType, NoFailureRefuses, FinishEnds DEF Gains, logs
  <1>3. ASSUME NEW level, risk' = [risk EXCEPT ![c] = level], Goto(c, "decide"),
               UNCHANGED <<rid, req, ts, hist, view, outcome>>
        PROVE  Walk(c)
    <2>1. pc'[c] = "decide" /\ OnlyMoves(c)
      BY <1>3, GotoMoves DEF OnlyMoves, LocalsOK
    <2> QED
      BY <1>1, <1>3, <2>1 DEF Walk, Early, Frame, SameCall, SameStores
  <1> QED
    BY <1>2, <1>3 DEF Observe

LEMMA JudgeShape ==
    ASSUME LocalsOK, NEW c \in Callers, Decide(c) \/ RateCheck(c)
    PROVE  Walk(c) \/ End(c)
  <1>1. /\ pc[c] \in Early
        /\ UNCHANGED <<clock, nextRid, keyOf, mem, disk, promises, inputs, audited, counted>>
    BY DEF Decide, RateCheck, Early
  <1>2. ASSUME NEW code \in {"guarded_action", "confirmation_required", "rate_limited"},
               Block(c, code)
        PROVE  End(c)
    BY <1>1, <1>2, BlockEnds DEF Codes, Refusals
  <1>3. CASE Proceed(c, "rate") /\ UNCHANGED blocked
    BY <1>1, <1>3, ProceedWalks DEF Early, logs
  <1>4. CASE Finish(c, "dry_run") /\ UNCHANGED blocked
    BY <1>1, <1>4, FinishEnds DEF Codes, Refusals, Gains
  <1>5. ASSUME NEW l \in {"halt", "fn"}, Goto(c, l), ts' = [ts EXCEPT ![c] = clock],
               hist' = [hist EXCEPT ![c] = Prune(rate, clock)],
               UNCHANGED <<rid, req, risk, view, outcome, blocked>>
        PROVE  Walk(c)
    <2>1. pc'[c] = l /\ OnlyMoves(c)
      BY <1>5, GotoMoves DEF OnlyMoves, LocalsOK
    <2> QED
      BY <1>1, <1>5, <2>1 DEF Walk, Early, Frame, SameCall, SameStores, logs
  <1> QED
    BY <1>2, <1>3, <1>4, <1>5 DEF Decide, RateCheck

LEMMA ActShape ==
    ASSUME LocalsOK, NEW c \in Callers, Halt(c) \/ Input(c) \/ Reobserve(c)
    PROVE  Act(c) \/ End(c)
  <1>1. /\ pc[c] \in Acting
        /\ UNCHANGED <<clock, nextRid, keyOf, mem, disk, promises, logs, counted>>
    BY DEF Halt, Input, Reobserve, Acting
  <1>2. ASSUME NEW code \in Failures \cup {"stopped"}, Finish(c, code), UNCHANGED inputs
        PROVE  End(c)
    <2>1. code \in Codes /\ code # "ok" /\ code \notin Refusals
      BY FailuresType, NoFailureRefuses DEF Codes, Refusals
    <2> QED
      BY <1>1, <1>2, <2>1, FinishEnds DEF Gains, logs
  <1>3. ASSUME NEW l \in Acting \ {"log"}, Proceed(c, l),
               inputs' = inputs \/ (pc[c] = "fn" /\ inputs' = inputs \cup {rid[c]})
        PROVE  Act(c)
    BY <1>1, <1>3, ProceedShape DEF Act, SameStores
  <1> QED
    BY <1>2, <1>3 DEF Halt, Input, Reobserve, Acting

LEMMA RecordOfCall ==
    ASSUME LocalsOK, NEW c \in Callers
    PROVE  \E h \in NewRecords(c) : h.rid = rid[c] /\ h.bucket \in Verbs
  <1>1. [bucket |-> req[c].verb, ts |-> ts[c], rid |-> rid[c]] \in NewRecords(c)
    BY DEF NewRecords, BucketsFor
  <1>2. req[c].verb \in Verbs
    BY ConstantsAssumption DEF LocalsOK
  <1> QED
    BY <1>1, <1>2

LEMMA SaveShape ==
    ASSUME LocalsOK, NEW c \in Callers, SaveRate(c) \/ LogOk(c)
    PROVE  Act(c) \/ End(c)
  <1>1. /\ pc[c] \in Acting /\ counted \subseteq counted'
        /\ UNCHANGED <<clock, nextRid, keyOf, mem, disk, promises, inputs, blocked>>
    BY DEF SaveRate, LogOk, Acting, logs
  <1>2. CASE Finish(c, "raised") /\ UNCHANGED audited
    BY <1>1, <1>2, FinishEnds DEF Codes, Refusals, Gains
  <1>3. CASE pc[c] = "log" /\ audited' = audited \cup {rid[c]} /\ Finish(c, "ok")
    BY <1>1, <1>3, FinishEnds DEF Codes, Refusals, Gains
  <1>4. CASE counted' = counted \cup NewRecords(c) /\ Proceed(c, "log") /\ UNCHANGED audited
    <2>1. \E h \in counted' : h.rid = rid[c] /\ h.bucket \in Verbs
      BY <1>4, RecordOfCall
    <2> QED
      BY <1>1, <1>4, <2>1, ProceedShape DEF Act, Acting, SameStores, logs
  <1> QED
    BY <1>2, <1>3, <1>4 DEF SaveRate, LogOk, logs

LEMMA ReleaseShape ==
    ASSUME LocalsOK, NEW c \in Callers, Release(c)
    PROVE  Depart(c)
  BY LeaveShape DEF Release, Depart, SameStores

Hit(c) == LookupDisk(c) /\ Fresh(disk[req[c].key], ts[c])

LEMMA LookupShape ==
    ASSUME LocalsOK, NEW c \in Callers, LookupDisk(c)
    PROVE  Walk(c) \/ Hit(c)
  <1>1. CASE Proceed(c, "gate") /\ UNCHANGED mem
    BY <1>1, ProceedWalks DEF LookupDisk, Early
  <1> QED
    BY <1>1 DEF LookupDisk, Hit

LEMMA StepShape ==
    ASSUME LocalsOK, NEW c \in Callers, Step(c)
    PROVE  \/ Walk(c) \/ Act(c) \/ End(c) \/ Depart(c)
           \/ Hit(c) \/ Store(c) \/ Write(c)
  BY LookupShape, GateShape, LockShape, ObserveShape, JudgeShape, ActShape, SaveShape,
     ReleaseShape
  DEF Step

(***************************************************************************)
(* Envelopes.  A running call is named by one request id of its own, which  *)
(* has no envelope before the body is over; before fn is called nothing of  *)
(* it is in, and only there it may be refused or blocked.  That, and not    *)
(* the outcome's code, is what an envelope can be held against.             *)
(***************************************************************************)
TruthOf(r) ==
    /\ outcome[r] \in Refusals => r \notin inputs
    /\ r \in blocked => r \notin inputs /\ outcome[r] # "ok"
    /\ r \in audited => \E h \in counted : h.rid = r /\ h.bucket \in Verbs
Unused ==
    \A r \in Rids : r >= nextRid =>
        outcome[r] = "none" /\ r \notin inputs \cup audited \cup blocked
OwnIds ==
    /\ \A c \in Callers : pc[c] # "idle" => rid[c] < nextRid
    /\ \A c, d \in Callers : c # d /\ pc[c] # "idle" /\ pc[d] # "idle" => rid[c] # rid[d]
Placed(c) ==
    /\ pc[c] \in Early => outcome[rid[c]] = "none" /\ rid[c] \notin inputs \cup blocked
    /\ pc[c] \in Acting => outcome[rid[c]] = "none" /\ rid[c] \notin blocked
    /\ pc[c] = "log" => \E h \in counted : h.rid = rid[c] /\ h.bucket \in Verbs
EnvInv ==
    /\ \A r \in Rids : TruthOf(r)
    /\ Unused /\ OwnIds
    /\ \A c \in Callers : Placed(c)

LEMMA NoneIsNoCode == "none" \notin Codes
  BY DEF Codes, Refusals

LEMMA EnvInit == Init => EnvInv
  <1> SUFFICES ASSUME Init PROVE EnvInv
    OBVIOUS
  <1>1. \A r \in Rids : TruthOf(r)
    BY DEF Init, TruthOf, Refusals
  <1>2. Unused /\ OwnIds
    BY DEF Init, Unused, OwnIds
  <1>3. \A c \in Callers : Placed(c)
    BY DEF Init, Placed, Early, Acting
  <1> QED
    BY <1>1, <1>2, <1>3 DEF EnvInv

\* A step of c that tells about no other call than its own, r.
OnlyAbout(r) ==
    /\ \A q \in Rids \ {r} : /\ outcome'[q] = outcome[q]
                             /\ q \in inputs' <=> q \in inputs
                             /\ q \in audited' <=> q \in audited
                             /\ q \in blocked' <=> q \in blocked
    /\ counted \subseteq counted'

LEMMA EnvKept ==
    ASSUME TypeInv, EnvInv, NEW c \in Callers, pc[c] # "idle", NEW r \in Rids, r = rid[c],
           OnlyMoves(c), UNCHANGED nextRid, pc'[c] # "idle" => rid'[c] = r,
           OnlyAbout(r), TruthOf(r)', Placed(c)'
    PROVE  EnvInv'
  <1>1. \A q \in Rids : TruthOf(q)'
    <2>1. ASSUME NEW q \in Rids, q # r PROVE TruthOf(q)'
      BY <2>1 DEF EnvInv, TruthOf, OnlyAbout
    <2> QED
      BY <2>1
  <1>2. r < nextRid /\ nextRid' = nextRid
    BY DEF EnvInv, OwnIds
  <1>3. Unused'
    BY <1>2 DEF TypeInv, TypeOK, BoundsOK, EnvInv, Unused, OnlyAbout, Rids
  <1>4. OwnIds'
    BY <1>2 DEF EnvInv, OwnIds, OnlyMoves
  <1>5. ASSUME NEW d \in Callers, d # c PROVE Placed(d)'
    <2>1. pc'[d] = pc[d] /\ rid'[d] = rid[d] /\ Placed(d)
      BY <1>5 DEF EnvInv, OnlyMoves
    <2>2. CASE pc[d] = "idle"
      BY <2>1, <2>2 DEF Placed, Early, Acting
    <2>3. CASE pc[d] # "idle"
      <3>1. rid[d] \in Rids /\ rid[d] # r
        BY <1>5, <2>3 DEF TypeInv, CallInv, EnvInv, OwnIds
      <3> QED
        BY <2>1, <3>1 DEF Placed, OnlyAbout
    <2> QED
      BY <2>2, <2>3
  <1> QED
    BY <1>1, <1>3, <1>4, <1>5 DEF EnvInv

LEMMA ActiveRid ==
    ASSUME TypeInv, EnvInv, NEW c \in Callers, pc[c] # "idle"
    PROVE  rid[c] \in Rids /\ TruthOf(rid[c]) /\ Placed(c) /\ outcome \in [Rids -> Codes \cup {"none"}]
  BY DEF TypeInv, TypeOK, CallsOK, CallInv, EnvInv

LEMMA EnvAct ==
    ASSUME TypeInv, EnvInv, NEW c \in Callers, Walk(c) \/ Act(c)
    PROVE  EnvInv'
  <1>1. pc[c] # "idle" /\ pc'[c] # "idle"
    BY DEF Walk, Act, Early, Acting
  <1>2. PICK r \in Rids : r = rid[c]
    BY <1>1, ActiveRid
  <1>3. TruthOf(r) /\ Placed(c)
    BY <1>1, <1>2, ActiveRid
  <1>4. /\ OnlyMoves(c) /\ UNCHANGED nextRid /\ rid'[c] = r
        /\ counted \subseteq counted' /\ UNCHANGED <<logs, outcome>>
    BY <1>2 DEF Walk, Act, Frame, SameCall
  <1>5. OnlyAbout(r)
    BY <1>2, <1>4 DEF Walk, Act, OnlyAbout, logs
  <1>6. TruthOf(r)' /\ Placed(c)'
    <2>1. CASE Walk(c)
      BY <1>2, <1>3, <1>4, <2>1 DEF Walk, TruthOf, Placed, Early, Acting, logs
    <2>2. CASE Act(c)
      <3>1. outcome'[r] = "none" /\ r \notin blocked' /\ pc'[c] \in Acting
        BY <1>2, <1>3, <1>4, <2>2 DEF Act, Placed, logs
      <3>2. r \in audited' => \E h \in counted' : h.rid = r /\ h.bucket \in Verbs
        BY <1>3, <1>4 DEF TruthOf, logs
      <3>3. pc'[c] = "log" => \E h \in counted' : h.rid = r /\ h.bucket \in Verbs
        BY <1>2, <2>2 DEF Act
      <3> QED
        BY <1>4, <3>1, <3>2, <3>3, NoneIsNoCode DEF TruthOf, Placed, Early, Acting, Codes
    <2> QED
      BY <2>1, <2>2
  <1> QED
    BY <1>1, <1>2, <1>4, <1>5, <1>6, EnvKept

LEMMA EnvEnd ==
    ASSUME TypeInv, EnvInv, NEW c \in Callers, End(c)
    PROVE  EnvInv'
  <1>1. pc[c] # "idle"
    BY DEF End, Early, Acting
  <1>2. PICK r \in Rids : r = rid[c]
    BY <1>1, ActiveRid
  <1>3. TruthOf(r) /\ Placed(c) /\ outcome \in [Rids -> Codes \cup {"none"}]
    BY <1>1, <1>2, ActiveRid
  <1>4. PICK code \in Codes : Concludes(c, code)
    BY DEF End
  <1>5. OnlyAbout(r)
    BY <1>2, <1>3, <1>4 DEF End, Concludes, Gains, OnlyAbout
  <1>6. TruthOf(r)'
    <2>1. outcome'[r] = code
      BY <1>2, <1>3, <1>4 DEF Concludes
    <2>2. outcome'[r] \in Refusals => r \notin inputs'
      BY <1>2, <1>3, <1>4, <2>1 DEF Concludes, Placed, End
    <2>3. r \in audited' => \E h \in counted' : h.rid = r /\ h.bucket \in Verbs
      BY <1>2, <1>3, <1>4 DEF Concludes, Gains, Placed, End, TruthOf
    <2>4. r \in blocked' => r \notin inputs' /\ outcome'[r] # "ok"
      <3>1. r \notin blocked
        BY <1>2, <1>3 DEF Placed, End
      <3> QED
        BY <1>2, <1>3, <1>4, <2>1, <3>1 DEF Concludes, Gains, Placed, End
    <2> QED
      BY <2>2, <2>3, <2>4 DEF TruthOf
  <1>7. Placed(c)'
    BY DEF End, Placed, Early, Acting
  <1>8. OnlyMoves(c) /\ UNCHANGED nextRid /\ (pc'[c] # "idle" => rid'[c] = r)
    BY <1>2 DEF End, Frame, MaySettle, SameCall
  <1> QED
    BY <1>1, <1>2, <1>5, <1>6, <1>7, <1>8, EnvKept

LEMMA EnvHit ==
    ASSUME TypeInv, EnvInv, NEW c \in Callers, Hit(c)
    PROVE  EnvInv'
  <1>1. pc[c] = "disk" /\ pc[c] \in Early /\ pc[c] # "idle"
    BY DEF Hit, LookupDisk, Early
  <1>2. PICK r \in Rids : r = rid[c]
    BY <1>1, ActiveRid
  <1>3. TruthOf(r) /\ Placed(c) /\ outcome \in [Rids -> Codes \cup {"none"}]
    BY <1>1, <1>2, ActiveRid
  <1>4. r \notin inputs /\ r \notin blocked
    BY <1>1, <1>2, <1>3 DEF Placed
  <1>5. /\ Idle(c) /\ UNCHANGED <<nextRid, inputs, logs, counted>>
        /\ outcome' = [outcome EXCEPT ![r] = disk[req[c].key].code]
    BY <1>2 DEF Hit, LookupDisk, Replay
  <1>6. pc'[c] = "idle" /\ OnlyMoves(c)
    BY <1>5, IdleMoves DEF TypeInv, TypeOK
  <1>7. OnlyAbout(r) /\ TruthOf(r)' /\ Placed(c)'
    BY <1>3, <1>4, <1>5, <1>6 DEF OnlyAbout, TruthOf, Placed, Early, Acting, logs
  <1> QED
    BY <1>1, <1>2, <1>5, <1>6, <1>7, EnvKept

LEMMA EnvAfter ==
    ASSUME TypeInv, EnvInv, NEW c \in Callers, Depart(c) \/ Store(c) \/ Write(c)
    PROVE  EnvInv'
  <1>1. pc[c] # "idle" /\ UNCHANGED <<nextRid, inputs, logs, outcome, counted>>
    BY DEF Depart, Store, Write, Frame
  <1>2. PICK r \in Rids : r = rid[c]
    BY <1>1, ActiveRid
  <1>3. TruthOf(r)
    BY <1>1, <1>2, ActiveRid
  <1>4. OnlyMoves(c) /\ pc'[c] \in {"idle", "store", "write"} /\ (pc'[c] # "idle" => rid'[c] = r)
    <2>1. CASE Depart(c)
      BY <1>2, <2>1 DEF Depart, Frame, MaySettle, SameCall
    <2>2. CASE Store(c)
      BY <1>2, <2>2, GotoMoves DEF Store, TypeInv, TypeOK, LocalsOK, OnlyMoves
    <2>3. CASE Write(c)
      BY <2>3, IdleMoves DEF Write, TypeInv, TypeOK
    <2> QED
      BY <2>1, <2>2, <2>3
  <1>5. OnlyAbout(r) /\ TruthOf(r)' /\ Placed(c)'
    BY <1>1, <1>3, <1>4 DEF OnlyAbout, TruthOf, Placed, Early, Acting, logs
  <1> QED
    BY <1>1, <1>2, <1>4, <1>5, EnvKept

\* What a call's start does, once or for good.
LEMMA StartShape ==
    ASSUME TypeInv, NEW c \in Callers, NEW q \in Requests, Start(c, q)
    PROVE  /\ nextRid \in Rids /\ nextRid' = nextRid + 1 /\ pc[c] = "idle"
           /\ OnlyMoves(c) /\ view' = view
           /\ UNCHANGED <<clock, disk, inputs, logs, counted>>
           /\ \/ /\ pc'[c] \in {"gate", "disk"} /\ rid'[c] = nextRid /\ req'[c] = q
                 /\ outcome' = outcome
              \/ /\ q.key # NoKey /\ Fresh(mem[ProcOf[c]][q.key], clock)
                 /\ pc'[c] = "idle" /\ mem' = mem
                 /\ outcome' = [outcome EXCEPT ![nextRid] = mem[ProcOf[c]][q.key].code]
  <1>1. nextRid \in Rids
    BY ConstantsAssumption DEF TypeInv, TypeOK, BoundsOK, Start, Rids
  <1>2. CASE q.key # NoKey /\ Fresh(mem[ProcOf[c]][q.key], clock)
    BY <1>1, <1>2 DEF Start, Replay, OnlyMoves
  <1>3. CASE ~(q.key # NoKey /\ Fresh(mem[ProcOf[c]][q.key], clock))
    <2>1. PICK l \in {"gate", "disk"} : Goto(c, l)
      BY <1>3 DEF Start
    <2>2. /\ rid' = [rid EXCEPT ![c] = nextRid] /\ req' = [req EXCEPT ![c] = q]
          /\ outcome' = outcome /\ UNCHANGED <<risk, hist>>
          /\ ts' = ts \/ ts' = [ts EXCEPT ![c] = clock]
      BY <1>3 DEF Start
    <2>3. pc'[c] = l /\ OnlyMoves(c) /\ rid'[c] = nextRid /\ req'[c] = q
      BY <2>1, <2>2, GotoMoves DEF TypeInv, TypeOK, LocalsOK, OnlyMoves
    <2> QED
      BY <1>1, <2>2, <2>3 DEF Start
  <1> QED
    BY <1>2, <1>3

LEMMA EnvStart ==
    ASSUME TypeInv, EnvInv, NEW c \in Callers, NEW q \in Requests, Start(c, q)
    PROVE  EnvInv'
  <1>1. PICK r \in Rids : r = nextRid
    BY StartShape
  <1>2. /\ nextRid' = r + 1 /\ pc[c] = "idle" /\ OnlyMoves(c)
        /\ UNCHANGED <<inputs, logs, counted>>
        /\ \/ pc'[c] \in {"gate", "disk"} /\ rid'[c] = r /\ outcome' = outcome
           \/ pc'[c] = "idle" /\ outcome' = [outcome EXCEPT ![r] = mem[ProcOf[c]][q.key].code]
    BY <1>1, StartShape
  <1>3. /\ outcome[r] = "none" /\ r \notin inputs \cup audited \cup blocked
        /\ outcome \in [Rids -> Codes \cup {"none"}]
    BY <1>1 DEF EnvInv, Unused, TypeInv, TypeOK, BoundsOK, CallsOK, Rids
  <1>4. \A s \in Rids \ {r} : outcome'[s] = outcome[s]
    BY <1>2, <1>3
  <1>5. \A s \in Rids : TruthOf(s)'
    <2>1. ASSUME NEW s \in Rids, s # r PROVE TruthOf(s)'
      BY <1>2, <1>4, <2>1 DEF EnvInv, TruthOf, logs
    <2>2. TruthOf(r)'
      BY <1>2, <1>3 DEF TruthOf, logs
    <2> QED
      BY <2>1, <2>2
  <1>6. Unused'
    BY <1>1, <1>2, <1>4 DEF EnvInv, Unused, TypeInv, TypeOK, BoundsOK, Rids, logs
  <1>7. OwnIds'
    <2>1. \A d \in Callers \ {c} : pc'[d] = pc[d] /\ rid'[d] = rid[d]
      BY <1>2 DEF OnlyMoves
    <2>2. \A d \in Callers : pc[d] # "idle" => rid[d] \in Rids /\ rid[d] < r
      BY <1>1 DEF EnvInv, OwnIds, TypeInv, CallInv
    <2>3. pc'[c] # "idle" => rid'[c] = r
      BY <1>2
    <2>4. \A d \in Callers : pc'[d] # "idle" => rid'[d] < r + 1
      BY <2>1, <2>2, <2>3 DEF Rids
    <2>5. \A d \in Callers \ {c} : pc'[d] # "idle" => rid'[d] # r
      BY <2>1, <2>2 DEF Rids
    <2>6. \A d, f \in Callers : d # f /\ pc'[d] # "idle" /\ pc'[f] # "idle" => rid'[d] # rid'[f]
      BY <2>1, <2>3, <2>5 DEF EnvInv, OwnIds
    <2> QED
      BY <1>2, <2>4, <2>6 DEF OwnIds
  <1>8. ASSUME NEW d \in Callers PROVE Placed(d)'
    <2>1. CASE d = c
      BY <1>2, <1>3, <2>1 DEF Placed, Early, Acting, logs
    <2>2. CASE d # c /\ pc[d] = "idle"
      BY <1>2, <2>2 DEF Placed, OnlyMoves, Early, Acting
    <2>3. CASE d # c /\ pc[d] # "idle"
      <3>1. rid[d] \in Rids \ {r}
        BY <1>1, <2>3 DEF EnvInv, OwnIds, TypeInv, CallInv, Rids
      <3> QED
        BY <1>2, <1>4, <2>3, <3>1 DEF EnvInv, Placed, OnlyMoves, logs
    <2> QED
      BY <2>1, <2>2, <2>3
  <1> QED
    BY <1>5, <1>6, <1>7, <1>8 DEF EnvInv

LEMMA EnvDie ==
    ASSUME TypeInv, EnvInv, NEW p \in Procs, Die(p)
    PROVE  EnvInv'
  <1>1. UNCHANGED <<nextRid, inputs, logs, outcome, counted>>
    BY DEF Die
  <1>2. \A c \in Callers : \/ pc'[c] = "idle"
                           \/ pc'[c] = pc[c] /\ rid'[c] = rid[c]
    BY DEF Die
  <1>3. \A r \in Rids : TruthOf(r)'
    BY <1>1 DEF EnvInv, TruthOf, logs
  <1>4. Unused' /\ OwnIds'
    BY <1>1, <1>2 DEF EnvInv, Unused, OwnIds, logs
  <1>5. \A c \in Callers : Placed(c)'
    BY <1>1, <1>2 DEF EnvInv, Placed, Early, Acting, logs
  <1> QED
    BY <1>3, <1>4, <1>5 DEF EnvInv

LEMMA EnvFrame ==
    ASSUME EnvInv, UNCHANGED <<pc, rid, nextRid, inputs, logs, outcome, counted>>
    PROVE  EnvInv'
  <1>1. \A r \in Rids : TruthOf(r)'
    BY DEF EnvInv, TruthOf, logs
  <1>2. Unused' /\ OwnIds'
    BY DEF EnvInv, Unused, OwnIds, logs
  <1>3. \A c \in Callers : Placed(c)'
    BY DEF EnvInv, Placed, logs
  <1> QED
    BY <1>1, <1>2, <1>3 DEF EnvInv

LEMMA EnvNext == TypeInv /\ EnvInv /\ [Next]_vars => EnvInv'
  <1> SUFFICES ASSUME TypeInv, EnvInv, [Next]_vars PROVE EnvInv'
    OBVIOUS
  <1>1. ASSUME NEW c \in Callers, Step(c) PROVE EnvInv'
    BY <1>1, StepShape, EnvAct, EnvEnd, EnvHit, EnvAfter DEF TypeInv, TypeOK
  <1>2. ASSUME NEW source \in Sources, EngageStop(source) \/ ClearStop(source) PROVE EnvInv'
    BY <1>2, EnvFrame DEF EngageStop, ClearStop, locals
  <1>3. CASE Tick \/ UNCHANGED vars
    BY <1>3, EnvFrame DEF Tick, vars, locals
  <1> QED
    BY <1>1, <1>2, <1>3, EnvStart, EnvDie DEF Next

(***************************************************************************)
(* Caches.  An envelope once given stays, and so does the key of its call;  *)
(* an entry names a call that has its envelope.  A call in "write" carries  *)
(* a copy of the file, which is as good as the file it replaces.            *)
(***************************************************************************)
Genuine(cache) == \A k \in Keys :
    cache[k] # NoEntry => keyOf[cache[k].rid] = k /\ outcome[cache[k].rid] = cache[k].code
\* The same of the values after the step.
GenuineNext(cache) == \A k \in Keys :
    cache[k] # NoEntry => keyOf'[cache[k].rid] = k /\ outcome'[cache[k].rid] = cache[k].code
Keyed == \A c \in Callers : pc[c] # "idle" => keyOf[rid[c]] = req[c].key
CachesInv ==
    /\ Keyed
    /\ Genuine(disk)
    /\ \A p \in Procs : Genuine(mem[p])
    /\ \A c \in Callers : Genuine(view[c])

NamesKept == \A r \in Rids :
    outcome[r] \in Codes => outcome'[r] = outcome[r] /\ keyOf'[r] = keyOf[r]

LEMMA NoEntriesGenuine == Genuine(NoEntries) /\ GenuineNext(NoEntries)
  BY DEF Genuine, GenuineNext, NoEntries

LEMMA GenuineKept ==
    ASSUME NamesKept, NEW s \in Caches, Genuine(s), NEW t,
           \A k \in Keys : t[k] \in {s[k], NoEntry}
    PROVE  GenuineNext(t)
  <1> SUFFICES ASSUME NEW k \in Keys, t[k] # NoEntry
               PROVE  keyOf'[t[k].rid] = k /\ outcome'[t[k].rid] = t[k].code
    BY DEF GenuineNext
  <1>1. t[k] = s[k] /\ s[k] \in Entries
    BY DEF Caches
  <1>2. s[k].rid \in Rids /\ s[k].code \in Codes
    BY <1>1 DEF Entries
  <1>3. keyOf[s[k].rid] = k /\ outcome[s[k].rid] = s[k].code
    BY <1>1 DEF Genuine
  <1> QED
    BY <1>1, <1>2, <1>3 DEF NamesKept

LEMMA SweepKeeps ==
    ASSUME NEW s, NEW k \in Keys PROVE Sweep(s, clock)[k] \in {s[k], NoEntry}
  BY DEF Sweep

LEMMA StoredTypes ==
    ASSUME TypeInv
    PROVE  /\ disk \in Caches /\ \A p \in Procs : mem[p] \in Caches
           /\ \A c \in Callers : view[c] \in Caches
  BY DEF TypeInv, TypeOK, StoresOK, LocalsOK

LEMMA CachesInit == Init => CachesInv
  <1> SUFFICES ASSUME Init PROVE CachesInv
    OBVIOUS
  <1>1. Keyed
    BY DEF Init, Keyed
  <1>2. /\ disk = NoEntries /\ \A p \in Procs : mem[p] = NoEntries
        /\ \A c \in Callers : view[c] = NoEntries
    BY DEF Init
  <1> QED
    BY <1>1, <1>2, NoEntriesGenuine DEF CachesInv

\* Every cache after the step is one from before it, or empty.
LEMMA CachesKept ==
    ASSUME TypeInv, CachesInv, NamesKept, Keyed',
           disk' = disk \/ \E c \in Callers : disk' = view[c],
           \A p \in Procs : mem'[p] = mem[p] \/ \A k \in Keys : mem'[p][k] \in {mem[p][k], NoEntry},
           \A c \in Callers : view'[c] \in {view[c], NoEntries}
    PROVE  CachesInv'
  <1>1. GenuineNext(disk')
    BY StoredTypes, GenuineKept DEF CachesInv
  <1>2. \A p \in Procs : GenuineNext(mem'[p])
    BY StoredTypes, GenuineKept DEF CachesInv
  <1>3. \A c \in Callers : GenuineNext(view'[c])
    BY StoredTypes, GenuineKept, NoEntriesGenuine DEF CachesInv
  <1> QED
    BY <1>1, <1>2, <1>3 DEF CachesInv, Genuine, GenuineNext

\* The caller of a step goes on with its call, or is done with it.
LEMMA KeyedKept ==
    ASSUME CachesInv, NEW c \in Callers, OnlyMoves(c), UNCHANGED keyOf, pc[c] # "idle",
           pc'[c] # "idle" => rid'[c] = rid[c] /\ req'[c] = req[c]
    PROVE  Keyed'
  BY DEF CachesInv, Keyed, OnlyMoves

LEMMA CachesMove ==
    ASSUME TypeInv, EnvInv, CachesInv, NEW c \in Callers,
           Walk(c) \/ Act(c) \/ End(c) \/ Depart(c)
    PROVE  CachesInv'
  <1>1. /\ pc[c] # "idle" /\ Frame(c) /\ MaySettle(c) /\ SameStores
        /\ view'[c] \in {view[c], NoEntries}
    BY DEF Walk, Act, End, Depart, Early, Acting, MaySettle, SameCall
  <1>2. NamesKept
    <2>1. CASE outcome' = outcome
      BY <1>1, <2>1 DEF NamesKept, Frame
    <2>2. CASE End(c)
      <3>1. pc[c] \in Early \cup Acting /\ outcome[rid[c]] = "none"
        BY <1>1, <2>2, ActiveRid DEF End, Placed
      <3>2. PICK code \in Codes : outcome' = [outcome EXCEPT ![rid[c]] = code]
        BY <2>2 DEF End, Concludes
      <3> QED
        BY <1>1, <3>1, <3>2, NoneIsNoCode DEF NamesKept, Frame, TypeInv, TypeOK, CallsOK
    <2> QED
      BY <2>1, <2>2 DEF Walk, Act, Depart
  <1>3. Keyed'
    BY <1>1, KeyedKept DEF Frame, MaySettle, SameCall
  <1>4. \A d \in Callers : view'[d] \in {view[d], NoEntries}
    BY <1>1 DEF Frame
  <1> QED
    BY <1>1, <1>2, <1>3, <1>4, CachesKept DEF SameStores

\* A fresh envelope of the file comes to memory, and is the call's own.
LEMMA CachesHit ==
    ASSUME TypeInv, EnvInv, CachesInv, NEW c \in Callers, Hit(c)
    PROVE  CachesInv'
  <1> DEFINE k == req[c].key
             p == ProcOf[c]
  <1>1. /\ pc[c] = "disk" /\ pc[c] # "idle" /\ pc[c] \in Early
        /\ Idle(c) /\ UNCHANGED <<disk, keyOf>>
        /\ mem' = [mem EXCEPT ![p][k] = disk[k]]
        /\ outcome' = [outcome EXCEPT ![rid[c]] = disk[k].code]
    BY DEF Hit, LookupDisk, Replay, Early
  <1>2. k \in Keys /\ p \in Procs /\ rid[c] \in Rids /\ outcome[rid[c]] = "none"
    BY <1>1, ProcType, ActiveRid, ConstantsAssumption
    DEF TypeInv, TypeOK, LocalsOK, CallInv, Placed
  <1>3. NamesKept
    BY <1>1, <1>2, NoneIsNoCode DEF NamesKept, TypeInv, TypeOK, CallsOK
  <1>4. pc'[c] = "idle" /\ OnlyMoves(c) /\ \A d \in Callers : view'[d] \in {view[d], NoEntries}
    BY <1>1, IdleMoves DEF TypeInv, TypeOK, LocalsOK, Idle
  <1>5. Keyed'
    BY <1>1, <1>4, KeyedKept
  <1>6. GenuineNext(disk') /\ GenuineNext(disk)
    BY <1>1, <1>3, StoredTypes, GenuineKept DEF CachesInv
  <1>7. \A q \in Procs : GenuineNext(mem'[q])
    <2>1. \A q \in Procs : GenuineNext(mem[q])
      BY <1>3, StoredTypes, GenuineKept DEF CachesInv
    <2>2. \A q \in Procs, h \in Keys :
              mem'[q][h] = IF q = p /\ h = k THEN disk[h] ELSE mem[q][h]
      BY <1>1, <1>2, StoredTypes DEF Caches, TypeInv, TypeOK, StoresOK
    <2> QED
      BY <1>6, <2>1, <2>2 DEF GenuineNext
  <1>8. \A d \in Callers : GenuineNext(view'[d])
    BY <1>3, <1>4, StoredTypes, GenuineKept, NoEntriesGenuine DEF CachesInv
  <1> QED
    BY <1>5, <1>6, <1>7, <1>8 DEF CachesInv, Genuine, GenuineNext

\* The new entry names the call that stores it, its key and its envelope.
LEMMA CachesStore ==
    ASSUME TypeInv, CachesInv, NEW c \in Callers, Store(c)
    PROVE  CachesInv'
  <1> DEFINE k == req[c].key
             p == ProcOf[c]
             e == [ts |-> clock, rid |-> rid[c], code |-> outcome[rid[c]]]
             filed(s) == [Sweep(s, clock) EXCEPT ![k] = e]
  <1>1. /\ pc[c] # "idle" /\ Goto(c, "write")
        /\ UNCHANGED <<rid, req, risk, hist, disk, outcome, keyOf>>
        /\ ts' = [ts EXCEPT ![c] = clock]
        /\ view' = [view EXCEPT ![c] = filed(disk)] /\ mem' = [mem EXCEPT ![p] = filed(mem[p])]
    BY DEF Store
  <1>2. NamesKept /\ keyOf'[e.rid] = k /\ outcome'[e.rid] = e.code
    BY <1>1 DEF NamesKept, CachesInv, Keyed
  <1>3. ASSUME NEW s \in Caches, Genuine(s) PROVE GenuineNext(filed(s))
    <2>1. GenuineNext(Sweep(s, clock))
      BY <1>2, <1>3, SweepKeeps, GenuineKept
    <2>2. \A h \in Keys : filed(s)[h] = IF h = k THEN e ELSE Sweep(s, clock)[h]
      BY DEF Sweep
    <2> QED
      BY <1>2, <2>1, <2>2 DEF GenuineNext
  <1>4. GenuineNext(filed(disk)) /\ \A q \in Procs : GenuineNext(filed(mem[q]))
    BY <1>3, StoredTypes DEF CachesInv
  <1>5. GenuineNext(disk) /\ (\A q \in Procs : GenuineNext(mem[q]))
        /\ \A d \in Callers : GenuineNext(view[d])
    BY <1>2, StoredTypes, GenuineKept DEF CachesInv
  <1> HIDE DEF filed
  <1>6. \A q \in Procs : mem'[q] = IF q = p THEN filed(mem[p]) ELSE mem[q]
    BY <1>1 DEF TypeInv, TypeOK, StoresOK
  <1>7. \A d \in Callers : view'[d] = IF d = c THEN filed(disk) ELSE view[d]
    BY <1>1 DEF TypeInv, TypeOK, LocalsOK
  <1>8. OnlyMoves(c)
    BY <1>1, GotoMoves DEF OnlyMoves, TypeInv, TypeOK, LocalsOK
  <1>9. Keyed'
    BY <1>1, <1>8, KeyedKept
  <1>10. \A q \in Procs : GenuineNext(mem'[q])
    BY <1>4, <1>5, <1>6, ProcType
  <1>11. \A d \in Callers : GenuineNext(view'[d])
    BY <1>4, <1>5, <1>7
  <1>12. GenuineNext(disk')
    BY <1>1, <1>5
  <1> QED
    BY <1>9, <1>10, <1>11, <1>12 DEF CachesInv, Genuine, GenuineNext

LEMMA CachesWrite ==
    ASSUME TypeInv, CachesInv, NEW c \in Callers, Write(c)
    PROVE  CachesInv'
  <1>1. /\ pc[c] # "idle" /\ Idle(c) /\ UNCHANGED <<mem, keyOf, outcome>>
        /\ disk' = disk \/ disk' = view[c]
    BY DEF Write
  <1>2. pc'[c] = "idle" /\ OnlyMoves(c) /\ \A d \in Callers : view'[d] \in {view[d], NoEntries}
    BY <1>1, IdleMoves DEF TypeInv, TypeOK, LocalsOK, Idle
  <1>3. NamesKept /\ Keyed'
    BY <1>1, <1>2, KeyedKept DEF NamesKept
  <1> QED
    BY <1>1, <1>2, <1>3, CachesKept

\* The next request id has no envelope, so that no cache names it yet.
LEMMA CachesStart ==
    ASSUME TypeInv, EnvInv, CachesInv, NEW c \in Callers, NEW q \in Requests, Start(c, q)
    PROVE  CachesInv'
  <1>1. PICK r \in Rids : r = nextRid
    BY StartShape
  <1>2. /\ pc[c] = "idle" /\ OnlyMoves(c) /\ view' = view /\ disk' = disk
        /\ keyOf' = [keyOf EXCEPT ![r] = q.key]
        /\ \/ pc'[c] \in {"gate", "disk"} /\ rid'[c] = r /\ req'[c] = q /\ outcome' = outcome
           \/ pc'[c] = "idle" /\ outcome' = [outcome EXCEPT ![r] = mem[ProcOf[c]][q.key].code]
    BY <1>1, StartShape DEF Start
  <1>3. /\ outcome[r] = "none" /\ outcome \in [Rids -> Codes \cup {"none"}]
        /\ keyOf \in [Rids -> Keys \cup {NoKey}]
    BY <1>1 DEF EnvInv, Unused, TypeInv, TypeOK, BoundsOK, CallsOK, Rids
  <1>4. NamesKept
    BY <1>2, <1>3, NoneIsNoCode DEF NamesKept
  <1>5. Keyed'
    <2>1. \A d \in Callers \ {c} : pc[d] # "idle" => rid[d] \in Rids \ {r}
      BY <1>1 DEF EnvInv, OwnIds, TypeInv, CallInv, Rids
    <2>2. \A d \in Callers \ {c} : pc'[d] # "idle" => keyOf'[rid'[d]] = req'[d].key
      BY <1>2, <1>3, <2>1 DEF CachesInv, Keyed, OnlyMoves
    <2>3. pc'[c] # "idle" => keyOf'[rid'[c]] = req'[c].key
      BY <1>2, <1>3
    <2> QED
      BY <2>2, <2>3 DEF Keyed
  <1>6. \A p \in Procs : mem'[p] = mem[p] \/ \A k \in Keys : mem'[p][k] \in {mem[p][k], NoEntry}
    <2>1. mem' = mem \/ mem' = [mem EXCEPT ![ProcOf[c]][q.key] = NoEntry]
      BY DEF Start
    <2> QED
      BY <2>1, StoredTypes DEF TypeInv, TypeOK, StoresOK, Caches
  <1> QED
    BY <1>2, <1>4, <1>5, <1>6, CachesKept

LEMMA CachesDie ==
    ASSUME TypeInv, CachesInv, NEW p \in Procs, Die(p)
    PROVE  CachesInv'
  <1>1. NamesKept /\ disk' = disk
    BY DEF Die, NamesKept
  <1>2. Keyed'
    BY DEF Die, CachesInv, Keyed
  <1>3. \A q \in Procs : mem'[q] = mem[q] \/ \A k \in Keys : mem'[q][k] \in {mem[q][k], NoEntry}
    BY DEF Die, TypeInv, TypeOK, StoresOK, NoEntries
  <1>4. \A c \in Callers : view'[c] \in {view[c], NoEntries}
    BY DEF Die
  <1> QED
    BY <1>1, <1>2, <1>3, <1>4, CachesKept

LEMMA CachesFrame ==
    ASSUME CachesInv, UNCHANGED <<pc, rid, req, view, mem, disk, outcome, keyOf>>
    PROVE  CachesInv'
  BY DEF CachesInv, Keyed, Genuine

LEMMA CachesNext == TypeInv /\ EnvInv /\ CachesInv /\ [Next]_vars => CachesInv'
  <1> SUFFICES ASSUME TypeInv, EnvInv, CachesInv, [Next]_vars PROVE CachesInv'
    OBVIOUS
  <1>1. ASSUME NEW c \in Callers, Step(c) PROVE CachesInv'
    BY <1>1, StepShape, CachesMove, CachesHit, CachesStore, CachesWrite DEF TypeInv, TypeOK
  <1>2. ASSUME NEW source \in Sources, EngageStop(source) \/ ClearStop(source)
        PROVE  CachesInv'
    BY <1>2, CachesFrame DEF EngageStop, ClearStop, locals
  <1>3. CASE Tick \/ UNCHANGED vars
    BY <1>3, CachesFrame DEF Tick, vars, locals
  <1> QED
    BY <1>1, <1>2, <1>3, CachesStart, CachesDie DEF Next

(***************************************************************************)
(* An ok has its audit line, or repeats one: a replayed envelope is the one *)
(* the call it names got, and by then that call stood the same test.        *)
(***************************************************************************)
Backed(r) ==
    outcome[r] = "ok" /\ r \notin audited =>
        r \notin inputs /\ \E s \in audited : keyOf[s] = keyOf[r] /\ keyOf[r] # NoKey
OkInv == \A r \in Rids : Backed(r)

\* A step that may change what is known of r alone, and no key that is in use.
LEMMA OkKept ==
    ASSUME OkInv, audited \subseteq Rids, NEW r \in Rids, audited \subseteq audited',
           \A q \in Rids \ {r} : /\ outcome'[q] = outcome[q] /\ keyOf'[q] = keyOf[q]
                                 /\ q \in inputs' <=> q \in inputs,
           \A s \in audited : keyOf'[s] = keyOf[s],
           Backed(r)'
    PROVE  OkInv'
  <1> SUFFICES ASSUME NEW q \in Rids, q # r PROVE Backed(q)'
    BY DEF OkInv
  <1> QED
    BY DEF OkInv, Backed

\* What a genuine ok of a cache stands for.
LEMMA CachedOkIsBacked ==
    ASSUME OkInv, NEW cache \in Caches, Genuine(cache), NEW k \in Keys, NEW now,
           Fresh(cache[k], now), cache[k].code = "ok"
    PROVE  \E s \in audited : keyOf[s] = k
  <1>1. cache[k] \in Entries /\ cache[k] # NoEntry
    BY EntryOfCache DEF Fresh
  <1>2. cache[k].rid \in Rids /\ keyOf[cache[k].rid] = k /\ outcome[cache[k].rid] = "ok"
    BY <1>1 DEF Entries, Genuine
  <1> QED
    BY <1>2 DEF OkInv, Backed

LEMMA OkStep ==
    ASSUME TypeInv, EnvInv, CachesInv, OkInv, NEW c \in Callers, Step(c)
    PROVE  OkInv'
  <1>1. \/ Walk(c) \/ Act(c) \/ End(c) \/ Depart(c) \/ Hit(c) \/ Store(c) \/ Write(c)
    BY StepShape DEF TypeInv, TypeOK
  <1>2. pc[c] # "idle" /\ UNCHANGED keyOf
    BY <1>1 DEF Walk, Act, End, Depart, Hit, LookupDisk, Store, Write, Frame, Early, Acting
  <1>3. PICK r \in Rids : r = rid[c]
    BY <1>2, ActiveRid
  <1>4. /\ TruthOf(r) /\ Placed(c) /\ outcome \in [Rids -> Codes \cup {"none"}]
        /\ audited \subseteq Rids
    BY <1>2, <1>3, ActiveRid DEF TypeInv, TypeOK, CallsOK
  <1>5. ASSUME audited \subseteq audited', Backed(r)',
               \A q \in Rids \ {r} : outcome'[q] = outcome[q] /\ (q \in inputs' <=> q \in inputs)
        PROVE  OkInv'
    BY <1>2, <1>4, <1>5, OkKept
  <1>6. CASE Walk(c) \/ Act(c)
    <2>1. outcome' = outcome /\ audited' = audited /\ outcome[r] = "none"
      BY <1>3, <1>4, <1>6 DEF Walk, Act, Placed, logs
    <2>2. \A q \in Rids \ {r} : q \in inputs' <=> q \in inputs
      BY <1>3, <1>6 DEF Walk, Act
    <2> QED
      BY <1>5, <2>1, <2>2 DEF Backed
  <1>7. CASE End(c)
    <2>1. PICK code \in Codes : Concludes(c, code)
      BY <1>7 DEF End
    <2>2. outcome' = [outcome EXCEPT ![r] = code] /\ inputs' = inputs /\ audited \subseteq audited'
      BY <1>3, <1>7, <2>1 DEF End, Concludes, Gains
    <2>3. code = "ok" => r \in audited'
      BY <1>3, <2>1 DEF Concludes, Gains
    <2> QED
      BY <1>4, <1>5, <2>2, <2>3 DEF Backed
  <1>8. CASE Hit(c)
    <2> DEFINE k == req[c].key
    <2>1. /\ pc[c] = "disk" /\ Fresh(disk[k], ts[c])
          /\ outcome' = [outcome EXCEPT ![r] = disk[k].code] /\ UNCHANGED <<inputs, logs>>
      BY <1>3, <1>8 DEF Hit, LookupDisk, Replay
    <2>2. k \in Keys /\ k # NoKey /\ keyOf[r] = k /\ r \notin inputs
      BY <1>3, <1>4, <2>1, ConstantsAssumption
      DEF TypeInv, TypeOK, LocalsOK, CallInv, CachesInv, Keyed, Placed, Early
    <2>3. disk[k].code = "ok" => \E s \in audited : keyOf[s] = k
      BY <2>1, <2>2, CachedOkIsBacked, StoredTypes DEF CachesInv
    <2> HIDE DEF k
    <2>4. Backed(r)'
      BY <1>2, <1>4, <2>1, <2>2, <2>3 DEF Backed, logs
    <2> QED
      BY <1>4, <1>5, <2>1, <2>4 DEF logs
  <1>9. CASE Depart(c) \/ Store(c) \/ Write(c)
    <2>1. UNCHANGED <<inputs, logs, outcome>>
      BY <1>9 DEF Depart, Store, Write
    <2> QED
      BY <1>2, <1>5, <2>1 DEF OkInv, Backed, logs
  <1> QED
    BY <1>1, <1>6, <1>7, <1>8, <1>9

LEMMA OkStart ==
    ASSUME TypeInv, EnvInv, CachesInv, OkInv, NEW c \in Callers, NEW q \in Requests, Start(c, q)
    PROVE  OkInv'
  <1> DEFINE p == ProcOf[c]
             e == mem[p][q.key]
  <1>1. PICK r \in Rids : r = nextRid
    BY StartShape
  <1>2. /\ keyOf' = [keyOf EXCEPT ![r] = q.key] /\ UNCHANGED <<inputs, logs>>
        /\ \/ outcome' = outcome
           \/ /\ q.key # NoKey /\ Fresh(e, clock)
              /\ outcome' = [outcome EXCEPT ![r] = e.code]
    BY <1>1, StartShape DEF Start
  <1>3. /\ outcome[r] = "none" /\ r \notin inputs \cup audited /\ audited \subseteq Rids
        /\ outcome \in [Rids -> Codes \cup {"none"}] /\ keyOf \in [Rids -> Keys \cup {NoKey}]
    BY <1>1 DEF EnvInv, Unused, TypeInv, TypeOK, BoundsOK, CallsOK, Rids
  <1>4. \A s \in audited : keyOf'[s] = keyOf[s]
    BY <1>2, <1>3
  <1>5. Backed(r)'
    <2>1. CASE outcome' = outcome
      BY <1>3, <2>1 DEF Backed
    <2>2. CASE q.key # NoKey /\ Fresh(e, clock) /\ outcome' = [outcome EXCEPT ![r] = e.code]
      <3>1. q.key \in Keys /\ p \in Procs
        BY <2>2, ProcType, ConstantsAssumption
      <3>2. e.code = "ok" => \E s \in audited : keyOf[s] = q.key
        BY <2>2, <3>1, CachedOkIsBacked, StoredTypes DEF CachesInv
      <3> HIDE DEF e
      <3>3. outcome'[r] = e.code /\ keyOf'[r] = q.key
        BY <1>2, <1>3, <2>2
      <3> QED
        BY <1>2, <1>3, <1>4, <2>2, <3>2, <3>3 DEF Backed, logs
    <2> QED
      BY <1>2, <2>1, <2>2
  <1> HIDE DEF e
  <1>6. \A s \in Rids \ {r} : outcome'[s] = outcome[s] /\ keyOf'[s] = keyOf[s]
    BY <1>2, <1>3
  <1> QED
    BY <1>2, <1>3, <1>4, <1>5, <1>6, OkKept DEF logs

LEMMA OkNext == TypeInv /\ EnvInv /\ CachesInv /\ OkInv /\ [Next]_vars => OkInv'
  <1> SUFFICES ASSUME TypeInv, EnvInv, CachesInv, OkInv, [Next]_vars PROVE OkInv'
    OBVIOUS
  <1>1. ASSUME UNCHANGED <<inputs, logs, outcome, keyOf>> PROVE OkInv'
    BY <1>1 DEF OkInv, Backed, logs
  <1>2. ASSUME NEW source \in Sources, EngageStop(source) \/ ClearStop(source) PROVE OkInv'
    BY <1>1, <1>2 DEF EngageStop, ClearStop
  <1>3. CASE Tick \/ UNCHANGED vars
    BY <1>1, <1>3 DEF Tick, vars
  <1>4. ASSUME NEW p \in Procs, Die(p) PROVE OkInv'
    BY <1>1, <1>4 DEF Die
  <1> QED
    BY <1>2, <1>3, <1>4, OkStep, OkStart DEF Next

\* However calls of all processes interleave, fail and die, a call that was busy,
\* unconfirmed, rate-limited or a dry run, or that has a "blocked" line, injected
\* nothing; an "ok" line was counted under its verb; and an ok envelope has its
\* line or, injecting nothing, repeats one that was made with its key.
THEOREM EnvelopesTellTheTruth == Spec => []EnvelopeTellsTheTruth
  <1>1. Init => TypeInv /\ EnvInv /\ CachesInv /\ OkInv
    BY TypeInit, EnvInit, CachesInit DEF Init, OkInv, Backed
  <1>2. TypeInv /\ EnvInv /\ CachesInv /\ OkInv /\ [Next]_vars
            => (TypeInv /\ EnvInv /\ CachesInv /\ OkInv)'
    BY TypeNext, EnvNext, CachesNext, OkNext
  <1>3. TypeInv /\ EnvInv /\ OkInv => EnvelopeTellsTheTruth
    BY DEF TypeInv, TypeOK, CallsOK, EnvInv, TruthOf, OkInv, Backed, EnvelopeTellsTheTruth
  <1> QED
    BY <1>1, <1>2, <1>3, PTL DEF Spec

\* Whoever stores, sweeps, replays or dies in between, an envelope in memory or
\* on disk is the one the call it names got, filed under that call's own key.
THEOREM CachesAreGenuine == Spec => []CachedEnvelopesAreGenuine
  <1>1. Init => TypeInv /\ EnvInv /\ CachesInv
    BY TypeInit, EnvInit, CachesInit
  <1>2. TypeInv /\ EnvInv /\ CachesInv /\ [Next]_vars => (TypeInv /\ EnvInv /\ CachesInv)'
    BY TypeNext, EnvNext, CachesNext
  <1>3. CachesInv => CachedEnvelopesAreGenuine
    BY DEF CachesInv, Genuine, CachedEnvelopesAreGenuine
  <1> QED
    BY <1>1, <1>2, <1>3, PTL DEF Spec

(***************************************************************************)
(* Replays.  An answer that was returned stands in its process's memory for *)
(* the TTL, or a younger one does, unless calls with its key overlapped.    *)
(* Three moments are delicate: a call between its two lookups, which has    *)
(* dropped the entry; the copy of an older entry from the file; and a call  *)
(* that has stored its envelope and not returned it yet.                    *)
(***************************************************************************)
Covers(e, now, t) == now - t >= TTL \/ (e # NoEntry /\ e.ts >= t)
Returned(p, k) ==
    /\ returned[p][k] <= clock
    /\ returned[p][k] >= 0 => Covers(mem[p][k], clock, returned[p][k])
InLookup(c) ==
    pc[c] = "disk" /\ returned[ProcOf[c]][req[c].key] >= 0
        => clock - returned[ProcOf[c]][req[c].key] >= TTL
InWrite(c) ==
    pc[c] = "write" /\ returned[ProcOf[c]][req[c].key] # Void
        => ts[c] <= clock /\ Covers(mem[ProcOf[c]][req[c].key], clock, ts[c])
Overlap(c, d) ==
    /\ c # d /\ ProcOf[c] = ProcOf[d] /\ pc[c] # "idle" /\ pc[d] # "idle"
    /\ req[c].key = req[d].key /\ req[c].key # NoKey
OverlapsVoid ==
    \A c, d \in Callers : Overlap(c, d) => returned[ProcOf[c]][req[c].key] = Void
OwedInv == \A r \in owed : outcome[r] \in Codes /\ r \notin inputs
ReplayInv ==
    /\ \A p \in Procs, k \in Keys : Returned(p, k)
    /\ \A c \in Callers : InLookup(c) /\ InWrite(c)
    /\ OverlapsVoid
    /\ OwedInv

Stamp == Times \cup {Never, Void}
ReturnedOK == returned \in [Procs -> [Keys -> Stamp]]

LEMMA StampIsInt == Stamp \subseteq Int /\ Times \subseteq Int /\ TTL \in Nat
  BY ConstantsAssumption DEF Stamp, Times, Never, Void

LEMMA EntryTime == ASSUME NEW s \in Caches, NEW k \in Keys PROVE s[k] = NoEntry \/ s[k].ts \in Int
  BY StampIsInt DEF Caches, Entries

LEMMA CoversLater ==
    ASSUME NEW e, NEW now \in Int, NEW t \in Int, Covers(e, now, t)
    PROVE  Covers(e, now + 1, t)
  BY StampIsInt DEF Covers

\* What is not fresh covers nothing that is due, so that sweeping it is safe.
LEMMA StaleCovers ==
    ASSUME NEW e, e = NoEntry \/ e.ts \in Int, NEW now \in Int, NEW t \in Int,
           Covers(e, now, t), ~Fresh(e, now)
    PROVE  now - t >= TTL
  BY StampIsInt DEF Covers, Fresh

LEMMA SweepCovers ==
    ASSUME NEW s \in Caches, NEW k \in Keys, NEW t \in Int, clock \in Int,
           Covers(s[k], clock, t)
    PROVE  Covers(Sweep(s, clock)[k], clock, t)
  <1>1. CASE Fresh(s[k], clock)
    BY <1>1 DEF Sweep
  <1>2. CASE ~Fresh(s[k], clock)
    BY <1>2, EntryTime, StaleCovers DEF Covers
  <1> QED
    BY <1>1, <1>2

LEMMA ReplayTypes ==
    ASSUME TypeInv
    PROVE  /\ clock \in Int /\ ReturnedOK /\ \A c \in Callers : ts[c] \in Times
           /\ \A p \in Procs, k \in Keys : returned[p][k] \in Int /\ returned[p][k] \in Stamp
           /\ \A c \in Callers : req[c].key \in Keys \cup {NoKey}
  BY StampIsInt, ConstantsAssumption
  DEF TypeInv, TypeOK, BoundsOK, LocalsOK, PromisesOK, ReturnedOK, Stamp

LEMMA KeyInCache ==
    ASSUME TypeInv, NEW c \in Callers, pc[c] \in {"disk", "store", "write"}
    PROVE  req[c].key \in Keys /\ ProcOf[c] \in Procs
  BY ReplayTypes, ProcType DEF TypeInv, CallInv

LEMMA ReplayInit == Init => ReplayInv
  <1> SUFFICES ASSUME Init PROVE ReplayInv
    OBVIOUS
  <1>1. \A p \in Procs, k \in Keys : Returned(p, k)
    BY DEF Init, Returned, Never
  <1>2. \A c \in Callers : InLookup(c) /\ InWrite(c)
    BY DEF Init, InLookup, InWrite
  <1>3. OverlapsVoid /\ OwedInv
    BY DEF Init, OverlapsVoid, Overlap, OwedInv
  <1> QED
    BY <1>1, <1>2, <1>3 DEF ReplayInv

LEMMA OverlapsKept ==
    ASSUME OverlapsVoid, NEW c \in Callers, OnlyMoves(c), pc[c] # "idle",
           pc'[c] # "idle" => req'[c] = req[c],
           \A p \in Procs, k \in Keys : returned[p][k] = Void => returned'[p][k] = Void,
           \A d \in Callers : req[d].key \in Keys \cup {NoKey}
    PROVE  OverlapsVoid'
  <1> SUFFICES ASSUME NEW d \in Callers, NEW f \in Callers, Overlap(d, f)'
               PROVE  returned'[ProcOf[d]][req'[d].key] = Void
    BY DEF OverlapsVoid
  <1>1. /\ pc[d] # "idle" /\ req'[d] = req[d]
        /\ pc[f] # "idle" /\ req'[f] = req[f]
    BY DEF Overlap, OnlyMoves
  <1>2. Overlap(d, f)
    BY <1>1 DEF Overlap
  <1>3. req[d].key \in Keys /\ ProcOf[d] \in Procs
    BY <1>2, ProcType DEF Overlap
  <1> QED
    BY <1>1, <1>2, <1>3 DEF OverlapsVoid

\* An envelope once given stays given.
LEMMA NamesStep ==
    ASSUME TypeInv, EnvInv, NEW c \in Callers,
           \/ Walk(c) \/ Act(c) \/ End(c) \/ Depart(c)
           \/ Hit(c) \/ Store(c) \/ Write(c)
    PROVE  NamesKept
  <1>1. UNCHANGED keyOf
    BY DEF Walk, Act, End, Depart, Hit, LookupDisk, Store, Write, Frame
  <1>2. CASE outcome' = outcome
    BY <1>1, <1>2 DEF NamesKept
  <1>3. ASSUME NEW code, outcome' = [outcome EXCEPT ![rid[c]] = code],
               pc[c] \in Early \cup Acting
        PROVE  NamesKept
    <2>1. pc[c] # "idle"
      BY <1>3 DEF Early, Acting
    <2>2. outcome[rid[c]] = "none"
      BY <1>3, <2>1, ActiveRid DEF Placed
    <2> QED
      BY <1>1, <1>3, <2>2, NoneIsNoCode DEF NamesKept, TypeInv, TypeOK, CallsOK
  <1>4. CASE End(c)
    BY <1>3, <1>4 DEF End, Concludes
  <1>5. CASE Hit(c)
    <2>1. outcome' = [outcome EXCEPT ![rid[c]] = disk[req[c].key].code] /\ pc[c] \in Early
      BY <1>5 DEF Hit, LookupDisk, Replay, Early
    <2> QED
      BY <1>3, <2>1
  <1> QED
    BY <1>2, <1>4, <1>5 DEF Walk, Act, Depart, Store, Write

\* No step puts in the input of a call that was owed a replay: it has its
\* envelope, and only a call without one is at fn.
LEMMA OwedStep ==
    ASSUME TypeInv, EnvInv, OwedInv, NEW c \in Callers,
           \/ Walk(c) \/ Act(c) \/ End(c) \/ Depart(c)
           \/ Hit(c) \/ Store(c) \/ Write(c)
    PROVE  OwedInv'
  <1>1. owed' = owed /\ owed \subseteq Rids
    BY DEF Walk, Act, End, Depart, Hit, LookupDisk, Store, Write, SameStores, promises,
           TypeInv, TypeOK, PromisesOK
  <1>2. inputs' = inputs \/ (inputs' = inputs \cup {rid[c]} /\ pc[c] = "fn")
    BY DEF Walk, Act, End, Depart, Hit, LookupDisk, Store, Write
  <1>3. pc[c] = "fn" => outcome[rid[c]] = "none"
    BY ActiveRid DEF Placed, Acting
  <1>4. \A r \in owed : outcome'[r] \in Codes
    BY <1>1, NamesStep DEF NamesKept, OwedInv
  <1> QED
    BY <1>1, <1>2, <1>3, <1>4, NoneIsNoCode DEF OwedInv

LEMMA ReplayMove ==
    ASSUME TypeInv, EnvInv, ReplayInv, NEW c \in Callers,
           Walk(c) \/ Act(c) \/ End(c) \/ Depart(c)
    PROVE  ReplayInv'
  <1>1. /\ pc[c] # "idle" /\ OnlyMoves(c) /\ UNCHANGED <<clock, mem, promises>>
        /\ pc'[c] \notin {"disk", "write"} /\ (pc'[c] # "idle" => req'[c] = req[c])
    BY DEF Walk, Act, End, Depart, Frame, MaySettle, SameCall, SameStores,
           Early, Acting
  <1>2. \A p \in Procs, k \in Keys : Returned(p, k)'
    BY <1>1 DEF ReplayInv, Returned, promises
  <1>3. \A d \in Callers : InLookup(d)' /\ InWrite(d)'
    BY <1>1 DEF ReplayInv, InLookup, InWrite, OnlyMoves, promises
  <1>4. OverlapsVoid'
    BY <1>1, OverlapsKept, ReplayTypes DEF ReplayInv, promises
  <1>5. OwedInv'
    BY OwedStep DEF ReplayInv
  <1> QED
    BY <1>2, <1>3, <1>4, <1>5 DEF ReplayInv

\* Another call in flight with the same key and process: no promise is made.
LEMMA OthersDiffer ==
    ASSUME TypeInv, ReplayInv, NEW c \in Callers, pc[c] # "idle", req[c].key \in Keys,
           NEW d \in Callers, d # c, pc[d] # "idle", ProcOf[d] = ProcOf[c],
           req[d].key = req[c].key
    PROVE  returned[ProcOf[d]][req[d].key] = Void
  BY ConstantsAssumption DEF ReplayInv, OverlapsVoid, Overlap

\* The entry of the file may be older than what was returned: that is due.
LEMMA ReplayHit ==
    ASSUME TypeInv, EnvInv, ReplayInv, NEW c \in Callers, Hit(c)
    PROVE  ReplayInv'
  <1>1. /\ pc[c] = "disk" /\ pc[c] # "idle" /\ Idle(c) /\ UNCHANGED <<clock, promises>>
        /\ mem' = [mem EXCEPT ![ProcOf[c]][req[c].key] = disk[req[c].key]]
    BY DEF Hit, LookupDisk
  <1>2. pc'[c] = "idle" /\ OnlyMoves(c) /\ req[c].key \in Keys /\ ProcOf[c] \in Procs
    BY <1>1, IdleMoves, KeyInCache DEF TypeInv, TypeOK
  <1>3. \A p \in Procs, k \in Keys :
            p # ProcOf[c] \/ k # req[c].key => mem'[p][k] = mem[p][k]
    BY <1>1 DEF TypeInv, TypeOK, StoresOK, Caches
  <1>4. \A p \in Procs, k \in Keys : Returned(p, k)'
    <2> SUFFICES ASSUME NEW p \in Procs, NEW k \in Keys PROVE Returned(p, k)'
      OBVIOUS
    <2>1. CASE p = ProcOf[c] /\ k = req[c].key
      BY <1>1, <2>1 DEF ReplayInv, InLookup, Returned, Covers, promises
    <2>2. CASE p # ProcOf[c] \/ k # req[c].key
      BY <1>1, <1>3, <2>2 DEF ReplayInv, Returned, promises
    <2> QED
      BY <2>1, <2>2
  <1>5. ASSUME NEW d \in Callers PROVE InLookup(d)' /\ InWrite(d)'
    <2>1. CASE d = c
      BY <1>2, <2>1 DEF InLookup, InWrite
    <2>2. CASE d # c
      <3>1. pc'[d] = pc[d] /\ req'[d] = req[d] /\ ts'[d] = ts[d] /\ returned' = returned
        BY <1>1, <1>2, <2>2 DEF OnlyMoves, promises
      <3>2. InLookup(d)'
        BY <1>1, <3>1 DEF ReplayInv, InLookup
      <3>3. InWrite(d)'
        <4>1. CASE pc[d] # "write" \/ returned[ProcOf[d]][req[d].key] = Void
          BY <3>1, <4>1 DEF InWrite
        <4>2. CASE pc[d] = "write" /\ returned[ProcOf[d]][req[d].key] # Void
          <5>1. ProcOf[d] # ProcOf[c] \/ req[d].key # req[c].key
            BY <1>1, <1>2, <2>2, <4>2, OthersDiffer
          <5>2. mem'[ProcOf[d]][req[d].key] = mem[ProcOf[d]][req[d].key]
            BY <1>3, <4>2, <5>1, KeyInCache
          <5> QED
            BY <1>1, <3>1, <5>2 DEF ReplayInv, InWrite
        <4> QED
          BY <4>1, <4>2
      <3> QED
        BY <3>2, <3>3
    <2> QED
      BY <2>1, <2>2
  <1>6. OverlapsVoid'
    BY <1>1, <1>2, OverlapsKept, ReplayTypes DEF ReplayInv, promises
  <1>7. OwedInv'
    BY OwedStep DEF ReplayInv
  <1> QED
    BY <1>4, <1>5, <1>6, <1>7 DEF ReplayInv

LEMMA ReplayStore ==
    ASSUME TypeInv, EnvInv, ReplayInv, NEW c \in Callers, Store(c)
    PROVE  ReplayInv'
  <1> DEFINE e == [ts |-> clock, rid |-> rid[c], code |-> outcome[rid[c]]]
  <1>1. /\ pc[c] = "store" /\ pc[c] # "idle" /\ Goto(c, "write") /\ UNCHANGED <<clock, promises>>
        /\ UNCHANGED <<rid, req, risk, hist>> /\ ts' = [ts EXCEPT ![c] = clock]
        /\ mem' = [mem EXCEPT ![ProcOf[c]] =
                      [Sweep(mem[ProcOf[c]], clock) EXCEPT ![req[c].key] = e]]
    BY DEF Store
  <1>2. req[c].key \in Keys /\ ProcOf[c] \in Procs
    BY <1>1, KeyInCache
  <1>3. pc'[c] = "write" /\ OnlyMoves(c) /\ ts'[c] = clock
    BY <1>1, GotoMoves DEF OnlyMoves, TypeInv, TypeOK, LocalsOK
  <1>4. e # NoEntry /\ e.ts = clock /\ clock \in Int
    <2>1. e \in Entries
      BY <1>1 DEF TypeInv, TypeOK, CallInv, BoundsOK, Entries
    <2> QED
      BY <2>1, NoEntryAssumption, ReplayTypes
  <1>5. \A p \in Procs, k \in Keys :
            mem'[p][k] = IF p # ProcOf[c] THEN mem[p][k]
                         ELSE IF k = req[c].key THEN e ELSE Sweep(mem[p], clock)[k]
    BY <1>1, <1>2 DEF TypeInv, TypeOK, StoresOK, Caches, Sweep
  <1>6. ASSUME NEW p \in Procs, NEW k \in Keys, NEW t \in Int, t <= clock,
               Covers(mem[p][k], clock, t)
        PROVE  Covers(mem'[p][k], clock, t)
    <2>1. CASE p # ProcOf[c]
      BY <1>5, <1>6, <2>1
    <2>2. CASE p = ProcOf[c] /\ k = req[c].key
      BY <1>4, <1>5, <1>6, <2>2 DEF Covers
    <2>3. CASE p = ProcOf[c] /\ k # req[c].key
      BY <1>4, <1>5, <1>6, <2>3, SweepCovers, StoredTypes
    <2> QED
      BY <2>1, <2>2, <2>3
  <1> HIDE DEF e
  <1>7. \A p \in Procs, k \in Keys : Returned(p, k)'
    BY <1>1, <1>6, ReplayTypes DEF ReplayInv, Returned, promises
  <1>8. ASSUME NEW d \in Callers PROVE InLookup(d)' /\ InWrite(d)'
    <2>1. CASE d = c
      <3>1. Covers(mem'[ProcOf[c]][req[c].key], clock, clock)
        BY <1>2, <1>4, <1>5 DEF Covers
      <3> QED
        BY <1>1, <1>3, <1>4, <2>1, <3>1 DEF InLookup, InWrite
    <2>2. CASE d # c
      <3>1. /\ pc'[d] = pc[d] /\ req'[d] = req[d] /\ ts'[d] = ts[d] /\ returned' = returned
            /\ clock' = clock
        BY <1>1, <1>3, <2>2 DEF OnlyMoves, promises
      <3>2. InLookup(d)'
        BY <3>1 DEF ReplayInv, InLookup
      <3>3. ASSUME pc[d] = "write", returned[ProcOf[d]][req[d].key] # Void
            PROVE  ts[d] <= clock /\ Covers(mem'[ProcOf[d]][req[d].key], clock, ts[d])
        BY <1>6, <3>3, KeyInCache, ReplayTypes, StampIsInt DEF ReplayInv, InWrite
      <3> QED
        BY <3>1, <3>2, <3>3 DEF InWrite
    <2> QED
      BY <2>1, <2>2
  <1>9. OverlapsVoid'
    BY <1>1, <1>3, OverlapsKept, ReplayTypes DEF ReplayInv, promises
  <1>10. OwedInv'
    BY OwedStep DEF ReplayInv
  <1> QED
    BY <1>7, <1>8, <1>9, <1>10 DEF ReplayInv

LEMMA ReplayWrite ==
    ASSUME TypeInv, EnvInv, ReplayInv, NEW c \in Callers, Write(c)
    PROVE  ReplayInv'
  <1> DEFINE k == req[c].key
             p == ProcOf[c]
  <1>1. /\ pc[c] = "write" /\ pc[c] # "idle" /\ Idle(c) /\ UNCHANGED <<clock, mem>>
        /\ returned' = IF returned[p][k] = Void THEN returned
                       ELSE [returned EXCEPT ![p][k] = ts[c]]
    BY DEF Write
  <1>2. k \in Keys /\ p \in Procs /\ pc'[c] = "idle" /\ OnlyMoves(c)
    BY <1>1, KeyInCache, IdleMoves DEF TypeInv, TypeOK
  <1>3. \A q \in Procs, h \in Keys :
            \/ returned'[q][h] = returned[q][h]
            \/ q = p /\ h = k /\ returned[p][k] # Void /\ returned'[q][h] = ts[c]
    BY <1>1, <1>2, ReplayTypes DEF ReturnedOK
  <1>4. ASSUME NEW q \in Procs, NEW h \in Keys PROVE Returned(q, h)'
    <2>1. CASE returned'[q][h] = returned[q][h]
      BY <1>1, <2>1 DEF ReplayInv, Returned
    <2>2. CASE q = p /\ h = k /\ returned[p][k] # Void /\ returned'[q][h] = ts[c]
      BY <1>1, <2>2 DEF ReplayInv, InWrite, Returned
    <2> QED
      BY <1>3, <2>1, <2>2
  <1>5. ASSUME NEW d \in Callers, d # c, pc[d] \in {"disk", "write"}
        PROVE  returned'[ProcOf[d]][req[d].key] = returned[ProcOf[d]][req[d].key]
    <2>1. ProcOf[d] \in Procs /\ req[d].key \in Keys
      BY <1>5, KeyInCache
    <2>2. ProcOf[d] = p /\ req[d].key = k => returned[p][k] = Void
      BY <1>1, <1>2, <1>5, OthersDiffer
    <2> QED
      BY <1>3, <2>1, <2>2
  <1>6. ASSUME NEW d \in Callers PROVE InLookup(d)' /\ InWrite(d)'
    <2>1. CASE d = c
      BY <1>2, <2>1 DEF InLookup, InWrite
    <2>2. CASE d # c
      BY <1>1, <1>2, <1>5, <2>2 DEF ReplayInv, InLookup, InWrite, OnlyMoves
    <2> QED
      BY <2>1, <2>2
  <1>7. OverlapsVoid'
    BY <1>1, <1>2, <1>3, OverlapsKept, ReplayTypes DEF ReplayInv
  <1>8. OwedInv'
    BY OwedStep DEF ReplayInv
  <1> QED
    BY <1>4, <1>6, <1>7, <1>8 DEF ReplayInv

\* A start may void a promise and may drop an entry, but only a stale one.
LEMMA StartStores ==
    ASSUME TypeInv, NEW c \in Callers, NEW q \in Requests, Start(c, q)
    PROVE  /\ \A p \in Procs, k \in Keys :
                \/ returned'[p][k] = returned[p][k]
                \/ returned'[p][k] = Void
           /\ \A p \in Procs, k \in Keys :
                \/ mem'[p][k] = mem[p][k]
                \/ mem'[p][k] = NoEntry /\ ~Fresh(mem[p][k], clock)
           /\ pc'[c] = "disk" =>
                q.key \in Keys /\ req'[c] = q /\ ~Fresh(mem[ProcOf[c]][q.key], clock)
  <1>1. q.key \in Keys \cup {NoKey} /\ ProcOf[c] \in Procs
    BY ProcType, ConstantsAssumption
  <1>2. ASSUME NEW p \in Procs, NEW k \in Keys
        PROVE  returned'[p][k] = returned[p][k] \/ returned'[p][k] = Void
    <2>1. returned' = returned \/ returned' = [returned EXCEPT ![ProcOf[c]][q.key] = Void]
      BY DEF Start, Promise, promises
    <2> QED
      BY <2>1, ReplayTypes DEF ReturnedOK
  <1>3. ASSUME NEW p \in Procs, NEW k \in Keys
        PROVE  mem'[p][k] = mem[p][k] \/ (mem'[p][k] = NoEntry /\ ~Fresh(mem[p][k], clock))
    <2>1. \/ mem' = mem
          \/ /\ ~Fresh(mem[ProcOf[c]][q.key], clock)
             /\ mem' = [mem EXCEPT ![ProcOf[c]][q.key] = NoEntry]
      BY DEF Start
    <2> QED
      BY <2>1 DEF TypeInv, TypeOK, StoresOK, Caches
  <1>4. pc'[c] = "disk" =>
            q.key \in Keys /\ req'[c] = q /\ ~Fresh(mem[ProcOf[c]][q.key], clock)
    BY <1>1, GotoMoves DEF Start, TypeInv, TypeOK, LocalsOK
  <1> QED
    BY <1>2, <1>3, <1>4

LEMMA StartOverlaps ==
    ASSUME TypeInv, ReplayInv, NEW c \in Callers, NEW q \in Requests, Start(c, q)
    PROVE  OverlapsVoid'
  <1> DEFINE Meets(d) == d # c /\ ProcOf[d] = ProcOf[c] /\ pc[d] # "idle" /\ req[d].key = q.key
  <1>1. OnlyMoves(c) /\ pc[c] = "idle" /\ (pc'[c] # "idle" => req'[c] = q)
    BY StartShape
  <1>2. ASSUME NEW d \in Callers, Meets(d), q.key # NoKey
        PROVE  returned'[ProcOf[c]][q.key] = Void
    <2>1. returned' = [returned EXCEPT ![ProcOf[c]][q.key] = Void]
      BY <1>2 DEF Start, Promise
    <2>2. q.key \in Keys /\ ProcOf[c] \in Procs
      BY <1>2, ProcType, ConstantsAssumption
    <2> QED
      BY <2>1, <2>2, ReplayTypes DEF ReturnedOK
  <1> SUFFICES ASSUME NEW d \in Callers, NEW f \in Callers, Overlap(d, f)'
               PROVE  returned'[ProcOf[d]][req'[d].key] = Void
    BY DEF OverlapsVoid
  <1>3. CASE d # c /\ f # c
    <2>1. Overlap(d, f) /\ req'[d] = req[d]
      BY <1>1, <1>3 DEF Overlap, OnlyMoves
    <2>2. req[d].key \in Keys /\ ProcOf[d] \in Procs
      BY <2>1, ReplayTypes, ProcType DEF Overlap
    <2> QED
      BY <2>1, <2>2, StartStores DEF ReplayInv, OverlapsVoid
  <1>4. CASE d = c
    <2>1. Meets(f) /\ q.key # NoKey /\ req'[d] = q
      BY <1>1, <1>4 DEF Overlap, OnlyMoves
    <2> QED
      BY <1>2, <1>4, <2>1
  <1>5. CASE f = c
    <2>1. Meets(d) /\ q.key # NoKey /\ req'[d].key = q.key /\ ProcOf[d] = ProcOf[c]
      BY <1>1, <1>5 DEF Overlap, OnlyMoves
    <2> QED
      BY <1>2, <2>1
  <1> QED
    BY <1>3, <1>4, <1>5

\* A call that is owed a replay finds a fresh entry, and ends there.
LEMMA StartOwed ==
    ASSUME TypeInv, EnvInv, ReplayInv, NEW c \in Callers, NEW q \in Requests, Start(c, q)
    PROVE  OwedInv'
  <1> DEFINE p == ProcOf[c]
             e == mem[p][q.key]
  <1>1. PICK r \in Rids : r = nextRid
    BY StartShape
  <1>2. /\ outcome[r] = "none" /\ r \notin inputs /\ outcome \in [Rids -> Codes \cup {"none"}]
        /\ inputs' = inputs /\ owed \subseteq Rids
    BY <1>1, StartShape
    DEF EnvInv, Unused, TypeInv, TypeOK, BoundsOK, CallsOK, PromisesOK, Rids
  <1>3. outcome' = outcome \/ outcome' = [outcome EXCEPT ![r] = e.code]
    BY <1>1, StartShape
  <1>4. \A s \in owed : outcome'[s] \in Codes /\ s \notin inputs'
    BY <1>2, <1>3, NoneIsNoCode DEF ReplayInv, OwedInv
  <1>5. CASE owed' = owed
    BY <1>4, <1>5 DEF OwedInv
  <1>6. CASE owed' = owed \cup {r} /\ q.key # NoKey /\ Owes(p, q.key)
    <2>1. q.key \in Keys /\ p \in Procs
      BY <1>6, ProcType, ConstantsAssumption
    <2>2. Covers(e, clock, returned[p][q.key]) /\ returned[p][q.key] \in Int /\ clock \in Int
      BY <1>6, <2>1, ReplayTypes DEF ReplayInv, Returned, Owes
    <2>3. Fresh(e, clock)
      BY <1>6, <2>1, <2>2, StaleCovers, EntryTime, StoredTypes, StampIsInt DEF Owes
    <2>4. outcome' = [outcome EXCEPT ![r] = e.code]
      BY <1>1, <1>6, <2>3 DEF Start, Replay
    <2>5. e.code \in Codes
      BY <2>1, <2>3, EntryOfCache, StoredTypes DEF Entries
    <2> QED
      BY <1>2, <1>4, <1>6, <2>4, <2>5 DEF OwedInv
  <1> QED
    BY <1>1, <1>5, <1>6 DEF Start, Promise, promises

LEMMA ReplayStart ==
    ASSUME TypeInv, EnvInv, ReplayInv, NEW c \in Callers, NEW q \in Requests, Start(c, q)
    PROVE  ReplayInv'
  <1>1. /\ OnlyMoves(c) /\ clock' = clock /\ clock \in Int /\ clock \in Times
        /\ pc'[c] \notin {"store", "write"}
    BY StartShape, ReplayTypes DEF TypeInv, TypeOK, BoundsOK
  <1>2. ASSUME NEW p \in Procs, NEW k \in Keys, NEW t \in Int, Covers(mem[p][k], clock, t)
        PROVE  Covers(mem'[p][k], clock, t)
    <2>1. CASE mem'[p][k] = mem[p][k]
      BY <1>2, <2>1
    <2>2. CASE ~Fresh(mem[p][k], clock)
      BY <1>1, <1>2, <2>2, StaleCovers, EntryTime, StoredTypes DEF Covers
    <2> QED
      BY <2>1, <2>2, StartStores
  <1>3. ASSUME NEW p \in Procs, NEW k \in Keys PROVE Returned(p, k)'
    <2>1. CASE returned'[p][k] = returned[p][k]
      BY <1>1, <1>2, <2>1, ReplayTypes DEF ReplayInv, Returned
    <2>2. CASE returned'[p][k] = Void
      BY <1>1, <2>2, ConstantsAssumption DEF Returned, Void, Times
    <2> QED
      BY <2>1, <2>2, StartStores
  <1>4. ASSUME NEW d \in Callers PROVE InLookup(d)' /\ InWrite(d)'
    <2>1. CASE d # c /\ pc[d] \in {"disk", "write"}
      <3>1. /\ pc'[d] = pc[d] /\ req'[d] = req[d] /\ ts'[d] = ts[d]
            /\ req[d].key \in Keys /\ ProcOf[d] \in Procs /\ ts[d] \in Int
        BY <1>1, <2>1, KeyInCache, ReplayTypes, StampIsInt DEF OnlyMoves
      <3>2. CASE returned'[ProcOf[d]][req[d].key] = Void
        BY <3>1, <3>2 DEF InLookup, InWrite, Void
      <3>3. CASE returned'[ProcOf[d]][req[d].key] = returned[ProcOf[d]][req[d].key]
        BY <1>1, <1>2, <3>1, <3>3 DEF ReplayInv, InLookup, InWrite
      <3> QED
        BY <3>1, <3>2, <3>3, StartStores
    <2>2. CASE d # c /\ pc[d] \notin {"disk", "write"}
      BY <1>1, <2>2 DEF InLookup, InWrite, OnlyMoves
    <2>3. CASE d = c /\ pc'[c] = "disk"
      <3>1. /\ q.key \in Keys /\ req'[c] = q /\ ~Fresh(mem[ProcOf[c]][q.key], clock)
            /\ ProcOf[c] \in Procs
        BY <2>3, StartStores, ProcType
      <3>2. CASE returned'[ProcOf[c]][q.key] = Void
        BY <2>3, <3>1, <3>2 DEF InLookup, InWrite, Void
      <3>3. CASE returned'[ProcOf[c]][q.key] = returned[ProcOf[c]][q.key]
        <4>1. returned[ProcOf[c]][q.key] >= 0 => clock - returned[ProcOf[c]][q.key] >= TTL
          BY <1>1, <3>1, ReplayTypes, StaleCovers, EntryTime, StoredTypes
          DEF ReplayInv, Returned
        <4> QED
          BY <1>1, <2>3, <3>1, <3>3, <4>1 DEF InLookup, InWrite
      <3> QED
        BY <3>1, <3>2, <3>3, StartStores
    <2>4. CASE d = c /\ pc'[c] # "disk"
      BY <1>1, <2>4 DEF InLookup, InWrite
    <2> QED
      BY <2>1, <2>2, <2>3, <2>4
  <1> QED
    BY <1>3, <1>4, StartOverlaps, StartOwed DEF ReplayInv

\* The promises of a process die with it.
LEMMA ReplayDie ==
    ASSUME TypeInv, ReplayInv, NEW p \in Procs, Die(p)
    PROVE  ReplayInv'
  <1>1. /\ clock' = clock /\ owed' = owed /\ outcome' = outcome /\ inputs' = inputs
        /\ clock \in Times
        /\ \A c \in Callers : \/ ProcOf[c] = p /\ pc'[c] = "idle"
                              \/ /\ ProcOf[c] # p /\ pc'[c] = pc[c] /\ req'[c] = req[c]
                                 /\ ts'[c] = ts[c]
    BY DEF Die, TypeInv, TypeOK, BoundsOK
  <1>2. \A q \in Procs : q # p => mem'[q] = mem[q] /\ returned'[q] = returned[q]
    BY ReplayTypes DEF Die, TypeInv, TypeOK, StoresOK, ReturnedOK
  <1>3. \A k \in Keys : returned'[p][k] = Never
    BY ReplayTypes DEF Die, ReturnedOK
  <1>4. ASSUME NEW q \in Procs, NEW k \in Keys PROVE Returned(q, k)'
    <2>1. CASE q = p
      BY <1>1, <1>3, <2>1, ConstantsAssumption DEF Returned, Never, Times
    <2>2. CASE q # p
      BY <1>1, <1>2, <2>2 DEF ReplayInv, Returned
    <2> QED
      BY <2>1, <2>2
  <1>5. \A c \in Callers : InLookup(c)' /\ InWrite(c)'
    BY <1>1, <1>2, ProcType DEF ReplayInv, InLookup, InWrite
  <1>6. OverlapsVoid'
    BY <1>1, <1>2, ProcType DEF ReplayInv, OverlapsVoid, Overlap
  <1>7. OwedInv'
    BY <1>1 DEF ReplayInv, OwedInv
  <1> QED
    BY <1>4, <1>5, <1>6, <1>7 DEF ReplayInv

LEMMA ReplayTick == ASSUME TypeInv, ReplayInv, Tick PROVE ReplayInv'
  <1>1. /\ clock' = clock + 1 /\ clock \in Int
        /\ UNCHANGED <<pc, req, ts, mem, returned, owed, outcome, inputs>>
    BY ReplayTypes DEF Tick, locals, promises
  <1>2. ASSUME NEW p \in Procs, NEW k \in Keys PROVE Returned(p, k)'
    BY <1>1, CoversLater, ReplayTypes DEF ReplayInv, Returned
  <1>3. ASSUME NEW c \in Callers PROVE InLookup(c)' /\ InWrite(c)'
    <2>1. CASE pc[c] \in {"disk", "write"}
      <3>1. req[c].key \in Keys /\ ProcOf[c] \in Procs /\ ts[c] \in Int
        BY <2>1, KeyInCache, ReplayTypes, StampIsInt
      <3>2. returned[ProcOf[c]][req[c].key] \in Int
        BY <3>1, ReplayTypes
      <3>3. InLookup(c)'
        BY <1>1, <3>2, StampIsInt DEF ReplayInv, InLookup
      <3>4. InWrite(c)'
        BY <1>1, <3>1, CoversLater DEF ReplayInv, InWrite
      <3> QED
        BY <3>3, <3>4
    <2>2. CASE pc[c] \notin {"disk", "write"}
      BY <1>1, <2>2 DEF InLookup, InWrite
    <2> QED
      BY <2>1, <2>2
  <1>4. OverlapsVoid' /\ OwedInv'
    BY <1>1 DEF ReplayInv, OverlapsVoid, Overlap, OwedInv
  <1> QED
    BY <1>2, <1>3, <1>4 DEF ReplayInv

LEMMA ReplayFrame ==
    ASSUME ReplayInv, UNCHANGED <<clock, pc, req, ts, mem, returned, owed, outcome, inputs>>
    PROVE  ReplayInv'
  BY DEF ReplayInv, Returned, InLookup, InWrite, OverlapsVoid, Overlap, OwedInv

LEMMA ReplayNext == TypeInv /\ EnvInv /\ ReplayInv /\ [Next]_vars => ReplayInv'
  <1> SUFFICES ASSUME TypeInv, EnvInv, ReplayInv, [Next]_vars PROVE ReplayInv'
    OBVIOUS
  <1>1. ASSUME NEW c \in Callers, Step(c) PROVE ReplayInv'
    BY <1>1, StepShape, ReplayMove, ReplayHit, ReplayStore, ReplayWrite DEF TypeInv, TypeOK
  <1>2. ASSUME NEW source \in Sources, EngageStop(source) \/ ClearStop(source)
        PROVE  ReplayInv'
    BY <1>2, ReplayFrame DEF EngageStop, ClearStop, locals, promises
  <1>3. CASE UNCHANGED vars
    BY <1>3, ReplayFrame DEF vars, locals, promises
  <1> QED
    BY <1>1, <1>2, <1>3, ReplayStart, ReplayDie, ReplayTick DEF Next

\* A call made within the TTL of an answer with its key in its process injects
\* nothing, as long as no two calls with the key have overlapped there, whatever
\* the calls with other keys and the other processes do.
THEOREM ReplaysHoldInProcess == Spec => []ReplayInProcess
  <1>1. Init => TypeInv /\ EnvInv /\ ReplayInv
    BY TypeInit, EnvInit, ReplayInit
  <1>2. TypeInv /\ EnvInv /\ ReplayInv /\ [Next]_vars => (TypeInv /\ EnvInv /\ ReplayInv)'
    BY TypeNext, EnvNext, ReplayNext
  <1>3. ReplayInv => ReplayInProcess
    BY DEF ReplayInv, OwedInv, ReplayInProcess
  <1> QED
    BY <1>1, <1>2, <1>3, PTL DEF Spec
=============================================================================
