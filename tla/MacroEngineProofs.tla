------------------------- MODULE MacroEngineProofs -------------------------
(***************************************************************************)
(* Theorems about MacroEngine, for all documents, keys, ledgers and bounds: *)
(* what a failure bars, what a grant covers, and that a keyed input goes in *)
(* once.  They share Shape, which says what run is made of; the frames of   *)
(* its stack are typed last, by what the documents may hold.                *)
(***************************************************************************)
EXTENDS MacroEngine, TLAPS

Shape ==
  \/ run = NoRun
  \/ /\ run = [phase |-> run.phase, macro |-> run.macro, unattended |-> run.unattended,
               yes |-> run.yes, frames |-> run.frames, stopping |-> run.stopping,
               key |-> run.key, ok |-> run.ok, outcome |-> run.outcome,
               covered |-> run.covered, failed |-> run.failed, unredone |-> run.unredone]
     /\ run.phase \in {"steps", "gated", "ended", "raised"}
     /\ run.unattended \in BOOLEAN /\ run.covered \in BOOLEAN
     /\ run.stopping \in BOOLEAN /\ run.failed \in BOOLEAN

\* A failure stops the run where it happens, until a handler has dealt with it.
FailureInv ==
  run.phase # "none" =>
    /\ run.failed => run.unredone
    /\ run.unredone => ~run.ok
    /\ run.failed /\ run.phase = "steps" => run.stopping
    /\ run.phase = "gated" => ~run.failed /\ ~run.stopping

\* What can be read of a grant that no readable line revokes, its owner believes
\* in, or has revoked in a line that cannot be read.
Lines ==
  [kind : {"grant"}, id : Nat, macro : Names, max : {GateRisk}, expires : {MaxNow, Never}]
  \cup [kind : {"revoke"}, id : Nat, macro : Names \cup {""}]
LedgerInv ==
  /\ ledger \in Seq(Lines) /\ lines \in Nat
  /\ \A g \in issued : g.id \in Nat
  /\ \A n \in 1..Len(ledger) :
       /\ ledger[n].kind = "grant"
       /\ \A later \in (n + 1)..Len(ledger) : ~Revokes(ledger[later], ledger[n])
       => ledger[n] \in issued \cup unheard

CacheInv ==
  /\ inputs \in [Keys -> Nat]
  /\ DOMAIN cache = Keys
  /\ \A k \in Keys : /\ inputs[k] <= 1
                     /\ inputs[k] = 1 => cache[k] # NoCode \/ run.phase = "raised"

-----------------------------------------------------------------------------
(* One step of the interpreter leaves the stack, the flags or the phase      *)
(* changed, and nothing else.                                                *)

LEMMA InitShape == Init => Shape /\ FailureInv /\ LedgerInv /\ CacheInv
BY DEF Init, Shape, FailureInv, LedgerInv, CacheInv, NoRun, NoCode

LEMMA BeginRun ==
  ASSUME Begin
  PROVE  Shape' /\ FailureInv' /\ run'.phase = "steps"
<1>1. PICK m \in Macros, unattended \in BOOLEAN, yes \in BOOLEAN : run' = Fresh(m, unattended, yes)
  BY DEF Begin
<1>2. QED BY <1>1 DEF Fresh, Shape, FailureInv, NoRun

LEMMA FramesRun ==
  ASSUME Shape, FailureInv, run.phase = "steps", NEW frames, Frames(frames)
  PROVE  Shape' /\ FailureInv' /\ run'.phase = "steps"
BY DEF Frames, Shape, FailureInv, NoRun

LEMMA FailRun ==
  ASSUME Shape, FailureInv, run.phase = "steps", NEW code, Fail(code)
  PROVE  Shape' /\ FailureInv' /\ run'.phase = "steps"
BY DEF Fail, Failing, Shape, FailureInv, NoRun

LEMMA RaiseRun ==
  ASSUME Shape, FailureInv, run.phase \in {"steps", "gated"}, Raise
  PROVE  Shape' /\ FailureInv' /\ run'.phase = "raised"
<1> DEFINE raised == [run EXCEPT !.phase = "raised"]
<1>1. run' = [raised EXCEPT !.frames = <<>>]
  BY DEF Raise
<1>2. /\ raised = [phase |-> "raised", macro |-> run.macro, unattended |-> run.unattended,
               yes |-> run.yes, frames |-> run.frames, stopping |-> run.stopping,
               key |-> run.key, ok |-> run.ok, outcome |-> run.outcome,
               covered |-> run.covered, failed |-> run.failed, unredone |-> run.unredone]
  BY DEF Shape, NoRun
<1>3. QED BY <1>1, <1>2 DEF Shape, FailureInv, NoRun

\* The interpreter's own step: an unattended run is let through the gate only
\* when it is covered.
LEMMA GateCovers ==
  ASSUME LedgerInv, Gate(run.macro, run.unattended) = "allow", run.unattended
  PROVE  Believed /\ ~run.macro.require_confirm
<1>1. Decide(run.macro, GateRisk, LiveGrants) = "allow"
  BY DEF Gate
<1>2. ~run.macro.require_confirm /\ \E g \in LiveGrants : g.macro = run.macro.name
  BY <1>1 DEF Decide, GateRisk
<1>3. PICK n \in 1..Len(ledger) :
        /\ ledger[n].kind = "grant" /\ ~Expired(ledger[n])
        /\ \A later \in (n + 1)..Len(ledger) : ~Revokes(ledger[later], ledger[n])
        /\ ledger[n].macro = run.macro.name
  BY <1>2 DEF LiveGrants
<1>4. ledger[n] \in issued \cup unheard
  BY <1>3 DEF LedgerInv
<1>5. QED BY <1>2, <1>3, <1>4 DEF Believed

LEMMA PassGateRun ==
  ASSUME Shape, FailureInv, LedgerInv, PassGate
  PROVE  Shape' /\ FailureInv' /\ GrantCoversUnattended'
<1>1. /\ run.phase = "steps" /\ ~run.stopping
  BY DEF PassGate, Ready, On
<1> DEFINE verdict == Gate(run.macro, run.unattended)
<1>2. CASE verdict = "allow"
  <2> DEFINE frames == Rest
             key == Step.key
             covered == Believed /\ ~run.macro.require_confirm
  <2> HIDE DEF frames, key, covered
  <2>1. run' = [run EXCEPT !.phase = "gated", !.frames = frames, !.key = key, !.covered = covered]
    BY <1>2 DEF PassGate, frames, key, covered
  <2>2. run.unattended => covered
    BY <1>2, GateCovers DEF covered
  <2>3. covered \in BOOLEAN
    BY DEF covered, Believed
  <2>4. run # NoRun
    BY <1>1 DEF NoRun
  <2>5. /\ run'.phase = "gated" /\ run'.covered = covered /\ run'.unattended = run.unattended
        /\ run'.failed = run.failed /\ run'.unredone = run.unredone
        /\ run'.stopping = run.stopping /\ run'.ok = run.ok
    BY <2>1, <2>4 DEF Shape
  <2>6. Shape'
    BY <2>1, <2>3, <2>4, <2>5 DEF Shape
  <2>7. QED BY <1>1, <2>2, <2>5, <2>6 DEF FailureInv, GrantCoversUnattended
<1>3. CASE verdict # "allow"
  <2>1. PICK code : Fail(code)
    BY <1>3 DEF PassGate
  <2>2. QED BY <1>1, <2>1, FailRun DEF GrantCoversUnattended
<1>4. QED BY <1>2, <1>3

LEMMA InterpretRun ==
  ASSUME Shape, FailureInv, LedgerInv, Interpret
  PROVE  Shape' /\ FailureInv' /\ GrantCoversUnattended' /\ run.phase = "steps"
<1>1. run.phase = "steps"
  BY DEF Interpret, Plain, StopStep, Confirm, If, Loop, Iterate, Retry, RetryJudges, Try,
         TryEnds, Unwind, PassGate, End, Ready, On
<1>2. CASE \E frames : Frames(frames)
  BY <1>1, <1>2, FramesRun DEF GrantCoversUnattended
<1>3. CASE \E code : Fail(code)
  BY <1>1, <1>3, FailRun DEF GrantCoversUnattended
<1>4. CASE Raise
  BY <1>1, <1>4, RaiseRun DEF GrantCoversUnattended
<1>5. CASE StopStep
  BY <1>1, <1>5 DEF StopStep, Shape, FailureInv, GrantCoversUnattended, NoRun
<1>6. CASE RetryJudges
  <2>1. CASE run.ok
    <3>1. run' = [run EXCEPT !.frames = Below, !.stopping = FALSE]
      BY <1>6, <2>1 DEF RetryJudges
    <3> HIDE DEF Below
    <3>2. QED BY <1>1, <2>1, <3>1 DEF Shape, FailureInv, GrantCoversUnattended, NoRun
  <2>2. CASE ~run.ok /\ (run.outcome \notin Retryable \/ LastAttempt)
    <3>1. run' = [run EXCEPT !.frames = Below, !.stopping = TRUE]
      BY <1>6, <2>2 DEF RetryJudges
    <3>2. QED BY <1>1, <2>2, <3>1 DEF Shape, FailureInv, GrantCoversUnattended, NoRun
  <2>3. CASE ~run.ok /\ ~(run.outcome \notin Retryable \/ LastAttempt)
    <3> DEFINE frames == Turn
               ok == Top.ok
               outcome == Top.outcome
    <3> HIDE DEF frames, ok, outcome
    <3>1. run' = [run EXCEPT !.frames = frames, !.stopping = FALSE, !.ok = ok,
                             !.outcome = outcome, !.failed = FALSE, !.unredone = FALSE]
      BY <1>6, <2>3 DEF RetryJudges, frames, ok, outcome
    <3>2. QED BY <1>1, <2>3, <3>1 DEF Shape, FailureInv, GrantCoversUnattended, NoRun
  <2>4. QED BY <2>1, <2>2, <2>3
<1>7. CASE TryEnds
  <2> DEFINE frames == <<Body(Top.finally)>> \o Below
  <2> HIDE DEF frames
  <2>1. run' = [run EXCEPT !.frames = frames, !.stopping = FALSE, !.failed = FALSE]
    BY <1>7 DEF TryEnds, frames
  <2>2. QED BY <1>1, <2>1 DEF Shape, FailureInv, GrantCoversUnattended, NoRun
<1>8. CASE PassGate
  BY <1>1, <1>8, PassGateRun
<1>9. CASE End
  BY <1>1, <1>9 DEF End, Shape, FailureInv, GrantCoversUnattended, NoRun
<1>10. QED
  <2>1. CASE Plain \/ Loop \/ Retry \/ Try \/ Unwind
    BY <1>2, <2>1 DEF Plain, Loop, Retry, Try, Unwind
  <2>2. CASE Confirm
    BY <1>3, <2>2 DEF Confirm
  <2>3. CASE If
    BY <1>2, <1>4, <2>3 DEF If
  <2>4. CASE Iterate
    BY <1>2, <1>4, <2>4 DEF Iterate
  <2>5. QED
    BY <2>1, <2>2, <2>3, <2>4, <1>5, <1>6, <1>7, <1>8, <1>9 DEF Interpret

\* What run_action answers ends the step, fails it or leaves the engine.
LEMMA SettleRun ==
  ASSUME Shape, FailureInv, run.phase = "gated", NEW code, Settle(code)
  PROVE  /\ Shape' /\ FailureInv' /\ run'.phase # "gated"
         /\ code = "raises" => run'.phase = "raised"
<1>1. CASE code = "ok"
  BY <1>1 DEF Settle, Shape, FailureInv, NoRun
<1>2. CASE code = "raises"
  BY <1>2, RaiseRun DEF Settle
<1>3. CASE code \notin {"ok", "raises"}
  <2>1. run' = [Failing(code) EXCEPT !.phase = "steps"]
    BY <1>3 DEF Settle
  <2>2. run # NoRun
    BY DEF NoRun
  <2>3. /\ run'.phase = "steps" /\ run'.covered = run.covered /\ run'.unattended = run.unattended
        /\ run'.failed = TRUE /\ run'.unredone = TRUE /\ run'.stopping = TRUE /\ run'.ok = FALSE
    BY <2>1, <2>2 DEF Failing, Shape
  <2>4. Shape'
    BY <2>1, <2>2, <2>3 DEF Failing, Shape
  <2>5. QED BY <1>3, <2>3, <2>4 DEF FailureInv
<1>4. QED BY <1>1, <1>2, <1>3

\* An input under a key goes in only while the key has no code, and either the
\* call leaves a code or its exception ends the run.
LEMMA ActKeys ==
  ASSUME Shape, FailureInv, CacheInv, Act
  PROVE  CacheInv'
<1>1. run.phase = "gated"
  BY DEF Act
<1>2. CASE Replayed /\ UNCHANGED <<cache, inputs>>
  BY <1>1, <1>2 DEF CacheInv
<1>3. CASE ~(Replayed /\ UNCHANGED <<cache, inputs>>)
  <2>1. PICK risk \in {"low", "high", "critical"} : \E o \in Outcomes(risk) :
          /\ ~Replayed
          /\ Settle(o.code)
          /\ cache' = Kept(run.key, o.code)
          /\ inputs' = IF o.input /\ run.key \in Keys
                         THEN [inputs EXCEPT ![run.key] = @ + 1] ELSE inputs
    BY <1>3 DEF Act
  <2>2. PICK o \in Outcomes(risk) :
          /\ ~Replayed
          /\ Settle(o.code)
          /\ cache' = Kept(run.key, o.code)
          /\ inputs' = IF o.input /\ run.key \in Keys
                         THEN [inputs EXCEPT ![run.key] = @ + 1] ELSE inputs
    BY <2>1
  <2>3. o.code # NoCode
    BY DEF Outcomes, NoCode
  <2>4. CASE run.key \notin Keys
    BY <1>1, <2>2, <2>4 DEF CacheInv, Kept
  <2>5. CASE run.key \in Keys
    <3>1. inputs[run.key] = 0 /\ cache[run.key] = NoCode
      BY <1>1, <2>2, <2>5 DEF CacheInv, Replayed
    <3>2. CASE o.code = "raises"
      <4>1. run'.phase = "raised" /\ cache' = cache
        BY <1>1, <2>2, <3>2, SettleRun DEF Kept
      <4>2. QED BY <2>2, <2>5, <3>1, <4>1 DEF CacheInv
    <3>3. CASE o.code # "raises"
      <4>1. cache' = [cache EXCEPT ![run.key] = o.code]
        BY <2>2, <2>5, <3>3 DEF Kept
      <4>2. QED BY <1>1, <2>2, <2>3, <2>5, <3>1, <4>1 DEF CacheInv
    <3>4. QED BY <3>2, <3>3
  <2>6. QED BY <2>4, <2>5
<1>4. QED BY <1>2, <1>3

LEMMA ActRun ==
  ASSUME Shape, FailureInv, Act
  PROVE  Shape' /\ FailureInv' /\ GrantCoversUnattended'
<1>1. run.phase = "gated" /\ \E code : Settle(code)
  BY DEF Act
<1>2. QED BY <1>1, SettleRun DEF GrantCoversUnattended

-----------------------------------------------------------------------------
(* The ledger.                                                               *)

LEMMA GrantLedger ==
  ASSUME LedgerInv, Grant
  PROVE  LedgerInv'
<1>1. PICK name \in Names, expires \in {MaxNow, Never} :
        LET g == [kind |-> "grant", id |-> lines + 1, macro |-> name, max |-> GateRisk,
                  expires |-> expires]
        IN  Append1(g) /\ issued' = issued \cup {g} /\ unheard' = unheard
  BY DEF Grant
<1> DEFINE g == [kind |-> "grant", id |-> lines + 1, macro |-> name, max |-> GateRisk,
                 expires |-> expires]
<1>2. g \in Lines /\ g.id \in Nat
  <2>1. lines + 1 \in Nat
    BY DEF LedgerInv
  <2>2. name \in Names /\ expires \in {MaxNow, Never}
    BY <1>1
  <2>3. QED BY <2>1, <2>2 DEF Lines
<1> HIDE DEF g
<1>3. /\ lines' = lines + 1 /\ ledger' = IF torn THEN ledger ELSE Append(ledger, g)
      /\ issued' = issued \cup {g} /\ unheard' = unheard
  BY <1>1 DEF Append1, g
<1>4. QED BY <1>2, <1>3 DEF LedgerInv

LEMMA RevokeLedger ==
  ASSUME LedgerInv, Revoke
  PROVE  LedgerInv'
<1>1. PICK line \in Lines, gone \in SUBSET issued :
        /\ Withdraw(line, gone)
        /\ \A g \in gone : Revokes(line, g)
  <2>1. ASSUME NEW name \in Names,
               Withdraw([kind |-> "revoke", id |-> 0, macro |-> name],
                        {g \in issued : g.macro = name})
        PROVE  \E line \in Lines, gone \in SUBSET issued :
                  Withdraw(line, gone) /\ \A g \in gone : Revokes(line, g)
    <3> DEFINE line == [kind |-> "revoke", id |-> 0, macro |-> name]
               gone == {g \in issued : g.macro = name}
    <3>1. line \in Lines /\ gone \in SUBSET issued
      BY DEF Lines
    <3>2. \A g \in gone : Revokes(line, g)
      BY DEF Revokes
    <3>3. Withdraw(line, gone)
      BY <2>1
    <3> HIDE DEF line, gone
    <3>4. QED BY <3>1, <3>2, <3>3
  <2>2. ASSUME NEW grant \in issued,
               Withdraw([kind |-> "revoke", id |-> grant.id, macro |-> ""], {grant})
        PROVE  \E line \in Lines, gone \in SUBSET issued :
                  Withdraw(line, gone) /\ \A g \in gone : Revokes(line, g)
    <3> DEFINE line == [kind |-> "revoke", id |-> grant.id, macro |-> ""]
    <3>1. line \in Lines
      BY DEF Lines, LedgerInv
    <3>2. Revokes(line, grant)
      BY DEF Revokes
    <3>3. Withdraw(line, {grant})
      BY <2>2
    <3> HIDE DEF line
    <3>4. QED BY <3>1, <3>2, <3>3
  <2>3. QED BY <2>1, <2>2 DEF Revoke
<1>2. /\ lines' = lines + 1 /\ ledger' = IF torn THEN ledger ELSE Append(ledger, line)
      /\ issued' = issued \ gone
      /\ unheard' = IF torn THEN unheard \cup gone ELSE unheard
  BY <1>1 DEF Withdraw, Append1
<1>3. CASE torn
  BY <1>2, <1>3 DEF LedgerInv
<1>4. CASE ~torn
  <2>1. ledger' = Append(ledger, line) /\ issued' = issued \ gone /\ unheard' = unheard
    BY <1>2, <1>4
  <2>2. /\ ledger \in Seq(Lines) /\ ledger' \in Seq(Lines)
        /\ Len(ledger') = Len(ledger) + 1 /\ ledger'[Len(ledger) + 1] = line
        /\ \A i \in 1..Len(ledger) : ledger'[i] = ledger[i]
    BY <2>1 DEF LedgerInv
  <2>3. line.kind # "grant"
    BY <1>1 DEF Withdraw, Revokes
  <2>4. ASSUME NEW n \in 1..Len(ledger'), ledger'[n].kind = "grant",
               \A later \in (n + 1)..Len(ledger') : ~Revokes(ledger'[later], ledger'[n])
        PROVE  ledger'[n] \in issued' \cup unheard'
    <3>1. n \in 1..Len(ledger) /\ ledger'[n] = ledger[n]
      BY <2>2, <2>3, <2>4
    <3>2. \A later \in (n + 1)..Len(ledger) : ~Revokes(ledger[later], ledger[n])
      BY <2>2, <2>4, <3>1
    <3>3. ledger[n] \in issued \cup unheard
      BY <2>4, <3>1, <3>2 DEF LedgerInv
    <3>4. Len(ledger) + 1 \in (n + 1)..Len(ledger')
      BY <2>2, <3>1
    <3>5. ledger[n] \notin gone
      BY <1>1, <2>2, <2>4, <3>1, <3>4
    <3>6. QED BY <2>1, <3>1, <3>3, <3>5
  <2>5. lines' \in Nat /\ \A g \in issued' : g.id \in Nat
    BY <1>2, <2>1 DEF LedgerInv
  <2>6. QED BY <2>2, <2>4, <2>5 DEF LedgerInv, Revokes
<1>5. QED BY <1>3, <1>4

-----------------------------------------------------------------------------
IInv == Shape /\ FailureInv /\ LedgerInv /\ CacheInv /\ GrantCoversUnattended

LEMMA InitIInv == Init => IInv
BY InitShape DEF IInv, GrantCoversUnattended, Init, NoRun

LEMMA StepIInv ==
  ASSUME IInv, [Next]_vars
  PROVE  IInv'
<1> USE DEF IInv
<1>1. CASE Grant
  BY <1>1, GrantLedger DEF Grant, Shape, FailureInv, CacheInv, GrantCoversUnattended
<1>2. CASE Revoke
  BY <1>2, RevokeLedger DEF Revoke, Withdraw, Shape, FailureInv, CacheInv, GrantCoversUnattended
<1>3. CASE Tear
  BY <1>3 DEF Tear, Shape, FailureInv, LedgerInv, CacheInv, GrantCoversUnattended
<1>4. CASE Tick
  BY <1>4 DEF Tick, ledgerVars, Shape, FailureInv, LedgerInv, CacheInv, GrantCoversUnattended
<1>5. CASE Begin
  <2>1. LedgerInv' /\ CacheInv'
    BY <1>5 DEF Begin, ledgerVars, LedgerInv, CacheInv
  <2>2. QED BY <1>5, <2>1, BeginRun DEF GrantCoversUnattended
<1>6. CASE Interpret
  <2>1. LedgerInv' /\ UNCHANGED <<cache, inputs>>
    BY <1>6 DEF Interpret, ledgerVars, LedgerInv
  <2>2. CacheInv'
    BY <1>6, <2>1, InterpretRun DEF CacheInv
  <2>3. QED BY <1>6, <2>1, <2>2, InterpretRun
<1>7. CASE Act
  <2>1. LedgerInv'
    BY <1>7 DEF Act, ledgerVars, LedgerInv
  <2>2. QED BY <1>7, <2>1, ActRun, ActKeys
<1>8. CASE UNCHANGED vars
  BY <1>8 DEF vars, ledgerVars, Shape, FailureInv, LedgerInv, CacheInv, GrantCoversUnattended
<1>9. QED
  BY <1>1, <1>2, <1>3, <1>4, <1>5, <1>6, <1>7, <1>8 DEF Next, EngineStep

\* The inductive invariant holds of every state: what run_action and the ledger
\* leave behind is what the engine's next step relies on.
THEOREM EngineInvariant == Spec => []IInv
<1>1. IInv /\ [Next]_vars => IInv'
  BY StepIInv
<1>2. QED BY InitIInv, <1>1, PTL DEF Spec

\* Whatever is appended, torn, revoked or expires while a macro runs, an
\* unattended action passes _default_gate only under a grant its owner believed
\* in at that moment (or has revoked in a line glued to a torn one).
THEOREM GrantsCoverUnattended == Spec => []GrantCoversUnattended
<1>1. IInv => GrantCoversUnattended
  BY DEF IInv
<1>2. QED BY EngineInvariant, <1>1, PTL

\* In every document, however its loops, branches, retries and tries nest, a
\* failure bars the actions behind it and shows in the envelope of run(), until a
\* handler has dealt with it.
THEOREM FailuresAlwaysCount == Spec => []FailuresCount
<1>1. IInv => FailuresCount
  BY DEF IInv, FailureInv, FailuresCount, NothingAfterFailure, SuccessHidesNoFailure
<1>2. QED BY EngineInvariant, <1>1, PTL

\* In every document the input of an idempotency key goes in at most once in a
\* run, although retry repeats an action whose observation failed after it.
THEOREM KeyedInputsGoInOnce == Spec => []KeyedInputGoesInOnce
<1>1. IInv => KeyedInputGoesInOnce
  BY DEF IInv, CacheInv, KeyedInputGoesInOnce
<1>2. QED BY EngineInvariant, <1>1, PTL

-----------------------------------------------------------------------------
(* Types: what a document's steps put on the stack.                          *)

StackInv ==
  run.phase # "none" =>
    /\ run.frames \in Seq(Frame) /\ run.ok \in BOOLEAN /\ run.outcome \in Codes

\* Every line has its number, and a grant is revoked by the number of its line.
BookInv ==
  /\ \A g \in issued : g.id \in 1..lines
  /\ \A i \in 1..Len(ledger) : ledger[i].id \in 0..lines
  /\ torn \in BOOLEAN /\ lines \in 0..MaxLines /\ now \in 0..MaxNow /\ runs \in 0..MaxRuns
  /\ cache \in [Keys -> Codes \cup {NoCode}]

LEMMA PushFrames ==
  ASSUME NEW x \in Frame, NEW y \in Frame, NEW s \in Seq(Frame)
  PROVE  <<x>> \o s \in Seq(Frame) /\ <<x, y>> \o s \in Seq(Frame) /\ <<x>> \in Seq(Frame)
<1> HIDE DEF Frame
<1>1. QED OBVIOUS

LEMMA BodyFrame ==
  ASSUME NEW b \in Blocks
  PROVE  Body(b) \in Frame
BY DEF Body, Frame

LEMMA TopFrame ==
  ASSUME run.frames \in Seq(Frame), run.frames # <<>>
  PROVE  /\ Top \in Frame /\ Below \in Seq(Frame)
         /\ Top.kind = "body" => Top.steps \in Blocks
         /\ Top.kind = "try" => Top.finally \in Blocks
         /\ Top.kind = "loop" => Top \in [kind : {"loop"}, do : Blocks, left : Nat, while : BOOLEAN]
         /\ Top.kind = "retry" => Top \in [kind : {"retry"}, do : Blocks, left : Nat \ {0},
                                           ok : BOOLEAN, outcome : Codes]
<1>1. Top \in Frame /\ Below \in Seq(Frame)
  <2> HIDE DEF Frame
  <2>1. QED BY DEF Top, Below
<1> HIDE DEF Top
<1>2. QED BY <1>1 DEF Frame

\* The step a frame is at, and what is left behind it.
LEMMA ReadyStep ==
  ASSUME run.frames \in Seq(Frame), NEW type, Ready(type)
  PROVE  /\ Step \in Steps /\ Step.type = type /\ Rest \in Seq(Frame)
         /\ type = "act" => Step.key \in Keys \cup {NoKey}
         /\ type = "if" => Step.then \in Blocks /\ Step.else \in Blocks
         /\ type \in {"for_each", "loop", "retry", "try"} => Step.do \in Blocks
         /\ type = "loop" => Step.cap \in Nat
         /\ type = "retry" => Step.attempts \in Nat
         /\ type = "try" => Step.finally \in Blocks
<1>1. run.frames # <<>> /\ Top.kind = "body" /\ Top.steps # <<>> /\ Step.type = type
  BY DEF Ready, On, Step
<1>2. Top.steps \in Blocks /\ Below \in Seq(Frame)
  BY <1>1, TopFrame
<1>3. Top.steps \in Seq(Steps) /\ Tail(Top.steps) \in Blocks
  BY <1>1, <1>2, DocumentAssumption
<1>4. Step \in Steps
  <2> HIDE DEF Steps, Top
  <2>1. QED BY <1>1, <1>3 DEF Step
<1>5. Rest \in Seq(Frame)
  BY <1>2, <1>3, BodyFrame, PushFrames DEF Rest
<1> HIDE DEF Step
<1>6. QED BY <1>1, <1>4, <1>5 DEF Steps

LEMMA FramesStack ==
  ASSUME Shape, StackInv, run.phase = "steps", NEW frames \in Seq(Frame), Frames(frames)
  PROVE  StackInv'
<1> HIDE DEF Frame, Codes
<1>1. run # NoRun
  BY DEF NoRun
<1>2. QED BY <1>1 DEF Frames, Shape, StackInv

LEMMA FailStack ==
  ASSUME Shape, StackInv, run.phase = "steps", NEW code \in Codes, Fail(code)
  PROVE  StackInv'
<1> HIDE DEF Frame, Codes
<1>1. run # NoRun
  BY DEF NoRun
<1>2. QED BY <1>1 DEF Fail, Failing, Shape, StackInv

LEMMA RaiseStack ==
  ASSUME Shape, StackInv, run.phase \in {"steps", "gated"}, Raise
  PROVE  StackInv'
<1> DEFINE raised == [run EXCEPT !.phase = "raised"]
<1>1. run' = [raised EXCEPT !.frames = <<>>]
  BY DEF Raise
<1>2. /\ raised = [phase |-> "raised", macro |-> run.macro, unattended |-> run.unattended,
               yes |-> run.yes, frames |-> run.frames, stopping |-> run.stopping,
               key |-> run.key, ok |-> run.ok, outcome |-> run.outcome,
               covered |-> run.covered, failed |-> run.failed, unredone |-> run.unredone]
  BY DEF Shape, NoRun
<1>3. run'.frames = <<>> /\ run'.ok = run.ok /\ run'.outcome = run.outcome
  BY <1>1, <1>2
<1>4. <<>> \in Seq(Frame)
  OBVIOUS
<1>5. run.ok \in BOOLEAN /\ run.outcome \in Codes
  BY DEF StackInv
<1>6. QED BY <1>3, <1>4, <1>5 DEF StackInv

\* A loop's turn counts one down, and a retry is not begun without an attempt.
LEMMA TurnFrames ==
  ASSUME run.frames \in Seq(Frame), run.frames # <<>>,
         \/ Top.kind = "loop" /\ Top.left # 0
         \/ Top.kind = "retry" /\ ~LastAttempt
  PROVE  Turn \in Seq(Frame)
<1> DEFINE top == [Top EXCEPT !.left = @ - 1]
<1>1. Below \in Seq(Frame)
  BY TopFrame
<1>2. top \in Frame /\ Body(Top.do) \in Frame
  <2>1. CASE Top.kind = "loop"
    <3>1. Top \in [kind : {"loop"}, do : Blocks, left : Nat, while : BOOLEAN] /\ Top.left # 0
      BY <2>1, TopFrame
    <3> HIDE DEF Top
    <3>2. Top.left - 1 \in Nat
      BY <3>1
    <3>3. top \in [kind : {"loop"}, do : Blocks, left : Nat, while : BOOLEAN] /\ Top.do \in Blocks
      BY <3>1, <3>2
    <3>4. top \in Frame
      BY <3>3 DEF Frame
    <3>5. QED BY <3>3, <3>4, BodyFrame
  <2>2. CASE Top.kind = "retry"
    <3>1. /\ Top \in [kind : {"retry"}, do : Blocks, left : Nat \ {0}, ok : BOOLEAN, outcome : Codes]
          /\ Top.left # 1
      BY <2>2, TopFrame DEF LastAttempt
    <3> HIDE DEF Top, Codes
    <3>2. Top.left - 1 \in Nat \ {0}
      BY <3>1
    <3>3. /\ top \in [kind : {"retry"}, do : Blocks, left : Nat \ {0}, ok : BOOLEAN, outcome : Codes]
          /\ Top.do \in Blocks
      BY <3>1, <3>2
    <3>4. top \in Frame
      BY <3>3 DEF Frame
    <3>5. QED BY <3>3, <3>4, BodyFrame
  <2>3. QED BY <2>1, <2>2
<1> HIDE DEF top
<1>3. <<Body(Top.do), top>> \o Below \in Seq(Frame)
  BY <1>1, <1>2, PushFrames
<1>4. QED BY <1>3 DEF Turn, top

\* Of if, for_each, loop, retry and try, what is pushed is a block and a handler.
LEMMA PushedFrames ==
  ASSUME Shape, StackInv, Plain \/ If \/ Loop \/ Iterate \/ Retry \/ Try \/ Unwind
  PROVE  (\E frames \in Seq(Frame) : Frames(frames)) \/ Raise
<1>1. run.phase = "steps"
  BY DEF Plain, If, Loop, Iterate, Retry, Try, Unwind, Ready, On
<1>2. run.frames \in Seq(Frame) /\ run.ok \in BOOLEAN /\ run.outcome \in Codes
  BY <1>1 DEF StackInv
<1>3. CASE Plain
  BY <1>2, <1>3, ReadyStep DEF Plain
<1>4. CASE If
  <2>1. Ready("if")
    BY <1>4 DEF If
  <2>2. Step.then \in Blocks /\ Step.else \in Blocks /\ Rest \in Seq(Frame)
    BY <1>2, <2>1, ReadyStep
  <2>3. /\ <<Body(Step.then)>> \o Rest \in Seq(Frame) /\ <<Body(Step.else)>> \o Rest \in Seq(Frame)
    BY <2>2, BodyFrame, PushFrames
  <2>4. Frames(<<Body(Step.then)>> \o Rest) \/ Frames(<<Body(Step.else)>> \o Rest) \/ Raise
    BY <1>4 DEF If
  <2>5. QED BY <2>3, <2>4
<1>5. CASE Loop
  <2>1. PICK n \in Nat, c \in BOOLEAN :
          /\ Step.do \in Blocks /\ Rest \in Seq(Frame)
          /\ Frames(<<[kind |-> "loop", do |-> Step.do, left |-> n, while |-> c]>> \o Rest)
    <3>1. CASE Ready("loop")
      <4>1. Step.do \in Blocks /\ Rest \in Seq(Frame) /\ Step.cap \in Nat /\ Step.type = "loop"
        BY <1>2, <3>1, ReadyStep
      <4>2. ~Ready("for_each")
        BY <4>1 DEF Ready, Step
      <4>3. Frames(<<[kind |-> "loop", do |-> Step.do, left |-> Step.cap, while |-> TRUE]>> \o Rest)
        BY <1>5, <4>2 DEF Loop
      <4>4. QED BY <4>1, <4>3
    <3>2. CASE ~Ready("loop")
      <4>1. Ready("for_each") /\ \E n \in 0..MaxItems :
              Frames(<<[kind |-> "loop", do |-> Step.do, left |-> n, while |-> FALSE]>> \o Rest)
        BY <1>5, <3>2 DEF Loop
      <4>2. Step.do \in Blocks /\ Rest \in Seq(Frame)
        BY <1>2, <4>1, ReadyStep
      <4>3. 0..MaxItems \subseteq Nat
        BY EngineAssumption
      <4>4. QED BY <4>1, <4>2, <4>3
    <3>3. QED BY <3>1, <3>2
  <2> DEFINE loop == [kind |-> "loop", do |-> Step.do, left |-> n, while |-> c]
  <2>2. loop \in Frame
    BY <2>1 DEF Frame
  <2> HIDE DEF loop
  <2>3. <<loop>> \o Rest \in Seq(Frame)
    BY <2>1, <2>2, PushFrames
  <2>4. QED BY <2>1, <2>3 DEF loop
<1>6. CASE Iterate
  <2>1. run.frames # <<>> /\ Top.kind = "loop"
    BY <1>6 DEF Iterate, On
  <2>2. Below \in Seq(Frame)
    BY <1>2, <2>1, TopFrame
  <2>3. CASE Top.left = 0
    BY <1>6, <2>2, <2>3 DEF Iterate
  <2>4. CASE Top.left # 0
    <3>1. Turn \in Seq(Frame)
      BY <1>2, <2>1, <2>4, TurnFrames
    <3>2. Frames(Turn) \/ Frames(Below) \/ Raise
      BY <1>6, <2>4 DEF Iterate
    <3>3. QED BY <2>2, <3>1, <3>2
  <2>5. QED BY <2>3, <2>4
<1>7. CASE Retry
  <2> DEFINE retry == [kind |-> "retry", do |-> Step.do, left |-> Step.attempts,
                       ok |-> run.ok, outcome |-> run.outcome]
  <2>1. Ready("retry") /\ Frames(IF Step.attempts = 0 THEN Rest ELSE <<Body(Step.do), retry>> \o Rest)
    BY <1>7 DEF Retry
  <2>2. Step.do \in Blocks /\ Rest \in Seq(Frame) /\ Step.attempts \in Nat
    BY <1>2, <2>1, ReadyStep
  <2>3. CASE Step.attempts = 0
    BY <2>1, <2>2, <2>3
  <2>4. CASE Step.attempts # 0
    <3>1. retry \in Frame
      BY <1>2, <2>2, <2>4 DEF Frame
    <3> HIDE DEF retry
    <3>2. <<Body(Step.do), retry>> \o Rest \in Seq(Frame)
      BY <2>2, <3>1, BodyFrame, PushFrames
    <3>3. QED BY <2>1, <2>4, <3>2
  <2>5. QED BY <2>3, <2>4
<1>8. CASE Try
  <2> DEFINE try == [kind |-> "try", finally |-> Step.finally]
  <2>1. Ready("try") /\ Frames(<<Body(Step.do), try>> \o Rest)
    BY <1>8 DEF Try
  <2>2. Step.do \in Blocks /\ Rest \in Seq(Frame) /\ Step.finally \in Blocks
    BY <1>2, <2>1, ReadyStep
  <2>3. try \in Frame
    BY <2>2 DEF Frame
  <2> HIDE DEF try
  <2>4. <<Body(Step.do), try>> \o Rest \in Seq(Frame)
    BY <2>2, <2>3, BodyFrame, PushFrames
  <2>5. QED BY <2>1, <2>4
<1>9. CASE Unwind
  BY <1>2, <1>9, TopFrame DEF Unwind
<1>10. QED BY <1>3, <1>4, <1>5, <1>6, <1>7, <1>8, <1>9

LEMMA InterpretStack ==
  ASSUME Shape, StackInv, Interpret
  PROVE  StackInv'
<1>1. run.phase = "steps" /\ run # NoRun
  BY DEF Interpret, Plain, StopStep, Confirm, If, Loop, Iterate, Retry, RetryJudges, Try,
         TryEnds, Unwind, PassGate, End, Ready, On, NoRun
<1>2. run.frames \in Seq(Frame) /\ run.ok \in BOOLEAN /\ run.outcome \in Codes
  BY <1>1 DEF StackInv
<1>3. CASE Plain \/ If \/ Loop \/ Iterate \/ Retry \/ Try \/ Unwind
  BY <1>1, <1>3, PushedFrames, FramesStack, RaiseStack
<1>4. CASE StopStep \/ End
  <2>1. run'.frames = run.frames /\ run'.ok = run.ok /\ run'.outcome = run.outcome
    BY <1>1, <1>4 DEF StopStep, End, Shape
  <2>2. QED BY <1>2, <2>1 DEF StackInv
<1>5. CASE Confirm
  <2>1. "confirmation_required" \in Codes
    BY DEF Codes
  <2>2. QED BY <1>1, <1>5, <2>1, FailStack DEF Confirm
<1>6. CASE RetryJudges
  <2>1. run.frames # <<>> /\ Top.kind = "retry"
    BY <1>6 DEF RetryJudges, On
  <2>2. Below \in Seq(Frame) /\ Top.ok \in BOOLEAN /\ Top.outcome \in Codes
    <3>1. /\ Below \in Seq(Frame)
          /\ Top \in [kind : {"retry"}, do : Blocks, left : Nat \ {0}, ok : BOOLEAN, outcome : Codes]
      BY <1>2, <2>1, TopFrame
    <3> HIDE DEF Top, Below, Codes
    <3>2. QED BY <3>1
  <2>3. CASE run.ok \/ run.outcome \notin Retryable \/ LastAttempt
    <3>1. run' = [run EXCEPT !.frames = Below, !.stopping = FALSE]
          \/ run' = [run EXCEPT !.frames = Below, !.stopping = TRUE]
      BY <1>6, <2>3 DEF RetryJudges
    <3> HIDE DEF Below
    <3>2. run'.frames = Below /\ run'.ok = run.ok /\ run'.outcome = run.outcome
      BY <1>1, <3>1 DEF Shape
    <3>3. QED BY <1>2, <2>2, <3>2 DEF StackInv
  <2>4. CASE ~(run.ok \/ run.outcome \notin Retryable \/ LastAttempt)
    <3> DEFINE frames == Turn
               ok == Top.ok
               outcome == Top.outcome
    <3>1. frames \in Seq(Frame)
      BY <1>2, <2>1, <2>4, TurnFrames
    <3>2. ok \in BOOLEAN /\ outcome \in Codes
      BY <2>2
    <3> HIDE DEF frames, ok, outcome
    <3>3. run' = [run EXCEPT !.frames = frames, !.stopping = FALSE, !.ok = ok,
                             !.outcome = outcome, !.failed = FALSE, !.unredone = FALSE]
      BY <1>6, <2>4 DEF RetryJudges, frames, ok, outcome
    <3>4. run'.frames = frames /\ run'.ok = ok /\ run'.outcome = outcome
      BY <1>1, <3>3 DEF Shape
    <3>5. QED BY <3>1, <3>2, <3>4 DEF StackInv
  <2>5. QED BY <2>3, <2>4
<1>7. CASE TryEnds
  <2> DEFINE frames == <<Body(Top.finally)>> \o Below
  <2>1. run.frames # <<>> /\ Top.kind = "try"
    BY <1>7 DEF TryEnds, On
  <2>2. Below \in Seq(Frame) /\ Top.finally \in Blocks
    BY <1>2, <2>1, TopFrame
  <2>3. frames \in Seq(Frame)
    BY <2>2, BodyFrame, PushFrames
  <2> HIDE DEF frames
  <2>4. run' = [run EXCEPT !.frames = frames, !.stopping = FALSE, !.failed = FALSE]
    BY <1>7 DEF TryEnds, frames
  <2>5. run'.frames = frames /\ run'.ok = run.ok /\ run'.outcome = run.outcome
    BY <1>1, <2>4 DEF Shape
  <2>6. QED BY <1>2, <2>3, <2>5 DEF StackInv
<1>8. CASE PassGate
  <2>1. CASE Gate(run.macro, run.unattended) = "allow"
    <3> DEFINE frames == Rest
               key == Step.key
               covered == Believed /\ ~run.macro.require_confirm
    <3>1. frames \in Seq(Frame)
      BY <1>2, <1>8, ReadyStep DEF PassGate
    <3> HIDE DEF frames, key, covered
    <3>2. run' = [run EXCEPT !.phase = "gated", !.frames = frames, !.key = key, !.covered = covered]
      BY <1>8, <2>1 DEF PassGate, frames, key, covered
    <3>3. run'.frames = frames /\ run'.ok = run.ok /\ run'.outcome = run.outcome
      BY <1>1, <3>2 DEF Shape
    <3>4. QED BY <1>2, <3>1, <3>3 DEF StackInv
  <2>2. CASE Gate(run.macro, run.unattended) # "allow"
    <3>1. Fail("confirmation_required") \/ Fail("guarded_action")
      BY <1>8, <2>2 DEF PassGate
    <3>2. "confirmation_required" \in Codes /\ "guarded_action" \in Codes
      BY DEF Codes
    <3>3. QED BY <1>1, <3>1, <3>2, FailStack
  <2>3. QED BY <2>1, <2>2
<1>9. QED BY <1>3, <1>4, <1>5, <1>6, <1>7, <1>8 DEF Interpret

LEMMA SettleStack ==
  ASSUME Shape, StackInv, run.phase = "gated", NEW code \in Codes \cup {"raises"}, Settle(code)
  PROVE  StackInv'
<1>1. run # NoRun
  BY DEF NoRun
<1>2. run.frames \in Seq(Frame) /\ run.ok \in BOOLEAN /\ run.outcome \in Codes
  BY DEF StackInv
<1>3. CASE code = "ok"
  <2>1. run' = [run EXCEPT !.phase = "steps"]
    BY <1>3 DEF Settle
  <2>2. run'.frames = run.frames /\ run'.ok = run.ok /\ run'.outcome = run.outcome
    BY <1>1, <2>1 DEF Shape
  <2>3. QED BY <1>2, <2>2 DEF StackInv
<1>4. CASE code = "raises"
  BY <1>4, RaiseStack DEF Settle
<1>5. CASE code \notin {"ok", "raises"}
  <2>1. run' = [Failing(code) EXCEPT !.phase = "steps"] /\ code \in Codes
    BY <1>5 DEF Settle
  <2>2. run'.frames = run.frames /\ run'.ok = FALSE /\ run'.outcome = code
    BY <1>1, <2>1 DEF Failing, Shape
  <2>3. QED BY <1>2, <2>1, <2>2 DEF StackInv
<1>6. QED BY <1>3, <1>4, <1>5

\* What run_action answers is one of the codes, new or kept.
LEMMA ActStack ==
  ASSUME Shape, StackInv, BookInv, Act
  PROVE  StackInv' /\ cache' \in [Keys -> Codes \cup {NoCode}]
<1>1. run.phase = "gated" /\ cache \in [Keys -> Codes \cup {NoCode}]
  BY DEF Act, BookInv
<1>2. CASE Replayed /\ Settle(cache[run.key]) /\ cache' = cache
  <2>1. cache[run.key] \in Codes
    BY <1>1, <1>2 DEF Replayed
  <2>2. QED BY <1>1, <1>2, <2>1, SettleStack
<1>3. CASE \E risk \in {"low", "high", "critical"} : \E o \in Outcomes(risk) :
              Settle(o.code) /\ cache' = Kept(run.key, o.code)
  <2>1. PICK risk \in {"low", "high", "critical"} : \E o \in Outcomes(risk) :
              Settle(o.code) /\ cache' = Kept(run.key, o.code)
    BY <1>3
  <2>2. PICK o \in Outcomes(risk) : Settle(o.code) /\ cache' = Kept(run.key, o.code)
    BY <2>1
  <2>3. o.code \in Codes \cup {"raises"}
    BY DEF Outcomes, Codes, Retryable
  <2>4. StackInv'
    BY <1>1, <2>2, <2>3, SettleStack
  <2>5. cache' \in [Keys -> Codes \cup {NoCode}]
    <3> HIDE DEF Codes
    <3>1. QED BY <1>1, <2>2, <2>3 DEF Kept
  <2>6. QED BY <2>4, <2>5
<1>4. QED BY <1>2, <1>3 DEF Act

LEMMA WrittenBook ==
  ASSUME LedgerInv, BookInv, Grant \/ Revoke \/ Tear
  PROVE  BookInv'
<1>1. lines \in Nat /\ lines < MaxLines /\ lines' = lines + 1 /\ lines' \in 0..MaxLines
      /\ torn' \in BOOLEAN /\ UNCHANGED <<now, runs, cache>>
  <2>1. lines < MaxLines /\ lines' = lines + 1 /\ torn' \in BOOLEAN /\ UNCHANGED <<now, runs, cache>>
    BY DEF Grant, Revoke, Tear, Withdraw, Append1
  <2>2. lines \in Nat /\ MaxLines \in Nat
    BY EngineAssumption DEF BookInv
  <2>3. QED BY <2>1, <2>2
<1>2. ledger \in Seq(Lines) /\ \A i \in 1..Len(ledger) : ledger[i].id \in 0..lines'
  BY <1>1 DEF LedgerInv, BookInv
<1>3. \A g \in issued : g.id \in 1..lines'
  BY <1>1 DEF BookInv
<1>4. ASSUME NEW line \in Lines, line.id \in 0..lines', Append1(line)
      PROVE  \A i \in 1..Len(ledger') : ledger'[i].id \in 0..lines'
  <2>1. ledger' = ledger \/ ledger' = Append(ledger, line)
    BY <1>4 DEF Append1
  <2>2. CASE ledger' = ledger
    BY <1>2, <2>2
  <2>3. CASE ledger' = Append(ledger, line)
    <3> HIDE DEF Lines
    <3>1. QED BY <1>2, <1>4, <2>3
  <2>4. QED BY <2>1, <2>2, <2>3
<1>5. CASE Tear
  BY <1>1, <1>2, <1>3, <1>5 DEF Tear, BookInv
<1>6. CASE Grant
  <2>1. PICK name \in Names, expires \in {MaxNow, Never} :
          LET g == [kind |-> "grant", id |-> lines + 1, macro |-> name, max |-> GateRisk,
                    expires |-> expires]
          IN  Append1(g) /\ issued' = issued \cup {g}
    BY <1>6 DEF Grant
  <2> DEFINE g == [kind |-> "grant", id |-> lines + 1, macro |-> name, max |-> GateRisk,
                   expires |-> expires]
  <2>2. g.id \in 1..lines' /\ g.id \in 0..lines' /\ g \in Lines
    <3>1. g.id = lines + 1 /\ name \in Names /\ expires \in {MaxNow, Never}
      BY <2>1
    <3>2. lines + 1 \in Nat /\ lines + 1 \in 1..lines' /\ lines + 1 \in 0..lines'
      BY <1>1
    <3>3. g \in Lines
      BY <3>1, <3>2 DEF Lines
    <3> HIDE DEF g
    <3>4. QED BY <3>1, <3>2, <3>3
  <2>3. Append1(g) /\ issued' = issued \cup {g}
    BY <2>1
  <2> HIDE DEF g
  <2>4. \A i \in 1..Len(ledger') : ledger'[i].id \in 0..lines'
    BY <1>4, <2>2, <2>3
  <2>5. QED BY <1>1, <1>3, <2>2, <2>3, <2>4 DEF BookInv
<1>7. CASE Revoke
  <2>1. PICK line \in Lines, gone \in SUBSET issued :
          line.id \in 0..lines' /\ Withdraw(line, gone)
    <3>1. ASSUME NEW name \in Names,
                 Withdraw([kind |-> "revoke", id |-> 0, macro |-> name],
                          {g \in issued : g.macro = name})
          PROVE  \E line \in Lines, gone \in SUBSET issued :
                   line.id \in 0..lines' /\ Withdraw(line, gone)
      <4> DEFINE line == [kind |-> "revoke", id |-> 0, macro |-> name]
                 gone == {g \in issued : g.macro = name}
      <4>1. line \in Lines /\ line.id \in 0..lines' /\ gone \in SUBSET issued
        <5>1. line \in Lines /\ line.id = 0 /\ gone \in SUBSET issued
          BY DEF Lines
        <5>2. 0 \in 0..lines'
          BY <1>1
        <5> HIDE DEF line, gone
        <5>3. QED BY <5>1, <5>2
      <4>2. Withdraw(line, gone)
        BY <3>1
      <4> HIDE DEF line, gone
      <4>3. QED BY <4>1, <4>2
    <3>2. ASSUME NEW grant \in issued,
                 Withdraw([kind |-> "revoke", id |-> grant.id, macro |-> ""], {grant})
          PROVE  \E line \in Lines, gone \in SUBSET issued :
                   line.id \in 0..lines' /\ Withdraw(line, gone)
      <4> DEFINE line == [kind |-> "revoke", id |-> grant.id, macro |-> ""]
      <4>1. grant.id \in 1..lines'
        BY <1>3
      <4>2. line \in Lines /\ line.id \in 0..lines'
        <5>1. grant.id \in Nat /\ grant.id \in 0..lines'
          BY <1>1, <4>1
        <5>2. line \in Lines /\ line.id = grant.id
          BY <5>1 DEF Lines
        <5> HIDE DEF line
        <5>3. QED BY <5>1, <5>2
      <4>3. Withdraw(line, {grant})
        BY <3>2
      <4> HIDE DEF line
      <4>4. QED BY <4>2, <4>3
    <3>3. QED BY <1>7, <3>1, <3>2 DEF Revoke
  <2>2. Append1(line) /\ issued' = issued \ gone
    BY <2>1 DEF Withdraw
  <2>3. \A i \in 1..Len(ledger') : ledger'[i].id \in 0..lines'
    BY <1>4, <2>1, <2>2
  <2>4. QED BY <1>1, <1>3, <2>2, <2>3 DEF BookInv
<1>8. QED BY <1>5, <1>6, <1>7

LEMMA StepTyped ==
  ASSUME IInv, StackInv, BookInv, [Next]_vars
  PROVE  StackInv' /\ BookInv'
<1> USE DEF IInv
<1>1. CASE Grant \/ Revoke \/ Tear
  <2>1. UNCHANGED run
    BY <1>1 DEF Grant, Revoke, Tear, Withdraw
  <2>2. QED BY <1>1, <2>1, WrittenBook DEF StackInv
<1>2. CASE Tick
  <2>1. now' \in 0..MaxNow
    BY <1>2, EngineAssumption DEF Tick, BookInv
  <2>2. QED BY <1>2, <2>1 DEF Tick, ledgerVars, StackInv, BookInv
<1>3. CASE Begin
  <2>1. runs' \in 0..MaxRuns
    BY <1>3, EngineAssumption DEF Begin, BookInv
  <2>2. BookInv'
    BY <1>3, <2>1 DEF Begin, ledgerVars, BookInv
  <2>3. PICK m \in Macros, unattended \in BOOLEAN, yes \in BOOLEAN : run' = Fresh(m, unattended, yes)
    BY <1>3 DEF Begin
  <2>4. m.actions \in Blocks
    BY DocumentAssumption
  <2>5. <<Body(m.actions)>> \in Seq(Frame)
    <3>1. Body(m.actions) \in Frame
      BY <2>4, BodyFrame
    <3> HIDE DEF Frame
    <3>2. QED BY <3>1
  <2>6. run'.frames = <<Body(m.actions)>> /\ run'.ok = TRUE /\ run'.outcome = "ok"
    BY <2>3 DEF Fresh
  <2>7. QED BY <2>2, <2>5, <2>6 DEF StackInv, Codes
<1>4. CASE Interpret
  <2>1. BookInv'
    BY <1>4 DEF Interpret, ledgerVars, BookInv
  <2>2. QED BY <1>4, <2>1, InterpretStack
<1>5. CASE Act
  <2>1. StackInv' /\ cache' \in [Keys -> Codes \cup {NoCode}]
    BY <1>5, ActStack
  <2>2. UNCHANGED <<ledgerVars, now, runs>>
    BY <1>5 DEF Act
  <2>3. BookInv'
    BY <2>1, <2>2 DEF ledgerVars, BookInv
  <2>4. QED BY <2>1, <2>3
<1>6. CASE UNCHANGED vars
  BY <1>6 DEF vars, ledgerVars, StackInv, BookInv
<1>7. QED BY <1>1, <1>2, <1>3, <1>4, <1>5, <1>6 DEF Next, EngineStep

\* However documents nest, the stack is made of frames the interpreter knows: a
\* retry on it has an attempt left, and a line of the ledger has its own number.
THEOREM EngineTypes == Spec => []TypeOK
<1>1. Init => StackInv /\ BookInv
  <2> SUFFICES ASSUME Init PROVE StackInv /\ BookInv
    OBVIOUS
  <2>1. StackInv
    BY DEF Init, NoRun, StackInv
  <2>2. ledger = <<>> /\ Len(<<>>) = 0 /\ issued = {}
    BY DEF Init
  <2>3. torn \in BOOLEAN /\ lines \in 0..MaxLines /\ now \in 0..MaxNow /\ runs \in 0..MaxRuns
    <3>1. torn = FALSE /\ lines = 0 /\ now = 0 /\ runs = 0
      BY DEF Init
    <3>2. 0 \in 0..MaxLines /\ 0 \in 0..MaxNow /\ 0 \in 0..MaxRuns
      BY EngineAssumption
    <3>3. QED BY <3>1, <3>2
  <2>4. cache \in [Keys -> Codes \cup {NoCode}]
    <3> HIDE DEF Codes
    <3>1. QED BY DEF Init
  <2>5. QED BY <2>1, <2>2, <2>3, <2>4 DEF BookInv
<1>2. (IInv /\ StackInv /\ BookInv) /\ [Next]_vars => (IInv /\ StackInv /\ BookInv)'
  BY StepIInv, StepTyped
<1>3. IInv /\ StackInv /\ BookInv => TypeOK
  <2> SUFFICES ASSUME IInv, StackInv, BookInv PROVE TypeOK
    OBVIOUS
  <2>1. \A i \in 1..Len(ledger) : ledger[i].kind \in {"grant", "revoke"}
    <3> SUFFICES ASSUME NEW i \in 1..Len(ledger) PROVE ledger[i].kind \in {"grant", "revoke"}
      OBVIOUS
    <3>1. ledger[i] \in Lines
      <4> HIDE DEF Lines
      <4>1. QED BY DEF IInv, LedgerInv
    <3>2. QED BY <3>1 DEF Lines
  <2>2. run.phase \in {"none", "steps", "gated", "ended", "raised"}
        /\ (run.phase # "none" => run.stopping \in BOOLEAN)
    BY DEF IInv, Shape, NoRun
  <2>3. QED BY <2>1, <2>2 DEF TypeOK, StackInv, BookInv
<1>4. QED BY InitIInv, <1>1, <1>2, <1>3, PTL DEF Spec
=============================================================================
