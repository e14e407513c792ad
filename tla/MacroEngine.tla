---------------------------- MODULE MacroEngine ----------------------------
(***************************************************************************)
(* macro/engine.py: the interpreter of macro documents, one step at a time,*)
(* and the gate in front of every action, which replays the ledger of      *)
(* autonomy grants (macro/autonomy.py) while another process may append to *)
(* it.  Python's call stack is a sequence of frames, innermost first, and  *)
(* _Stop is a signal that unwinds it.                                      *)
(*                                                                         *)
(* runtime.run_action is one step with its outcomes; ActionFunnel has its  *)
(* inside.  No process holds the token of a run, so a run is never         *)
(* cancelled, and the clock does not pass the life of a cached envelope.   *)
(***************************************************************************)
EXTENDS Naturals, Sequences, FiniteSets

CONSTANTS Macros,       \* documents: name, triggered, require_confirm, actions
          Blocks,       \* the lists of steps in them, and what remains of each
          Keys,         \* idempotency keys of their action steps
          NoKey,        \* an action step without one
          Never,        \* expires_at of a grant without an end
          MaxItems,     \* bound: items of the list of a for_each
          MaxRuns,      \* bound: runs
          MaxLines,     \* bound: lines written to the ledger
          MaxNow        \* bound: the clock

\* A step, as schema.py lets it through; max_attempts may be anything.
Steps ==
  [type : {"plain", "stop", "confirm"}]
  \cup [type : {"act"}, key : Keys \cup {NoKey}]
  \cup [type : {"if"}, then : Blocks, else : Blocks]
  \cup [type : {"for_each"}, do : Blocks] \cup [type : {"loop"}, do : Blocks, cap : Nat]
  \cup [type : {"retry"}, do : Blocks, attempts : Nat]
  \cup [type : {"try"}, do : Blocks, finally : Blocks]

ASSUME DocumentAssumption ==
  /\ \A m \in Macros : m.actions \in Blocks
  /\ \A b \in Blocks : b = <<>> \/ (b \in Seq(Steps) /\ Tail(b) \in Blocks)

ASSUME EngineAssumption ==
  /\ NoKey \notin Keys
  /\ Never \notin Nat
  /\ MaxItems \in Nat /\ MaxRuns \in Nat /\ MaxLines \in Nat /\ MaxNow \in Nat

VARIABLES ledger,       \* the lines of autonomy.jsonl that can be read
          torn,         \* the file ends within a line
          lines,        \* lines written, the unreadable ones included
          now,          \* time.time
          cache,        \* the idempotency cache of run_action: key -> code
          run,          \* the run in progress, or the last one
          runs,         \* runs begun
          issued,       \* history: the grants their owner believes in
          unheard,      \* history: grants whose revocation cannot be read
          inputs        \* history: inputs of this run, by key

ledgerVars == <<ledger, torn, lines, issued, unheard>>
vars == <<ledger, torn, lines, now, cache, run, runs, issued, unheard, inputs>>

-----------------------------------------------------------------------------
(* The ledger: appended to line by line, replayed from the start.          *)

Levels == <<"low", "medium", "high", "critical">>
Rank(level) == CHOOSE n \in 1..4 : Levels[n] = level

\* Bound: a grant for a macro without a trigger is never asked for.
Names == {m.name : m \in {d \in Macros : d.triggered}}

\* scopes has no snapshot, and none of the phone verbs of a macro is high or
\* critical by itself: at the gate risk.classify answers low whatever is on
\* the screen, so a grant of any level covers every action of its macro.
GateRisk == "low"

Expired(g) == g.expires # Never /\ g.expires <= now

\* Mutant: a revocation by macro is not replayed, only one by id.
RevokesById(line, g) == line.kind = "revoke" /\ line.id = g.id

Revokes(line, g) ==
  line.kind = "revoke" /\ (line.id = g.id \/ line.macro = g.macro)

LiveGrants ==
  {ledger[i] : i \in {n \in 1..Len(ledger) :
     /\ ledger[n].kind = "grant"
     /\ ~Expired(ledger[n])
     /\ \A later \in (n + 1)..Len(ledger) : ~Revokes(ledger[later], ledger[n])}}

Decide(m, risk, grants) ==
  LET covering == {g \in grants : g.macro = m.name /\ Rank(g.max) >= Rank(risk)}
  IN  IF risk = "critical"
        THEN IF \E g \in covering : g.max = "critical" THEN "confirm" ELSE "deny"
        ELSE IF m.require_confirm \/ covering = {} THEN "confirm" ELSE "allow"

\* A line after a torn one is glued to it, and neither can be read.
Append1(line) ==
  /\ lines < MaxLines
  /\ lines' = lines + 1
  /\ torn' = FALSE
  /\ ledger' = IF torn THEN ledger ELSE Append(ledger, line)

Grant ==
  \E name \in Names, expires \in {MaxNow, Never} :
    LET g == [kind |-> "grant", id |-> lines + 1, macro |-> name, max |-> GateRisk,
              expires |-> expires]
    IN  /\ Append1(g)
        /\ issued' = issued \cup {g}
        /\ UNCHANGED <<now, cache, run, runs, unheard, inputs>>

Withdraw(line, gone) ==
  /\ gone # {}
  /\ Append1(line)
  /\ issued' = issued \ gone
  /\ unheard' = IF torn THEN unheard \cup gone ELSE unheard
  /\ UNCHANGED <<now, cache, run, runs, inputs>>

\* All grants of a macro, or one of them.
Revoke ==
  \/ \E name \in Names :
       Withdraw([kind |-> "revoke", id |-> 0, macro |-> name],
                {g \in issued : g.macro = name})
  \/ \E g \in issued : Withdraw([kind |-> "revoke", id |-> g.id, macro |-> ""], {g})

\* The process that appends dies within the line.
Tear ==
  /\ lines < MaxLines
  /\ lines' = lines + 1
  /\ torn' = TRUE
  /\ UNCHANGED <<ledger, now, cache, run, runs, issued, unheard, inputs>>

Tick ==
  /\ now < MaxNow
  /\ now' = now + 1
  /\ UNCHANGED <<ledgerVars, cache, run, runs, inputs>>

-----------------------------------------------------------------------------
(* The interpreter's stack.                                                *)

NoRun == [phase |-> "none"]
NoCode == "none"
Body(steps) == [kind |-> "body", steps |-> steps]

Fresh(m, unattended, yes) ==
  [phase |-> "steps", macro |-> m, unattended |-> unattended, yes |-> yes,
   frames |-> <<Body(m.actions)>>, stopping |-> FALSE, key |-> NoKey,
   ok |-> TRUE, outcome |-> "ok",
   covered |-> FALSE,   \* history: the owner let the action at the gate run
   failed |-> FALSE,    \* history: a failure nothing has handled
   unredone |-> FALSE]  \* history: a failure no retry has begun again

Init ==
  /\ ledger = <<>> /\ torn = FALSE /\ lines = 0
  /\ now = 0
  /\ cache = [k \in Keys |-> NoCode]
  /\ run = NoRun /\ runs = 0
  /\ issued = {} /\ unheard = {}
  /\ inputs = [k \in Keys |-> 0]

\* Attended runs come from the command line or a macro_run job; triggers and
\* the scheduler start unattended ones, never with yes.
Begin ==
  /\ run.phase \in {"none", "ended", "raised"} /\ runs < MaxRuns
  /\ runs' = runs + 1
  /\ \E m \in Macros :
       run' \in {Fresh(m, FALSE, TRUE), Fresh(m, FALSE, FALSE)}
               \cup IF m.triggered THEN {Fresh(m, TRUE, FALSE)} ELSE {}
  /\ inputs' = [k \in Keys |-> 0]
  /\ UNCHANGED <<ledgerVars, now, cache>>

Top == run.frames[1]
Below == Tail(run.frames)
On(kind) == run.phase = "steps" /\ run.frames # <<>> /\ Top.kind = kind

Ready(type) ==
  On("body") /\ ~run.stopping /\ Top.steps # <<>> /\ Head(Top.steps).type = type

Step == Head(Top.steps)
Rest == <<Body(Tail(Top.steps))>> \o Below

Frames(frames) == run' = [run EXCEPT !.frames = frames]
Failing(code) ==
  [run EXCEPT !.ok = FALSE, !.outcome = code, !.stopping = TRUE,
              !.failed = TRUE, !.unredone = TRUE]

Fail(code) == run' = Failing(code)

\* Exceptions other than _Stop are caught nowhere: not even finally runs.
Raise == run' = [run EXCEPT !.phase = "raised", !.frames = <<>>]

\* A condition on variables: either value, or an exception (an unknown type,
\* an unset variable in a comparison).
Conditions == {"holds", "fails", "raises"}

-----------------------------------------------------------------------------
(* _exec_step                                                              *)

\* set, wait, audit_note, race
Plain == Ready("plain") /\ Frames(Rest)

StopStep == Ready("stop") /\ run' = [run EXCEPT !.stopping = TRUE]

\* Nobody passes Engine a confirm, so it is the one that refuses.
Confirm == Ready("confirm") /\ Fail("confirmation_required")

\* if, and switch with two cases
If ==
  /\ Ready("if")
  /\ \E c \in Conditions :
       CASE c = "holds" -> Frames(<<Body(Step.then)>> \o Rest)
         [] c = "fails" -> Frames(<<Body(Step.else)>> \o Rest)
         [] OTHER       -> Raise

\* for_each has a list to go through, loop a condition and max_iterations.
Loop ==
  \/ /\ Ready("loop")
     /\ Frames(<<[kind |-> "loop", do |-> Step.do, left |-> Step.cap, while |-> TRUE]>>
               \o Rest)
  \/ /\ Ready("for_each")
     /\ \E n \in 0..MaxItems :
          Frames(<<[kind |-> "loop", do |-> Step.do, left |-> n, while |-> FALSE]>>
                 \o Rest)

Turn == <<Body(Top.do), [Top EXCEPT !.left = @ - 1]>> \o Below

Iterate ==
  /\ On("loop") /\ ~run.stopping
  /\ IF Top.left = 0 THEN Frames(Below)
     ELSE \E c \in IF Top.while THEN Conditions ELSE {"holds"} :
            CASE c = "holds" -> Frames(Turn)
              [] c = "fails" -> Frames(Below)
              [] OTHER       -> Raise

Retry ==
  /\ Ready("retry")
  /\ Frames(IF Step.attempts = 0 THEN Rest
            ELSE <<Body(Step.do), [kind |-> "retry", do |-> Step.do, left |-> Step.attempts,
                                   ok |-> run.ok, outcome |-> run.outcome]>> \o Rest)

Retryable == {"busy", "rate_limited", "observe_failed", "stale_snapshot"}

\* Mutant: one attempt too many.
LastAttemptLate == Top.left = 0

LastAttempt == Top.left = 1

\* Mutant: the number of the attempt is not counted.
RetryJudgesUncounted ==
  /\ On("retry")
  /\ IF run.ok
       THEN run' = [run EXCEPT !.frames = Below, !.stopping = FALSE]
     ELSE IF run.outcome \notin Retryable
       THEN run' = [run EXCEPT !.frames = Below, !.stopping = TRUE]
     ELSE run' = [run EXCEPT !.frames = <<Body(Top.do)>> \o run.frames,
                             !.stopping = FALSE, !.ok = Top.ok, !.outcome = Top.outcome,
                             !.failed = FALSE, !.unredone = FALSE]

\* The body is over, by its end or by _Stop; only state["ok"] is asked.
RetryJudges ==
  /\ On("retry")
  /\ IF run.ok
       THEN run' = [run EXCEPT !.frames = Below, !.stopping = FALSE]
     ELSE IF run.outcome \notin Retryable \/ LastAttempt
       THEN run' = [run EXCEPT !.frames = Below, !.stopping = TRUE]
     ELSE run' = [run EXCEPT !.frames = Turn, !.stopping = FALSE,
                             !.ok = Top.ok, !.outcome = Top.outcome,
                             !.failed = FALSE, !.unredone = FALSE]

Try ==
  /\ Ready("try")
  /\ Frames(<<Body(Step.do), [kind |-> "try", finally |-> Step.finally]>> \o Rest)

\* Mutant: what was swallowed is forgotten.
TryEndsForgiving ==
  /\ On("try")
  /\ run' = [run EXCEPT !.frames = <<Body(Top.finally)>> \o Below,
                        !.stopping = FALSE, !.failed = FALSE,
                        !.ok = TRUE, !.outcome = "ok"]

\* _Stop is swallowed with the outcome kept, and finally runs.
TryEnds ==
  /\ On("try")
  /\ run' = [run EXCEPT !.frames = <<Body(Top.finally)>> \o Below,
                        !.stopping = FALSE, !.failed = FALSE]

Transparent == {"body", "loop"}

\* A frame that does not catch _Stop, or a list of steps that is through.
Unwind ==
  /\ run.phase = "steps" /\ run.frames # <<>>
  /\ \/ run.stopping /\ Top.kind \in Transparent
     \/ ~run.stopping /\ Top.kind = "body" /\ Top.steps = <<>>
  /\ Frames(Below)

-----------------------------------------------------------------------------
(* _exec_action                                                            *)

Gate(m, unattended) ==
  LET verdict == Decide(m, GateRisk, LiveGrants)
  IN  IF verdict = "confirm" /\ ~unattended THEN "allow" ELSE verdict

Believed == \E g \in issued \cup unheard : g.macro = run.macro.name /\ ~Expired(g)

PassGate ==
  /\ Ready("act")
  /\ LET verdict == Gate(run.macro, run.unattended)
     IN  CASE verdict = "allow" ->
                run' = [run EXCEPT !.phase = "gated", !.frames = Rest, !.key = Step.key,
                                   !.covered = Believed /\ ~run.macro.require_confirm]
           [] verdict = "confirm" -> Fail("confirmation_required")
           [] OTHER -> Fail("guarded_action")

\* What run_action may answer, and whether the input went in: it observes
\* before the input and again after it.  rate_limited, stale_snapshot and
\* stopped end like one of these.  An exception that is not a DroidjigError
\* (a verb without a function, a file that cannot be written) leaves it.
Outcomes(risk) ==
  {[code |-> "busy", input |-> FALSE], [code |-> "raises", input |-> FALSE]}
  \cup IF risk = "critical" THEN {[code |-> "guarded_action", input |-> FALSE]}
       ELSE IF risk = "high" /\ ~run.yes
              THEN {[code |-> "confirmation_required", input |-> FALSE]}
       ELSE {[code |-> "ok", input |-> TRUE], [code |-> "observe_failed", input |-> TRUE],
             [code |-> "raises", input |-> TRUE]}

Settle(code) ==
  CASE code = "ok"     -> run' = [run EXCEPT !.phase = "steps"]
    [] code = "raises" -> Raise
    [] OTHER           -> run' = [Failing(code) EXCEPT !.phase = "steps"]

\* Mutant: only successes are kept.
KeptIfOk(key, code) ==
  IF key \in Keys /\ code = "ok" THEN [cache EXCEPT ![key] = code] ELSE cache

\* Every envelope is cached under the key, a failure too.
Kept(key, code) ==
  IF key \in Keys /\ code # "raises" THEN [cache EXCEPT ![key] = code] ELSE cache

Replayed == run.key \in Keys /\ cache[run.key] # NoCode

Act ==
  /\ run.phase = "gated"
  /\ \/ /\ Replayed
        /\ Settle(cache[run.key])
        /\ UNCHANGED <<cache, inputs>>
     \/ /\ ~Replayed
        /\ \E risk \in {"low", "high", "critical"} : \E o \in Outcomes(risk) :
             /\ Settle(o.code)
             /\ cache' = Kept(run.key, o.code)
             /\ inputs' = IF o.input /\ run.key \in Keys
                            THEN [inputs EXCEPT ![run.key] = @ + 1] ELSE inputs
  /\ UNCHANGED <<ledgerVars, now, runs>>

\* run() appends its record and returns an envelope.
End ==
  /\ run.phase = "steps" /\ run.frames = <<>>
  /\ run' = [run EXCEPT !.phase = "ended"]

Interpret ==
  /\ \/ Plain \/ StopStep \/ Confirm \/ If \/ Loop \/ Iterate \/ Retry \/ RetryJudges
     \/ Try \/ TryEnds \/ Unwind \/ PassGate \/ End
  /\ UNCHANGED <<ledgerVars, now, cache, runs, inputs>>

EngineStep == Interpret \/ Act

Next == Grant \/ Revoke \/ Tear \/ Tick \/ Begin \/ EngineStep

Spec == Init /\ [][Next]_vars /\ WF_vars(EngineStep)

-----------------------------------------------------------------------------
Running == run.phase \in {"steps", "gated"}

Codes == {"ok", "guarded_action", "confirmation_required"} \cup Retryable

Frame ==
  [kind : {"body"}, steps : Blocks] \cup [kind : {"try"}, finally : Blocks]
  \cup [kind : {"loop"}, do : Blocks, left : Nat, while : BOOLEAN]
  \cup [kind : {"retry"}, do : Blocks, left : Nat \ {0}, ok : BOOLEAN, outcome : Codes]

\* Types: every frame is one the interpreter knows, a retry has an attempt
\* left while it is on the stack, and a line's id is the number of the line.
TypeOK ==
  /\ \A i \in 1..Len(ledger) : ledger[i].kind \in {"grant", "revoke"} /\ ledger[i].id \in 0..lines
  /\ torn \in BOOLEAN /\ lines \in 0..MaxLines /\ now \in 0..MaxNow /\ runs \in 0..MaxRuns
  /\ cache \in [Keys -> Codes \cup {NoCode}]
  /\ run.phase \in {"none", "steps", "gated", "ended", "raised"}
  /\ run.phase # "none" =>
       /\ run.frames \in Seq(Frame)
       /\ run.stopping \in BOOLEAN /\ run.ok \in BOOLEAN /\ run.outcome \in Codes

\* An unattended action runs only for a macro without require_confirm for
\* which its owner had, when the gate decided, a grant neither expired nor
\* revoked.  (The one way around it is a revocation glued to a torn line.)
GrantCoversUnattended ==
  run.phase = "gated" /\ run.unattended => run.covered

\* After a failure no action is let through until a try has swallowed it or a
\* retry has begun again, however deep in loops and branches it happened.
NothingAfterFailure == run.phase = "gated" => ~run.failed

\* A run that reports success had no failure, or a retry began anew after it;
\* a failure a try has swallowed shows in the envelope.
SuccessHidesNoFailure == run.phase = "ended" /\ run.ok => ~run.unredone

\* A failure counts, however it is nested: it bars the actions behind it and
\* shows in the envelope, until a handler has dealt with it.
FailuresCount == NothingAfterFailure /\ SuccessHidesNoFailure

\* Under an idempotency key the input goes in once in a run, whatever loop and
\* retry do and although an observation may fail after the input.
KeyedInputGoesInOnce == \A k \in Keys : inputs[k] <= 1

\* Every run ends: loops and retries are bounded, and whatever an action
\* answers the interpreter goes on.
RunsEnd == Running ~> ~Running
=============================================================================
